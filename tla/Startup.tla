------------------------------ MODULE Startup ------------------------------
(***************************************************************************)
(* main() of the server up to the constructor of TcpServer: two passes     *)
(* over argv with the configuration file read in between, two validations  *)
(* and the checks of the constructor.                                      *)
(*                                                                         *)
(* A piece of text is abstracted to what the parsers tell apart: a number, *)
(* the empty text, one of the accepted names, or anything else.            *)
(***************************************************************************)
EXTENDS Integers, Sequences, FiniteSetsExt

CONSTANTS
    Cores,      \* hardware_concurrency(), which may be 0
    Cases       \* the pairs <<configuration file, argv>> to start from

VARIABLES
    step,       \* where main() is
    file,       \* the file --config names: key -> text, Absent: not in the file
    argv,       \* the arguments after the program name
    i,          \* index of the loop over argv
    configPath, \* what FindConfigPath has found, NoText: nothing
    config,     \* AppConfig: key -> number or name
    error       \* history: what was refused last ("": nothing)

startupVars == <<step, file, argv, i, configPath, config, error>>

----------------------------------------------------------------------------
(* Texts, keys and arguments *)

Number(n) == [kind |-> "number", name |-> "", n |-> n]
Name(t) == [kind |-> "name", name |-> t, n |-> 0]
Absent == [kind |-> "absent", name |-> "", n |-> 0]
NoText == Absent
Empty == Name("")

Strings == {"host", "poller", "level"}
Sizes == {"max_read", "low", "high", "hard", "max_write", "max_accepts"}
Keys == Strings \cup Sizes \cup {"port", "sub_reactors", "timeout", "sweep"}
Overridable == {"host", "port", "poller", "sub_reactors", "level"}

Backends == {"auto", "poll", "epoll"}
Levels == {"debug", "info", "warn", "error", "off"}
Ports == 1 .. 65535

\* AppConfig's member initializers.
Default ==
    [k \in Keys |->
        CASE k = "host" -> Name("0.0.0.0") [] k = "port" -> Number(7777)
          [] k = "poller" -> Name("auto")  [] k = "sub_reactors" -> Number(2)
          [] k = "level" -> Name("info")   [] k = "max_read" -> Number(1048580)
          [] k = "low" -> Number(524288)   [] k = "high" -> Number(1048576)
          [] k = "hard" -> Number(4194304) [] k = "max_write" -> Number(65536)
          [] k = "max_accepts" -> Number(64) [] k = "timeout" -> Number(3000)
          [] k = "sweep" -> Number(5000)]

\* An argument: a word, an option ("--port"), or an option with its value
\* ("--port=8").  -c and -h are spellings of --config and --help.
Word(t) == [option |-> "none", inline |-> FALSE, value |-> t]
Bare(o) == [option |-> o, inline |-> FALSE, value |-> NoText]
Inline(o, t) == [option |-> o, inline |-> TRUE, value |-> t]

IsText(t) ==
    /\ t.kind \in {"number", "name", "absent"} /\ t.n \in Int
    /\ t.kind = "absent" => t = Absent

ASSUME StartupAssumption ==
    /\ Cores \in Nat
    /\ \A case \in Cases :
          /\ \A k \in Keys : IsText(case[1][k])
          /\ DOMAIN case[2] = 1 .. Len(case[2]) /\ Len(case[2]) \in Nat
          /\ \A j \in DOMAIN case[2] : IsText(case[2][j].value)

\* An argument read as the value of the option before it.
AsText(a) == IF a.option = "none" THEN a.value ELSE Name("an option")

----------------------------------------------------------------------------
(* Parsing and validation *)

\* 0 sub-reactors stands for half the cores, between 1 and 8.
AutoSubReactors == Max({1, Min({8, Cores \div 2})})

Resolve(k, t) == IF k = "sub_reactors" /\ t.n = 0 THEN Number(AutoSubReactors) ELSE t

\* What the Read...Config functions demand of a key that is in the file.
ReadAccepts(k, t) ==
    /\ t.kind = IF k \in Strings THEN "name" ELSE "number"
    /\ k = "poller" => t.name \in Backends
    /\ k = "level" => t.name \in Levels
    /\ k = "port" => t.n \in Ports
    /\ k = "sub_reactors" => t.n \in 0 .. 16
    /\ k \in Sizes => t.n >= 0
    /\ k \in {"timeout", "sweep"} => t.n > 0

\* What ParseInteger, ParsePollerBackend and ParseLogLevel demand of the value
\* of an option.
OptionAccepts(k, t) ==
    /\ k \in {"poller", "level"} => t.kind = "name"
    /\ k = "poller" => t.name \in Backends
    /\ k = "level" => t.name \in Levels
    /\ k \in {"port", "sub_reactors"} => t.kind = "number"
    /\ k = "sub_reactors" => t.n >= 0

\* ConfigLoader::Validate.
Validate(c) ==
    /\ c["host"] # Empty
    /\ c["port"].n \in Ports
    /\ c["max_read"].n >= 4
    /\ c["low"].n <= c["high"].n
    /\ c["high"].n <= c["hard"].n
    /\ c["max_write"].n > 0
    /\ c["max_accepts"].n > 0
    /\ c["sub_reactors"].n <= 16
    /\ c["timeout"].n > 0
    /\ c["sweep"].n >= 0

\* The checks of TcpServer's constructor.
ConstructorAccepts(c) ==
    /\ c["max_read"].n >= 4
    /\ c["low"].n <= c["high"].n
    /\ c["high"].n <= c["hard"].n
    /\ c["max_write"].n > 0
    /\ c["max_accepts"].n > 0
    /\ c["sub_reactors"].n \in 1 .. 16

Present(f) == {k \in Keys : f[k] # Absent}

----------------------------------------------------------------------------

StartupInit ==
    /\ \E case \in Cases : file = case[1] /\ argv = case[2]
    /\ step = "help"
    /\ i = 1
    /\ configPath = NoText
    /\ config = Default
    /\ error = ""

Refuse(what) ==
    /\ step' = "refused"
    /\ error' = what

\* NeedShowHelp: --help anywhere, but only alone.
Help ==
    /\ step = "help"
    /\ IF \A j \in DOMAIN argv : argv[j] # Bare("help")
       THEN step' = "find" /\ UNCHANGED error
       ELSE IF Len(argv) = 1 THEN step' = "helped" /\ UNCHANGED error
       ELSE Refuse("help")
    /\ UNCHANGED <<file, argv, i, configPath, config>>

\* RequireNextValue and ParseInlineValue: the value of the option at j, NoText
\* when it is missing or empty.
ValueAt(j) ==
    LET t == IF argv[j].inline THEN argv[j].value
             ELSE IF j < Len(argv) THEN AsText(argv[j + 1]) ELSE NoText
    IN  IF t = Empty THEN NoText ELSE t

\* The argument after the option at j and its value.
NextAt(j) == IF argv[j].inline THEN j + 1 ELSE j + 2

IsConfig(j) == argv[j].option = "config"

\* One iteration of FindConfigPath, which passes over everything but --config.
FindConfigPath ==
    /\ step = "find" /\ i <= Len(argv)
    /\ IF ~IsConfig(i)
       THEN i' = i + 1 /\ UNCHANGED <<step, error, configPath>>
       ELSE IF ValueAt(i) = NoText \/ configPath # NoText
       THEN Refuse("config") /\ UNCHANGED <<i, configPath>>
       ELSE i' = NextAt(i) /\ configPath' = ValueAt(i) /\ UNCHANGED <<step, error>>
    /\ UNCHANGED <<file, argv, config>>

Found ==
    /\ step = "find" /\ i > Len(argv)
    /\ i' = 1
    /\ step' = IF configPath = NoText THEN "apply" ELSE "load"
    /\ UNCHANGED <<file, argv, configPath, config, error>>

\* LoadFromFile: unless the file cannot be parsed, its keys one after the other
\* over the defaults, then Validate.
LoadFromFile ==
    /\ step = "load"
    /\ LET bad == {k \in Present(file) : ~ReadAccepts(k, file[k])}
           loaded == [k \in Keys |->
               IF file[k] = Absent THEN Default[k] ELSE Resolve(k, file[k])]
       IN  IF bad # {} THEN (\E k \in bad : Refuse(k)) /\ UNCHANGED config
           ELSE IF ~Validate(loaded) THEN Refuse("file") /\ UNCHANGED config
           ELSE step' = "apply" /\ config' = loaded /\ UNCHANGED error
    /\ UNCHANGED <<file, argv, i, configPath>>

FileUnreadable ==
    /\ step = "load"
    /\ Refuse("file")
    /\ UNCHANGED <<file, argv, i, configPath, config>>

\* Mutant: the command line only fills in what the file left open.
Override_OnlyDefaults(k, t) ==
    IF config[k] = Default[k] THEN [config EXCEPT ![k] = Resolve(k, t)] ELSE config

Override(k, t) == [config EXCEPT ![k] = Resolve(k, t)]

\* One iteration of ApplyCommandLineOverrides.  (--help with a value is unknown.)
ApplyCommandLineOverrides ==
    /\ step = "apply" /\ i <= Len(argv)
    /\ LET o == argv[i].option
           t == ValueAt(i)
       IN  IF argv[i] = Bare("help") THEN i' = i + 1 /\ UNCHANGED <<step, error, config>>
           ELSE IF o \in Overridable \cup {"config"} /\ t # NoText
              /\ (o = "config" \/ OptionAccepts(o, t))
           THEN /\ config' = IF o = "config" THEN config ELSE Override(o, t)
                /\ i' = NextAt(i)
                /\ UNCHANGED <<step, error>>
           ELSE Refuse("option") /\ UNCHANGED <<i, config>>
    /\ UNCHANGED <<file, argv, configPath>>

\* The second Validate.
Applied ==
    /\ step = "apply" /\ i > Len(argv)
    /\ IF Validate(config) THEN step' = "construct" /\ UNCHANGED error ELSE Refuse("config")
    /\ UNCHANGED <<file, argv, i, configPath, config>>

\* TcpServer server(...).
Construct ==
    /\ step = "construct"
    /\ IF ConstructorAccepts(config) THEN step' = "constructed" /\ UNCHANGED error
       ELSE Refuse("constructor")
    /\ UNCHANGED <<file, argv, i, configPath, config>>

StartupNext ==
    \/ Help \/ FindConfigPath \/ Found \/ LoadFromFile \/ FileUnreadable
    \/ ApplyCommandLineOverrides \/ Applied \/ Construct

StartupSpec == StartupInit /\ [][StartupNext]_startupVars

----------------------------------------------------------------------------
(* Properties *)

\* Places of main(), the loop index, and what each setting can hold: the value of
\* --host is taken as it is, every other setting has been parsed.
StartupTypeOK ==
    /\ step \in {"help", "helped", "find", "load", "apply", "construct", "constructed", "refused"}
    /\ i \in 1 .. Len(argv) + 2
    /\ \A k \in Keys : config[k].kind \in
          IF k = "host" THEN {"name", "number"} ELSE IF k \in Strings THEN {"name"} ELSE {"number"}

\* The arguments that are the value of the option before them.
IsValue[j \in 0 .. Len(argv)] ==
    /\ j > 1
    /\ argv[j - 1].option \notin {"none", "help"}
    /\ ~argv[j - 1].inline
    /\ ~IsValue[j - 1]

Uses(o) == {j \in DOMAIN argv : argv[j].option = o /\ ~IsValue[j]}

\* README: built-in defaults < TOML file < command line.  Every setting the
\* server is constructed with is the last one the command line gives, else the
\* one in the file that was loaded, else the default; 0 sub-reactors never
\* survive from either.
Precedence ==
    step = "constructed" =>
        \A k \in Keys : config[k] =
            IF Uses(k) # {} THEN Resolve(k, ValueAt(Max(Uses(k))))
            ELSE IF configPath # NoText /\ file[k] # Absent THEN Resolve(k, file[k])
            ELSE Default[k]

\* What the loader and Validate let through, TcpServer's constructor accepts as
\* well: the two lists of checks differ, and agree only because 0 sub-reactors
\* are resolved wherever they can be given.
ValidateSuffices == error # "constructor"

\* Unless an option takes an option for its value, FindConfigPath, which does
\* not skip values, finds the one --config that ApplyCommandLineOverrides skips.
PathFound ==
    (step = "constructed" /\ \A j \in DOMAIN argv : IsValue[j] => argv[j].option = "none") =>
        /\ Cardinality(Uses("config")) <= 1
        /\ IF Uses("config") = {} THEN configPath = NoText
           ELSE \A j \in Uses("config") : configPath = ValueAt(j)

\* main() runs the server with the settings the rule of precedence gives (defaults,
\* file, command line), found where both passes over argv agree the file is, and
\* never with settings that TcpServer's constructor then refuses.
SettingsRight == StartupTypeOK /\ Precedence /\ PathFound /\ ValidateSuffices

\* command_line.cpp: FindConfigPath has dealt with --config, its value must be
\* skipped in the second pass.  The file that was loaded is one that a --config
\* option of the second pass names.
LoadedFileWasSkipped ==
    step = "constructed" /\ configPath # NoText =>
        \E j \in Uses("config") : configPath = ValueAt(j)

\* config_loader.cpp: sweep_interval_ms "must not be negative".
SweepRefusedOnlyIfNegative ==
    error = "sweep" => file["sweep"].kind # "number" \/ file["sweep"].n < 0

============================================================================
