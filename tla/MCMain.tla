------------------------------ MODULE MCMain -------------------------------
(***************************************************************************)
(* main() of the server from its arguments to its end: Startup on many     *)
(* files with few arguments and on few files with many arguments; where no *)
(* argument was given, Lifecycle takes over once TcpServer's constructor   *)
(* has accepted the settings.  What Lifecycle does with a server does not  *)
(* depend on its settings.                                                 *)
(***************************************************************************)
EXTENDS Startup, Lifecycle, TLC

\* Texts for a key of the file: both sides of every limit, and a wrong type.
MCTexts(k) ==
    IF k \in Strings
    THEN {Empty, Name("poll"), Name("debug"), Number(1)}
    ELSE {Number(n) : n \in {-1, 0, 1, 4, 16, 17, 65536, 2097152}} \cup {Name("x")}

MCEmptyFile == [k \in Keys |-> Absent]

\* Files with up to two keys.
MCFiles ==
    UNION {{[MCEmptyFile EXCEPT ![p[1]] = t, ![p[2]] = u] :
               t \in MCTexts(p[1]), u \in MCTexts(p[2])} : p \in Keys \X Keys}

MCSomeFile == [MCEmptyFile EXCEPT !["port"] = Number(16), !["sub_reactors"] = Number(0),
                                  !["host"] = Name("x")]

MCArguments ==
    {Bare(o) : o \in {"config", "host", "port", "sub_reactors", "help", "unknown"}}
    \cup {Word(t) : t \in {Empty, Name("x"), Number(0), Number(17)}}
    \cup {Inline("config", Name("x")), Inline("port", Number(8)), Inline("port", Empty),
          Inline("port", Number(0)), Inline("level", Name("debug")),
          Inline("help", Name("x"))}

MCArgvs == UNION {[1 .. n -> MCArguments] : n \in 0 .. 3}

MCCases ==
    (MCFiles \X {<<Inline("config", Name("x"))>>,
                 <<Inline("config", Name("x")), Inline("port", Number(8))>>})
    \cup ({MCSomeFile} \X MCArgvs)

----------------------------------------------------------------------------
Running == step = "constructed" /\ argv = <<>>

MCMainStep == Running /\ MainStep /\ UNCHANGED startupVars

MCHandlerStep(t) == Running /\ HandlerStep(t) /\ UNCHANGED startupVars

MCStarts == StartupNext /\ UNCHANGED vars

MCRuns == Running /\ Next /\ UNCHANGED startupVars

MCInit == StartupInit /\ Init

MCSpec ==
    /\ MCInit
    /\ [][MCStarts \/ MCRuns]_<<startupVars, vars>>
    /\ WF_vars(MCMainStep)
    /\ \A t \in Threads : WF_vars(MCHandlerStep(t))

============================================================================
