----------------------------- MODULE MainProofs -----------------------------
(***************************************************************************)
(* main() of the server: the settings it starts with, proved for every     *)
(* configuration file, command line and number of cores; and the signals   *)
(* and dispositions around Run, proved for every capacity of the stop      *)
(* channel and every number of signals.                                    *)
(***************************************************************************)
EXTENDS Startup, Lifecycle, FiniteSetTheorems, RecursionLemmas

-----------------------------------------------------------------------------
(* Which arguments are values *)

\* IsValue, of any arguments a.
ValuesOf(a) ==
    CHOOSE f : f = [j \in 0 .. Len(a) |->
        /\ j > 1
        /\ a[j - 1].option \notin {"none", "help"}
        /\ ~a[j - 1].inline
        /\ ~f[j - 1]]

\* The recursive definition of IsValue has a solution, so it holds as a rule.
LEMMA ValuesRule ==
    ASSUME NEW a, Len(a) \in Nat, NEW j \in 0 .. Len(a)
    PROVE  ValuesOf(a)[j] <=> /\ j > 1
                              /\ a[j - 1].option \notin {"none", "help"}
                              /\ ~a[j - 1].inline
                              /\ ~ValuesOf(a)[j - 1]
<1> DEFINE Takes(n) == n > 1 /\ a[n - 1].option \notin {"none", "help"} /\ ~a[n - 1].inline
           F == [x \in Nat \X BOOLEAN |-> Takes(x[1]) /\ ~x[2]]
           G(f) == [n \in 0 .. Len(a) |-> Takes(n) /\ ~f[n - 1]]
<1>1. F \in [Nat \X BOOLEAN -> BOOLEAN]
  OBVIOUS
<1>2. \A n \in Nat, b \in BOOLEAN : F[<<n, b>>] = (Takes(n) /\ ~b)
  OBVIOUS
<1>3. ~Takes(0)
  OBVIOUS
<1>4. ValuesOf(a) = CHOOSE f : f = G(f)
  BY DEF ValuesOf
<1> HIDE DEF F, Takes
<1>5. PICK f : Follows(f, Len(a), FALSE, F)
  BY FollowsExists
<1>6. f \in [0 .. Len(a) -> BOOLEAN]
  BY <1>1, <1>5, FollowsTyped
<1>7. ASSUME NEW n \in 0 .. Len(a) PROVE f[n] = (Takes(n) /\ ~f[n - 1])
  <2>1. f[n] = IF n = 0 THEN FALSE ELSE F[<<n, f[n - 1]>>]
    BY <1>5, <1>7 DEF Follows
  <2>2. CASE n = 0
    BY <1>3, <2>1, <2>2
  <2>3. CASE n # 0
    <3>1. n \in Nat /\ f[n - 1] \in BOOLEAN
      BY <1>6, <1>7, <2>3
    <3>2. F[<<n, f[n - 1]>>] = (Takes(n) /\ ~f[n - 1])
      BY <1>2, <3>1
    <3> QED
      BY <2>1, <2>3, <3>2
  <2> QED
    BY <2>2, <2>3
<1>8. f = G(f)
  BY <1>6, <1>7
<1> HIDE DEF G
<1>9. ValuesOf(a) = G(ValuesOf(a))
  BY <1>4, <1>8, Zenon
<1>10. ValuesOf(a)[j] = (Takes(j) /\ ~ValuesOf(a)[j - 1])
  BY <1>9 DEF G
<1> QED
  BY <1>10 DEF Takes

\* ValueAt and Uses, of any arguments a.
TextOf(a, j) ==
    LET t == IF a[j].inline THEN a[j].value
             ELSE IF j < Len(a) THEN AsText(a[j + 1]) ELSE NoText
    IN  IF t = Empty THEN NoText ELSE t

UsesOf(a, o) == {j \in DOMAIN a : a[j].option = o /\ ~ValuesOf(a)[j]}

\* What the properties say of argv is what these say of it.
LEMMA ArgumentsOfMain ==
    /\ IsValue = ValuesOf(argv)
    /\ \A j : ValueAt(j) = TextOf(argv, j)
    /\ \A o : Uses(o) = UsesOf(argv, o)
<1>1. IsValue = ValuesOf(argv)
  BY DEF IsValue, ValuesOf
<1>2. \A j : ValueAt(j) = TextOf(argv, j)
  BY DEF ValueAt, TextOf
<1>3. \A o : Uses(o) = UsesOf(argv, o)
  BY <1>1 DEF Uses, UsesOf
<1> QED
  BY <1>1, <1>2, <1>3

ArgumentsOK(a) ==
    /\ DOMAIN a = 1 .. Len(a) /\ Len(a) \in Nat
    /\ \A j \in DOMAIN a : IsText(a[j].value)

\* The argument after the option at n and its value.
Behind(a, n) == IF a[n].inline THEN n + 1 ELSE n + 2

\* The second pass, at an option that is not itself a value, goes on behind its
\* value: it passes over no other option, and stops at none that is a value.
LEMMA NextOption ==
    ASSUME NEW a, ArgumentsOK(a), NEW n \in 1 .. Len(a), ~ValuesOf(a)[n],
           a[n].option \notin {"none", "help"}
    PROVE  /\ Behind(a, n) \in 1 .. Len(a) + 2
           /\ Behind(a, n) <= Len(a) => ~ValuesOf(a)[Behind(a, n)]
           /\ \A j \in DOMAIN a : j < Behind(a, n) /\ ~ValuesOf(a)[j] => j <= n
<1>1. Len(a) \in Nat /\ DOMAIN a = 1 .. Len(a)
  BY DEF ArgumentsOK
<1>2. CASE a[n].inline
  <2>1. Behind(a, n) = n + 1
    BY <1>2 DEF Behind
  <2>2. n + 1 <= Len(a) => ~ValuesOf(a)[n + 1]
    <3> SUFFICES ASSUME n + 1 <= Len(a) PROVE ~ValuesOf(a)[n + 1]
      OBVIOUS
    <3>1. n + 1 \in 0 .. Len(a) /\ (n + 1) - 1 = n
      BY <1>1
    <3> QED
      BY <1>1, <1>2, <3>1, ValuesRule
  <2> QED
    BY <1>1, <2>1, <2>2
<1>3. CASE ~a[n].inline
  <2>1. Behind(a, n) = n + 2
    BY <1>3 DEF Behind
  <2>2. n + 1 <= Len(a) => ValuesOf(a)[n + 1]
    <3> SUFFICES ASSUME n + 1 <= Len(a) PROVE ValuesOf(a)[n + 1]
      OBVIOUS
    <3>1. n + 1 \in 0 .. Len(a) /\ (n + 1) - 1 = n /\ n + 1 > 1
      BY <1>1
    <3> QED
      BY <1>1, <1>3, <3>1, ValuesRule
  <2>3. n + 2 <= Len(a) => ~ValuesOf(a)[n + 2]
    <3> SUFFICES ASSUME n + 2 <= Len(a) PROVE ~ValuesOf(a)[n + 2]
      OBVIOUS
    <3>1. n + 2 \in 0 .. Len(a) /\ (n + 2) - 1 = n + 1 /\ n + 1 <= Len(a)
      BY <1>1
    <3> QED
      BY <1>1, <2>2, <3>1, ValuesRule
  <2>4. ASSUME NEW j \in DOMAIN a, j < n + 2, ~ValuesOf(a)[j]
        PROVE  j <= n
    <3>1. j # n + 1
      BY <1>1, <2>2, <2>4
    <3> QED
      BY <1>1, <2>4, <3>1
  <2> QED
    BY <1>1, <2>1, <2>3, <2>4
<1> QED
  BY <1>2, <1>3

-----------------------------------------------------------------------------
(* The inductive invariant *)

\* The setting before the command line is applied.
Given(f, path, k) ==
    IF path # NoText /\ f[k] # Absent THEN Resolve(k, f[k]) ELSE Default[k]

\* In c, the second pass has dealt with the arguments before n: the last one that
\* sets a key has set it.
SetBy(a, f, path, c, n) ==
    \A k \in Keys :
        /\ (\A j \in UsesOf(a, k) : ~(j < n)) => c[k] = Given(f, path, k)
        /\ \A m \in UsesOf(a, k) :
              m < n /\ (\A j \in UsesOf(a, k) : j < n => j <= m) => c[k] = Resolve(k, TextOf(a, m))

\* The values on the command line do not look like options.
Plain(a) == \A j \in DOMAIN a : ValuesOf(a)[j] => a[j].option = "none"

Configs(a, n) == {j \in DOMAIN a : a[j].option = "config" /\ j < n}

\* The first pass has dealt with the arguments before n.
FoundIn(a, path, n) ==
    Plain(a) => \/ path = NoText /\ Configs(a, n) = {}
                \/ path # NoText /\ \E m : Configs(a, n) = {m} /\ path = TextOf(a, m)

\* What each setting can hold.
SettingsOK(c) ==
    /\ DOMAIN c = Keys
    /\ \A k \in Keys :
          /\ IsText(c[k])
          /\ c[k].kind \in
                IF k = "host" THEN {"name", "number"} ELSE IF k \in Strings THEN {"name"} ELSE {"number"}
    /\ c["sub_reactors"].n \in Nat \ {0}

Places == {"help", "helped", "find", "load", "apply", "construct", "constructed", "refused"}

\* By the place of main(): how far each pass has come, and that no value is ever
\* taken for an option by the second.
SInv ==
    /\ \A k \in Keys : IsText(file[k])
    /\ ArgumentsOK(argv) /\ SettingsOK(config) /\ i \in 1 .. Len(argv) + 2
    /\ step \in Places /\ error # "constructor"
    /\ step \in {"help", "find", "load"} => config = Default
    /\ step \in {"help", "load"} => i = 1
    /\ step = "load" => configPath # NoText
    /\ step \in {"help", "find"} => FoundIn(argv, configPath, i)
    /\ step \in {"load", "apply", "construct", "constructed"} =>
          FoundIn(argv, configPath, Len(argv) + 1)
    /\ step = "apply" =>
          /\ SetBy(argv, file, configPath, config, i)
          /\ i <= Len(argv) => ~ValuesOf(argv)[i]
    /\ step \in {"construct", "constructed"} =>
          SetBy(argv, file, configPath, config, Len(argv) + 1)
    /\ step = "construct" => Validate(config)

-----------------------------------------------------------------------------
(* Parsing *)

\* Any number is a text.
LEMMA NumberIsText ==
    ASSUME NEW n \in Int
    PROVE  IsText(Number(n)) /\ Number(n).kind = "number" /\ Number(n).n = n
BY DEF Number, IsText

\* Any name is a text.
LEMMA NameIsText ==
    ASSUME NEW t
    PROVE  IsText(Name(t)) /\ Name(t).kind = "name"
BY DEF Name, IsText

\* The choice of the number of sub-reactors is at least one.
LEMMA AutoPositive == AutoSubReactors \in Nat \ {0} /\ IsText(Number(AutoSubReactors))
<1> DEFINE m == Min({8, Cores \div 2})
<1>1. Cores \div 2 \in Nat
  BY StartupAssumption
<1>2. PICK h \in Nat : h = Cores \div 2
  BY <1>1
<1>3. m = CHOOSE y \in {8, h} : \A z \in {8, h} : y <= z
  BY <1>2 DEF Min
<1>4. \E y \in {8, h} : \A z \in {8, h} : y <= z
  <2>1. CASE h <= 8
    BY <2>1
  <2>2. CASE h > 8
    BY <2>2
  <2> QED
    BY <2>1, <2>2
<1>5. m \in {8, h}
  BY <1>3, <1>4, Zenon
<1>6. PICK g \in Nat : g = m
  BY <1>5
<1>7. AutoSubReactors = CHOOSE y \in {1, g} : \A z \in {1, g} : y >= z
  BY <1>6 DEF AutoSubReactors, Max
<1>8. \E y \in {1, g} : \A z \in {1, g} : y >= z
  <2>1. CASE g <= 1
    BY <2>1
  <2>2. CASE g > 1
    BY <2>2
  <2> QED
    BY <2>1, <2>2
<1>9. AutoSubReactors \in {1, g} /\ \A z \in {1, g} : AutoSubReactors >= z
  BY <1>7, <1>8, Zenon
<1>10. AutoSubReactors \in Nat \ {0}
  BY <1>9
<1> QED
  BY <1>10, NumberIsText

\* What a setting of the right kind becomes.
LEMMA Resolved ==
    ASSUME NEW k \in Keys, NEW t, IsText(t),
           k = "sub_reactors" => t.kind = "number" /\ t.n >= 0
    PROVE  /\ IsText(Resolve(k, t)) /\ Resolve(k, t).kind = t.kind
           /\ k = "sub_reactors" => Resolve(k, t).n \in Nat \ {0}
<1>1. t.n \in Int
  BY DEF IsText
<1>2. CASE k = "sub_reactors" /\ t.n = 0
  <2>1. Resolve(k, t) = Number(AutoSubReactors) /\ t.kind = "number"
    BY <1>2 DEF Resolve
  <2>2. Number(AutoSubReactors).kind = "number" /\ Number(AutoSubReactors).n = AutoSubReactors
    BY AutoPositive, NumberIsText
  <2> QED
    BY <2>1, <2>2, AutoPositive
<1>3. CASE ~(k = "sub_reactors" /\ t.n = 0)
  BY <1>1, <1>3 DEF Resolve
<1> QED
  BY <1>2, <1>3

\* What the readers of the file accept.
LEMMA ReadKinds ==
    ASSUME NEW k \in Keys, NEW t, IsText(t), ReadAccepts(k, t)
    PROVE  /\ t.kind = IF k \in Strings THEN "name" ELSE "number"
           /\ k = "sub_reactors" => t.n >= 0
BY SMT DEF ReadAccepts, IsText

\* What the parsers of the options accept.
LEMMA OptionKinds ==
    ASSUME NEW k \in Overridable, NEW t, IsText(t), t # NoText, OptionAccepts(k, t)
    PROVE  /\ k \in Keys
           /\ t.kind \in
                IF k = "host" THEN {"name", "number"} ELSE IF k \in Strings THEN {"name"} ELSE {"number"}
           /\ k = "sub_reactors" => t.n >= 0
<1>1. k \in Keys
  BY DEF Overridable, Keys, Strings, Sizes
<1>2. t.kind \in {"name", "number"}
  BY DEF IsText, NoText
<1> QED
  BY <1>1, <1>2 DEF OptionAccepts, Overridable, Strings

\* The defaults.
LEMMA DefaultKinds ==
    /\ DOMAIN Default = Keys
    /\ \A k \in Keys :
          /\ IsText(Default[k])
          /\ Default[k].kind = IF k \in Strings THEN "name" ELSE "number"
          /\ k = "sub_reactors" => Default[k].n \in Nat \ {0}
<1>1. DOMAIN Default = Keys
  BY SMT DEF Default
<1>2. ASSUME NEW k \in Keys
      PROVE  /\ IsText(Default[k])
             /\ Default[k].kind = IF k \in Strings THEN "name" ELSE "number"
  <2>1. CASE k \in Strings
    <3>1. Default[k] \in {Name("0.0.0.0"), Name("auto"), Name("info")}
      BY <1>2, <2>1, SMT DEF Default, Strings
    <3> QED
      BY <2>1, <3>1, NameIsText
  <2>2. CASE k \notin Strings
    <3>1. PICK n \in Int : Default[k] = Number(n)
      BY <1>2, <2>2, SMT DEF Default, Strings, Keys, Sizes
    <3> QED
      BY <2>2, <3>1, NumberIsText
  <2> QED
    BY <2>1, <2>2
<1>3. Default["sub_reactors"] = Number(2)
  BY SMT DEF Default, Keys
<1>4. Default["sub_reactors"].n \in Nat \ {0}
  BY <1>3, NumberIsText
<1> QED
  BY <1>1, <1>2, <1>4

\* AppConfig starts with settings of the right kinds.
LEMMA DefaultsOK == SettingsOK(Default)
<1>1. "host" \in Strings /\ "sub_reactors" \in Keys
  BY DEF Strings, Keys
<1> QED
  BY <1>1, DefaultKinds DEF SettingsOK

-----------------------------------------------------------------------------
(* The two passes *)

\* The text of an argument.
LEMMA TextIsText ==
    ASSUME NEW a, ArgumentsOK(a), NEW n \in 1 .. Len(a)
    PROVE  IsText(TextOf(a, n))
<1>1. Len(a) \in Nat /\ DOMAIN a = 1 .. Len(a) /\ \A j \in 1 .. Len(a) : IsText(a[j].value)
  BY DEF ArgumentsOK
<1>2. IsText(NoText)
  BY DEF IsText, NoText, Absent
<1>3. n < Len(a) => IsText(AsText(a[n + 1]))
  <2> SUFFICES ASSUME n < Len(a) PROVE IsText(AsText(a[n + 1]))
    OBVIOUS
  <2>1. n + 1 \in 1 .. Len(a)
    BY <1>1
  <2>2. IsText(a[n + 1].value)
    BY <1>1, <2>1
  <2>3. IsText(Name("an option"))
    BY NameIsText
  <2> QED
    BY <2>2, <2>3 DEF AsText
<1> QED
  BY <1>1, <1>2, <1>3 DEF TextOf

\* The second pass, at an option that sets a key ...
LEMMA OptionSets ==
    ASSUME NEW a, ArgumentsOK(a), NEW n \in 1 .. Len(a), ~ValuesOf(a)[n],
           NEW o \in Keys, a[n].option = o, NEW f, NEW path, NEW c, DOMAIN c = Keys,
           SetBy(a, f, path, c, n)
    PROVE  SetBy(a, f, path, [c EXCEPT ![o] = Resolve(o, TextOf(a, n))], Behind(a, n))
<1> DEFINE d == [c EXCEPT ![o] = Resolve(o, TextOf(a, n))]
<1>1. o \notin {"none", "help"}
  BY DEF Keys, Strings, Sizes
<1>2. Len(a) \in Nat /\ DOMAIN a = 1 .. Len(a)
  BY DEF ArgumentsOK
<1>3. /\ Behind(a, n) \in Int /\ n < Behind(a, n)
      /\ \A j \in DOMAIN a : j < Behind(a, n) /\ ~ValuesOf(a)[j] => j <= n
  BY <1>1, <1>2, NextOption DEF Behind
<1>4. ASSUME NEW k \in Keys
      PROVE  UsesOf(a, k) \subseteq 1 .. Len(a) /\ (n \in UsesOf(a, k) <=> k = o)
  BY <1>2 DEF UsesOf
<1>5. ASSUME NEW k \in Keys, NEW j \in UsesOf(a, k)
      PROVE  j < Behind(a, n) <=> j <= n
  <2>1. j \in DOMAIN a /\ ~ValuesOf(a)[j]
    BY DEF UsesOf
  <2> QED
    BY <1>2, <1>3, <2>1
<1>6. ASSUME NEW k \in Keys
      PROVE  /\ (\A j \in UsesOf(a, k) : ~(j < Behind(a, n))) => d[k] = Given(f, path, k)
             /\ \A m \in UsesOf(a, k) :
                  m < Behind(a, n) /\ (\A j \in UsesOf(a, k) : j < Behind(a, n) => j <= m)
                     => d[k] = Resolve(k, TextOf(a, m))
  <2>1. CASE k = o
    <3>1. d[k] = Resolve(k, TextOf(a, n)) /\ n \in UsesOf(a, k)
      BY <1>4, <1>6, <2>1
    <3>2. ASSUME NEW m \in UsesOf(a, k), m < Behind(a, n),
                 \A j \in UsesOf(a, k) : j < Behind(a, n) => j <= m
          PROVE  m = n
      BY <1>2, <1>3, <1>4, <1>5, <1>6, <3>1, <3>2
    <3> HIDE DEF d
    <3> QED
      BY <1>3, <3>1, <3>2
  <2>2. CASE k # o
    <3>1. d[k] = c[k] /\ n \notin UsesOf(a, k)
      BY <1>4, <1>6, <2>2
    <3>2. \A j \in UsesOf(a, k) : j < Behind(a, n) <=> j < n
      BY <1>2, <1>4, <1>5, <1>6, <3>1
    <3>3. /\ (\A j \in UsesOf(a, k) : ~(j < n)) => c[k] = Given(f, path, k)
          /\ \A m \in UsesOf(a, k) :
               m < n /\ (\A j \in UsesOf(a, k) : j < n => j <= m) => c[k] = Resolve(k, TextOf(a, m))
      BY <1>6 DEF SetBy
    <3> HIDE DEF d
    <3> QED
      BY <3>1, <3>2, <3>3
  <2> QED
    BY <2>1, <2>2
<1> HIDE DEF d
<1>7. SetBy(a, f, path, d, Behind(a, n))
  BY <1>6 DEF SetBy
<1> QED
  BY <1>7 DEF d

\* ... and at one that sets none.
LEMMA OptionSkipped ==
    ASSUME NEW a, ArgumentsOK(a), NEW n \in 1 .. Len(a), NEW m \in Int, n < m,
           \A j \in DOMAIN a : j < m /\ ~ValuesOf(a)[j] => j <= n,
           a[n].option \notin Keys, NEW f, NEW path, NEW c,
           SetBy(a, f, path, c, n)
    PROVE  SetBy(a, f, path, c, m)
<1>1. Len(a) \in Nat /\ DOMAIN a = 1 .. Len(a)
  BY DEF ArgumentsOK
<1>2. ASSUME NEW k \in Keys, NEW j \in UsesOf(a, k)
      PROVE  j < m <=> j < n
  <2>1. j \in DOMAIN a /\ ~ValuesOf(a)[j] /\ j # n
    BY <1>2 DEF UsesOf
  <2> QED
    BY <1>1, <2>1
<1> QED
  BY <1>2 DEF SetBy

\* Beyond the end nothing is left to deal with.
LEMMA BehindTheEnd ==
    ASSUME NEW a, ArgumentsOK(a), NEW n \in Int, n > Len(a), NEW f, NEW path, NEW c
    PROVE  /\ SetBy(a, f, path, c, n) <=> SetBy(a, f, path, c, Len(a) + 1)
           /\ FoundIn(a, path, n) <=> FoundIn(a, path, Len(a) + 1)
<1>1. Len(a) \in Nat /\ DOMAIN a = 1 .. Len(a)
  BY DEF ArgumentsOK
<1>2. \A k : \A j \in UsesOf(a, k) : (j < n) /\ (j < Len(a) + 1)
  BY <1>1 DEF UsesOf
<1>3. Configs(a, n) = Configs(a, Len(a) + 1)
  BY <1>1 DEF Configs
<1>4. SetBy(a, f, path, c, n) <=> SetBy(a, f, path, c, Len(a) + 1)
  BY <1>2 DEF SetBy
<1> QED
  BY <1>3, <1>4 DEF FoundIn

\* Nothing is set at the beginning.
LEMMA NothingSet ==
    ASSUME NEW a, ArgumentsOK(a), NEW f, NEW path, NEW c,
           \A k \in Keys : c[k] = Given(f, path, k)
    PROVE  SetBy(a, f, path, c, 1) /\ (1 <= Len(a) => ~ValuesOf(a)[1])
<1>1. Len(a) \in Nat /\ DOMAIN a = 1 .. Len(a)
  BY DEF ArgumentsOK
<1>2. 1 <= Len(a) => ~ValuesOf(a)[1]
  BY <1>1, ValuesRule
<1>3. \A k : \A j \in UsesOf(a, k) : ~(j < 1)
  BY <1>1 DEF UsesOf
<1> QED
  BY <1>2, <1>3 DEF SetBy

\* The first pass, at a --config: unless values look like options, what it passes
\* over is a value, not another --config.
LEMMA ConfigFound ==
    ASSUME NEW a, ArgumentsOK(a), NEW n \in 1 .. Len(a), a[n].option = "config",
           FoundIn(a, NoText, n), TextOf(a, n) # NoText
    PROVE  FoundIn(a, TextOf(a, n), Behind(a, n))
<1>1. Len(a) \in Nat /\ DOMAIN a = 1 .. Len(a)
  BY DEF ArgumentsOK
<1> SUFFICES ASSUME Plain(a)
             PROVE  Configs(a, Behind(a, n)) = {n}
  BY DEF FoundIn
<1>2. Configs(a, n) = {}
  BY DEF FoundIn
<1>3. \A j \in DOMAIN a : a[j].option = "config" => ~ValuesOf(a)[j]
  BY DEF Plain
<1>4. ~ValuesOf(a)[n]
  BY <1>1, <1>3
<1>5. \A j \in DOMAIN a : j < Behind(a, n) /\ ~ValuesOf(a)[j] => j <= n
  BY <1>4, NextOption
<1>6. n < Behind(a, n)
  BY <1>1 DEF Behind
<1>7. ASSUME NEW j \in DOMAIN a, a[j].option = "config", j < Behind(a, n)
      PROVE  j = n
  <2>1. j <= n
    BY <1>3, <1>5, <1>7
  <2>2. ~(j < n)
    BY <1>2, <1>7 DEF Configs
  <2> QED
    BY <1>1, <2>1, <2>2
<1> QED
  BY <1>1, <1>6, <1>7 DEF Configs

\* The first pass passes over everything else.
LEMMA OtherPassed ==
    ASSUME NEW a, ArgumentsOK(a), NEW n \in 1 .. Len(a), a[n].option # "config",
           NEW path, FoundIn(a, path, n)
    PROVE  FoundIn(a, path, n + 1)
<1>1. Len(a) \in Nat /\ DOMAIN a = 1 .. Len(a)
  BY DEF ArgumentsOK
<1>2. Configs(a, n + 1) = Configs(a, n)
  BY <1>1 DEF Configs
<1> QED
  BY <1>2 DEF FoundIn

-----------------------------------------------------------------------------
(* The steps of main() *)

\* Before main() has done anything, nothing is found and nothing is set.
LEMMA StartupBegins == StartupInit => SInv
<1> SUFFICES ASSUME StartupInit PROVE SInv
  OBVIOUS
<1>1. PICK case \in Cases : file = case[1] /\ argv = case[2]
  BY DEF StartupInit
<1>2. (\A k \in Keys : IsText(file[k])) /\ ArgumentsOK(argv)
  BY <1>1, StartupAssumption DEF ArgumentsOK
<1>3. SettingsOK(config) /\ config = Default
  BY DefaultsOK DEF StartupInit
<1>4. step = "help" /\ i = 1 /\ configPath = NoText /\ error # "constructor"
  BY DEF StartupInit
<1>5. Len(argv) \in Nat /\ DOMAIN argv = 1 .. Len(argv)
  BY <1>2 DEF ArgumentsOK
<1>6. FoundIn(argv, configPath, i)
  <2>1. Configs(argv, 1) = {}
    BY <1>5 DEF Configs
  <2> QED
    BY <1>4, <2>1 DEF FoundIn
<1>7. i \in 1 .. Len(argv) + 2
  BY <1>4, <1>5
<1> QED
  BY <1>2, <1>3, <1>4, <1>6, <1>7 DEF SInv, Places

\* Where main() gives up.
LEMMA Refused ==
    ASSUME SInv, file' = file, argv' = argv, config' = config, i' = i,
           step' = "refused", error' # "constructor"
    PROVE  SInv'
BY DEF SInv, Places

\* Nothing happens.
LEMMA StutterStep ==
    ASSUME SInv, UNCHANGED startupVars
    PROVE  SInv'
BY DEF SInv, startupVars, Validate

\* NeedShowHelp: on to the first pass, the help text, or the end.
LEMMA HelpStep ==
    ASSUME SInv, Help
    PROVE  SInv'
<1>1. /\ step = "help" /\ file' = file /\ argv' = argv /\ i' = i /\ configPath' = configPath
      /\ config' = config
  BY DEF Help
<1>2. \/ step' = "find" /\ error' = error
      \/ step' = "helped" /\ error' = error
      \/ step' = "refused" /\ error' = "help"
  BY DEF Help, Refuse
<1>3. CASE step' = "find" /\ error' = error
  BY <1>1, <1>3 DEF SInv, Places
<1>4. CASE step' = "helped" /\ error' = error
  BY <1>1, <1>4 DEF SInv, Places
<1>5. CASE step' = "refused" /\ error' = "help"
  BY <1>1, <1>5, Refused
<1> QED
  BY <1>2, <1>3, <1>4, <1>5

\* One iteration of FindConfigPath.
LEMMA FindStep ==
    ASSUME SInv, FindConfigPath
    PROVE  SInv'
<1>1. /\ step = "find" /\ i <= Len(argv) /\ file' = file /\ argv' = argv /\ config' = config
  BY DEF FindConfigPath
<1>2. ArgumentsOK(argv) /\ i \in 1 .. Len(argv) + 2 /\ FoundIn(argv, configPath, i) /\ Len(argv) \in Nat
  BY <1>1 DEF SInv, ArgumentsOK
<1>3. i \in 1 .. Len(argv)
  BY <1>1, <1>2
<1>4. CASE ~IsConfig(i)
  <2>1. i' = i + 1 /\ step' = step /\ error' = error /\ configPath' = configPath
    BY <1>4 DEF FindConfigPath
  <2>2. FoundIn(argv, configPath, i + 1)
    BY <1>2, <1>3, <1>4, OtherPassed DEF IsConfig
  <2>3. i + 1 \in 1 .. Len(argv) + 2
    BY <1>2, <1>3
  <2> QED
    BY <1>1, <2>1, <2>2, <2>3 DEF SInv
<1>5. CASE IsConfig(i) /\ (ValueAt(i) = NoText \/ configPath # NoText)
  <2>1. step' = "refused" /\ error' = "config" /\ i' = i
    BY <1>5 DEF FindConfigPath, Refuse
  <2> QED
    BY <1>1, <2>1, Refused
<1>6. CASE IsConfig(i) /\ ValueAt(i) # NoText /\ configPath = NoText
  <2>1. i' = NextAt(i) /\ configPath' = ValueAt(i) /\ step' = step /\ error' = error
    BY <1>6 DEF FindConfigPath
  <2>2. NextAt(i) = Behind(argv, i) /\ ValueAt(i) = TextOf(argv, i)
    BY ArgumentsOfMain DEF NextAt, Behind
  <2>3. FoundIn(argv, configPath', i')
    BY <1>2, <1>3, <1>6, <2>1, <2>2, ConfigFound DEF IsConfig
  <2>4. i' \in 1 .. Len(argv) + 2
    BY <1>2, <1>3, <2>1, <2>2 DEF Behind
  <2> QED
    BY <1>1, <2>1, <2>3, <2>4 DEF SInv
<1> QED
  BY <1>4, <1>5, <1>6

\* The end of FindConfigPath: the file, or at once the second pass over the defaults.
LEMMA FoundStep ==
    ASSUME SInv, Found
    PROVE  SInv'
<1>1. /\ step = "find" /\ i > Len(argv) /\ i' = 1 /\ file' = file /\ argv' = argv
      /\ configPath' = configPath /\ config' = config /\ error' = error
      /\ step' = IF configPath = NoText THEN "apply" ELSE "load"
  BY DEF Found
<1>2. ArgumentsOK(argv) /\ i \in Int /\ FoundIn(argv, configPath, i) /\ Len(argv) \in Nat
  BY <1>1 DEF SInv, ArgumentsOK
<1>3. FoundIn(argv, configPath, Len(argv) + 1)
  BY <1>1, <1>2, BehindTheEnd
<1>4. config = Default
  BY <1>1 DEF SInv
<1>5. CASE configPath = NoText
  <2>1. \A k \in Keys : config[k] = Given(file, configPath, k)
    BY <1>4, <1>5 DEF Given
  <2>2. SetBy(argv, file, configPath, config, 1) /\ (1 <= Len(argv) => ~ValuesOf(argv)[1])
    BY <1>2, <2>1, NothingSet
  <2> QED
    BY <1>1, <1>2, <1>3, <1>5, <2>2 DEF SInv, Places
<1>6. CASE configPath # NoText
  BY <1>1, <1>2, <1>3, <1>4, <1>6 DEF SInv, Places
<1> QED
  BY <1>5, <1>6

\* LoadFromFile: what it accepts has the right kinds, and 0 sub-reactors are resolved.
LEMMA LoadStep ==
    ASSUME SInv, LoadFromFile
    PROVE  SInv'
<1> DEFINE bad == {k \in Present(file) : ~ReadAccepts(k, file[k])}
           loaded == [k \in Keys |->
               IF file[k] = Absent THEN Default[k] ELSE Resolve(k, file[k])]
<1>1. /\ step = "load" /\ file' = file /\ argv' = argv /\ i' = i /\ configPath' = configPath
  BY DEF LoadFromFile
<1>2. /\ \A k \in Keys : IsText(file[k])
      /\ ArgumentsOK(argv) /\ i = 1 /\ configPath # NoText
      /\ FoundIn(argv, configPath, Len(argv) + 1)
      /\ Len(argv) \in Nat
  BY <1>1 DEF SInv, ArgumentsOK
<1>3. \/ bad # {} /\ (\E k \in bad : Refuse(k)) /\ config' = config
      \/ Refuse("file") /\ config' = config
      \/ bad = {} /\ step' = "apply" /\ config' = loaded /\ error' = error
  BY DEF LoadFromFile
<1>4. CASE bad # {} /\ (\E k \in bad : Refuse(k)) /\ config' = config
  <2>1. PICK k \in Keys : Refuse(k)
    BY <1>4 DEF Present
  <2>2. step' = "refused" /\ error' # "constructor"
    BY <2>1, SMT DEF Refuse, Keys, Strings, Sizes
  <2> QED
    BY <1>1, <1>4, <2>2, Refused
<1>5. CASE Refuse("file") /\ config' = config
  <2>1. step' = "refused" /\ error' # "constructor"
    BY <1>5 DEF Refuse
  <2> QED
    BY <1>1, <1>5, <2>1, Refused
<1>6. CASE bad = {} /\ step' = "apply" /\ config' = loaded /\ error' = error
  <2>1. \A k \in Keys : loaded[k] = Given(file, configPath, k)
    BY <1>2 DEF Given
  <2>2. \A k \in Keys : file[k] # Absent => ReadAccepts(k, file[k])
    BY <1>6 DEF Present
  <2>3. DOMAIN loaded = Keys
    OBVIOUS
  <2>4. ASSUME NEW k \in Keys
        PROVE  /\ IsText(loaded[k]) /\ loaded[k].kind = IF k \in Strings THEN "name" ELSE "number"
               /\ k = "sub_reactors" => loaded[k].n \in Nat \ {0}
    <3>1. CASE file[k] = Absent
      <4>1. loaded[k] = Default[k]
        BY <3>1, <2>4
      <4> HIDE DEF loaded
      <4> QED
        BY <2>4, <4>1, DefaultKinds
    <3>2. CASE file[k] # Absent
      <4>1. loaded[k] = Resolve(k, file[k])
        BY <3>2, <2>4
      <4> HIDE DEF loaded
      <4>2. /\ IsText(file[k]) /\ file[k].kind = IF k \in Strings THEN "name" ELSE "number"
            /\ k = "sub_reactors" => file[k].n >= 0 /\ file[k].kind = "number"
        <5>1. ReadAccepts(k, file[k]) /\ IsText(file[k])
          BY <1>2, <2>2, <2>4, <3>2
        <5>2. "sub_reactors" \notin Strings
          BY DEF Strings
        <5> QED
          BY <2>4, <5>1, <5>2, ReadKinds
      <4> QED
        BY <2>4, <4>1, <4>2, Resolved
    <3> QED
      BY <3>1, <3>2
  <2> HIDE DEF loaded, bad
  <2>5. SettingsOK(loaded)
    <3>1. "sub_reactors" \in Keys /\ "host" \in Strings
      BY DEF Keys, Strings
    <3> QED
      BY <2>3, <2>4, <3>1 DEF SettingsOK
  <2>6. SetBy(argv, file, configPath, loaded, 1) /\ (1 <= Len(argv) => ~ValuesOf(argv)[1])
    BY <1>2, <2>1, NothingSet
  <2> QED
    BY <1>1, <1>2, <1>6, <2>5, <2>6 DEF SInv, Places
<1> HIDE DEF bad, loaded
<1> QED
  BY <1>3, <1>4, <1>5, <1>6

\* LoadFromFile gives up on the file.
LEMMA UnreadableStep ==
    ASSUME SInv, FileUnreadable
    PROVE  SInv'
BY Refused DEF FileUnreadable, Refuse

\* One iteration of ApplyCommandLineOverrides.
LEMMA ApplyStep ==
    ASSUME SInv, ApplyCommandLineOverrides
    PROVE  SInv'
<1> DEFINE o == argv[i].option
           t == ValueAt(i)
           taken == o \in Overridable \cup {"config"} /\ t # NoText
                       /\ (o = "config" \/ OptionAccepts(o, t))
<1>1. /\ step = "apply" /\ i <= Len(argv) /\ file' = file /\ argv' = argv
      /\ configPath' = configPath
  BY DEF ApplyCommandLineOverrides
<1>2. /\ ArgumentsOK(argv) /\ i \in 1 .. Len(argv) /\ Len(argv) \in Nat
      /\ SetBy(argv, file, configPath, config, i) /\ ~ValuesOf(argv)[i]
      /\ SettingsOK(config) /\ DOMAIN argv = 1 .. Len(argv)
  BY <1>1 DEF SInv, ArgumentsOK
<1>3. NextAt(i) = Behind(argv, i) /\ t = TextOf(argv, i)
  BY ArgumentsOfMain DEF NextAt, Behind
<1>4. "help" \notin Keys /\ "config" \notin Keys
  BY DEF Keys, Strings, Sizes
<1>5. CASE argv[i] = Bare("help")
  <2>0. o = "help"
    BY <1>5 DEF Bare
  <2>1. i' = i + 1 /\ step' = step /\ error' = error /\ config' = config
    BY <1>5 DEF ApplyCommandLineOverrides
  <2>2. i + 1 \in 1 .. Len(argv) + 2
    BY <1>2
  <2>3. i + 1 <= Len(argv) => ~ValuesOf(argv)[i + 1]
    <3> SUFFICES ASSUME i + 1 <= Len(argv) PROVE ~ValuesOf(argv)[i + 1]
      OBVIOUS
    <3>1. i + 1 \in 0 .. Len(argv) /\ (i + 1) - 1 = i
      BY <1>2
    <3> QED
      BY <1>2, <2>0, <3>1, ValuesRule
  <2>4. SetBy(argv, file, configPath, config, i + 1)
    <3>1. i + 1 \in Int /\ i < i + 1 /\ \A j \in DOMAIN argv : j < i + 1 => j <= i
      BY <1>2
    <3> QED
      BY <1>2, <1>4, <2>0, <3>1, OptionSkipped
  <2> QED
    BY <1>1, <2>1, <2>2, <2>3, <2>4 DEF SInv
<1>6. CASE argv[i] # Bare("help") /\ ~taken
  <2>1. step' = "refused" /\ error' = "option" /\ i' = i /\ config' = config
    BY <1>6 DEF ApplyCommandLineOverrides, Refuse
  <2> QED
    BY <1>1, <2>1, Refused
<1>7. CASE argv[i] # Bare("help") /\ taken
  <2>1. /\ config' = IF o = "config" THEN config ELSE [config EXCEPT ![o] = Resolve(o, t)]
        /\ i' = Behind(argv, i) /\ step' = step /\ error' = error
    BY <1>3, <1>7 DEF ApplyCommandLineOverrides, Override
  <2>2. o \notin {"none", "help"}
    BY <1>7 DEF Overridable
  <2>3. /\ Behind(argv, i) \in 1 .. Len(argv) + 2
        /\ Behind(argv, i) <= Len(argv) => ~ValuesOf(argv)[Behind(argv, i)]
        /\ \A j \in DOMAIN argv : j < Behind(argv, i) /\ ~ValuesOf(argv)[j] => j <= i
    BY <1>2, <2>2, NextOption
  <2>4. Behind(argv, i) \in Int /\ i < Behind(argv, i)
    BY <1>2 DEF Behind
  <2>5. SetBy(argv, file, configPath, config', Behind(argv, i)) /\ SettingsOK(config')
    <3>1. CASE o = "config"
      <4>1. config' = config
        BY <2>1, <3>1
      <4>2. SetBy(argv, file, configPath, config, Behind(argv, i))
        BY <1>2, <1>4, <2>3, <2>4, <3>1, OptionSkipped
      <4> QED
        BY <1>2, <4>1, <4>2
    <3>2. CASE o # "config"
      <4>1. config' = [config EXCEPT ![o] = Resolve(o, t)]
        BY <2>1, <3>2
      <4>2. o \in Overridable /\ IsText(t) /\ t # NoText /\ OptionAccepts(o, t)
        BY <1>2, <1>3, <1>7, <3>2, TextIsText
      <4>3. /\ o \in Keys
            /\ t.kind \in
                 IF o = "host" THEN {"name", "number"} ELSE IF o \in Strings THEN {"name"} ELSE {"number"}
            /\ o = "sub_reactors" => t.n >= 0
        BY <4>2, OptionKinds
      <4>4. o = "sub_reactors" => t.kind = "number"
        BY <4>3 DEF Strings
      <4> HIDE DEF t
      <4>5. /\ IsText(Resolve(o, t)) /\ Resolve(o, t).kind = t.kind
            /\ o = "sub_reactors" => Resolve(o, t).n \in Nat \ {0}
        BY <4>2, <4>3, <4>4, Resolved
      <4>6. DOMAIN config = Keys /\ DOMAIN config' = Keys
        BY <1>2, <4>1 DEF SettingsOK
      <4>7. SettingsOK(config')
        <5>1. \A k \in Keys : config'[k] = IF k = o THEN Resolve(o, t) ELSE config[k]
          BY <4>1, <4>6
        <5>2. "sub_reactors" \in Keys
          BY DEF Keys
        <5> HIDE DEF o
        <5> QED
          BY <1>2, <4>3, <4>5, <4>6, <5>1, <5>2 DEF SettingsOK
      <4>8. SetBy(argv, file, configPath, [config EXCEPT ![o] = Resolve(o, TextOf(argv, i))],
                  Behind(argv, i))
        BY <1>2, <4>3, <4>6, OptionSets
      <4> QED
        BY <1>3, <4>1, <4>7, <4>8
    <3> QED
      BY <3>1, <3>2
  <2> QED
    BY <1>1, <2>1, <2>3, <2>5 DEF SInv
<1> QED
  BY <1>5, <1>6, <1>7

\* The second Validate.
LEMMA AppliedStep ==
    ASSUME SInv, Applied
    PROVE  SInv'
<1>1. /\ step = "apply" /\ i > Len(argv) /\ file' = file /\ argv' = argv /\ i' = i
      /\ configPath' = configPath /\ config' = config
  BY DEF Applied
<1>2. CASE Validate(config)
  <2>1. step' = "construct" /\ error' = error
    BY <1>2 DEF Applied
  <2>2. ArgumentsOK(argv) /\ i \in Int /\ SetBy(argv, file, configPath, config, i)
    BY <1>1 DEF SInv, ArgumentsOK
  <2>3. SetBy(argv, file, configPath, config, Len(argv) + 1)
    BY <1>1, <2>2, BehindTheEnd
  <2>4. Validate(config)'
    BY <1>1, <1>2 DEF Validate
  <2> QED
    BY <1>1, <2>1, <2>3, <2>4 DEF SInv, Places
<1>3. CASE ~Validate(config)
  <2>1. step' = "refused" /\ error' = "config"
    BY <1>3 DEF Applied, Refuse
  <2> QED
    BY <1>1, <2>1, Refused
<1> QED
  BY <1>2, <1>3

\* The constructor of TcpServer never refuses what Validate has let through.
LEMMA ConstructStep ==
    ASSUME SInv, Construct
    PROVE  SInv'
<1>1. /\ step = "construct" /\ file' = file /\ argv' = argv /\ i' = i
      /\ configPath' = configPath /\ config' = config
  BY DEF Construct
<1>2. Validate(config) /\ config["sub_reactors"].n \in Nat \ {0}
  BY <1>1 DEF SInv, SettingsOK
<1>3. ConstructorAccepts(config)
  BY <1>2 DEF Validate, ConstructorAccepts
<1>4. step' = "constructed" /\ error' = error
  BY <1>3 DEF Construct
<1> QED
  BY <1>1, <1>4 DEF SInv, Places

\* The invariant holds for every file and every command line.
THEOREM StartupInvariance == StartupSpec => []SInv
<1>1. SInv /\ [StartupNext]_startupVars => SInv'
  <2> SUFFICES ASSUME SInv, [StartupNext]_startupVars PROVE SInv'
    OBVIOUS
  <2> QED
    BY StutterStep, HelpStep, FindStep, FoundStep, LoadStep, UnreadableStep, ApplyStep,
       AppliedStep, ConstructStep DEF StartupNext
<1> QED
  BY <1>1, StartupBegins, PTL DEF StartupSpec

-----------------------------------------------------------------------------
(* What main() starts the server with *)

\* The last of some arguments.
LEMMA LastOf ==
    ASSUME NEW n \in Nat, NEW S \in SUBSET (1 .. n), S # {}
    PROVE  Max(S) \in S /\ \A j \in S : j <= Max(S)
<1> DEFINE T == {(n + 1) - j : j \in S}
<1>1. T \in SUBSET Nat /\ T # {}
  <2>1. \A j \in S : (n + 1) - j \in Nat
    OBVIOUS
  <2>2. PICK j : j \in S
    OBVIOUS
  <2>3. (n + 1) - j \in T
    BY <2>2
  <2> QED
    BY <2>1, <2>3
<1> HIDE DEF T
<1>2. PICK x \in T : \A y \in T : x <= y
  BY <1>1, LeastNat
<1>3. PICK m \in S : x = (n + 1) - m
  BY DEF T
<1>4. \A j \in S : m >= j
  <2> TAKE j \in S
  <2>1. (n + 1) - m <= (n + 1) - j
    BY <1>2, <1>3 DEF T
  <2> QED
    BY <2>1
<1>5. \E y \in S : \A j \in S : y >= j
  BY <1>4
<1>6. Max(S) \in S /\ \A j \in S : Max(S) >= j
  BY <1>5 DEF Max
<1> QED
  BY <1>6

\* After the second pass, the last use of an option is its greatest index.
LEMMA PrecedenceHolds == SInv => Precedence
<1> SUFFICES ASSUME SInv, step = "constructed", NEW k \in Keys
             PROVE  config[k] =
                      IF Uses(k) # {} THEN Resolve(k, ValueAt(Max(Uses(k))))
                      ELSE IF configPath # NoText /\ file[k] # Absent THEN Resolve(k, file[k])
                      ELSE Default[k]
  BY DEF Precedence
<1>1. ArgumentsOK(argv) /\ SetBy(argv, file, configPath, config, Len(argv) + 1)
  BY DEF SInv
<1>2. Len(argv) \in Nat /\ UsesOf(argv, k) \in SUBSET (1 .. Len(argv))
  BY <1>1 DEF ArgumentsOK, UsesOf
<1>3. \A j \in UsesOf(argv, k) : j < Len(argv) + 1
  BY <1>2
<1>4. /\ UsesOf(argv, k) = {} => config[k] = Given(file, configPath, k)
      /\ \A m \in UsesOf(argv, k) :
           (\A j \in UsesOf(argv, k) : j <= m) => config[k] = Resolve(k, TextOf(argv, m))
  BY <1>1, <1>3 DEF SetBy
<1>5. Uses(k) = UsesOf(argv, k) /\ \A j : ValueAt(j) = TextOf(argv, j)
  BY ArgumentsOfMain
<1>6. CASE Uses(k) # {}
  <2>1. Max(Uses(k)) \in Uses(k) /\ \A j \in Uses(k) : j <= Max(Uses(k))
    BY <1>2, <1>5, <1>6, LastOf
  <2> QED
    BY <1>4, <1>5, <1>6, <2>1
<1>7. CASE Uses(k) = {}
  BY <1>4, <1>5, <1>7 DEF Given
<1> QED
  BY <1>6, <1>7

\* If no value looks like an option, the two passes see the same --config.
LEMMA PathFoundHolds == SInv => PathFound
<1> SUFFICES ASSUME SInv, step = "constructed",
                    \A j \in DOMAIN argv : IsValue[j] => argv[j].option = "none"
             PROVE  /\ Cardinality(Uses("config")) <= 1
                    /\ IF Uses("config") = {} THEN configPath = NoText
                       ELSE \A j \in Uses("config") : configPath = ValueAt(j)
  BY DEF PathFound
<1>1. ArgumentsOK(argv) /\ FoundIn(argv, configPath, Len(argv) + 1)
  BY DEF SInv
<1>2. Len(argv) \in Nat /\ DOMAIN argv = 1 .. Len(argv)
  BY <1>1 DEF ArgumentsOK
<1>3. IsValue = ValuesOf(argv) /\ Uses("config") = UsesOf(argv, "config")
      /\ \A j : ValueAt(j) = TextOf(argv, j)
  BY ArgumentsOfMain
<1>4. Plain(argv)
  BY <1>3 DEF Plain
<1>5. Uses("config") = Configs(argv, Len(argv) + 1)
  BY <1>2, <1>3, <1>4 DEF Configs, UsesOf, Plain
<1>6. \/ configPath = NoText /\ Uses("config") = {}
      \/ configPath # NoText /\ \E m : Uses("config") = {m} /\ configPath = TextOf(argv, m)
  BY <1>1, <1>4, <1>5 DEF FoundIn
<1>7. CASE configPath = NoText /\ Uses("config") = {}
  BY <1>7, FS_EmptySet
<1>8. CASE configPath # NoText /\ \E m : Uses("config") = {m} /\ configPath = TextOf(argv, m)
  <2>1. PICK m : Uses("config") = {m} /\ configPath = TextOf(argv, m)
    BY <1>8
  <2>2. Cardinality({m}) = 1
    BY FS_Singleton
  <2> QED
    BY <1>3, <2>1, <2>2
<1> QED
  BY <1>6, <1>7, <1>8

\* For every configuration file, every command line and every number of cores:
\* the settings the server is constructed with follow the rule of precedence, the
\* file they come from is the one both passes over argv agree on, and no settings
\* that Validate lets through are refused by TcpServer's constructor.
THEOREM SettingsAlwaysRight == StartupSpec => []SettingsRight
<1>1. SInv => SettingsRight
  <2> SUFFICES ASSUME SInv PROVE SettingsRight
    OBVIOUS
  <2>1. StartupTypeOK
    BY DEF SInv, SettingsOK, Places, StartupTypeOK
  <2>2. ValidateSuffices
    BY DEF SInv, ValidateSuffices
  <2> QED
    BY <2>1, <2>2, PrecedenceHolds, PathFoundHolds DEF SettingsRight
<1> QED
  BY <1>1, StartupInvariance, PTL

-----------------------------------------------------------------------------
(* Signals and dispositions around Run *)

\* What may be left to take back: the tail of a rollback or of the destructors.
UndoLists ==
    {<<"server">>, <<"notify", "server">>,
     <<"SIGINT", "notify", "server">>, <<"SIGTERM", "notify", "server">>,
     <<"SIGPIPE", "notify", "server">>,
     <<"SIGINT", "SIGTERM", "notify", "server">>,
     <<"SIGTERM", "SIGPIPE", "notify", "server">>,
     <<"SIGINT", "SIGTERM", "SIGPIPE", "notify", "server">>}

\* What a list takes back.
Elements(list) == {list[n] : n \in DOMAIN list}

\* The dispositions in force are not those main() found.
Replaced ==
    CASE pc = "SIGTERM" -> {"SIGINT"}
      [] pc = "SIGPIPE" -> {"SIGINT", "SIGTERM"}
      [] pc \in {"run", "running"} -> Signals
      [] pc = "undo" -> Elements(undo) \cap Signals
      [] OTHER -> {}

Published ==
    \/ pc \in Signals \cup {"run", "running"}
    \/ pc = "undo" /\ "notify" \in Elements(undo)

\* A signal is replaced exactly while its disposition is still to be restored,
\* and then the one main() found is kept in previous.
DispositionsKnown ==
    /\ original \in [Signals -> {"default", "ignore"}]
    /\ \A s \in Signals \ Replaced : action[s] = original[s]
    /\ \A s \in Replaced :
          /\ previous[s] = original[s]
          /\ action[s] = IF s = "SIGPIPE" THEN "ignore" ELSE "handler"

\* The descriptor and the channel behind it, by the place of main().
ChannelKnown ==
    /\ G_NOTIFY_FD = IF Published THEN NotifyFd ELSE -1
    /\ pc \in {"server", "exited"} \/ channel = "open"
    /\ IF pc = "undo" THEN undo \in UndoLists ELSE undo = <<>>

\* A handler function that is running has found the descriptor published, and
\* keeps main(), or Run's join, from taking it back.
HandlersKnown ==
    \A t \in Threads :
        /\ handler[t].saved = "own"
        /\ handler[t].step = "idle" <=> handler[t] = Idle
        /\ handler[t] # Idle => Published
        /\ handler[t] # Idle /\ t = "worker" => pc = "running"
        /\ handler[t].step = "write" => handler[t].fd = NotifyFd
        /\ handler[t].step \in {"idle", "load", "write"} => errno[t] = "own"

IInv ==
    /\ TypeOK
    /\ DispositionsKnown
    /\ ChannelKnown
    /\ HandlersKnown
    /\ NothingSwallowed
    /\ SigpipeHarmless

-----------------------------------------------------------------------------
(* The lists of things to take back *)

\* A list ends with the server, has the descriptor before it and the signals
\* before that, and nothing twice.
LEMMA UndoListStep ==
    ASSUME NEW list \in UndoLists
    PROVE  /\ list \in Seq(Signals \cup {"notify", "server"})
           /\ Head(list) \in Elements(list)
           /\ Head(list) \in Signals \cup {"notify", "server"}
           /\ Elements(list) \cap Signals # {} => "notify" \in Elements(list)
           /\ Len(list) = 1 => Head(list) = "server" /\ Elements(list) = {"server"}
           /\ Len(list) # 1 => /\ Tail(list) \in UndoLists
                               /\ Head(list) # "server"
                               /\ Elements(Tail(list)) = Elements(list) \ {Head(list)}
<1> USE DEF Signals, Termination
<1> DEFINE Facts(l) ==
              /\ l \in Seq(Signals \cup {"notify", "server"})
              /\ Head(l) \in Elements(l)
              /\ Head(l) \in Signals \cup {"notify", "server"}
              /\ Elements(l) \cap Signals # {} => "notify" \in Elements(l)
              /\ Len(l) = 1 => Head(l) = "server" /\ Elements(l) = {"server"}
              /\ Len(l) # 1 => /\ Tail(l) \in UndoLists
                               /\ Head(l) # "server"
                               /\ Elements(Tail(l)) = Elements(l) \ {Head(l)}
<1>1. /\ Elements(<<"server">>) = {"server"}
      /\ Elements(<<"notify", "server">>) = {"notify", "server"}
      /\ Elements(<<"SIGINT", "notify", "server">>) = {"SIGINT", "notify", "server"}
      /\ Elements(<<"SIGTERM", "notify", "server">>) = {"SIGTERM", "notify", "server"}
      /\ Elements(<<"SIGPIPE", "notify", "server">>) = {"SIGPIPE", "notify", "server"}
      /\ Elements(<<"SIGINT", "SIGTERM", "notify", "server">>)
            = {"SIGINT", "SIGTERM", "notify", "server"}
      /\ Elements(<<"SIGTERM", "SIGPIPE", "notify", "server">>)
            = {"SIGTERM", "SIGPIPE", "notify", "server"}
      /\ Elements(<<"SIGINT", "SIGTERM", "SIGPIPE", "notify", "server">>)
            = {"SIGINT", "SIGTERM", "SIGPIPE", "notify", "server"}
  BY DEF Elements
<1>2. CASE list = <<"server">>
  BY <1>1, <1>2
<1>3. CASE list = <<"notify", "server">>
  BY <1>1, <1>3 DEF UndoLists
<1>4. CASE list = <<"SIGINT", "notify", "server">>
  BY <1>1, <1>4 DEF UndoLists
<1>5. CASE list = <<"SIGTERM", "notify", "server">>
  BY <1>1, <1>5 DEF UndoLists
<1>6. CASE list = <<"SIGPIPE", "notify", "server">>
  BY <1>1, <1>6 DEF UndoLists
<1>7. CASE list = <<"SIGINT", "SIGTERM", "notify", "server">>
  BY <1>1, <1>7 DEF UndoLists
<1>8. CASE list = <<"SIGTERM", "SIGPIPE", "notify", "server">>
  BY <1>1, <1>8 DEF UndoLists
<1>9. CASE list = <<"SIGINT", "SIGTERM", "SIGPIPE", "notify", "server">>
  BY <1>1, <1>9 DEF UndoLists
<1> QED
  BY <1>2, <1>3, <1>4, <1>5, <1>6, <1>7, <1>8, <1>9 DEF UndoLists

-----------------------------------------------------------------------------
(* The invariant *)

\* The invariant holds when main begins.
LEMMA InitIInv == Init => IInv
<1> SUFFICES ASSUME Init PROVE IInv
  OBVIOUS
<1>1. Replaced = {} /\ ~Published
  BY DEF Init, Replaced, Published, Signals, Termination
<1>2. PICK inherited \in {"default", "ignore"} :
         action = [s \in Signals |-> IF s = "SIGINT" THEN inherited ELSE "default"]
  BY DEF Init
<1>3. undo \in Seq(Signals \cup {"notify", "server"})
  BY DEF Init
<1>4. \A t \in Threads : handler[t] = Idle /\ errno[t] = "own"
  BY DEF Init
<1>5. TypeOK
  <2>1. bytes \in 0 .. ChannelCapacity /\ signals \in 0 .. MaxSignals
    BY LifecycleAssumption DEF Init
  <2>2. handler \in [Threads -> [step : {"idle", "load", "write", "leave"},
                                fd : {-1, NotifyFd}, saved : {"own", "EAGAIN"}]]
    BY DEF Init, Idle
  <2>3. swallowed \in BOOLEAN
    BY DEF Init
  <2>4. action \in [Signals -> {"default", "ignore", "handler"}]
    BY <1>2
  <2> QED
    BY <1>3, <2>1, <2>2, <2>3, <2>4 DEF Init, TypeOK
<1>6. DispositionsKnown /\ ChannelKnown
  BY <1>1, <1>2 DEF Init, DispositionsKnown, ChannelKnown
<1>7. HandlersKnown
  BY <1>4 DEF HandlersKnown, Idle
<1> QED
  BY <1>5, <1>6, <1>7 DEF Init, IInv, NothingSwallowed, SigpipeHarmless, Signals, Termination

\* The construction of the server and the publication of its descriptor.
LEMMA StartKeepsIInv ==
    ASSUME IInv, ConstructServer \/ PublishNotifyFd \/ RunStarts
    PROVE  IInv'
<1> USE DEF Main, Goto, Signals, Termination, NotifyFd
<1>1. CASE ConstructServer
  <2>1. Replaced = {} /\ ~Published /\ Replaced' = {} /\ ~Published'
    BY <1>1 DEF ConstructServer, Replaced, Published
  <2>2. TypeOK'
    <3>1. pc' \in {"check", "exited"} /\ channel' \in {"none", "open", "closed"} /\ undo' = <<>>
      BY <1>1 DEF ConstructServer, IInv, TypeOK
    <3>2. undo' \in Seq(Signals \cup {"notify", "server"})
      BY <3>1
    <3> QED
      BY <1>1, <3>1, <3>2 DEF ConstructServer, IInv, TypeOK
  <2>4. DispositionsKnown'
    BY <1>1, <2>1 DEF ConstructServer, IInv, DispositionsKnown
  <2>5. ChannelKnown'
    BY <1>1, <2>1 DEF ConstructServer, IInv, ChannelKnown
  <2>3. HandlersKnown'
    BY <1>1, <2>1 DEF ConstructServer, IInv, HandlersKnown
  <2> QED
    BY <1>1, <2>2, <2>3, <2>4, <2>5 DEF ConstructServer, IInv, NothingSwallowed, SigpipeHarmless
<1>2. CASE PublishNotifyFd
  <2>1. Replaced = {} /\ ~Published
    BY <1>2 DEF PublishNotifyFd, Replaced, Published
  <2>2. pc' = "SIGINT" /\ undo' = <<>> /\ G_NOTIFY_FD' = NotifyFd
    BY <1>2, <2>1 DEF PublishNotifyFd, IInv, ChannelKnown
  <2>3. Replaced' = {} /\ Published'
    BY <2>2 DEF Replaced, Published
  <2> QED
    BY <1>2, <2>1, <2>2, <2>3 DEF PublishNotifyFd, IInv, TypeOK, DispositionsKnown,
       ChannelKnown, HandlersKnown, NothingSwallowed, SigpipeHarmless
<1>3. CASE RunStarts
  <2>1. Replaced = Signals /\ Published /\ Replaced' = Signals /\ Published'
    BY <1>3 DEF RunStarts, Replaced, Published
  <2> QED
    BY <1>3, <2>1 DEF RunStarts, IInv, TypeOK, DispositionsKnown, ChannelKnown,
       HandlersKnown, NothingSwallowed, SigpipeHarmless
<1> QED
  BY <1>1, <1>2, <1>3

\* sigaction either replaces one more disposition or starts the rollback of
\* those replaced so far.
LEMMA InstallKeepsIInv ==
    ASSUME IInv, NEW s \in Signals, Install(s)
    PROVE  IInv'
<1> USE DEF Main, Goto, NotifyFd
<1>1. Published /\ s \notin Replaced
  BY DEF Install, Published, Replaced, Signals, Termination
<1>2. CASE pc' = "undo"
  <2>1. undo' = Rollback(s) /\ UNCHANGED <<action, previous>>
    BY <1>2 DEF Install, After, Signals, Termination
  <2>2. undo' \in UndoLists /\ Elements(undo') = Replaced \cup {"notify", "server"}
    BY <2>1 DEF Rollback, UndoLists, Elements, Replaced, Install, Signals, Termination
  <2>3. Replaced' = Replaced /\ Published' /\ undo' \in Seq(Signals \cup {"notify", "server"})
    <3>1. Replaced' = Elements(undo') \cap Signals /\ Published'
      BY <1>2, <2>2 DEF Replaced, Published
    <3>2. Replaced \subseteq Signals
      BY DEF Replaced, Signals, Termination
    <3> QED
      BY <3>1, <3>2, <2>2, UndoListStep DEF Signals, Termination
  <2> QED
    BY <1>1, <1>2, <2>1, <2>2, <2>3 DEF Install, IInv, TypeOK, DispositionsKnown, ChannelKnown,
       HandlersKnown, NothingSwallowed, SigpipeHarmless, Signals, Termination
<1>3. CASE pc' # "undo"
  <2>1. /\ pc' = After(s) /\ undo' = <<>>
        /\ previous' = [previous EXCEPT ![s] = action[s]]
        /\ action' = [action EXCEPT ![s] = IF s = "SIGPIPE" THEN "ignore" ELSE "handler"]
    BY <1>3 DEF Install
  <2>2. Replaced' = Replaced \cup {s} /\ Published'
    BY <2>1 DEF Install, After, Replaced, Published, Signals, Termination
  <2>3. Replaced \subseteq Signals
    BY DEF Replaced, Signals, Termination
  <2>4. DispositionsKnown'
    BY <1>1, <2>1, <2>2, <2>3 DEF IInv, TypeOK, DispositionsKnown, Install
  <2>5. TypeOK'
    BY <2>1 DEF IInv, TypeOK, Install, After, Signals, Termination
  <2>6. ChannelKnown'
    BY <1>1, <1>3, <2>1, <2>2 DEF IInv, ChannelKnown, Install, After, Signals, Termination
  <2>7. HandlersKnown'
    BY <1>1, <2>1, <2>2 DEF IInv, HandlersKnown, Install, Signals, Termination
  <2> QED
    BY <2>4, <2>5, <2>6, <2>7 DEF IInv, Install, NothingSwallowed, SigpipeHarmless
<1> QED
  BY <1>2, <1>3

\* Run has joined its threads before the destructors begin.
LEMMA RunEndsKeepsIInv ==
    ASSUME IInv, NEW failure, RunEnds(failure)
    PROVE  IInv'
<1> USE DEF Main, Goto, NotifyFd
<1>1. undo' = Destructors /\ pc' = "undo" /\ pc = "running"
  BY DEF RunEnds
<1>2. undo' \in UndoLists /\ Elements(undo') = Signals \cup {"notify", "server"}
  BY <1>1 DEF Destructors, UndoLists, Elements, Signals, Termination
<1>3. Replaced = Signals /\ Replaced' = Signals /\ Published /\ Published'
  BY <1>1, <1>2 DEF Replaced, Published, Signals, Termination
<1>4. undo' \in Seq(Signals \cup {"notify", "server"})
  BY <1>2, UndoListStep
<1> QED
  BY <1>1, <1>2, <1>3, <1>4 DEF RunEnds, IInv, TypeOK, DispositionsKnown, ChannelKnown,
     HandlersKnown, NothingSwallowed, SigpipeHarmless, Threads

\* A rollback or a destructor takes back the head of its list: a disposition, the
\* descriptor once no signal is left to reach the handler, then the channel.
LEMMA UndoKeepsIInv ==
    ASSUME IInv, Undo
    PROVE  IInv'
<1> USE DEF Main, Goto, NotifyFd
<1> DEFINE what == Head(undo)
<1>0. pc = "undo" /\ undo \in UndoLists
  BY DEF Undo, IInv, ChannelKnown
<1>1. \A t \in Threads : handler[t] = Idle
  BY <1>0 DEF Undo, IInv, HandlersKnown, Threads
<1>2. Replaced = Elements(undo) \cap Signals
  BY <1>0 DEF Replaced
<1>3. Published <=> "notify" \in Elements(undo)
  BY <1>0 DEF Published, Signals, Termination
<1>4. CASE Len(undo) = 1
  <2>1. what = "server" /\ Replaced = {} /\ ~Published
    BY <1>0, <1>2, <1>3, <1>4, UndoListStep DEF Signals, Termination
  <2>2. pc' = "exited" /\ undo' = <<>> /\ UNCHANGED <<action, G_NOTIFY_FD>> /\ channel' = "closed"
    BY <1>4, <2>1 DEF Undo, Signals, Termination
  <2>3. Replaced' = {} /\ ~Published'
    BY <2>2 DEF Replaced, Published, Signals, Termination
  <2> QED
    BY <1>1, <2>1, <2>2, <2>3 DEF Undo, IInv, TypeOK, DispositionsKnown, ChannelKnown,
       HandlersKnown, NothingSwallowed, SigpipeHarmless
<1>5. CASE Len(undo) # 1
  <2>1. /\ what # "server" /\ what \in Elements(undo) /\ what \in Signals \cup {"notify", "server"}
        /\ pc' = "undo" /\ undo' = Tail(undo) /\ undo' \in UndoLists
        /\ Elements(undo') = Elements(undo) \ {what}
        /\ channel' = channel
    BY <1>0, <1>5, UndoListStep DEF Undo
  <2>2. Replaced' = Replaced \ {what} /\ (Published' <=> Published /\ what # "notify")
    <3>1. Replaced' = Elements(undo') \cap Signals
      BY <2>1 DEF Replaced
    <3>2. Published' <=> "notify" \in Elements(undo')
      BY <2>1 DEF Published, Signals, Termination
    <3> QED
      BY <1>2, <1>3, <2>1, <3>1, <3>2
  <2>3. undo' \in Seq(Signals \cup {"notify", "server"})
    BY <2>1, UndoListStep
  <2>4. DispositionsKnown'
    <3>1. CASE what \in Signals
      <4>1. what \in Replaced /\ action' = [action EXCEPT ![what] = previous[what]]
        BY <1>2, <2>1, <3>1 DEF Undo
      <4> QED
        BY <2>2, <4>1 DEF IInv, TypeOK, DispositionsKnown, Undo
    <3>2. CASE what \notin Signals
      <4>1. Replaced' = Replaced /\ action' = action
        BY <1>2, <2>2, <3>2 DEF Undo
      <4> QED
        BY <4>1 DEF IInv, DispositionsKnown, Undo
    <3> QED
      BY <3>1, <3>2
  <2>5. ChannelKnown'
    BY <1>0, <2>1, <2>2 DEF IInv, ChannelKnown, Undo
  <2>6. TypeOK'
    BY <2>1, <2>3 DEF IInv, TypeOK, Undo
  <2>7. HandlersKnown'
    BY <1>1, <2>1 DEF IInv, HandlersKnown, Undo
  <2> QED
    BY <2>4, <2>5, <2>6, <2>7 DEF IInv, Undo, NothingSwallowed, SigpipeHarmless
<1> QED
  BY <1>4, <1>5

\* A signal finds the handler only while the descriptor is published, and
\* SIGPIPE, raised by workers, is ignored as long as there are any.
LEMMA SignalKeepsIInv ==
    ASSUME IInv, NEW s \in Signals, NEW t \in Threads, Signal(s, t)
    PROVE  IInv'
<1> USE DEF NotifyFd
<1>1. Replaced' = Replaced /\ (Published' <=> Published)
  BY DEF Signal, Replaced, Published
<1>2. TypeOK'
  BY LifecycleAssumption DEF IInv, TypeOK, Signal
<1>3. DispositionsKnown' /\ ChannelKnown' /\ NothingSwallowed'
  BY <1>1 DEF IInv, Signal, DispositionsKnown, ChannelKnown, NothingSwallowed
<1>4. action[s] = "handler" => Published
  <2>1. action[s] = "handler" => s \in Replaced
    BY DEF IInv, DispositionsKnown
  <2>2. Replaced # {} => Published
    <3>1. CASE pc = "undo"
      BY <3>1, UndoListStep DEF Replaced, Published, IInv, ChannelKnown
    <3>2. CASE pc # "undo"
      BY <3>2 DEF Replaced, Published, Signals, Termination
    <3> QED
      BY <3>1, <3>2
  <2> QED
    BY <2>1, <2>2
<1>5. HandlersKnown'
  <2>1. pc' = pc /\ errno' = errno
    BY DEF Signal
  <2>2. CASE handler' = handler
    BY <1>1, <2>1, <2>2 DEF IInv, HandlersKnown
  <2>3. CASE handler' # handler
    <3>1. /\ action[s] = "handler"
          /\ handler' = [handler EXCEPT ![t] = [step |-> "load", fd |-> -1, saved |-> errno[t]]]
      BY <2>3 DEF Signal
    <3>2. /\ handler'[t] = [step |-> "load", fd |-> -1, saved |-> errno[t]]
          /\ \A u \in Threads \ {t} : handler'[u] = handler[u]
      BY <3>1 DEF IInv, TypeOK
    <3>3. handler[t] = Idle /\ errno[t] = "own" /\ (t = "worker" => pc = "running")
      BY DEF Signal, Alive, IInv, HandlersKnown
    <3>4. /\ handler'[t].step = "load" /\ handler'[t].saved = "own"
          /\ handler'[t] # Idle
      BY <3>2, <3>3 DEF Idle
    <3> QED
      BY <1>1, <1>4, <2>1, <3>1, <3>2, <3>3, <3>4 DEF IInv, HandlersKnown
  <2> QED
    BY <2>2, <2>3
<1>6. SigpipeHarmless'
  <2>1. s = "SIGPIPE" => action[s] = "ignore"
    <3>1. s = "SIGPIPE" => pc = "running"
      BY DEF Signal, Alive
    <3> QED
      BY <3>1 DEF IInv, DispositionsKnown, Replaced
  <2> QED
    BY <2>1 DEF Signal, SigpipeHarmless, IInv
<1> QED
  BY <1>2, <1>3, <1>5, <1>6 DEF IInv

\* The three steps of the handler function.
LEMMA HandlerKeepsIInv ==
    ASSUME IInv, NEW t \in Threads, HandlerStep(t)
    PROVE  IInv'
<1> USE DEF NotifyFd
<1>1. Replaced' = Replaced /\ (Published' <=> Published)
  BY DEF HandlerStep, HandlerLoads, HandlerWrites, HandlerLeaves, Replaced, Published
<1>2. handler[t] # Idle /\ Published /\ G_NOTIFY_FD = NotifyFd
  BY DEF HandlerStep, HandlerLoads, HandlerWrites, HandlerLeaves, IInv, HandlersKnown,
         ChannelKnown, Idle
<1>3. DispositionsKnown' /\ ChannelKnown' /\ SigpipeHarmless'
  BY <1>1 DEF HandlerStep, HandlerLoads, HandlerWrites, HandlerLeaves, IInv,
     DispositionsKnown, ChannelKnown, SigpipeHarmless
<1>4. NothingSwallowed'
  <2>1. ~(G_NOTIFY_FD < 0)
    BY <1>2
  <2> QED
    BY <2>1 DEF HandlerStep, HandlerLoads, HandlerWrites, HandlerLeaves, IInv, NothingSwallowed
<1>5. HandlersKnown' /\ TypeOK'
  <2>1. pc' = pc
    BY DEF HandlerStep, HandlerLoads, HandlerWrites, HandlerLeaves
  <2>2. \A u \in Threads \ {t} : handler'[u] = handler[u] /\ errno'[u] = errno[u]
    BY DEF HandlerStep, HandlerLoads, HandlerWrites, HandlerLeaves, IInv, TypeOK
  <2>3. handler[t] \in [step : {"idle", "load", "write", "leave"},
                        fd : {-1, NotifyFd}, saved : {"own", "EAGAIN"}]
    BY DEF IInv, TypeOK
  <2>4. handler[t].saved = "own" /\ (t = "worker" => pc = "running")
    BY <1>2 DEF IInv, HandlersKnown
  <2>5. CASE HandlerLoads(t)
    <3>1. handler'[t] = [step |-> "write", fd |-> NotifyFd, saved |-> "own"]
      <4>1. G_NOTIFY_FD >= 0
        BY <1>2
      <4>2. handler'[t] = [handler[t] EXCEPT !.step = "write", !.fd = NotifyFd]
        BY <1>2, <2>5, <4>1 DEF HandlerLoads, IInv, TypeOK
      <4> QED
        BY <2>3, <2>4, <4>2
    <3>2. errno' = errno /\ errno[t] = "own"
      BY <2>5 DEF HandlerLoads, IInv, HandlersKnown
    <3>3. HandlersKnown'
      BY <1>1, <1>2, <2>1, <2>2, <2>4, <3>1, <3>2 DEF IInv, HandlersKnown, Idle
    <3>4. TypeOK'
      BY <1>2, <2>3, <2>5 DEF HandlerLoads, IInv, TypeOK
    <3> QED
      BY <3>3, <3>4
  <2>6. CASE HandlerWrites(t)
    <3>1. handler'[t] = [step |-> "leave", fd |-> handler[t].fd, saved |-> "own"]
      BY <2>3, <2>4, <2>6 DEF HandlerWrites, IInv, TypeOK
    <3>2. handler'[t].step = "leave" /\ handler'[t].saved = "own" /\ handler'[t] # Idle
      BY <3>1 DEF Idle
    <3>3. HandlersKnown'
      BY <1>1, <1>2, <2>1, <2>2, <2>4, <3>2 DEF IInv, HandlersKnown
    <3>4. TypeOK'
      <4>1. handler' \in [Threads -> [step : {"idle", "load", "write", "leave"},
                                      fd : {-1, NotifyFd}, saved : {"own", "EAGAIN"}]]
        BY <2>6 DEF HandlerWrites, IInv, TypeOK
      <4>2. bytes' \in 0 .. ChannelCapacity
        BY <2>6, LifecycleAssumption DEF HandlerWrites, IInv, TypeOK
      <4>3. errno' \in [Threads -> {"own", "EAGAIN"}]
        BY <2>6 DEF HandlerWrites, IInv, TypeOK
      <4> QED
        BY <2>6, <4>1, <4>2, <4>3 DEF HandlerWrites, IInv, TypeOK
    <3> QED
      BY <3>3, <3>4
  <2>7. CASE HandlerLeaves(t)
    <3>1. handler'[t] = Idle /\ errno'[t] = "own"
      BY <2>4, <2>7 DEF HandlerLeaves, IInv, TypeOK
    <3>2. handler'[t].step = "idle" /\ handler'[t].saved = "own"
      BY <3>1 DEF Idle
    <3>3. HandlersKnown'
      BY <1>1, <2>1, <2>2, <3>1, <3>2 DEF IInv, HandlersKnown
    <3>4. TypeOK'
      BY <2>4, <2>7 DEF HandlerLeaves, IInv, TypeOK, Idle
    <3> QED
      BY <3>3, <3>4
  <2> QED
    BY <2>5, <2>6, <2>7 DEF HandlerStep
<1> QED
  BY <1>3, <1>4, <1>5 DEF IInv

\* Every step of main, of a handler and of the senders of signals keeps it.
LEMMA NextIInv == IInv /\ [Next]_vars => IInv'
<1> SUFFICES ASSUME IInv, [Next]_vars PROVE IInv'
  OBVIOUS
<1>1. CASE UNCHANGED vars
  <2>1. Replaced' = Replaced /\ (Published' <=> Published)
    BY <1>1 DEF vars, Replaced, Published
  <2> QED
    BY <1>1, <2>1 DEF vars, IInv, TypeOK, DispositionsKnown, ChannelKnown, HandlersKnown,
       NothingSwallowed, SigpipeHarmless
<1>2. CASE Next
  BY <1>2, StartKeepsIInv, InstallKeepsIInv, RunEndsKeepsIInv, UndoKeepsIInv,
     SignalKeepsIInv, HandlerKeepsIInv DEF Next, MainStep
<1> QED
  BY <1>1, <1>2

\* The inductive invariant holds of main() whatever fails and whenever signals
\* arrive.
THEOREM LifecycleInvariance == Spec => []IInv
  BY InitIInv, NextIInv, PTL DEF Spec

\* At whatever instant of main() and on whatever thread a signal arrives, it is
\* written to the open stop channel or met by the disposition main() found; errno
\* survives it and SIGPIPE does not kill.
THEOREM SignalsAlwaysHarmless == Spec => []SignalsHarmless
<1>1. IInv => SignalsHarmless
  <2> SUFFICES ASSUME IInv PROVE SignalsHarmless
    OBVIOUS
  <2>1. WritesToOpenChannel
    <3>1. Published => channel = "open"
      BY DEF IInv, ChannelKnown, Published, Signals, Termination
    <3>2. Idle.step = "idle"
      BY DEF Idle
    <3> QED
      BY <3>1, <3>2 DEF IInv, WritesToOpenChannel, HandlersKnown
  <2>2. ErrnoKept
    <3>1. Idle.step = "idle"
      BY DEF Idle
    <3> QED
      BY <3>1 DEF IInv, ErrnoKept, HandlersKnown
  <2> QED
    BY <2>1, <2>2 DEF IInv, SignalsHarmless
<1> QED
  BY <1>1, LifecycleInvariance, PTL

\* When main() ends, every disposition is the one it found and the descriptor is
\* no longer published, wherever the constructor of the handler gave up.
THEOREM DispositionsAlwaysRestored == Spec => []DispositionsRestored
<1>1. IInv => DispositionsRestored
  <2> SUFFICES ASSUME IInv, pc = "exited" PROVE action = original /\ G_NOTIFY_FD = -1
    BY DEF DispositionsRestored
  <2>1. Replaced = {} /\ ~Published
    BY DEF Replaced, Published, Signals, Termination
  <2>2. \A s \in Signals : action[s] = original[s]
    BY <2>1 DEF IInv, DispositionsKnown
  <2>3. action = original
    <3>1. /\ action \in [Signals -> {"default", "ignore", "handler"}]
          /\ original \in [Signals -> {"default", "ignore"}]
      BY DEF IInv, TypeOK, DispositionsKnown
    <3> QED
      BY <2>2, <3>1
  <2> QED
    BY <2>1, <2>3 DEF IInv, ChannelKnown
<1> QED
  BY <1>1, LifecycleInvariance, PTL

=============================================================================
