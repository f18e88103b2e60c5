------------------------- MODULE ServerMetricsProofs -------------------------
(***************************************************************************)
(* The counters of ServerMetrics, proved for any number of threads, any    *)
(* number of calls in flight and any order in which the relaxed operations *)
(* take effect: the gauge never wraps, the maxima never fall, and STATS is *)
(* exact on a quiet server.                                                *)
(***************************************************************************)
EXTENDS ServerMetrics, FiniteSetTheorems, RecursionLemmas

Active == Loc("activeConnections")

Maxima == {Loc("commandLatencyMaximum"), Loc("maximumPendingWriteBytes")}

-----------------------------------------------------------------------------
(* The inductive invariant *)

\* The operations that occur: only UpdateMaximum works on a maximum, its
\* compare-exchange has something to raise, and the gauge moves by one.
Ops ==
    {o \in [op : {"add", "max_load", "max_cas"}, at : Locations,
            arg : 0 .. Wrap - 1, current : 0 .. Wrap - 1] :
        /\ o.at \in Maxima <=> o.op # "add"
        /\ o.op = "max_cas" => o.arg > o.current
        /\ o.at = Active => o.arg \in {1, Wrap - 1}}

Programs ==
    /\ program \in [Reactors -> Seq(Ops)]
    /\ added \in [Totals -> Nat]
    /\ added["acceptedConnections"] <= calls
    /\ \A t \in Reactors : m_clients[t] <= calls

\* What an operation does to the gauge.
Delta(o) == IF o.at # Active THEN 0 ELSE IF o.arg = 1 THEN 1 ELSE -1

\* How the contribution of one thread to the gauge develops from e on, when the
\* operations of p take effect in order: it stays within 0 .. b, and ends with the
\* connections m the thread has (unless it has failed).
Develops(h, p, e, b, m) ==
    /\ h \in [0 .. Len(p) -> 0 .. b]
    /\ h[0] = e
    /\ \A j \in 1 .. Len(p) : h[j] = h[j - 1] + Delta(p[j])
    /\ m >= 0 => h[Len(p)] = m

\* A sum over the threads, as a number of tokens.
Tokens(f) == {x \in Reactors \X Nat : x[2] \in 1 .. f[x[1]]}

Sums(f, n) == IsFiniteSet(Tokens(f)) /\ Cardinality(Tokens(f)) = n

\* The gauge is the sum of what each thread has contributed, and the accepted
\* connections are those of the threads.
GaugeKnown(eff, acc) ==
    /\ eff \in [Reactors -> Nat] /\ acc \in [Reactors -> Nat]
    /\ Sums(eff, memory[Active])
    /\ Sums(acc, added["acceptedConnections"])
    /\ \A t \in Reactors : \E h : Develops(h, program[t], eff[t], acc[t], m_clients[t])

Gauge == \E eff, acc : GaugeKnown(eff, acc)

IInv == TypeOK /\ Programs /\ Gauge

-----------------------------------------------------------------------------
(* Sums *)

\* One more for one thread is one more in the sum.
LEMMA SumUp ==
    ASSUME NEW f \in [Reactors -> Nat], NEW t \in Reactors, NEW n, Sums(f, n),
           NEW g, g = [f EXCEPT ![t] = f[t] + 1]
    PROVE  g \in [Reactors -> Nat] /\ Sums(g, n + 1) /\ n \in Nat
<1> DEFINE x == <<t, f[t] + 1>>
<1>1. g \in [Reactors -> Nat] /\ g[t] = f[t] + 1 /\ \A u \in Reactors : u # t => g[u] = f[u]
  OBVIOUS
<1>2. x \in Reactors \X Nat /\ x[1] = t /\ x[2] = f[t] + 1
  OBVIOUS
<1>3. Tokens(g) = Tokens(f) \cup {x}
  <2>1. ASSUME NEW y \in Tokens(g), y \notin Tokens(f) PROVE y = x
    <3>1. y \in Reactors \X Nat /\ y[2] \in 1 .. g[y[1]] /\ y[2] \notin 1 .. f[y[1]]
      BY <2>1 DEF Tokens
    <3>2. y = <<y[1], y[2]>> /\ y[1] \in Reactors /\ y[2] \in Nat
      BY <3>1
    <3>3. y[1] = t
      BY <1>1, <3>1, <3>2
    <3>4. y[2] = f[t] + 1
      BY <1>1, <3>1, <3>2, <3>3
    <3> QED
      BY <3>2, <3>3, <3>4
  <2>2. ASSUME NEW y \in Tokens(f) PROVE y \in Tokens(g)
    <3>1. y \in Reactors \X Nat /\ y[2] \in 1 .. f[y[1]] /\ y[1] \in Reactors
      BY <2>2 DEF Tokens
    <3>2. y[2] \in 1 .. g[y[1]]
      BY <1>1, <3>1
    <3> QED
      BY <3>1, <3>2 DEF Tokens
  <2>3. x \in Tokens(g)
    BY <1>1, <1>2 DEF Tokens
  <2> QED
    BY <2>1, <2>2, <2>3
<1>4. x \notin Tokens(f)
  BY <1>2 DEF Tokens
<1> HIDE DEF x
<1>5. IsFiniteSet(Tokens(f)) /\ Cardinality(Tokens(f)) = n
  BY DEF Sums
<1>6. n \in Nat
  BY <1>5, FS_CardinalityType
<1>7. IsFiniteSet(Tokens(g)) /\ Cardinality(Tokens(g)) = n + 1
  <2>1. /\ IsFiniteSet(Tokens(f) \cup {x})
        /\ Cardinality(Tokens(f) \cup {x}) =
              IF x \in Tokens(f) THEN Cardinality(Tokens(f)) ELSE Cardinality(Tokens(f)) + 1
    BY <1>5, FS_AddElement
  <2> QED
    BY <1>3, <1>4, <1>5, <2>1
<1> QED
  BY <1>1, <1>6, <1>7 DEF Sums

\* One less likewise.
LEMMA SumDown ==
    ASSUME NEW f \in [Reactors -> Nat], NEW t \in Reactors, f[t] > 0, NEW n, Sums(f, n),
           NEW g, g = [f EXCEPT ![t] = f[t] - 1]
    PROVE  g \in [Reactors -> Nat] /\ n \in Nat /\ n > 0 /\ Sums(g, n - 1)
<1>0. /\ f[t] \in Nat /\ f[t] - 1 \in Nat /\ (f[t] - 1) + 1 = f[t]
      /\ g[t] = f[t] - 1 /\ \A u \in Reactors : u # t => g[u] = f[u]
  OBVIOUS
<1>1. g \in [Reactors -> Nat] /\ f = [g EXCEPT ![t] = g[t] + 1]
  <2>1. g \in [Reactors -> Nat]
    BY <1>0
  <2>2. \A u \in Reactors : f[u] = [g EXCEPT ![t] = g[t] + 1][u]
    BY <1>0, <2>1
  <2> QED
    BY <2>1, <2>2
<1>2. IsFiniteSet(Tokens(g))
  <2>1. Tokens(g) \subseteq Tokens(f)
    BY DEF Tokens
  <2> QED
    BY <2>1, FS_Subset DEF Sums
<1>3. Sums(g, Cardinality(Tokens(g)))
  BY <1>2 DEF Sums
<1>4. Sums(f, Cardinality(Tokens(g)) + 1) /\ Cardinality(Tokens(g)) \in Nat
  BY <1>1, <1>3, SumUp
<1> QED
  BY <1>1, <1>2, <1>4 DEF Sums

\* A sum of smaller numbers is smaller.
LEMMA SumLess ==
    ASSUME NEW f \in [Reactors -> Nat], NEW g \in [Reactors -> Nat],
           \A t \in Reactors : f[t] <= g[t], NEW n, NEW m, Sums(f, n), Sums(g, m)
    PROVE  n <= m
<1>1. Tokens(f) \subseteq Tokens(g)
  BY DEF Tokens
<1> QED
  BY <1>1, FS_Subset DEF Sums

-----------------------------------------------------------------------------
(* How a thread's contribution develops *)

\* Concatenation, typed.
LEMMA Joined ==
    ASSUME NEW S, NEW a \in Seq(S), NEW b \in Seq(S)
    PROVE  a \o b \in Seq(S) /\ Len(a \o b) = Len(a) + Len(b)
OBVIOUS

\* What Replace returns when an operation takes effect and nothing remains.
LEMMA ReplaceByNothing ==
    ASSUME NEW S, NEW s \in Seq(S), NEW i \in 1 .. Len(s)
    PROVE  /\ Replace(s, i, <<>>) \in Seq(S)
           /\ Len(Replace(s, i, <<>>)) = Len(s) - 1
           /\ \A k \in 1 .. Len(s) - 1 :
                 Replace(s, i, <<>>)[k] = IF k < i THEN s[k] ELSE s[k + 1]
<1>0. i \in Int /\ 1 <= i /\ i <= Len(s) /\ Len(s) \in Nat
  OBVIOUS
<1> DEFINE a == SubSeq(s, 1, i - 1)
           b == SubSeq(s, i + 1, Len(s))
<1>1. a \in Seq(S) /\ Len(a) = i - 1 /\ \A k \in 1 .. i - 1 : a[k] = s[k]
  BY <1>0
<1>2. b \in Seq(S) /\ Len(b) = Len(s) - i /\ \A k \in 1 .. Len(s) - i : b[k] = s[k + i]
  BY <1>0
<1>3. Replace(s, i, <<>>) = a \o <<>> \o b
  BY DEF Replace
<1> HIDE DEF a, b
<1>4. a \o <<>> = a
  BY <1>1
<1>5. a \o b \in Seq(S) /\ Len(a \o b) = Len(a) + Len(b)
  BY <1>1, <1>2, Joined
<1>6. Len(a) + Len(b) = Len(s) - 1
  BY <1>0, <1>1, <1>2
<1>7. ASSUME NEW k \in 1 .. Len(s) - 1 PROVE (a \o b)[k] = IF k < i THEN s[k] ELSE s[k + 1]
  <2>1. CASE k < i
    BY <1>0, <1>1, <1>2, <2>1
  <2>2. CASE k >= i
    <3>1. k - (i - 1) \in 1 .. Len(s) - i /\ (a \o b)[k] = b[k - (i - 1)]
      BY <1>0, <1>1, <1>2, <2>2
    <3>2. (k - (i - 1)) + i = k + 1
      BY <1>0
    <3> QED
      BY <1>0, <1>2, <2>2, <3>1, <3>2
  <2>3. k < i \/ k >= i
    BY <1>0
  <2> QED
    BY <2>1, <2>2, <2>3
<1> QED
  BY <1>3, <1>4, <1>5, <1>6, <1>7

\* ... and when one operation remains of it.
LEMMA ReplaceByOne ==
    ASSUME NEW S, NEW s \in Seq(S), NEW i \in 1 .. Len(s), NEW o \in S
    PROVE  /\ Replace(s, i, <<o>>) \in Seq(S)
           /\ Len(Replace(s, i, <<o>>)) = Len(s)
           /\ \A k \in 1 .. Len(s) :
                 Replace(s, i, <<o>>)[k] = IF k = i THEN o ELSE s[k]
<1>0. i \in Int /\ 1 <= i /\ i <= Len(s) /\ Len(s) \in Nat
  OBVIOUS
<1> DEFINE a == SubSeq(s, 1, i - 1)
           b == SubSeq(s, i + 1, Len(s))
           c == a \o <<o>>
<1>1. a \in Seq(S) /\ Len(a) = i - 1 /\ \A k \in 1 .. i - 1 : a[k] = s[k]
  BY <1>0
<1>2. b \in Seq(S) /\ Len(b) = Len(s) - i /\ \A k \in 1 .. Len(s) - i : b[k] = s[k + i]
  BY <1>0
<1>3. Replace(s, i, <<o>>) = c \o b
  BY DEF Replace
<1> HIDE DEF a, b
<1>4. c \in Seq(S) /\ Len(c) = i /\ c[i] = o /\ \A k \in 1 .. i - 1 : c[k] = s[k]
  BY <1>0, <1>1
<1> HIDE DEF c
<1>5. c \o b \in Seq(S) /\ Len(c \o b) = Len(s)
  <2>1. i + (Len(s) - i) = Len(s)
    BY <1>0
  <2>2. c \o b \in Seq(S) /\ Len(c \o b) = Len(c) + Len(b)
    BY <1>2, <1>4, Joined
  <2> QED
    BY <1>2, <1>4, <2>1, <2>2
<1>6. ASSUME NEW k \in 1 .. Len(s) PROVE (c \o b)[k] = IF k = i THEN o ELSE s[k]
  <2>1. CASE k <= i
    BY <1>0, <1>2, <1>4, <2>1
  <2>2. CASE k > i
    <3>1. k - i \in 1 .. Len(s) - i /\ (c \o b)[k] = b[k - i]
      BY <1>0, <1>2, <1>4, <2>2
    <3>2. (k - i) + i = k
      BY <1>0
    <3> QED
      BY <1>0, <1>2, <2>2, <3>1, <3>2
  <2>3. k <= i \/ k > i
    BY <1>0
  <2> QED
    BY <2>1, <2>2, <2>3
<1> QED
  BY <1>3, <1>5, <1>6

\* A call appends operations of which only the last may move the gauge.
LEMMA DevelopsOnCall ==
    ASSUME NEW p \in Seq(Ops), NEW q \in Seq(Ops), Len(q) > 0,
           NEW e \in Nat, NEW b \in Nat, NEW m \in Int, NEW h, Develops(h, p, e, b, m),
           \A k \in 1 .. Len(q) - 1 : Delta(q[k]) = 0,
           NEW b2 \in Nat, b <= b2, NEW m2 \in Int,
           h[Len(p)] + Delta(q[Len(q)]) \in 0 .. b2,
           m2 >= 0 => m >= 0 /\ m2 = m + Delta(q[Len(q)])
    PROVE  \E g : Develops(g, p \o q, e, b2, m2)
<1>1. PICK n \in Nat : n = Len(p)
  OBVIOUS
<1>2. PICK l \in Nat : l = Len(q) /\ l > 0
  OBVIOUS
<1>3. PICK d \in Int : d = Delta(q[Len(q)])
  BY DEF Delta
<1>4. /\ h \in [0 .. n -> 0 .. b] /\ h[0] = e
      /\ \A j \in 1 .. n : h[j] = h[j - 1] + Delta(p[j])
      /\ m >= 0 => h[n] = m
  BY <1>1 DEF Develops
<1> DEFINE g == [k \in 0 .. (n + l) |-> IF k <= n THEN h[k]
                                         ELSE IF k = n + l THEN h[n] + d ELSE h[n]]
           r == p \o q
<1>5. Len(r) = n + l /\ \A k \in 1 .. n : r[k] = p[k]
  BY <1>1, <1>2
<1>6. \A k \in 1 .. l : r[n + k] = q[k]
  BY <1>1, <1>2
<1> HIDE DEF r
<1>7. h[n] \in 0 .. b /\ h[n] + d \in 0 .. b2
  BY <1>1, <1>3, <1>4
<1>8. g \in [0 .. (n + l) -> 0 .. b2]
  <2>1. ASSUME NEW k \in 0 .. (n + l) PROVE g[k] \in 0 .. b2
    <3>1. CASE k <= n
      BY <1>4, <3>1
    <3>2. CASE k > n
      BY <1>7, <3>2
    <3> QED
      BY <3>1, <3>2
  <2> QED
    BY <2>1
<1>9. g[0] = e /\ g[n + l] = h[n] + d
  BY <1>2, <1>4
<1>10. ASSUME NEW j \in 1 .. n + l PROVE g[j] = g[j - 1] + Delta(r[j])
  <2>1. CASE j <= n
    <3>1. g[j] = h[j] /\ g[j - 1] = h[j - 1] /\ j \in 1 .. n
      BY <2>1
    <3> QED
      BY <1>4, <1>5, <3>1
  <2>2. CASE j > n
    <3>1. j - n \in 1 .. l /\ n + (j - n) = j
      BY <2>2
    <3>2. r[j] = q[j - n]
      BY <1>6, <3>1
    <3>3. g[j - 1] = h[n]
      BY <2>2
    <3>4. CASE j = n + l
      <4>1. j - n = l
        BY <3>4
      <4> QED
        BY <1>2, <1>3, <1>9, <3>2, <3>3, <3>4, <4>1
    <3>5. CASE j # n + l
      <4>1. g[j] = h[n] /\ j - n \in 1 .. l - 1
        BY <2>2, <3>1, <3>5
      <4>2. Delta(r[j]) = 0
        BY <1>2, <3>2, <4>1
      <4> QED
        <5>1. h[n] \in Int /\ h[n] = h[n] + 0
          BY <1>7
        <5> HIDE DEF g
        <5> QED
          BY <3>3, <4>1, <4>2, <5>1
    <3> QED
      BY <3>4, <3>5
  <2> QED
    BY <2>1, <2>2
<1> HIDE DEF g
<1>11. m2 >= 0 => g[n + l] = m2
  BY <1>3, <1>4, <1>9
<1>12. Develops(g, r, e, b2, m2)
  BY <1>5, <1>8, <1>9, <1>10, <1>11 DEF Develops
<1> QED
  BY <1>12 DEF r

\* When an operation that leaves the gauge alone takes effect, and at most one of
\* the same kind remains of it, the contribution develops as before.
LEMMA DevelopsOnNeutral ==
    ASSUME NEW p \in Seq(Ops), NEW i \in 1 .. Len(p), Delta(p[i]) = 0,
           NEW e \in Nat, NEW b \in Nat, NEW m \in Int, NEW h, Develops(h, p, e, b, m)
    PROVE  /\ \E g : Develops(g, Replace(p, i, <<>>), e, b, m)
           /\ \A o \in Ops : Delta(o) = 0 => Develops(h, Replace(p, i, <<o>>), e, b, m)
<1>1. PICK n \in Nat : n = Len(p) /\ i \in 1 .. n
  OBVIOUS
<1>2. /\ h \in [0 .. n -> 0 .. b] /\ h[0] = e
      /\ \A j \in 1 .. n : h[j] = h[j - 1] + Delta(p[j])
      /\ m >= 0 => h[n] = m
  BY <1>1 DEF Develops
<1>3. h[i] = h[i - 1]
  <2>1. h[i] = h[i - 1] + 0 /\ h[i - 1] \in Int
    BY <1>1, <1>2
  <2> QED
    BY <2>1
<1>4. \E g : Develops(g, Replace(p, i, <<>>), e, b, m)
  <2> DEFINE r == Replace(p, i, <<>>)
             g == [k \in 0 .. (n - 1) |-> IF k < i THEN h[k] ELSE h[k + 1]]
  <2>1. /\ Len(r) = n - 1
        /\ \A k \in 1 .. n - 1 : r[k] = IF k < i THEN p[k] ELSE p[k + 1]
    BY <1>1, ReplaceByNothing
  <2> HIDE DEF r
  <2>2. g \in [0 .. (n - 1) -> 0 .. b]
    <3>1. ASSUME NEW k \in 0 .. (n - 1) PROVE g[k] \in 0 .. b
      BY <1>1, <1>2, <3>1
    <3> QED
      BY <3>1
  <2>3. g[0] = e /\ g[n - 1] = h[n]
    BY <1>1, <1>2, <1>3
  <2>4. ASSUME NEW j \in 1 .. n - 1 PROVE g[j] = g[j - 1] + Delta(r[j])
    <3>1. CASE j < i
      <4>1. g[j] = h[j] /\ g[j - 1] = h[j - 1] /\ r[j] = p[j] /\ j \in 1 .. n
        BY <1>1, <2>1, <3>1
      <4> QED
        BY <1>2, <4>1
    <3>2. CASE j >= i
      <4>1. g[j] = h[j + 1] /\ r[j] = p[j + 1] /\ j + 1 \in 1 .. n
        BY <1>1, <2>1, <3>2
      <4>2. g[j - 1] = h[j]
        BY <1>1, <1>3, <3>2
      <4>3. (j + 1) - 1 = j
        OBVIOUS
      <4> HIDE DEF g
      <4> QED
        BY <1>2, <4>1, <4>2, <4>3
    <3> QED
      BY <1>1, <3>1, <3>2
  <2> HIDE DEF g
  <2>5. Develops(g, r, e, b, m)
    BY <1>2, <2>1, <2>2, <2>3, <2>4 DEF Develops
  <2> QED
    BY <2>5 DEF r
<1>5. ASSUME NEW o \in Ops, Delta(o) = 0
      PROVE  Develops(h, Replace(p, i, <<o>>), e, b, m)
  <2> DEFINE r == Replace(p, i, <<o>>)
  <2>1. Len(r) = n /\ \A k \in 1 .. n : r[k] = IF k = i THEN o ELSE p[k]
    BY <1>1, <1>5, ReplaceByOne
  <2> HIDE DEF r
  <2>2. \A k \in 1 .. n : Delta(r[k]) = Delta(p[k])
    BY <1>5, <2>1
  <2>3. Develops(h, r, e, b, m)
    BY <1>2, <2>1, <2>2 DEF Develops
  <2> QED
    BY <2>3 DEF r
<1> QED
  BY <1>4, <1>5

\* When an operation on the gauge takes effect it is the first of its thread on the
\* gauge: the contribution takes its first step, within the same bounds.
LEMMA DevelopsOnGauge ==
    ASSUME NEW p \in Seq(Ops), NEW i \in 1 .. Len(p),
           \A j \in 1 .. i - 1 : Delta(p[j]) = 0,
           NEW e \in Nat, NEW b \in Nat, NEW m \in Int, NEW h, Develops(h, p, e, b, m)
    PROVE  /\ e + Delta(p[i]) \in 0 .. b
           /\ \E g : Develops(g, Replace(p, i, <<>>), e + Delta(p[i]), b, m)
<1>1. PICK n \in Nat : n = Len(p) /\ i \in 1 .. n
  OBVIOUS
<1>2. /\ h \in [0 .. n -> 0 .. b] /\ h[0] = e
      /\ \A j \in 1 .. n : h[j] = h[j - 1] + Delta(p[j])
      /\ m >= 0 => h[n] = m
  BY <1>1 DEF Develops
<1>3. \A k \in 0 .. i - 1 : h[k] = e
  <2> DEFINE T == {k \in Nat : k <= i - 1 => h[k] = e}
  <2>1. 0 \in T
    BY <1>2
  <2>2. ASSUME NEW k \in Nat, k \in T PROVE k + 1 \in T
    <3>1. CASE k + 1 <= i - 1
      <4>1. h[k] = e /\ k + 1 \in 1 .. n /\ k + 1 \in 1 .. i - 1 /\ (k + 1) - 1 = k
        BY <1>1, <2>2, <3>1
      <4>2. h[k + 1] = h[k] + Delta(p[k + 1]) /\ Delta(p[k + 1]) = 0
        BY <1>2, <4>1
      <4>3. h[k + 1] = e
        BY <4>1, <4>2
      <4> QED
        BY <4>3
    <3>2. CASE ~(k + 1 <= i - 1)
      BY <3>2
    <3> QED
      BY <3>1, <3>2
  <2> HIDE DEF T
  <2>3. T \in SUBSET Nat
    BY DEF T
  <2>4. T = Nat
    BY <2>1, <2>2, <2>3, SetInduction
  <2> QED
    BY <2>4 DEF T
<1>4. h[i] = e + Delta(p[i]) /\ h[i] \in 0 .. b
  BY <1>1, <1>2, <1>3
<1> DEFINE r == Replace(p, i, <<>>)
           g == [k \in 0 .. (n - 1) |-> IF k < i THEN h[i] ELSE h[k + 1]]
<1>5. /\ Len(r) = n - 1
      /\ \A k \in 1 .. n - 1 : r[k] = IF k < i THEN p[k] ELSE p[k + 1]
  BY <1>1, ReplaceByNothing
<1> HIDE DEF r
<1>6. g \in [0 .. (n - 1) -> 0 .. b]
  <2>1. ASSUME NEW k \in 0 .. (n - 1) PROVE g[k] \in 0 .. b
    BY <1>1, <1>2, <1>4, <2>1
  <2> QED
    BY <2>1
<1>7. g[0] = e + Delta(p[i]) /\ g[n - 1] = h[n]
  BY <1>1, <1>4
<1>8. ASSUME NEW j \in 1 .. n - 1 PROVE g[j] = g[j - 1] + Delta(r[j])
  <2>1. CASE j < i
    <3>1. g[j] = h[i] /\ g[j - 1] = h[i] /\ r[j] = p[j] /\ j \in 1 .. i - 1
      BY <1>1, <1>5, <2>1
    <3>2. Delta(r[j]) = 0 /\ h[i] \in Int /\ h[i] + 0 = h[i]
      BY <1>4, <3>1
    <3> HIDE DEF g
    <3> QED
      BY <3>1, <3>2
  <2>2. CASE j >= i
    <3>1. g[j] = h[j + 1] /\ r[j] = p[j + 1] /\ j + 1 \in 1 .. n
      BY <1>1, <1>5, <2>2
    <3>2. g[j - 1] = h[j] /\ (j + 1) - 1 = j
      BY <1>1, <2>2
    <3> HIDE DEF g
    <3> QED
      BY <1>2, <3>1, <3>2
  <2> QED
    BY <1>1, <2>1, <2>2
<1> HIDE DEF g
<1>9. Develops(g, r, e + Delta(p[i]), b, m)
  BY <1>2, <1>5, <1>6, <1>7, <1>8 DEF Develops
<1> QED
  BY <1>4, <1>9 DEF r

-----------------------------------------------------------------------------
(* The operations that the calls issue *)

\* The bucket of a latency is one of the buckets.
LEMMA BucketOfLatency ==
    ASSUME NEW d
    PROVE  BucketIndex(d) \in Buckets
<1> DEFINE T == {i \in DOMAIN Bounds : d <= Bounds[i]} \cup {Len(Bounds) + 1}
<1>1. Len(Bounds) \in Nat /\ DOMAIN Bounds = 1 .. Len(Bounds)
  BY MetricsAssumption
<1>2. T \subseteq 1 .. Len(Bounds) + 1 /\ T \in SUBSET Nat /\ T # {}
  BY <1>1
<1>3. BucketIndex(d) = CHOOSE x \in T : \A y \in T : x <= y
  BY DEF BucketIndex, Min
<1> HIDE DEF T
<1>4. \E x \in T : \A y \in T : x <= y
  BY <1>2, LeastNat
<1>5. BucketIndex(d) \in T
  BY <1>3, <1>4, Zenon
<1> QED
  BY <1>2, <1>5 DEF Buckets

\* Every atomic operation of the source is of the known kinds, and only those of
\* OnConnectionAccepted and OnConnectionClosed on the gauge move it.
LEMMA OperationsKnown ==
    /\ \A n \in Totals : FetchAdd(Loc(n), 1) \in Ops /\ Delta(FetchAdd(Loc(n), 1)) = 0
    /\ FetchAdd(Active, 1) \in Ops /\ Delta(FetchAdd(Active, 1)) = 1
    /\ FetchAdd(Active, Wrap - 1) \in Ops /\ Delta(FetchAdd(Active, Wrap - 1)) = -1
    /\ \A i \in Buckets : FetchAdd(Bucket(i), 1) \in Ops /\ Delta(FetchAdd(Bucket(i), 1)) = 0
    /\ \A n \in {1} \cup Latencies, l \in {Loc("commandLatencyCount"), Loc("commandLatencyTotal")} :
          FetchAdd(l, n) \in Ops /\ Delta(FetchAdd(l, n)) = 0
    /\ \A n \in Latencies \cup Sizes, l \in Maxima :
          UpdateMaximum(l, n) \in Ops /\ Delta(UpdateMaximum(l, n)) = 0
<1>1. /\ Wrap \in Nat /\ Wrap > 2 /\ 0 \in 0 .. Wrap - 1 /\ 1 \in 0 .. Wrap - 1
      /\ Wrap - 1 \in 0 .. Wrap - 1 /\ Wrap - 1 # 1
      /\ Latencies \subseteq 0 .. Wrap - 1 /\ Sizes \subseteq 0 .. Wrap - 1
  BY MetricsAssumption
<1>2. \A n \in Totals : Loc(n) \in Locations /\ Loc(n) # Active /\ Loc(n) \notin Maxima
  BY MetricsAssumption DEF Totals, Locations, Loc, Active, Maxima
<1>3. Active \in Locations /\ Active \notin Maxima
  BY DEF Locations, Loc, Active, Maxima
<1>4. \A i \in Buckets : Bucket(i) \in Locations /\ Bucket(i) # Active /\ Bucket(i) \notin Maxima
  BY DEF Locations, Loc, Active, Maxima, Bucket, Buckets
<1>5. \A l \in {Loc("commandLatencyCount"), Loc("commandLatencyTotal")} :
         l \in Locations /\ l # Active /\ l \notin Maxima
  BY DEF Locations, Loc, Active, Maxima
<1>6. \A l \in Maxima : l \in Locations /\ l # Active
  BY DEF Locations, Loc, Active, Maxima
<1>7. ASSUME NEW l \in Locations, l # Active, l \notin Maxima, NEW n \in 0 .. Wrap - 1
      PROVE  FetchAdd(l, n) \in Ops /\ Delta(FetchAdd(l, n)) = 0
  BY <1>1, <1>7 DEF FetchAdd, Ops, Delta
<1>8. ASSUME NEW l \in Maxima, NEW n \in 0 .. Wrap - 1
      PROVE  UpdateMaximum(l, n) \in Ops /\ Delta(UpdateMaximum(l, n)) = 0
  BY <1>1, <1>6, <1>8 DEF UpdateMaximum, Ops, Delta
<1>9. ASSUME NEW n \in {1, Wrap - 1}
      PROVE  FetchAdd(Active, n) \in Ops /\ Delta(FetchAdd(Active, n)) = IF n = 1 THEN 1 ELSE -1
  BY <1>1, <1>3, <1>9 DEF FetchAdd, Ops, Delta
<1>10. /\ FetchAdd(Active, 1) \in Ops /\ Delta(FetchAdd(Active, 1)) = 1
       /\ FetchAdd(Active, Wrap - 1) \in Ops /\ Delta(FetchAdd(Active, Wrap - 1)) = -1
  BY <1>1, <1>9
<1>11. \A n \in Totals : FetchAdd(Loc(n), 1) \in Ops /\ Delta(FetchAdd(Loc(n), 1)) = 0
  BY <1>1, <1>2, <1>7
<1>12. \A i \in Buckets : FetchAdd(Bucket(i), 1) \in Ops /\ Delta(FetchAdd(Bucket(i), 1)) = 0
  BY <1>1, <1>4, <1>7
<1>13. \A n \in {1} \cup Latencies, l \in {Loc("commandLatencyCount"), Loc("commandLatencyTotal")} :
          FetchAdd(l, n) \in Ops /\ Delta(FetchAdd(l, n)) = 0
  BY <1>1, <1>5, <1>7
<1>14. \A n \in Latencies \cup Sizes, l \in Maxima :
          UpdateMaximum(l, n) \in Ops /\ Delta(UpdateMaximum(l, n)) = 0
  BY <1>1, <1>8
<1> QED
  BY <1>10, <1>11, <1>12, <1>13, <1>14

\* What remains of UpdateMaximum is nothing, or an operation of the same kind.
LEMMA RetryKnown ==
    ASSUME NEW o \in Ops, o.op # "add", NEW v \in 0 .. Wrap - 1
    PROVE  \/ Retry(o, v) = <<>> /\ ~(o.arg > v)
           \/ \E r \in Ops : /\ Delta(r) = 0 /\ Retry(o, v) = <<r>>
                             /\ r.at = o.at /\ r.arg = o.arg
<1> DEFINE r == [o EXCEPT !.op = "max_cas", !.current = v]
<1>1. Retry(o, v) = IF o.arg > v THEN <<r>> ELSE <<>>
  BY DEF Retry
<1>2. /\ o \in [op : {"add", "max_load", "max_cas"}, at : Locations,
                arg : 0 .. Wrap - 1, current : 0 .. Wrap - 1]
      /\ o.at \in Maxima
  BY DEF Ops
<1>3. /\ r \in [op : {"add", "max_load", "max_cas"}, at : Locations,
                arg : 0 .. Wrap - 1, current : 0 .. Wrap - 1]
      /\ r.at = o.at /\ r.arg = o.arg /\ r.op = "max_cas" /\ r.current = v
  BY <1>2
<1> HIDE DEF r
<1>4. r.at # Active
  BY <1>2, <1>3 DEF Maxima, Active, Loc
<1>5. o.arg > v => r \in Ops
  BY <1>2, <1>3, <1>4 DEF Ops
<1>6. Delta(r) = 0
  BY <1>4 DEF Delta
<1> QED
  BY <1>1, <1>3, <1>5, <1>6

\* The operations of a recorded latency.
LEMMA LatencyOperations ==
    ASSUME NEW d \in Latencies
    PROVE  /\ RecordCommandLatency(d) \in Seq(Ops) /\ Len(RecordCommandLatency(d)) = 4
           /\ \A k \in 1 .. 4 : Delta(RecordCommandLatency(d)[k]) = 0
<1> DEFINE a == FetchAdd(Loc("commandLatencyCount"), 1)
           b == FetchAdd(Loc("commandLatencyTotal"), d)
           c == UpdateMaximum(Loc("commandLatencyMaximum"), d)
           e == FetchAdd(Bucket(BucketIndex(d)), 1)
<1>1. a \in Ops /\ b \in Ops /\ c \in Ops /\ e \in Ops
  BY OperationsKnown, BucketOfLatency DEF Maxima
<1>2. Delta(a) = 0 /\ Delta(b) = 0 /\ Delta(c) = 0 /\ Delta(e) = 0
  BY OperationsKnown, BucketOfLatency DEF Maxima
<1>3. RecordCommandLatency(d) = <<a, b, c, e>>
  BY DEF RecordCommandLatency
<1> HIDE DEF a, b, c, e
<1> QED
  BY <1>1, <1>2, <1>3

-----------------------------------------------------------------------------
(* The steps *)

\* A call of a thread: the operations q are appended to its program, of which the
\* last moves the gauge by as much as the thread's connections change.
LEMMA CallKeeps ==
    ASSUME IInv, NEW t \in Reactors, NEW q \in Seq(Ops), Len(q) > 0,
           \A k \in 1 .. Len(q) - 1 : Delta(q[k]) = 0,
           NEW d, d = Delta(q[Len(q)]), Issue(t, q), memory' = memory,
           m_clients' = [m_clients EXCEPT ![t] = m_clients[t] + d],
           d # 0 => m_clients[t] >= 0, d = -1 => m_clients[t] > 0,
           calls' \in {calls, calls + 1}, d = 1 => calls' = calls + 1,
           added' \in [Totals -> Nat],
           added'["acceptedConnections"] =
               IF d = 1 THEN added["acceptedConnections"] + 1 ELSE added["acceptedConnections"]
    PROVE  Programs' /\ Gauge'
<1>1. /\ m_clients \in [Reactors -> -1 .. MaxCalls] /\ calls \in 0 .. MaxCalls
      /\ MaxCalls \in Nat /\ m_clients[t] \in Int /\ calls \in Nat
  BY MetricsAssumption DEF IInv, TypeOK
<1>2. /\ program \in [Reactors -> Seq(Ops)] /\ added \in [Totals -> Nat]
      /\ added["acceptedConnections"] <= calls
      /\ \A u \in Reactors : m_clients[u] <= calls
      /\ added["acceptedConnections"] \in Nat
  BY DEF IInv, Programs, Totals
<1>3. d \in {-1, 0, 1}
  BY DEF Delta
<1>4. program' = [program EXCEPT ![t] = program[t] \o q]
  BY <1>2 DEF Issue
<1>5. program[t] \in Seq(Ops) /\ program[t] \o q \in Seq(Ops)
  BY <1>2, Joined
<1>6. /\ program' \in [Reactors -> Seq(Ops)] /\ program'[t] = program[t] \o q
      /\ \A u \in Reactors : u # t => program'[u] = program[u]
  BY <1>2, <1>4, <1>5
<1>7. /\ m_clients'[t] = m_clients[t] + d
      /\ \A u \in Reactors : u # t => m_clients'[u] = m_clients[u]
  BY <1>1
<1>8. Programs'
  <2>1. \A u \in Reactors : m_clients'[u] <= calls'
    <3>1. ASSUME NEW u \in Reactors, u # t PROVE m_clients'[u] <= calls'
      <4>1. m_clients'[u] = m_clients[u] /\ m_clients[u] \in Int /\ m_clients[u] <= calls
        BY <1>1, <1>2, <1>7, <3>1
      <4> QED
        BY <1>1, <4>1
    <3>2. m_clients'[t] <= calls'
      <4>1. m_clients[t] <= calls
        BY <1>2
      <4> QED
        BY <1>1, <1>3, <1>7, <4>1
    <3> QED
      BY <3>1, <3>2
  <2>2. added'["acceptedConnections"] <= calls'
    BY <1>1, <1>2
  <2> QED
    BY <1>6, <2>1, <2>2 DEF Programs
<1>9. PICK eff, acc : GaugeKnown(eff, acc)
  BY DEF IInv, Gauge
<1>10. /\ eff \in [Reactors -> Nat] /\ acc \in [Reactors -> Nat]
       /\ Sums(eff, memory[Active]) /\ Sums(acc, added["acceptedConnections"])
       /\ \A u \in Reactors : \E h : Develops(h, program[u], eff[u], acc[u], m_clients[u])
  BY <1>9 DEF GaugeKnown
<1> DEFINE acc2 == IF d = 1 THEN [acc EXCEPT ![t] = acc[t] + 1] ELSE acc
<1>11. acc2 \in [Reactors -> Nat] /\ Sums(acc2, added'["acceptedConnections"])
  BY <1>10, SumUp
<1>12. /\ acc2[t] = (IF d = 1 THEN acc[t] + 1 ELSE acc[t])
       /\ \A u \in Reactors : u # t => acc2[u] = acc[u]
  BY <1>10
<1> HIDE DEF acc2
<1>13. \E g : Develops(g, program[t] \o q, eff[t], acc2[t], m_clients[t] + d)
  <2>1. PICK h : Develops(h, program[t], eff[t], acc[t], m_clients[t])
    BY <1>10
  <2>2. eff[t] \in Nat /\ acc[t] \in Nat /\ acc2[t] \in Nat /\ acc[t] <= acc2[t]
    BY <1>10, <1>11, <1>12
  <2>3. m_clients[t] + d \in Int /\ (m_clients[t] + d >= 0 => m_clients[t] >= 0)
    BY <1>1, <1>3
  <2>4. /\ h[Len(program[t])] \in 0 .. acc[t]
        /\ m_clients[t] >= 0 => h[Len(program[t])] = m_clients[t]
    <3>1. Len(program[t]) \in 0 .. Len(program[t])
      BY <1>5
    <3> QED
      BY <2>1, <3>1 DEF Develops
  <2>5. h[Len(program[t])] + d \in 0 .. acc2[t]
    BY <1>1, <1>3, <1>12, <2>2, <2>4
  <2> QED
    BY <1>1, <1>5, <2>1, <2>2, <2>3, <2>5, DevelopsOnCall
<1>14. \A u \in Reactors : \E h : Develops(h, program'[u], eff[u], acc2[u], m_clients'[u])
  <2>1. ASSUME NEW u \in Reactors, u # t
        PROVE  \E h : Develops(h, program'[u], eff[u], acc2[u], m_clients'[u])
    BY <1>6, <1>7, <1>10, <1>12, <2>1
  <2>2. \E h : Develops(h, program'[t], eff[t], acc2[t], m_clients'[t])
    BY <1>6, <1>7, <1>13
  <2> QED
    BY <2>1, <2>2
<1>15. GaugeKnown(eff, acc2)'
  <2>1. Sums(eff, memory'[Active])
    BY <1>10
  <2> QED
    BY <1>10, <1>11, <1>14, <2>1 DEF GaugeKnown
<1> QED
  BY <1>8, <1>15 DEF Gauge

\* Unsigned arithmetic: the result is a std::uint64_t, a small sum is exact, and
\* adding Wrap - 1 to a positive value takes one away.
LEMMA Unsigned ==
    ASSUME NEW v \in 0 .. Wrap - 1
    PROVE  /\ \A n \in 0 .. Wrap - 1 : Add64(v, n) \in 0 .. Wrap - 1
           /\ v + 1 < Wrap => Add64(v, 1) = v + 1
           /\ v > 0 => Add64(v, Wrap - 1) = v - 1
<1>1. Wrap \in Nat /\ Wrap > 2
  BY MetricsAssumption
<1>2. \A n \in 0 .. Wrap - 1 : Add64(v, n) \in 0 .. Wrap - 1
  BY <1>1 DEF Add64
<1>3. v + 1 < Wrap => Add64(v, 1) = v + 1
  BY <1>1 DEF Add64
<1>4. v > 0 => Add64(v, Wrap - 1) = v - 1
  BY <1>1 DEF Add64
<1> QED
  BY <1>2, <1>3, <1>4

\* What an operation leaves to do, and what it makes of its location.
Rest(o, value) ==
    CASE o.op = "max_load" -> Retry(o, value)
      [] o.op = "max_cas" /\ ~Exchanges(o, value) -> Retry(o, value)
      [] OTHER -> <<>>

Result(o, value) ==
    CASE o.op = "add" -> Add64(value, o.arg)
      [] Exchanges(o, value) -> o.arg
      [] OTHER -> value

\* These are of the right kinds; an operation on the gauge adds and is then done.
LEMMA EffectKnown ==
    ASSUME NEW o \in Ops, NEW v \in 0 .. Wrap - 1
    PROVE  /\ \/ Rest(o, v) = <<>>
              \/ /\ Delta(o) = 0
                 /\ \E r \in Ops : Delta(r) = 0 /\ Rest(o, v) = <<r>>
           /\ Result(o, v) \in 0 .. Wrap - 1
           /\ o.at = Active => Rest(o, v) = <<>> /\ Result(o, v) = Add64(v, o.arg)
           /\ o.at \in Maxima => Result(o, v) >= v
<1>1. /\ o.op \in {"add", "max_load", "max_cas"} /\ o.arg \in 0 .. Wrap - 1
      /\ o.at \in Maxima <=> o.op # "add"
      /\ o.op = "max_cas" => o.arg > o.current
      /\ o.current \in 0 .. Wrap - 1
  BY DEF Ops
<1>2. Active \notin Maxima
  BY DEF Active, Maxima, Loc
<1>3. CASE o.op = "add"
  <2>1. Rest(o, v) = <<>> /\ Result(o, v) = Add64(v, o.arg)
    BY <1>3 DEF Rest, Result, Exchanges
  <2>2. Add64(v, o.arg) \in 0 .. Wrap - 1
    BY <1>1, Unsigned
  <2> QED
    BY <1>1, <1>3, <2>1, <2>2
<1>4. CASE o.op # "add"
  <2>1. o.at # Active /\ Delta(o) = 0
    BY <1>1, <1>2, <1>4 DEF Delta
  <2>2. Rest(o, v) \in {<<>>, Retry(o, v)}
    BY <1>1, <1>4 DEF Rest
  <2>3. \/ Rest(o, v) = <<>>
        \/ \E r \in Ops : Delta(r) = 0 /\ Rest(o, v) = <<r>>
    BY <1>4, <2>2, RetryKnown
  <2>4. CASE Exchanges(o, v)
    <3>1. Result(o, v) = o.arg /\ o.current = v /\ o.op = "max_cas"
      BY <1>4, <2>4 DEF Result, Exchanges
    <3>2. o.arg >= v
      BY <1>1, <3>1
    <3> QED
      BY <1>1, <2>1, <2>3, <3>1, <3>2
  <2>5. CASE ~Exchanges(o, v)
    <3>1. Result(o, v) = v /\ v >= v
      BY <1>4, <2>5 DEF Result
    <3> QED
      BY <2>1, <2>3, <3>1
  <2> QED
    BY <2>4, <2>5
<1> QED
  BY <1>3, <1>4

\* An operation that leaves the gauge alone takes effect.
LEMMA GaugeOnNeutral ==
    ASSUME Gauge, Programs, m_clients \in [Reactors -> Int], NEW t \in Reactors,
           NEW i \in 1 .. Len(program[t]), Delta(program[t][i]) = 0,
           NEW rest,
           \/ rest = <<>>
           \/ \E r \in Ops : Delta(r) = 0 /\ rest = <<r>>,
           program' = [program EXCEPT ![t] = Replace(program[t], i, rest)],
           memory'[Active] = memory[Active], UNCHANGED <<m_clients, added>>
    PROVE  Gauge'
<1>1. PICK eff, acc : GaugeKnown(eff, acc)
  BY DEF Gauge
<1>2. /\ eff \in [Reactors -> Nat] /\ acc \in [Reactors -> Nat]
      /\ Sums(eff, memory[Active]) /\ Sums(acc, added["acceptedConnections"])
      /\ \A u \in Reactors : \E h : Develops(h, program[u], eff[u], acc[u], m_clients[u])
  BY <1>1 DEF GaugeKnown
<1>3. program \in [Reactors -> Seq(Ops)]
  BY DEF Programs
<1>4. PICK h : Develops(h, program[t], eff[t], acc[t], m_clients[t])
  BY <1>2
<1>5. program[t] \in Seq(Ops) /\ eff[t] \in Nat /\ acc[t] \in Nat /\ m_clients[t] \in Int
  BY <1>2, <1>3
<1>6. /\ \E g : Develops(g, Replace(program[t], i, <<>>), eff[t], acc[t], m_clients[t])
      /\ \A o \in Ops : Delta(o) = 0 =>
            Develops(h, Replace(program[t], i, <<o>>), eff[t], acc[t], m_clients[t])
  BY <1>4, <1>5, DevelopsOnNeutral
<1>7. \E g : Develops(g, Replace(program[t], i, rest), eff[t], acc[t], m_clients[t])
  BY <1>6
<1>8. ASSUME NEW u \in Reactors
      PROVE  \E g : Develops(g, program'[u], eff[u], acc[u], m_clients[u])
  <2>1. CASE u = t
    <3>1. program'[u] = Replace(program[t], i, rest)
      BY <1>3, <2>1
    <3> QED
      BY <1>7, <2>1, <3>1
  <2>2. CASE u # t
    <3>1. program'[u] = program[u]
      BY <1>3, <2>2
    <3> QED
      BY <1>2, <3>1
  <2> QED
    BY <2>1, <2>2
<1>9. GaugeKnown(eff, acc)'
  BY <1>2, <1>8 DEF GaugeKnown
<1> QED
  BY <1>9 DEF Gauge

\* An operation on the gauge takes effect: the gauge moves by one, without wrapping.
LEMMA GaugeOnStep ==
    ASSUME IInv, NEW t \in Reactors, NEW i \in 1 .. Len(program[t]),
           program[t][i].at = Active, MayTakeEffect(t, i),
           program' = [program EXCEPT ![t] = Replace(program[t], i, <<>>)],
           memory'[Active] = Add64(memory[Active], program[t][i].arg),
           UNCHANGED <<m_clients, added>>
    PROVE  Gauge'
<1>1. PICK eff, acc : GaugeKnown(eff, acc)
  BY DEF IInv, Gauge
<1>2. /\ eff \in [Reactors -> Nat] /\ acc \in [Reactors -> Nat]
      /\ Sums(eff, memory[Active]) /\ Sums(acc, added["acceptedConnections"])
      /\ \A u \in Reactors : \E h : Develops(h, program[u], eff[u], acc[u], m_clients[u])
  BY <1>1 DEF GaugeKnown
<1>3. program \in [Reactors -> Seq(Ops)] /\ m_clients \in [Reactors -> -1 .. MaxCalls]
  BY DEF IInv, Programs, TypeOK
<1>4. /\ program[t] \in Seq(Ops) /\ program[t][i] \in Ops
      /\ eff[t] \in Nat /\ acc[t] \in Nat /\ m_clients[t] \in Int
  BY <1>2, <1>3, MetricsAssumption
<1>5. \A j \in 1 .. i - 1 : Delta(program[t][j]) = 0
  BY DEF MayTakeEffect, Delta
<1>d. PICK d \in Int : d = Delta(program[t][i])
  BY DEF Delta
<1>6. PICK h : Develops(h, program[t], eff[t], acc[t], m_clients[t])
  BY <1>2
<1>7. /\ eff[t] + d \in 0 .. acc[t]
      /\ \E g : Develops(g, Replace(program[t], i, <<>>), eff[t] + d, acc[t], m_clients[t])
  BY <1>4, <1>5, <1>6, <1>d, DevelopsOnGauge
<1>8. \/ program[t][i].arg = 1 /\ d = 1
      \/ program[t][i].arg = Wrap - 1 /\ d = -1
  <2>1. program[t][i].arg \in {1, Wrap - 1} /\ Wrap - 1 # 1
    <3>1. program[t][i].arg \in {1, Wrap - 1}
      BY <1>4 DEF Ops
    <3>2. Wrap - 1 # 1
      BY MetricsAssumption
    <3> QED
      BY <3>1, <3>2
  <2> QED
    BY <1>d, <2>1 DEF Delta
<1> DEFINE eff2 == [eff EXCEPT ![t] = eff[t] + d]
<1>9. /\ eff2 \in [Reactors -> Nat] /\ eff2[t] = eff[t] + d
      /\ \A u \in Reactors : u # t => eff2[u] = eff[u]
  BY <1>2, <1>4, <1>7
<1>10. \A u \in Reactors : eff2[u] <= acc[u]
  <2>1. ASSUME NEW u \in Reactors, u # t PROVE eff2[u] <= acc[u]
    <3>1. PICK k : Develops(k, program[u], eff[u], acc[u], m_clients[u])
      BY <1>2
    <3>2. program[u] \in Seq(Ops) /\ 0 \in 0 .. Len(program[u])
      BY <1>3
    <3>3. eff[u] \in 0 .. acc[u]
      BY <3>1, <3>2 DEF Develops
    <3> QED
      BY <1>2, <1>9, <2>1, <3>3
  <2>2. eff2[t] <= acc[t]
    BY <1>4, <1>7, <1>9
  <2> QED
    BY <2>1, <2>2
<1>11. /\ memory[Active] \in 0 .. Wrap - 1 /\ added["acceptedConnections"] \in Nat
       /\ added["acceptedConnections"] < Wrap
  <2>1. Active \in Locations
    BY DEF Active, Locations
  <2>2. "acceptedConnections" \in Totals
    BY DEF Totals
  <2>3. /\ memory \in [Locations -> 0 .. Wrap - 1] /\ calls \in 0 .. MaxCalls
        /\ added \in [Totals -> Nat] /\ added["acceptedConnections"] <= calls
    BY DEF IInv, TypeOK, Programs
  <2> QED
    BY <2>1, <2>2, <2>3, MetricsAssumption
<1>12. Sums(eff2, memory'[Active])
  <2>1. CASE program[t][i].arg = 1 /\ d = 1
    <3>1. Sums(eff2, memory[Active] + 1)
      BY <1>2, <2>1, SumUp
    <3>2. memory[Active] + 1 <= added["acceptedConnections"]
      BY <1>2, <1>9, <1>10, <3>1, SumLess
    <3>3. memory'[Active] = memory[Active] + 1
      <4>1. memory[Active] + 1 < Wrap
        BY <1>11, <3>2, MetricsAssumption
      <4>2. Add64(memory[Active], 1) = memory[Active] + 1
        BY <1>11, <4>1, Unsigned
      <4> QED
        BY <2>1, <4>2
    <3> QED
      BY <3>1, <3>3
  <2>2. CASE program[t][i].arg = Wrap - 1 /\ d = -1
    <3>1. eff[t] > 0 /\ eff[t] + d = eff[t] - 1
      BY <1>4, <1>7, <2>2
    <3>2. memory[Active] > 0 /\ Sums(eff2, memory[Active] - 1)
      BY <1>2, <3>1, SumDown
    <3>3. memory'[Active] = memory[Active] - 1
      BY <1>11, <2>2, <3>2, Unsigned
    <3> QED
      BY <3>2, <3>3
  <2> QED
    BY <1>8, <2>1, <2>2
<1> HIDE DEF eff2
<1>13. ASSUME NEW u \in Reactors
       PROVE  \E g : Develops(g, program'[u], eff2[u], acc[u], m_clients[u])
  <2>1. CASE u = t
    <3>1. program'[u] = Replace(program[t], i, <<>>)
      BY <1>3, <2>1
    <3> QED
      BY <1>7, <1>9, <2>1, <3>1
  <2>2. CASE u # t
    <3>1. program'[u] = program[u]
      BY <1>3, <2>2
    <3> QED
      BY <1>2, <1>9, <2>2, <3>1
  <2> QED
    BY <2>1, <2>2
<1>14. GaugeKnown(eff2, acc)'
  BY <1>2, <1>9, <1>12, <1>13 DEF GaugeKnown
<1> QED
  BY <1>14 DEF Gauge

\* The conjunct of the type invariant about the programs.
LEMMA ProgramsTyped ==
    ASSUME NEW p \in [Reactors -> Seq(Ops)]
    PROVE  \A u \in Reactors : \A i \in DOMAIN p[u] :
              p[u][i].op \in {"add", "max_load", "max_cas"} /\ p[u][i].at \in Locations
<1> SUFFICES ASSUME NEW u \in Reactors, NEW i \in DOMAIN p[u]
             PROVE  p[u][i].op \in {"add", "max_load", "max_cas"} /\ p[u][i].at \in Locations
  OBVIOUS
<1>1. p[u] \in Seq(Ops)
  OBVIOUS
<1>2. p[u][i] \in Ops
  BY <1>1
<1> QED
  BY <1>2 DEF Ops

\* An operation takes effect.
LEMMA EffectKeeps ==
    ASSUME IInv, NEW t \in Reactors, Perform(t)
    PROVE  /\ IInv'
           /\ \A l \in Maxima : memory'[l] >= memory[l]
<1>1. PICK i \in DOMAIN program[t] : TakeEffect(t, i)
  BY DEF Perform
<1>2. /\ memory \in [Locations -> 0 .. Wrap - 1] /\ m_clients \in [Reactors -> -1 .. MaxCalls]
      /\ program \in [Reactors -> Seq(Ops)]
  BY DEF IInv, TypeOK, Programs
<1>3. /\ program[t] \in Seq(Ops) /\ i \in 1 .. Len(program[t]) /\ program[t][i] \in Ops
      /\ m_clients \in [Reactors -> Int]
  BY <1>1, <1>2, MetricsAssumption
<1>4. PICK o \in Ops : o = program[t][i]
  BY <1>3
<1>5. o.at \in Locations
  BY DEF Ops
<1>6. PICK v \in 0 .. Wrap - 1 : v = memory[o.at]
  BY <1>2, <1>5
<1>7. /\ MayTakeEffect(t, i)
      /\ program' = [program EXCEPT ![t] = Replace(program[t], i, Rest(o, v))]
      /\ memory' = [memory EXCEPT ![o.at] = Result(o, v)]
      /\ UNCHANGED <<inStats, toLoad, snapshot, m_clients, calls, recorded, added, largest, dropped>>
  BY <1>1, <1>2, <1>4, <1>6 DEF TakeEffect, Rest, Result
<1>8. /\ \/ Rest(o, v) = <<>>
         \/ /\ Delta(o) = 0
            /\ \E r \in Ops : Delta(r) = 0 /\ Rest(o, v) = <<r>>
      /\ Result(o, v) \in 0 .. Wrap - 1
      /\ o.at = Active => Rest(o, v) = <<>> /\ Result(o, v) = Add64(v, o.arg)
      /\ o.at \in Maxima => Result(o, v) >= v
  BY EffectKnown
<1>9. /\ memory' \in [Locations -> 0 .. Wrap - 1] /\ memory'[o.at] = Result(o, v)
      /\ \A l \in Locations : l # o.at => memory'[l] = memory[l]
  BY <1>2, <1>5, <1>7, <1>8
<1>10. \A l \in Maxima : memory'[l] >= memory[l]
  <2>1. ASSUME NEW l \in Maxima PROVE memory'[l] >= memory[l]
    <3>1. l \in Locations
      BY DEF Maxima, Locations
    <3>2. CASE l = o.at
      BY <1>6, <1>8, <1>9, <2>1, <3>2
    <3>3. CASE l # o.at
      <4>1. memory'[l] = memory[l] /\ memory[l] \in Int
        BY <1>2, <1>9, <3>1, <3>3, MetricsAssumption
      <4> QED
        BY <4>1
    <3> QED
      BY <3>2, <3>3
  <2> QED
    BY <2>1
<1>11. program' \in [Reactors -> Seq(Ops)]
  <2>1. Replace(program[t], i, Rest(o, v)) \in Seq(Ops)
    BY <1>3, <1>8, ReplaceByNothing, ReplaceByOne
  <2> QED
    BY <1>2, <1>7, <2>1
<1>12. TypeOK' /\ Programs'
  <2>1. \A u \in Reactors : \A k \in DOMAIN program'[u] :
           /\ program'[u][k].op \in {"add", "max_load", "max_cas"}
           /\ program'[u][k].at \in Locations
    BY <1>11, ProgramsTyped
  <2> QED
    BY <1>7, <1>9, <1>11, <2>1 DEF IInv, TypeOK, Programs
<1>13. Gauge'
  <2>1. CASE o.at = Active
    <3>1. /\ program[t][i].at = Active
          /\ memory'[Active] = Add64(memory[Active], program[t][i].arg)
          /\ program' = [program EXCEPT ![t] = Replace(program[t], i, <<>>)]
      BY <1>4, <1>6, <1>7, <1>8, <1>9, <2>1
    <3> QED
      BY <1>3, <1>7, <3>1, GaugeOnStep
  <2>2. CASE o.at # Active
    <3>1. Delta(program[t][i]) = 0
      BY <1>4, <2>2 DEF Delta
    <3>2. Active \in Locations
      BY DEF Active, Locations
    <3>3. memory'[Active] = memory[Active]
      BY <1>9, <2>2, <3>2
    <3>4. Gauge /\ Programs
      BY DEF IInv
    <3>5. \/ Rest(o, v) = <<>>
          \/ \E r \in Ops : Delta(r) = 0 /\ Rest(o, v) = <<r>>
      BY <1>8
    <3> QED
      BY <1>3, <1>7, <3>1, <3>3, <3>4, <3>5, GaugeOnNeutral
  <2> QED
    BY <2>1, <2>2
<1> QED
  BY <1>10, <1>12, <1>13 DEF IInv

\* What Count does to the totals.
LEMMA CountKnown ==
    ASSUME added \in [Totals -> Nat], NEW names, Count(names)
    PROVE  /\ added' \in [Totals -> Nat]
           /\ added'["acceptedConnections"] =
                  IF "acceptedConnections" \in names THEN added["acceptedConnections"] + 1
                  ELSE added["acceptedConnections"]
<1>1. "acceptedConnections" \in Totals
  BY DEF Totals
<1> QED
  BY <1>1 DEF Count

\* A call that leaves the gauge alone.
LEMMA NeutralCallKeeps ==
    ASSUME IInv, NEW t \in Reactors, NEW q \in Seq(Ops), Len(q) > 0,
           \A k \in 1 .. Len(q) : Delta(q[k]) = 0, Issue(t, q),
           memory' = memory, m_clients' = m_clients, calls' \in {calls, calls + 1},
           added' \in [Totals -> Nat],
           added'["acceptedConnections"] = added["acceptedConnections"]
    PROVE  Programs' /\ Gauge'
<1>1. PICK d \in {0} : d = Delta(q[Len(q)])
  OBVIOUS
<1>2. \A k \in 1 .. Len(q) - 1 : Delta(q[k]) = 0
  OBVIOUS
<1>3. m_clients \in [Reactors -> Int]
  BY MetricsAssumption DEF IInv, TypeOK
<1>4. m_clients' = [m_clients EXCEPT ![t] = m_clients[t] + d]
  <2>1. \A u \in Reactors : m_clients[u] = [m_clients EXCEPT ![t] = m_clients[t] + d][u]
    BY <1>1, <1>3
  <2> QED
    BY <1>3, <2>1
<1>5. d # 1 /\ d # -1 /\ d = 0
  BY <1>1
<1> QED
  BY <1>1, <1>2, <1>4, <1>5, CallKeeps

\* AddClientInLoop: the thread has one connection more, or none.
LEMMA AcceptKeeps ==
    ASSUME IInv, NEW t \in Reactors, NEW registered \in BOOLEAN, AddClientInLoop(t, registered)
    PROVE  IInv'
<1>1. /\ TypeOK /\ Programs /\ Gauge
      /\ added \in [Totals -> Nat] /\ added["acceptedConnections"] <= calls
      /\ \A u \in Reactors : m_clients[u] <= calls
  BY DEF IInv, Programs
<1>2. /\ m_clients \in [Reactors -> -1 .. MaxCalls] /\ calls \in 0 .. MaxCalls /\ MaxCalls \in Nat
      /\ m_clients[t] >= 0 /\ calls' = calls + 1 /\ calls' \in 0 .. MaxCalls
  BY <1>1, MetricsAssumption DEF TypeOK, AddClientInLoop, Calls
<1>3. CASE registered
  <2> DEFINE q == OnConnectionAccepted
  <2>1. /\ m_clients' = [m_clients EXCEPT ![t] = m_clients[t] + 1]
        /\ Issue(t, q) /\ Count({"acceptedConnections"})
        /\ UNCHANGED <<memory, inStats, toLoad, snapshot, recorded, largest, dropped>>
    BY <1>2, <1>3 DEF AddClientInLoop
  <2>2. "acceptedConnections" \in Totals
    BY DEF Totals
  <2>3. q \in Seq(Ops) /\ Len(q) = 2 /\ Delta(q[1]) = 0 /\ Delta(q[2]) = 1
    <3> DEFINE a == FetchAdd(Loc("acceptedConnections"), 1)
               b == FetchAdd(Active, 1)
    <3>1. a \in Ops /\ b \in Ops /\ Delta(a) = 0 /\ Delta(b) = 1
      BY <2>2, OperationsKnown
    <3>2. q = <<a, b>>
      BY DEF OnConnectionAccepted, Active
    <3> HIDE DEF a, b, q
    <3> QED
      BY <3>1, <3>2
  <2> HIDE DEF q
  <2>4. /\ added' \in [Totals -> Nat]
        /\ added'["acceptedConnections"] = added["acceptedConnections"] + 1
    BY <1>1, <2>1, CountKnown
  <2>5. Programs' /\ Gauge'
    <3>1. PICK d \in {1} : d = Delta(q[Len(q)])
      BY <2>3
    <3>2. \A k \in 1 .. Len(q) - 1 : Delta(q[k]) = 0
      BY <2>3
    <3>3. d = 1 /\ d # -1 /\ Len(q) > 0 /\ calls' \in {calls, calls + 1}
      BY <1>2, <2>3, <3>1
    <3>4. /\ m_clients' = [m_clients EXCEPT ![t] = m_clients[t] + d] /\ memory' = memory
          /\ added'["acceptedConnections"] =
               IF d = 1 THEN added["acceptedConnections"] + 1 ELSE added["acceptedConnections"]
      BY <2>1, <2>4, <3>3
    <3> QED
      BY <1>2, <2>1, <2>3, <2>4, <3>1, <3>2, <3>3, <3>4, CallKeeps
  <2>6. m_clients' \in [Reactors -> -1 .. MaxCalls]
    BY <1>1, <1>2, <2>1
  <2>7. \A u \in Reactors : \A i \in DOMAIN program'[u] :
           program'[u][i].op \in {"add", "max_load", "max_cas"} /\ program'[u][i].at \in Locations
    BY <2>5, ProgramsTyped DEF Programs
  <2> QED
    BY <1>1, <1>2, <2>1, <2>5, <2>6, <2>7 DEF TypeOK, IInv
<1>4. CASE ~registered
  <2>1. UNCHANGED <<memory, program, inStats, toLoad, snapshot, m_clients, added>>
    BY <1>4 DEF AddClientInLoop
  <2>2. TypeOK'
    BY <1>1, <1>2, <2>1 DEF TypeOK
  <2>3. Programs'
    <3>1. added["acceptedConnections"] \in Nat
      BY <1>1 DEF Totals
    <3>2. added["acceptedConnections"] <= calls + 1
      BY <1>1, <1>2, <3>1
    <3>3. \A u \in Reactors : m_clients[u] <= calls + 1
      BY <1>1, <1>2
    <3> QED
      BY <1>1, <1>2, <2>1, <3>2, <3>3 DEF Programs
  <2>4. Gauge'
    BY <1>1, <2>1 DEF Gauge, GaugeKnown
  <2> QED
    BY <2>2, <2>3, <2>4 DEF IInv
<1> QED
  BY <1>3, <1>4

\* CleanupClosedConnection: the thread has one connection less.
LEMMA CleanupKeeps ==
    ASSUME IInv, NEW t \in Reactors, CleanupClosedConnection(t)
    PROVE  IInv'
<1>1. /\ TypeOK /\ added \in [Totals -> Nat]
      /\ \A u \in Reactors : m_clients[u] <= calls
  BY DEF IInv, Programs
<1>2. /\ m_clients \in [Reactors -> -1 .. MaxCalls] /\ calls \in 0 .. MaxCalls /\ MaxCalls \in Nat
      /\ m_clients[t] > 0 /\ calls' = calls + 1 /\ calls' \in 0 .. MaxCalls
  BY <1>1, MetricsAssumption DEF TypeOK, CleanupClosedConnection, Calls
<1> DEFINE q == OnConnectionClosed
<1>3. /\ m_clients' = [m_clients EXCEPT ![t] = m_clients[t] - 1]
      /\ Issue(t, q) /\ Count({"closedConnections"})
      /\ UNCHANGED <<memory, inStats, toLoad, snapshot, recorded, largest, dropped>>
  BY <1>2 DEF CleanupClosedConnection
<1>4. "closedConnections" \in Totals
  BY DEF Totals
<1>5. q \in Seq(Ops) /\ Len(q) = 2 /\ Delta(q[1]) = 0 /\ Delta(q[2]) = -1
  <2> DEFINE a == FetchAdd(Loc("closedConnections"), 1)
             b == FetchAdd(Active, Wrap - 1)
  <2>1. a \in Ops /\ b \in Ops /\ Delta(a) = 0 /\ Delta(b) = -1
    BY <1>4, OperationsKnown
  <2>2. q = <<a, b>>
    BY DEF OnConnectionClosed, Active
  <2> HIDE DEF a, b, q
  <2> QED
    BY <2>1, <2>2
<1> HIDE DEF q
<1>6. /\ added' \in [Totals -> Nat]
      /\ added'["acceptedConnections"] = added["acceptedConnections"]
  BY <1>1, <1>3, CountKnown
<1>7. Programs' /\ Gauge'
  <2>1. PICK d \in {-1} : d = Delta(q[Len(q)])
    BY <1>5
  <2>2. \A k \in 1 .. Len(q) - 1 : Delta(q[k]) = 0
    BY <1>5
  <2>3. d # 1 /\ d = -1 /\ Len(q) > 0 /\ calls' \in {calls, calls + 1}
    BY <1>2, <1>5, <2>1
  <2>4. m_clients[t] - 1 = m_clients[t] + d /\ m_clients[t] >= 0
    BY <1>2, <2>3
  <2>5. /\ m_clients' = [m_clients EXCEPT ![t] = m_clients[t] + d] /\ memory' = memory
        /\ added'["acceptedConnections"] =
             IF d = 1 THEN added["acceptedConnections"] + 1 ELSE added["acceptedConnections"]
    BY <1>3, <1>6, <2>3, <2>4
  <2> QED
    BY <1>2, <1>3, <1>5, <1>6, <2>1, <2>2, <2>3, <2>4, <2>5, CallKeeps
<1>8. m_clients' \in [Reactors -> -1 .. MaxCalls]
  BY <1>2, <1>3
<1>9. \A u \in Reactors : \A i \in DOMAIN program'[u] :
         program'[u][i].op \in {"add", "max_load", "max_cas"} /\ program'[u][i].at \in Locations
  BY <1>7, ProgramsTyped DEF Programs
<1> QED
  BY <1>1, <1>2, <1>3, <1>7, <1>8, <1>9 DEF TypeOK, IInv

\* A failing reactor: nothing is known of what it will contribute in the end.
LEMMA FailureKeeps ==
    ASSUME IInv, NEW t \in Reactors, ReactorFails(t)
    PROVE  IInv'
<1>1. /\ TypeOK /\ Programs /\ Gauge
      /\ added \in [Totals -> Nat] /\ added["acceptedConnections"] <= calls
      /\ \A u \in Reactors : m_clients[u] <= calls
  BY DEF IInv, Programs
<1>2. /\ m_clients \in [Reactors -> -1 .. MaxCalls] /\ calls \in 0 .. MaxCalls /\ MaxCalls \in Nat
      /\ calls' = calls + 1 /\ calls' \in 0 .. MaxCalls
      /\ m_clients' = [m_clients EXCEPT ![t] = -1]
      /\ UNCHANGED <<memory, program, inStats, toLoad, snapshot, added>>
  BY <1>1, MetricsAssumption DEF TypeOK, ReactorFails, Calls
<1>3. /\ m_clients' \in [Reactors -> -1 .. MaxCalls] /\ m_clients'[t] = -1
      /\ \A u \in Reactors : u # t => m_clients'[u] = m_clients[u]
  BY <1>2
<1>4. TypeOK'
  BY <1>1, <1>2, <1>3 DEF TypeOK
<1>5. Programs'
  <2>1. added["acceptedConnections"] \in Nat
    BY <1>1 DEF Totals
  <2>2. added["acceptedConnections"] <= calls + 1
    BY <1>1, <1>2, <2>1
  <2>3. \A u \in Reactors : m_clients'[u] <= calls + 1
    BY <1>1, <1>2, <1>3
  <2> QED
    BY <1>1, <1>2, <2>2, <2>3 DEF Programs
<1>6. Gauge'
  <2>1. PICK eff, acc : GaugeKnown(eff, acc)
    BY <1>1 DEF Gauge
  <2>2. \A u \in Reactors : \E h : Develops(h, program[u], eff[u], acc[u], m_clients[u])
    BY <2>1 DEF GaugeKnown
  <2>3. ASSUME NEW u \in Reactors
        PROVE  \E h : Develops(h, program'[u], eff[u], acc[u], m_clients'[u])
    <3>1. PICK h : Develops(h, program[u], eff[u], acc[u], m_clients[u])
      BY <2>2
    <3>2. CASE u = t
      <4>1. ~(m_clients'[u] >= 0)
        BY <1>3, <3>2
      <4>2. Develops(h, program'[u], eff[u], acc[u], m_clients'[u])
        BY <1>2, <3>1, <4>1 DEF Develops
      <4> QED
        BY <4>2
    <3>3. CASE u # t
      <4>1. m_clients'[u] = m_clients[u] /\ program'[u] = program[u]
        BY <1>2, <1>3, <3>3
      <4> QED
        BY <3>1, <4>1
    <3> QED
      BY <3>2, <3>3
  <2>4. GaugeKnown(eff, acc)'
    BY <1>2, <2>1, <2>3 DEF GaugeKnown
  <2> QED
    BY <2>4 DEF Gauge
<1> QED
  BY <1>4, <1>5, <1>6 DEF IInv

\* The calls that leave the gauge alone: what they do to the threads' programs, the
\* totals and the bound on the calls.
LEMMA OtherCallKeeps ==
    ASSUME IInv, NEW t \in Reactors, NEW q \in Seq(Ops), Len(q) > 0,
           \A k \in 1 .. Len(q) : Delta(q[k]) = 0, Issue(t, q),
           memory' = memory, m_clients' = m_clients, calls' \in {calls, calls + 1},
           calls' <= MaxCalls,
           \/ added' = added
           \/ \E names : Count(names) /\ "acceptedConnections" \notin names,
           inStats' \subseteq Reactors, toLoad' \in [Reactors -> SUBSET Combined],
           snapshot' \in [Reactors -> [Combined -> 0 .. Wrap - 1]]
    PROVE  IInv'
<1>1. TypeOK /\ Programs /\ added \in [Totals -> Nat]
  BY DEF IInv, Programs
<1>2. /\ added' \in [Totals -> Nat]
      /\ added'["acceptedConnections"] = added["acceptedConnections"]
  BY <1>1, CountKnown
<1>3. Programs' /\ Gauge'
  BY <1>2, NeutralCallKeeps
<1>4. \A u \in Reactors : \A i \in DOMAIN program'[u] :
         program'[u][i].op \in {"add", "max_load", "max_cas"} /\ program'[u][i].at \in Locations
  BY <1>3, ProgramsTyped DEF Programs
<1>5. calls \in 0 .. MaxCalls /\ MaxCalls \in Nat
  BY <1>1, MetricsAssumption DEF TypeOK
<1>6. calls' \in 0 .. MaxCalls
  BY <1>5
<1> QED
  BY <1>1, <1>3, <1>4, <1>6 DEF TypeOK, IInv

\* What the guard common to the calls says.
LEMMA CallsBounded ==
    ASSUME IInv, NEW t \in Reactors, Calls(t)
    PROVE  /\ TypeOK /\ calls' = calls + 1 /\ calls < MaxCalls
           /\ calls \in Nat /\ MaxCalls \in Nat
<1>1. TypeOK /\ calls \in 0 .. MaxCalls
  BY DEF IInv, TypeOK
<1>2. MaxCalls \in Nat
  BY MetricsAssumption
<1>3. calls' = calls + 1 /\ calls < MaxCalls
  BY DEF Calls
<1> QED
  BY <1>1, <1>2, <1>3

\* Operations that leave the gauge alone, one after the other.
LEMMA NeutralJoined ==
    ASSUME NEW a \in Seq(Ops), NEW b \in Seq(Ops),
           \A k \in 1 .. Len(a) : Delta(a[k]) = 0, \A k \in 1 .. Len(b) : Delta(b[k]) = 0
    PROVE  /\ a \o b \in Seq(Ops) /\ Len(a \o b) = Len(a) + Len(b)
           /\ \A k \in 1 .. Len(a \o b) : Delta((a \o b)[k]) = 0
<1>1. /\ a \o b \in Seq(Ops) /\ Len(a \o b) = Len(a) + Len(b)
      /\ Len(a) \in Nat /\ Len(b) \in Nat
  BY Joined
<1>2. ASSUME NEW k \in 1 .. Len(a) + Len(b) PROVE Delta((a \o b)[k]) = 0
  <2>1. CASE k <= Len(a)
    <3>1. (a \o b)[k] = a[k] /\ k \in 1 .. Len(a)
      BY <1>1, <2>1
    <3> QED
      BY <3>1
  <2>2. CASE k > Len(a)
    <3>1. (a \o b)[k] = b[k - Len(a)] /\ k - Len(a) \in 1 .. Len(b)
      BY <1>1, <2>2
    <3> QED
      BY <3>1
  <2> QED
    BY <1>1, <2>1, <2>2
<1> QED
  BY <1>1, <1>2

\* ProcessPayload of a command other than STATS.
LEMMA CommandKeeps ==
    ASSUME IInv, NEW t \in Reactors, NEW unknown \in BOOLEAN, NEW d \in Latencies,
           ProcessPayload(t, unknown, d)
    PROVE  IInv'
<1> DEFINE a == <<FetchAdd(Loc("commandsProcessed"), 1)>>
           b == IF unknown THEN <<FetchAdd(Loc("commandErrors"), 1)>> ELSE <<>>
           c == RecordCommandLatency(d)
           q == a \o b \o c
           names == {"commandsProcessed"} \cup (IF unknown THEN {"commandErrors"} ELSE {})
<1>1. /\ Calls(t) /\ Issue(t, q) /\ Count(names)
      /\ UNCHANGED <<memory, inStats, toLoad, snapshot, m_clients, largest, dropped>>
  BY DEF ProcessPayload
<1>2. "commandsProcessed" \in Totals /\ "commandErrors" \in Totals
  BY DEF Totals
<1>3. a \in Seq(Ops) /\ Len(a) = 1 /\ \A k \in 1 .. Len(a) : Delta(a[k]) = 0
  BY <1>2, OperationsKnown
<1>4. b \in Seq(Ops) /\ Len(b) \in {0, 1} /\ \A k \in 1 .. Len(b) : Delta(b[k]) = 0
  <2>1. CASE unknown
    BY <1>2, <2>1, OperationsKnown
  <2>2. CASE ~unknown
    BY <2>2
  <2> QED
    BY <2>1, <2>2
<1>5. c \in Seq(Ops) /\ Len(c) = 4 /\ \A k \in 1 .. 4 : Delta(c[k]) = 0
  BY LatencyOperations
<1>6. "acceptedConnections" \notin names
  OBVIOUS
<1> HIDE DEF a, b, c
<1> DEFINE ab == a \o b
<1>7. ab \in Seq(Ops) /\ Len(ab) = 1 + Len(b) /\ \A k \in 1 .. Len(ab) : Delta(ab[k]) = 0
  BY <1>3, <1>4, NeutralJoined
<1> HIDE DEF ab
<1>8. q \in Seq(Ops) /\ Len(q) > 0 /\ \A k \in 1 .. Len(q) : Delta(q[k]) = 0
  <2>1. q = ab \o c
    BY DEF ab
  <2>2. ab \o c \in Seq(Ops) /\ Len(ab \o c) = Len(ab) + Len(c)
        /\ \A k \in 1 .. Len(ab \o c) : Delta((ab \o c)[k]) = 0
    BY <1>5, <1>7, NeutralJoined
  <2>3. Len(ab) + Len(c) > 0
    BY <1>4, <1>5, <1>7
  <2> QED
    BY <2>1, <2>2, <2>3
<1> HIDE DEF q, names
<1>9. TypeOK /\ calls' = calls + 1 /\ calls < MaxCalls /\ calls \in Nat /\ MaxCalls \in Nat
  BY <1>1, CallsBounded
<1>10. /\ inStats' \subseteq Reactors /\ toLoad' \in [Reactors -> SUBSET Combined]
       /\ snapshot' \in [Reactors -> [Combined -> 0 .. Wrap - 1]]
       /\ memory' = memory /\ m_clients' = m_clients
       /\ calls' \in {calls, calls + 1} /\ calls' <= MaxCalls
  BY <1>1, <1>9 DEF TypeOK
<1> QED
  BY <1>1, <1>6, <1>8, <1>10, OtherCallKeeps

\* STATS, up to its snapshot.
LEMMA StatsBeginsKeeps ==
    ASSUME IInv, NEW t \in Reactors, StatsBegins(t)
    PROVE  IInv'
<1> DEFINE q == <<FetchAdd(Loc("commandsProcessed"), 1)>>
<1>1. /\ Calls(t) /\ Issue(t, q) /\ Count({"commandsProcessed"})
      /\ inStats' = inStats \cup {t} /\ toLoad' = [toLoad EXCEPT ![t] = Combined]
      /\ UNCHANGED <<memory, snapshot, m_clients>>
  BY DEF StatsBegins
<1>2. "commandsProcessed" \in Totals
  BY DEF Totals
<1>3. q \in Seq(Ops) /\ Len(q) > 0 /\ \A k \in 1 .. Len(q) : Delta(q[k]) = 0
  BY <1>2, OperationsKnown
<1> HIDE DEF q
<1>4. TypeOK /\ calls' = calls + 1 /\ calls < MaxCalls /\ calls \in Nat /\ MaxCalls \in Nat
  BY <1>1, CallsBounded
<1>5. /\ inStats' \subseteq Reactors /\ toLoad' \in [Reactors -> SUBSET Combined]
      /\ snapshot' \in [Reactors -> [Combined -> 0 .. Wrap - 1]]
      /\ memory' = memory /\ m_clients' = m_clients
      /\ calls' \in {calls, calls + 1} /\ calls' <= MaxCalls
  BY <1>1, <1>4 DEF TypeOK
<1>6. "acceptedConnections" \notin {"commandsProcessed"}
  OBVIOUS
<1> QED
  BY <1>1, <1>3, <1>5, <1>6, OtherCallKeeps

\* STATS, from its complete snapshot on.
LEMMA StatsEndsKeeps ==
    ASSUME IInv, NEW t \in Reactors, NEW d \in Latencies, StatsEnds(t, d)
    PROVE  IInv'
<1> DEFINE q == RecordCommandLatency(d)
<1>1. /\ Issue(t, q) /\ inStats' = inStats \ {t}
      /\ snapshot' = [snapshot EXCEPT ![t] = NothingLoaded]
      /\ UNCHANGED <<memory, toLoad, m_clients, calls, added>>
  BY DEF StatsEnds
<1>2. q \in Seq(Ops) /\ Len(q) > 0 /\ \A k \in 1 .. Len(q) : Delta(q[k]) = 0
  BY LatencyOperations
<1> HIDE DEF q
<1>3. TypeOK /\ calls \in 0 .. MaxCalls /\ MaxCalls \in Nat
  BY MetricsAssumption DEF IInv, TypeOK
<1>4. NothingLoaded \in [Combined -> 0 .. Wrap - 1]
  BY MetricsAssumption DEF NothingLoaded
<1>5. /\ inStats' \subseteq Reactors /\ toLoad' \in [Reactors -> SUBSET Combined]
      /\ snapshot' \in [Reactors -> [Combined -> 0 .. Wrap - 1]]
      /\ memory' = memory /\ m_clients' = m_clients
      /\ calls' \in {calls, calls + 1} /\ calls' <= MaxCalls
  BY <1>1, <1>3, <1>4 DEF TypeOK
<1> QED
  BY <1>1, <1>2, <1>5, OtherCallKeeps

\* ObservePendingWriteBytes.
LEMMA ObserveKeeps ==
    ASSUME IInv, NEW t \in Reactors, NEW b \in Sizes, ObservePendingWriteBytes(t, b)
    PROVE  IInv'
<1> DEFINE q == <<UpdateMaximum(Loc("maximumPendingWriteBytes"), b)>>
<1>1. /\ Calls(t) /\ Issue(t, q)
      /\ UNCHANGED <<memory, inStats, toLoad, snapshot, m_clients, added>>
  BY DEF ObservePendingWriteBytes
<1>2. q \in Seq(Ops) /\ Len(q) > 0 /\ \A k \in 1 .. Len(q) : Delta(q[k]) = 0
  BY OperationsKnown DEF Maxima
<1> HIDE DEF q
<1>3. TypeOK /\ calls' = calls + 1 /\ calls < MaxCalls /\ calls \in Nat /\ MaxCalls \in Nat
  BY <1>1, CallsBounded
<1>4. /\ inStats' \subseteq Reactors /\ toLoad' \in [Reactors -> SUBSET Combined]
      /\ snapshot' \in [Reactors -> [Combined -> 0 .. Wrap - 1]]
      /\ memory' = memory /\ m_clients' = m_clients
      /\ calls' \in {calls, calls + 1} /\ calls' <= MaxCalls
  BY <1>1, <1>3 DEF TypeOK
<1> QED
  BY <1>1, <1>2, <1>4, OtherCallKeeps

\* The calls on one counter that nothing else is related to.
LEMMA AddPlainKeeps ==
    ASSUME IInv, NEW t \in Reactors, NEW n \in PlainCounters, AddPlain(t, n)
    PROVE  IInv'
<1> DEFINE q == <<FetchAdd(Loc(n), 1)>>
<1>1. /\ Calls(t) /\ Issue(t, q) /\ Count({n})
      /\ UNCHANGED <<memory, inStats, toLoad, snapshot, m_clients>>
  BY DEF AddPlain
<1>2. n \in Totals /\ "acceptedConnections" \notin {n}
  BY MetricsAssumption DEF Totals
<1>3. q \in Seq(Ops) /\ Len(q) > 0 /\ \A k \in 1 .. Len(q) : Delta(q[k]) = 0
  BY <1>2, OperationsKnown
<1> HIDE DEF q
<1>4. TypeOK /\ calls' = calls + 1 /\ calls < MaxCalls /\ calls \in Nat /\ MaxCalls \in Nat
  BY <1>1, CallsBounded
<1>5. /\ inStats' \subseteq Reactors /\ toLoad' \in [Reactors -> SUBSET Combined]
      /\ snapshot' \in [Reactors -> [Combined -> 0 .. Wrap - 1]]
      /\ memory' = memory /\ m_clients' = m_clients
      /\ calls' \in {calls, calls + 1} /\ calls' <= MaxCalls
  BY <1>1, <1>4 DEF TypeOK
<1> QED
  BY <1>1, <1>2, <1>3, <1>5, OtherCallKeeps

\* A load of Snapshot().
LEMMA LoadKeeps ==
    ASSUME IInv, NEW t \in Reactors, NEW l \in Combined, SnapshotLoads(t, l)
    PROVE  IInv'
<1>1. /\ toLoad' = [toLoad EXCEPT ![t] = toLoad[t] \ {l}]
      /\ snapshot' = [snapshot EXCEPT ![t][l] = memory[l]]
      /\ UNCHANGED <<memory, program, inStats, m_clients, calls, added>>
  BY DEF SnapshotLoads
<1>2. TypeOK /\ Programs /\ Gauge
  BY DEF IInv
<1>3. memory[l] \in 0 .. Wrap - 1
  BY <1>2 DEF TypeOK, Combined, Locations
<1>4. TypeOK'
  BY <1>1, <1>2, <1>3 DEF TypeOK
<1>5. Programs'
  BY <1>1, <1>2 DEF Programs
<1>6. Gauge'
  BY <1>1, <1>2 DEF Gauge, GaugeKnown
<1> QED
  BY <1>4, <1>5, <1>6 DEF IInv

-----------------------------------------------------------------------------
(* The invariant *)

\* The invariant holds initially: no thread has contributed anything.
LEMMA InitIInv ==
    Init => IInv
<1> SUFFICES ASSUME Init PROVE IInv
  OBVIOUS
<1>1. Wrap \in Nat /\ Wrap > 2 /\ MaxCalls \in Nat
  BY MetricsAssumption
<1>2. program = [t \in Reactors |-> <<>>]
  BY DEF Init
<1>3. program \in [Reactors -> Seq(Ops)] /\ \A t \in Reactors : program[t] = <<>> /\ Len(program[t]) = 0
  BY <1>2
<1>4. TypeOK
  <2>1. \A u \in Reactors : \A i \in DOMAIN program[u] :
         program[u][i].op \in {"add", "max_load", "max_cas"} /\ program[u][i].at \in Locations
    BY <1>3, ProgramsTyped
  <2> QED
    BY <1>1, <2>1 DEF Init, TypeOK, NothingLoaded
<1>5. Programs
  <2>1. "acceptedConnections" \in Totals
    BY DEF Totals
  <2> QED
    BY <1>1, <1>3, <2>1 DEF Init, Programs
<1>6. Gauge
  <2> DEFINE z == [t \in Reactors |-> 0]
             h == [k \in 0 .. 0 |-> 0]
  <2>1. Tokens(z) = {}
    BY DEF Tokens
  <2>2. Sums(z, 0)
    BY <2>1, FS_EmptySet DEF Sums
  <2>3. memory[Active] = 0 /\ added["acceptedConnections"] = 0
    BY DEF Init, Active, Locations, Totals
  <2>4. ASSUME NEW t \in Reactors PROVE Develops(h, program[t], z[t], z[t], m_clients[t])
    <3>1. m_clients[t] = 0 /\ z[t] = 0
      BY DEF Init
    <3> QED
      BY <1>3, <3>1 DEF Develops
  <2>5. z \in [Reactors -> Nat]
    OBVIOUS
  <2> HIDE DEF z, h
  <2>6. GaugeKnown(z, z)
    BY <2>2, <2>3, <2>4, <2>5 DEF GaugeKnown
  <2> QED
    BY <2>6 DEF Gauge
<1> QED
  BY <1>4, <1>5, <1>6 DEF IInv

\* Every step keeps the invariant.
LEMMA NextIInv ==
    IInv /\ [Next]_vars => IInv'
<1> SUFFICES ASSUME IInv, [Next]_vars PROVE IInv'
  OBVIOUS
<1>1. CASE UNCHANGED vars
  <2>1. TypeOK' /\ Programs' /\ Gauge'
    BY <1>1 DEF vars, IInv, TypeOK, Programs, Gauge, GaugeKnown
  <2> QED
    BY <2>1 DEF IInv
<1>2. ASSUME NEW t \in Reactors, NEW r \in BOOLEAN, AddClientInLoop(t, r) PROVE IInv'
  BY <1>2, AcceptKeeps
<1>3. ASSUME NEW t \in Reactors, CleanupClosedConnection(t) PROVE IInv'
  BY <1>3, CleanupKeeps
<1>4. ASSUME NEW t \in Reactors, ReactorFails(t) PROVE IInv'
  BY <1>4, FailureKeeps
<1>5. ASSUME NEW t \in Reactors, NEW u \in BOOLEAN, NEW d \in Latencies, ProcessPayload(t, u, d)
      PROVE  IInv'
  BY <1>5, CommandKeeps
<1>6. ASSUME NEW t \in Reactors, StatsBegins(t) PROVE IInv'
  BY <1>6, StatsBeginsKeeps
<1>7. ASSUME NEW t \in Reactors, NEW l \in Combined, SnapshotLoads(t, l) PROVE IInv'
  BY <1>7, LoadKeeps
<1>8. ASSUME NEW t \in Reactors, NEW d \in Latencies, StatsEnds(t, d) PROVE IInv'
  BY <1>8, StatsEndsKeeps
<1>9. ASSUME NEW t \in Reactors, NEW b \in Sizes, ObservePendingWriteBytes(t, b) PROVE IInv'
  BY <1>9, ObserveKeeps
<1>10. ASSUME NEW t \in Reactors, NEW n \in PlainCounters, AddPlain(t, n) PROVE IInv'
  BY <1>10, AddPlainKeeps
<1>11. ASSUME NEW t \in Reactors, Perform(t) PROVE IInv'
  BY <1>11, EffectKeeps
<1> QED
  BY <1>1, <1>2, <1>3, <1>4, <1>5, <1>6, <1>7, <1>8, <1>9, <1>10, <1>11 DEF Next

\* The inductive invariant: typed operations in flight, and a gauge that is the sum
\* of what the threads have contributed.
THEOREM MetricsInvariance == Spec => []IInv
  BY InitIInv, NextIInv, PTL DEF Spec

\* Type correctness: every counter stays a std::uint64_t.
THEOREM MetricsAlwaysTyped == Spec => []TypeOK
<1>1. IInv => TypeOK
  BY DEF IInv
<1> QED
  BY <1>1, MetricsInvariance, PTL

\* m_activeConnections never wraps below zero, although its fetch_add and fetch_sub
\* are relaxed and those of several threads are in flight: it stays within the
\* connections accepted so far, for any number of reactors and calls.
THEOREM GaugeNeverWraps == Spec => []ActiveNeverWraps
<1>1. IInv => ActiveNeverWraps
  <2> SUFFICES ASSUME IInv PROVE memory[Active] <= added["acceptedConnections"]
    BY DEF ActiveNeverWraps, Active
  <2>1. PICK eff, acc : GaugeKnown(eff, acc)
    BY DEF IInv, Gauge
  <2>2. /\ eff \in [Reactors -> Nat] /\ acc \in [Reactors -> Nat]
        /\ Sums(eff, memory[Active]) /\ Sums(acc, added["acceptedConnections"])
        /\ \A u \in Reactors : \E h : Develops(h, program[u], eff[u], acc[u], m_clients[u])
    BY <2>1 DEF GaugeKnown
  <2>3. ASSUME NEW u \in Reactors PROVE eff[u] <= acc[u]
    <3>1. PICK h : Develops(h, program[u], eff[u], acc[u], m_clients[u])
      BY <2>2
    <3>2. program[u] \in Seq(Ops) /\ 0 \in 0 .. Len(program[u])
      BY DEF IInv, Programs
    <3>3. eff[u] \in 0 .. acc[u]
      BY <3>1, <3>2 DEF Develops
    <3> QED
      BY <2>2, <3>3
  <2> QED
    BY <2>2, <2>3, SumLess
<1> QED
  BY <1>1, MetricsInvariance, PTL

\* connections_active is exact when nothing is in flight and no reactor has failed: it
\* is the number of connections that the reactors own together.
THEOREM GaugeExactWhenQuiet ==
    Spec => [](Quiet /\ (\A t \in Reactors : m_clients[t] >= 0) =>
                  Sums(m_clients, memory[Loc("activeConnections")]))
<1>1. ASSUME IInv, Quiet, \A t \in Reactors : m_clients[t] >= 0
      PROVE  Sums(m_clients, memory[Active])
  <2>1. PICK eff, acc : GaugeKnown(eff, acc)
    BY <1>1 DEF IInv, Gauge
  <2>2. /\ eff \in [Reactors -> Nat] /\ Sums(eff, memory[Active])
        /\ \A u \in Reactors : \E h : Develops(h, program[u], eff[u], acc[u], m_clients[u])
    BY <2>1 DEF GaugeKnown
  <2>3. ASSUME NEW u \in Reactors PROVE eff[u] = m_clients[u]
    <3>1. PICK h : Develops(h, program[u], eff[u], acc[u], m_clients[u])
      BY <2>2
    <3>2. Len(program[u]) = 0 /\ m_clients[u] >= 0
      BY <1>1 DEF Quiet
    <3> QED
      BY <3>1, <3>2 DEF Develops
  <2>4. m_clients \in [Reactors -> -1 .. MaxCalls]
    BY <1>1 DEF IInv, TypeOK
  <2>5. eff = m_clients
    BY <2>2, <2>3, <2>4
  <2> QED
    BY <2>2, <2>5
<1>2. IInv => (Quiet /\ (\A t \in Reactors : m_clients[t] >= 0) =>
                  Sums(m_clients, memory[Loc("activeConnections")]))
  BY <1>1 DEF Active
<1> QED
  BY <1>2, MetricsInvariance, PTL

\* UpdateMaximum never lowers a maximum: a compare-exchange only succeeds on the
\* value it has compared its candidate with.
THEOREM MaximaAlwaysRise == Spec => MaximaNeverFall
<1> DEFINE Rise == \A m \in {"commandLatencyMaximum", "maximumPendingWriteBytes"} :
                      memory'[Loc(m)] >= memory[Loc(m)]
<1>1. ASSUME IInv, memory' = memory PROVE Rise
  <2>1. memory \in [Locations -> 0 .. Wrap - 1] /\ Wrap \in Nat
    BY <1>1, MetricsAssumption DEF IInv, TypeOK
  <2>2. \A m \in {"commandLatencyMaximum", "maximumPendingWriteBytes"} : memory[Loc(m)] \in Int
    BY <2>1 DEF Locations
  <2> QED
    BY <1>1, <2>2
<1>2. ASSUME IInv, NEW t \in Reactors, Perform(t) PROVE Rise
  BY <1>2, EffectKeeps DEF Maxima
<1>3. ASSUME [Next]_vars
      PROVE  memory' = memory \/ \E t \in Reactors : Perform(t)
  BY <1>3 DEF Next, vars, AddClientInLoop, CleanupClosedConnection, ReactorFails, ProcessPayload,
     StatsBegins, SnapshotLoads, StatsEnds, ObservePendingWriteBytes, AddPlain
<1>4. IInv /\ [Next]_vars => [Rise]_vars
  BY <1>1, <1>2, <1>3
<1> QED
  BY <1>4, MetricsInvariance, PTL DEF Spec, MaximaNeverFall

-----------------------------------------------------------------------------
(* The maxima are exact once nothing is in flight *)

\* Whatever the maximum at l has been raised to, it is at most top; and top has
\* either arrived or is still the candidate of an UpdateMaximum.
MaximumKnown(l, top) ==
    /\ top \in Nat /\ memory[l] <= top
    /\ \A t \in Reactors : \A i \in 1 .. Len(program[t]) :
          program[t][i].at = l => program[t][i].arg <= top
    /\ \/ memory[l] = top
       \/ \E t \in Reactors : \E i \in 1 .. Len(program[t]) :
             program[t][i].at = l /\ program[t][i].arg = top

\* top is the largest latency recorded so far (0: none was).
LargestLatency(top) ==
    /\ top = 0 \/ (top \in Latencies /\ recorded[top] > 0)
    /\ \A d \in Latencies : recorded[d] > 0 => d <= top

MaximaKnown ==
    /\ MaximumKnown(Loc("maximumPendingWriteBytes"), largest)
    /\ recorded \in [Latencies -> Nat]
    /\ \E top : LargestLatency(top) /\ MaximumKnown(Loc("commandLatencyMaximum"), top)

\* A call appends operations with candidates up to top2, which is reached if it
\* is new.
LEMMA MaximumOnCall ==
    ASSUME Programs, NEW l, NEW top, MaximumKnown(l, top), NEW t \in Reactors,
           NEW q \in Seq(Ops), Issue(t, q), memory' = memory, memory[l] \in Nat,
           NEW top2 \in Nat, top <= top2,
           \A k \in 1 .. Len(q) : q[k].at = l => q[k].arg <= top2,
           top2 = top \/ \E k \in 1 .. Len(q) : q[k].at = l /\ q[k].arg = top2
    PROVE  MaximumKnown(l, top2)'
<1>1. /\ program \in [Reactors -> Seq(Ops)] /\ program[t] \in Seq(Ops)
      /\ Len(program[t]) \in Nat /\ Len(q) \in Nat
  BY DEF Programs
<1>2. /\ program' = [program EXCEPT ![t] = program[t] \o q]
      /\ program'[t] = program[t] \o q /\ Len(program[t] \o q) = Len(program[t]) + Len(q)
      /\ \A u \in Reactors : u # t => program'[u] = program[u]
  BY <1>1, Joined DEF Issue
<1>3. /\ \A k \in 1 .. Len(program[t]) : program'[t][k] = program[t][k]
      /\ \A k \in 1 .. Len(q) : program'[t][Len(program[t]) + k] = q[k]
  BY <1>1, <1>2
<1>4. /\ top \in Nat /\ memory[l] <= top
      /\ \A u \in Reactors : \A i \in 1 .. Len(program[u]) :
            program[u][i].at = l => program[u][i].arg <= top
      /\ \/ memory[l] = top
         \/ \E u \in Reactors : \E i \in 1 .. Len(program[u]) :
               program[u][i].at = l /\ program[u][i].arg = top
  BY DEF MaximumKnown
<1>5. ASSUME NEW u \in Reactors, NEW i \in 1 .. Len(program[u])
      PROVE  program[u][i] \in Ops /\ program[u][i].arg \in Nat
  <2>1. program[u] \in Seq(Ops)
    BY <1>1
  <2>2. program[u][i] \in Ops
    BY <1>5, <2>1
  <2> QED
    BY <2>2, MetricsAssumption DEF Ops
<1>6. ASSUME NEW u \in Reactors, NEW i \in 1 .. Len(program'[u]), program'[u][i].at = l
      PROVE  program'[u][i].arg <= top2
  <2>1. CASE u = t
    <3>1. CASE i <= Len(program[t])
      <4>1. i \in 1 .. Len(program[t]) /\ program'[u][i] = program[t][i]
        BY <1>1, <1>3, <1>6, <2>1, <3>1
      <4> QED
        BY <1>4, <1>5, <1>6, <4>1
    <3>2. CASE i > Len(program[t])
      <4>1. PICK k \in 1 .. Len(q) : i = Len(program[t]) + k
        <5>1. i - Len(program[t]) \in 1 .. Len(q) /\ i = Len(program[t]) + (i - Len(program[t]))
          BY <1>1, <1>2, <1>6, <2>1, <3>2
        <5> QED
          BY <5>1
      <4> QED
        BY <1>3, <1>6, <2>1, <4>1
    <3> QED
      BY <1>1, <3>1, <3>2
  <2>2. CASE u # t
    <3>1. program'[u] = program[u]
      BY <1>2, <2>2
    <3> QED
      BY <1>4, <1>5, <1>6, <3>1
  <2> QED
    BY <2>1, <2>2
<1>7. ASSUME NEW u \in Reactors, NEW i \in 1 .. Len(program[u])
      PROVE  i \in 1 .. Len(program'[u]) /\ program'[u][i] = program[u][i]
  BY <1>1, <1>2, <1>3, <1>7
<1>8. \/ memory'[l] = top2
      \/ \E u \in Reactors : \E i \in 1 .. Len(program'[u]) :
            program'[u][i].at = l /\ program'[u][i].arg = top2
  <2>1. CASE top2 = top
    BY <1>4, <1>7, <2>1
  <2>2. CASE \E k \in 1 .. Len(q) : q[k].at = l /\ q[k].arg = top2
    <3>1. PICK k \in 1 .. Len(q) : q[k].at = l /\ q[k].arg = top2
      BY <2>2
    <3>2. Len(program[t]) + k \in 1 .. Len(program'[t])
      BY <1>1, <1>2
    <3> QED
      BY <1>3, <3>1, <3>2
  <2> QED
    BY <2>1, <2>2
<1>9. memory'[l] <= top2
  BY <1>4
<1> QED
  BY <1>6, <1>8, <1>9 DEF MaximumKnown

\* When the operation of an UpdateMaximum takes effect, either its candidate stays
\* in flight or the maximum is at least the candidate.
LEMMA MaximumEffect ==
    ASSUME NEW o \in Ops, o.op # "add", NEW v \in 0 .. Wrap - 1
    PROVE  \/ Rest(o, v) = <<>> /\ Result(o, v) \in {v, o.arg} /\ Result(o, v) >= o.arg
           \/ \E r \in Ops : /\ Rest(o, v) = <<r>> /\ r.at = o.at /\ r.arg = o.arg
                             /\ Result(o, v) = v
<1>1. /\ o.op \in {"max_load", "max_cas"} /\ o.arg \in 0 .. Wrap - 1 /\ o.arg \in Int /\ v \in Int
      /\ o \in [op : {"add", "max_load", "max_cas"}, at : Locations,
                arg : 0 .. Wrap - 1, current : 0 .. Wrap - 1]
  BY MetricsAssumption DEF Ops
<1>2. CASE Exchanges(o, v)
  <2>1. Rest(o, v) = <<>> /\ Result(o, v) = o.arg
    BY <1>2 DEF Rest, Result, Exchanges
  <2> QED
    BY <1>1, <2>1
<1>3. CASE ~Exchanges(o, v)
  <2>1. Rest(o, v) = Retry(o, v) /\ Result(o, v) = v
    BY <1>1, <1>3 DEF Rest, Result
  <2>2. CASE Retry(o, v) = <<>> /\ ~(o.arg > v)
    BY <1>1, <2>1, <2>2
  <2>3. CASE \E r \in Ops : Retry(o, v) = <<r>> /\ r.at = o.at /\ r.arg = o.arg
    BY <2>1, <2>3
  <2> QED
    BY <2>2, <2>3, RetryKnown
<1> QED
  BY <1>2, <1>3

\* r has the members of s but the i-th, and that of rest.
Replaced(r, s, i, rest) ==
    /\ \A k \in 1 .. Len(r) :
          \/ \E j \in 1 .. Len(s) : r[k] = s[j]
          \/ rest # <<>> /\ r[k] = rest[1]
    /\ \A j \in 1 .. Len(s) : j # i => \E k \in 1 .. Len(r) : r[k] = s[j]
    /\ rest # <<>> => \E k \in 1 .. Len(r) : r[k] = rest[1]

\* The operations of Replace(s, i, rest) are those of s other than the i-th, and rest.
LEMMA ReplaceMembers ==
    ASSUME NEW S, NEW s \in Seq(S), NEW i \in 1 .. Len(s), NEW rest,
           rest = <<>> \/ \E o \in S : rest = <<o>>
    PROVE  Replaced(Replace(s, i, rest), s, i, rest)
<1>0. Len(s) \in Nat /\ i \in Int
  OBVIOUS
<1>1. CASE rest = <<>>
  <2> DEFINE r == Replace(s, i, rest)
  <2>1. /\ Len(r) = Len(s) - 1
        /\ \A k \in 1 .. Len(s) - 1 : r[k] = IF k < i THEN s[k] ELSE s[k + 1]
    BY <1>1, ReplaceByNothing
  <2> HIDE DEF r
  <2>2. ASSUME NEW k \in 1 .. Len(s) - 1 PROVE \E j \in 1 .. Len(s) : r[k] = s[j]
    <3>1. k \in 1 .. Len(s) /\ k + 1 \in 1 .. Len(s)
      BY <1>0
    <3> QED
      BY <2>1, <3>1
  <2>3. ASSUME NEW j \in 1 .. Len(s), j # i PROVE \E k \in 1 .. Len(s) - 1 : r[k] = s[j]
    <3>1. CASE j < i
      <4>1. j \in 1 .. Len(s) - 1 /\ r[j] = s[j]
        BY <1>0, <2>1, <3>1
      <4> QED
        BY <4>1
    <3>2. CASE j > i
      <4>1. j - 1 \in 1 .. Len(s) - 1 /\ ~(j - 1 < i) /\ (j - 1) + 1 = j
        BY <1>0, <3>2
      <4>2. r[j - 1] = s[j]
        BY <2>1, <4>1
      <4> QED
        BY <4>1, <4>2
    <3> QED
      BY <1>0, <2>3, <3>1, <3>2
  <2> QED
    BY <1>1, <2>1, <2>2, <2>3 DEF r, Replaced
<1>2. CASE \E o \in S : rest = <<o>>
  <2>1. PICK o \in S : rest = <<o>>
    BY <1>2
  <2> DEFINE r == Replace(s, i, rest)
  <2>2. Len(r) = Len(s) /\ \A k \in 1 .. Len(s) : r[k] = IF k = i THEN o ELSE s[k]
    <3>1. /\ Len(Replace(s, i, <<o>>)) = Len(s)
          /\ \A k \in 1 .. Len(s) : Replace(s, i, <<o>>)[k] = IF k = i THEN o ELSE s[k]
      BY ReplaceByOne
    <3> QED
      BY <2>1, <3>1
  <2>3. rest # <<>> /\ rest[1] = o
    BY <2>1
  <2> HIDE DEF r
  <2> QED
    BY <2>2, <2>3 DEF r, Replaced
<1> QED
  BY <1>1, <1>2

\* An operation takes effect: no candidate is lost.
LEMMA MaximumOnEffect ==
    ASSUME IInv, NEW l \in Maxima, NEW top, MaximumKnown(l, top), NEW t \in Reactors, Perform(t)
    PROVE  MaximumKnown(l, top)'
<1>1. PICK i \in DOMAIN program[t] : TakeEffect(t, i)
  BY DEF Perform
<1>2. memory \in [Locations -> 0 .. Wrap - 1] /\ program \in [Reactors -> Seq(Ops)]
  BY DEF IInv, TypeOK, Programs
<1>3. program[t] \in Seq(Ops) /\ i \in 1 .. Len(program[t]) /\ program[t][i] \in Ops
  BY <1>1, <1>2
<1>4. PICK o \in Ops : o = program[t][i]
  BY <1>3
<1>5. /\ o.at \in Locations /\ l \in Locations /\ o.arg \in 0 .. Wrap - 1 /\ Wrap \in Nat
      /\ o.op = "add" => o.at # l
  BY MetricsAssumption DEF Ops, Maxima, Locations
<1>6. PICK v \in 0 .. Wrap - 1 : v = memory[o.at]
  BY <1>2, <1>5
<1>7. /\ program' = [program EXCEPT ![t] = Replace(program[t], i, Rest(o, v))]
      /\ memory' = [memory EXCEPT ![o.at] = Result(o, v)]
  BY <1>1, <1>2, <1>4, <1>6 DEF TakeEffect, Rest, Result
<1>8. /\ program'[t] = Replace(program[t], i, Rest(o, v))
      /\ \A u \in Reactors : u # t => program'[u] = program[u]
      /\ memory'[o.at] = Result(o, v) /\ \A m \in Locations : m # o.at => memory'[m] = memory[m]
  BY <1>2, <1>5, <1>7
<1>9. \/ Rest(o, v) = <<>> /\ (o.op # "add" => Result(o, v) \in {v, o.arg} /\ Result(o, v) >= o.arg)
      \/ \E r \in Ops : /\ Rest(o, v) = <<r>> /\ r.at = o.at /\ r.arg = o.arg
                        /\ Result(o, v) = v
  <2>1. CASE o.op = "add"
    BY <2>1 DEF Rest
  <2> QED
    BY <2>1, MaximumEffect
<1>10. /\ top \in Nat /\ memory[l] <= top
       /\ \A u \in Reactors : \A k \in 1 .. Len(program[u]) :
             program[u][k].at = l => program[u][k].arg <= top
       /\ \/ memory[l] = top
          \/ \E u \in Reactors : \E k \in 1 .. Len(program[u]) :
                program[u][k].at = l /\ program[u][k].arg = top
  BY DEF MaximumKnown
<1>11. PICK rest : rest = Rest(o, v)
  OBVIOUS
<1>12. rest = <<>> \/ \E r \in Ops : rest = <<r>>
  BY <1>9, <1>11
<1>13. Replaced(program'[t], program[t], i, rest)
  <2>1. program'[t] = Replace(program[t], i, rest)
    BY <1>8, <1>11
  <2> QED
    BY <1>3, <1>12, <2>1, ReplaceMembers
<1>14. rest # <<>> => rest[1].at = o.at /\ rest[1].arg = o.arg
  BY <1>9, <1>11
<1>15. o.at = l => o.arg <= top
  BY <1>3, <1>4, <1>10
<1>16. memory'[l] <= top
  <2>1. CASE o.at = l
    <3>1. Result(o, v) \in {v, o.arg}
      BY <1>5, <1>9, <2>1
    <3> QED
      BY <1>6, <1>8, <1>10, <1>15, <2>1, <3>1
  <2>2. CASE o.at # l
    BY <1>5, <1>8, <1>10, <2>2
  <2> QED
    BY <2>1, <2>2
<1>17. ASSUME NEW u \in Reactors, NEW k \in 1 .. Len(program'[u]), program'[u][k].at = l
       PROVE  program'[u][k].arg <= top
  <2>1. CASE u = t
    BY <1>10, <1>13, <1>14, <1>15, <1>17, <2>1 DEF Replaced
  <2>2. CASE u # t
    BY <1>8, <1>10, <1>17, <2>2
  <2> QED
    BY <2>1, <2>2
<1>18. \/ memory'[l] = top
       \/ \E u \in Reactors : \E k \in 1 .. Len(program'[u]) :
             program'[u][k].at = l /\ program'[u][k].arg = top
  <2>1. CASE memory[l] = top
    <3>1. memory'[l] >= top
      BY <2>1, EffectKeeps
    <3>2. memory'[l] \in Int
      BY <1>2, <1>5, EffectKeeps, MetricsAssumption DEF IInv, TypeOK
    <3> QED
      BY <1>10, <1>16, <3>1, <3>2
  <2>2. CASE \E u \in Reactors : \E k \in 1 .. Len(program[u]) :
                program[u][k].at = l /\ program[u][k].arg = top
    <3>1. PICK u \in Reactors : \E k \in 1 .. Len(program[u]) :
                program[u][k].at = l /\ program[u][k].arg = top
      BY <2>2
    <3>2. PICK k \in 1 .. Len(program[u]) : program[u][k].at = l /\ program[u][k].arg = top
      BY <3>1
    <3>3. CASE u # t
      BY <1>8, <3>2, <3>3
    <3>4. CASE u = t /\ k # i
      BY <1>13, <3>2, <3>4 DEF Replaced
    <3>5. CASE u = t /\ k = i
      <4>1. o.at = l /\ o.arg = top /\ o.op # "add"
        BY <1>4, <1>5, <3>2, <3>5
      <4>2. CASE rest # <<>>
        BY <1>13, <1>14, <3>5, <4>1, <4>2 DEF Replaced
      <4>3. CASE rest = <<>>
        <5>1. Result(o, v) \in {v, o.arg} /\ Result(o, v) >= o.arg
          BY <1>9, <1>11, <4>1, <4>3
        <5>2. Result(o, v) \in Int
          BY <1>5, <5>1
        <5> QED
          BY <1>8, <1>10, <1>16, <4>1, <5>1, <5>2
      <4> QED
        BY <4>2, <4>3
    <3> QED
      BY <3>3, <3>4, <3>5
  <2> QED
    BY <1>10, <2>1, <2>2
<1> QED
  BY <1>10, <1>16, <1>17, <1>18 DEF MaximumKnown

\* The two maxima are locations, with values.
LEMMA MaximaTyped ==
    ASSUME IInv, NEW l \in Maxima
    PROVE  memory[l] \in Nat
<1>1. l \in Locations
  BY DEF Maxima, Locations
<1> QED
  BY <1>1, MetricsAssumption DEF IInv, TypeOK

\* A step that issues nothing on a maximum and records nothing.
LEMMA AddsKeepMaxima ==
    ASSUME IInv, MaximaKnown, NEW t \in Reactors, NEW q \in Seq(Ops), Issue(t, q),
           \A k \in 1 .. Len(q) : q[k].op = "add",
           UNCHANGED <<memory, recorded, largest>>
    PROVE  MaximaKnown'
<1>1. ASSUME NEW l \in Maxima, NEW k \in 1 .. Len(q) PROVE q[k].at # l
  <2>1. q[k] \in Ops
    OBVIOUS
  <2> QED
    BY <2>1 DEF Ops
<1>2. ASSUME NEW l \in Maxima, NEW top, MaximumKnown(l, top) PROVE MaximumKnown(l, top)'
  <2>1. memory[l] \in Nat /\ Programs /\ top \in Nat /\ top <= top
    BY <1>2, MaximaTyped DEF IInv, MaximumKnown
  <2>2. \A k \in 1 .. Len(q) : q[k].at = l => q[k].arg <= top
    BY <1>1
  <2> QED
    BY <1>2, <2>1, <2>2, MaximumOnCall
<1>3. PICK w : w = largest
  OBVIOUS
<1>4. MaximumKnown(Loc("maximumPendingWriteBytes"), w)'
  BY <1>2, <1>3 DEF MaximaKnown, Maxima
<1>5. PICK top : LargestLatency(top) /\ MaximumKnown(Loc("commandLatencyMaximum"), top)
  BY DEF MaximaKnown
<1>6. LargestLatency(top)' /\ MaximumKnown(Loc("commandLatencyMaximum"), top)'
  BY <1>2, <1>5 DEF Maxima, LargestLatency
<1>7. MaximumKnown(Loc("maximumPendingWriteBytes"), largest)'
  BY <1>3, <1>4
<1> QED
  BY <1>6, <1>7 DEF MaximaKnown

\* RecordCommandLatency, after adds.
LEMMA RecordKeepsMaxima ==
    ASSUME IInv, MaximaKnown, NEW t \in Reactors, NEW pre \in Seq(Ops), NEW d \in Latencies,
           \A k \in 1 .. Len(pre) : pre[k].op = "add",
           Issue(t, pre \o RecordCommandLatency(d)), Record(d), UNCHANGED <<memory, largest>>
    PROVE  MaximaKnown'
<1> DEFINE W == Loc("maximumPendingWriteBytes")
           L == Loc("commandLatencyMaximum")
<1>1. PICK c : c = RecordCommandLatency(d)
  OBVIOUS
<1>2. /\ c \in Seq(Ops) /\ Len(c) = 4
      /\ c[1].op = "add" /\ c[2].op = "add" /\ c[4].op = "add"
      /\ c[3].at = L /\ c[3].arg = d
  BY <1>1, LatencyOperations DEF RecordCommandLatency, FetchAdd, UpdateMaximum
<1>3. PICK q \in Seq(Ops) : q = pre \o c /\ Len(q) = Len(pre) + 4
  <2>1. pre \o c \in Seq(Ops) /\ Len(pre \o c) = Len(pre) + 4
    BY <1>2, Joined
  <2> QED
    BY <2>1
<1>4. W # L /\ W \in Maxima /\ L \in Maxima
  BY DEF Loc, Maxima
<1>5. Len(pre) \in Nat /\ d \in Nat
  BY MetricsAssumption
<1> HIDE DEF W, L
<1>6. ASSUME NEW k \in 1 .. Len(q) PROVE q[k].at \in Maxima => q[k].at = L /\ q[k].arg = d
  <2>1. CASE k <= Len(pre)
    <3>1. q[k] = pre[k] /\ k \in 1 .. Len(pre) /\ pre[k] \in Ops
      BY <1>2, <1>3, <1>5, <2>1
    <3> QED
      BY <3>1 DEF Ops
  <2>2. CASE k > Len(pre)
    <3>1. PICK j \in 1 .. 4 : q[k] = c[j] /\ c[j] \in Ops
      <4>1. k - Len(pre) \in 1 .. 4 /\ q[k] = c[k - Len(pre)]
        BY <1>2, <1>3, <1>5, <2>2
      <4> QED
        BY <1>2, <4>1
    <3>2. c[j].op = "add" \/ j = 3
      BY <1>2
    <3> QED
      BY <1>2, <3>1, <3>2 DEF Ops
  <2> QED
    BY <1>5, <2>1, <2>2
<1>7. /\ Len(pre) + 3 \in 1 .. Len(q) /\ q[Len(pre) + 3] = c[3]
  BY <1>2, <1>3, <1>5
<1>8. Issue(t, q) /\ Programs
  BY <1>1, <1>3 DEF IInv
<1>9. PICK w : w = largest
  OBVIOUS
<1>10. MaximumKnown(W, w)'
  <2>1. MaximumKnown(W, w) /\ memory[W] \in Nat /\ w \in Nat /\ w <= w
    BY <1>4, <1>9, MaximaTyped DEF MaximaKnown, MaximumKnown, W
  <2>2. \A k \in 1 .. Len(q) : q[k].at = W => q[k].arg <= w
    BY <1>4, <1>6
  <2> QED
    BY <1>8, <2>1, <2>2, MaximumOnCall
<1>11. PICK top : LargestLatency(top) /\ MaximumKnown(L, top)
  BY DEF MaximaKnown, L
<1>12. top \in Nat
  BY <1>11 DEF MaximumKnown
<1>13. PICK top2 \in Nat : top2 = IF d > top THEN d ELSE top
  BY <1>5, <1>12
<1>14. top <= top2 /\ d <= top2 /\ top2 \in {top, d}
  BY <1>5, <1>12, <1>13
<1>15. MaximumKnown(L, top2)'
  <2>1. memory[L] \in Nat
    BY <1>4, MaximaTyped
  <2>2. \A k \in 1 .. Len(q) : q[k].at = L => q[k].arg <= top2
    BY <1>4, <1>6, <1>14
  <2>3. top2 = top \/ \E k \in 1 .. Len(q) : q[k].at = L /\ q[k].arg = top2
    BY <1>2, <1>7, <1>14
  <2> QED
    BY <1>8, <1>11, <1>14, <2>1, <2>2, <2>3, MaximumOnCall
<1>16. recorded \in [Latencies -> Nat] /\ recorded' = [recorded EXCEPT ![d] = recorded[d] + 1]
  BY DEF MaximaKnown, Record
<1>17. /\ recorded' \in [Latencies -> Nat] /\ recorded'[d] > 0
       /\ \A x \in Latencies : x # d => recorded'[x] = recorded[x]
  BY <1>16
<1>18. LargestLatency(top2)'
  <2>1. top2 = 0 \/ (top2 \in Latencies /\ recorded'[top2] > 0)
    BY <1>11, <1>14, <1>17 DEF LargestLatency
  <2>2. ASSUME NEW x \in Latencies, recorded'[x] > 0 PROVE x <= top2
    <3>1. x \in Nat
      BY MetricsAssumption
    <3>2. CASE x = d
      BY <1>14, <3>2
    <3>3. CASE x # d
      <4>1. x <= top
        BY <1>11, <1>17, <2>2, <3>3 DEF LargestLatency
      <4> QED
        BY <1>12, <1>14, <3>1, <4>1
    <3> QED
      BY <3>2, <3>3
  <2> QED
    BY <2>1, <2>2 DEF LargestLatency
<1>19. MaximumKnown(W, largest)'
  BY <1>9, <1>10
<1> QED
  BY <1>15, <1>17, <1>18, <1>19 DEF MaximaKnown, W, L

\* ObservePendingWriteBytes.
LEMMA ObserveKeepsMaxima ==
    ASSUME IInv, MaximaKnown, NEW t \in Reactors, NEW b \in Sizes, ObservePendingWriteBytes(t, b)
    PROVE  MaximaKnown'
<1> DEFINE W == Loc("maximumPendingWriteBytes")
           L == Loc("commandLatencyMaximum")
<1>1. PICK o \in Ops : o = UpdateMaximum(W, b) /\ o.at = W /\ o.arg = b
  <2>1. UpdateMaximum(W, b) \in Ops
    BY OperationsKnown DEF Maxima
  <2>2. UpdateMaximum(W, b).at = W /\ UpdateMaximum(W, b).arg = b
    BY DEF UpdateMaximum
  <2> QED
    BY <2>1, <2>2
<1>2. PICK q \in Seq(Ops) : q = <<o>> /\ Len(q) = 1 /\ q[1] = o
  <2>1. <<o>> \in Seq(Ops) /\ Len(<<o>>) = 1 /\ <<o>>[1] = o
    OBVIOUS
  <2> QED
    BY <2>1
<1>3. Issue(t, q) /\ largest' = Max({largest, b}) /\ UNCHANGED <<memory, recorded>> /\ Programs
  BY <1>1, <1>2 DEF ObservePendingWriteBytes, IInv
<1>4. W # L /\ W \in Maxima /\ L \in Maxima /\ b \in Nat
  BY MetricsAssumption DEF Loc, Maxima
<1> HIDE DEF W, L
<1>5. PICK w : w = largest
  OBVIOUS
<1>6. MaximumKnown(W, w) /\ memory[W] \in Nat /\ w \in Nat
  BY <1>4, <1>5, MaximaTyped DEF MaximaKnown, MaximumKnown, W
<1>7. PICK w2 \in Nat : w2 = IF b > w THEN b ELSE w
  BY <1>4, <1>6
<1>8. w <= w2 /\ b <= w2 /\ w2 \in {w, b}
  BY <1>4, <1>6, <1>7
<1>9. largest' = w2
  <2>1. PICK m : m = Max({w, b})
    OBVIOUS
  <2>2. m = CHOOSE x \in {w, b} : \A y \in {w, b} : x >= y
    BY <2>1 DEF Max
  <2>3. w2 \in {w, b} /\ \A y \in {w, b} : w2 >= y
    BY <1>4, <1>6, <1>8
  <2>4. m \in {w, b} /\ \A y \in {w, b} : m >= y
    BY <2>2, <2>3, Zenon
  <2>5. m = w2
    BY <1>4, <1>6, <2>3, <2>4
  <2> QED
    BY <1>3, <1>5, <2>1, <2>5
<1>10. MaximumKnown(W, w2)'
  <2>1. \A k \in 1 .. Len(q) : q[k].at = W => q[k].arg <= w2
    BY <1>1, <1>2, <1>8
  <2>2. w2 = w \/ \E k \in 1 .. Len(q) : q[k].at = W /\ q[k].arg = w2
    BY <1>1, <1>2, <1>8
  <2> QED
    BY <1>3, <1>6, <1>8, <2>1, <2>2, MaximumOnCall
<1>11. PICK top : LargestLatency(top) /\ MaximumKnown(L, top)
  BY DEF MaximaKnown, L
<1>12. MaximumKnown(L, top)'
  <2>1. memory[L] \in Nat /\ top \in Nat /\ top <= top
    BY <1>4, <1>11, MaximaTyped DEF MaximumKnown
  <2>2. \A k \in 1 .. Len(q) : q[k].at = L => q[k].arg <= top
    BY <1>1, <1>2, <1>4
  <2> QED
    BY <1>3, <1>11, <2>1, <2>2, MaximumOnCall
<1>13. LargestLatency(top)' /\ recorded' \in [Latencies -> Nat]
  BY <1>3, <1>11 DEF LargestLatency, MaximaKnown
<1>14. MaximumKnown(W, largest)'
  BY <1>9, <1>10
<1> QED
  BY <1>12, <1>13, <1>14 DEF MaximaKnown, W, L

\* Every step keeps what is known of the maxima.
LEMMA NextMaxima ==
    IInv /\ MaximaKnown /\ [Next]_vars => MaximaKnown'
<1> SUFFICES ASSUME IInv, MaximaKnown, [Next]_vars PROVE MaximaKnown'
  OBVIOUS
<1>1. ASSUME UNCHANGED <<memory, program, recorded, largest>> PROVE MaximaKnown'
  BY <1>1 DEF MaximaKnown, MaximumKnown, LargestLatency
<1>2. CASE UNCHANGED vars
  BY <1>1, <1>2 DEF vars
<1>3. ASSUME NEW l, NEW n PROVE FetchAdd(l, n).op = "add"
  BY DEF FetchAdd
<1>4. ASSUME NEW t \in Reactors, NEW r \in BOOLEAN, AddClientInLoop(t, r) PROVE MaximaKnown'
  <2>1. CASE r
    <3> DEFINE a == FetchAdd(Loc("acceptedConnections"), 1)
               b == FetchAdd(Active, 1)
               q == <<a, b>>
    <3>1. a \in Ops /\ b \in Ops /\ a.op = "add" /\ b.op = "add"
      BY <1>3, OperationsKnown DEF Totals
    <3>2. Issue(t, q) /\ UNCHANGED <<memory, recorded, largest>>
      BY <1>4, <2>1 DEF AddClientInLoop, OnConnectionAccepted, Active
    <3> HIDE DEF a, b
    <3>3. q \in Seq(Ops) /\ \A k \in 1 .. Len(q) : q[k].op = "add"
      BY <3>1
    <3> HIDE DEF q
    <3> QED
      BY <3>2, <3>3, AddsKeepMaxima
  <2>2. CASE ~r
    BY <1>1, <1>4, <2>2 DEF AddClientInLoop
  <2> QED
    BY <2>1, <2>2
<1>5. ASSUME NEW t \in Reactors, CleanupClosedConnection(t) PROVE MaximaKnown'
  <2> DEFINE a == FetchAdd(Loc("closedConnections"), 1)
             b == FetchAdd(Active, Wrap - 1)
             q == <<a, b>>
  <2>1. a \in Ops /\ b \in Ops /\ a.op = "add" /\ b.op = "add"
    BY <1>3, OperationsKnown DEF Totals
  <2>2. Issue(t, q) /\ UNCHANGED <<memory, recorded, largest>>
    BY <1>5 DEF CleanupClosedConnection, OnConnectionClosed, Active
  <2> HIDE DEF a, b
  <2>3. q \in Seq(Ops) /\ \A k \in 1 .. Len(q) : q[k].op = "add"
    BY <2>1
  <2> HIDE DEF q
  <2> QED
    BY <2>2, <2>3, AddsKeepMaxima
<1>6. ASSUME NEW t \in Reactors, ReactorFails(t) PROVE MaximaKnown'
  BY <1>1, <1>6 DEF ReactorFails
<1>7. ASSUME NEW n \in Totals PROVE /\ <<FetchAdd(Loc(n), 1)>> \in Seq(Ops)
                                    /\ \A k \in 1 .. 1 : <<FetchAdd(Loc(n), 1)>>[k].op = "add"
                                    /\ Len(<<FetchAdd(Loc(n), 1)>>) = 1
  BY <1>3, OperationsKnown
<1>8. ASSUME NEW t \in Reactors, NEW unknown \in BOOLEAN, NEW d \in Latencies,
             ProcessPayload(t, unknown, d)
      PROVE  MaximaKnown'
  <2> DEFINE a == <<FetchAdd(Loc("commandsProcessed"), 1)>>
             b == IF unknown THEN <<FetchAdd(Loc("commandErrors"), 1)>> ELSE <<>>
             pre == a \o b
  <2>1. Issue(t, pre \o RecordCommandLatency(d)) /\ Record(d) /\ UNCHANGED <<memory, largest>>
    BY <1>8 DEF ProcessPayload
  <2>2. a \in Seq(Ops) /\ Len(a) = 1 /\ a[1].op = "add"
    BY <1>7 DEF Totals
  <2>3. b \in Seq(Ops) /\ \/ Len(b) = 0
                          \/ Len(b) = 1 /\ b[1].op = "add"
    <3>1. "commandErrors" \in Totals
      BY DEF Totals
    <3>2. CASE unknown
      BY <1>7, <3>1, <3>2
    <3>3. CASE ~unknown
      BY <3>3
    <3> QED
      BY <3>2, <3>3
  <2> HIDE DEF a, b
  <2>4. pre \in Seq(Ops) /\ Len(pre) = Len(a) + Len(b)
    BY <2>2, <2>3, Joined
  <2>5. ASSUME NEW k \in 1 .. Len(pre) PROVE pre[k].op = "add"
    <3>1. CASE k = 1
      BY <2>2, <2>3, <2>4, <3>1
    <3>2. CASE k = 2
      <4>1. Len(b) = 1 /\ pre[2] = b[1]
        BY <2>2, <2>3, <2>4, <2>5, <3>2
      <4> QED
        BY <2>3, <3>2, <4>1
    <3> QED
      BY <2>2, <2>3, <2>4, <3>1, <3>2
  <2> HIDE DEF pre
  <2> QED
    BY <2>1, <2>4, <2>5, RecordKeepsMaxima
<1>9. ASSUME NEW t \in Reactors, StatsBegins(t) PROVE MaximaKnown'
  <2> DEFINE q == <<FetchAdd(Loc("commandsProcessed"), 1)>>
  <2>1. Issue(t, q) /\ UNCHANGED <<memory, recorded, largest>>
    BY <1>9 DEF StatsBegins
  <2>2. q \in Seq(Ops) /\ \A k \in 1 .. Len(q) : q[k].op = "add"
    BY <1>7 DEF Totals
  <2> HIDE DEF q
  <2> QED
    BY <2>1, <2>2, AddsKeepMaxima
<1>10. ASSUME NEW t \in Reactors, NEW l \in Combined, SnapshotLoads(t, l) PROVE MaximaKnown'
  BY <1>1, <1>10 DEF SnapshotLoads
<1>11. ASSUME NEW t \in Reactors, NEW d \in Latencies, StatsEnds(t, d) PROVE MaximaKnown'
  <2>1. Issue(t, RecordCommandLatency(d)) /\ Record(d) /\ UNCHANGED <<memory, largest>>
    BY <1>11 DEF StatsEnds
  <2>2. PICK c \in Seq(Ops) : c = RecordCommandLatency(d)
    BY LatencyOperations
  <2>3. PICK pre \in Seq(Ops) : pre = <<>> /\ Len(pre) = 0
    <3>1. <<>> \in Seq(Ops) /\ Len(<<>>) = 0
      OBVIOUS
    <3> QED
      BY <3>1
  <2>4. pre \o c = c
    BY <2>2, <2>3
  <2>5. Issue(t, pre \o RecordCommandLatency(d))
    BY <2>1, <2>2, <2>4
  <2>6. \A k \in 1 .. Len(pre) : pre[k].op = "add"
    BY <2>3
  <2> QED
    BY <2>1, <2>5, <2>6, RecordKeepsMaxima
<1>12. ASSUME NEW t \in Reactors, NEW b \in Sizes, ObservePendingWriteBytes(t, b) PROVE MaximaKnown'
  BY <1>12, ObserveKeepsMaxima
<1>13. ASSUME NEW t \in Reactors, NEW n \in PlainCounters, AddPlain(t, n) PROVE MaximaKnown'
  <2> DEFINE q == <<FetchAdd(Loc(n), 1)>>
  <2>1. Issue(t, q) /\ UNCHANGED <<memory, recorded, largest>>
    BY <1>13 DEF AddPlain
  <2>2. q \in Seq(Ops) /\ \A k \in 1 .. Len(q) : q[k].op = "add"
    BY <1>7 DEF Totals
  <2> HIDE DEF q
  <2> QED
    BY <2>1, <2>2, AddsKeepMaxima
<1>14. ASSUME NEW t \in Reactors, Perform(t) PROVE MaximaKnown'
  <2> DEFINE W == Loc("maximumPendingWriteBytes")
             L == Loc("commandLatencyMaximum")
  <2>1. W \in Maxima /\ L \in Maxima
    BY DEF Maxima
  <2>2. UNCHANGED <<recorded, largest>>
    BY <1>14 DEF Perform, TakeEffect
  <2>3. PICK w : w = largest
    OBVIOUS
  <2>4. MaximumKnown(W, w)'
    BY <1>14, <2>1, <2>3, MaximumOnEffect DEF MaximaKnown
  <2>5. PICK top : LargestLatency(top) /\ MaximumKnown(L, top)
    BY DEF MaximaKnown
  <2>6. MaximumKnown(L, top)' /\ LargestLatency(top)'
    BY <1>14, <2>1, <2>2, <2>5, MaximumOnEffect DEF LargestLatency
  <2>7. MaximumKnown(W, largest)'
    BY <2>2, <2>3, <2>4
  <2> QED
    BY <2>2, <2>6, <2>7 DEF MaximaKnown
<1> QED
  BY <1>2, <1>4, <1>5, <1>6, <1>8, <1>9, <1>10, <1>11, <1>12, <1>13, <1>14 DEF Next

\* Initially both maxima are 0.
LEMMA InitMaxima ==
    Init => MaximaKnown
<1> SUFFICES ASSUME Init PROVE MaximaKnown
  OBVIOUS
<1>1. \A l \in Maxima : memory[l] = 0
  BY DEF Init, Maxima, Locations
<1>2. \A t \in Reactors : Len(program[t]) = 0
  BY DEF Init
<1>3. \A l \in Maxima : MaximumKnown(l, 0)
  BY <1>1, <1>2 DEF MaximumKnown
<1>4. LargestLatency(0) /\ recorded \in [Latencies -> Nat] /\ largest = 0
  BY DEF Init, LargestLatency
<1> QED
  BY <1>3, <1>4 DEF MaximaKnown, Maxima

\* Once no update is in flight both maxima are exact: UpdateMaximum loses no candidate,
\* however the compare-exchange loops of the threads race.
THEOREM MaximaExactWhenQuiet == Spec => []MaximaExact
<1>1. ASSUME MaximaKnown, IInv PROVE MaximaExact
  <2> SUFFICES ASSUME Quiet
               PROVE  /\ memory[Loc("commandLatencyMaximum")] =
                            Max({0} \cup {d \in Latencies : recorded[d] > 0})
                      /\ memory[Loc("maximumPendingWriteBytes")] = largest
    BY DEF MaximaExact
  <2>1. \A t \in Reactors : Len(program[t]) = 0
    BY DEF Quiet
  <2>2. ASSUME NEW l, NEW top, MaximumKnown(l, top) PROVE memory[l] = top
    BY <2>1, <2>2 DEF MaximumKnown
  <2>3. memory[Loc("maximumPendingWriteBytes")] = largest
    BY <1>1, <2>2 DEF MaximaKnown
  <2>4. PICK top : LargestLatency(top) /\ MaximumKnown(Loc("commandLatencyMaximum"), top)
    BY <1>1 DEF MaximaKnown
  <2>5. memory[Loc("commandLatencyMaximum")] = top /\ top \in Nat
    BY <2>2, <2>4 DEF MaximumKnown
  <2> DEFINE T == {0} \cup {d \in Latencies : recorded[d] > 0}
  <2>6. T \subseteq Nat /\ top \in T /\ \A y \in T : top >= y
    <3>1. Latencies \subseteq Nat
      BY MetricsAssumption
    <3>2. T \subseteq Nat
      <4>1. ASSUME NEW y \in T PROVE y \in Nat
        BY <3>1, <4>1
      <4> QED
        BY <4>1
    <3>3. top \in T
      BY <2>4 DEF LargestLatency
    <3>4. ASSUME NEW y \in T PROVE y <= top
      <4>1. CASE y = 0
        BY <2>5, <4>1
      <4>2. CASE y \in Latencies /\ recorded[y] > 0
        BY <2>4, <4>2 DEF LargestLatency
      <4> QED
        BY <3>4, <4>1, <4>2
    <3> QED
      BY <2>5, <3>2, <3>3, <3>4
  <2>7. PICK m : m = Max(T)
    OBVIOUS
  <2>8. m = CHOOSE x \in T : \A y \in T : x >= y
    BY <2>7 DEF Max
  <2> HIDE DEF T
  <2>9. m \in T /\ \A y \in T : m >= y
    BY <2>6, <2>8, Zenon
  <2>10. m = top
    BY <2>6, <2>9
  <2> QED
    BY <2>3, <2>5, <2>7, <2>10 DEF T
<1>2. MaximaKnown /\ IInv => MaximaExact
  BY <1>1
<1> QED
  BY <1>2, InitMaxima, NextMaxima, MetricsInvariance, PTL DEF Spec

-----------------------------------------------------------------------------
(* Sums over a finite set, for the recursion of SumFunctionOnSet *)

\* Induction over the subsets of a finite set, one member at a time.
LEMMA SubsetInduction ==
    ASSUME NEW S, IsFiniteSet(S), NEW X, {} \in X,
           \A s \in SUBSET S : \A x \in S \ s : s \in X => s \cup {x} \in X
    PROVE  S \in X
<1> DEFINE Good(n) == \A s \in SUBSET S : Cardinality(s) = n => s \in X
           T == {n \in Nat : Good(n)}
<1>1. \A s \in SUBSET S : IsFiniteSet(s) /\ Cardinality(s) \in Nat
  BY FS_Subset, FS_CardinalityType
<1>2. Good(0)
  BY <1>1, FS_EmptySet
<1>3. ASSUME NEW n \in Nat, Good(n) PROVE Good(n + 1)
  <2> SUFFICES ASSUME NEW s \in SUBSET S, Cardinality(s) = n + 1 PROVE s \in X
    OBVIOUS
  <2>1. s # {}
    <3>1. Cardinality({}) # n + 1
      BY FS_EmptySet
    <3> QED
      BY <3>1
  <2>2. PICK x \in s : TRUE
    BY <2>1
  <2>3. Cardinality(s \ {x}) = n
    <3>1. IsFiniteSet(s)
      BY <1>1
    <3>2. Cardinality(s \ {x}) = Cardinality(s) - 1
      BY <2>2, <3>1, FS_RemoveElement
    <3> QED
      BY <3>2
  <2>4. s \ {x} \in X
    BY <1>3, <2>3
  <2>5. x \in S \ (s \ {x}) /\ s = (s \ {x}) \cup {x} /\ s \ {x} \in SUBSET S
    BY <2>2
  <2> QED
    BY <2>4, <2>5
<1> HIDE DEF Good
<1>4. T = Nat
  <2>1. T \in SUBSET Nat /\ 0 \in T /\ \A n \in Nat : n \in T => n + 1 \in T
    BY <1>2, <1>3
  <2> HIDE DEF T
  <2> QED
    BY <2>1, SetInduction
<1>5. Good(Cardinality(S))
  BY <1>1, <1>4
<1> QED
  BY <1>5 DEF Good

\* it solves the recursion of SumFunctionOnSet.
SumsUp(it, f, S) ==
    it = [s \in SUBSET S |-> IF s = {} THEN 0
                             ELSE f[CHOOSE x \in s : TRUE] + it[s \ {CHOOSE x \in s : TRUE}]]

\* The recursion has a solution ...
LEMMA SumExists ==
    ASSUME NEW S, IsFiniteSet(S), NEW f, \A x \in S : f[x] \in Int
    PROVE  \E g \in [SUBSET S -> Int] : SumsUp(g, f, S)
<1> DEFINE c(s) == CHOOSE x \in s : TRUE
           N == Cardinality(S)
           Fs == [SUBSET S -> Int]
           Up(h) == [s \in SUBSET S |-> IF s = {} THEN 0 ELSE f[c(s)] + h[s \ {c(s)}]]
           Zero == [s \in SUBSET S |-> 0]
           F == [x \in Nat \X Fs |-> Up(x[2])]
<1>0. \A s \in SUBSET S : /\ IsFiniteSet(s) /\ Cardinality(s) \in Nat
                          /\ Cardinality(s) <= N
                          /\ s # {} => c(s) \in s /\ Cardinality(s \ {c(s)}) = Cardinality(s) - 1
  <2> SUFFICES ASSUME NEW s \in SUBSET S
               PROVE  /\ IsFiniteSet(s) /\ Cardinality(s) \in Nat
                      /\ Cardinality(s) <= N
                      /\ s # {} => c(s) \in s /\ Cardinality(s \ {c(s)}) = Cardinality(s) - 1
    OBVIOUS
  <2>1. IsFiniteSet(s) /\ Cardinality(s) \in Nat /\ Cardinality(s) <= N
    BY FS_Subset, FS_CardinalityType
  <2>2. s # {} => c(s) \in s
    OBVIOUS
  <2> HIDE DEF c
  <2> QED
    BY <2>1, <2>2, FS_RemoveElement
<1> HIDE DEF c
<1>1. N \in Nat
  BY FS_CardinalityType
<1>2. ASSUME NEW h \in Fs PROVE Up(h) \in Fs
  <2>1. ASSUME NEW s \in SUBSET S PROVE (IF s = {} THEN 0 ELSE f[c(s)] + h[s \ {c(s)}]) \in Int
    <3>1. CASE s = {}
      BY <3>1
    <3>2. CASE s # {}
      <4>1. c(s) \in S /\ s \ {c(s)} \in SUBSET S
        BY <1>0, <3>2
      <4>2. f[c(s)] \in Int /\ h[s \ {c(s)}] \in Int
        BY <4>1
      <4> QED
        BY <3>2, <4>2
    <3> QED
      BY <3>1, <3>2
  <2> QED
    BY <2>1
<1>3. Zero \in Fs
  OBVIOUS
<1>4. \A n \in Nat, h \in Fs : F[<<n, h>>] = Up(h)
  OBVIOUS
<1> HIDE DEF F, Zero, N
<1>5. PICK L : Follows(L, N, Zero, F)
  BY <1>1, FollowsExists
<1> HIDE DEF Fs, Up
<1>6. \A n \in 0 .. N : L[n] \in Fs
  <2>1. F \in [Nat \X Fs -> Fs]
    <3>1. ASSUME NEW x \in Nat \X Fs PROVE Up(x[2]) \in Fs
      BY <1>2
    <3> QED
      BY <3>1 DEF F
  <2>2. L \in [0 .. N -> Fs]
    BY <1>1, <1>3, <1>5, <2>1, FollowsTyped
  <2> QED
    BY <2>2
<1>7. \A n \in 0 .. N : n # 0 => L[n] = Up(L[n - 1])
  <2> SUFFICES ASSUME NEW n \in 0 .. N, n # 0 PROVE L[n] = Up(L[n - 1])
    OBVIOUS
  <2>1. n - 1 \in 0 .. N /\ n \in Nat
    BY <1>1
  <2>2. L[n] = F[<<n, L[n - 1]>>]
    BY <1>5 DEF Follows
  <2> QED
    BY <1>4, <1>6, <2>1, <2>2
<1> DEFINE g == [s \in SUBSET S |-> IF s = {} THEN 0 ELSE L[Cardinality(s)][s]]
<1>8. ASSUME NEW s \in SUBSET S, s # {} PROVE g[s] = f[c(s)] + L[Cardinality(s) - 1][s \ {c(s)}]
  <2>0. IsFiniteSet(s) /\ Cardinality(s) \in Nat /\ Cardinality(s) <= N
    BY <1>0
  <2>1. Cardinality(s) \in 0 .. N /\ Cardinality(s) # 0
    BY <1>1, <1>8, <2>0, FS_EmptySet
  <2>2. L[Cardinality(s)] = Up(L[Cardinality(s) - 1])
    BY <1>7, <2>1
  <2> QED
    BY <1>8, <2>2 DEF Up
<1>9. ASSUME NEW s \in SUBSET S PROVE g[s] \in Int
  <2>1. CASE s = {}
    BY <2>1
  <2>2. CASE s # {}
    <3>0. Cardinality(s) \in Nat /\ Cardinality(s) <= N
      BY <1>0
    <3>1. L[Cardinality(s)] \in Fs
      BY <1>1, <1>6, <3>0
    <3> QED
      BY <2>2, <3>1 DEF Fs
  <2> QED
    BY <2>1, <2>2
<1>10. g \in [SUBSET S -> Int]
  BY <1>9
<1>11. ASSUME NEW s \in SUBSET S
       PROVE  g[s] = IF s = {} THEN 0 ELSE f[c(s)] + g[s \ {c(s)}]
  <2>1. CASE s = {}
    BY <2>1
  <2>2. CASE s # {}
    <3> DEFINE r == s \ {c(s)}
    <3>1. /\ r \in SUBSET S /\ Cardinality(r) = Cardinality(s) - 1 /\ c(s) \in S
          /\ Cardinality(s) - 1 \in 0 .. N
      BY <1>0, <1>1, <2>2, FS_EmptySet
    <3>2. g[s] = f[c(s)] + L[Cardinality(r)][r]
      BY <1>8, <2>2, <3>1
    <3> HIDE DEF r
    <3>3. CASE r = {}
      <4>1. Cardinality(r) = 0
        BY <3>3, FS_EmptySet
      <4>2. L[0] = Zero
        BY <1>1, <1>5 DEF Follows
      <4>3. L[Cardinality(r)][r] = 0 /\ g[r] = 0
        BY <3>1, <3>3, <4>1, <4>2 DEF Zero
      <4> QED
        BY <2>2, <3>2, <4>3 DEF r
    <3>4. CASE r # {}
      <4>1. g[r] = L[Cardinality(r)][r]
        BY <3>1, <3>4
      <4> QED
        BY <2>2, <3>2, <4>1 DEF r
    <3> QED
      BY <3>3, <3>4
  <2> QED
    BY <2>1, <2>2
<1>12. SumsUp(g, f, S)
  <2>1. g = [s \in SUBSET S |-> g[s]]
    BY <1>10
  <2> HIDE DEF g
  <2>2. g = [s \in SUBSET S |-> IF s = {} THEN 0 ELSE f[c(s)] + g[s \ {c(s)}]]
    BY <1>11, <2>1
  <2> QED
    BY <2>2 DEF SumsUp, c
<1> QED
  BY <1>10, <1>12

\* ... which is what SumFunctionOnSet computes of every subset.
LEMMA SumIsUnique ==
    ASSUME NEW S, IsFiniteSet(S), NEW f, NEW g, SumsUp(g, f, S), NEW R \in SUBSET S
    PROVE  SumFunctionOnSet(f, R) = g[R]
<1> DEFINE c(s) == CHOOSE x \in s : TRUE
           k == [s \in SUBSET R |-> g[s]]
           it == CHOOSE i : SumsUp(i, f, R)
<1>1. SumFunctionOnSet(f, R) = it[R]
  BY DEF SumFunctionOnSet, FoldFunctionOnSet, MapThenFoldSet, SumsUp
<1>2. \A s \in SUBSET S : g[s] = IF s = {} THEN 0 ELSE f[c(s)] + g[s \ {c(s)}]
  BY DEF SumsUp
<1>3. SumsUp(k, f, R)
  <2>1. \A s \in SUBSET R : k[s] = IF s = {} THEN 0 ELSE f[c(s)] + k[s \ {c(s)}]
    <3> SUFFICES ASSUME NEW s \in SUBSET R
                 PROVE  k[s] = IF s = {} THEN 0 ELSE f[c(s)] + k[s \ {c(s)}]
      OBVIOUS
    <3>1. s \in SUBSET S /\ s \ {c(s)} \in SUBSET R
      OBVIOUS
    <3>2. k[s] = g[s] /\ k[s \ {c(s)}] = g[s \ {c(s)}]
      BY <3>1
    <3> HIDE DEF k, c
    <3> QED
      BY <1>2, <3>1, <3>2
  <2>2. k = [s \in SUBSET R |-> k[s]]
    OBVIOUS
  <2> HIDE DEF k
  <2>3. k = [s \in SUBSET R |-> IF s = {} THEN 0 ELSE f[c(s)] + k[s \ {c(s)}]]
    BY <2>1, <2>2
  <2> QED
    BY <2>3 DEF SumsUp
<1>4. SumsUp(it, f, R)
  BY <1>3, Zenon
<1> HIDE DEF it
<1>5. \A s \in SUBSET R : it[s] = IF s = {} THEN 0 ELSE f[c(s)] + it[s \ {c(s)}]
  BY <1>4 DEF SumsUp
<1>6. \A s \in SUBSET R : s # {} => c(s) \in s
  OBVIOUS
<1> HIDE DEF c, k
<1> DEFINE Good(n) == \A s \in SUBSET R : Cardinality(s) = n => it[s] = g[s]
           T == {n \in Nat : Good(n)}
<1>7. \A s \in SUBSET R : IsFiniteSet(s) /\ Cardinality(s) \in Nat /\ s \in SUBSET S
  BY FS_Subset, FS_CardinalityType
<1>8. Good(0)
  <2> SUFFICES ASSUME NEW s \in SUBSET R, Cardinality(s) = 0 PROVE it[s] = g[s]
    OBVIOUS
  <2>1. s = {}
    BY <1>7, FS_EmptySet
  <2> QED
    BY <1>2, <1>5, <1>7, <2>1
<1>9. ASSUME NEW n \in Nat, Good(n) PROVE Good(n + 1)
  <2> SUFFICES ASSUME NEW s \in SUBSET R, Cardinality(s) = n + 1 PROVE it[s] = g[s]
    OBVIOUS
  <2>1. s # {}
    BY FS_EmptySet
  <2>2. Cardinality(s \ {c(s)}) = n /\ s \ {c(s)} \in SUBSET R
    <3>1. IsFiniteSet(s) /\ c(s) \in s
      BY <1>6, <1>7, <2>1
    <3>2. Cardinality(s \ {c(s)}) = Cardinality(s) - 1
      BY <3>1, FS_RemoveElement
    <3> QED
      BY <3>2
  <2>3. it[s \ {c(s)}] = g[s \ {c(s)}]
    BY <1>9, <2>2
  <2> QED
    BY <1>2, <1>5, <1>7, <2>1, <2>3
<1> HIDE DEF Good
<1>10. T = Nat
  <2>1. T \in SUBSET Nat /\ 0 \in T /\ \A n \in Nat : n \in T => n + 1 \in T
    BY <1>8, <1>9
  <2> HIDE DEF T
  <2> QED
    BY <2>1, SetInduction
<1>11. Good(Cardinality(R))
  BY <1>7, <1>10
<1> QED
  BY <1>1, <1>11 DEF Good

\* The order of the members does not matter: any of them can be taken out.
LEMMA SumRemove ==
    ASSUME NEW S, IsFiniteSet(S), NEW f, \A x \in S : f[x] \in Int
    PROVE  /\ SumFunctionOnSet(f, S) \in Int
           /\ \A x \in S : /\ SumFunctionOnSet(f, S) = f[x] + SumFunctionOnSet(f, S \ {x})
                           /\ SumFunctionOnSet(f, S \ {x}) \in Int
<1> DEFINE c(s) == CHOOSE x \in s : TRUE
<1>1. PICK g \in [SUBSET S -> Int] : SumsUp(g, f, S)
  BY SumExists
<1>2. \A R \in SUBSET S : SumFunctionOnSet(f, R) = g[R] /\ g[R] \in Int
  BY <1>1, SumIsUnique
<1>3. \A s \in SUBSET S : s # {} => g[s] = f[c(s)] + g[s \ {c(s)}]
  BY <1>1 DEF SumsUp
<1>4. \A s \in SUBSET S : s # {} => c(s) \in s
  OBVIOUS
<1> HIDE DEF c
<1> DEFINE Good(n) == \A s \in SUBSET S : Cardinality(s) = n =>
                         \A x \in s : g[s] = f[x] + g[s \ {x}]
           T == {n \in Nat : Good(n)}
<1>5. \A s \in SUBSET S : IsFiniteSet(s) /\ Cardinality(s) \in Nat
  BY FS_Subset, FS_CardinalityType
<1>6. Good(0)
  <2> SUFFICES ASSUME NEW s \in SUBSET S, Cardinality(s) = 0, NEW x \in s PROVE FALSE
    OBVIOUS
  <2>1. s = {}
    BY <1>5, FS_EmptySet
  <2> QED
    BY <2>1
<1>7. ASSUME NEW n \in Nat, Good(n) PROVE Good(n + 1)
  <2> SUFFICES ASSUME NEW s \in SUBSET S, Cardinality(s) = n + 1, NEW x \in s
               PROVE  g[s] = f[x] + g[s \ {x}]
    OBVIOUS
  <2>1. g[s] = f[c(s)] + g[s \ {c(s)}] /\ c(s) \in s
    BY <1>3, <1>4
  <2>2. CASE x = c(s)
    BY <2>1, <2>2
  <2>3. CASE x # c(s)
    <3> DEFINE y == c(s)
               r == s \ {y}
               q == s \ {x}
               p == r \ {x}
    <3>1. IsFiniteSet(s)
      BY <1>5
    <3>2. Cardinality(r) = Cardinality(s) - 1 /\ Cardinality(q) = Cardinality(s) - 1
      BY <2>1, <3>1, FS_RemoveElement
    <3>3. Cardinality(r) = n /\ Cardinality(q) = n
      BY <3>2
    <3>4. r \in SUBSET S /\ q \in SUBSET S /\ p \in SUBSET S /\ x \in r /\ y \in q /\ q \ {y} = p
      BY <2>1, <2>3
    <3>5. g[r] = f[x] + g[p]
      BY <1>7, <3>3, <3>4
    <3>6. g[q] = f[y] + g[q \ {y}]
      BY <1>7, <3>3, <3>4
    <3>7. f[x] \in Int /\ f[y] \in Int /\ g[p] \in Int /\ g[s] = f[y] + g[r]
      BY <1>2, <2>1, <3>4
    <3> HIDE DEF y, r, q, p
    <3>8. g[q] = f[y] + g[p]
      BY <3>4, <3>6, Zenon
    <3>9. g[s] = f[x] + g[q]
      BY <3>5, <3>7, <3>8
    <3> QED
      BY <3>9 DEF q
  <2> QED
    BY <2>2, <2>3
<1> HIDE DEF Good
<1>8. T = Nat
  <2>1. T \in SUBSET Nat /\ 0 \in T /\ \A n \in Nat : n \in T => n + 1 \in T
    BY <1>6, <1>7
  <2> HIDE DEF T
  <2> QED
    BY <2>1, SetInduction
<1>9. Good(Cardinality(S))
  BY <1>5, <1>8
<1>10. \A x \in S : g[S] = f[x] + g[S \ {x}]
  BY <1>9 DEF Good
<1> QED
  BY <1>2, <1>10

\* The sum of nothing.
LEMMA SumOfNothing ==
    ASSUME NEW f PROVE SumFunctionOnSet(f, {}) = 0
<1>1. PICK g \in [SUBSET {} -> Int] : SumsUp(g, f, {})
  BY SumExists, FS_EmptySet
<1>2. SumFunctionOnSet(f, {}) = g[{}]
  BY <1>1, SumIsUnique, FS_EmptySet
<1>3. g[{}] = 0
  BY <1>1 DEF SumsUp
<1> QED
  BY <1>2, <1>3

\* One member more.
LEMMA SumInsert ==
    ASSUME NEW S, IsFiniteSet(S), NEW f, \A x \in S : f[x] \in Int,
           NEW x, x \notin S, f[x] \in Int
    PROVE  SumFunctionOnSet(f, S \cup {x}) = f[x] + SumFunctionOnSet(f, S)
<1>1. IsFiniteSet(S \cup {x}) /\ (S \cup {x}) \ {x} = S
  BY FS_AddElement
<1>2. \A y \in S \cup {x} : f[y] \in Int
  OBVIOUS
<1> QED
  BY <1>1, <1>2, SumRemove

\* A sum of zeros.
LEMMA SumOfZeros ==
    ASSUME NEW S, IsFiniteSet(S), NEW f, \A x \in S : f[x] = 0
    PROVE  SumFunctionOnSet(f, S) = 0
<1> DEFINE X == {s \in SUBSET S : SumFunctionOnSet(f, s) = 0}
<1>1. {} \in X
  BY SumOfNothing
<1>2. ASSUME NEW s \in SUBSET S, NEW x \in S \ s, s \in X PROVE s \cup {x} \in X
  <2>1. IsFiniteSet(s)
    BY FS_Subset
  <2>2. f[x] = 0 /\ \A y \in s : f[y] \in Int
    OBVIOUS
  <2>3. SumFunctionOnSet(f, s \cup {x}) = f[x] + SumFunctionOnSet(f, s)
    BY <2>1, <2>2, SumInsert
  <2> QED
    BY <1>2, <2>2, <2>3
<1> HIDE DEF X
<1>3. S \in X
  BY <1>1, <1>2, SubsetInduction
<1> QED
  BY <1>3 DEF X

\* Only the values on the set matter.
LEMMA SumSame ==
    ASSUME NEW S, IsFiniteSet(S), NEW f, NEW h, \A x \in S : f[x] \in Int /\ h[x] = f[x]
    PROVE  SumFunctionOnSet(h, S) = SumFunctionOnSet(f, S)
<1> DEFINE X == {s \in SUBSET S : SumFunctionOnSet(h, s) = SumFunctionOnSet(f, s)}
<1>1. {} \in X
  BY SumOfNothing
<1>2. ASSUME NEW s \in SUBSET S, NEW x \in S \ s, s \in X PROVE s \cup {x} \in X
  <2>1. IsFiniteSet(s)
    BY FS_Subset
  <2>2. SumFunctionOnSet(f, s \cup {x}) = f[x] + SumFunctionOnSet(f, s)
    BY <2>1, SumInsert
  <2>3. SumFunctionOnSet(h, s \cup {x}) = h[x] + SumFunctionOnSet(h, s)
    BY <2>1, SumInsert
  <2> QED
    BY <1>2, <2>2, <2>3
<1> HIDE DEF X
<1>3. S \in X
  BY <1>1, <1>2, SubsetInduction
<1> QED
  BY <1>3 DEF X

\* A sum in which one value has changed.
LEMMA SumChanged ==
    ASSUME NEW S, IsFiniteSet(S), NEW f, \A x \in S : f[x] \in Int,
           NEW y \in S, NEW h, h[y] \in Int, \A x \in S : x # y => h[x] = f[x]
    PROVE  SumFunctionOnSet(h, S) = SumFunctionOnSet(f, S) + (h[y] - f[y])
<1>1. IsFiniteSet(S \ {y})
  BY FS_RemoveElement
<1>2. SumFunctionOnSet(h, S \ {y}) = SumFunctionOnSet(f, S \ {y})
  BY <1>1, SumSame
<1>3. \A x \in S : h[x] \in Int
  OBVIOUS
<1>4. SumFunctionOnSet(h, S) = h[y] + SumFunctionOnSet(h, S \ {y})
  BY <1>3, SumRemove
<1>5. /\ SumFunctionOnSet(f, S) = f[y] + SumFunctionOnSet(f, S \ {y})
      /\ SumFunctionOnSet(f, S \ {y}) \in Int /\ f[y] \in Int
  BY SumRemove
<1> QED
  BY <1>2, <1>4, <1>5

\* The sum over two sets that have nothing in common.
LEMMA SumUnion ==
    ASSUME NEW R, NEW S, IsFiniteSet(R), IsFiniteSet(S), R \cap S = {}, NEW f,
           \A x \in R \cup S : f[x] \in Int
    PROVE  SumFunctionOnSet(f, R \cup S) = SumFunctionOnSet(f, R) + SumFunctionOnSet(f, S)
<1> DEFINE X == {s \in SUBSET S : SumFunctionOnSet(f, R \cup s) =
                                  SumFunctionOnSet(f, R) + SumFunctionOnSet(f, s)}
<1>0. SumFunctionOnSet(f, R) \in Int
  BY SumRemove
<1>1. {} \in X
  <2>1. R \cup {} = R
    OBVIOUS
  <2>2. SumFunctionOnSet(f, R \cup {}) = SumFunctionOnSet(f, R) + SumFunctionOnSet(f, {})
    BY <1>0, <2>1, SumOfNothing
  <2> QED
    BY <2>2
<1>2. ASSUME NEW s \in SUBSET S, NEW x \in S \ s, s \in X PROVE s \cup {x} \in X
  <2>1. IsFiniteSet(s)
    BY FS_Subset
  <2>2. SumFunctionOnSet(f, s \cup {x}) = f[x] + SumFunctionOnSet(f, s)
    BY <2>1, SumInsert
  <2>3. SumFunctionOnSet(f, (R \cup s) \cup {x}) = f[x] + SumFunctionOnSet(f, R \cup s)
    <3>1. IsFiniteSet(R \cup s) /\ x \notin R \cup s /\ \A y \in R \cup s : f[y] \in Int
      BY <2>1, FS_Union
    <3>2. f[x] \in Int
      OBVIOUS
    <3> QED
      BY <3>1, <3>2, SumInsert
  <2>4. SumFunctionOnSet(f, s) \in Int /\ f[x] \in Int
    BY <2>1, SumRemove
  <2>5. R \cup (s \cup {x}) = (R \cup s) \cup {x}
    OBVIOUS
  <2>6. SumFunctionOnSet(f, R \cup s) = SumFunctionOnSet(f, R) + SumFunctionOnSet(f, s)
    BY <1>2
  <2>7. SumFunctionOnSet(f, R \cup (s \cup {x})) = f[x] + SumFunctionOnSet(f, R \cup s)
    BY <2>3, <2>5, Zenon
  <2>8. SumFunctionOnSet(f, R \cup (s \cup {x})) =
           SumFunctionOnSet(f, R) + SumFunctionOnSet(f, s \cup {x})
    BY <1>0, <2>2, <2>4, <2>6, <2>7
  <2> QED
    BY <2>8
<1> HIDE DEF X
<1>3. S \in X
  BY <1>1, <1>2, SubsetInduction
<1> QED
  BY <1>3 DEF X

\* A sum of naturals is one, and no part of it is larger.
LEMMA SumOfNaturals ==
    ASSUME NEW S, IsFiniteSet(S), NEW f, \A x \in S : f[x] \in Nat
    PROVE  /\ SumFunctionOnSet(f, S) \in Nat
           /\ \A R \in SUBSET S : SumFunctionOnSet(f, R) <= SumFunctionOnSet(f, S)
<1>1. ASSUME NEW Q \in SUBSET S PROVE SumFunctionOnSet(f, Q) \in Nat
  <2> DEFINE X == {s \in SUBSET Q : SumFunctionOnSet(f, s) \in Nat}
  <2>0. IsFiniteSet(Q)
    BY FS_Subset
  <2>1. {} \in X
    BY SumOfNothing
  <2>2. ASSUME NEW s \in SUBSET Q, NEW x \in Q \ s, s \in X PROVE s \cup {x} \in X
    <3>1. IsFiniteSet(s)
      BY <2>0, FS_Subset
    <3>2. f[x] \in Nat /\ \A y \in s : f[y] \in Int
      OBVIOUS
    <3>3. SumFunctionOnSet(f, s \cup {x}) = f[x] + SumFunctionOnSet(f, s)
      BY <3>1, <3>2, SumInsert
    <3>4. SumFunctionOnSet(f, s \cup {x}) \in Nat
      BY <2>2, <3>2, <3>3
    <3> QED
      BY <3>4
  <2> HIDE DEF X
  <2>3. Q \in X
    BY <2>0, <2>1, <2>2, SubsetInduction
  <2> QED
    BY <2>3 DEF X
<1>2. ASSUME NEW R \in SUBSET S PROVE SumFunctionOnSet(f, R) <= SumFunctionOnSet(f, S)
  <2>1. IsFiniteSet(R) /\ IsFiniteSet(S \ R) /\ R \cap (S \ R) = {} /\ R \cup (S \ R) = S
    BY FS_Subset
  <2>2. \A x \in R \cup (S \ R) : f[x] \in Int
    OBVIOUS
  <2>3. SumFunctionOnSet(f, R \cup (S \ R)) =
           SumFunctionOnSet(f, R) + SumFunctionOnSet(f, S \ R)
    BY <2>1, <2>2, SumUnion
  <2>4. SumFunctionOnSet(f, S) = SumFunctionOnSet(f, R) + SumFunctionOnSet(f, S \ R)
    BY <2>1, <2>3, Zenon
  <2>5. SumFunctionOnSet(f, R) \in Nat /\ SumFunctionOnSet(f, S \ R) \in Nat
    BY <1>1
  <2> QED
    BY <2>4, <2>5
<1> QED
  BY <1>1, <1>2

-----------------------------------------------------------------------------
(* What is in flight *)

\* What an operation will add to a location that is no maximum.
Weight(o, l) == IF o.at = l THEN o.arg ELSE 0

\* The operations of p will add n to l: h[j] is what the first j of them add.
Adds(h, p, l, n) ==
    /\ h \in [0 .. Len(p) -> Int]
    /\ h[0] = 0 /\ h[Len(p)] = n
    /\ \A j \in 1 .. Len(p) : h[j] = h[j - 1] + Weight(p[j], l)

Weighs(p, l, n) == n \in Int /\ \E h : Adds(h, p, l, n)

\* Equal as unsigned numbers.
Same(a, b) == a \in Int /\ b \in Int /\ \E c \in Int : a = b + c * Wrap

\* With what is in flight, location l comes to n.
Ledger(l, n) ==
    \E pending \in [Reactors -> Int] :
        /\ \A t \in Reactors : Weighs(program[t], l, pending[t])
        /\ Same(memory[l] + SumFunctionOnSet(pending, Reactors), n)

\* Arithmetic modulo Wrap.
LEMMA SameRules ==
    /\ \A a \in Int : Same(a, a)
    /\ \A a, b, c : Same(a, b) /\ Same(b, c) => Same(a, c)
    /\ \A a, b : Same(a, b) => Same(b, a)
    /\ \A a \in Int : Same(a + (Wrap - 1), a - 1)
    /\ \A a \in Int : Same(a % Wrap, a)
<1>0. Wrap \in Nat /\ Wrap > 0
  BY MetricsAssumption
<1>1. ASSUME NEW a \in Int PROVE Same(a, a)
  <2>1. 0 \in Int /\ a = a + 0 * Wrap
    BY <1>0
  <2> QED
    BY <2>1 DEF Same
<1>3. ASSUME NEW a, NEW b, NEW c, Same(a, b), Same(b, c) PROVE Same(a, c)
  <2>1. PICK i \in Int : a = b + i * Wrap
    BY <1>3 DEF Same
  <2>2. PICK j \in Int : b = c + j * Wrap
    BY <1>3 DEF Same
  <2>3. a \in Int /\ c \in Int
    BY <1>3 DEF Same
  <2>4. (j + i) * Wrap = j * Wrap + i * Wrap /\ i * Wrap \in Int /\ j * Wrap \in Int
    BY <1>0
  <2>5. a = c + (j + i) * Wrap /\ j + i \in Int
    BY <2>1, <2>2, <2>3, <2>4
  <2> QED
    BY <2>3, <2>5 DEF Same
<1>4. ASSUME NEW a, NEW b, Same(a, b) PROVE Same(b, a)
  <2>1. PICK c \in Int : a = b + c * Wrap
    BY <1>4 DEF Same
  <2>2. a \in Int /\ b \in Int /\ (-c) * Wrap = -(c * Wrap) /\ c * Wrap \in Int /\ -c \in Int
    BY <1>0, <1>4 DEF Same
  <2>3. b = a + (-c) * Wrap
    BY <2>1, <2>2
  <2> QED
    BY <2>2, <2>3 DEF Same
<1>5. ASSUME NEW a \in Int PROVE Same(a + (Wrap - 1), a - 1)
  <2>1. 1 \in Int /\ a + (Wrap - 1) = (a - 1) + 1 * Wrap /\ a + (Wrap - 1) \in Int /\ a - 1 \in Int
    BY <1>0
  <2> QED
    BY <2>1 DEF Same
<1>6. ASSUME NEW a \in Int PROVE Same(a % Wrap, a)
  <2>1. a % Wrap \in Int /\ (a \div Wrap) \in Int
    BY <1>0
  <2>2. a = Wrap * (a \div Wrap) + (a % Wrap)
    BY <1>0
  <2>3. PICK k \in Int : k = a \div Wrap
    BY <2>1
  <2>4. PICK r \in Int : r = a % Wrap
    BY <2>1
  <2>5. a = Wrap * k + r
    BY <2>2, <2>3, <2>4
  <2>6. (-k) * Wrap = -(Wrap * k) /\ Wrap * k \in Int /\ -k \in Int
    BY <1>0
  <2>7. r = a + (-k) * Wrap
    BY <2>5, <2>6
  <2>8. Same(r, a)
    BY <2>6, <2>7 DEF Same
  <2> QED
    BY <2>4, <2>8
<1> QED
  BY <1>1, <1>3, <1>4, <1>5, <1>6

\* Adding the same to both.
LEMMA SameShift ==
    ASSUME NEW a, NEW b, Same(a, b), NEW x \in Int
    PROVE  Same(a + x, b + x)
<1>0. Wrap \in Nat
  BY MetricsAssumption
<1>1. PICK c \in Int : a = b + c * Wrap
  BY DEF Same
<1>2. PICK m \in Int : m = c * Wrap
  BY <1>0
<1>3. a \in Int /\ b \in Int /\ a + x = (b + x) + m
  BY <1>1, <1>2 DEF Same
<1>4. a + x = (b + x) + c * Wrap /\ a + x \in Int /\ b + x \in Int
  BY <1>2, <1>3
<1> QED
  BY <1>4 DEF Same

\* Two values of 64 bits that are equal modulo Wrap are equal.
LEMMA SameSmall ==
    ASSUME NEW a \in 0 .. Wrap - 1, NEW b \in 0 .. Wrap - 1, Same(a, b)
    PROVE  a = b
<1>0. Wrap \in Nat /\ Wrap > 0
  BY MetricsAssumption
<1>1. PICK c \in Int : a = b + c * Wrap
  BY DEF Same
<1>2. c >= 1 => c * Wrap >= Wrap
  BY <1>0
<1>3. c <= -1 => c * Wrap <= -Wrap
  BY <1>0
<1>4. c * Wrap \in Int /\ (c = 0 => c * Wrap = 0)
  BY <1>0
<1> QED
  BY <1>0, <1>1, <1>2, <1>3, <1>4

\* A program that is empty.
LEMMA WeighsNothing ==
    ASSUME NEW p, Len(p) = 0, NEW l
    PROVE  Weighs(p, l, 0) /\ \A n : Weighs(p, l, n) => n = 0
<1>1. Adds([j \in 0 .. 0 |-> 0], p, l, 0)
  BY DEF Adds
<1>2. \A n : Weighs(p, l, n) => n = 0
  BY DEF Weighs, Adds
<1> QED
  BY <1>1, <1>2 DEF Weighs

\* One operation.
LEMMA WeighsOne ==
    ASSUME NEW o \in Ops, NEW l
    PROVE  Weighs(<<o>>, l, Weight(o, l)) /\ Weight(o, l) \in Int
<1>1. PICK w \in Int : w = Weight(o, l)
  <2>1. Weight(o, l) \in Int
    BY MetricsAssumption DEF Weight, Ops
  <2> QED
    BY <2>1
<1> DEFINE p == <<o>>
           h == [j \in 0 .. 1 |-> IF j = 0 THEN 0 ELSE w]
<1>2. Len(p) = 1 /\ p[1] = o
  OBVIOUS
<1> HIDE DEF p
<1>3. h \in [0 .. 1 -> Int] /\ h[0] = 0 /\ h[1] = w
  OBVIOUS
<1> HIDE DEF h
<1>4. \A j \in 1 .. 1 : h[j] = h[j - 1] + Weight(p[j], l)
  BY <1>1, <1>2, <1>3
<1>5. Adds(h, p, l, w)
  BY <1>2, <1>3, <1>4 DEF Adds
<1> QED
  BY <1>1, <1>5 DEF Weighs, p

\* Operations one after the other.
LEMMA WeighsJoined ==
    ASSUME NEW p \in Seq(Ops), NEW q \in Seq(Ops), NEW l, NEW n, NEW m,
           Weighs(p, l, n), Weighs(q, l, m)
    PROVE  Weighs(p \o q, l, n + m)
<1>1. PICK a \in Nat : a = Len(p)
  OBVIOUS
<1>2. PICK b \in Nat : b = Len(q)
  OBVIOUS
<1>3. PICK f : Adds(f, p, l, n)
  BY DEF Weighs
<1>4. PICK g : Adds(g, q, l, m)
  BY DEF Weighs
<1>5. /\ f \in [0 .. a -> Int] /\ f[0] = 0 /\ f[a] = n
      /\ \A j \in 1 .. a : f[j] = f[j - 1] + Weight(p[j], l)
  BY <1>1, <1>3 DEF Adds
<1>6. /\ g \in [0 .. b -> Int] /\ g[0] = 0 /\ g[b] = m
      /\ \A j \in 1 .. b : g[j] = g[j - 1] + Weight(q[j], l)
  BY <1>2, <1>4 DEF Adds
<1>7. n \in Int /\ m \in Int
  BY DEF Weighs
<1> DEFINE r == p \o q
           h == [j \in 0 .. (a + b) |-> IF j <= a THEN f[j] ELSE n + g[j - a]]
<1>8. Len(r) = a + b /\ \A j \in 1 .. a : r[j] = p[j]
  BY <1>1, <1>2
<1>9. \A j \in 1 .. b : r[a + j] = q[j]
  BY <1>1, <1>2
<1> HIDE DEF r
<1>10. h \in [0 .. (a + b) -> Int]
  <2>1. ASSUME NEW j \in 0 .. (a + b) PROVE h[j] \in Int
    <3>1. CASE j <= a
      <4>1. j \in 0 .. a
        BY <3>1
      <4> QED
        BY <1>5, <3>1, <4>1
    <3>2. CASE j > a
      <4>1. j - a \in 0 .. b /\ ~(j <= a)
        BY <3>2
      <4>2. g[j - a] \in Int
        BY <1>6, <4>1
      <4> QED
        BY <1>7, <4>1, <4>2
    <3> QED
      BY <3>1, <3>2
  <2> QED
    BY <2>1
<1>11. \A j \in 0 .. b : h[a + j] = n + g[j]
  <2> TAKE j \in 0 .. b
  <2>1. CASE j = 0
    <3>1. a + j = a /\ g[j] = 0 /\ h[a] = n
      BY <1>5, <1>6, <2>1
    <3> QED
      BY <1>7, <3>1
  <2>2. CASE j # 0
    <3>1. a + j \in 0 .. (a + b) /\ ~(a + j <= a) /\ (a + j) - a = j
      BY <2>2
    <3> QED
      BY <3>1
  <2> QED
    BY <2>1, <2>2
<1>12. \A j \in 0 .. a : h[j] = f[j]
  OBVIOUS
<1> HIDE DEF h
<1>13. h[0] = 0 /\ h[a + b] = n + m
  BY <1>5, <1>6, <1>11, <1>12
<1>14. ASSUME NEW j \in 1 .. (a + b) PROVE h[j] = h[j - 1] + Weight(r[j], l)
  <2>1. CASE j <= a
    <3>1. j \in 1 .. a /\ j \in 0 .. a /\ j - 1 \in 0 .. a
      BY <2>1
    <3> QED
      BY <1>5, <1>8, <1>12, <3>1
  <2>2. CASE j > a
    <3>1. PICK k \in 1 .. b : j = a + k
      <4>1. j - a \in 1 .. b /\ j = a + (j - a)
        BY <2>2
      <4> QED
        BY <4>1
    <3>2. k \in 0 .. b /\ k - 1 \in 0 .. b /\ j - 1 = a + (k - 1)
      BY <3>1
    <3>3. h[j] = n + g[k] /\ h[j - 1] = n + g[k - 1]
      BY <1>11, <3>1, <3>2
    <3>4. g[k] = g[k - 1] + Weight(r[j], l)
      BY <1>6, <1>9, <3>1
    <3>5. g[k] \in Int /\ g[k - 1] \in Int
      BY <1>6, <3>2
    <3>6. Weight(r[j], l) \in Int
      <4>1. q[k] \in Ops /\ r[j] = q[k]
        BY <1>2, <1>9, <3>1
      <4> QED
        BY <4>1, WeighsOne
    <3> QED
      BY <1>7, <3>3, <3>4, <3>5, <3>6
  <2> QED
    BY <2>1, <2>2
<1>15. Adds(h, r, l, n + m)
  BY <1>8, <1>10, <1>13, <1>14 DEF Adds
<1> QED
  BY <1>7, <1>15 DEF Weighs, r

\* Operations on other locations.
LEMMA WeighsNone ==
    ASSUME NEW p \in Seq(Ops), NEW l, \A j \in 1 .. Len(p) : p[j].at # l
    PROVE  Weighs(p, l, 0)
<1> DEFINE h == [j \in 0 .. Len(p) |-> 0]
<1>1. Len(p) \in Nat
  OBVIOUS
<1>2. h \in [0 .. Len(p) -> Int] /\ h[0] = 0 /\ h[Len(p)] = 0
  BY <1>1
<1>3. ASSUME NEW j \in 1 .. Len(p) PROVE h[j] = h[j - 1] + Weight(p[j], l)
  <2>1. h[j] = 0 /\ h[j - 1] = 0
    BY <1>1
  <2>2. Weight(p[j], l) = 0
    BY DEF Weight
  <2> HIDE DEF h
  <2> QED
    BY <2>1, <2>2
<1> HIDE DEF h
<1>4. Adds(h, p, l, 0)
  BY <1>2, <1>3 DEF Adds
<1> QED
  BY <1>4 DEF Weighs

\* An operation leaves the program, or another of the same weight remains of it.
LEMMA WeighsTaken ==
    ASSUME NEW p \in Seq(Ops), NEW i \in 1 .. Len(p), NEW l, NEW n, Weighs(p, l, n)
    PROVE  /\ Weighs(Replace(p, i, <<>>), l, n - Weight(p[i], l))
           /\ \A o \in Ops : Weight(o, l) = Weight(p[i], l) => Weighs(Replace(p, i, <<o>>), l, n)
<1>1. PICK a \in Nat : a = Len(p) /\ i \in 1 .. a
  OBVIOUS
<1>2. PICK f : Adds(f, p, l, n)
  BY DEF Weighs
<1>3. /\ f \in [0 .. a -> Int] /\ f[0] = 0 /\ f[a] = n
      /\ \A j \in 1 .. a : f[j] = f[j - 1] + Weight(p[j], l)
  BY <1>1, <1>2 DEF Adds
<1>4. \A j \in 1 .. a : Weight(p[j], l) \in Int
  <2> TAKE j \in 1 .. a
  <2>1. p[j] \in Ops
    BY <1>1
  <2> QED
    BY <2>1, WeighsOne
<1>5. PICK w \in Int : w = Weight(p[i], l)
  BY <1>1, <1>4
<1>6. n \in Int
  BY DEF Weighs
<1>7. Weighs(Replace(p, i, <<>>), l, n - w)
  <2> DEFINE r == Replace(p, i, <<>>)
             h == [j \in 0 .. (a - 1) |-> IF j < i THEN f[j] ELSE f[j + 1] - w]
  <2>1. Len(r) = a - 1 /\ \A k \in 1 .. a - 1 : r[k] = IF k < i THEN p[k] ELSE p[k + 1]
    BY <1>1, ReplaceByNothing
  <2> HIDE DEF r
  <2>2. \A j \in 0 .. (a - 1) : j < i => h[j] = f[j]
    OBVIOUS
  <2>3. \A j \in 0 .. (a - 1) : ~(j < i) => h[j] = f[j + 1] - w
    OBVIOUS
  <2>4. ASSUME NEW j \in 0 .. (a - 1) PROVE h[j] \in Int
    <3>1. j \in 0 .. a /\ j + 1 \in 0 .. a
      BY <1>1
    <3>2. f[j] \in Int /\ f[j + 1] - w \in Int
      BY <1>3, <1>5, <3>1
    <3> QED
      BY <3>2
  <2>5. h \in [0 .. (a - 1) -> Int]
    BY <2>4
  <2> HIDE DEF h
  <2>6. h[0] = 0
    BY <1>1, <1>3, <2>2
  <2>7. f[i] = f[i - 1] + w /\ f[i] \in Int /\ f[i - 1] \in Int /\ f[i] - w = f[i - 1]
    <3>1. i \in 0 .. a /\ i - 1 \in 0 .. a
      BY <1>1
    <3>2. f[i] = f[i - 1] + w /\ f[i] \in Int /\ f[i - 1] \in Int
      BY <1>1, <1>3, <1>5, <3>1
    <3> QED
      BY <1>5, <3>2
  <2>8. h[a - 1] = n - w
    <3>1. CASE a = i
      BY <1>1, <1>3, <2>2, <2>7, <3>1
    <3>2. CASE a # i
      <4>1. ~(a - 1 < i) /\ a - 1 \in 0 .. (a - 1) /\ (a - 1) + 1 = a
        BY <1>1, <3>2
      <4> QED
        BY <1>3, <2>3, <4>1
    <3> QED
      BY <3>1, <3>2
  <2>9. ASSUME NEW j \in 1 .. a - 1 PROVE h[j] = h[j - 1] + Weight(r[j], l)
    <3>1. CASE j < i
      <4>1. j \in 0 .. (a - 1) /\ j - 1 \in 0 .. (a - 1) /\ j - 1 < i /\ j \in 1 .. a
        BY <1>1, <3>1
      <4> QED
        BY <1>3, <2>1, <2>2, <3>1, <4>1
    <3>2. CASE j = i
      <4>1. j \in 0 .. (a - 1) /\ ~(j < i) /\ j - 1 \in 0 .. (a - 1) /\ j - 1 < i
            /\ j + 1 \in 1 .. a /\ (j + 1) - 1 = i /\ j + 1 \in 0 .. a
        BY <1>1, <3>2
      <4>2. h[j] = f[j + 1] - w /\ h[j - 1] = f[i - 1] /\ r[j] = p[j + 1]
        BY <2>1, <2>2, <2>3, <3>2, <4>1
      <4>3. f[j + 1] = f[i] + Weight(r[j], l) /\ Weight(r[j], l) \in Int
        BY <1>3, <1>4, <4>1, <4>2
      <4> QED
        BY <2>7, <4>2, <4>3
    <3>3. CASE j > i
      <4>1. j \in 0 .. (a - 1) /\ ~(j < i) /\ j - 1 \in 0 .. (a - 1) /\ ~(j - 1 < i)
            /\ j + 1 \in 1 .. a /\ (j + 1) - 1 = j /\ (j - 1) + 1 = j /\ j \in 0 .. a
        BY <1>1, <3>3
      <4>2. h[j] = f[j + 1] - w /\ h[j - 1] = f[j] - w /\ r[j] = p[j + 1]
        BY <2>1, <2>3, <4>1
      <4>3. f[j + 1] = f[j] + Weight(r[j], l) /\ Weight(r[j], l) \in Int /\ f[j] \in Int
        BY <1>3, <1>4, <4>1, <4>2
      <4> QED
        BY <1>5, <4>2, <4>3
    <3> QED
      BY <1>1, <3>1, <3>2, <3>3
  <2>10. Adds(h, r, l, n - w)
    BY <2>1, <2>5, <2>6, <2>8, <2>9 DEF Adds
  <2> QED
    BY <1>5, <1>6, <2>10 DEF Weighs, r
<1>8. ASSUME NEW o \in Ops, Weight(o, l) = Weight(p[i], l)
      PROVE  Weighs(Replace(p, i, <<o>>), l, n)
  <2> DEFINE r == Replace(p, i, <<o>>)
  <2>1. Len(r) = a /\ \A k \in 1 .. a : r[k] = IF k = i THEN o ELSE p[k]
    BY <1>1, <1>8, ReplaceByOne
  <2> HIDE DEF r
  <2>2. \A k \in 1 .. a : Weight(r[k], l) = Weight(p[k], l)
    BY <1>8, <2>1
  <2>3. Adds(f, r, l, n)
    BY <1>3, <2>1, <2>2 DEF Adds
  <2> QED
    BY <1>6, <2>3 DEF Weighs, r
<1> QED
  BY <1>5, <1>7, <1>8

\* The memory holds integers.
LEMMA MemoryTyped ==
    ASSUME IInv, NEW l \in Locations
    PROVE  memory[l] \in 0 .. Wrap - 1 /\ memory[l] \in Int
BY MetricsAssumption DEF IInv, TypeOK

\* A call adds the weight of its operations to what a location comes to.
LEMMA LedgerOnCall ==
    ASSUME IInv, NEW t \in Reactors, NEW q \in Seq(Ops), Issue(t, q), memory' = memory,
           NEW l \in Locations, NEW n, Ledger(l, n), NEW w, Weighs(q, l, w),
           NEW n2, Same(n + w, n2)
    PROVE  Ledger(l, n2)'
<1>1. PICK pending \in [Reactors -> Int] :
           /\ \A u \in Reactors : Weighs(program[u], l, pending[u])
           /\ Same(memory[l] + SumFunctionOnSet(pending, Reactors), n)
  BY DEF Ledger
<1>2. program \in [Reactors -> Seq(Ops)] /\ w \in Int
  BY DEF IInv, Programs, Weighs
<1>3. /\ program'[t] = program[t] \o q
      /\ \A u \in Reactors : u # t => program'[u] = program[u]
  BY <1>2 DEF Issue
<1> DEFINE p2 == [pending EXCEPT ![t] = pending[t] + w]
<1>4. /\ p2 \in [Reactors -> Int] /\ p2[t] = pending[t] + w
      /\ \A u \in Reactors : u # t => p2[u] = pending[u]
  BY <1>1, <1>2
<1> HIDE DEF p2
<1>5. ASSUME NEW u \in Reactors PROVE Weighs(program'[u], l, p2[u])
  <2>1. CASE u = t
    <3>1. program[t] \in Seq(Ops) /\ Weighs(program[t], l, pending[t])
      BY <1>1, <1>2
    <3>2. Weighs(program[t] \o q, l, pending[t] + w)
      BY <3>1, WeighsJoined
    <3> QED
      BY <1>3, <1>4, <2>1, <3>2
  <2>2. CASE u # t
    BY <1>1, <1>3, <1>4, <2>2
  <2> QED
    BY <2>1, <2>2
<1>6. IsFiniteSet(Reactors)
  BY MetricsAssumption
<1>7. PICK s \in Int : s = SumFunctionOnSet(pending, Reactors)
  <2>1. SumFunctionOnSet(pending, Reactors) \in Int
    BY <1>1, <1>6, SumRemove
  <2> QED
    BY <2>1
<1>8. SumFunctionOnSet(p2, Reactors) = s + w
  <2>1. SumFunctionOnSet(p2, Reactors) = SumFunctionOnSet(pending, Reactors) + (p2[t] - pending[t])
    <3>1. (\A u \in Reactors : pending[u] \in Int) /\ p2[t] \in Int
      BY <1>1, <1>4
    <3>2. \A u \in Reactors : u # t => p2[u] = pending[u]
      BY <1>4
    <3> QED
      BY <1>6, <3>1, <3>2, SumChanged
  <2>2. pending[t] \in Int /\ p2[t] - pending[t] = w
    BY <1>1, <1>2, <1>4
  <2> QED
    BY <1>7, <2>1, <2>2
<1>9. memory[l] \in Int
  BY MemoryTyped
<1>10. (memory[l] + s) + w = memory[l] + (s + w)
  BY <1>2, <1>7, <1>9
<1>11. Same((memory[l] + s) + w, n + w)
  <2>1. PICK a : a = memory[l] + s
    OBVIOUS
  <2>2. Same(a, n)
    BY <1>1, <1>7, <2>1
  <2>3. Same(a + w, n + w)
    BY <1>2, <2>2, SameShift
  <2> QED
    BY <2>1, <2>3
<1>12. Same(memory[l] + (s + w), n2)
  BY <1>10, <1>11, SameRules
<1>13. Same(memory'[l] + SumFunctionOnSet(p2, Reactors), n2)
  BY <1>8, <1>12
<1> QED
  BY <1>4, <1>5, <1>13 DEF Ledger

\* When an operation takes effect, what it adds was in flight before.
LEMMA LedgerOnEffect ==
    ASSUME IInv, NEW t \in Reactors, Perform(t),
           NEW l \in Locations \ Maxima, NEW n, Ledger(l, n)
    PROVE  Ledger(l, n)'
<1>1. PICK i \in DOMAIN program[t] : TakeEffect(t, i)
  BY DEF Perform
<1>2. memory \in [Locations -> 0 .. Wrap - 1] /\ program \in [Reactors -> Seq(Ops)]
  BY DEF IInv, TypeOK, Programs
<1>3. program[t] \in Seq(Ops) /\ i \in 1 .. Len(program[t]) /\ program[t][i] \in Ops
  BY <1>1, <1>2
<1>4. PICK o \in Ops : o = program[t][i]
  BY <1>3
<1>5. /\ o.at \in Locations /\ o.arg \in 0 .. Wrap - 1 /\ Wrap \in Nat
      /\ o.op # "add" <=> o.at \in Maxima
  BY MetricsAssumption DEF Ops
<1>6. PICK v \in 0 .. Wrap - 1 : v = memory[o.at]
  BY <1>2, <1>5
<1>7. /\ program' = [program EXCEPT ![t] = Replace(program[t], i, Rest(o, v))]
      /\ memory' = [memory EXCEPT ![o.at] = Result(o, v)]
  BY <1>1, <1>2, <1>4, <1>6 DEF TakeEffect, Rest, Result
<1>8. /\ program'[t] = Replace(program[t], i, Rest(o, v))
      /\ \A u \in Reactors : u # t => program'[u] = program[u]
      /\ memory'[o.at] = Result(o, v) /\ \A m \in Locations : m # o.at => memory'[m] = memory[m]
  BY <1>2, <1>5, <1>7
<1>9. PICK pending \in [Reactors -> Int] :
           /\ \A u \in Reactors : Weighs(program[u], l, pending[u])
           /\ Same(memory[l] + SumFunctionOnSet(pending, Reactors), n)
  BY DEF Ledger
<1>10. pending[t] \in Int /\ Weighs(program[t], l, pending[t])
  BY <1>9
<1>11. /\ Weighs(Replace(program[t], i, <<>>), l, pending[t] - Weight(o, l))
       /\ \A r \in Ops : Weight(r, l) = Weight(o, l) =>
             Weighs(Replace(program[t], i, <<r>>), l, pending[t])
  BY <1>3, <1>4, <1>10, WeighsTaken
<1>12. CASE o.at = l
  <2>1. o.op = "add" /\ Weight(o, l) = o.arg /\ o.arg \in Int
    BY <1>5, <1>12 DEF Weight
  <2>2. Rest(o, v) = <<>> /\ Result(o, v) = Add64(v, o.arg)
    BY <2>1 DEF Rest, Result, Exchanges
  <2> DEFINE p2 == [pending EXCEPT ![t] = pending[t] - o.arg]
  <2>3. /\ p2 \in [Reactors -> Int] /\ p2[t] = pending[t] - o.arg
        /\ \A u \in Reactors : u # t => p2[u] = pending[u]
    BY <1>9, <1>10, <2>1
  <2> HIDE DEF p2
  <2>4. ASSUME NEW u \in Reactors PROVE Weighs(program'[u], l, p2[u])
    <3>1. CASE u = t
      BY <1>8, <1>11, <2>1, <2>2, <2>3, <3>1
    <3>2. CASE u # t
      BY <1>8, <1>9, <2>3, <3>2
    <3> QED
      BY <3>1, <3>2
  <2>5. IsFiniteSet(Reactors)
    BY MetricsAssumption
  <2>6. PICK s \in Int : s = SumFunctionOnSet(pending, Reactors)
    <3>1. SumFunctionOnSet(pending, Reactors) \in Int
      BY <1>9, <2>5, SumRemove
    <3> QED
      BY <3>1
  <2>7. SumFunctionOnSet(p2, Reactors) = s - o.arg
    <3>1. SumFunctionOnSet(p2, Reactors) = SumFunctionOnSet(pending, Reactors) + (p2[t] - pending[t])
      BY <1>9, <2>3, <2>5, SumChanged
    <3> QED
      BY <1>10, <2>1, <2>3, <2>6, <3>1
  <2>8. PICK a \in Int : a = v + o.arg /\ v \in Int
    BY <1>6, <2>1
  <2>9. PICK m : m = Add64(v, o.arg) /\ Same(m, a)
    BY <2>8, SameRules DEF Add64
  <2>10. PICK x \in Int : x = s - o.arg /\ a + x = v + s
    BY <2>1, <2>6, <2>8
  <2>11. Same(m + x, a + x)
    BY <2>9, <2>10, SameShift
  <2>12. Same(v + s, n)
    BY <1>6, <1>9, <1>12, <2>6
  <2>13. Same(m + x, n)
    BY <2>10, <2>11, <2>12, SameRules
  <2>14. Same(memory'[l] + SumFunctionOnSet(p2, Reactors), n)
    BY <1>8, <1>12, <2>2, <2>7, <2>9, <2>10, <2>13
  <2> QED
    BY <2>3, <2>4, <2>14 DEF Ledger
<1>13. CASE o.at # l
  <2>1. Weight(o, l) = 0
    BY <1>13 DEF Weight
  <2>2. memory'[l] = memory[l]
    BY <1>8, <1>13
  <2>3. Rest(o, v) = <<>> \/ \E r \in Ops : r.at = o.at /\ Rest(o, v) = <<r>>
    <3>1. CASE o.op = "add"
      BY <3>1 DEF Rest
    <3>2. CASE o.op # "add"
      <4>1. Rest(o, v) \in {<<>>, Retry(o, v)}
        BY <3>2 DEF Rest, Ops
      <4> QED
        BY <3>2, <4>1, RetryKnown
    <3> QED
      BY <3>1, <3>2
  <2>4. Weighs(program'[t], l, pending[t])
    <3>1. CASE Rest(o, v) = <<>>
      <4>1. pending[t] - 0 = pending[t]
        BY <1>10
      <4> QED
        BY <1>8, <1>11, <2>1, <3>1, <4>1
    <3>2. CASE \E r \in Ops : r.at = o.at /\ Rest(o, v) = <<r>>
      <4>1. PICK r \in Ops : r.at = o.at /\ Rest(o, v) = <<r>>
        BY <3>2
      <4>2. Weight(r, l) = Weight(o, l)
        BY <1>13, <4>1 DEF Weight
      <4> QED
        BY <1>8, <1>11, <4>1, <4>2
    <3> QED
      BY <2>3, <3>1, <3>2
  <2>5. \A u \in Reactors : Weighs(program'[u], l, pending[u])
    BY <1>8, <1>9, <2>4
  <2>6. Same(memory'[l] + SumFunctionOnSet(pending, Reactors), n)
    BY <1>9, <2>2
  <2> QED
    BY <1>9, <2>5, <2>6 DEF Ledger
<1> QED
  BY <1>12, <1>13

\* Once nothing is in flight a location is what it comes to.
LEMMA LedgerQuiet ==
    ASSUME IInv, Quiet, NEW l \in Locations, NEW n, Ledger(l, n)
    PROVE  Same(memory[l], n)
<1>1. PICK pending \in [Reactors -> Int] :
           /\ \A u \in Reactors : Weighs(program[u], l, pending[u])
           /\ Same(memory[l] + SumFunctionOnSet(pending, Reactors), n)
  BY DEF Ledger
<1>2. \A u \in Reactors : pending[u] = 0
  <2> TAKE u \in Reactors
  <2>1. Len(program[u]) = 0
    BY DEF Quiet
  <2> QED
    BY <1>1, <2>1, WeighsNothing
<1>3. IsFiniteSet(Reactors)
  BY MetricsAssumption
<1>4. SumFunctionOnSet(pending, Reactors) = 0
  BY <1>2, <1>3, SumOfZeros
<1>5. memory[l] \in Int
  BY MemoryTyped
<1>6. memory[l] + SumFunctionOnSet(pending, Reactors) = memory[l]
  BY <1>4, <1>5
<1> QED
  BY <1>1, <1>6

-----------------------------------------------------------------------------
(* What every location comes to *)

\* The latencies that fall into a bucket.
InBucket(i) == {d \in Latencies : BucketIndex(d) = i}

\* The time spent with commands of each latency.
Spent == [d \in Latencies |-> d * recorded[d]]

\* The connections of each thread.
Owned == [t \in Reactors |-> Max({0, m_clients[t]})]

LatencyLocations ==
    {Loc("commandLatencyCount"), Loc("commandLatencyTotal")} \cup {Bucket(i) : i \in Buckets}

TotalsKept == \A n \in Totals : Ledger(Loc(n), added[n])

LatenciesKept ==
    /\ Ledger(Loc("commandLatencyCount"), Commands(Latencies))
    /\ Ledger(Loc("commandLatencyTotal"), SumFunction(Spent))
    /\ \A i \in Buckets : Ledger(Bucket(i), Commands(InBucket(i)))

ActiveKept == Ledger(Active, dropped + SumFunction(Owned))

\* Nothing is counted more often than there were calls ...
AddedBounded == \A n \in Totals : added[n] <= calls

\* ... a STATS command that has not been recorded yet has been called ...
CommandsBounded ==
    /\ recorded \in [Latencies -> Nat]
    /\ IsFiniteSet(inStats)
    /\ Commands(Latencies) + Cardinality(inStats) <= calls

\* ... and every connection was added by a call.
OwnedBounded == dropped \in Nat /\ dropped + SumFunction(Owned) <= calls

CountsBounded == AddedBounded /\ CommandsBounded /\ OwnedBounded

Books == TotalsKept /\ LatenciesKept /\ ActiveKept /\ CountsBounded

\* Different names are different locations.
LEMMA LocationsDiffer ==
    /\ \A n \in Totals : /\ Loc(n) \in Locations \ Maxima
                         /\ Loc(n) # Active /\ Loc(n) \notin LatencyLocations
    /\ \A n, m : Loc(n) = Loc(m) => n = m
    /\ Active \in Locations \ Maxima /\ Active \notin LatencyLocations
    /\ LatencyLocations \subseteq Locations \ Maxima
    /\ \A i \in Buckets : Bucket(i) # Loc("commandLatencyCount") /\ Bucket(i) # Loc("commandLatencyTotal")
    /\ Loc("commandLatencyCount") # Loc("commandLatencyTotal")
    /\ \A i, j : Bucket(i) = Bucket(j) => i = j
<1>0. \A i \in Buckets : i # 0
  BY DEF Buckets
<1>1. \A n : \A i \in Buckets : Loc(n) # Bucket(i)
  BY <1>0 DEF Loc, Bucket
<1>2. \A n, m : Loc(n) = Loc(m) => n = m
  BY DEF Loc
<1>3. \A i, j : Bucket(i) = Bucket(j) => i = j
  BY DEF Bucket
<1>4. \A n \in Totals : n \notin {"activeConnections", "maximumPendingWriteBytes",
          "commandLatencyCount", "commandLatencyTotal", "commandLatencyMaximum"}
  BY MetricsAssumption DEF Totals
<1>5. \A n \in Totals : /\ Loc(n) \in Locations \ Maxima
                        /\ Loc(n) # Active /\ Loc(n) \notin LatencyLocations
  <2> TAKE n \in Totals
  <2>1. Loc(n) \in Locations
    BY DEF Locations
  <2>2. Loc(n) \notin Maxima /\ Loc(n) # Active
    BY <1>2, <1>4 DEF Maxima, Active
  <2>3. Loc(n) \notin LatencyLocations
    BY <1>1, <1>2, <1>4 DEF LatencyLocations
  <2> QED
    BY <2>1, <2>2, <2>3
<1>6. Active \in Locations \ Maxima /\ Active \notin LatencyLocations
  BY <1>1, <1>2 DEF Active, Locations, Maxima, LatencyLocations
<1>7. ASSUME NEW l \in LatencyLocations PROVE l \in Locations \ Maxima
  <2>1. CASE l \in {Loc("commandLatencyCount"), Loc("commandLatencyTotal")}
    BY <1>2, <2>1 DEF Locations, Maxima
  <2>2. CASE \E i \in Buckets : l = Bucket(i)
    BY <1>1, <2>2 DEF Locations, Maxima
  <2> QED
    BY <1>7, <2>1, <2>2 DEF LatencyLocations
<1>8. \A i \in Buckets : Bucket(i) # Loc("commandLatencyCount") /\ Bucket(i) # Loc("commandLatencyTotal")
  BY <1>1
<1>9. Loc("commandLatencyCount") # Loc("commandLatencyTotal")
  BY <1>2
<1> QED
  BY <1>2, <1>3, <1>5, <1>6, <1>7, <1>8, <1>9

\* What fetch_add and UpdateMaximum weigh.
LEMMA WeightKnown ==
    /\ \A at, n, l : FetchAdd(at, n).at = at /\ Weight(FetchAdd(at, n), l) = IF at = l THEN n ELSE 0
    /\ \A at, n, l : UpdateMaximum(at, n).at = at /\ (at # l => Weight(UpdateMaximum(at, n), l) = 0)
BY DEF FetchAdd, UpdateMaximum, Weight

\* Two operations.
LEMMA WeighsTwo ==
    ASSUME NEW a \in Ops, NEW b \in Ops, NEW l
    PROVE  /\ <<a, b>> \in Seq(Ops)
           /\ Weighs(<<a, b>>, l, Weight(a, l) + Weight(b, l))
<1>1. <<a>> \in Seq(Ops) /\ <<b>> \in Seq(Ops) /\ <<a, b>> \in Seq(Ops)
  OBVIOUS
<1>2. <<a>> \o <<b>> = <<a, b>>
  <2> DEFINE p == <<a>> \o <<b>>
             q == <<a, b>>
  <2>1. p \in Seq(Ops) /\ Len(p) = 2 /\ p[1] = a /\ p[2] = b
    OBVIOUS
  <2>2. q \in Seq(Ops) /\ Len(q) = 2 /\ q[1] = a /\ q[2] = b
    OBVIOUS
  <2> HIDE DEF p, q
  <2>3. p = [i \in 1 .. 2 |-> p[i]] /\ q = [i \in 1 .. 2 |-> q[i]]
    BY <2>1, <2>2
  <2>4. \A i \in 1 .. 2 : p[i] = q[i]
    BY <2>1, <2>2
  <2>5. p = q
    BY <2>3, <2>4
  <2> QED
    BY <2>5 DEF p, q
<1>3. Weighs(<<a>>, l, Weight(a, l)) /\ Weighs(<<b>>, l, Weight(b, l))
  BY WeighsOne
<1>4. Weighs(<<a>> \o <<b>>, l, Weight(a, l) + Weight(b, l))
  BY <1>1, <1>3, WeighsJoined
<1> QED
  BY <1>1, <1>2, <1>4

\* What the record of a latency adds to a location.
RecordWeight(d, l) ==
    IF l = Loc("commandLatencyCount") THEN 1
    ELSE IF l = Loc("commandLatencyTotal") THEN d
    ELSE IF l = Bucket(BucketIndex(d)) THEN 1 ELSE 0

\* RecordCommandLatency adds this, and a maximum aside nothing else.
LEMMA WeighsRecord ==
    ASSUME NEW d \in Latencies, NEW l \in Locations \ Maxima
    PROVE  /\ RecordCommandLatency(d) \in Seq(Ops)
           /\ Weighs(RecordCommandLatency(d), l, RecordWeight(d, l))
<1> DEFINE a == FetchAdd(Loc("commandLatencyCount"), 1)
           b == FetchAdd(Loc("commandLatencyTotal"), d)
           c == UpdateMaximum(Loc("commandLatencyMaximum"), d)
           e == FetchAdd(Bucket(BucketIndex(d)), 1)
<1>1. a \in Ops /\ b \in Ops /\ c \in Ops /\ e \in Ops
  BY OperationsKnown, BucketOfLatency DEF Maxima
<1>2. /\ Weight(a, l) = IF l = Loc("commandLatencyCount") THEN 1 ELSE 0
      /\ Weight(b, l) = IF l = Loc("commandLatencyTotal") THEN d ELSE 0
      /\ Weight(c, l) = 0
      /\ Weight(e, l) = IF l = Bucket(BucketIndex(d)) THEN 1 ELSE 0
  BY WeightKnown DEF Maxima
<1>3. RecordCommandLatency(d) = <<a, b, c, e>>
  BY DEF RecordCommandLatency
<1> HIDE DEF a, b, c, e
<1>4. <<a, b, c, e>> = <<a, b>> \o <<c, e>>
  OBVIOUS
<1>5. /\ <<a, b>> \in Seq(Ops) /\ Weighs(<<a, b>>, l, Weight(a, l) + Weight(b, l))
      /\ <<c, e>> \in Seq(Ops) /\ Weighs(<<c, e>>, l, Weight(c, l) + Weight(e, l))
  BY <1>1, WeighsTwo
<1>6. Weighs(<<a, b>> \o <<c, e>>, l, (Weight(a, l) + Weight(b, l)) + (Weight(c, l) + Weight(e, l)))
  BY <1>5, WeighsJoined
<1>7. BucketIndex(d) \in Buckets /\ d \in Int
  BY BucketOfLatency, MetricsAssumption
<1>8. (Weight(a, l) + Weight(b, l)) + (Weight(c, l) + Weight(e, l)) = RecordWeight(d, l)
  BY <1>2, <1>7, LocationsDiffer DEF RecordWeight
<1> QED
  BY <1>3, <1>4, <1>6, <1>8, LatencyOperations

\* The totals, when a call issues q.
LEMMA TotalsOnCall ==
    ASSUME IInv, TotalsKept, NEW t \in Reactors, NEW q \in Seq(Ops), Issue(t, q), memory' = memory,
           NEW names, Count(names),
           \A n \in Totals : Weighs(q, Loc(n), IF n \in names THEN 1 ELSE 0)
    PROVE  TotalsKept'
<1>1. ASSUME NEW n \in Totals PROVE Ledger(Loc(n), added[n])'
  <2>1. added \in [Totals -> Nat]
    BY DEF IInv, Programs
  <2>2. PICK w \in {0, 1} : w = IF n \in names THEN 1 ELSE 0
    OBVIOUS
  <2>3. PICK a \in Nat : a = added[n]
    BY <2>1
  <2>4. added'[n] = a + w
    BY <2>2, <2>3 DEF Count
  <2>5. Ledger(Loc(n), a) /\ Weighs(q, Loc(n), w) /\ Loc(n) \in Locations
    BY <2>2, <2>3, LocationsDiffer DEF TotalsKept
  <2>6. PICK b : b = a + w
    OBVIOUS
  <2>7. Same(a + w, b)
    BY <2>6, SameRules
  <2>8. Ledger(Loc(n), b)'
    BY <2>5, <2>7, LedgerOnCall
  <2> QED
    BY <2>4, <2>6, <2>8
<1> QED
  BY <1>1 DEF TotalsKept

\* A call that issues nothing on a location leaves what it comes to.
LEMMA LedgerOnOther ==
    ASSUME IInv, NEW t \in Reactors, NEW q \in Seq(Ops), Issue(t, q), memory' = memory,
           NEW l \in Locations, Weighs(q, l, 0), NEW n, Ledger(l, n)
    PROVE  Ledger(l, n)'
<1>1. n \in Int
  BY DEF Ledger, Same
<1>2. Same(n + 0, n)
  BY <1>1, SameRules
<1> QED
  BY <1>2, LedgerOnCall

\* The latency figures, when a call issues nothing on them.
LEMMA LatenciesOnOther ==
    ASSUME IInv, LatenciesKept, NEW t \in Reactors, NEW q \in Seq(Ops), Issue(t, q), memory' = memory,
           recorded' = recorded, \A l \in LatencyLocations : Weighs(q, l, 0)
    PROVE  LatenciesKept'
<1>1. ASSUME NEW l \in LatencyLocations, NEW n, Ledger(l, n) PROVE Ledger(l, n)'
  BY <1>1, LocationsDiffer, LedgerOnOther
<1>2. PICK a : a = Commands(Latencies)
  OBVIOUS
<1>3. PICK b : b = SumFunction(Spent)
  OBVIOUS
<1>4. Ledger(Loc("commandLatencyCount"), a)'
  BY <1>1, <1>2 DEF LatenciesKept, LatencyLocations
<1>5. Ledger(Loc("commandLatencyTotal"), b)'
  BY <1>1, <1>3 DEF LatenciesKept, LatencyLocations
<1>6. ASSUME NEW i \in Buckets PROVE Ledger(Bucket(i), Commands(InBucket(i)))'
  <2>1. PICK c : c = Commands(InBucket(i))
    OBVIOUS
  <2>2. Ledger(Bucket(i), c)'
    BY <1>1, <2>1 DEF LatenciesKept, LatencyLocations
  <2>3. c = Commands(InBucket(i))'
    BY <2>1 DEF Commands, InBucket
  <2> QED
    BY <2>2, <2>3
<1>7. a = Commands(Latencies)' /\ b = SumFunction(Spent)'
  BY <1>2, <1>3 DEF Commands, Spent
<1> QED
  BY <1>4, <1>5, <1>6, <1>7 DEF LatenciesKept

\* There are finitely many latencies.
LEMMA LatenciesFinite ==
    /\ IsFiniteSet(Latencies) /\ Latencies \subseteq Nat
    /\ \A S \in SUBSET Latencies : IsFiniteSet(S)
<1>1. Latencies \subseteq 0 .. Wrap - 1 /\ Wrap \in Nat
  BY MetricsAssumption
<1>2. IsFiniteSet(0 .. Wrap - 1)
  BY <1>1, FS_Interval
<1>3. IsFiniteSet(Latencies)
  BY <1>1, <1>2, FS_Subset
<1>4. \A S \in SUBSET Latencies : IsFiniteSet(S)
  BY <1>3, FS_Subset
<1> QED
  BY <1>1, <1>3, <1>4

\* A recorded command is one more in every set of latencies it belongs to.
LEMMA CommandsOnRecord ==
    ASSUME recorded \in [Latencies -> Nat], NEW d \in Latencies, Record(d),
           NEW S \in SUBSET Latencies
    PROVE  /\ Commands(S) \in Nat
           /\ Commands(S)' = Commands(S) + (IF d \in S THEN 1 ELSE 0)
<1>1. /\ recorded' = [recorded EXCEPT ![d] = recorded[d] + 1]
      /\ recorded'[d] = recorded[d] + 1 /\ recorded[d] \in Nat
      /\ \A x \in Latencies : x # d => recorded'[x] = recorded[x]
  BY DEF Record
<1>2. IsFiniteSet(S) /\ (\A x \in S : recorded[x] \in Nat) /\ (\A x \in S : recorded[x] \in Int)
  BY LatenciesFinite
<1>3. SumFunctionOnSet(recorded, S) \in Nat
  BY <1>2, SumOfNaturals
<1>4. CASE d \in S
  <2>1. \A x \in S : x # d => recorded'[x] = recorded[x]
    BY <1>1
  <2>2. recorded'[d] \in Int /\ recorded'[d] - recorded[d] = 1
    BY <1>1
  <2>3. SumFunctionOnSet(recorded', S) = SumFunctionOnSet(recorded, S) + (recorded'[d] - recorded[d])
    BY <1>2, <1>4, <2>1, <2>2, SumChanged
  <2> QED
    BY <1>3, <1>4, <2>2, <2>3 DEF Commands
<1>5. CASE d \notin S
  <2>1. \A x \in S : recorded[x] \in Int /\ recorded'[x] = recorded[x]
    BY <1>1, <1>2, <1>5
  <2>2. SumFunctionOnSet(recorded', S) = SumFunctionOnSet(recorded, S)
    BY <1>2, <2>1, SumSame
  <2> QED
    BY <1>3, <1>5, <2>2 DEF Commands
<1> QED
  BY <1>4, <1>5

\* ... and its latency more in the total.
LEMMA SpentOnRecord ==
    ASSUME recorded \in [Latencies -> Nat], NEW d \in Latencies, Record(d)
    PROVE  /\ SumFunction(Spent) \in Nat
           /\ SumFunction(Spent)' = SumFunction(Spent) + d
<1>1. /\ recorded' = [recorded EXCEPT ![d] = recorded[d] + 1]
      /\ recorded'[d] = recorded[d] + 1 /\ recorded[d] \in Nat
      /\ \A x \in Latencies : x # d => recorded'[x] = recorded[x]
  BY DEF Record
<1>2. IsFiniteSet(Latencies) /\ Latencies \subseteq Nat /\ d \in Nat
  BY LatenciesFinite
<1> DEFINE f == [x \in Latencies |-> x * recorded[x]]
           g == [x \in Latencies |-> x * recorded'[x]]
<1>3. /\ SumFunction(Spent) = SumFunctionOnSet(f, Latencies)
      /\ SumFunction(Spent)' = SumFunctionOnSet(g, Latencies)
  BY DEF SumFunction, Spent
<1>4. ASSUME NEW x \in Latencies PROVE f[x] \in Nat
  <2>1. x \in Nat /\ recorded[x] \in Nat
    BY <1>2
  <2>2. x * recorded[x] \in Nat
    BY <2>1
  <2> QED
    BY <2>2
<1>5. \A x \in Latencies : x # d => g[x] = f[x]
  BY <1>1
<1>6. f[d] = d * recorded[d] /\ g[d] = d * (recorded[d] + 1)
  BY <1>1
<1>7. PICK r \in Nat : r = recorded[d]
  BY <1>1
<1>8. d * (r + 1) = d * r + d /\ d * r \in Nat /\ d * (r + 1) \in Nat
  BY <1>2
<1> HIDE DEF f, g
<1>9. g[d] \in Int /\ g[d] - f[d] = d /\ f[d] \in Nat
  BY <1>2, <1>6, <1>7, <1>8
<1>10. \A x \in Latencies : f[x] \in Int
  <2> TAKE x \in Latencies
  <2>1. f[x] \in Nat
    BY <1>4
  <2> QED
    BY <2>1
<1>11. SumFunctionOnSet(g, Latencies) = SumFunctionOnSet(f, Latencies) + (g[d] - f[d])
  <2>1. IsFiniteSet(Latencies) /\ g[d] \in Int
    BY <1>2, <1>9
  <2> QED
    BY <1>5, <1>10, <2>1, SumChanged
<1>12. SumFunctionOnSet(f, Latencies) \in Nat
  BY <1>2, <1>4, SumOfNaturals
<1> QED
  BY <1>3, <1>9, <1>11, <1>12

\* The latency figures, when a call records a latency.
LEMMA LatenciesOnRecord ==
    ASSUME IInv, LatenciesKept, NEW t \in Reactors, NEW q \in Seq(Ops), Issue(t, q), memory' = memory,
           recorded \in [Latencies -> Nat], NEW d \in Latencies, Record(d),
           \A l \in LatencyLocations : Weighs(q, l, RecordWeight(d, l))
    PROVE  LatenciesKept'
<1>1. ASSUME NEW l \in LatencyLocations, NEW n \in Nat, Ledger(l, n), NEW n2,
             n2 = n + RecordWeight(d, l)
      PROVE  Ledger(l, n2)'
  <2>1. PICK w \in Int : w = RecordWeight(d, l)
    <3>1. RecordWeight(d, l) \in Int
      BY LatenciesFinite DEF RecordWeight
    <3> QED
      BY <3>1
  <2>2. l \in Locations /\ Weighs(q, l, w)
    BY <2>1, LocationsDiffer
  <2>3. Same(n + w, n2)
    BY <1>1, <2>1, SameRules
  <2> QED
    BY <1>1, <2>2, <2>3, LedgerOnCall
<1>2. Ledger(Loc("commandLatencyCount"), Commands(Latencies))'
  <2>1. PICK a : a = Commands(Latencies)
    OBVIOUS
  <2>2. PICK b : b = Commands(Latencies)'
    OBVIOUS
  <2>3. a \in Nat /\ b = a + 1
    BY <2>1, <2>2, CommandsOnRecord
  <2>4. RecordWeight(d, Loc("commandLatencyCount")) = 1
    BY DEF RecordWeight
  <2>5. Loc("commandLatencyCount") \in LatencyLocations /\ Ledger(Loc("commandLatencyCount"), a)
    BY <2>1 DEF LatencyLocations, LatenciesKept
  <2>6. Ledger(Loc("commandLatencyCount"), b)'
    BY <1>1, <2>3, <2>4, <2>5
  <2> QED
    BY <2>2, <2>6
<1>3. Ledger(Loc("commandLatencyTotal"), SumFunction(Spent))'
  <2>1. PICK a : a = SumFunction(Spent)
    OBVIOUS
  <2>2. PICK b : b = SumFunction(Spent)'
    OBVIOUS
  <2>3. a \in Nat /\ b = a + d
    BY <2>1, <2>2, SpentOnRecord
  <2>4. RecordWeight(d, Loc("commandLatencyTotal")) = d
    BY LocationsDiffer DEF RecordWeight
  <2>5. Loc("commandLatencyTotal") \in LatencyLocations /\ Ledger(Loc("commandLatencyTotal"), a)
    BY <2>1 DEF LatencyLocations, LatenciesKept
  <2>6. Ledger(Loc("commandLatencyTotal"), b)'
    BY <1>1, <2>3, <2>4, <2>5
  <2> QED
    BY <2>2, <2>6
<1>4. ASSUME NEW i \in Buckets PROVE Ledger(Bucket(i), Commands(InBucket(i)))'
  <2>0. PICK S \in SUBSET Latencies : S = InBucket(i) /\ S = InBucket(i)' /\ (d \in S <=> BucketIndex(d) = i)
    <3>1. InBucket(i) \in SUBSET Latencies /\ InBucket(i)' = InBucket(i)
      BY DEF InBucket
    <3>2. d \in InBucket(i) <=> BucketIndex(d) = i
      BY DEF InBucket
    <3> QED
      BY <3>1, <3>2
  <2>1. PICK a : a = Commands(S)
    OBVIOUS
  <2>2. PICK b : b = Commands(S)'
    OBVIOUS
  <2>3. a \in Nat /\ b = a + (IF d \in S THEN 1 ELSE 0)
    BY <2>1, <2>2, CommandsOnRecord
  <2>4. RecordWeight(d, Bucket(i)) = IF d \in S THEN 1 ELSE 0
    BY <2>0, LocationsDiffer DEF RecordWeight
  <2>5. Bucket(i) \in LatencyLocations /\ Ledger(Bucket(i), a)
    BY <2>0, <2>1 DEF LatencyLocations, LatenciesKept
  <2>6. Ledger(Bucket(i), b)'
    BY <1>1, <2>3, <2>4, <2>5
  <2>7. b = Commands(InBucket(i))'
    BY <2>0, <2>2 DEF Commands
  <2> QED
    BY <2>6, <2>7
<1> QED
  BY <1>2, <1>3, <1>4 DEF LatenciesKept

\* The connections of a thread that has not failed, and of one that has.
LEMMA OwnedTyped ==
    ASSUME NEW m \in Int
    PROVE  Max({0, m}) = IF m > 0 THEN m ELSE 0
<1>1. PICK x : x = Max({0, m})
  OBVIOUS
<1>2. x = CHOOSE y \in {0, m} : \A z \in {0, m} : y >= z
  BY <1>1 DEF Max
<1>3. \E y \in {0, m} : \A z \in {0, m} : y >= z
  <2>1. CASE m > 0
    BY <2>1
  <2>2. CASE ~(m > 0)
    BY <2>2
  <2> QED
    BY <2>1, <2>2
<1>4. x \in {0, m} /\ \A z \in {0, m} : x >= z
  BY <1>2, <1>3, Zenon
<1>5. x = IF m > 0 THEN m ELSE 0
  BY <1>4
<1> QED
  BY <1>1, <1>5

\* What a thread's connections add up to, when the number of one thread changes.
LEMMA OwnedOnChange ==
    ASSUME m_clients \in [Reactors -> Int], NEW t \in Reactors, NEW m \in Int,
           m_clients' = [m_clients EXCEPT ![t] = m]
    PROVE  /\ SumFunction(Owned) \in Nat
           /\ SumFunction(Owned)' = SumFunction(Owned) + ((IF m > 0 THEN m ELSE 0)
                                       - (IF m_clients[t] > 0 THEN m_clients[t] ELSE 0))
<1>1. PICK f : f = Owned
  OBVIOUS
<1>2. PICK g : g = Owned'
  OBVIOUS
<1>3. /\ SumFunction(Owned) = SumFunctionOnSet(f, Reactors)
      /\ SumFunction(Owned)' = SumFunctionOnSet(g, Reactors)
  BY <1>1, <1>2 DEF SumFunction, Owned
<1>4. /\ m_clients'[t] = m /\ m_clients[t] \in Int
      /\ \A u \in Reactors : u # t => m_clients'[u] = m_clients[u]
  OBVIOUS
<1>5. ASSUME NEW u \in Reactors PROVE f[u] = Max({0, m_clients[u]}) /\ g[u] = Max({0, m_clients'[u]})
  BY <1>1, <1>2 DEF Owned
<1>6. ASSUME NEW u \in Reactors PROVE f[u] \in Nat
  <2>1. m_clients[u] \in Int
    OBVIOUS
  <2>2. f[u] = IF m_clients[u] > 0 THEN m_clients[u] ELSE 0
    BY <1>5, <2>1, OwnedTyped
  <2> QED
    BY <2>1, <2>2
<1>7. ASSUME NEW u \in Reactors, u # t PROVE g[u] = f[u]
  BY <1>4, <1>5, <1>7
<1>8. f[t] = IF m_clients[t] > 0 THEN m_clients[t] ELSE 0
  BY <1>4, <1>5, OwnedTyped
<1>9. g[t] = IF m > 0 THEN m ELSE 0
  BY <1>4, <1>5, OwnedTyped
<1>10. g[t] \in Int /\ IsFiniteSet(Reactors)
  BY <1>9, MetricsAssumption
<1>11. \A u \in Reactors : f[u] \in Int
  <2> TAKE u \in Reactors
  <2>1. f[u] \in Nat
    BY <1>6
  <2> QED
    BY <2>1
<1>12. SumFunctionOnSet(g, Reactors) = SumFunctionOnSet(f, Reactors) + (g[t] - f[t])
  BY <1>7, <1>10, <1>11, SumChanged
<1>13. SumFunctionOnSet(f, Reactors) \in Nat
  BY <1>6, <1>10, SumOfNaturals
<1> QED
  BY <1>3, <1>8, <1>9, <1>12, <1>13

\* fetch_add of one on a counter that no other is related to.
LEMMA WeighsCount ==
    ASSUME NEW n \in Totals, NEW q, q = <<FetchAdd(Loc(n), 1)>>
    PROVE  /\ q \in Seq(Ops) /\ FetchAdd(Loc(n), 1) \in Ops
           /\ \A m \in Totals : Weighs(q, Loc(m), IF m = n THEN 1 ELSE 0)
           /\ \A l \in LatencyLocations \cup {Active} : Weighs(q, l, 0)
<1>1. PICK o \in Ops : o = FetchAdd(Loc(n), 1)
  BY OperationsKnown
<1>2. q = <<o>> /\ q \in Seq(Ops)
  BY <1>1
<1>3. ASSUME NEW l PROVE Weighs(q, l, IF Loc(n) = l THEN 1 ELSE 0)
  <2>1. Weighs(<<o>>, l, Weight(o, l))
    BY WeighsOne
  <2>2. Weight(o, l) = IF Loc(n) = l THEN 1 ELSE 0
    BY <1>1, WeightKnown
  <2> QED
    BY <1>2, <2>1, <2>2
<1>4. ASSUME NEW m \in Totals PROVE Weighs(q, Loc(m), IF m = n THEN 1 ELSE 0)
  <2>1. Loc(n) = Loc(m) <=> m = n
    BY LocationsDiffer
  <2> QED
    BY <1>3, <2>1
<1>5. ASSUME NEW l \in LatencyLocations \cup {Active} PROVE Weighs(q, l, 0)
  <2>1. Loc(n) # l
    BY LocationsDiffer
  <2> QED
    BY <1>3, <2>1
<1> QED
  BY <1>1, <1>2, <1>4, <1>5

\* The gauge, when a call issues nothing on it.
LEMMA ActiveOnOther ==
    ASSUME IInv, ActiveKept, NEW t \in Reactors, NEW q \in Seq(Ops), Issue(t, q), memory' = memory,
           UNCHANGED <<m_clients, dropped>>, Weighs(q, Active, 0)
    PROVE  ActiveKept'
<1>1. PICK a : a = dropped + SumFunction(Owned)
  OBVIOUS
<1>2. a = (dropped + SumFunction(Owned))'
  BY <1>1 DEF Owned
<1>3. Active \in Locations /\ Ledger(Active, a)
  BY <1>1, LocationsDiffer DEF ActiveKept
<1>4. Ledger(Active, a)'
  BY <1>3, LedgerOnOther
<1> QED
  BY <1>2, <1>4 DEF ActiveKept

\* The commands and the connections, as numbers.
LEMMA SumsTyped ==
    ASSUME IInv
    PROVE  /\ calls \in Nat
           /\ SumFunction(Owned) \in Nat
           /\ CommandsBounded => Commands(Latencies) \in Nat /\ Cardinality(inStats) \in Nat
<1>1. m_clients \in [Reactors -> Int] /\ calls \in Nat
  BY MetricsAssumption DEF IInv, TypeOK
<1>2. PICK f : f = Owned
  OBVIOUS
<1>3. ASSUME NEW u \in Reactors PROVE f[u] \in Nat
  <2>1. PICK c \in Int : c = m_clients[u]
    BY <1>1
  <2>2. Max({0, c}) = IF c > 0 THEN c ELSE 0
    BY OwnedTyped
  <2>3. f[u] = Max({0, c})
    BY <1>2, <2>1 DEF Owned
  <2> QED
    BY <2>2, <2>3
<1>4. DOMAIN f = Reactors
  BY <1>2 DEF Owned
<1>5. SumFunctionOnSet(f, Reactors) \in Nat
  BY <1>3, SumOfNaturals, MetricsAssumption
<1>6. SumFunction(Owned) \in Nat
  BY <1>2, <1>4, <1>5 DEF SumFunction
<1>7. ASSUME CommandsBounded PROVE Commands(Latencies) \in Nat /\ Cardinality(inStats) \in Nat
  <2>1. recorded \in [Latencies -> Nat]
    BY <1>7 DEF CommandsBounded
  <2>2. \A x \in Latencies : recorded[x] \in Nat
    BY <2>1
  <2>3. SumFunctionOnSet(recorded, Latencies) \in Nat
    BY <2>2, LatenciesFinite, SumOfNaturals
  <2>4. Cardinality(inStats) \in Nat
    BY <1>7, FS_CardinalityType DEF CommandsBounded
  <2> QED
    BY <2>3, <2>4 DEF Commands
<1> QED
  BY <1>1, <1>6, <1>7

\* A call counts a name once.
LEMMA AddedOnCall ==
    ASSUME IInv, AddedBounded,
           \/ added' = added /\ calls' \in {calls, calls + 1}
           \/ calls' = calls + 1 /\ \E names : Count(names)
    PROVE  AddedBounded'
<1>0. calls \in Nat /\ calls' \in Nat /\ added \in [Totals -> Nat]
  BY SumsTyped DEF IInv, Programs
<1>1. ASSUME NEW n \in Totals PROVE added'[n] <= calls'
  <2>1. added[n] \in Nat /\ added[n] <= calls
    BY <1>0 DEF AddedBounded
  <2>2. CASE added' = added /\ calls' \in {calls, calls + 1}
    BY <1>0, <2>1, <2>2
  <2>3. CASE calls' = calls + 1 /\ \E names : Count(names)
    <3>1. added'[n] \in {added[n], added[n] + 1}
      BY <2>3 DEF Count
    <3> QED
      BY <1>0, <2>1, <2>3, <3>1
  <2> QED
    BY <2>2, <2>3
<1> QED
  BY <1>1 DEF AddedBounded

\* A call that neither begins nor records a command.
LEMMA CommandsOnOther ==
    ASSUME IInv, CommandsBounded, UNCHANGED <<recorded, inStats>>, calls' \in {calls, calls + 1}
    PROVE  CommandsBounded'
<1>1. PICK a : a = Commands(Latencies)
  OBVIOUS
<1>2. a = Commands(Latencies)' /\ Cardinality(inStats)' = Cardinality(inStats)
  BY <1>1 DEF Commands
<1>3. a \in Nat /\ Cardinality(inStats) \in Nat /\ calls \in Nat
  BY <1>1, SumsTyped
<1>4. a + Cardinality(inStats) <= calls
  BY <1>1 DEF CommandsBounded
<1>5. a + Cardinality(inStats) <= calls'
  BY <1>3, <1>4
<1>6. IsFiniteSet(inStats)' /\ recorded' \in [Latencies -> Nat]
  BY DEF CommandsBounded
<1>7. (Commands(Latencies) + Cardinality(inStats) <= calls)'
  BY <1>2, <1>5
<1> QED
  BY <1>6, <1>7 DEF CommandsBounded

\* A call that records a command it has not begun before.
LEMMA CommandsOnRecording ==
    ASSUME IInv, CommandsBounded, NEW d \in Latencies, Record(d),
           \/ inStats' = inStats /\ calls' = calls + 1
           \/ calls' = calls /\ \E t \in inStats : inStats' = inStats \ {t}
    PROVE  CommandsBounded'
<1>1. PICK a : a = Commands(Latencies)
  OBVIOUS
<1>2. PICK b : b = Commands(Latencies)'
  OBVIOUS
<1>3. PICK c : c = Cardinality(inStats)
  OBVIOUS
<1>4. recorded \in [Latencies -> Nat] /\ IsFiniteSet(inStats) /\ a + c <= calls
  BY <1>1, <1>3 DEF CommandsBounded
<1>5. a \in Nat /\ c \in Nat /\ calls \in Nat
  BY <1>1, <1>3, SumsTyped
<1>6. b = a + 1
  <2>1. Latencies \in SUBSET Latencies
    OBVIOUS
  <2>2. Commands(Latencies)' = Commands(Latencies) + (IF d \in Latencies THEN 1 ELSE 0)
    BY <1>4, <2>1, CommandsOnRecord
  <2> QED
    BY <1>1, <1>2, <1>5, <2>2
<1>7. recorded' \in [Latencies -> Nat]
  BY <1>4 DEF Record
<1>8. CASE inStats' = inStats /\ calls' = calls + 1
  <2>1. Cardinality(inStats)' = c /\ IsFiniteSet(inStats)'
    BY <1>3, <1>4, <1>8
  <2>2. b + c <= calls'
    BY <1>4, <1>5, <1>6, <1>8
  <2> QED
    BY <1>2, <1>7, <2>1, <2>2 DEF CommandsBounded
<1>9. CASE calls' = calls /\ \E t \in inStats : inStats' = inStats \ {t}
  <2>1. PICK t \in inStats : inStats' = inStats \ {t}
    BY <1>9
  <2>2. IsFiniteSet(inStats \ {t}) /\ Cardinality(inStats \ {t}) = c - 1
    BY <1>3, <1>4, FS_RemoveElement
  <2>3. Cardinality(inStats)' = c - 1 /\ IsFiniteSet(inStats)'
    BY <2>1, <2>2
  <2>4. b + (c - 1) <= calls'
    BY <1>4, <1>5, <1>6, <1>9
  <2> QED
    BY <1>2, <1>7, <2>3, <2>4 DEF CommandsBounded
<1> QED
  BY <1>8, <1>9

\* A call that leaves the connections alone.
LEMMA OwnedOnOther ==
    ASSUME IInv, OwnedBounded, UNCHANGED <<m_clients, dropped>>, calls' \in {calls, calls + 1}
    PROVE  OwnedBounded'
<1>1. PICK a : a = SumFunction(Owned)
  OBVIOUS
<1>2. a = SumFunction(Owned)'
  BY <1>1 DEF Owned
<1>3. a \in Nat /\ calls \in Nat /\ dropped \in Nat /\ dropped + a <= calls
  BY <1>1, SumsTyped DEF OwnedBounded
<1>4. dropped' + a <= calls' /\ dropped' \in Nat
  BY <1>3
<1> QED
  BY <1>2, <1>4 DEF OwnedBounded

\* When nothing is issued and nothing takes effect, a location comes to the same.
LEMMA LedgerUnchanged ==
    ASSUME UNCHANGED <<memory, program>>, NEW l, NEW n, Ledger(l, n)
    PROVE  Ledger(l, n)'
BY DEF Ledger

\* A step that neither counts nor records nor moves a connection.
LEMMA BooksOnOther ==
    ASSUME IInv, Books, \A l \in Locations \ Maxima : \A n : Ledger(l, n) => Ledger(l, n)',
           UNCHANGED <<added, recorded, inStats, m_clients, dropped>>,
           calls' \in {calls, calls + 1}
    PROVE  Books'
<1>1. TotalsKept'
  <2>1. ASSUME NEW n \in Totals PROVE Ledger(Loc(n), added[n])'
    <3>1. PICK a : a = added[n]
      OBVIOUS
    <3>2. Ledger(Loc(n), a)'
      BY <3>1, LocationsDiffer DEF Books, TotalsKept
    <3> QED
      BY <3>1, <3>2
  <2> QED
    BY <2>1 DEF TotalsKept
<1>2. LatenciesKept'
  <2>1. ASSUME NEW l \in LatencyLocations, NEW n, Ledger(l, n) PROVE Ledger(l, n)'
    BY <2>1, LocationsDiffer
  <2>2. PICK a : a = Commands(Latencies)
    OBVIOUS
  <2>3. PICK b : b = SumFunction(Spent)
    OBVIOUS
  <2>4. Ledger(Loc("commandLatencyCount"), a)'
    BY <2>1, <2>2 DEF Books, LatenciesKept, LatencyLocations
  <2>5. Ledger(Loc("commandLatencyTotal"), b)'
    BY <2>1, <2>3 DEF Books, LatenciesKept, LatencyLocations
  <2>6. ASSUME NEW i \in Buckets PROVE Ledger(Bucket(i), Commands(InBucket(i)))'
    <3>1. PICK c : c = Commands(InBucket(i))
      OBVIOUS
    <3>2. Ledger(Bucket(i), c)'
      BY <2>1, <3>1 DEF Books, LatenciesKept, LatencyLocations
    <3>3. c = Commands(InBucket(i))'
      BY <3>1 DEF Commands, InBucket
    <3> QED
      BY <3>2, <3>3
  <2>7. a = Commands(Latencies)' /\ b = SumFunction(Spent)'
    BY <2>2, <2>3 DEF Commands, Spent
  <2> QED
    BY <2>4, <2>5, <2>6, <2>7 DEF LatenciesKept
<1>3. ActiveKept'
  <2>1. PICK a : a = dropped + SumFunction(Owned)
    OBVIOUS
  <2>2. a = (dropped + SumFunction(Owned))'
    BY <2>1 DEF Owned
  <2>3. Ledger(Active, a)'
    BY <2>1, LocationsDiffer DEF Books, ActiveKept
  <2> QED
    BY <2>2, <2>3 DEF ActiveKept
<1>4. CountsBounded'
  BY AddedOnCall, CommandsOnOther, OwnedOnOther DEF Books, CountsBounded
<1> QED
  BY <1>1, <1>2, <1>3, <1>4 DEF Books

\* A call that counts names and leaves the gauge alone.
LEMMA CountingCall ==
    ASSUME IInv, Books, NEW t \in Reactors, NEW q \in Seq(Ops), Issue(t, q), memory' = memory,
           UNCHANGED <<m_clients, dropped>>, NEW names, Count(names),
           calls' = calls + 1 \/ (calls' = calls /\ added' = added),
           \A n \in Totals : Weighs(q, Loc(n), IF n \in names THEN 1 ELSE 0),
           Weighs(q, Active, 0)
    PROVE  TotalsKept' /\ ActiveKept' /\ AddedBounded' /\ OwnedBounded'
<1>1. TotalsKept'
  BY TotalsOnCall DEF Books
<1>2. ActiveKept'
  BY ActiveOnOther DEF Books
<1>3. AddedBounded'
  BY AddedOnCall DEF Books, CountsBounded
<1>4. OwnedBounded'
  BY OwnedOnOther DEF Books, CountsBounded
<1> QED
  BY <1>1, <1>2, <1>3, <1>4

\* Counting nothing.
LEMMA CountNothing ==
    ASSUME IInv, added' = added PROVE Count({})
<1>1. added \in [Totals -> Nat]
  BY DEF IInv, Programs
<1>2. added = [n \in Totals |-> added[n]]
  BY <1>1
<1>3. [n \in Totals |-> IF n \in {} THEN added[n] + 1 ELSE added[n]] = [n \in Totals |-> added[n]]
  OBVIOUS
<1> QED
  BY <1>2, <1>3 DEF Count

\* A plain counter, or commandsProcessed at the begin of STATS.
LEMMA PlainKeepsBooks ==
    ASSUME IInv, Books, NEW t \in Reactors, NEW n \in Totals, Count({n}),
           Issue(t, <<FetchAdd(Loc(n), 1)>>), UNCHANGED <<memory, m_clients, dropped, recorded>>,
           calls' = calls + 1
    PROVE  /\ TotalsKept' /\ ActiveKept' /\ AddedBounded' /\ OwnedBounded' /\ LatenciesKept'
<1>1. PICK q : q = <<FetchAdd(Loc(n), 1)>>
  OBVIOUS
<1>2. /\ q \in Seq(Ops)
      /\ \A m \in Totals : Weighs(q, Loc(m), IF m = n THEN 1 ELSE 0)
      /\ \A l \in LatencyLocations \cup {Active} : Weighs(q, l, 0)
  BY <1>1, WeighsCount
<1>3. Issue(t, q)
  BY <1>1
<1>4. \A m \in Totals : Weighs(q, Loc(m), IF m \in {n} THEN 1 ELSE 0)
  <2> TAKE m \in Totals
  <2>1. m \in {n} <=> m = n
    OBVIOUS
  <2> QED
    BY <1>2, <2>1
<1>5. TotalsKept' /\ ActiveKept' /\ AddedBounded' /\ OwnedBounded'
  BY <1>2, <1>3, <1>4, CountingCall
<1>6. LatenciesKept'
  BY <1>2, <1>3, LatenciesOnOther DEF Books
<1> QED
  BY <1>5, <1>6

\* AddPlain.
LEMMA AddPlainKeepsBooks ==
    ASSUME IInv, Books, NEW t \in Reactors, NEW n \in PlainCounters, AddPlain(t, n)
    PROVE  Books'
<1>1. /\ n \in Totals /\ Count({n}) /\ Issue(t, <<FetchAdd(Loc(n), 1)>>) /\ calls' = calls + 1
      /\ UNCHANGED <<memory, m_clients, dropped, recorded, inStats>>
  BY DEF AddPlain, Calls, Totals
<1>2. TotalsKept' /\ ActiveKept' /\ AddedBounded' /\ OwnedBounded' /\ LatenciesKept'
  BY <1>1, PlainKeepsBooks
<1>3. CommandsBounded'
  BY <1>1, CommandsOnOther DEF Books, CountsBounded
<1> QED
  BY <1>2, <1>3 DEF Books, CountsBounded

\* StatsBegins.
LEMMA StatsBeginsKeepsBooks ==
    ASSUME IInv, Books, NEW t \in Reactors, StatsBegins(t)
    PROVE  Books'
<1>1. /\ "commandsProcessed" \in Totals /\ Count({"commandsProcessed"})
      /\ Issue(t, <<FetchAdd(Loc("commandsProcessed"), 1)>>) /\ calls' = calls + 1
      /\ UNCHANGED <<memory, m_clients, dropped, recorded>>
      /\ t \notin inStats /\ inStats' = inStats \cup {t}
  BY DEF StatsBegins, Calls, Totals
<1>2. TotalsKept' /\ ActiveKept' /\ AddedBounded' /\ OwnedBounded' /\ LatenciesKept'
  BY <1>1, PlainKeepsBooks
<1>3. CommandsBounded'
  <2>0. CommandsBounded
    BY DEF Books, CountsBounded
  <2>1. PICK a : a = Commands(Latencies)
    OBVIOUS
  <2>2. a = Commands(Latencies)'
    BY <1>1, <2>1 DEF Commands
  <2>3. PICK c : c = Cardinality(inStats)
    OBVIOUS
  <2>4. a \in Nat /\ c \in Nat /\ calls \in Nat
    BY <2>0, <2>1, <2>3, SumsTyped
  <2>5. a + c <= calls /\ IsFiniteSet(inStats) /\ recorded \in [Latencies -> Nat]
    BY <2>0, <2>1, <2>3 DEF CommandsBounded
  <2>6. IsFiniteSet(inStats \cup {t}) /\ Cardinality(inStats \cup {t}) = c + 1
    BY <1>1, <2>3, <2>5, FS_AddElement
  <2>7. IsFiniteSet(inStats)' /\ Cardinality(inStats)' = c + 1
    BY <1>1, <2>6
  <2>8. a + (c + 1) <= calls'
    BY <1>1, <2>4, <2>5
  <2> QED
    BY <1>1, <2>2, <2>5, <2>7, <2>8 DEF CommandsBounded
<1> QED
  BY <1>2, <1>3 DEF Books, CountsBounded

\* The record of a latency adds nothing to the other locations.
LEMMA RecordElsewhere ==
    ASSUME NEW d \in Latencies, NEW l \in Locations \ Maxima, l \notin LatencyLocations
    PROVE  Weighs(RecordCommandLatency(d), l, 0)
<1>1. BucketIndex(d) \in Buckets
  BY BucketOfLatency
<1>2. RecordWeight(d, l) = 0
  BY <1>1 DEF RecordWeight, LatencyLocations
<1> QED
  BY <1>2, WeighsRecord

\* The operations that ProcessPayload issues before the record of the latency.
LEMMA WeighsCommand ==
    ASSUME NEW unknown \in BOOLEAN, NEW names,
           names = {"commandsProcessed"} \cup (IF unknown THEN {"commandErrors"} ELSE {}),
           NEW q, q = <<FetchAdd(Loc("commandsProcessed"), 1)>>
                      \o (IF unknown THEN <<FetchAdd(Loc("commandErrors"), 1)>> ELSE <<>>)
    PROVE  /\ q \in Seq(Ops)
           /\ \A m \in Totals : Weighs(q, Loc(m), IF m \in names THEN 1 ELSE 0)
           /\ \A l \in LatencyLocations \cup {Active} : Weighs(q, l, 0)
<1>1. PICK a : a = <<FetchAdd(Loc("commandsProcessed"), 1)>>
  OBVIOUS
<1>2. PICK b : b = IF unknown THEN <<FetchAdd(Loc("commandErrors"), 1)>> ELSE <<>>
  OBVIOUS
<1>3. /\ a \in Seq(Ops)
      /\ \A m \in Totals : Weighs(a, Loc(m), IF m = "commandsProcessed" THEN 1 ELSE 0)
      /\ \A l \in LatencyLocations \cup {Active} : Weighs(a, l, 0)
  BY <1>1, WeighsCount DEF Totals
<1>4. /\ b \in Seq(Ops)
      /\ \A m \in Totals : Weighs(b, Loc(m), IF unknown /\ m = "commandErrors" THEN 1 ELSE 0)
      /\ \A l \in LatencyLocations \cup {Active} : Weighs(b, l, 0)
  <2>1. CASE unknown
    <3>1. b = <<FetchAdd(Loc("commandErrors"), 1)>> /\ "commandErrors" \in Totals
      BY <1>2, <2>1 DEF Totals
    <3>2. /\ b \in Seq(Ops)
          /\ \A m \in Totals : Weighs(b, Loc(m), IF m = "commandErrors" THEN 1 ELSE 0)
          /\ \A l \in LatencyLocations \cup {Active} : Weighs(b, l, 0)
      BY <3>1, WeighsCount
    <3> QED
      BY <2>1, <3>2
  <2>2. CASE ~unknown
    <3>1. b \in Seq(Ops) /\ Len(b) = 0
      BY <1>2, <2>2
    <3>2. \A l : Weighs(b, l, 0)
      BY <3>1, WeighsNothing
    <3> QED
      BY <2>2, <3>1, <3>2
  <2> QED
    BY <2>1, <2>2
<1>5. q = a \o b /\ q \in Seq(Ops)
  BY <1>1, <1>2, <1>3, <1>4
<1>6. ASSUME NEW m \in Totals PROVE Weighs(q, Loc(m), IF m \in names THEN 1 ELSE 0)
  <2>1. PICK x \in {0, 1} : x = IF m = "commandsProcessed" THEN 1 ELSE 0
    OBVIOUS
  <2>2. PICK y \in {0, 1} : y = IF unknown /\ m = "commandErrors" THEN 1 ELSE 0
    OBVIOUS
  <2>3. Weighs(a, Loc(m), x) /\ Weighs(b, Loc(m), y)
    BY <1>3, <1>4, <2>1, <2>2
  <2>4. Weighs(a \o b, Loc(m), x + y)
    BY <1>3, <1>4, <2>3, WeighsJoined
  <2>5. x + y = IF m \in names THEN 1 ELSE 0
    BY <2>1, <2>2
  <2> QED
    BY <1>5, <2>4, <2>5
<1>7. ASSUME NEW l \in LatencyLocations \cup {Active} PROVE Weighs(q, l, 0)
  <2>1. Weighs(a \o b, l, 0 + 0)
    BY <1>3, <1>4, WeighsJoined
  <2>2. 0 + 0 = 0
    OBVIOUS
  <2> QED
    BY <1>5, <2>1, <2>2
<1> QED
  BY <1>5, <1>6, <1>7

\* A call that counts names and records a latency.
LEMMA RecordingCall ==
    ASSUME IInv, Books, NEW t \in Reactors, NEW p \in Seq(Ops), NEW d \in Latencies,
           Issue(t, p \o RecordCommandLatency(d)), Record(d),
           UNCHANGED <<memory, m_clients, dropped>>, NEW names, Count(names),
           \A n \in Totals : Weighs(p, Loc(n), IF n \in names THEN 1 ELSE 0),
           \A l \in LatencyLocations \cup {Active} : Weighs(p, l, 0),
           \/ inStats' = inStats /\ calls' = calls + 1
           \/ calls' = calls /\ added' = added /\ \E u \in inStats : inStats' = inStats \ {u}
    PROVE  Books'
<1>1. PICK c \in Seq(Ops) : c = RecordCommandLatency(d)
  BY LatencyOperations
<1>2. PICK q \in Seq(Ops) : q = p \o c
  <2>1. p \o c \in Seq(Ops)
    OBVIOUS
  <2> QED
    BY <2>1
<1>3. Issue(t, q)
  BY <1>1, <1>2
<1>4. ASSUME NEW n \in Totals PROVE Weighs(q, Loc(n), IF n \in names THEN 1 ELSE 0)
  <2>1. PICK x \in {0, 1} : x = IF n \in names THEN 1 ELSE 0
    OBVIOUS
  <2>2. Weighs(p, Loc(n), x)
    BY <2>1
  <2>3. Weighs(c, Loc(n), 0)
    BY <1>1, LocationsDiffer, RecordElsewhere
  <2>4. Weighs(p \o c, Loc(n), x + 0)
    BY <2>2, <2>3, WeighsJoined
  <2>5. x + 0 = x
    OBVIOUS
  <2> QED
    BY <1>2, <2>1, <2>4, <2>5
<1>5. Weighs(q, Active, 0)
  <2>1. Weighs(c, Active, 0) /\ Weighs(p, Active, 0)
    BY <1>1, LocationsDiffer, RecordElsewhere
  <2>2. Weighs(p \o c, Active, 0 + 0)
    BY <2>1, WeighsJoined
  <2>3. 0 + 0 = 0
    OBVIOUS
  <2> QED
    BY <1>2, <2>2, <2>3
<1>6. ASSUME NEW l \in LatencyLocations PROVE Weighs(q, l, RecordWeight(d, l))
  <2>1. PICK w \in Int : w = RecordWeight(d, l)
    <3>1. RecordWeight(d, l) \in Int
      BY LatenciesFinite DEF RecordWeight
    <3> QED
      BY <3>1
  <2>2. Weighs(c, l, w) /\ Weighs(p, l, 0)
    BY <1>1, <2>1, LocationsDiffer, WeighsRecord
  <2>3. Weighs(p \o c, l, 0 + w)
    BY <2>2, WeighsJoined
  <2>4. 0 + w = w
    OBVIOUS
  <2> QED
    BY <1>2, <2>1, <2>3, <2>4
<1>7. TotalsKept' /\ ActiveKept' /\ AddedBounded' /\ OwnedBounded'
  BY <1>3, <1>4, <1>5, CountingCall
<1>8. LatenciesKept /\ CommandsBounded /\ recorded \in [Latencies -> Nat]
  BY DEF Books, CountsBounded, CommandsBounded
<1>9. LatenciesKept'
  BY <1>3, <1>6, <1>8, LatenciesOnRecord
<1>10. CommandsBounded'
  BY <1>8, CommandsOnRecording
<1> QED
  BY <1>7, <1>9, <1>10 DEF Books, CountsBounded

\* ProcessPayload.
LEMMA CommandKeepsBooks ==
    ASSUME IInv, Books, NEW t \in Reactors, NEW unknown \in BOOLEAN, NEW d \in Latencies,
           ProcessPayload(t, unknown, d)
    PROVE  Books'
<1>1. PICK p : p = <<FetchAdd(Loc("commandsProcessed"), 1)>>
                   \o (IF unknown THEN <<FetchAdd(Loc("commandErrors"), 1)>> ELSE <<>>)
  OBVIOUS
<1>2. PICK names : names = {"commandsProcessed"} \cup (IF unknown THEN {"commandErrors"} ELSE {})
  OBVIOUS
<1>3. /\ p \in Seq(Ops)
      /\ \A m \in Totals : Weighs(p, Loc(m), IF m \in names THEN 1 ELSE 0)
      /\ \A l \in LatencyLocations \cup {Active} : Weighs(p, l, 0)
  BY <1>1, <1>2, WeighsCommand
<1>4. /\ Issue(t, p \o RecordCommandLatency(d)) /\ Record(d) /\ Count(names)
      /\ calls' = calls + 1 /\ UNCHANGED <<memory, m_clients, dropped, inStats>>
  BY <1>1, <1>2 DEF ProcessPayload, Calls
<1> QED
  BY <1>3, <1>4, RecordingCall

\* StatsEnds.
LEMMA StatsEndsKeepsBooks ==
    ASSUME IInv, Books, NEW t \in Reactors, NEW d \in Latencies, StatsEnds(t, d)
    PROVE  Books'
<1>1. PICK p \in Seq(Ops) : p = <<>> /\ Len(p) = 0
  <2>1. <<>> \in Seq(Ops) /\ Len(<<>>) = 0
    OBVIOUS
  <2> QED
    BY <2>1
<1>2. PICK c \in Seq(Ops) : c = RecordCommandLatency(d)
  BY LatencyOperations
<1>3. p \o c = c
  BY <1>1
<1>4. /\ Issue(t, c) /\ Record(d) /\ UNCHANGED <<memory, m_clients, dropped, calls, added>>
      /\ t \in inStats /\ inStats' = inStats \ {t}
  BY <1>2 DEF StatsEnds, Loaded
<1>5. Issue(t, p \o RecordCommandLatency(d))
  BY <1>2, <1>3, <1>4
<1>6. \A l : Weighs(p, l, 0)
  BY <1>1, WeighsNothing
<1>7. Count({})
  BY <1>4, CountNothing
<1>8. \A n \in Totals : Weighs(p, Loc(n), IF n \in {} THEN 1 ELSE 0)
  BY <1>6
<1>9. \A l \in LatencyLocations \cup {Active} : Weighs(p, l, 0)
  BY <1>6
<1>10. calls' = calls /\ added' = added /\ \E u \in inStats : inStats' = inStats \ {u}
  BY <1>4
<1> QED
  BY <1>4, <1>5, <1>7, <1>8, <1>9, <1>10, RecordingCall

\* ObservePendingWriteBytes.
LEMMA ObserveKeepsBooks ==
    ASSUME IInv, Books, NEW t \in Reactors, NEW b \in Sizes, ObservePendingWriteBytes(t, b)
    PROVE  Books'
<1>1. PICK o \in Ops : o = UpdateMaximum(Loc("maximumPendingWriteBytes"), b)
  BY OperationsKnown DEF Maxima
<1>2. PICK q \in Seq(Ops) : q = <<o>>
  <2>1. <<o>> \in Seq(Ops)
    OBVIOUS
  <2> QED
    BY <2>1
<1>3. /\ Issue(t, q) /\ UNCHANGED <<memory, added, recorded, inStats, m_clients, dropped>>
      /\ calls' = calls + 1
  BY <1>1, <1>2 DEF ObservePendingWriteBytes, Calls
<1>4. ASSUME NEW l \in Locations \ Maxima PROVE Weighs(q, l, 0)
  <2>1. Weighs(<<o>>, l, Weight(o, l))
    BY WeighsOne
  <2>2. Weight(o, l) = 0
    BY <1>1, WeightKnown DEF Maxima
  <2> QED
    BY <1>2, <2>1, <2>2
<1>5. \A l \in Locations \ Maxima : \A n : Ledger(l, n) => Ledger(l, n)'
  BY <1>3, <1>4, LedgerOnOther
<1> QED
  BY <1>3, <1>5, BooksOnOther

\* AddClientInLoop.
LEMMA AcceptKeepsBooks ==
    ASSUME IInv, Books, NEW t \in Reactors, NEW registered \in BOOLEAN, AddClientInLoop(t, registered)
    PROVE  Books'
<1>1. calls' = calls + 1 /\ m_clients[t] >= 0
      /\ UNCHANGED <<memory, inStats, recorded, dropped>>
  BY DEF AddClientInLoop, Calls
<1>2. CASE ~registered
  <2>1. UNCHANGED <<m_clients, program, added>>
    BY <1>2 DEF AddClientInLoop
  <2>2. \A l \in Locations \ Maxima : \A n : Ledger(l, n) => Ledger(l, n)'
    BY <1>1, <2>1, LedgerUnchanged
  <2> QED
    BY <1>1, <2>1, <2>2, BooksOnOther
<1>3. CASE registered
  <2>1. PICK a \in Ops : a = FetchAdd(Loc("acceptedConnections"), 1)
    BY WeighsCount DEF Totals
  <2>2. PICK b \in Ops : b = FetchAdd(Active, 1)
    BY OperationsKnown
  <2>3. PICK q : q = <<a, b>>
    OBVIOUS
  <2>4. /\ Issue(t, q) /\ Count({"acceptedConnections"})
        /\ m_clients' = [m_clients EXCEPT ![t] = m_clients[t] + 1]
    BY <1>3, <2>1, <2>2, <2>3 DEF AddClientInLoop, OnConnectionAccepted, Active
  <2>5. ASSUME NEW l PROVE /\ q \in Seq(Ops)
                           /\ Weighs(q, l, (IF Loc("acceptedConnections") = l THEN 1 ELSE 0)
                                           + (IF Active = l THEN 1 ELSE 0))
    <3>1. <<a, b>> \in Seq(Ops) /\ Weighs(<<a, b>>, l, Weight(a, l) + Weight(b, l))
      BY WeighsTwo
    <3>2. /\ Weight(a, l) = IF Loc("acceptedConnections") = l THEN 1 ELSE 0
          /\ Weight(b, l) = IF Active = l THEN 1 ELSE 0
      BY <2>1, <2>2, WeightKnown
    <3> QED
      BY <2>3, <3>1, <3>2
  <2>6. q \in Seq(Ops)
    BY <2>5
  <2>7. ASSUME NEW n \in Totals PROVE Weighs(q, Loc(n), IF n \in {"acceptedConnections"} THEN 1 ELSE 0)
    <3>1. Loc(n) # Active /\ (Loc("acceptedConnections") = Loc(n) <=> n \in {"acceptedConnections"})
      BY LocationsDiffer
    <3>2. (IF Loc("acceptedConnections") = Loc(n) THEN 1 ELSE 0) + (IF Active = Loc(n) THEN 1 ELSE 0)
             = IF n \in {"acceptedConnections"} THEN 1 ELSE 0
      BY <3>1
    <3> QED
      BY <2>5, <3>2
  <2>8. ASSUME NEW l \in LatencyLocations PROVE Weighs(q, l, 0)
    <3>1. Loc("acceptedConnections") # l /\ Active # l
      BY LocationsDiffer DEF Totals
    <3>2. (IF Loc("acceptedConnections") = l THEN 1 ELSE 0) + (IF Active = l THEN 1 ELSE 0) = 0
      BY <3>1
    <3> QED
      BY <2>5, <3>2
  <2>9. Weighs(q, Active, 1)
    <3>1. Loc("acceptedConnections") # Active
      BY LocationsDiffer DEF Totals
    <3>2. (IF Loc("acceptedConnections") = Active THEN 1 ELSE 0) + (IF Active = Active THEN 1 ELSE 0) = 1
      BY <3>1
    <3> QED
      BY <2>5, <3>2
  <2>10. TotalsKept'
    BY <1>1, <2>4, <2>6, <2>7, TotalsOnCall DEF Books
  <2>11. LatenciesKept'
    BY <1>1, <2>4, <2>6, <2>8, LatenciesOnOther DEF Books
  <2>12. m_clients \in [Reactors -> Int]
    BY MetricsAssumption DEF IInv, TypeOK
  <2>13. PICK s : s = SumFunction(Owned)
    OBVIOUS
  <2>14. s \in Nat /\ SumFunction(Owned)' = s + 1
    <3>1. PICK m \in Int : m = m_clients[t] + 1
      BY <2>12
    <3>2. /\ SumFunction(Owned) \in Nat
          /\ SumFunction(Owned)' = SumFunction(Owned) + ((IF m > 0 THEN m ELSE 0)
                                       - (IF m_clients[t] > 0 THEN m_clients[t] ELSE 0))
      BY <2>4, <2>12, <3>1, OwnedOnChange
    <3>3. m_clients[t] \in Int
      BY <2>12
    <3>4. (IF m > 0 THEN m ELSE 0) - (IF m_clients[t] > 0 THEN m_clients[t] ELSE 0) = 1
      BY <1>1, <3>1, <3>3
    <3> QED
      BY <2>13, <3>2, <3>4
  <2>15. dropped \in Nat /\ dropped + s <= calls /\ calls \in Nat /\ Ledger(Active, dropped + s)
    BY <2>13, SumsTyped DEF Books, CountsBounded, OwnedBounded, ActiveKept
  <2>16. PICK x \in Nat : x = dropped + s
    BY <2>14, <2>15
  <2>17. PICK y \in Nat : y = x + 1
    OBVIOUS
  <2>18. y = (dropped + SumFunction(Owned))' /\ y <= calls'
    BY <1>1, <2>14, <2>15, <2>16, <2>17
  <2>19. Ledger(Active, y)'
    <3>1. Same(x + 1, y)
      BY <2>17, SameRules
    <3>2. Active \in Locations /\ Ledger(Active, x)
      BY <2>15, <2>16, LocationsDiffer
    <3> QED
      BY <1>1, <2>4, <2>6, <2>9, <3>1, <3>2, LedgerOnCall
  <2>20. ActiveKept' /\ OwnedBounded'
    BY <1>1, <2>15, <2>18, <2>19 DEF ActiveKept, OwnedBounded
  <2>21. AddedBounded' /\ CommandsBounded'
    BY <1>1, <2>4, AddedOnCall, CommandsOnOther DEF Books, CountsBounded
  <2> QED
    BY <2>10, <2>11, <2>20, <2>21 DEF Books, CountsBounded
<1> QED
  BY <1>2, <1>3

\* CleanupClosedConnections.
LEMMA CleanupKeepsBooks ==
    ASSUME IInv, Books, NEW t \in Reactors, CleanupClosedConnection(t)
    PROVE  Books'
<1>1. calls' = calls + 1 /\ m_clients[t] > 0
      /\ UNCHANGED <<memory, inStats, recorded, dropped>>
  BY DEF CleanupClosedConnection, Calls
<1>2. PICK v \in Int : v = Wrap - 1
  BY MetricsAssumption
<1>3. PICK a \in Ops : a = FetchAdd(Loc("closedConnections"), 1)
  BY WeighsCount DEF Totals
<1>4. PICK b \in Ops : b = FetchAdd(Active, v)
  BY <1>2, OperationsKnown
<1>5. PICK q : q = <<a, b>>
  OBVIOUS
<1>6. /\ Issue(t, q) /\ Count({"closedConnections"})
      /\ m_clients' = [m_clients EXCEPT ![t] = m_clients[t] - 1]
  BY <1>2, <1>3, <1>4, <1>5 DEF CleanupClosedConnection, OnConnectionClosed, Active
<1>7. ASSUME NEW l PROVE /\ q \in Seq(Ops)
                         /\ Weighs(q, l, (IF Loc("closedConnections") = l THEN 1 ELSE 0)
                                         + (IF Active = l THEN v ELSE 0))
  <2>1. <<a, b>> \in Seq(Ops) /\ Weighs(<<a, b>>, l, Weight(a, l) + Weight(b, l))
    BY WeighsTwo
  <2>2. /\ Weight(a, l) = IF Loc("closedConnections") = l THEN 1 ELSE 0
        /\ Weight(b, l) = IF Active = l THEN v ELSE 0
    BY <1>3, <1>4, WeightKnown
  <2> QED
    BY <1>5, <2>1, <2>2
<1>8. q \in Seq(Ops)
  BY <1>7
<1>9. ASSUME NEW n \in Totals PROVE Weighs(q, Loc(n), IF n \in {"closedConnections"} THEN 1 ELSE 0)
  <2>1. Loc(n) # Active /\ (Loc("closedConnections") = Loc(n) <=> n \in {"closedConnections"})
    BY LocationsDiffer
  <2>2. (IF Loc("closedConnections") = Loc(n) THEN 1 ELSE 0) + (IF Active = Loc(n) THEN v ELSE 0)
           = IF n \in {"closedConnections"} THEN 1 ELSE 0
    BY <2>1
  <2> QED
    BY <1>7, <2>2
<1>10. ASSUME NEW l \in LatencyLocations PROVE Weighs(q, l, 0)
  <2>1. Loc("closedConnections") # l /\ Active # l
    BY LocationsDiffer DEF Totals
  <2>2. (IF Loc("closedConnections") = l THEN 1 ELSE 0) + (IF Active = l THEN v ELSE 0) = 0
    BY <2>1
  <2> QED
    BY <1>7, <2>2
<1>11. Weighs(q, Active, v)
  <2>1. Loc("closedConnections") # Active
    BY LocationsDiffer DEF Totals
  <2>2. (IF Loc("closedConnections") = Active THEN 1 ELSE 0) + (IF Active = Active THEN v ELSE 0) = v
    BY <2>1
  <2> QED
    BY <1>7, <2>2
<1>12. TotalsKept'
  BY <1>1, <1>6, <1>8, <1>9, TotalsOnCall DEF Books
<1>13. LatenciesKept'
  BY <1>1, <1>6, <1>8, <1>10, LatenciesOnOther DEF Books
<1>14. m_clients \in [Reactors -> Int]
  BY MetricsAssumption DEF IInv, TypeOK
<1>15. PICK s : s = SumFunction(Owned)
  OBVIOUS
<1>16. s \in Nat /\ SumFunction(Owned)' = s - 1
  <2>1. PICK m \in Int : m = m_clients[t] - 1
    BY <1>14
  <2>2. /\ SumFunction(Owned) \in Nat
        /\ SumFunction(Owned)' = SumFunction(Owned) + ((IF m > 0 THEN m ELSE 0)
                                     - (IF m_clients[t] > 0 THEN m_clients[t] ELSE 0))
    BY <1>6, <1>14, <2>1, OwnedOnChange
  <2>3. m_clients[t] \in Int
    BY <1>14
  <2>4. (IF m > 0 THEN m ELSE 0) - (IF m_clients[t] > 0 THEN m_clients[t] ELSE 0) = -1
    BY <1>1, <2>1, <2>3
  <2> QED
    BY <1>15, <2>2, <2>4
<1>17. dropped \in Nat /\ dropped + s <= calls /\ calls \in Nat /\ Ledger(Active, dropped + s)
  BY <1>15, SumsTyped DEF Books, CountsBounded, OwnedBounded, ActiveKept
<1>18. PICK x \in Int : x = dropped + s
  BY <1>16, <1>17
<1>19. PICK y \in Int : y = x - 1
  OBVIOUS
<1>20. y = (dropped + SumFunction(Owned))' /\ y <= calls'
  BY <1>1, <1>16, <1>17, <1>18, <1>19
<1>21. Ledger(Active, y)'
  <2>1. Same(x + v, y)
    BY <1>2, <1>19, SameRules
  <2>2. Active \in Locations /\ Ledger(Active, x)
    BY <1>17, <1>18, LocationsDiffer
  <2> QED
    BY <1>1, <1>6, <1>8, <1>11, <2>1, <2>2, LedgerOnCall
<1>22. ActiveKept' /\ OwnedBounded'
  BY <1>1, <1>17, <1>20, <1>21 DEF ActiveKept, OwnedBounded
<1>23. AddedBounded' /\ CommandsBounded'
  BY <1>1, <1>6, AddedOnCall, CommandsOnOther DEF Books, CountsBounded
<1> QED
  BY <1>12, <1>13, <1>22, <1>23 DEF Books, CountsBounded

\* The catch blocks of Run.
LEMMA FailureKeepsBooks ==
    ASSUME IInv, Books, NEW t \in Reactors, ReactorFails(t)
    PROVE  Books'
<1>1. /\ calls' = calls + 1 /\ m_clients[t] >= 0
      /\ dropped' = dropped + m_clients[t] /\ m_clients' = [m_clients EXCEPT ![t] = -1]
      /\ UNCHANGED <<memory, program, inStats, recorded, added>>
  BY DEF ReactorFails, Calls
<1>2. m_clients \in [Reactors -> Int] /\ m_clients[t] \in Int
  BY MetricsAssumption DEF IInv, TypeOK
<1>3. PICK s : s = SumFunction(Owned)
  OBVIOUS
<1>4. s \in Nat /\ SumFunction(Owned)' = s - m_clients[t]
  <2>1. -1 \in Int
    OBVIOUS
  <2>2. PICK m \in Int : m = -1
    OBVIOUS
  <2>3. /\ SumFunction(Owned) \in Nat
        /\ SumFunction(Owned)' = SumFunction(Owned) + ((IF m > 0 THEN m ELSE 0)
                                     - (IF m_clients[t] > 0 THEN m_clients[t] ELSE 0))
    BY <1>1, <1>2, <2>2, OwnedOnChange
  <2>4. (IF m > 0 THEN m ELSE 0) - (IF m_clients[t] > 0 THEN m_clients[t] ELSE 0) = -m_clients[t]
    BY <1>1, <1>2, <2>2
  <2> QED
    BY <1>2, <1>3, <2>3, <2>4
<1>5. dropped \in Nat /\ dropped + s <= calls /\ calls \in Nat /\ Ledger(Active, dropped + s)
  BY <1>3, SumsTyped DEF Books, CountsBounded, OwnedBounded, ActiveKept
<1>6. PICK x \in Int : x = dropped + s
  BY <1>4, <1>5
<1>7. x = (dropped + SumFunction(Owned))' /\ x <= calls' /\ dropped' \in Nat
  BY <1>1, <1>2, <1>4, <1>5, <1>6
<1>8. Ledger(Active, x)'
  BY <1>1, <1>5, <1>6, LedgerUnchanged
<1>9. ActiveKept' /\ OwnedBounded'
  BY <1>7, <1>8 DEF ActiveKept, OwnedBounded
<1>10. AddedBounded' /\ CommandsBounded'
  BY <1>1, AddedOnCall, CommandsOnOther DEF Books, CountsBounded
<1>11. TotalsKept' /\ LatenciesKept'
  <2>1. ASSUME NEW n \in Totals PROVE Ledger(Loc(n), added[n])'
    <3>1. PICK a : a = added[n]
      OBVIOUS
    <3>2. Ledger(Loc(n), a)'
      BY <1>1, <3>1, LedgerUnchanged DEF Books, TotalsKept
    <3> QED
      BY <1>1, <3>1, <3>2
  <2>2. PICK q \in Seq(Ops) : q = <<>> /\ Len(q) = 0
    <3>1. <<>> \in Seq(Ops) /\ Len(<<>>) = 0
      OBVIOUS
    <3> QED
      BY <3>1
  <2>3. Issue(t, q)
    <3>1. program \in [Reactors -> Seq(Ops)]
      BY DEF IInv, Programs
    <3>2. program[t] \o q = program[t]
      BY <2>2, <3>1
    <3>3. program = [program EXCEPT ![t] = program[t] \o q]
      BY <3>1, <3>2
    <3> QED
      BY <1>1, <3>3 DEF Issue
  <2>4. \A l \in LatencyLocations : Weighs(q, l, 0)
    BY <2>2, WeighsNothing
  <2>5. LatenciesKept'
    BY <1>1, <2>3, <2>4, LatenciesOnOther DEF Books
  <2> QED
    BY <2>1, <2>5 DEF TotalsKept
<1> QED
  BY <1>9, <1>10, <1>11 DEF Books, CountsBounded

\* Every step keeps the books.
LEMMA NextBooks ==
    IInv /\ Books /\ [Next]_vars => Books'
<1> SUFFICES ASSUME IInv, Books, [Next]_vars PROVE Books'
  OBVIOUS
<1>1. ASSUME UNCHANGED <<memory, program, added, recorded, inStats, m_clients, dropped, calls>>
      PROVE  Books'
  <2>1. \A l \in Locations \ Maxima : \A n : Ledger(l, n) => Ledger(l, n)'
    BY <1>1, LedgerUnchanged
  <2> QED
    BY <1>1, <2>1, BooksOnOther
<1>2. CASE UNCHANGED vars
  BY <1>1, <1>2 DEF vars
<1>3. ASSUME NEW t \in Reactors, NEW r \in BOOLEAN, AddClientInLoop(t, r) PROVE Books'
  BY <1>3, AcceptKeepsBooks
<1>4. ASSUME NEW t \in Reactors, CleanupClosedConnection(t) PROVE Books'
  BY <1>4, CleanupKeepsBooks
<1>5. ASSUME NEW t \in Reactors, ReactorFails(t) PROVE Books'
  BY <1>5, FailureKeepsBooks
<1>6. ASSUME NEW t \in Reactors, NEW unknown \in BOOLEAN, NEW d \in Latencies,
             ProcessPayload(t, unknown, d)
      PROVE  Books'
  BY <1>6, CommandKeepsBooks
<1>7. ASSUME NEW t \in Reactors, StatsBegins(t) PROVE Books'
  BY <1>7, StatsBeginsKeepsBooks
<1>8. ASSUME NEW t \in Reactors, NEW l \in Combined, SnapshotLoads(t, l) PROVE Books'
  BY <1>1, <1>8 DEF SnapshotLoads
<1>9. ASSUME NEW t \in Reactors, NEW d \in Latencies, StatsEnds(t, d) PROVE Books'
  BY <1>9, StatsEndsKeepsBooks
<1>10. ASSUME NEW t \in Reactors, NEW b \in Sizes, ObservePendingWriteBytes(t, b) PROVE Books'
  BY <1>10, ObserveKeepsBooks
<1>11. ASSUME NEW t \in Reactors, NEW n \in PlainCounters, AddPlain(t, n) PROVE Books'
  BY <1>11, AddPlainKeepsBooks
<1>12. ASSUME NEW t \in Reactors, Perform(t) PROVE Books'
  <2>1. UNCHANGED <<added, recorded, inStats, m_clients, dropped, calls>>
    BY <1>12 DEF Perform, TakeEffect
  <2>2. \A l \in Locations \ Maxima : \A n : Ledger(l, n) => Ledger(l, n)'
    BY <1>12, LedgerOnEffect
  <2> QED
    BY <2>1, <2>2, BooksOnOther
<1> QED
  BY <1>2, <1>3, <1>4, <1>5, <1>6, <1>7, <1>8, <1>9, <1>10, <1>11, <1>12 DEF Next

\* At first nothing is counted and nothing in flight.
LEMMA InitBooks ==
    Init => Books
<1> SUFFICES ASSUME Init PROVE Books
  OBVIOUS
<1>0. IsFiniteSet(Reactors)
  BY MetricsAssumption
<1>1. ASSUME NEW l \in Locations PROVE Ledger(l, 0)
  <2>1. PICK z \in [Reactors -> Int] : \A t \in Reactors : z[t] = 0
    <3>1. [t \in Reactors |-> 0] \in [Reactors -> Int] /\ \A t \in Reactors : [u \in Reactors |-> 0][t] = 0
      OBVIOUS
    <3> QED
      BY <3>1
  <2>2. ASSUME NEW t \in Reactors PROVE Weighs(program[t], l, z[t])
    <3>1. Len(program[t]) = 0
      BY DEF Init
    <3>2. Weighs(program[t], l, 0)
      BY <3>1, WeighsNothing
    <3> QED
      BY <2>1, <3>2
  <2>3. SumFunctionOnSet(z, Reactors) = 0 /\ memory[l] = 0
    BY <1>0, <2>1, SumOfZeros DEF Init
  <2>4. Same(0, 0) /\ 0 + 0 = 0
    BY SameRules
  <2>5. Same(memory[l] + SumFunctionOnSet(z, Reactors), 0)
    BY <2>3, <2>4
  <2> QED
    BY <2>2, <2>5 DEF Ledger
<1>2. ASSUME NEW S \in SUBSET Latencies PROVE Commands(S) = 0
  <2>1. \A x \in S : recorded[x] = 0
    BY DEF Init
  <2> QED
    BY <2>1, LatenciesFinite, SumOfZeros DEF Commands
<1>3. SumFunction(Spent) = 0
  <2>1. PICK f : f = Spent
    OBVIOUS
  <2>2. DOMAIN f = Latencies
    BY <2>1 DEF Spent
  <2>3. ASSUME NEW d \in Latencies PROVE f[d] = 0
    <3>1. f[d] = d * recorded[d] /\ recorded[d] = 0 /\ d \in Nat
      BY <2>1, LatenciesFinite DEF Spent, Init
    <3> QED
      BY <3>1
  <2>4. SumFunctionOnSet(f, Latencies) = 0
    BY <2>3, LatenciesFinite, SumOfZeros
  <2> QED
    BY <2>1, <2>2, <2>4 DEF SumFunction
<1>4. SumFunction(Owned) = 0
  <2>1. PICK f : f = Owned
    OBVIOUS
  <2>2. DOMAIN f = Reactors
    BY <2>1 DEF Owned
  <2>3. ASSUME NEW t \in Reactors PROVE f[t] = 0
    <3>1. PICK m : m = m_clients[t]
      OBVIOUS
    <3>2. m = 0 /\ f[t] = Max({0, m})
      BY <2>1, <3>1 DEF Owned, Init
    <3>3. Max({0, m}) = IF m > 0 THEN m ELSE 0
      BY <3>2, OwnedTyped
    <3> QED
      BY <3>2, <3>3
  <2>4. SumFunctionOnSet(f, Reactors) = 0
    BY <1>0, <2>3, SumOfZeros
  <2> QED
    BY <2>1, <2>2, <2>4 DEF SumFunction
<1>5. TotalsKept
  BY <1>1, LocationsDiffer DEF TotalsKept, Init
<1>6. LatenciesKept
  <2>1. Commands(Latencies) = 0 /\ \A i \in Buckets : Commands(InBucket(i)) = 0
    <3>1. \A i \in Buckets : InBucket(i) \in SUBSET Latencies
      BY DEF InBucket
    <3> QED
      BY <1>2, <3>1
  <2>2. \A l \in LatencyLocations : Ledger(l, 0)
    BY <1>1, LocationsDiffer
  <2> QED
    BY <1>3, <2>1, <2>2 DEF LatenciesKept, LatencyLocations
<1>7. dropped = 0 /\ dropped + SumFunction(Owned) = 0
  BY <1>4 DEF Init
<1>8. ActiveKept
  BY <1>1, <1>7, LocationsDiffer DEF ActiveKept
<1>9. AddedBounded /\ OwnedBounded
  BY <1>7 DEF AddedBounded, OwnedBounded, Init
<1>10. CommandsBounded
  <2>1. Commands(Latencies) = 0 /\ inStats = {} /\ calls = 0 /\ recorded \in [Latencies -> Nat]
    BY <1>2 DEF Init
  <2>2. IsFiniteSet(inStats) /\ Cardinality(inStats) = 0
    BY <2>1, FS_EmptySet
  <2> QED
    BY <2>1, <2>2 DEF CommandsBounded
<1> QED
  BY <1>5, <1>6, <1>8, <1>9, <1>10 DEF Books, CountsBounded

-----------------------------------------------------------------------------
(* STATS on a quiet server *)

\* Once nothing is in flight a location is what it comes to, if that fits.
LEMMA QuietLocation ==
    ASSUME IInv, Quiet, NEW l \in Locations \ Maxima, NEW n \in Nat, n <= calls, Ledger(l, n)
    PROVE  memory[l] = n
<1>1. calls \in Nat /\ calls <= MaxCalls /\ MaxCalls \in Nat /\ MaxCalls < Wrap /\ Wrap \in Nat
  BY MetricsAssumption DEF IInv, TypeOK
<1>2. n \in 0 .. Wrap - 1
  BY <1>1
<1>3. memory[l] \in 0 .. Wrap - 1
  BY MemoryTyped
<1>4. Same(memory[l], n)
  BY LedgerQuiet
<1> QED
  BY <1>2, <1>3, <1>4, SameSmall

\* No more commands have a latency in a set than there were calls.
LEMMA CommandsWithin ==
    ASSUME IInv, CommandsBounded, NEW S \in SUBSET Latencies
    PROVE  Commands(S) \in Nat /\ Commands(S) <= calls
<1>1. recorded \in [Latencies -> Nat]
  BY DEF CommandsBounded
<1>2. IsFiniteSet(Latencies) /\ IsFiniteSet(S)
  BY LatenciesFinite
<1>3. (\A x \in Latencies : recorded[x] \in Nat) /\ (\A x \in S : recorded[x] \in Nat)
  BY <1>1
<1>4. SumFunctionOnSet(recorded, S) \in Nat
  BY <1>2, <1>3, SumOfNaturals
<1>5. SumFunctionOnSet(recorded, S) <= SumFunctionOnSet(recorded, Latencies)
  BY <1>2, <1>3, SumOfNaturals
<1>6. PICK a : a = Commands(Latencies)
  OBVIOUS
<1>7. PICK b : b = Commands(S)
  OBVIOUS
<1>8. a \in Nat /\ Cardinality(inStats) \in Nat /\ calls \in Nat /\ a + Cardinality(inStats) <= calls
  BY <1>6, SumsTyped DEF CommandsBounded
<1>9. b \in Nat /\ b <= a
  BY <1>4, <1>5, <1>6, <1>7 DEF Commands
<1>10. b <= calls
  BY <1>8, <1>9
<1> QED
  BY <1>7, <1>9, <1>10

\* The bounds increase: a latency is within a bound if its bucket is not later.
LEMMA BucketWithin ==
    ASSUME NEW d \in Latencies, NEW i \in DOMAIN Bounds
    PROVE  BucketIndex(d) \in 1 .. i <=> d <= Bounds[i]
<1>1. /\ Bounds \in Seq(Nat) /\ d \in Nat /\ i \in 1 .. Len(Bounds) /\ Len(Bounds) \in Nat
      /\ \A k \in 1 .. Len(Bounds) : Bounds[k] \in Nat
      /\ \A k, j \in 1 .. Len(Bounds) : k < j => Bounds[k] < Bounds[j]
  BY MetricsAssumption, LatenciesFinite
<1> DEFINE T == {j \in DOMAIN Bounds : d <= Bounds[j]} \cup {Len(Bounds) + 1}
<1>2. PICK m : m = BucketIndex(d)
  OBVIOUS
<1>3. m = CHOOSE x \in T : \A y \in T : x <= y
  BY <1>2 DEF BucketIndex, Min
<1>4. T \subseteq Nat /\ Len(Bounds) + 1 \in T
  BY <1>1
<1>5. \A j \in 1 .. Len(Bounds) : j \in T <=> d <= Bounds[j]
  BY <1>1
<1> HIDE DEF T
<1>6. \E x \in T : \A y \in T : x <= y
  <2>1. T \in SUBSET Nat /\ T # {}
    BY <1>4
  <2> QED
    BY <2>1, LeastNat
<1>7. m \in T /\ \A y \in T : m <= y
  BY <1>3, <1>6, Zenon
<1>8. m \in Nat /\ m \in 1 .. Len(Bounds) + 1
  BY <1>2, BucketOfLatency DEF Buckets
<1>9. ASSUME d <= Bounds[i] PROVE m \in 1 .. i
  <2>1. i \in T
    BY <1>1, <1>5, <1>9
  <2> QED
    BY <1>1, <1>7, <1>8, <2>1
<1>10. ASSUME m \in 1 .. i PROVE d <= Bounds[i]
  <2>1. m \in 1 .. Len(Bounds)
    BY <1>1, <1>10
  <2>2. d <= Bounds[m]
    BY <1>5, <1>7, <2>1
  <2>3. Bounds[m] <= Bounds[i]
    BY <1>1, <1>10, <2>1
  <2> QED
    BY <1>1, <2>1, <2>2, <2>3
<1> QED
  BY <1>2, <1>9, <1>10

\* What the buckets of a set hold is what the commands of these buckets are.
LEMMA BucketsSumUp ==
    ASSUME recorded \in [Latencies -> Nat], NEW K, IsFiniteSet(K), NEW f,
           \A k \in K : f[k] = Commands(InBucket(k))
    PROVE  SumFunctionOnSet(f, K) = Commands({d \in Latencies : BucketIndex(d) \in K})
<1> DEFINE Of(s) == {d \in Latencies : BucketIndex(d) \in s}
           X == {s \in SUBSET K : SumFunctionOnSet(f, s) = Commands(Of(s))}
<1>0. ASSUME NEW S \in SUBSET Latencies PROVE Commands(S) \in Nat
  <2>1. IsFiniteSet(S) /\ \A x \in S : recorded[x] \in Nat
    BY LatenciesFinite
  <2>2. SumFunctionOnSet(recorded, S) \in Nat
    BY <2>1, SumOfNaturals
  <2> QED
    BY <2>2 DEF Commands
<1>1. {} \in X
  <2>1. Of({}) = {}
    OBVIOUS
  <2>2. Commands({}) = 0 /\ SumFunctionOnSet(f, {}) = 0
    BY SumOfNothing DEF Commands
  <2>3. SumFunctionOnSet(f, {}) = Commands(Of({}))
    BY <2>1, <2>2, Zenon
  <2> QED
    BY <2>3
<1>2. ASSUME NEW s \in SUBSET K, NEW x \in K \ s, s \in X PROVE s \cup {x} \in X
  <2>1. IsFiniteSet(s)
    BY FS_Subset
  <2>2. \A k \in K : f[k] \in Int
    <3> TAKE k \in K
    <3>1. InBucket(k) \in SUBSET Latencies
      BY DEF InBucket
    <3>2. Commands(InBucket(k)) \in Nat
      BY <1>0, <3>1
    <3> QED
      BY <3>2
  <2>3. SumFunctionOnSet(f, s \cup {x}) = f[x] + SumFunctionOnSet(f, s)
    BY <2>1, <2>2, SumInsert
  <2>4. PICK R : R = InBucket(x)
    OBVIOUS
  <2>5. PICK S : S = Of(s)
    OBVIOUS
  <2>6. R \in SUBSET Latencies /\ S \in SUBSET Latencies /\ R \cap S = {} /\ Of(s \cup {x}) = R \cup S
    BY <2>4, <2>5 DEF InBucket
  <2>7. IsFiniteSet(R) /\ IsFiniteSet(S) /\ \A d \in R \cup S : recorded[d] \in Int
    BY <2>6, LatenciesFinite
  <2>8. SumFunctionOnSet(recorded, R \cup S) =
           SumFunctionOnSet(recorded, R) + SumFunctionOnSet(recorded, S)
    BY <2>6, <2>7, SumUnion
  <2>9. Commands(R \cup S) = Commands(R) + Commands(S)
    BY <2>8 DEF Commands
  <2>10. Commands(Of(s \cup {x})) = Commands(R) + Commands(S)
    BY <2>6, <2>9, Zenon
  <2>11. f[x] = Commands(R) /\ SumFunctionOnSet(f, s) = Commands(S)
    BY <1>2, <2>4, <2>5
  <2>12. SumFunctionOnSet(f, s \cup {x}) = Commands(Of(s \cup {x}))
    BY <2>3, <2>10, <2>11
  <2> QED
    BY <2>12
<1> HIDE DEF X
<1>3. K \in X
  BY <1>1, <1>2, SubsetInduction
<1> QED
  BY <1>3 DEF X

\* The latency figures and the totals.
LEMMA FiguresWhenQuiet ==
    ASSUME IInv, Books, Quiet
    PROVE  /\ CountOf(memory) = Commands(Latencies)
           /\ memory[Loc("commandLatencyTotal")] =
                  SumFunction([d \in Latencies |-> d * recorded[d]]) % Wrap
           /\ \A i \in DOMAIN Bounds :
                  UpTo(memory, i) = Commands({d \in Latencies : d <= Bounds[i]})
           /\ \A n \in Totals : memory[Loc(n)] = added[n]
<1>0. CommandsBounded /\ AddedBounded /\ LatenciesKept /\ TotalsKept
  BY DEF Books, CountsBounded
<1>1. CountOf(memory) = Commands(Latencies)
  <2>1. PICK a : a = Commands(Latencies)
    OBVIOUS
  <2>2. a \in Nat /\ a <= calls
    BY <1>0, <2>1, CommandsWithin
  <2>3. Loc("commandLatencyCount") \in Locations \ Maxima /\ Ledger(Loc("commandLatencyCount"), a)
    BY <1>0, <2>1, LocationsDiffer DEF LatencyLocations, LatenciesKept
  <2>4. memory[Loc("commandLatencyCount")] = a
    BY <2>2, <2>3, QuietLocation
  <2> QED
    BY <2>1, <2>4 DEF CountOf
<1>2. memory[Loc("commandLatencyTotal")] = SumFunction([d \in Latencies |-> d * recorded[d]]) % Wrap
  <2>1. PICK a : a = SumFunction(Spent)
    OBVIOUS
  <2>2. PICK l : l = Loc("commandLatencyTotal")
    OBVIOUS
  <2>3. l \in Locations /\ Ledger(l, a)
    BY <1>0, <2>1, <2>2, LocationsDiffer DEF LatencyLocations, LatenciesKept
  <2>4. Same(memory[l], a) /\ a \in Int
    BY <2>3, LedgerQuiet DEF Same
  <2>5. PICK b : b = a % Wrap
    OBVIOUS
  <2>6. Same(b, a)
    BY <2>4, <2>5, SameRules
  <2>7. Same(memory[l], b)
    BY <2>4, <2>6, SameRules
  <2>8. b \in 0 .. Wrap - 1
    BY <2>4, <2>5, MetricsAssumption
  <2>9. memory[l] \in 0 .. Wrap - 1
    BY <2>3, MemoryTyped
  <2>10. memory[l] = b
    BY <2>7, <2>8, <2>9, SameSmall
  <2> QED
    BY <2>1, <2>2, <2>5, <2>10 DEF Spent
<1>3. ASSUME NEW j \in Buckets PROVE memory[Bucket(j)] = Commands(InBucket(j))
  <2>1. PICK a : a = Commands(InBucket(j))
    OBVIOUS
  <2>2. InBucket(j) \in SUBSET Latencies
    BY DEF InBucket
  <2>3. a \in Nat /\ a <= calls
    BY <1>0, <2>1, <2>2, CommandsWithin
  <2>4. Bucket(j) \in Locations \ Maxima /\ Ledger(Bucket(j), a)
    BY <1>0, <2>1, LocationsDiffer DEF LatencyLocations, LatenciesKept
  <2> QED
    BY <2>1, <2>3, <2>4, QuietLocation
<1>4. ASSUME NEW i \in DOMAIN Bounds
      PROVE  UpTo(memory, i) = Commands({d \in Latencies : d <= Bounds[i]})
  <2>1. PICK f : f = [j \in 1 .. i |-> memory[Bucket(j)]]
    OBVIOUS
  <2>2. i \in Nat /\ 1 .. i \subseteq Buckets
    BY MetricsAssumption DEF Buckets
  <2>3. DOMAIN f = 1 .. i /\ \A j \in 1 .. i : f[j] = Commands(InBucket(j))
    BY <1>3, <2>1, <2>2
  <2>4. UpTo(memory, i) = SumFunctionOnSet(f, 1 .. i)
    BY <2>1, <2>3 DEF UpTo, SumFunction
  <2>5. IsFiniteSet(1 .. i)
    BY <2>2, FS_Interval
  <2>6. recorded \in [Latencies -> Nat]
    BY <1>0 DEF CommandsBounded
  <2>7. PICK K : K = 1 .. i
    OBVIOUS
  <2>8. SumFunctionOnSet(f, K) = Commands({d \in Latencies : BucketIndex(d) \in K})
    BY <2>3, <2>5, <2>6, <2>7, BucketsSumUp
  <2>9. {d \in Latencies : BucketIndex(d) \in K} = {d \in Latencies : d <= Bounds[i]}
    BY <2>7, BucketWithin
  <2> QED
    BY <2>4, <2>7, <2>8, <2>9, Zenon
<1>5. ASSUME NEW n \in Totals PROVE memory[Loc(n)] = added[n]
  <2>1. PICK a : a = added[n]
    OBVIOUS
  <2>2. a \in Nat /\ a <= calls
    BY <1>0, <2>1 DEF IInv, Programs, AddedBounded
  <2>3. Loc(n) \in Locations \ Maxima /\ Ledger(Loc(n), a)
    BY <1>0, <2>1, LocationsDiffer DEF TotalsKept
  <2> QED
    BY <2>1, <2>2, <2>3, QuietLocation
<1> QED
  BY <1>1, <1>2, <1>4, <1>5

\* EstimatePercentileBucketUs: the accumulated buckets reach the rank exactly when
\* they cover the share.
LEMMA PercentileWhenQuiet ==
    ASSUME IInv, Books, Quiet
    PROVE  PercentileExact
<1>1. PICK c : c = Commands(Latencies)
  OBVIOUS
<1>2. CountOf(memory) = c /\ c \in Nat
  <2>1. Latencies \in SUBSET Latencies /\ CommandsBounded
    BY DEF Books, CountsBounded
  <2> QED
    BY <1>1, <2>1, FiguresWhenQuiet, CommandsWithin
<1>3. PICK r : r = (c * Percent + 99) \div 100
  OBVIOUS
<1> DEFINE Within(i) == Commands({d \in Latencies : d <= Bounds[i]})
<1>4. ASSUME NEW i \in DOMAIN Bounds
      PROVE  UpTo(memory, i) >= r <=> 100 * Within(i) >= Percent * c
  <2>1. PICK u : u = Within(i)
    OBVIOUS
  <2>2. UpTo(memory, i) = u
    BY <2>1, FiguresWhenQuiet
  <2>3. u \in Nat
    <3>1. {d \in Latencies : d <= Bounds[i]} \in SUBSET Latencies /\ CommandsBounded
      BY DEF Books, CountsBounded
    <3> QED
      BY <2>1, <3>1, CommandsWithin
  <2>4. Percent \in Nat
    BY MetricsAssumption
  <2>5. PICK m \in Nat : m = c * Percent /\ m = Percent * c
    <3>1. c * Percent \in Nat /\ c * Percent = Percent * c
      BY <1>2, <2>4
    <3> QED
      BY <3>1
  <2>6. r = (m + 99) \div 100
    BY <1>3, <2>5
  <2>7. u >= (m + 99) \div 100 <=> 100 * u >= m
    BY <2>3
  <2> QED
    BY <2>1, <2>2, <2>5, <2>6, <2>7
<1>5. {i \in DOMAIN Bounds : UpTo(memory, i) >= r} =
      {i \in DOMAIN Bounds : 100 * Within(i) >= Percent * c}
  BY <1>4
<1>6. PICK E : E = {i \in DOMAIN Bounds : UpTo(memory, i) >= r}
  OBVIOUS
<1>7. EstimatePercentileBucketUs(memory) = IF c = 0 THEN 0 ELSE Min(E \cup {Len(Bounds) + 1})
  BY <1>2, <1>3, <1>6 DEF EstimatePercentileBucketUs
<1>8. E = {i \in DOMAIN Bounds : 100 * Within(i) >= Percent * c}
  BY <1>5, <1>6
<1> QED
  BY <1>1, <1>7, <1>8 DEF PercentileExact

\* The gauge.
LEMMA ActiveWhenQuiet ==
    ASSUME IInv, Books, Quiet
    PROVE  memory[Loc("activeConnections")] =
               dropped + SumFunction([t \in Reactors |-> Max({0, m_clients[t]})])
<1>1. PICK s : s = SumFunction(Owned)
  OBVIOUS
<1>2. s \in Nat /\ dropped \in Nat /\ dropped + s <= calls /\ Ledger(Active, dropped + s)
  BY <1>1, SumsTyped DEF Books, CountsBounded, OwnedBounded, ActiveKept
<1>3. PICK n \in Nat : n = dropped + s
  BY <1>2
<1>4. memory[Active] = n
  BY <1>2, <1>3, LocationsDiffer, QuietLocation
<1> QED
  BY <1>1, <1>3, <1>4 DEF Active, Owned

\* STATS is exact on a quiet server: every counter, the latency count, total and
\* buckets, both maxima, the percentile and the gauge are those of what happened,
\* whatever the order in which the reactors' relaxed updates took effect.
THEOREM StatsAlwaysExact == Spec => []StatsExact
<1>1. ASSUME IInv, Books, MaximaExact PROVE StatsExact
  <2>1. TypeOK
    BY <1>1 DEF IInv
  <2>2. FiguresExact
    BY <1>1, FiguresWhenQuiet DEF FiguresExact
  <2>3. PercentileExact
    <3>1. CASE Quiet
      BY <1>1, <3>1, PercentileWhenQuiet
    <3>2. CASE ~Quiet
      BY <3>2 DEF PercentileExact
    <3> QED
      BY <3>1, <3>2
  <2>4. ActiveExact
    BY <1>1, ActiveWhenQuiet DEF ActiveExact
  <2> QED
    BY <1>1, <2>1, <2>2, <2>3, <2>4 DEF StatsExact
<1>2. IInv /\ Books /\ MaximaExact => StatsExact
  BY <1>1
<1> QED
  BY <1>2, InitBooks, NextBooks, MetricsInvariance, MaximaExactWhenQuiet, PTL DEF Spec

=============================================================================
