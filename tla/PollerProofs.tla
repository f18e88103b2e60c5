---------------------------- MODULE PollerProofs ----------------------------
(***************************************************************************)
(* The two back ends of Poller, proved for every set of descriptors and    *)
(* every size of the event buffer.                                         *)
(***************************************************************************)
EXTENDS Poller, FiniteSetTheorems, RecursionLemmas

-----------------------------------------------------------------------------
(* Sublists: the induction over the kernel's list *)

\* The recursive function behind Sublist exists and is the one Sublist uses.
LEMMA SublistEquation ==
    ASSUME NEW list \in Seq(Fds), NEW S
    PROVE  \E g : /\ g = [i \in 0 .. Len(list) |->
                              IF i = 0 THEN <<>>
                              ELSE IF list[i] \in S THEN Append(g[i - 1], list[i]) ELSE g[i - 1]]
                  /\ Sublist(list, S) = g[Len(list)]
<1> DEFINE V == Seq(Fds)
           F == [p \in Nat \X V |->
                   IF p[1] \in 1 .. Len(list) /\ list[p[1]] \in S
                   THEN Append(p[2], list[p[1]]) ELSE p[2]]
           Eq(g) == g = [i \in 0 .. Len(list) |->
                            IF i = 0 THEN <<>>
                            ELSE IF list[i] \in S THEN Append(g[i - 1], list[i]) ELSE g[i - 1]]
<1>1. F \in [Nat \X V -> V]
  <2>1. ASSUME NEW p \in Nat \X V
        PROVE  (IF p[1] \in 1 .. Len(list) /\ list[p[1]] \in S
                THEN Append(p[2], list[p[1]]) ELSE p[2]) \in V
    <3>1. p[2] \in V /\ (p[1] \in 1 .. Len(list) => list[p[1]] \in Fds)
      OBVIOUS
    <3> QED
      BY <3>1
  <2> QED
    BY <2>1
<1>2. Len(list) \in Nat /\ <<>> \in V
  OBVIOUS
<1>3. PICK f : Follows(f, Len(list), <<>>, F)
  BY <1>2, FollowsExists
<1>4. f \in [0 .. Len(list) -> V]
  <2> HIDE DEF F, V
  <2> QED
    BY <1>1, <1>2, <1>3, FollowsTyped
<1>5. Eq(f)
  <2>1. ASSUME NEW i \in 0 .. Len(list)
        PROVE  f[i] = IF i = 0 THEN <<>>
                      ELSE IF list[i] \in S THEN Append(f[i - 1], list[i]) ELSE f[i - 1]
    <3>1. f[i] = IF i = 0 THEN <<>> ELSE F[<<i, f[i - 1]>>]
      <4> HIDE DEF F
      <4> QED
        BY <1>3 DEF Follows
    <3>2. CASE i # 0
      <4>1. i \in 1 .. Len(list) /\ i \in Nat /\ f[i - 1] \in V
        BY <1>2, <1>4, <3>2
      <4>2. <<i, f[i - 1]>> \in Nat \X V
        BY <4>1
      <4>3. F[<<i, f[i - 1]>>] = IF list[i] \in S THEN Append(f[i - 1], list[i]) ELSE f[i - 1]
        BY <4>1, <4>2
      <4> QED
        BY <3>1, <3>2, <4>3
    <3> QED
      BY <3>1, <3>2
  <2>2. f = [i \in 0 .. Len(list) |-> f[i]]
    BY <1>4
  <2> QED
    BY <2>1, <2>2
<1> DEFINE G == CHOOSE g : Eq(g)
<1>6. Eq(G)
  <2> HIDE DEF Eq
  <2> QED
    BY <1>5
<1>7. Sublist(list, S) = G[Len(list)]
  BY Zenon DEF Sublist
<1> QED
  BY <1>6, <1>7, Zenon

\* A sublist is the list restricted to increasing positions, all those of members
\* of S.
Picks(sub, list, S, pos) ==
    /\ pos \in [1 .. Len(sub) -> 1 .. Len(list)]
    /\ \A a, b \in 1 .. Len(sub) : a < b => pos[a] < pos[b]
    /\ \A a \in 1 .. Len(sub) : sub[a] = list[pos[a]] /\ list[pos[a]] \in S
    /\ \A j \in 1 .. Len(list) : list[j] \in S => \E a \in 1 .. Len(sub) : pos[a] = j

\* Sublist has such positions.
LEMMA SublistPositions ==
    ASSUME NEW list \in Seq(Fds), NEW S
    PROVE  /\ Sublist(list, S) \in Seq(Fds)
           /\ \E pos : Picks(Sublist(list, S), list, S, pos)
<1> DEFINE Step(g, i) == IF i = 0 THEN <<>>
                         ELSE IF list[i] \in S THEN Append(g[i - 1], list[i]) ELSE g[i - 1]
<1>1. PICK g : /\ g = [i \in 0 .. Len(list) |-> Step(g, i)]
               /\ Sublist(list, S) = g[Len(list)]
  BY SublistEquation
<1>2. /\ g[0] = <<>>
      /\ \A i \in 1 .. Len(list) : g[i] = IF list[i] \in S THEN Append(g[i - 1], list[i]) ELSE g[i - 1]
  <2>1. Len(list) \in Nat
    OBVIOUS
  <2>2. \A i \in 0 .. Len(list) : g[i] = Step(g, i)
    <3> HIDE DEF Step
    <3> QED
      BY <1>1, Zenon
  <2>3. 0 \in 0 .. Len(list) /\ \A i \in 1 .. Len(list) : i \in 0 .. Len(list) /\ i # 0
    BY <2>1
  <2> QED
    BY <2>2, <2>3, Zenon
\* The positions up to i.
<1> DEFINE Good(i, pos) ==
              /\ g[i] \in Seq(Fds)
              /\ pos \in [1 .. Len(g[i]) -> 1 .. i]
              /\ \A a, b \in 1 .. Len(g[i]) : a < b => pos[a] < pos[b]
              /\ \A a \in 1 .. Len(g[i]) : g[i][a] = list[pos[a]] /\ list[pos[a]] \in S
              /\ \A j \in 1 .. i : list[j] \in S => \E a \in 1 .. Len(g[i]) : pos[a] = j
           T == {i \in Nat : i <= Len(list) => \E pos : Good(i, pos)}
<1>3. 0 \in T
  <2>1. Good(0, [a \in 1 .. 0 |-> 0])
    BY <1>2
  <2> QED
    BY <2>1
<1>4. ASSUME NEW i \in Nat, i \in T, i + 1 <= Len(list)
      PROVE  \E pos : Good(i + 1, pos)
  <2>0. i + 1 \in 1 .. Len(list) /\ list[i + 1] \in Fds
    BY <1>4
  <2>1. PICK pos : Good(i, pos)
    BY <1>4
  <2>2. CASE list[i + 1] \notin S
    <3>1. g[i + 1] = g[i]
      <4>1. g[i + 1] = g[(i + 1) - 1]
        BY <1>2, <2>0, <2>2, Zenon
      <4>2. (i + 1) - 1 = i
        OBVIOUS
      <4> QED
        BY <4>1, <4>2, Zenon
    <3>2. pos \in [1 .. Len(g[i + 1]) -> 1 .. (i + 1)]
      BY <2>1, <3>1
    <3>3. \A j \in 1 .. (i + 1) : list[j] \in S => j \in 1 .. i
      BY <2>2
    <3>4. Good(i + 1, pos)
      BY <2>1, <3>1, <3>2, <3>3
    <3> QED
      BY <3>4
  <2>3. CASE list[i + 1] \in S
    <3> PICK n : n = Len(g[i])
      OBVIOUS
    <3> DEFINE new == [a \in 1 .. (n + 1) |-> IF a = n + 1 THEN i + 1 ELSE pos[a]]
    <3>1. g[i] \in Seq(Fds) /\ n \in Nat
      BY <2>1
    <3>2. g[i + 1] = Append(g[i], list[i + 1])
      <4>1. g[i + 1] = Append(g[(i + 1) - 1], list[i + 1])
        BY <1>2, <2>0, <2>3, Zenon
      <4>2. (i + 1) - 1 = i
        OBVIOUS
      <4> QED
        BY <4>1, <4>2, Zenon
    <3>3. /\ g[i + 1] \in Seq(Fds) /\ Len(g[i + 1]) = n + 1
          /\ g[i + 1][n + 1] = list[i + 1]
          /\ \A a \in 1 .. n : g[i + 1][a] = g[i][a]
      BY <2>0, <3>1, <3>2
    <3>0. pos \in [1 .. n -> 1 .. i]
      BY <2>1
    <3>4. \A a \in 1 .. n : pos[a] \in 1 .. i /\ new[a] = pos[a]
      <4> HIDE DEF Good
      <4>1. \A a \in 1 .. n : a \in 1 .. (n + 1) /\ a # n + 1
        BY <3>1
      <4> QED
        BY <3>0, <4>1
    <3>5. new[n + 1] = i + 1
      BY <3>1
    <3>6. new \in [1 .. (n + 1) -> 1 .. (i + 1)]
      <4> HIDE DEF Good
      <4>1. ASSUME NEW a \in 1 .. (n + 1)
            PROVE  (IF a = n + 1 THEN i + 1 ELSE pos[a]) \in 1 .. (i + 1)
        <5>1. CASE a # n + 1
          <6>1. a \in 1 .. n
            BY <3>1, <5>1
          <6>2. pos[a] \in 1 .. i
            BY <3>0, <6>1
          <6> QED
            BY <5>1, <6>2
        <5> QED
          BY <5>1
      <4> QED
        BY <4>1
    <3>7. \A a, b \in 1 .. (n + 1) : a < b => new[a] < new[b]
      <4> SUFFICES ASSUME NEW a \in 1 .. (n + 1), NEW b \in 1 .. (n + 1), a < b
                   PROVE  new[a] < new[b]
        OBVIOUS
      <4>1. a \in 1 .. n
        BY <3>1
      <4>2. CASE b = n + 1
        <5>1. new[a] \in 1 .. i /\ new[b] = i + 1
          BY <3>4, <3>5, <4>1, <4>2
        <5> HIDE DEF new, Good
        <5> QED
          BY <5>1
      <4>3. CASE b # n + 1
        <5>1. b \in 1 .. n
          BY <3>1, <4>3
        <5> QED
          BY <2>1, <3>4, <4>1, <5>1
      <4> QED
        BY <4>2, <4>3
    <3>8. \A a \in 1 .. (n + 1) : g[i + 1][a] = list[new[a]] /\ list[new[a]] \in S
      <4> SUFFICES ASSUME NEW a \in 1 .. (n + 1)
                   PROVE  g[i + 1][a] = list[new[a]] /\ list[new[a]] \in S
        OBVIOUS
      <4>1. CASE a = n + 1
        BY <2>3, <3>3, <3>5, <4>1
      <4>2. CASE a # n + 1
        <5>1. a \in 1 .. n
          BY <3>1, <4>2
        <5> QED
          BY <2>1, <3>3, <3>4, <5>1
      <4> QED
        BY <4>1, <4>2
    <3>9. \A j \in 1 .. (i + 1) : list[j] \in S => \E a \in 1 .. (n + 1) : new[a] = j
      <4> SUFFICES ASSUME NEW j \in 1 .. (i + 1), list[j] \in S
                   PROVE  \E a \in 1 .. (n + 1) : new[a] = j
        OBVIOUS
      <4>1. CASE j = i + 1
        <5>1. n + 1 \in 1 .. (n + 1)
          BY <3>1
        <5> HIDE DEF new, Good
        <5> QED
          BY <3>5, <4>1, <5>1
      <4>2. CASE j # i + 1
        <5>1. j \in 1 .. i
          BY <4>2
        <5>2. PICK a \in 1 .. n : pos[a] = j
          BY <2>1, <5>1
        <5>3. a \in 1 .. (n + 1) /\ new[a] = j
          BY <3>1, <3>4, <5>2
        <5> QED
          BY <5>3
      <4> QED
        BY <4>1, <4>2
    <3> HIDE DEF new
    <3>10. Good(i + 1, new)
      BY <3>3, <3>6, <3>7, <3>8, <3>9
    <3> QED
      BY <3>10
  <2> QED
    BY <2>2, <2>3
<1>5. T = Nat
  <2> HIDE DEF Good
  <2>1. T \in SUBSET Nat /\ \A i \in Nat : i \in T => i + 1 \in T
    BY <1>4
  <2> HIDE DEF T
  <2> QED
    BY <1>3, <2>1, SetInduction
<1>6. \E pos : Good(Len(list), pos)
  <2>1. Len(list) \in Nat
    OBVIOUS
  <2> HIDE DEF Good
  <2> QED
    BY <1>5, <2>1
<1>7. PICK pos : Good(Len(list), pos)
  BY <1>6
<1>8. Picks(g[Len(list)], list, S, pos)
  BY <1>7 DEF Picks
<1>9. g[Len(list)] \in Seq(Fds)
  BY <1>7
<1> HIDE DEF Step, Good
<1> QED
  BY <1>1, <1>8, <1>9, Zenon

\* The descriptors the list has in front of fd.
Before(list, fd) ==
    {list[i] : i \in {i \in 1 .. Len(list) :
                         \E j \in 1 .. Len(list) : i < j /\ list[j] = fd}}

\* Membership in Before.
LEMMA BeforeMember ==
    ASSUME NEW list, NEW fd, NEW x
    PROVE  x \in Before(list, fd) <=>
              \E i, j \in 1 .. Len(list) : i < j /\ list[i] = x /\ list[j] = fd
BY DEF Before

\* Taking a sublist keeps the order, and each member once.
LEMMA SublistFacts ==
    ASSUME NEW list \in Seq(Fds), IsInjective(list), NEW S
    PROVE  /\ Sublist(list, S) \in Seq(Fds)
           /\ ToSet(Sublist(list, S)) = ToSet(list) \cap S
           /\ IsInjective(Sublist(list, S))
           /\ \A fd : Before(Sublist(list, S), fd) \subseteq Before(list, fd)
<1> PICK sub : sub = Sublist(list, S)
  OBVIOUS
<1>1. sub \in Seq(Fds) /\ Len(sub) \in Nat /\ Len(list) \in Nat
  BY SublistPositions
<1>2. PICK pos : Picks(sub, list, S, pos)
  BY SublistPositions
<1>3. /\ \A a \in 1 .. Len(sub) : pos[a] \in 1 .. Len(list) /\ sub[a] = list[pos[a]] /\ sub[a] \in S
      /\ \A a, b \in 1 .. Len(sub) : a < b => pos[a] < pos[b]
      /\ \A j \in 1 .. Len(list) : list[j] \in S => \E a \in 1 .. Len(sub) : pos[a] = j
  BY <1>2 DEF Picks
<1>4. DOMAIN sub = 1 .. Len(sub) /\ DOMAIN list = 1 .. Len(list)
  BY <1>1
<1>5. ToSet(sub) = ToSet(list) \cap S
  <2>1. ASSUME NEW x \in ToSet(sub)
        PROVE  x \in ToSet(list) \cap S
    <3>1. PICK a \in 1 .. Len(sub) : sub[a] = x
      BY <1>4 DEF ToSet
    <3> QED
      BY <1>3, <1>4, <3>1 DEF ToSet
  <2>2. ASSUME NEW x \in ToSet(list) \cap S
        PROVE  x \in ToSet(sub)
    <3>1. PICK j \in 1 .. Len(list) : list[j] = x
      BY <1>4 DEF ToSet
    <3>2. PICK a \in 1 .. Len(sub) : pos[a] = j
      BY <1>3, <3>1
    <3> QED
      BY <1>3, <1>4, <3>1, <3>2 DEF ToSet
  <2> QED
    BY <2>1, <2>2
<1>6. IsInjective(sub)
  <2> SUFFICES ASSUME NEW a \in 1 .. Len(sub), NEW b \in 1 .. Len(sub), sub[a] = sub[b]
               PROVE  a = b
    BY <1>4 DEF IsInjective
  <2>1. pos[a] = pos[b]
    BY <1>3, <1>4 DEF IsInjective
  <2>2. ~(a < b) /\ ~(b < a)
    <3>1. pos[a] \in Int /\ pos[b] \in Int
      BY <1>3
    <3> QED
      BY <1>3, <2>1, <3>1
  <2> QED
    BY <2>2
<1>7. ASSUME NEW fd, NEW x \in Before(sub, fd)
      PROVE  x \in Before(list, fd)
  <2>1. PICK i, j \in 1 .. Len(sub) : i < j /\ sub[i] = x /\ sub[j] = fd
    BY BeforeMember
  <2>2. /\ pos[i] \in 1 .. Len(list) /\ pos[j] \in 1 .. Len(list) /\ pos[i] < pos[j]
        /\ list[pos[i]] = x /\ list[pos[j]] = fd
    BY <1>3, <2>1
  <2> QED
    BY <2>2, BeforeMember
<1> QED
  BY <1>1, <1>5, <1>6, <1>7

\* Adding a descriptor at the end puts it in front of nobody.
LEMMA AppendFacts ==
    ASSUME NEW list \in Seq(Fds), IsInjective(list), NEW x \in Fds, x \notin ToSet(list)
    PROVE  /\ Append(list, x) \in Seq(Fds)
           /\ ToSet(Append(list, x)) = ToSet(list) \cup {x}
           /\ IsInjective(Append(list, x))
           /\ \A fd \in ToSet(list) : Before(Append(list, x), fd) \subseteq Before(list, fd)
<1> PICK new, n : new = Append(list, x) /\ n = Len(list)
  OBVIOUS
<1>1. /\ n \in Nat /\ new \in Seq(Fds) /\ Len(new) = n + 1 /\ new[n + 1] = x
      /\ \A i \in 1 .. n : new[i] = list[i]
      /\ DOMAIN new = 1 .. (n + 1) /\ DOMAIN list = 1 .. n
  OBVIOUS
<1>2. \A i \in 1 .. n : list[i] # x
  BY <1>1 DEF ToSet
<1>3. \A i \in 1 .. (n + 1) : i \in 1 .. n \/ i = n + 1
  BY <1>1
<1>4. ToSet(new) = ToSet(list) \cup {x}
  <2>1. n + 1 \in 1 .. (n + 1) /\ \A i \in 1 .. n : i \in 1 .. (n + 1)
    BY <1>1
  <2>2. \A y : y \in ToSet(new) <=> \E i \in 1 .. (n + 1) : new[i] = y
    BY <1>1 DEF ToSet
  <2>3. \A y : y \in ToSet(list) <=> \E i \in 1 .. n : list[i] = y
    BY <1>1 DEF ToSet
  <2>4. \A y : y \in ToSet(new) => y \in ToSet(list) \/ y = x
    BY <1>1, <1>3, <2>2, <2>3
  <2>5. \A y : y \in ToSet(list) \/ y = x => y \in ToSet(new)
    BY <1>1, <2>1, <2>2, <2>3
  <2> QED
    BY <2>4, <2>5
<1>5. IsInjective(new)
  <2> SUFFICES ASSUME NEW a \in 1 .. (n + 1), NEW b \in 1 .. (n + 1), new[a] = new[b]
               PROVE  a = b
    BY <1>1 DEF IsInjective
  <2>1. \A i, j \in 1 .. n : list[i] = list[j] => i = j
    BY <1>1 DEF IsInjective
  <2> QED
    BY <1>1, <1>2, <1>3, <2>1
<1>6. ASSUME NEW fd \in ToSet(list), NEW y \in Before(new, fd)
      PROVE  y \in Before(list, fd)
  <2>0. \E i, j \in 1 .. Len(new) : i < j /\ new[i] = y /\ new[j] = fd
    BY <1>6 DEF Before
  <2>1. PICK i, j \in 1 .. (n + 1) : i < j /\ new[i] = y /\ new[j] = fd
    BY <1>1, <2>0
  <2>2. j # n + 1
    BY <1>1, <2>1
  <2>3. i \in 1 .. n /\ j \in 1 .. n
    BY <1>1, <2>1, <2>2
  <2>4. list[i] = y /\ list[j] = fd
    BY <1>1, <2>1, <2>3
  <2> QED
    BY <2>1, <2>3, <2>4, BeforeMember
<1> QED
  BY <1>1, <1>4, <1>5, <1>6

\* The smaller of two numbers.
LEMMA MinTwo ==
    ASSUME NEW a \in Int, NEW b \in Int
    PROVE  Min({a, b}) = IF a <= b THEN a ELSE b
<1>1. \E x \in {a, b} : \A y \in {a, b} : x =< y
  OBVIOUS
<1>2. Min({a, b}) \in {a, b} /\ \A y \in {a, b} : Min({a, b}) =< y
  BY <1>1 DEF Min
<1> QED
  BY <1>2

\* A list without repetitions is as long as the set of its members is large.
LEMMA InjectiveLength ==
    ASSUME NEW list \in Seq(Fds), IsInjective(list)
    PROVE  /\ IsFiniteSet(ToSet(list))
           /\ Cardinality(ToSet(list)) = Len(list)
           /\ list \in BoundedSeq(Fds, Cardinality(Fds))
<1>1. Len(list) \in Nat /\ DOMAIN list = 1 .. Len(list) /\ ToSet(list) \subseteq Fds
  BY DEF ToSet
<1>2. list \in Injection(1 .. Len(list), ToSet(list)) /\ list \in Surjection(1 .. Len(list), ToSet(list))
  <2>1. list \in [1 .. Len(list) -> ToSet(list)]
    BY <1>1 DEF ToSet
  <2>2. \A t \in ToSet(list) : \E s \in 1 .. Len(list) : list[s] = t
    BY <1>1 DEF ToSet
  <2> QED
    BY <2>1, <2>2 DEF Injection, Surjection
<1>3. ExistsBijection(1 .. Len(list), ToSet(list))
  BY <1>2 DEF ExistsBijection, Bijection
<1>4. IsFiniteSet(ToSet(list)) /\ Cardinality(ToSet(list)) = Len(list)
  BY <1>1, <1>3, FS_NatBijection, FS_CountingElements
<1>5. Cardinality(Fds) \in Nat /\ Len(list) <= Cardinality(Fds)
  BY <1>1, <1>4, PollerAssumption, FS_CardinalityType, FS_Subset
<1>6. list \in [1 .. Len(list) -> Fds] /\ Len(list) \in 0 .. Cardinality(Fds)
  BY <1>1, <1>5
<1> QED
  BY <1>4, <1>6 DEF BoundedSeq, SeqOf

\* Nobody is in front of itself.
LEMMA BeforeProper ==
    ASSUME NEW list \in Seq(Fds), IsInjective(list), NEW fd \in Fds
    PROVE  /\ Before(list, fd) \subseteq Fds /\ IsFiniteSet(Before(list, fd))
           /\ Cardinality(Before(list, fd)) \in Nat
           /\ Cardinality(Before(list, fd)) < Cardinality(Fds)
<1>1. Len(list) \in Nat /\ DOMAIN list = 1 .. Len(list) /\ \A i \in 1 .. Len(list) : list[i] \in Fds
  OBVIOUS
<1>2. Before(list, fd) \subseteq Fds \ {fd}
  <2> SUFFICES ASSUME NEW x \in Before(list, fd) PROVE x \in Fds /\ x # fd
    OBVIOUS
  <2>1. PICK i, j \in 1 .. Len(list) : i < j /\ list[i] = x /\ list[j] = fd
    BY BeforeMember
  <2> QED
    BY <1>1, <2>1 DEF IsInjective
<1>3. /\ IsFiniteSet(Fds \ {fd}) /\ Cardinality(Fds \ {fd}) = Cardinality(Fds) - 1
      /\ Cardinality(Fds) \in Nat
  BY PollerAssumption, FS_RemoveElement, FS_CardinalityType
<1>4. /\ IsFiniteSet(Before(list, fd))
      /\ Cardinality(Before(list, fd)) <= Cardinality(Fds \ {fd})
  BY <1>2, <1>3, FS_Subset
<1>5. Cardinality(Before(list, fd)) \in Nat
  BY <1>4, FS_CardinalityType
<1> QED
  BY <1>2, <1>3, <1>4, <1>5

\* What EpollWait takes from the list, with S the ready descriptors, and the list
\* it leaves.
Taken(list, S, cap) == SubSeq(Sublist(list, S), 1, Min({cap, Len(Sublist(list, S))}))
Turned(list, taken) == Without(list, ToSet(taken)) \o taken

\* A wait serves the list in turn: what it takes is in front of the ready
\* descriptors that it leaves out, fills the buffer, and goes behind them.
ServesInTurn(list, S, cap, taken, new) ==
    /\ Len(taken) \in Nat /\ ToSet(taken) \subseteq S \cap ToSet(list)
    /\ new \in Seq(Fds) /\ IsInjective(new) /\ ToSet(new) = ToSet(list)
    /\ \A fd \in (S \cap ToSet(list)) \ ToSet(taken) :
          /\ Len(taken) = cap
          /\ Cardinality(ToSet(taken)) = cap
          /\ ToSet(taken) \subseteq Before(list, fd)
          /\ Before(new, fd) \subseteq Before(list, fd) \ ToSet(taken)

\* epoll_wait serves the list in turn.
LEMMA WaitOrder ==
    ASSUME NEW list \in Seq(Fds), IsInjective(list), NEW S \in SUBSET Fds, NEW cap \in Nat,
           NEW taken, taken = Taken(list, S, cap),
           NEW new, new = Turned(list, taken)
    PROVE  ServesInTurn(list, S, cap, taken, new)
<1> PICK ready : ready = Sublist(list, S)
  OBVIOUS
<1> PICK rest : rest = Without(list, ToSet(taken))
  OBVIOUS
<1>0. PICK m : m = Min({cap, Len(ready)})
  OBVIOUS
<1>1. /\ ready \in Seq(Fds) /\ IsInjective(ready) /\ ToSet(ready) = ToSet(list) \cap S
      /\ \A fd : Before(ready, fd) \subseteq Before(list, fd)
  BY SublistFacts
<1> PICK n : n = Len(ready)
  OBVIOUS
<1>2. n \in Nat /\ DOMAIN ready = 1 .. n /\ n = Len(ready)
  BY <1>1
<1>3. m \in Nat /\ m <= n /\ m <= cap /\ (m # cap => m = n)
  BY <1>0, <1>2, MinTwo
<1>4. /\ taken \in Seq(Fds) /\ Len(taken) = m /\ DOMAIN taken = 1 .. m
      /\ \A i \in 1 .. m : taken[i] = ready[i] /\ i \in 1 .. n
  <2>1. taken = SubSeq(ready, 1, m)
    BY <1>0 DEF Taken
  <2>2. taken = [i \in 1 .. m |-> ready[i]]
    BY <1>1, <1>2, <1>3, <2>1
  <2>3. \A i \in 1 .. m : i \in 1 .. n /\ ready[i] \in Fds
    <3>1. \A i \in 1 .. m : i \in 1 .. n
      BY <1>2, <1>3
    <3>2. \A i \in 1 .. n : ready[i] \in Fds
      BY <1>1
    <3> QED
      BY <3>1, <3>2
  <2>4. taken \in [1 .. m -> Fds]
    BY <2>2, <2>3
  <2> QED
    BY <1>3, <2>2, <2>3, <2>4
<1>5. IsInjective(taken)
  BY <1>1, <1>2, <1>4 DEF IsInjective
<1>6. ToSet(taken) \subseteq ToSet(ready)
  BY <1>2, <1>4 DEF ToSet
<1>7. /\ rest \in Seq(Fds) /\ IsInjective(rest) /\ ToSet(rest) = ToSet(list) \cap (Fds \ ToSet(taken))
      /\ \A fd : Before(rest, fd) \subseteq Before(list, fd)
  BY SublistFacts DEF Without
<1>8. Len(rest) \in Nat /\ DOMAIN rest = 1 .. Len(rest)
  BY <1>7
<1>9. ToSet(list) \subseteq Fds
  BY DEF ToSet
<1>10. /\ new \in Seq(Fds) /\ Len(new) = Len(rest) + m /\ DOMAIN new = 1 .. (Len(rest) + m)
       /\ \A i \in 1 .. Len(rest) : new[i] = rest[i]
       /\ \A i \in 1 .. m : new[Len(rest) + i] = taken[i]
  <2>1. new = rest \o taken
    BY DEF Turned
  <2>2. new \in Seq(Fds) /\ Len(new) = Len(rest) + m
    BY <1>4, <1>7, <2>1
  <2>3. DOMAIN new = 1 .. (Len(rest) + m)
    BY <2>2
  <2>4. \A i \in 1 .. (Len(rest) + m) : new[i] = IF i <= Len(rest) THEN rest[i] ELSE taken[i - Len(rest)]
    BY <1>4, <1>7, <2>1
  <2>5. \A i \in 1 .. Len(rest) : new[i] = rest[i]
    BY <1>3, <1>8, <2>4
  <2>6. ASSUME NEW i \in 1 .. m PROVE new[Len(rest) + i] = taken[i]
    <3>1. Len(rest) + i \in 1 .. (Len(rest) + m) /\ ~(Len(rest) + i <= Len(rest)) /\ (Len(rest) + i) - Len(rest) = i
      BY <1>3, <1>8
    <3> QED
      BY <2>4, <3>1
  <2> QED
    BY <2>2, <2>3, <2>5, <2>6
<1>11. \A i \in DOMAIN new : i \in 1 .. Len(rest) \/ \E k \in 1 .. m : i = Len(rest) + k
  <2> SUFFICES ASSUME NEW i \in DOMAIN new, i \notin 1 .. Len(rest)
               PROVE  \E k \in 1 .. m : i = Len(rest) + k
    OBVIOUS
  <2>1. i - Len(rest) \in 1 .. m /\ i = Len(rest) + (i - Len(rest))
    BY <1>3, <1>8, <1>10
  <2> QED
    BY <2>1
<1>12. /\ \A i \in 1 .. Len(rest) : rest[i] \in ToSet(rest)
       /\ \A k \in 1 .. m : taken[k] \in ToSet(taken)
       /\ ToSet(rest) \cap ToSet(taken) = {}
  BY <1>4, <1>7, <1>8 DEF ToSet
<1>13. ToSet(new) = ToSet(list)
  <2>1. ASSUME NEW x \in ToSet(new)
        PROVE  x \in ToSet(rest) \/ x \in ToSet(taken)
    <3>1. PICK i \in DOMAIN new : new[i] = x
      BY DEF ToSet
    <3> QED
      BY <1>10, <1>11, <1>12, <3>1
  <2>2. ASSUME NEW x \in ToSet(rest)
        PROVE  x \in ToSet(new)
    <3>1. PICK i \in 1 .. Len(rest) : rest[i] = x
      BY <1>8 DEF ToSet
    <3>2. i \in DOMAIN new /\ new[i] = x
      BY <1>3, <1>8, <1>10, <3>1
    <3> QED
      BY <3>2 DEF ToSet
  <2>3. ASSUME NEW x \in ToSet(taken)
        PROVE  x \in ToSet(new)
    <3>1. PICK k \in 1 .. m : taken[k] = x
      BY <1>4 DEF ToSet
    <3>2. new[Len(rest) + k] = x
      BY <1>10, <3>1
    <3>3. Len(rest) + k \in DOMAIN new
      BY <1>3, <1>8, <1>10, <3>1
    <3> QED
      BY <3>2, <3>3 DEF ToSet
  <2>4. ToSet(taken) \subseteq ToSet(list)
    BY <1>1, <1>6
  <2>5. \A x : x \in ToSet(list) <=> x \in ToSet(rest) \/ x \in ToSet(taken)
    BY <1>7, <1>9, <2>4
  <2> QED
    BY <2>1, <2>2, <2>3, <2>5
<1>14. IsInjective(new)
  <2> SUFFICES ASSUME NEW a \in DOMAIN new, NEW b \in DOMAIN new, new[a] = new[b]
               PROVE  a = b
    BY DEF IsInjective
  <2>1. /\ \A i, j \in 1 .. Len(rest) : rest[i] = rest[j] => i = j
        /\ \A i, j \in 1 .. m : taken[i] = taken[j] => i = j
    BY <1>4, <1>5, <1>7, <1>8 DEF IsInjective
  <2>2. \A i \in 1 .. Len(rest), k \in 1 .. m : rest[i] # taken[k]
    BY <1>12
  <2> QED
    BY <1>10, <1>11, <2>1, <2>2
<1>15. ASSUME NEW fd \in (S \cap ToSet(list)) \ ToSet(taken)
       PROVE  /\ m = cap
              /\ Cardinality(ToSet(taken)) = cap
              /\ ToSet(taken) \subseteq Before(list, fd)
              /\ Before(new, fd) \subseteq Before(list, fd) \ ToSet(taken)
  <2>1. PICK j \in 1 .. n : ready[j] = fd
    BY <1>1, <1>2 DEF ToSet
  <2>2. j > m
    <3> SUFFICES ASSUME j <= m PROVE FALSE
      BY <1>3, <2>1
    <3>1. j \in 1 .. m
      BY <1>3, <2>1
    <3>2. taken[j] = fd
      BY <1>4, <2>1, <3>1
    <3> QED
      BY <1>12, <3>1, <3>2
  <2>3. m = cap
    <3>1. j \in Nat /\ j <= n /\ j > m
      BY <1>2, <2>1, <2>2
    <3>2. m # n
      BY <1>2, <1>3, <3>1
    <3> QED
      BY <1>3, <3>2
  <2>4. Cardinality(ToSet(taken)) = cap
    BY <1>4, <1>5, <2>3, InjectiveLength
  <2>5. ASSUME NEW x \in ToSet(taken)
        PROVE  x \in Before(list, fd)
    <3>1. PICK i \in 1 .. m : taken[i] = x
      BY <1>4 DEF ToSet
    <3>2. i \in 1 .. n /\ ready[i] = x /\ i < j
      BY <1>3, <1>4, <2>1, <2>2, <3>1
    <3>3. x \in Before(ready, fd)
      BY <2>1, <3>2 DEF Before
    <3> QED
      BY <1>1, <3>3
  <2>6. ASSUME NEW x \in Before(new, fd)
        PROVE  x \in Before(list, fd) \ ToSet(taken)
    <3>1. PICK a, b \in 1 .. Len(new) : a < b /\ new[a] = x /\ new[b] = fd
      BY <2>6 DEF Before
    <3>2. b \in 1 .. Len(rest)
      <4> SUFFICES ASSUME NEW k \in 1 .. m, b = Len(rest) + k PROVE FALSE
        BY <1>10, <1>11, <3>1
      <4> QED
        BY <1>10, <1>12, <3>1
    <3>3. a \in 1 .. Len(rest) /\ rest[a] = x /\ rest[b] = fd
      <4>1. a \in 1 .. Len(rest)
        BY <1>8, <1>10, <3>1, <3>2
      <4> QED
        BY <1>10, <3>1, <3>2, <4>1
    <3>4. x \in Before(rest, fd) /\ x \in ToSet(rest)
      BY <1>8, <3>1, <3>2, <3>3 DEF Before, ToSet
    <3> QED
      BY <1>7, <1>12, <3>4
  <2> QED
    BY <2>3, <2>4, <2>5, <2>6
<1> QED
  BY <1>1, <1>3, <1>4, <1>6, <1>10, <1>13, <1>14, <1>15 DEF ServesInTurn

-----------------------------------------------------------------------------
(* The sizes of full batches *)

\* The recursion of Batch has the solution it defines, and doubles up to the maximum.
LEMMA BatchFacts ==
    /\ Batch[0] = INITIAL_EVENT_CAPACITY
    /\ \A k \in Nat : /\ Batch[k] \in Nat /\ Batch[k] <= MAX_EVENT_CAPACITY
                      /\ Batch[k + 1] = IF Batch[k] * 2 <= MAX_EVENT_CAPACITY
                                        THEN Batch[k] * 2 ELSE MAX_EVENT_CAPACITY
<1> DEFINE Double(n) == IF n * 2 <= MAX_EVENT_CAPACITY THEN n * 2 ELSE MAX_EVENT_CAPACITY
           F == [p \in Nat \X Nat |-> Min({p[2] * 2, MAX_EVENT_CAPACITY})]
           Eq(f) == f = [k \in Nat |-> IF k = 0 THEN INITIAL_EVENT_CAPACITY
                                       ELSE Min({f[k - 1] * 2, MAX_EVENT_CAPACITY})]
<1>1. INITIAL_EVENT_CAPACITY \in Nat /\ MAX_EVENT_CAPACITY \in Nat /\ INITIAL_EVENT_CAPACITY <= MAX_EVENT_CAPACITY
  BY PollerAssumption
<1>2. \A n \in Nat : Min({n * 2, MAX_EVENT_CAPACITY}) = Double(n) /\ Double(n) \in Nat
                     /\ Double(n) <= MAX_EVENT_CAPACITY
  BY <1>1, MinTwo
<1>3. F \in [Nat \X Nat -> Nat]
  <2>1. \A p \in Nat \X Nat : Min({p[2] * 2, MAX_EVENT_CAPACITY}) \in Nat
    <3> HIDE DEF Double
    <3> QED
      BY <1>2
  <2> QED
    BY <2>1
<1>4. PICK f : Recurs(f, INITIAL_EVENT_CAPACITY, F)
  <2> HIDE DEF F
  <2> QED
    BY RecursionExists
<1>5. f \in [Nat -> Nat]
  <2> HIDE DEF F
  <2> QED
    BY <1>1, <1>3, <1>4, RecursionTyped
<1>6. Eq(f)
  <2>1. ASSUME NEW k \in Nat, k # 0
        PROVE  F[<<k, f[k - 1]>>] = Min({f[k - 1] * 2, MAX_EVENT_CAPACITY})
    <3>1. k - 1 \in Nat /\ f[k - 1] \in Nat
      BY <1>5, <2>1
    <3> QED
      BY <3>1
  <2> HIDE DEF F
  <2>2. [k \in Nat |-> IF k = 0 THEN INITIAL_EVENT_CAPACITY ELSE F[<<k, f[k - 1]>>]]
        = [k \in Nat |-> IF k = 0 THEN INITIAL_EVENT_CAPACITY
                         ELSE Min({f[k - 1] * 2, MAX_EVENT_CAPACITY})]
    BY <2>1
  <2> QED
    BY <1>4, <2>2 DEF Recurs
<1>7. Batch = CHOOSE g : Eq(g)
  BY Zenon DEF Batch
<1>8. Eq(Batch)
  <2> HIDE DEF Eq
  <2> QED
    BY <1>6, <1>7
<1>9. Batch[0] = INITIAL_EVENT_CAPACITY
      /\ \A k \in Nat : Batch[k + 1] = Min({Batch[k] * 2, MAX_EVENT_CAPACITY})
  <2>1. \A k \in Nat : Batch[k] = IF k = 0 THEN INITIAL_EVENT_CAPACITY
                                  ELSE Min({Batch[k - 1] * 2, MAX_EVENT_CAPACITY})
    BY <1>8, Zenon
  <2>2. \A k \in Nat : k + 1 \in Nat /\ k + 1 # 0 /\ (k + 1) - 1 = k
    OBVIOUS
  <2> QED
    BY <2>1, <2>2
<1> HIDE DEF Eq
<1>10. \A k \in Nat : Batch[k] \in Nat /\ Batch[k] <= MAX_EVENT_CAPACITY
  <2> DEFINE T == {k \in Nat : Batch[k] \in Nat /\ Batch[k] <= MAX_EVENT_CAPACITY}
  <2>1. 0 \in T
    BY <1>1, <1>9
  <2>2. \A k \in Nat : k \in T => k + 1 \in T
    <3> SUFFICES ASSUME NEW k \in Nat, Batch[k] \in Nat
                 PROVE  Batch[k + 1] \in Nat /\ Batch[k + 1] <= MAX_EVENT_CAPACITY
      OBVIOUS
    <3> HIDE DEF Double
    <3> QED
      BY <1>2, <1>9
  <2>3. T = Nat
    <3>1. T \in SUBSET Nat
      OBVIOUS
    <3> HIDE DEF T
    <3> QED
      BY <2>1, <2>2, <3>1, SetInduction
  <2> QED
    BY <2>3
<1> QED
  BY <1>2, <1>9, <1>10

\* The same for Served: it adds the batches up.
LEMMA ServedFacts ==
    /\ Served[0] = 0
    /\ \A k \in Nat : Served[k] \in Nat /\ Served[k + 1] = Served[k] + Batch[k]
<1> DEFINE F == [p \in Nat \X Nat |-> IF p[1] = 0 THEN 0 ELSE p[2] + Batch[p[1] - 1]]
           Eq(f) == f = [k \in Nat |-> IF k = 0 THEN 0 ELSE f[k - 1] + Batch[k - 1]]
<1>1. \A k \in Nat : Batch[k] \in Nat
  BY BatchFacts
<1>2. F \in [Nat \X Nat -> Nat]
  <2>1. ASSUME NEW p \in Nat \X Nat
        PROVE  (IF p[1] = 0 THEN 0 ELSE p[2] + Batch[p[1] - 1]) \in Nat
    <3>1. p[1] \in Nat /\ p[2] \in Nat /\ (p[1] # 0 => p[1] - 1 \in Nat)
      OBVIOUS
    <3> QED
      BY <1>1, <3>1
  <2> QED
    BY <2>1
<1>3. PICK f : Recurs(f, 0, F)
  <2> HIDE DEF F
  <2> QED
    BY RecursionExists
<1>4. f \in [Nat -> Nat]
  <2> HIDE DEF F
  <2>1. 0 \in Nat
    OBVIOUS
  <2> QED
    BY <1>2, <1>3, <2>1, RecursionTyped
<1>5. Eq(f)
  <2>1. ASSUME NEW k \in Nat, k # 0
        PROVE  F[<<k, f[k - 1]>>] = f[k - 1] + Batch[k - 1]
    <3>1. k - 1 \in Nat /\ f[k - 1] \in Nat
      BY <1>4, <2>1
    <3> QED
      BY <2>1, <3>1
  <2> HIDE DEF F
  <2>2. [k \in Nat |-> IF k = 0 THEN 0 ELSE F[<<k, f[k - 1]>>]]
        = [k \in Nat |-> IF k = 0 THEN 0 ELSE f[k - 1] + Batch[k - 1]]
    BY <2>1
  <2> QED
    BY <1>3, <2>2 DEF Recurs
<1>6. Served = CHOOSE g : Eq(g)
  BY Zenon DEF Served
<1>7. Eq(Served)
  <2> HIDE DEF Eq
  <2> QED
    BY <1>5, <1>6
<1>8. Served[0] = 0 /\ \A k \in Nat : Served[k + 1] = Served[k] + Batch[k]
  <2>1. \A k \in Nat : Served[k] = IF k = 0 THEN 0 ELSE Served[k - 1] + Batch[k - 1]
    BY <1>7, Zenon
  <2>2. \A k \in Nat : k + 1 \in Nat /\ k + 1 # 0 /\ (k + 1) - 1 = k
    OBVIOUS
  <2> QED
    BY <2>1, <2>2
<1> HIDE DEF Eq
<1>9. \A k \in Nat : Served[k] \in Nat
  <2> DEFINE T == {k \in Nat : Served[k] \in Nat}
  <2>1. 0 \in T /\ \A k \in Nat : k \in T => k + 1 \in T
    BY <1>1, <1>8
  <2>2. T = Nat
    <3>1. T \in SUBSET Nat
      OBVIOUS
    <3> HIDE DEF T
    <3> QED
      BY <2>1, <3>1, SetInduction
  <2> QED
    BY <2>2
<1> QED
  BY <1>8, <1>9

-----------------------------------------------------------------------------
(* The inductive invariant *)

\* Only EpollPoller can fail to remove a descriptor.
RemovalsByEpoll == removeFailed # {} => backend = "epoll"

\* The buffer has grown with every wait that passed a descriptor over, the batches
\* of those waits and the descriptors still in front of it are all others than
\* itself, and only members of the kernel's list are passed over.
Turn ==
    /\ \A fd \in Fds : capacity >= Batch[passedOver[fd]]
    /\ \A fd \in ToSet(readyList) :
          Served[passedOver[fd]] + Cardinality(Before(readyList, fd)) < Cardinality(Fds)
    /\ ~failed => \A fd \in Fds \ ToSet(readyList) : passedOver[fd] = 0

IInv ==
    /\ TypeOK
    /\ CopiesAgree
    /\ GhostsForACause
    /\ EventsForClients
    /\ RemovalsByEpoll
    /\ Turn
    /\ NobodyStarves

\* The table without entries.
LEMMA NothingFacts ==
    /\ \A fd \in Fds : Nothing[fd] = {}
    /\ \A S : Nothing \in [Fds -> SUBSET S]
    /\ \A f : \A S : f \in [Fds -> S] /\ f # Nothing => \E fd \in Fds : f[fd] # {}
BY DEF Nothing, API!Nothing

\* What IInv says of the kernel's list.
LEMMA ListFacts ==
    ASSUME IInv
    PROVE  /\ readyList \in Seq(Fds) /\ IsInjective(readyList)
           /\ ToSet(readyList) = {fd \in Fds : kernel[fd] # {}}
<1>1. readyList \in BoundedSeq(Fds, Cardinality(Fds))
  BY DEF IInv, TypeOK
<1>2. PICK m \in 0 .. Cardinality(Fds) : readyList \in [1 .. m -> Fds]
  BY <1>1 DEF BoundedSeq, SeqOf
<1>3. m \in Nat
  BY <1>2, PollerAssumption, FS_CardinalityType
<1>4. readyList \in Seq(Fds)
  BY <1>2, <1>3
<1> QED
  BY <1>4 DEF IInv, CopiesAgree

\* Types, as used by the steps below.
LEMMA CapacityTyped ==
    ASSUME IInv
    PROVE  /\ capacity \in Nat /\ capacity >= INITIAL_EVENT_CAPACITY /\ capacity <= MAX_EVENT_CAPACITY
           /\ Cardinality(Fds) \in Nat
           /\ INITIAL_EVENT_CAPACITY \in Nat \ {0} /\ MAX_EVENT_CAPACITY \in Nat
BY PollerAssumption, FS_CardinalityType DEF IInv, TypeOK

\* The initial states satisfy it.
LEMMA InitIInv == Init => IInv
<1> SUFFICES ASSUME Init PROVE IInv
  OBVIOUS
<1>1. readyList \in Seq(Fds) /\ IsInjective(readyList) /\ ToSet(readyList) = {}
  BY DEF Init, IsInjective, ToSet
<1>2. readyList \in BoundedSeq(Fds, Cardinality(Fds))
  BY <1>1, InjectiveLength
<1>3. /\ INITIAL_EVENT_CAPACITY \in INITIAL_EVENT_CAPACITY .. MAX_EVENT_CAPACITY
      /\ INITIAL_EVENT_CAPACITY \in Nat
  BY PollerAssumption
<1>4. TypeOK
  BY <1>2, <1>3, NothingFacts DEF Init, TypeOK
<1>5. CopiesAgree
  BY <1>1, NothingFacts DEF Init, CopiesAgree
<1>6. GhostsForACause /\ EventsForClients /\ RemovalsByEpoll
  BY NothingFacts DEF Init, GhostsForACause, EventsForClients, RemovalsByEpoll
<1>7. Turn
  <2>1. \A fd \in Fds : passedOver[fd] = 0 /\ Batch[passedOver[fd]] = INITIAL_EVENT_CAPACITY
    BY BatchFacts DEF Init
  <2>2. capacity = INITIAL_EVENT_CAPACITY
    BY DEF Init
  <2> QED
    BY <1>1, <1>3, <2>1, <2>2 DEF Turn
<1>8. NobodyStarves
  <2> SUFFICES ASSUME NEW fd \in Fds PROVE 0 < Cardinality(Fds)
    BY ServedFacts DEF Init, NobodyStarves
  <2>1. Cardinality(Fds) \in Nat /\ Cardinality(Fds) # 0
    BY PollerAssumption, FS_CardinalityType, FS_EmptySet
  <2> QED
    BY <2>1
<1> QED
  BY <1>4, <1>5, <1>6, <1>7, <1>8 DEF IInv

\* A step that leaves capacity, passedOver and the kernel's list alone and does
\* not reset failed keeps Turn and NobodyStarves.
LEMMA TurnFrame ==
    ASSUME IInv, UNCHANGED <<capacity, passedOver>>,
           (readyList' = readyList /\ failed' = failed) \/ (readyList' = <<>> /\ failed')
    PROVE  Turn' /\ NobodyStarves'
<1>1. NobodyStarves'
  BY DEF IInv, NobodyStarves
<1>0. \A fd \in Fds : capacity' >= Batch[passedOver'[fd]]
  BY DEF IInv, Turn
<1>2. CASE readyList' = readyList /\ failed' = failed
  <2>1. /\ \A fd \in ToSet(readyList) :
              Served[passedOver[fd]] + Cardinality(Before(readyList, fd)) < Cardinality(Fds)
        /\ ~failed => \A fd \in Fds \ ToSet(readyList) : passedOver[fd] = 0
    BY DEF IInv, Turn
  <2>2. \A fd \in ToSet(readyList') :
           Served[passedOver'[fd]] + Cardinality(Before(readyList', fd)) < Cardinality(Fds)
    BY <1>2, <2>1
  <2>3. ~failed' => \A fd \in Fds \ ToSet(readyList') : passedOver'[fd] = 0
    BY <1>2, <2>1
  <2> QED
    BY <1>0, <1>1, <1>2, <2>2, <2>3 DEF Turn
<1>3. CASE readyList' = <<>> /\ failed'
  <2>1. ToSet(readyList') = {}
    BY <1>3 DEF ToSet
  <2> QED
    BY <1>0, <1>1, <1>3, <2>1 DEF Turn
<1> QED
  BY <1>1, <1>2, <1>3

\* AddClientInLoop.
LEMMA AddKeepsIInv ==
    ASSUME IInv, NEW fd \in Fds, NEW ctlFails \in BOOLEAN, AddClientInLoop(fd, ctlFails)
    PROVE  IInv'
<1>0. /\ TypeOK /\ CopiesAgree /\ GhostsForACause /\ RemovalsByEpoll
      /\ UNCHANGED <<backend, capacity, failed, removeFailed, passedOver>> /\ events' = Nothing
      /\ ~failed /\ m_clients[fd] = {}
  BY DEF IInv, AddClientInLoop
<1>1. EventsForClients' /\ RemovalsByEpoll' /\ events' \in [Fds -> SUBSET API!IoEvents]
  BY <1>0, NothingFacts DEF EventsForClients, RemovalsByEpoll
<1>2. CASE m_interests[fd] # {} \/ ctlFails
  <2>1. UNCHANGED <<m_interests, kernel, readyList, m_clients>>
    BY <1>2 DEF AddClientInLoop
  <2>2. TypeOK' /\ CopiesAgree' /\ GhostsForACause'
    BY <1>0, <1>1, <2>1 DEF TypeOK, CopiesAgree, GhostsForACause
  <2>3. Turn' /\ NobodyStarves'
    BY <1>0, <2>1, TurnFrame
  <2> QED
    BY <1>1, <2>2, <2>3 DEF IInv
<1>3. CASE ~(m_interests[fd] # {} \/ ctlFails)
  <2>1. /\ m_interests' = [m_interests EXCEPT ![fd] = {"Read"}]
        /\ m_clients' = [m_clients EXCEPT ![fd] = {"Read"}]
        /\ IF backend = "epoll"
           THEN /\ kernel' = [kernel EXCEPT ![fd] = {"Read"}]
                /\ readyList' = Append(readyList, fd)
           ELSE UNCHANGED <<kernel, readyList>>
    BY <1>3 DEF AddClientInLoop
  <2>2. /\ m_interests' \in [Fds -> SUBSET {"Read", "Write"}]
        /\ m_clients' \in [Fds -> SUBSET {"Read", "Write"}]
        /\ kernel' \in [Fds -> SUBSET {"Read", "Write"}]
    BY <1>0, <2>1 DEF TypeOK
  <2>3. \A x \in Fds : m_clients'[x] # {} => m_interests'[x] = m_clients'[x]
    BY <1>0, <2>1 DEF TypeOK, CopiesAgree
  <2>4. GhostsForACause'
    BY <1>0, <2>1 DEF TypeOK, GhostsForACause
  <2>5. CASE backend # "epoll"
    <3>1. UNCHANGED <<kernel, readyList>>
      BY <2>1, <2>5
    <3>2. TypeOK' /\ CopiesAgree'
      BY <1>0, <1>1, <2>2, <2>3, <2>5, <3>1 DEF TypeOK, CopiesAgree
    <3>3. Turn' /\ NobodyStarves'
      BY <1>0, <3>1, TurnFrame
    <3> QED
      BY <1>1, <2>4, <3>2, <3>3 DEF IInv
  <2>6. CASE backend = "epoll"
    <3>1. kernel = m_clients /\ kernel' = m_clients' /\ readyList' = Append(readyList, fd)
      BY <1>0, <2>1, <2>6 DEF CopiesAgree
    <3>2. /\ readyList \in Seq(Fds) /\ IsInjective(readyList)
          /\ ToSet(readyList) = {x \in Fds : kernel[x] # {}}
      BY ListFacts
    <3>3. fd \notin ToSet(readyList)
      BY <1>0, <3>1, <3>2
    <3>4. /\ readyList' \in Seq(Fds) /\ IsInjective(readyList')
          /\ ToSet(readyList') = ToSet(readyList) \cup {fd}
          /\ \A x \in ToSet(readyList) : Before(readyList', x) \subseteq Before(readyList, x)
      BY <3>1, <3>2, <3>3, AppendFacts
    <3>5. ToSet(readyList') = {x \in Fds : kernel'[x] # {}}
      <4>1. kernel' = [kernel EXCEPT ![fd] = {"Read"}] /\ kernel \in [Fds -> SUBSET {"Read", "Write"}]
        BY <1>0, <2>1, <2>6 DEF TypeOK
      <4>2. \A x \in Fds : kernel'[x] # {} <=> kernel[x] # {} \/ x = fd
        BY <4>1
      <4> QED
        BY <3>2, <3>4, <4>2
    <3>6. TypeOK'
      <4>1. readyList' \in BoundedSeq(Fds, Cardinality(Fds))
        BY <3>4, InjectiveLength
      <4> QED
        BY <1>0, <1>1, <2>2, <4>1 DEF TypeOK
    <3>7. CopiesAgree'
      BY <1>0, <2>3, <2>6, <3>1, <3>4, <3>5 DEF CopiesAgree
    <3>8. Turn'
      <4>1. \A x \in Fds : capacity' >= Batch[passedOver'[x]]
        BY <1>0 DEF IInv, Turn
      <4>2. ASSUME NEW x \in ToSet(readyList')
            PROVE  Served[passedOver'[x]] + Cardinality(Before(readyList', x)) < Cardinality(Fds)
        <5>0. x \in Fds
          BY <3>5
        <5>1. CASE x = fd
          <6>1. passedOver'[fd] = 0
            BY <1>0, <3>3 DEF IInv, Turn
          <6>2. /\ Cardinality(Before(readyList', x)) \in Nat
                /\ Cardinality(Before(readyList', x)) < Cardinality(Fds)
            BY <3>4, <5>0, BeforeProper
          <6> QED
            BY <5>1, <6>1, <6>2, ServedFacts
        <5>2. CASE x # fd
          <6>1. x \in ToSet(readyList)
            BY <3>4, <5>2
          <6>2. IsFiniteSet(Before(readyList, x)) /\ Cardinality(Before(readyList, x)) \in Nat
            BY <3>2, <5>0, BeforeProper
          <6>3. /\ Cardinality(Before(readyList', x)) <= Cardinality(Before(readyList, x))
                /\ Cardinality(Before(readyList', x)) \in Nat
            BY <3>4, <5>0, <6>1, <6>2, FS_Subset, BeforeProper
          <6>4. Served[passedOver[x]] + Cardinality(Before(readyList, x)) < Cardinality(Fds)
            BY <6>1 DEF IInv, Turn
          <6>5. Served[passedOver[x]] \in Nat /\ passedOver'[x] = passedOver[x]
            BY <1>0, <5>0, ServedFacts DEF TypeOK
          <6> QED
            BY <6>2, <6>3, <6>4, <6>5, CapacityTyped
        <5> QED
          BY <5>1, <5>2
      <4>3. \A x \in Fds \ ToSet(readyList') : passedOver'[x] = 0
        BY <1>0, <3>4 DEF IInv, Turn
      <4> QED
        BY <4>1, <4>2, <4>3 DEF Turn
    <3>9. NobodyStarves'
      BY <1>0 DEF IInv, NobodyStarves
    <3> QED
      BY <1>1, <2>4, <3>6, <3>7, <3>8, <3>9 DEF IInv
  <2> QED
    BY <2>5, <2>6
<1> QED
  BY <1>2, <1>3

\* The end of the reactor closes every descriptor.
LEMMA RunFailsKeepsIInv ==
    ASSUME IInv, RunFails
    PROVE  IInv'
<1>0. /\ TypeOK /\ failed' = TRUE /\ m_clients' = Nothing /\ events' = Nothing
      /\ UNCHANGED <<backend, m_interests, capacity, removeFailed, passedOver>>
      /\ kernel' = [fd \in Fds |-> IF fd \in Fds THEN {} ELSE kernel[fd]]
      /\ readyList' = Without(readyList, Fds)
  BY DEF IInv, RunFails, Close
<1>1. kernel' = Nothing
  BY <1>0 DEF Nothing, API!Nothing
<1>2. /\ readyList' \in Seq(Fds) /\ IsInjective(readyList') /\ ToSet(readyList') = {}
  BY <1>0, ListFacts, SublistFacts DEF Without
<1>3. readyList' = <<>>
  <2>1. Len(readyList') = 0
    BY <1>2, InjectiveLength, FS_EmptySet
  <2> QED
    BY <1>2, <2>1
<1>4. TypeOK'
  <2>1. readyList' \in BoundedSeq(Fds, Cardinality(Fds))
    BY <1>2, InjectiveLength
  <2> QED
    BY <1>0, <1>1, <2>1, NothingFacts DEF TypeOK
<1>5. CopiesAgree'
  BY <1>0, <1>1, <1>2, NothingFacts DEF CopiesAgree
<1>6. GhostsForACause' /\ EventsForClients' /\ RemovalsByEpoll'
  BY <1>0, NothingFacts DEF IInv, GhostsForACause, EventsForClients, RemovalsByEpoll
<1>7. Turn' /\ NobodyStarves'
  BY <1>0, <1>3, TurnFrame
<1> QED
  BY <1>4, <1>5, <1>6, <1>7 DEF IInv

\* RefreshConnectionInterest.
LEMMA RefreshKeepsIInv ==
    ASSUME IInv, NEW fd \in Fds, NEW ctlFails \in BOOLEAN, NEW desired \in Interests,
           RefreshConnectionInterest(fd, desired, ctlFails)
    PROVE  IInv'
<1>1. CASE m_interests[fd] = {} \/ (ctlFails /\ backend = "epoll")
  BY <1>1, RunFailsKeepsIInv DEF RefreshConnectionInterest
<1>2. CASE ~(m_interests[fd] = {} \/ (ctlFails /\ backend = "epoll"))
  <2>1. /\ m_interests' = [m_interests EXCEPT ![fd] = desired]
        /\ m_clients' = [m_clients EXCEPT ![fd] = desired]
        /\ kernel' = IF backend = "epoll" THEN [kernel EXCEPT ![fd] = desired] ELSE kernel
        /\ events' = Nothing
        /\ UNCHANGED <<backend, readyList, capacity, failed, removeFailed, passedOver>>
        /\ m_clients[fd] # {}
    BY <1>2 DEF RefreshConnectionInterest
  <2>2. /\ TypeOK /\ CopiesAgree /\ GhostsForACause /\ RemovalsByEpoll
        /\ desired \in SUBSET {"Read", "Write"} /\ desired # {}
    <3>1. desired \in (SUBSET {"Read", "Write"}) \ {{}}
      BY Zenon DEF Interests, API!Interests
    <3>2. TypeOK /\ CopiesAgree /\ GhostsForACause /\ RemovalsByEpoll
      BY DEF IInv
    <3>3. desired \in SUBSET {"Read", "Write"} /\ desired # {}
      BY <3>1, Zenon
    <3> QED
      BY <3>2, <3>3, Zenon
  <2>3. /\ m_interests' \in [Fds -> SUBSET {"Read", "Write"}]
        /\ m_clients' \in [Fds -> SUBSET {"Read", "Write"}]
        /\ kernel' \in [Fds -> SUBSET {"Read", "Write"}]
    BY <2>1, <2>2 DEF TypeOK
  <2>4. TypeOK'
    BY <2>1, <2>2, <2>3, NothingFacts DEF TypeOK
  <2>5. \A x \in Fds : m_clients'[x] # {} => m_interests'[x] = m_clients'[x]
    BY <2>1, <2>2 DEF TypeOK, CopiesAgree
  <2>6. kernel' = IF backend' = "epoll" THEN m_clients' ELSE Nothing
    BY <2>1, <2>2 DEF TypeOK, CopiesAgree
  <2>7. ToSet(readyList') = {x \in Fds : kernel'[x] # {}} /\ IsInjective(readyList')
    <3>1. \A x \in Fds : kernel'[x] # {} <=> kernel[x] # {}
      <4>1. CASE backend = "epoll"
        BY <2>1, <2>2, <4>1 DEF TypeOK, CopiesAgree
      <4>2. CASE backend # "epoll"
        BY <2>1, <4>2
      <4> QED
        BY <4>1, <4>2
    <3> QED
      BY <2>1, <2>2, <3>1 DEF CopiesAgree
  <2>8. CopiesAgree'
    BY <2>5, <2>6, <2>7 DEF CopiesAgree
  <2>9. GhostsForACause' /\ EventsForClients' /\ RemovalsByEpoll'
    BY <2>1, <2>2, NothingFacts DEF TypeOK, GhostsForACause, EventsForClients, RemovalsByEpoll
  <2>10. Turn' /\ NobodyStarves'
    BY <2>1, TurnFrame
  <2> QED
    BY <2>4, <2>8, <2>9, <2>10 DEF IInv
<1> QED
  BY <1>1, <1>2

\* CleanupClosedConnection.
LEMMA CleanupKeepsIInv ==
    ASSUME IInv, NEW fd \in Fds, NEW ctlFails \in BOOLEAN, CleanupClosedConnection(fd, ctlFails)
    PROVE  IInv'
<1>0. /\ ~failed /\ m_clients[fd] # {} /\ (ctlFails => backend = "epoll")
      /\ m_interests' = IF ctlFails THEN m_interests ELSE [m_interests EXCEPT ![fd] = {}]
      /\ removeFailed' = IF ctlFails THEN removeFailed \cup {fd} ELSE removeFailed
      /\ m_clients' = [m_clients EXCEPT ![fd] = {}]
      /\ kernel' = [x \in Fds |-> IF x \in {fd} THEN {} ELSE kernel[x]]
      /\ readyList' = Without(readyList, {fd})
      /\ events' = Nothing
      /\ passedOver' = [passedOver EXCEPT ![fd] = 0]
      /\ UNCHANGED <<backend, capacity, failed>>
  BY DEF CleanupClosedConnection, Close
<1>1. TypeOK /\ CopiesAgree /\ GhostsForACause /\ RemovalsByEpoll /\ Turn /\ NobodyStarves
  BY DEF IInv
<1>2. /\ readyList \in Seq(Fds) /\ IsInjective(readyList)
      /\ ToSet(readyList) = {x \in Fds : kernel[x] # {}}
  BY ListFacts
<1>3. /\ readyList' \in Seq(Fds) /\ IsInjective(readyList')
      /\ ToSet(readyList') = ToSet(readyList) \cap (Fds \ {fd})
      /\ \A x \in Fds : Before(readyList', x) \subseteq Before(readyList, x)
  BY <1>0, <1>2, SublistFacts DEF Without
<1>4. TypeOK'
  <2>1. readyList' \in BoundedSeq(Fds, Cardinality(Fds))
    BY <1>3, InjectiveLength
  <2>2. /\ m_interests' \in [Fds -> SUBSET {"Read", "Write"}]
        /\ m_clients' \in [Fds -> SUBSET {"Read", "Write"}]
        /\ kernel' \in [Fds -> SUBSET {"Read", "Write"}]
        /\ passedOver' \in [Fds -> Nat]
        /\ removeFailed' \subseteq Fds
    BY <1>0, <1>1 DEF TypeOK
  <2> QED
    BY <1>0, <1>1, <2>1, <2>2, NothingFacts DEF TypeOK
<1>5. CopiesAgree'
  <2>1. \A x \in Fds : m_clients'[x] # {} => m_interests'[x] = m_clients'[x]
    BY <1>0, <1>1 DEF TypeOK, CopiesAgree
  <2>2. kernel' = IF backend' = "epoll" THEN m_clients' ELSE Nothing
    <3>1. CASE backend = "epoll"
      BY <1>0, <1>1, <3>1 DEF TypeOK, CopiesAgree
    <3>2. CASE backend # "epoll"
      BY <1>0, <1>1, <3>2 DEF CopiesAgree, Nothing, API!Nothing
    <3> QED
      BY <1>0, <3>1, <3>2
  <2>3. ToSet(readyList') = {x \in Fds : kernel'[x] # {}}
    <3>1. \A x \in Fds : kernel'[x] # {} <=> kernel[x] # {} /\ x # fd
      BY <1>0
    <3> QED
      BY <1>2, <1>3, <3>1
  <2> QED
    BY <1>3, <2>1, <2>2, <2>3 DEF CopiesAgree
<1>6. GhostsForACause'
  BY <1>0, <1>1 DEF TypeOK, GhostsForACause
<1>7. EventsForClients' /\ RemovalsByEpoll'
  BY <1>0, <1>1, NothingFacts DEF EventsForClients, RemovalsByEpoll
<1>8. \A x \in Fds : passedOver'[x] = (IF x = fd THEN 0 ELSE passedOver[x]) /\ passedOver[x] \in Nat
  BY <1>0, <1>1 DEF TypeOK
<1>9. Turn'
  <2>1. \A x \in Fds : capacity' >= Batch[passedOver'[x]]
    <3>1. capacity >= Batch[0]
      BY CapacityTyped, BatchFacts
    <3> QED
      BY <1>0, <1>1, <1>8, <3>1 DEF Turn
  <2>2. ASSUME NEW x \in ToSet(readyList')
        PROVE  Served[passedOver'[x]] + Cardinality(Before(readyList', x)) < Cardinality(Fds)
    <3>1. x \in Fds /\ x # fd /\ x \in ToSet(readyList)
      BY <1>3
    <3>2. IsFiniteSet(Before(readyList, x)) /\ Cardinality(Before(readyList, x)) \in Nat
      BY <1>2, <3>1, BeforeProper
    <3>3. Cardinality(Before(readyList', x)) <= Cardinality(Before(readyList, x))
      BY <1>3, <3>1, <3>2, FS_Subset
    <3>4. Cardinality(Before(readyList', x)) \in Nat
      BY <1>3, <3>1, BeforeProper
    <3>5. Served[passedOver[x]] + Cardinality(Before(readyList, x)) < Cardinality(Fds)
      BY <1>1, <3>1 DEF Turn
    <3>6. Served[passedOver[x]] \in Nat /\ passedOver'[x] = passedOver[x]
      BY <1>8, <3>1, ServedFacts
    <3> QED
      BY <3>2, <3>3, <3>4, <3>5, <3>6, CapacityTyped
  <2>3. \A x \in Fds \ ToSet(readyList') : passedOver'[x] = 0
    BY <1>0, <1>1, <1>3, <1>8 DEF Turn
  <2> QED
    BY <2>1, <2>2, <2>3 DEF Turn
<1>10. NobodyStarves'
  <2>1. Cardinality(Fds) \in Nat /\ Cardinality(Fds) # 0
    BY PollerAssumption, FS_CardinalityType, FS_EmptySet
  <2>2. Served[0] < Cardinality(Fds)
    BY <2>1, ServedFacts
  <2> QED
    BY <1>1, <1>8, <2>2 DEF NobodyStarves
<1> QED
  BY <1>4, <1>5, <1>6, <1>7, <1>9, <1>10 DEF IInv

\* What is reported of a descriptor is registered, and asked for, an error or a
\* hangup.
LEMMA ReportFacts ==
    ASSUME NEW fd \in Fds, NEW interests \in SUBSET {"Read", "Write"}, NEW condition
    PROVE  /\ Reported(fd, interests, condition) # {} => interests # {}
           /\ FromNativeEvents(Reported(fd, interests, condition)) # {} => interests # {}
           /\ FromNativeEvents(Reported(fd, interests, condition)) \subseteq API!IoEvents
           /\ FromNativeEvents(Reported(fd, interests, condition))
                 \subseteq interests \cup {"Error", "Hangup"}
<1> PICK native : native = Reported(fd, interests, condition)
  OBVIOUS
<1>1. native # {} => interests # {}
  BY DEF Reported
<1>2. FromNativeEvents({}) = {}
  BY DEF FromNativeEvents
<1>3. FromNativeEvents(native) \subseteq API!IoEvents
  BY DEF FromNativeEvents, API!IoEvents
<1>4. /\ "IN" \in native => "Read" \in interests
      /\ "OUT" \in native => "Write" \in interests
  BY DEF Reported, Requested
<1>5. FromNativeEvents(native) \subseteq interests \cup {"Error", "Hangup"}
  BY <1>4 DEF FromNativeEvents
<1> QED
  BY <1>1, <1>2, <1>3, <1>5

\* The descriptors EpollWait finds ready, and EpollWait in terms of them.
ReadyFds(condition) == {fd \in Fds : Reported(fd, kernel[fd], condition[fd]) # {}}

\* EpollWait takes from the front of the ready ones and moves them to the back.
LEMMA EpollWaitFacts ==
    ASSUME IInv, NEW condition, EpollWait(condition),
           NEW S, S = ReadyFds(condition),
           NEW taken, taken = Taken(readyList, S, capacity)
    PROVE  /\ S \subseteq ToSet(readyList)
           /\ readyList' = Turned(readyList, taken)
           /\ capacity' = NextCapacity(Len(taken))
           /\ passedOver' = [fd \in Fds |-> IF fd \in S \ ToSet(taken) THEN passedOver[fd] + 1 ELSE 0]
           /\ events' = [fd \in Fds |-> IF fd \in ToSet(taken)
                                        THEN FromNativeEvents(Reported(fd, kernel[fd], condition[fd]))
                                        ELSE {}]
<1> DEFINE native == [fd \in Fds |-> Reported(fd, kernel[fd], condition[fd])]
<1>1. S = {fd \in Fds : native[fd] # {}}
  BY DEF ReadyFds
<1>2. S \subseteq ToSet(readyList)
  <2>1. \A fd \in Fds : kernel[fd] \in SUBSET {"Read", "Write"}
    BY DEF IInv, TypeOK
  <2> QED
    BY <2>1, ReportFacts, ListFacts DEF ReadyFds
<1>3. taken = SubSeq(Sublist(readyList, {fd \in Fds : native[fd] # {}}), 1,
                     Min({capacity, Len(Sublist(readyList, {fd \in Fds : native[fd] # {}}))}))
  BY <1>1, Zenon DEF Taken
<1>4. /\ events' = [fd \in Fds |-> IF fd \in ToSet(taken) THEN FromNativeEvents(native[fd]) ELSE {}]
      /\ readyList' = Without(readyList, ToSet(taken)) \o taken
      /\ capacity' = NextCapacity(Len(taken))
      /\ passedOver' = [fd \in Fds |->
             IF native[fd] # {} /\ fd \notin ToSet(taken) THEN passedOver[fd] + 1 ELSE 0]
  BY <1>3, Zenon DEF EpollWait
<1>5. readyList' = Turned(readyList, taken)
  BY <1>4, Zenon DEF Turned
<1>6. passedOver' = [fd \in Fds |-> IF fd \in S \ ToSet(taken) THEN passedOver[fd] + 1 ELSE 0]
  <2>1. \A fd \in Fds : native[fd] # {} /\ fd \notin ToSet(taken) <=> fd \in S \ ToSet(taken)
    BY <1>1
  <2> HIDE DEF native
  <2> QED
    BY <1>4, <2>1
<1>7. events' = [fd \in Fds |-> IF fd \in ToSet(taken)
                                THEN FromNativeEvents(Reported(fd, kernel[fd], condition[fd]))
                                ELSE {}]
  <2>1. \A fd \in Fds : native[fd] = Reported(fd, kernel[fd], condition[fd])
    OBVIOUS
  <2> HIDE DEF native
  <2> QED
    BY <1>4, <2>1
<1> QED
  BY <1>2, <1>4, <1>5, <1>6, <1>7

\* What a wait reports: nothing but events of registered connections.
LEMMA WaitReports ==
    ASSUME IInv, NEW condition, Wait(condition)
    PROVE  /\ events' \in [Fds -> SUBSET API!IoEvents]
           /\ \A fd \in Fds : events'[fd] # {} =>
                 /\ m_clients[fd] # {} /\ m_interests[fd] # {}
                 /\ events'[fd] \subseteq m_interests[fd] \cup {"Error", "Hangup"}
<1>1. /\ \A fd \in Fds : kernel[fd] \in SUBSET {"Read", "Write"} /\ m_interests[fd] \in SUBSET {"Read", "Write"}
      /\ CopiesAgree /\ GhostsForACause /\ RemovalsByEpoll
  BY DEF IInv, TypeOK
<1>2. CASE backend = "epoll"
  <2>0. EpollWait(condition)
    BY <1>2 DEF Wait
  <2>1. PICK S : S = ReadyFds(condition)
    OBVIOUS
  <2>2. PICK taken : taken = Taken(readyList, S, capacity)
    OBVIOUS
  <2>3. events' = [fd \in Fds |-> IF fd \in ToSet(taken)
                                  THEN FromNativeEvents(Reported(fd, kernel[fd], condition[fd]))
                                  ELSE {}]
    BY <2>0, <2>1, <2>2, EpollWaitFacts
  <2>4. \A fd \in Fds : kernel[fd] # {} => m_clients[fd] # {} /\ m_interests[fd] = kernel[fd]
    BY <1>1, <1>2 DEF CopiesAgree
  <2>5. ASSUME NEW fd \in Fds
        PROVE  /\ events'[fd] \in SUBSET API!IoEvents
               /\ events'[fd] # {} =>
                     /\ m_clients[fd] # {} /\ m_interests[fd] # {}
                     /\ events'[fd] \subseteq m_interests[fd] \cup {"Error", "Hangup"}
    <3>1. \/ events'[fd] = {}
          \/ events'[fd] = FromNativeEvents(Reported(fd, kernel[fd], condition[fd]))
      BY <2>3
    <3> QED
      BY <1>1, <2>4, <3>1, ReportFacts
  <2> QED
    BY <2>3, <2>5
<1>3. CASE backend # "epoll"
  <2>0. PollWait(condition) /\ ~failed
    BY <1>3 DEF Wait
  <2>1. events' = [fd \in Fds |-> FromNativeEvents(Reported(fd, m_interests[fd], condition[fd]))]
    BY <2>0 DEF PollWait
  <2>2. \A fd \in Fds : m_interests[fd] # {} => m_clients[fd] # {}
    BY <1>1, <1>3, <2>0 DEF GhostsForACause, RemovalsByEpoll
  <2>3. ASSUME NEW fd \in Fds
        PROVE  /\ events'[fd] \in SUBSET API!IoEvents
               /\ events'[fd] # {} =>
                     /\ m_clients[fd] # {} /\ m_interests[fd] # {}
                     /\ events'[fd] \subseteq m_interests[fd] \cup {"Error", "Hangup"}
    <3>1. events'[fd] = FromNativeEvents(Reported(fd, m_interests[fd], condition[fd]))
      BY <2>1
    <3>2. m_interests[fd] \in SUBSET {"Read", "Write"}
      BY <1>1
    <3> PICK c, m : c = condition[fd] /\ m = m_interests[fd]
      OBVIOUS
    <3>4. /\ FromNativeEvents(Reported(fd, m, c)) # {} => m # {}
          /\ FromNativeEvents(Reported(fd, m, c)) \subseteq API!IoEvents
          /\ FromNativeEvents(Reported(fd, m, c)) \subseteq m \cup {"Error", "Hangup"}
      BY <3>2, ReportFacts
    <3>3. /\ events'[fd] # {} => m_interests[fd] # {}
          /\ events'[fd] \subseteq API!IoEvents
          /\ events'[fd] \subseteq m_interests[fd] \cup {"Error", "Hangup"}
      BY <3>1, <3>4
    <3> QED
      BY <2>2, <3>3
  <2> QED
    BY <2>1, <2>3
<1> QED
  BY <1>2, <1>3

\* The next buffer: no smaller, within its bounds, and doubled when it was filled.
LEMMA NextCapacityFacts ==
    ASSUME IInv, NEW result \in Nat
    PROVE  /\ NextCapacity(result) \in INITIAL_EVENT_CAPACITY .. MAX_EVENT_CAPACITY
           /\ NextCapacity(result) >= capacity
           /\ result = capacity =>
                 \A k \in Nat : capacity >= Batch[k] => NextCapacity(result) >= Batch[k + 1]
<1>1. /\ capacity \in Nat /\ capacity >= INITIAL_EVENT_CAPACITY /\ capacity <= MAX_EVENT_CAPACITY
      /\ INITIAL_EVENT_CAPACITY \in Nat /\ MAX_EVENT_CAPACITY \in Nat
  BY CapacityTyped
<1>2. Min({capacity * 2, MAX_EVENT_CAPACITY})
         = IF capacity * 2 <= MAX_EVENT_CAPACITY THEN capacity * 2 ELSE MAX_EVENT_CAPACITY
  BY <1>1, MinTwo
<1>3. NextCapacity(result)
         = IF result = capacity /\ capacity < MAX_EVENT_CAPACITY
           THEN IF capacity * 2 <= MAX_EVENT_CAPACITY THEN capacity * 2 ELSE MAX_EVENT_CAPACITY
           ELSE capacity
  BY <1>2, Zenon DEF NextCapacity
<1> PICK next : next = NextCapacity(result)
  OBVIOUS
<1>4. next \in Nat /\ next >= INITIAL_EVENT_CAPACITY /\ next <= MAX_EVENT_CAPACITY /\ next >= capacity
  BY <1>1, <1>3
<1>5. ASSUME result = capacity, NEW k \in Nat, capacity >= Batch[k]
      PROVE  next >= Batch[k + 1]
  <2>1. /\ Batch[k] \in Nat
        /\ Batch[k + 1] = IF Batch[k] * 2 <= MAX_EVENT_CAPACITY
                          THEN Batch[k] * 2 ELSE MAX_EVENT_CAPACITY
    BY BatchFacts
  <2> PICK b : b = Batch[k]
    OBVIOUS
  <2>2. b \in Nat /\ Batch[k + 1] = IF b * 2 <= MAX_EVENT_CAPACITY THEN b * 2 ELSE MAX_EVENT_CAPACITY
    BY <2>1
  <2> QED
    BY <1>1, <1>3, <1>5, <2>2
<1> QED
  BY <1>1, <1>4, <1>5

\* EpollWait keeps Turn and NobodyStarves.
LEMMA EpollWaitKeepsTurn ==
    ASSUME IInv, NEW condition, EpollWait(condition), UNCHANGED failed
    PROVE  /\ Turn' /\ NobodyStarves'
           /\ readyList' \in Seq(Fds) /\ IsInjective(readyList') /\ ToSet(readyList') = ToSet(readyList)
           /\ capacity' \in INITIAL_EVENT_CAPACITY .. MAX_EVENT_CAPACITY
           /\ passedOver' \in [Fds -> Nat]
<1>1. PICK S : S = ReadyFds(condition)
  OBVIOUS
<1>2. PICK taken : taken = Taken(readyList, S, capacity)
  OBVIOUS
<1>3. /\ S \subseteq ToSet(readyList)
      /\ readyList' = Turned(readyList, taken)
      /\ capacity' = NextCapacity(Len(taken))
      /\ passedOver' = [fd \in Fds |-> IF fd \in S \ ToSet(taken) THEN passedOver[fd] + 1 ELSE 0]
  BY <1>1, <1>2, EpollWaitFacts
<1>4. /\ readyList \in Seq(Fds) /\ IsInjective(readyList) /\ ToSet(readyList) \subseteq Fds
  BY ListFacts
<1>5. capacity \in Nat /\ Cardinality(Fds) \in Nat
  BY CapacityTyped
<1>6. /\ Len(taken) \in Nat /\ ToSet(taken) \subseteq S \cap ToSet(readyList)
      /\ readyList' \in Seq(Fds) /\ IsInjective(readyList') /\ ToSet(readyList') = ToSet(readyList)
      /\ \A fd \in (S \cap ToSet(readyList)) \ ToSet(taken) :
            /\ Len(taken) = capacity
            /\ Cardinality(ToSet(taken)) = capacity
            /\ ToSet(taken) \subseteq Before(readyList, fd)
            /\ Before(readyList', fd) \subseteq Before(readyList, fd) \ ToSet(taken)
  <2>1. S \in SUBSET Fds
    BY <1>3, <1>4
  <2>2. PICK list, new, cap : list = readyList /\ new = readyList' /\ cap = capacity
    OBVIOUS
  <2>3. /\ list \in Seq(Fds) /\ IsInjective(list) /\ cap \in Nat
        /\ taken = Taken(list, S, cap) /\ new = Turned(list, taken)
    BY <1>2, <1>3, <1>4, <1>5, <2>2
  <2>4. ServesInTurn(list, S, cap, taken, new)
    BY <2>1, <2>3, WaitOrder
  <2> QED
    BY <2>2, <2>4 DEF ServesInTurn
<1>7. /\ \A fd \in Fds : passedOver[fd] \in Nat
      /\ \A fd \in S \ ToSet(taken) : passedOver'[fd] = passedOver[fd] + 1
      /\ \A fd \in Fds \ (S \ ToSet(taken)) : passedOver'[fd] = 0
      /\ S \subseteq Fds
  BY <1>3, <1>4 DEF IInv, TypeOK
<1>8. passedOver' \in [Fds -> Nat]
  <2>1. \A fd \in Fds : passedOver'[fd] \in Nat
    BY <1>7
  <2> QED
    BY <1>3, <2>1
<1>9. /\ capacity' \in INITIAL_EVENT_CAPACITY .. MAX_EVENT_CAPACITY
      /\ capacity' >= capacity
      /\ Len(taken) = capacity =>
            \A k \in Nat : capacity >= Batch[k] => capacity' >= Batch[k + 1]
  BY <1>3, <1>6, NextCapacityFacts
<1>10. /\ \A fd \in Fds : capacity >= Batch[passedOver[fd]]
       /\ \A fd \in ToSet(readyList) :
             Served[passedOver[fd]] + Cardinality(Before(readyList, fd)) < Cardinality(Fds)
       /\ ~failed => \A fd \in Fds \ ToSet(readyList) : passedOver[fd] = 0
  BY DEF IInv, Turn
\* A descriptor that is passed over: its turn has come nearer by a full batch.
<1>11. ASSUME NEW fd \in S \ ToSet(taken)
       PROVE  /\ capacity' >= Batch[passedOver'[fd]]
              /\ Served[passedOver'[fd]] + Cardinality(Before(readyList', fd)) < Cardinality(Fds)
  <2>1. PICK k : k = passedOver[fd]
    OBVIOUS
  <2>2. k \in Nat /\ passedOver'[fd] = k + 1 /\ fd \in Fds /\ fd \in ToSet(readyList)
    BY <1>3, <1>7, <2>1
  <2>3. /\ Len(taken) = capacity /\ Cardinality(ToSet(taken)) = capacity
        /\ ToSet(taken) \subseteq Before(readyList, fd)
        /\ Before(readyList', fd) \subseteq Before(readyList, fd) \ ToSet(taken)
    BY <1>6, <2>2
  <2>4. capacity >= Batch[k]
    BY <1>10, <2>1, <2>2
  <2>5. capacity' >= Batch[k + 1]
    BY <1>9, <2>2, <2>3, <2>4
  <2>6. IsFiniteSet(Before(readyList, fd)) /\ Cardinality(Before(readyList, fd)) \in Nat
    BY <1>4, <2>2, BeforeProper
  <2>7. Cardinality(Before(readyList', fd)) \in Nat
    BY <1>6, <2>2, BeforeProper
  <2>8. Cardinality(Before(readyList, fd) \ ToSet(taken)) = Cardinality(Before(readyList, fd)) - capacity
    <3>1. Before(readyList, fd) \cap ToSet(taken) = ToSet(taken)
      BY <2>3
    <3> QED
      BY <2>3, <2>6, <3>1, FS_Difference
  <2>9. Cardinality(Before(readyList', fd)) <= Cardinality(Before(readyList, fd) \ ToSet(taken))
    <3>1. IsFiniteSet(Before(readyList, fd) \ ToSet(taken))
      BY <2>6, FS_Difference
    <3> QED
      BY <2>3, <3>1, FS_Subset
  <2>10. Served[k] \in Nat /\ Served[k + 1] = Served[k] + Batch[k] /\ Batch[k] \in Nat
    BY <2>2, ServedFacts, BatchFacts
  <2>11. Served[k] + Cardinality(Before(readyList, fd)) < Cardinality(Fds)
    BY <1>10, <2>1, <2>2
  <2> PICK b, s, c, n : /\ b = Batch[k] /\ s = Served[k]
                        /\ c = Cardinality(Before(readyList, fd))
                        /\ n = Cardinality(Before(readyList', fd))
    OBVIOUS
  <2>12. b \in Nat /\ s \in Nat /\ c \in Nat /\ n \in Nat
         /\ capacity >= b /\ n <= c - capacity /\ s + c < Cardinality(Fds)
    BY <2>4, <2>6, <2>7, <2>8, <2>9, <2>10, <2>11
  <2>13. (s + b) + n < Cardinality(Fds)
    BY <1>5, <2>12
  <2>14. Served[passedOver'[fd]] + Cardinality(Before(readyList', fd)) = (s + b) + n
    BY <2>2, <2>10
  <2> QED
    BY <2>2, <2>5, <2>13, <2>14
\* The others start anew.
<1>12. ASSUME NEW fd \in Fds \ (S \ ToSet(taken))
       PROVE  /\ capacity' >= Batch[passedOver'[fd]]
              /\ Served[passedOver'[fd]] + Cardinality(Before(readyList', fd)) < Cardinality(Fds)
  <2>1. passedOver'[fd] = 0
    BY <1>7
  <2>2. capacity' >= Batch[0]
    BY <1>5, <1>9, BatchFacts, CapacityTyped
  <2>3. /\ Cardinality(Before(readyList', fd)) \in Nat
        /\ Cardinality(Before(readyList', fd)) < Cardinality(Fds)
    BY <1>6, BeforeProper
  <2> QED
    BY <2>1, <2>2, <2>3, ServedFacts
<1>13. Turn'
  <2>1. \A fd \in Fds : capacity' >= Batch[passedOver'[fd]]
    BY <1>11, <1>12
  <2>2. \A fd \in ToSet(readyList') :
           Served[passedOver'[fd]] + Cardinality(Before(readyList', fd)) < Cardinality(Fds)
    BY <1>4, <1>6, <1>11, <1>12
  <2>3. \A fd \in Fds \ ToSet(readyList') : passedOver'[fd] = 0
    BY <1>3, <1>6, <1>7
  <2> QED
    BY <2>1, <2>2, <2>3 DEF Turn
<1>14. NobodyStarves'
  <2> SUFFICES ASSUME NEW fd \in Fds
               PROVE  Served[passedOver'[fd]] < Cardinality(Fds)
    BY DEF NobodyStarves
  <2>1. Served[passedOver'[fd]] + Cardinality(Before(readyList', fd)) < Cardinality(Fds)
    BY <1>11, <1>12
  <2>2. Cardinality(Before(readyList', fd)) \in Nat
    BY <1>6, BeforeProper
  <2>3. Served[passedOver'[fd]] \in Nat
    BY <1>8, ServedFacts
  <2> QED
    BY <1>5, <2>1, <2>2, <2>3
<1> QED
  BY <1>6, <1>8, <1>9, <1>13, <1>14

\* Wait.
LEMMA WaitKeepsIInv ==
    ASSUME IInv, NEW condition, Wait(condition)
    PROVE  IInv'
<1>0. /\ UNCHANGED <<backend, m_interests, kernel, m_clients, failed, removeFailed>>
      /\ IF backend = "epoll" THEN EpollWait(condition) ELSE PollWait(condition)
  BY DEF Wait
<1>1. /\ TypeOK /\ CopiesAgree /\ GhostsForACause /\ RemovalsByEpoll
  BY DEF IInv
<1>2. /\ events' \in [Fds -> SUBSET API!IoEvents]
      /\ \A fd \in Fds : events'[fd] # {} => m_clients[fd] # {}
  BY WaitReports
<1>3. GhostsForACause' /\ EventsForClients' /\ RemovalsByEpoll'
  BY <1>0, <1>1, <1>2 DEF GhostsForACause, EventsForClients, RemovalsByEpoll
<1>4. CASE backend = "epoll"
  <2>0. EpollWait(condition)
    BY <1>0, <1>4
  <2>1. /\ Turn' /\ NobodyStarves'
        /\ readyList' \in Seq(Fds) /\ IsInjective(readyList') /\ ToSet(readyList') = ToSet(readyList)
        /\ capacity' \in INITIAL_EVENT_CAPACITY .. MAX_EVENT_CAPACITY
        /\ passedOver' \in [Fds -> Nat]
    BY <1>0, <2>0, EpollWaitKeepsTurn
  <2>2. readyList' \in BoundedSeq(Fds, Cardinality(Fds))
    BY <2>1, InjectiveLength
  <2>3. TypeOK'
    BY <1>0, <1>1, <1>2, <2>1, <2>2 DEF TypeOK
  <2>4. CopiesAgree'
    BY <1>0, <1>1, <2>1 DEF CopiesAgree
  <2> QED
    BY <1>3, <2>1, <2>3, <2>4 DEF IInv
<1>5. CASE backend # "epoll"
  <2>1. UNCHANGED <<readyList, capacity, passedOver>>
    BY <1>0, <1>5 DEF PollWait
  <2>2. TypeOK' /\ CopiesAgree'
    BY <1>0, <1>1, <1>2, <2>1 DEF TypeOK, CopiesAgree
  <2>3. Turn' /\ NobodyStarves'
    BY <1>0, <2>1, TurnFrame
  <2> QED
    BY <1>3, <2>2, <2>3 DEF IInv
<1> QED
  BY <1>4, <1>5

\* A batch ends, or nothing happens.
LEMMA QuietKeepsIInv ==
    ASSUME IInv, BatchEnds \/ UNCHANGED vars
    PROVE  IInv'
<1>0. /\ UNCHANGED <<backend, m_interests, kernel, readyList, capacity, m_clients,
                     failed, removeFailed, passedOver>>
      /\ events' = Nothing \/ events' = events
  BY DEF BatchEnds, vars
<1>1. TypeOK' /\ CopiesAgree' /\ GhostsForACause' /\ RemovalsByEpoll'
  BY <1>0, NothingFacts DEF IInv, TypeOK, CopiesAgree, GhostsForACause, RemovalsByEpoll
<1>2. EventsForClients'
  BY <1>0, NothingFacts DEF IInv, EventsForClients
<1>3. Turn' /\ NobodyStarves'
  BY <1>0, TurnFrame
<1> QED
  BY <1>1, <1>2, <1>3 DEF IInv

\* Every step keeps it.
LEMMA NextIInv == IInv /\ [Next]_vars => IInv'
<1> SUFFICES ASSUME IInv, [Next]_vars PROVE IInv'
  OBVIOUS
<1>1. CASE \E fd \in Fds, ctlFails \in BOOLEAN :
             \/ AddClientInLoop(fd, ctlFails)
             \/ CleanupClosedConnection(fd, ctlFails)
             \/ \E desired \in Interests : RefreshConnectionInterest(fd, desired, ctlFails)
  BY <1>1, AddKeepsIInv, CleanupKeepsIInv, RefreshKeepsIInv
<1>2. CASE \E condition \in [Fds -> Conditions] : Wait(condition)
  BY <1>2, WaitKeepsIInv
<1>3. CASE WaitFails
  BY <1>3, RunFailsKeepsIInv DEF WaitFails
<1>4. CASE BatchEnds \/ UNCHANGED vars
  BY <1>4, QuietKeepsIInv
<1> QED
  BY <1>1, <1>2, <1>3, <1>4 DEF Next

\* The invariant of both back ends: the three records of the interests, the origin
\* of stale entries, and the order in which EpollPoller's waits serve the list.
THEOREM PollerInvariance == Spec => []IInv
<1> QED
  BY InitIInv, NextIInv, PTL DEF Spec

\* In EpollPoller and PollPoller the records of a connection's interests never
\* drift apart, whichever system calls fail.
THEOREM InterestsAlwaysConsistent == Spec => []InterestsConsistent
<1>1. IInv => InterestsConsistent
  BY DEF IInv, InterestsConsistent
<1> QED
  BY <1>1, PollerInvariance, PTL

\* What a failed EPOLL_CTL_DEL leaves in m_interests never reaches the reactor.
THEOREM GhostsAlwaysExplained == Spec => []GhostsExplained
<1>1. IInv => GhostsExplained
  BY DEF IInv, GhostsExplained
<1> QED
  BY <1>1, PollerInvariance, PTL

\* EpollPoller::Wait, whose buffer starts small and doubles, starves no descriptor
\* whatever the number of descriptors and the two sizes of the buffer.
THEOREM NobodyEverStarves == Spec => []NobodyStarves
<1>1. IInv => NobodyStarves
  BY DEF IInv
<1> QED
  BY <1>1, PollerInvariance, PTL

\* The calls of both back ends are calls of the interface.
LEMMA StepImplementsAPI ==
    ASSUME IInv, [Next]_vars
    PROVE  [API!Next]_<<m_interests, events>>
<1>1. ASSUME NEW fd \in Fds, NEW ctlFails \in BOOLEAN, AddClientInLoop(fd, ctlFails)
      PROVE  API!Next
  <2>1. events' = API!Nothing
    BY <1>1 DEF AddClientInLoop, Nothing
  <2>2. CASE m_interests[fd] # {} \/ ctlFails
    BY <1>1, <2>1, <2>2 DEF AddClientInLoop, API!Next, API!Consumed
  <2>3. CASE ~(m_interests[fd] # {} \/ ctlFails)
    <3>1. m_interests[fd] = {} /\ m_interests' = [m_interests EXCEPT ![fd] = {"Read"}]
      BY <1>1, <2>3 DEF AddClientInLoop
    <3>2. {"Read"} \in API!Interests
      BY DEF API!Interests
    <3>3. API!Add(fd, {"Read"})
      BY <2>1, <3>1 DEF API!Add
    <3> QED
      BY <3>2, <3>3 DEF API!Next
  <2> QED
    BY <2>2, <2>3
<1>2. ASSUME RunFails
      PROVE  API!Next
  BY <1>2 DEF RunFails, Nothing, API!Next, API!Consumed
<1>3. ASSUME NEW fd \in Fds, NEW ctlFails \in BOOLEAN, NEW desired \in Interests,
             RefreshConnectionInterest(fd, desired, ctlFails)
      PROVE  API!Next
  <2>1. CASE m_interests[fd] = {} \/ (ctlFails /\ backend = "epoll")
    BY <1>2, <1>3, <2>1 DEF RefreshConnectionInterest
  <2>2. CASE ~(m_interests[fd] = {} \/ (ctlFails /\ backend = "epoll"))
    <3>1. API!Modity(fd, desired)
      BY <1>3, <2>2 DEF RefreshConnectionInterest, API!Modity, Nothing
    <3>2. desired \in API!Interests
      BY DEF Interests
    <3> QED
      BY <3>1, <3>2 DEF API!Next
  <2> QED
    BY <2>1, <2>2
<1>4. ASSUME NEW fd \in Fds, NEW ctlFails \in BOOLEAN, CleanupClosedConnection(fd, ctlFails)
      PROVE  API!Next
  <2>1. events' = API!Nothing
    BY <1>4 DEF CleanupClosedConnection, Nothing
  <2>2. CASE ctlFails
    BY <1>4, <2>1, <2>2 DEF CleanupClosedConnection, API!Next, API!Consumed
  <2>3. CASE ~ctlFails
    <3>1. API!Remove(fd)
      BY <1>4, <2>1, <2>3 DEF CleanupClosedConnection, API!Remove
    <3> QED
      BY <3>1 DEF API!Next
  <2> QED
    BY <2>2, <2>3
<1>5. ASSUME NEW condition, Wait(condition)
      PROVE  API!Next
  <2>1. m_interests' = m_interests
    BY <1>5 DEF Wait
  <2> QED
    BY <1>5, <2>1, WaitReports DEF API!Next, API!Wait
<1>6. ASSUME BatchEnds
      PROVE  API!Next
  BY <1>6 DEF BatchEnds, Nothing, API!Next, API!Consumed
<1>7. CASE UNCHANGED vars
  BY <1>7 DEF vars
<1> QED
  BY <1>1, <1>2, <1>3, <1>4, <1>5, <1>6, <1>7 DEF Next, WaitFails

\* EpollPoller and PollPoller both implement what class Poller promises.
THEOREM BackendsImplementPoller == Spec => ImplementsAPI
<1>1. Init => API!Init
  BY DEF Init, API!Init, Nothing
<1>2. IInv /\ [Next]_vars => [API!Next]_<<m_interests, events>>
  BY StepImplementsAPI
<1> QED
  BY <1>1, <1>2, PollerInvariance, PTL DEF Spec, ImplementsAPI, API!Spec

=============================================================================
