-------------------------------- MODULE TTLMap --------------------------------
(***************************************************************************)
(* What the store promises its callers (the contract stated in the         *)
(* comments of include/tinykv/core/kv_store.h): a map from keys to values, *)
(* each with an optional instant at which it ceases to exist.  There is no *)
(* heap, no generation and no lazy deletion here: at that very instant a   *)
(* key is gone, and sweeping is invisible.                                 *)
(***************************************************************************)
EXTENDS StoreReplies, FiniteSets, Functions

CONSTANTS
    Seconds,          \* the arguments EXPIRE is called with
    TicksPerSecond,   \* clock ticks in one second
    NoExpiry          \* the empty optional<TimePoint>

VARIABLES
    map,     \* key |-> [value, expireAt], exactly the keys that exist now
    clock,   \* steady_clock, in ticks
    ret      \* what the latest operation returned

absVars == <<map, clock, ret>>

\* The map with k bound to e.
With(f, k, e) == [x \in DOMAIN f \cup {k} |-> IF x = k THEN e ELSE f[x]]

Persistent == {k \in DOMAIN map : map[k].expireAt = NoExpiry}

Init ==
    /\ map = [k \in {} |-> Nil]
    /\ clock = 0
    /\ ret = NoReply

\* SET overwrites the value and removes the time to live.
Set(k, v) ==
    /\ map' = With(map, k, [value |-> v, expireAt |-> NoExpiry])
    /\ ret' = SetReply(k)
    /\ UNCHANGED clock

Get(k) ==
    /\ ret' = IF k \in DOMAIN map THEN GetReply(k, TRUE, map[k].value)
                                  ELSE GetReply(k, FALSE, Nil)
    /\ UNCHANGED <<map, clock>>

Del(k) ==
    /\ ret' = DelReply(k, k \in DOMAIN map)
    /\ map' = Restrict(map, DOMAIN map \ {k})
    /\ UNCHANGED clock

\* EXPIRE succeeds exactly on an existing key and a positive time.
Expire(k, s) ==
    /\ ret' = ExpireReply(k, s > 0 /\ k \in DOMAIN map)
    /\ map' = IF s > 0 /\ k \in DOMAIN map
              THEN [map EXCEPT ![k].expireAt = clock + s * TicksPerSecond]
              ELSE map
    /\ UNCHANGED clock

\* TTL is -2, -1, or the least number of whole seconds that covers the time
\* the key still has.
Ttl(k) ==
    /\ \/ /\ k \notin DOMAIN map
          /\ ret' = TtlReply(k, -2)
       \/ /\ k \in Persistent
          /\ ret' = TtlReply(k, -1)
       \/ /\ k \in DOMAIN map \ Persistent
          /\ LET left == map[k].expireAt - clock
             IN  \E s \in 1..left :
                    /\ (s - 1) * TicksPerSecond < left
                    /\ left <= s * TicksPerSecond
                    /\ ret' = TtlReply(k, s)
    /\ UNCHANGED <<map, clock>>

\* The counts: persistent keys exactly; keys with a time to live at least the
\* existing ones, because expired ones may still be in storage; never more
\* than there are keys to store.
Stats ==
    /\ \E e \in 0..Cardinality(Keys) :
          /\ e >= Cardinality(DOMAIN map \ Persistent)
          /\ e + Cardinality(Persistent) <= Cardinality(Keys)
          /\ ret' = StatsReply(Cardinality(Persistent), e)
    /\ UNCHANGED <<map, clock>>

\* Sweeping changes nothing a caller can see but its own report.
Sweep ==
    /\ ret'.op = "sweep"
    /\ UNCHANGED <<map, clock>>

\* Time passes, and the keys whose instant has come are gone.
Tick ==
    /\ clock' = clock + 1
    /\ map' = RestrictValues(map,
                 LAMBDA e : e.expireAt = NoExpiry \/ clock + 1 < e.expireAt)
    /\ UNCHANGED ret

Next ==
    \/ \E k \in Keys :
          \/ \E v \in Values : Set(k, v)
          \/ Get(k)
          \/ Del(k)
          \/ \E s \in Seconds : Expire(k, s)
          \/ Ttl(k)
    \/ Stats
    \/ Sweep
    \/ Tick

Spec == Init /\ [][Next]_absVars

=============================================================================
