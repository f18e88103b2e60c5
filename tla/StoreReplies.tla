----------------------------- MODULE StoreReplies -----------------------------
(***************************************************************************)
(* What the operations of class KVStore return                             *)
(* (include/tinykv/core/kv_store.h), as records tagged with the operation. *)
(* The abstract TTLMap and the detailed KVStore share them, so that one    *)
(* is compared with the other on the answers a caller sees.                *)
(***************************************************************************)
EXTENDS Integers

CONSTANTS
    Keys,      \* the keys clients name
    Values,    \* the values clients store
    Nil        \* "the output parameter was not assigned"

ASSUME NilAssumption == Nil \notin Values

NoReply == [op |-> "none"]

SetReply(k)           == [op |-> "set", key |-> k]
GetReply(k, ok, v)    == [op |-> "get", key |-> k, ok |-> ok, value |-> v]
DelReply(k, ok)       == [op |-> "del", key |-> k, ok |-> ok]
ExpireReply(k, ok)    == [op |-> "expire", key |-> k, ok |-> ok]
TtlReply(k, secs)     == [op |-> "ttl", key |-> k, secs |-> secs]

\* KVStore::InnerStats; keys is also what KVStore::Size returns.
StatsReply(persistent, expiring) ==
    [op |-> "stats", keys |-> persistent + expiring,
     persistentKeys |-> persistent, expiringKeys |-> expiring]

\* KVStore::SweepResult.
SweepReply(processed, removed, more, rebuilt) ==
    [op |-> "sweep", processed |-> processed, removed |-> removed,
     hasMoreExpired |-> more, heapRebuilt |-> rebuilt]

Replies ==
         {NoReply}
    \cup [op : {"set"}, key : Keys]
    \cup [op : {"get"}, key : Keys, ok : BOOLEAN, value : Values \cup {Nil}]
    \cup [op : {"del", "expire"}, key : Keys, ok : BOOLEAN]
    \cup [op : {"ttl"}, key : Keys, secs : Int]
    \cup [op : {"stats"}, keys : Nat, persistentKeys : Nat, expiringKeys : Nat]
    \cup [op : {"sweep"}, processed : Nat, removed : Nat,
          hasMoreExpired : BOOLEAN, heapRebuilt : BOOLEAN]

=============================================================================
