--------------------------- MODULE RequestLimits ---------------------------
(***************************************************************************)
(* The sliding-window limiter (rate_limit.py) that every endpoint asks     *)
(* before it does anything else: for each key (an address, a credential)   *)
(* the times of the requests admitted in the last window, in a table of    *)
(* bounded size.  The clock is read just before the limiter's lock is      *)
(* taken; its unit here is far longer than that wait.                      *)
(***************************************************************************)
EXTENDS Serving, Sequences

CONSTANTS
  Keys,            \* limiter keys
  Limit,           \* maximum_requests
  Window,          \* window_seconds
  MaxKeys,         \* maximum_keys
  NoTimes          \* a key the table does not hold

ASSUME LimiterAssumption ==
  /\ Limit \in Nat \ {0}
  /\ Window \in Nat \ {0}
  /\ MaxKeys \in Nat \ {0}
  /\ NoTimes \notin Seq(Nat)

VARIABLES
  table,       \* [Keys -> Seq(Nat) \cup {NoTimes}]
  admitted     \* history: each admission, with its key and time

limitState == <<table, admitted>>

LimitInit ==
  /\ table = [k \in Keys |-> NoTimes]
  /\ admitted = {}

Size(T) == Cardinality({k \in Keys : T[k] # NoTimes})
Out(t) == t <= now - Window

(* The times are let go of from the left as long as they are out of the    *)
(* window.                                                                 *)
Lapsed(times) ==
  CHOOSE n \in 0..Len(times) :
    /\ \A i \in 1..n : Out(times[i])
    /\ n < Len(times) => ~Out(times[n + 1])
Recent(times) == SubSeq(times, Lapsed(times) + 1, Len(times))

(* A full table lets go of the keys whose last admission is out of the     *)
(* window, or that have none, before it takes a new one.                   *)
EvictedByFirst(T) ==                 \* broken: the first admission decides
  [k \in Keys |-> IF T[k] # NoTimes /\ (T[k] = <<>> \/ Out(T[k][1]))
                  THEN NoTimes ELSE T[k]]
Evicted(T) ==
  [k \in Keys |-> IF T[k] # NoTimes /\ (T[k] = <<>> \/ Out(T[k][Len(T[k])]))
                  THEN NoTimes ELSE T[k]]

TableFor(key) ==
  IF table[key] = NoTimes /\ Size(table) >= MaxKeys THEN Evicted(table) ELSE table

HasPlace(key) == TableFor(key)[key] # NoTimes \/ Size(TableFor(key)) < MaxKeys
Times(key) == IF table[key] = NoTimes THEN <<>> ELSE Recent(table[key])

Admit(key) ==
  /\ Arrival
  /\ HasPlace(key)
  /\ Len(Times(key)) < Limit
  /\ table' = [TableFor(key) EXCEPT ![key] = Append(Times(key), now)]
  /\ admitted' = admitted \cup {[key |-> key, at |-> now, n |-> calls']}

(* 429: the key has used its window up ... *)
RefuseBusy(key) ==
  /\ Arrival
  /\ HasPlace(key)
  /\ Len(Times(key)) >= Limit
  /\ table' = [TableFor(key) EXCEPT ![key] = Times(key)]
  /\ UNCHANGED admitted

(* ... or it is new and the table is full of keys in use. *)
RefuseFull(key) ==
  /\ Arrival
  /\ ~HasPlace(key)
  /\ table' = TableFor(key)
  /\ UNCHANGED admitted

LimitStep == \E key \in Keys : Admit(key) \/ RefuseBusy(key) \/ RefuseFull(key)

(* The limiter alone, whatever else the server does meanwhile. *)
LimitNext == LimitStep \/ (Elsewhere /\ UNCHANGED limitState)
limitVars == <<serving, limitState>>
LimitSpec == LimitInit /\ ServingInit /\ [][LimitNext]_limitVars

-----------------------------------------------------------------------------
Within(key, from, to) ==
  {a \in admitted : a.key = key /\ a.at > from /\ a.at <= to}

LimitTypeOK ==
  /\ table \in [Keys -> Seq(Nat) \cup {NoTimes}]
  /\ Size(table) <= MaxKeys
  /\ \A k \in Keys : table[k] # NoTimes => Len(table[k]) <= Limit
  /\ admitted \subseteq [key : Keys, at : Nat, n : Nat]

(* No key is admitted more often than the limit in any window, whenever    *)
(* the table has let go of it in between: "the global window bounds the    *)
(* whole keyspace's guess rate".                                           *)
RateHeld ==
  \A k \in Keys, t \in 0..now : Cardinality(Within(k, t - Window, t)) <= Limit

=============================================================================
