----------------------------- MODULE RideJournal -----------------------------
(***************************************************************************)
(* What the relay promises about the journal of one ride, whatever its     *)
(* handlers, transactions and retention jobs do: a log that devices read   *)
(* from a cursor.  A call may add events and may mint a cursor; retention  *)
(* may drop rows.  An event is in the log once, and nothing is ever added  *)
(* at or below a row of the log or a cursor that was given out, so polling *)
(* from a cursor misses only what retention has dropped.                   *)
(***************************************************************************)
EXTENDS Naturals

CONSTANT Events

VARIABLES
  log,      \* the stored rows: [seq, id]
  minted    \* every cursor given out

vars == <<log, minted>>

LogRow == [seq : Nat \ {0}, id : Events]
Added == log' \ log

Init ==
  /\ log = {}
  /\ minted = {0}

(* A served call: the rows it adds take numbers above everything read so   *)
(* far, and a cursor it mints is one it was given or a row it has shown.   *)
Serve ==
  /\ log' \subseteq LogRow
  /\ \A r \in Added : \A s \in log' : (r.id = s.id \/ r.seq = s.seq) => r = s
  /\ \A r \in Added :
       /\ \A s \in log : s.seq < r.seq
       /\ \A c \in minted : c < r.seq
  /\ minted \subseteq minted'
  /\ minted' \subseteq minted \cup {r.seq : r \in log'}

(* Retention, or the deletion of the ride. *)
Forget ==
  /\ log' \subseteq log
  /\ minted' = minted

Next == Serve \/ Forget

Spec == Init /\ [][Next]_vars
=============================================================================
