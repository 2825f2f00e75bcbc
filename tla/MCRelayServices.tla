-------------------------- MODULE MCRelayServices --------------------------
EXTENDS RelayServices, TLC

CONSTANTS t1, t2, p, q, x, y, k, m

(* Four calls put a room through its overlaps, three the services whose    *)
(* calls have many forms; the limiter needs more before its table is full. *)
MCCallBound == [s \in Services |->
  CASE s = "rooms" -> 4
    [] s \in {"codes", "alerts", "observers"} -> 3
    [] s = "limits" -> 6
    [] OTHER -> 5]

(* Crew rooms and the catalogue do not read the clock. *)
MCTimeBound == [s \in Services |->
  CASE s \in {"rooms", "catalogue"} -> 0
    [] s \in {"alerts", "observers"} -> 1
    [] s = "codes" -> 2
    [] OTHER -> 3]

(* What two devices upload: k coordinates and may leave, m calls for help. *)
Event(d, type, role) == [by |-> d, type |-> type, role |-> role, to |-> {}]
MCBodies ==
  {Event(k, "riderJoined", "coordinator"), Event(k, "riderLeft", "rider"),
   Event(m, "emergencyStop", "rider")}

(* The services are never exercised together, so they may share their      *)
(* model values: threads, requests and readers are t1 and t2, and so on.   *)
Symmetry ==
  Permutations({t1, t2}) \cup Permutations({p, q}) \cup Permutations({x, y})
=============================================================================
