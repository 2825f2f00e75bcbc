--------------------------- MODULE MCNearbyRelay ---------------------------
(* Small instances of NearbyRelay. *)
EXTENDS NearbyRelay, TLC

CONSTANTS a, b, c     \* three devices

Pair == {{a, b}}
Line == {{a, b}, {b, c}}

FromA == [e \in Events |-> a]
Equal == [e \in Events |-> 1]
=============================================================================
