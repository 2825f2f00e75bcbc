-------------------------- MODULE MCPilotAuthority --------------------------
(* Small instances of PilotAuthority: the pilot a and a crew of two. *)
EXTENDS PilotAuthority, TLC

CONSTANTS a, b, c

InStep == [d \in Devices |-> 0]
Crew == Permutations({b, c})
=============================================================================
