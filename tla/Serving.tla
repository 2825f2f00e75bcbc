------------------------------ MODULE Serving ------------------------------
(***************************************************************************)
(* What every service of the relay server (apps/server) is called through: *)
(* one clock, and calls that are numbered as they arrive.  The number also *)
(* stands for the random values a call mints (identifiers, credentials,    *)
(* invitations): no two calls mint the same.                               *)
(***************************************************************************)
EXTENDS Integers, FiniteSets

CONSTANTS
  MaxNow,      \* bound: the last instant of the clock
  MaxCalls     \* bound: the calls made in a run

ASSUME ServingAssumption == MaxNow \in Nat /\ MaxCalls \in Nat

VARIABLES
  now,         \* the server's clock
  calls        \* how many calls have arrived

serving == <<now, calls>>

ServingInit == now = 0 /\ calls = 0

Arrival ==
  /\ calls < MaxCalls
  /\ calls' = calls + 1
  /\ now' = now

Tick ==
  /\ now < MaxNow
  /\ now' = now + 1
  /\ calls' = calls

(* Time passes, or other services are called. *)
Elsewhere ==
  /\ now' \in Nat /\ now' >= now
  /\ calls' \in 0..MaxCalls /\ calls' >= calls

ServingTypeOK == now \in Nat /\ calls \in 0..MaxCalls
=============================================================================
