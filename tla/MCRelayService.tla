-------------------------- MODULE MCRelayService --------------------------
(* Small instances of RelayService: one ride, a handful of events.         *)
EXTENDS RelayService, TLC

CONSTANTS started, ended, reopened, note, chat   \* the events of an instance

MCEvents == {started, ended, reopened, note, chat}
MCEventType ==
  started :> "rideStarted" @@ ended :> "rideEnded" @@
  reopened :> "rideReopened" @@ note :> "note" @@ chat :> "note"
(* Lifecycle events live as long as a ride (72 h); chat is a short-lived   *)
(* message, note one whose sender stamped a deadline of its own.           *)
MCEventRetention ==
  [e \in MCEvents |-> IF e = chat THEN 1 ELSE RideRetention]
MCClientExpiry == [e \in MCEvents |-> IF e = note THEN 2 ELSE 99]

HandlerSymmetry == Permutations(Handlers)

RideBatches ==
  {<<>>, <<ended, note>>, <<ended, reopened>>, <<reopened, chat>>}
LifecycleBatches == {<<>>, <<ended>>, <<reopened>>}
=============================================================================
