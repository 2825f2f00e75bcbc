----------------------------- MODULE RidePlans -----------------------------
(***************************************************************************)
(* Forecast plans behind a short code (service.py, create_plan and         *)
(* get_plan; gpx.py).  create_plan is served on the event loop and awaits  *)
(* nothing after its request has been read, so two creations never         *)
(* overlap; look-ups run in worker threads beside it.                      *)
(*                                                                         *)
(* A document is told apart by what its validation looks at: the GPX text, *)
(* its number of points, and the structured plan with the GPX it repeats   *)
(* and the points of its geometry.  The number of a call stands for the    *)
(* document it stores.                                                     *)
(***************************************************************************)
EXTENDS Serving, Sequences

CONSTANTS
  PlanCodes,       \* the codes a draw may return
  Attempts,        \* how often a taken code is drawn again
  MaxPlanPoints,   \* maximum_plan_points
  PlanLife,        \* plan_retention_days
  NoPlan           \* no such row

Gpx == [wellFormed : BOOLEAN, points : 0..MaxPlanPoints + 1]
Structured == [present : BOOLEAN, repeatsGpx : BOOLEAN,
               points : 0..MaxPlanPoints + 1]
CreatePlanRequest == [gpx : Gpx, plan : Structured]
RidePlan == [call : Nat, expires : Nat]

ASSUME PlanAssumption ==
  /\ Attempts \in Nat \ {0}
  /\ MaxPlanPoints \in Nat \ {0}
  /\ PlanLife \in Nat \ {0}
  /\ NoPlan \notin RidePlan

VARIABLES
  plans,       \* [PlanCodes -> RidePlan \cup {NoPlan}]
  given        \* history: the codes handed out, with the plan behind each

planState == <<plans, given>>
planVars == <<serving, planState>>

PlanInit ==
  /\ plans = [c \in PlanCodes |-> NoPlan]
  /\ given = {}

Importable(gpx) == gpx.wellFormed /\ gpx.points \in 1..MaxPlanPoints
Accepted(req) ==
  /\ Importable(req.gpx)
  /\ req.plan.present => req.plan.repeatsGpx /\ req.plan.points <= MaxPlanPoints

Purged == [c \in PlanCodes |->
  IF plans[c] # NoPlan /\ plans[c].expires <= now THEN NoPlan ELSE plans[c]]

RefusePlan ==
  /\ Arrival
  /\ \E req \in CreatePlanRequest : ~Accepted(req)
  /\ UNCHANGED planState

(* Codes are drawn until one is free; each INSERT has a savepoint of its   *)
(* own, so that a taken code undoes nothing else.                          *)
Overwriting(draws) == TRUE       \* broken: a taken code is handed out again
FirstFree(draws) ==
  /\ \A i \in 1..Len(draws) - 1 : Purged[draws[i]] # NoPlan
  /\ Purged[draws[Len(draws)]] = NoPlan

CreatePlan ==
  /\ Arrival
  /\ \E req \in CreatePlanRequest : Accepted(req)
  /\ \E k \in 1..Attempts : \E draws \in [1..k -> PlanCodes] :
       /\ FirstFree(draws)
       /\ plans' = [Purged EXCEPT ![draws[k]] =
            [call |-> calls', expires |-> now + PlanLife]]
       /\ given' = given \cup
            {[code |-> draws[k], call |-> calls', expires |-> now + PlanLife]}

(* 500: every draw was taken; the purge is rolled back with the rest. *)
NoCodeLeft ==
  /\ Arrival
  /\ \E c \in PlanCodes : Purged[c] # NoPlan
  /\ UNCHANGED planState

(* get_plan: the deletion of an expired plan is rolled back by the error.  *)
GetPlan(code) ==
  IF plans[code] # NoPlan /\ plans[code].expires > now THEN plans[code] ELSE NoPlan

(* The scheduled cleanup. *)
PurgePlans == plans # Purged /\ plans' = Purged /\ UNCHANGED <<serving, given>>

PlanStep == RefusePlan \/ CreatePlan \/ NoCodeLeft \/ PurgePlans

(* Plans alone, whatever else the server does meanwhile. *)
PlanNext == PlanStep \/ (Elsewhere /\ UNCHANGED planState)
PlanSpec == PlanInit /\ ServingInit /\ [][PlanNext]_planVars

-----------------------------------------------------------------------------
PlanTypeOK ==
  /\ plans \in [PlanCodes -> RidePlan \cup {NoPlan}]
  /\ given \subseteq [code : PlanCodes, call : Nat, expires : Nat]

(* A code that was handed out leads to its own plan until it expires,      *)
(* whatever codes later creations draw and whenever the cleanup runs.      *)
PlanCodeStands ==
  \A g \in given : g.expires > now =>
    GetPlan(g.code) = [call |-> g.call, expires |-> g.expires]
=============================================================================
