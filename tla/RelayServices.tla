--------------------------- MODULE RelayServices ----------------------------
(***************************************************************************)
(* The services of the relay beside the synchronization of rides: crew     *)
(* rooms, ride codes, plans, traffic incidents, the catalogue of property  *)
(* extents, push alerts, observer grants, and the limiter in front of them.*)
(* They share the clock, and a ride's row lock where ServerThreads is      *)
(* about it, but no other state; so a behaviour exercises one of them.     *)
(***************************************************************************)
EXTENDS CrewRoom, JoinCodes, RidePlans, RequestLimits, TrafficIncidents,
        InspireCatalogue, PushDispatch, ObserverGrants

CONSTANTS
  CallBound,       \* bound: [Services -> 0..MaxCalls], the calls of each
  TimeBound        \* bound: [Services -> 0..MaxNow], the instants of each

VARIABLE exercised
Services == {"rooms", "codes", "plans", "limits", "traffic", "catalogue",
             "alerts", "observers"}

vars == <<serving, exercised, crewState, joinState, planState, limitState,
          trafficState, inspireState, pushState, observerState>>

Init ==
  /\ ServingInit /\ CrewInit /\ JoinInit /\ PlanInit /\ LimitInit
  /\ TrafficInit /\ InspireInit /\ PushInit /\ ObserverInit
  /\ exercised \in Services
  /\ exercised # "alerts" => log = <<>> /\ ready

CallsBounded == calls' <= CallBound[exercised]

Rooms ==
  /\ exercised = "rooms" /\ CrewStep /\ CallsBounded
  /\ UNCHANGED <<exercised, joinState, planState, limitState, trafficState,
                 inspireState, pushState, observerState>>
RideCodes ==
  /\ exercised = "codes" /\ JoinStep /\ CallsBounded
  /\ UNCHANGED <<exercised, crewState, planState, limitState, trafficState,
                 inspireState, pushState, observerState>>
Plans ==
  /\ exercised = "plans" /\ PlanStep /\ CallsBounded
  /\ UNCHANGED <<exercised, crewState, joinState, limitState, trafficState,
                 inspireState, pushState, observerState>>
Limits ==
  /\ exercised = "limits" /\ LimitStep /\ CallsBounded
  /\ UNCHANGED <<exercised, crewState, joinState, planState, trafficState,
                 inspireState, pushState, observerState>>
Traffic ==
  /\ exercised = "traffic" /\ TrafficStep /\ CallsBounded
  /\ UNCHANGED <<exercised, crewState, joinState, planState, limitState,
                 inspireState, pushState, observerState>>
Catalogue ==
  /\ exercised = "catalogue" /\ InspireStep /\ CallsBounded
  /\ UNCHANGED <<exercised, crewState, joinState, planState, limitState,
                 trafficState, pushState, observerState>>
Alerts ==
  /\ exercised = "alerts" /\ PushStep /\ CallsBounded
  /\ UNCHANGED <<exercised, crewState, joinState, planState, limitState,
                 trafficState, inspireState, observerState>>
Observers ==
  /\ exercised = "observers" /\ ObserverStep /\ CallsBounded
  /\ UNCHANGED <<exercised, crewState, joinState, planState, limitState,
                 trafficState, inspireState, pushState>>

Pass ==
  /\ JoinQuiet
  /\ now < TimeBound[exercised]
  /\ Tick
  /\ UNCHANGED <<exercised, crewState, joinState, planState, limitState,
                 trafficState, inspireState, pushState, observerState>>

Next ==
  \/ Rooms \/ RideCodes \/ Plans \/ Limits \/ Traffic \/ Catalogue
  \/ Alerts \/ Observers \/ Pass

Spec == Init /\ [][Next]_vars

-----------------------------------------------------------------------------
(* Every row has the type its table gives it and no table outgrows its     *)
(* limit.                                                                  *)
TypeOK ==
  /\ CrewTypeOK /\ JoinTypeOK /\ PlanTypeOK /\ LimitTypeOK
  /\ TrafficTypeOK /\ InspireTypeOK /\ PushTypeOK /\ ObserverTypeOK
=============================================================================
