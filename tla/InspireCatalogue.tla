-------------------------- MODULE InspireCatalogue --------------------------
(***************************************************************************)
(* The index of registered-property extents (inspire.py): a file that an   *)
(* operator's command builds anew beside the running server and that each  *)
(* look-up opens for itself.  A file is the edition it was built for, with *)
(* its metadata, its polygons and whether it is complete; open files keep  *)
(* their content when another file takes their name.                       *)
(***************************************************************************)
EXTENDS Serving

CONSTANTS
  Readers,         \* look-ups in progress
  Builders,        \* builds in progress
  Polygons,        \* INSPIRE identities
  NoFile           \* nothing installed, a free reader or builder

Edition == [n : Nat, polygons : SUBSET Polygons, whole : BOOLEAN]
Lookup == [file : Edition, date : Nat]

ASSUME InspireAssumption == NoFile \notin Edition \cup Lookup

VARIABLES
  installed,   \* the file at the configured path
  builds,      \* [Builders -> Edition \cup {NoFile}]: temporary files
  lookups,     \* [Readers -> Lookup \cup {NoFile}]
  shown        \* history: what look-ups answered

inspireState == <<installed, builds, lookups, shown>>
inspireVars == <<serving, inspireState>>

InspireInit ==
  /\ installed = NoFile
  /\ builds = [b \in Builders |-> NoFile]
  /\ lookups = [r \in Readers |-> NoFile]
  /\ shown = {}

(* The temporary file is created with its tables and its metadata. *)
StartBuild(b) ==
  /\ builds[b] = NoFile
  /\ Arrival
  /\ builds' = [builds EXCEPT ![b] =
       [n |-> calls', polygons |-> {}, whole |-> FALSE]]
  /\ UNCHANGED <<installed, lookups, shown>>

(* One line of an input; an identity that was inserted before is ignored. *)
InsertPolygon(b, p) ==
  /\ builds[b] # NoFile
  /\ ~builds[b].whole
  /\ p \notin builds[b].polygons
  /\ builds' = [builds EXCEPT ![b] =
       [n |-> builds[b].n, polygons |-> builds[b].polygons \cup {p}, whole |-> FALSE]]
  /\ UNCHANGED <<serving, installed, lookups, shown>>

(* The bounds of the coverage are written and the file is closed. *)
CompleteBuild(b) ==
  /\ builds[b] # NoFile
  /\ ~builds[b].whole
  /\ builds[b].polygons # {}
  /\ builds' = [builds EXCEPT ![b] =
       [n |-> builds[b].n, polygons |-> builds[b].polygons, whole |-> TRUE]]
  /\ UNCHANGED <<serving, installed, lookups, shown>>

Installable(b) == builds[b] # NoFile /\ builds[b].whole
ReplaceInstalled(b) ==
  /\ Installable(b)
  /\ installed' = builds[b]
  /\ builds' = [builds EXCEPT ![b] = NoFile]
  /\ UNCHANGED <<serving, lookups, shown>>

(* A line that is not valid, an empty input, a kill: what is installed     *)
(* stays.                                                                  *)
AbandonBuild(b) ==
  /\ builds[b] # NoFile
  /\ builds' = [builds EXCEPT ![b] = NoFile]
  /\ UNCHANGED <<serving, installed, lookups, shown>>

(* A look-up opens the file and reads the metadata ... *)
OpenCatalogue(r) ==
  /\ lookups[r] = NoFile
  /\ installed # NoFile
  /\ Arrival
  /\ lookups' = [lookups EXCEPT ![r] = [file |-> installed, date |-> installed.n]]
  /\ UNCHANGED <<installed, builds, shown>>

(* ... and then the polygons, through the same connection. *)
Reopened(r) == installed                  \* broken: a connection per query
OpenFile(r) == lookups[r].file
ReadPolygons(r) ==
  /\ lookups[r] # NoFile
  /\ shown' = shown \cup
       {[date |-> lookups[r].date, polygons |-> OpenFile(r).polygons,
         of |-> OpenFile(r).n, whole |-> OpenFile(r).whole]}
  /\ lookups' = [lookups EXCEPT ![r] = NoFile]
  /\ UNCHANGED <<serving, installed, builds>>

InspireStep ==
  \/ \E b \in Builders :
       \/ StartBuild(b) \/ CompleteBuild(b) \/ ReplaceInstalled(b) \/ AbandonBuild(b)
       \/ \E p \in Polygons : InsertPolygon(b, p)
  \/ \E r \in Readers : OpenCatalogue(r) \/ ReadPolygons(r)

InspireNext == InspireStep \/ (Elsewhere /\ UNCHANGED inspireState)
InspireSpec == InspireInit /\ ServingInit /\ [][InspireNext]_inspireVars

-----------------------------------------------------------------------------
InspireTypeOK ==
  /\ installed \in Edition \cup {NoFile}
  /\ builds \in [Builders -> Edition \cup {NoFile}]
  /\ lookups \in [Readers -> Lookup \cup {NoFile}]
  /\ shown \subseteq [date : Nat, polygons : SUBSET Polygons, of : Nat, whole : BOOLEAN]

(* An answer shows the polygons of one complete edition under that         *)
(* edition's own date, though the file is replaced during the look-up:     *)
(* "Read-only, atomically replaceable".                                    *)
AnswersAreWhole == \A s \in shown : s.whole /\ s.date = s.of
=============================================================================
