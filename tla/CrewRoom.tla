------------------------------ MODULE CrewRoom ------------------------------
(***************************************************************************)
(* Reusable crew rooms (service.py, create_crew_room and the operations    *)
(* after it): a room has an alias, an owner, a current operation with its  *)
(* invitation, and one row per enrolled device.                            *)
(*                                                                         *)
(* A call is one READ COMMITTED transaction.  It selects the rows it       *)
(* decides by without locking them (step Read); at the commit the ORM      *)
(* issues an UPDATE for the columns that differ from what it has loaded,   *)
(* and only for those (step Write).  Another call may commit in between.   *)
(* An UPDATE of a row that is gone, and an INSERT that meets a unique      *)
(* constraint, fail the whole call with status 500.                        *)
(*                                                                         *)
(* The number of a call stands for the identity of a room it creates and   *)
(* for the credential, the invitation and the operation it writes.  What   *)
(* no decision reads is left out: profiles, last-seen times, and the       *)
(* expiry of the operation, which only hides it from an answer.            *)
(***************************************************************************)
EXTENDS Serving

CONSTANTS
  Threads,     \* worker threads that serve crew-room calls
  Phones,      \* device identities
  Aliases,     \* normalised room aliases
  NoRow        \* the answer of a SELECT that finds nothing

RoomIds == 1..MaxCalls
RoomRow == [alias : Aliases, owner : Phones, invite : RoomIds,
            generation : Nat]
MemberRow == [credential : RoomIds, revoked : BOOLEAN]
Seats == RoomIds \X Phones

CrewKinds == {"create", "open", "list", "join", "start", "rename",
              "transfer", "revoke", "delete"}
OwnerKinds == {"list", "start", "rename", "transfer", "revoke", "delete"}
CrewRequest == [kind : CrewKinds, phone : Phones, alias : Aliases,
                key : Nat, to : Phones \cup Aliases]

CrewCall == [n : RoomIds, req : CrewRequest, phase : {"open", "write"},
             id : RoomIds, room : RoomRow \cup {NoRow},
             member : MemberRow \cup {NoRow}]

ASSUME CrewAssumption ==
  /\ Phones \cap Aliases = {}
  /\ NoRow \notin RoomRow \cup MemberRow \cup CrewCall

VARIABLES
  rooms,       \* [RoomIds -> RoomRow \cup {NoRow}]
  members,     \* [Seats -> MemberRow \cup {NoRow}]
  crew,        \* [Threads -> CrewCall \cup {NoRow}]: the calls in progress
  issued,      \* history: credentials handed out, with their device
  invited,     \* history: the invitations each room has had
  overtaken    \* history: rooms whose transfer and revocation overlapped

crewState == <<rooms, members, crew, issued, invited, overtaken>>
crewVars == <<serving, crewState>>

CrewInit ==
  /\ rooms = [r \in RoomIds |-> NoRow]
  /\ members = [s \in Seats |-> NoRow]
  /\ crew = [t \in Threads |-> NoRow]
  /\ issued = {}
  /\ invited = [r \in RoomIds |-> {}]
  /\ overtaken = {}

Standing == {r \in RoomIds : rooms[r] # NoRow}
Named(alias) == {r \in Standing : rooms[r].alias = alias}
Active(s) == members[s] # NoRow /\ ~members[s].revoked
Invitations == UNION {invited[r] : r \in RoomIds}

-----------------------------------------------------------------------------
(***************************************************************************)
(* The endpoints.  A device presents a credential it was given at some     *)
(* time, current or not; an invitation is shown around as a QR code, so    *)
(* any device may present any of them, current or not.                     *)
(***************************************************************************)
CreateCrewRoomRequest ==
  {[kind |-> "create", phone |-> p, alias |-> a, key |-> 0, to |-> a] :
     p \in Phones, a \in Aliases}
JoinCrewRoomRequest ==
  {[kind |-> "join", phone |-> p, alias |-> a, key |-> i, to |-> a] :
     p \in Phones, a \in Aliases, i \in Invitations}
CrewRoomAuthRequest(kind) ==
  {[kind |-> kind, phone |-> g.phone, alias |-> a, key |-> g.key, to |-> a] :
     g \in issued, a \in Aliases}
RenameCrewRoomRequest ==
  {[q EXCEPT !.to = a] : q \in CrewRoomAuthRequest("rename"), a \in Aliases}
CrewRoomTargetDeviceRequest(kind) ==
  {[q EXCEPT !.to = p] : q \in CrewRoomAuthRequest(kind), p \in Phones}

Ask(t, req) ==
  /\ crew[t] = NoRow
  /\ Arrival
  /\ crew' = [crew EXCEPT ![t] =
       [n |-> calls', req |-> req, phase |-> "open", id |-> calls',
        room |-> NoRow, member |-> NoRow]]
  /\ UNCHANGED <<rooms, members, issued, invited, overtaken>>

AskCreate(t) == \E q \in CreateCrewRoomRequest : Ask(t, q)
AskOpen(t) == \E q \in CrewRoomAuthRequest("open") : Ask(t, q)
AskJoin(t) == \E q \in JoinCrewRoomRequest : Ask(t, q)
AskStart(t) == \E q \in CrewRoomAuthRequest("start") : Ask(t, q)
AskList(t) == \E q \in CrewRoomAuthRequest("list") : Ask(t, q)
AskRename(t) == \E q \in RenameCrewRoomRequest : Ask(t, q)
AskTransfer(t) == \E q \in CrewRoomTargetDeviceRequest("transfer") : Ask(t, q)
AskRevoke(t) == \E q \in CrewRoomTargetDeviceRequest("revoke") : Ask(t, q)
AskDelete(t) == \E q \in CrewRoomAuthRequest("delete") : Ask(t, q)

-----------------------------------------------------------------------------
(***************************************************************************)
(* What a call decides by the rows it reads.                               *)
(***************************************************************************)
AuthoriseCrewRoomDevice(req, r) ==
  /\ Active(<<r, req.phone>>)
  /\ members[<<r, req.phone>>].credential = req.key
  /\ req.kind \in OwnerKinds => rooms[r].owner = req.phone

AliasFree(req, r) == req.kind = "rename" => Named(req.to) \subseteq {r}
TargetActive(req, r) == req.kind \in {"transfer", "revoke"} => Active(<<r, req.to>>)
NobodySpared(req, r) == TRUE     \* broken: the owner may be revoked
OwnerSpared(req, r) == req.kind = "revoke" => req.to # rooms[r].owner

Permitted(req, r) ==
  IF req.kind = "join" THEN rooms[r].invite = req.key
  ELSE /\ AuthoriseCrewRoomDevice(req, r)
       /\ AliasFree(req, r)
       /\ TargetActive(req, r)
       /\ OwnerSpared(req, r)

(* A call that creates a room only looks the alias up. *)
ReadForCreate(t) ==
  /\ crew[t] # NoRow
  /\ crew[t].phase = "open"
  /\ crew[t].req.kind = "create"
  /\ Named(crew[t].req.alias) = {}
  /\ crew' = [crew EXCEPT ![t] = [@ EXCEPT !.phase = "write"]]
  /\ UNCHANGED <<serving, rooms, members, issued, invited, overtaken>>

(* Any other call finds the room by its alias and is permitted. *)
Read(t) ==
  /\ crew[t] # NoRow
  /\ crew[t].phase = "open"
  /\ crew[t].req.kind # "create"
  /\ \E r \in Named(crew[t].req.alias) :
       /\ Permitted(crew[t].req, r)
       /\ crew' = [crew EXCEPT ![t] =
            [@ EXCEPT !.phase = "write", !.id = r, !.room = rooms[r],
                      !.member = members[<<r, crew[t].req.phone>>]]]
  /\ UNCHANGED <<serving, rooms, members, issued, invited, overtaken>>

(* The answer to a call, whatever it says. *)
Answer(t) == crew' = [crew EXCEPT ![t] = NoRow]

(* 404 or 409: nothing is written. *)
RefuseCall(t) ==
  /\ crew[t] # NoRow
  /\ crew[t].phase = "open"
  /\ IF crew[t].req.kind = "create" THEN Named(crew[t].req.alias) # {}
     ELSE \A r \in Named(crew[t].req.alias) : ~Permitted(crew[t].req, r)
  /\ Answer(t)
  /\ UNCHANGED <<serving, rooms, members, issued, invited, overtaken>>

-----------------------------------------------------------------------------
(***************************************************************************)
(* What the operations write.                                              *)
(***************************************************************************)
Writing(t, kinds) ==
  /\ crew[t] # NoRow
  /\ crew[t].phase = "write"
  /\ crew[t].req.kind \in kinds
  /\ UNCHANGED serving

AliasTaken(a, r) == FALSE        \* broken: no unique constraint
AliasConflict(a, r) == Named(a) \ {r} # {}

Create(t) ==
  LET c == crew[t] IN
  /\ Writing(t, {"create"})
  /\ ~AliasConflict(c.req.alias, c.id)
  /\ rooms' = [rooms EXCEPT ![c.id] =
       [alias |-> c.req.alias, owner |-> c.req.phone, invite |-> c.n,
        generation |-> 1]]
  /\ members' = [members EXCEPT ![<<c.id, c.req.phone>>] =
       [credential |-> c.n, revoked |-> FALSE]]
  /\ issued' = issued \cup {[phone |-> c.req.phone, key |-> c.n]}
  /\ invited' = [invited EXCEPT ![c.id] = {c.n}]
  /\ Answer(t)
  /\ UNCHANGED overtaken

(* The UPDATE of the caller's own row by a call that changes none of its   *)
(* columns kept here: it has to find the row.                              *)
SeenRow(t, s) == [members EXCEPT ![s] = crew[t].member]   \* broken: all columns
Touched(t, s) == members

(* open_crew_room and list_crew_room_devices change nothing kept here. *)
OpenOrList(t) ==
  LET s == <<crew[t].id, crew[t].req.phone>> IN
  /\ Writing(t, {"open", "list"})
  /\ members[s] # NoRow
  /\ members' = Touched(t, s)
  /\ Answer(t)
  /\ UNCHANGED <<rooms, issued, invited, overtaken>>

(* A join is an INSERT if the device was not enrolled, and otherwise an    *)
(* UPDATE that lifts a revocation the call has read.                       *)
Join(t) ==
  LET c == crew[t]
      s == <<c.id, c.req.phone>>
  IN
  /\ Writing(t, {"join"})
  /\ rooms[c.id] # NoRow
  /\ (c.member = NoRow) <=> (members[s] = NoRow)
  /\ members' = [members EXCEPT ![s] =
       [credential |-> c.n,
        revoked |-> members[s] # NoRow /\ members[s].revoked /\ ~c.member.revoked]]
  /\ issued' = issued \cup {[phone |-> c.req.phone, key |-> c.n]}
  /\ Answer(t)
  /\ UNCHANGED <<rooms, invited, overtaken>>

(* Two starts that overlap count as one generation; the later wins. *)
NextGeneration(t) == crew[t].room.generation + 1

Start(t) ==
  LET c == crew[t] IN
  /\ Writing(t, {"start"})
  /\ rooms[c.id] # NoRow
  /\ rooms' = [rooms EXCEPT ![c.id] =
       [@ EXCEPT !.invite = c.n, !.generation = NextGeneration(t)]]
  /\ invited' = [invited EXCEPT ![c.id] = @ \cup {c.n}]
  /\ Answer(t)
  /\ UNCHANGED <<members, issued, overtaken>>

(* The UPDATE of the room by a call that has set some columns of it.       *)
RoomAsSeen(t, row) ==            \* broken: every column is written
  [row EXCEPT !.invite = crew[t].room.invite,
              !.generation = crew[t].room.generation]
RoomUpdate(t, row) == row

Rename(t) ==
  LET c == crew[t] IN
  /\ Writing(t, {"rename"})
  /\ rooms[c.id] # NoRow
  /\ ~AliasConflict(c.req.to, c.id)
  /\ rooms' = [rooms EXCEPT ![c.id] =
       RoomUpdate(t, [@ EXCEPT !.alias = c.req.to])]
  /\ Answer(t)
  /\ UNCHANGED <<members, issued, invited, overtaken>>

(* Ownership may reach a device that has been revoked since it was read. *)
Transfer(t) ==
  LET c == crew[t] IN
  /\ Writing(t, {"transfer"})
  /\ rooms[c.id] # NoRow
  /\ rooms' = [rooms EXCEPT ![c.id] =
       RoomUpdate(t, [@ EXCEPT !.owner = c.req.to])]
  /\ overtaken' = IF Active(<<c.id, c.req.to>>) THEN overtaken
                  ELSE overtaken \cup {c.id}
  /\ Answer(t)
  /\ UNCHANGED <<members, issued, invited>>

(* A revocation may reach a device that has become the owner since. *)
Revoke(t) ==
  LET c == crew[t]
      s == <<c.id, c.req.to>>
  IN
  /\ Writing(t, {"revoke"})
  /\ rooms[c.id] # NoRow
  /\ members[s] # NoRow
  /\ members' = [members EXCEPT ![s] =
       [credential |-> members[s].credential, revoked |-> TRUE]]
  /\ overtaken' = IF rooms[c.id].owner = c.req.to /\ c.room.owner # c.req.to
                  THEN overtaken \cup {c.id} ELSE overtaken
  /\ Answer(t)
  /\ UNCHANGED <<rooms, issued, invited>>

(* The devices go with the room, those enrolled since it was read too. *)
MembersStay(id) == members                       \* broken: only the room goes
MembersWithout(id) ==
  [s \in Seats |-> IF s[1] = id THEN NoRow ELSE members[s]]

Delete(t) ==
  LET c == crew[t] IN
  /\ Writing(t, {"delete"})
  /\ rooms' = [rooms EXCEPT ![c.id] = NoRow]
  /\ members' = MembersWithout(c.id)
  /\ Answer(t)
  /\ UNCHANGED <<issued, invited, overtaken>>

(* 500: the row to update is gone, or a unique constraint is met; or, the  *)
(* delete taking the rows in the other order than the rest, the database   *)
(* breaks a deadlock of a delete and another call by failing one of them.  *)
Deadlocked(t) ==
  \E u \in Threads \ {t} :
    /\ crew[u] # NoRow
    /\ crew[u].phase = "write"
    /\ crew[u].id = crew[t].id
    /\ "delete" \in {crew[u].req.kind, crew[t].req.kind}
    /\ {crew[u].req.kind, crew[t].req.kind}
         \subseteq {"delete", "join", "start", "list", "rename", "transfer", "revoke"}

Gone(c) ==
  CASE c.req.kind \in {"open", "list"} -> members[<<c.id, c.req.phone>>] = NoRow
    [] c.req.kind = "create" -> AliasConflict(c.req.alias, c.id)
    [] c.req.kind = "rename" -> rooms[c.id] = NoRow \/ AliasConflict(c.req.to, c.id)
    [] c.req.kind = "join" ->
         rooms[c.id] = NoRow
         \/ (c.member = NoRow) # (members[<<c.id, c.req.phone>>] = NoRow)
    [] c.req.kind \in {"start", "transfer", "revoke"} ->
         rooms[c.id] = NoRow
    [] OTHER -> FALSE

Fail(t) ==
  /\ Writing(t, CrewKinds)
  /\ Gone(crew[t]) \/ Deadlocked(t)
  /\ Answer(t)
  /\ UNCHANGED <<rooms, members, issued, invited, overtaken>>

-----------------------------------------------------------------------------
AskCrew(t) ==
  \/ AskCreate(t) \/ AskOpen(t) \/ AskJoin(t) \/ AskStart(t) \/ AskList(t)
  \/ AskRename(t) \/ AskTransfer(t) \/ AskRevoke(t) \/ AskDelete(t)

ServeCrew(t) ==
  \/ ReadForCreate(t) \/ Read(t) \/ RefuseCall(t)
  \/ Create(t) \/ OpenOrList(t) \/ Join(t) \/ Start(t) \/ Rename(t)
  \/ Transfer(t) \/ Revoke(t) \/ Delete(t) \/ Fail(t)

CrewStep == \E t \in Threads : AskCrew(t) \/ ServeCrew(t)

(* The rooms alone, whatever else the server does meanwhile. *)
CrewNext == CrewStep \/ (Elsewhere /\ UNCHANGED crewState)
CrewSpec == CrewInit /\ ServingInit /\ [][CrewNext]_crewVars

-----------------------------------------------------------------------------
CrewTypeOK ==
  /\ ServingTypeOK
  /\ rooms \in [RoomIds -> RoomRow \cup {NoRow}]
  /\ members \in [Seats -> MemberRow \cup {NoRow}]
  /\ crew \in [Threads -> CrewCall \cup {NoRow}]
  /\ issued \subseteq [phone : Phones, key : RoomIds]
  /\ invited \in [RoomIds -> SUBSET RoomIds]
  /\ overtaken \subseteq RoomIds

(* An alias opens one room, however creations and renamings overlap: the   *)
(* look-up is not locked, so it is the unique constraint that decides.     *)
OneRoomPerAlias ==
  \A r, s \in Standing : rooms[r].alias = rooms[s].alias => r = s

(* A deleted room leaves no returning access behind, a join that overlaps  *)
(* the deletion included.                                                  *)
NoSeatWithoutRoom == \A s \in Seats : members[s] # NoRow => s[1] \in Standing

(* The owner of a room can open it: "Transfer the crew room before         *)
(* revoking its owner".  Only a transfer and a revocation that overlap      *)
(* escape the check.                                                       *)
OwnerStands ==
  \A r \in Standing \ overtaken : Active(<<r, rooms[r].owner>>)

(* A revoked device comes back only by a join whose invitation was the     *)
(* room's current one when the call read it after the revocation: no other *)
(* call in progress at the time of the revocation undoes it.               *)
RevocationSticks ==
  [][\A s \in Seats :
       members[s] # NoRow /\ members[s].revoked /\ members'[s] # NoRow
         /\ ~members'[s].revoked =>
       \E t \in Threads :
         /\ Join(t)
         /\ <<crew[t].id, crew[t].req.phone>> = s
         /\ crew[t].member # NoRow /\ crew[t].member.revoked
         /\ crew[t].room.invite = crew[t].req.key]_crewVars

(* An invitation that a start has replaced never becomes current again, so *)
(* "a previous QR cannot enrol another device into the next flight".       *)
InvitesNeverReturn ==
  [][\A r \in Standing :
       rooms'[r] # NoRow /\ rooms'[r].invite # rooms[r].invite =>
         rooms'[r].invite \notin invited[r]]_crewVars
=============================================================================
