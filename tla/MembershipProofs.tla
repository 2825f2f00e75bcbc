-------------------------- MODULE MembershipProofs --------------------------
(***************************************************************************)
(* Theorems about how a device comes into a crew room (CrewRoom) and to a  *)
(* ride (JoinCodes), for any number of devices, aliases, codes, rides and  *)
(* overlapping calls, whatever other services are called meanwhile.        *)
(***************************************************************************)
EXTENDS CrewRoom, JoinCodes, TLAPS

-----------------------------------------------------------------------------
(***************************************************************************)
(* Crew rooms.  No call locks what it decides by, so the argument rests on *)
(* what cannot go stale: the number a call writes is its own (NumberInv,   *)
(* CreateInv), what it has read is kept with it (DecidedInv), and the      *)
(* constraints of the tables hold at the commit.                           *)
(***************************************************************************)
Busy(t) == crew[t] # NoRow

(* The number of a call is nobody else's and no invitation yet. *)
NumberInv ==
  \A t \in Threads : Busy(t) =>
    /\ crew[t].n <= calls
    /\ \A r \in RoomIds : crew[t].n \notin invited[r]
    /\ \A u \in Threads : Busy(u) /\ crew[u].n = crew[t].n => u = t

UsedInv ==
  /\ \A r \in RoomIds : \A i \in invited[r] : i <= calls
  /\ \A r \in RoomIds : rooms[r] # NoRow => r <= calls

CreateInv ==
  \A t \in Threads : Busy(t) /\ crew[t].req.kind = "create" =>
    crew[t].id = crew[t].n /\ rooms[crew[t].n] = NoRow

(* What a call that writes was permitted by. *)
DecidedInv ==
  \A t \in Threads :
    Busy(t) /\ crew[t].phase = "write" /\ crew[t].req.kind # "create" =>
      /\ crew[t].room # NoRow
      /\ crew[t].req.kind = "join" => crew[t].room.invite = crew[t].req.key
      /\ crew[t].req.kind = "revoke" => crew[t].req.to # crew[t].room.owner

(* The requests' targets are of the kind that the operation takes. *)
TargetFits(q) ==
  /\ q.kind \in {"transfer", "revoke"} => q.to \in Phones
  /\ q.kind = "rename" => q.to \in Aliases

TargetInv == \A t \in Threads : Busy(t) => TargetFits(crew[t].req)

AliasInv ==
  \A r, s \in RoomIds :
    rooms[r] # NoRow /\ rooms[s] # NoRow /\ rooms[r].alias = rooms[s].alias => r = s

SeatInv == \A s \in Seats : members[s] # NoRow => rooms[s[1]] # NoRow

OwnerInv ==
  \A r \in RoomIds : rooms[r] # NoRow /\ r \notin overtaken =>
    LET s == <<r, rooms[r].owner>> IN members[s] # NoRow /\ ~members[s].revoked

CallsInv == NumberInv /\ UsedInv /\ CreateInv /\ DecidedInv /\ TargetInv
CrewInv == CrewTypeOK /\ CallsInv /\ AliasInv /\ SeatInv /\ OwnerInv

-----------------------------------------------------------------------------
LEMMA CrewShapes ==
  NoRow \notin RoomRow /\ NoRow \notin MemberRow /\ NoRow \notin CrewCall
BY CrewAssumption

LEMMA Numbers ==
  ASSUME CrewTypeOK
  PROVE  RoomIds \subseteq Nat /\ calls \in Nat /\ now \in Nat
BY ServingAssumption DEF CrewTypeOK, ServingTypeOK, RoomIds

(* Numbers in use stay in use as more calls arrive. *)
LEMMA MoreCalls ==
  ASSUME CrewTypeOK, UsedInv, calls' \in Nat, calls <= calls', UNCHANGED <<rooms, invited>>
  PROVE  UsedInv'
<1>1. calls \in Nat /\ RoomIds \subseteq Nat
  BY Numbers
<1>2. \A r \in RoomIds : rooms[r] # NoRow => r <= calls'
  BY <1>1 DEF UsedInv
<1>3. ASSUME NEW r \in RoomIds, NEW i \in invited[r] PROVE i <= calls'
  <2>1. i \in Nat
    BY <1>1 DEF CrewTypeOK
  <2>2. i <= calls
    BY DEF UsedInv
  <2> QED
    BY <1>1, <2>1, <2>2
<1> QED
  BY <1>2, <1>3 DEF UsedInv

LEMMA CrewCallShape ==
  ASSUME CrewTypeOK, NEW t \in Threads, Busy(t)
  PROVE  /\ crew[t] \in CrewCall /\ crew[t].n \in RoomIds /\ crew[t].id \in RoomIds
         /\ crew[t].req \in CrewRequest /\ crew[t].req.phone \in Phones
         /\ crew[t].req.alias \in Aliases
         /\ crew[t].room \in RoomRow \cup {NoRow}
         /\ crew[t].member \in MemberRow \cup {NoRow}
BY DEF CrewTypeOK, Busy, CrewCall, CrewRequest

LEMMA CrewInitHolds == CrewInit /\ ServingInit => CrewInv
BY ServingAssumption
   DEF CrewInit, ServingInit, CrewInv, CallsInv, CrewTypeOK, ServingTypeOK, NumberInv,
       UsedInv, CreateInv, DecidedInv, TargetInv, AliasInv, SeatInv, OwnerInv, Busy

(* The call of one thread arrives or goes on; the tables stay. *)
LEMMA SeatsStay ==
  ASSUME CrewInv, CrewTypeOK', CallsInv', UNCHANGED <<rooms, members, overtaken>>
  PROVE  CrewInv'
BY DEF CrewInv, AliasInv, SeatInv, OwnerInv

LEMMA AskStep ==
  ASSUME CrewInv, NEW t \in Threads, NEW q \in CrewRequest, TargetFits(q), Ask(t, q)
  PROVE  CrewInv'
<1> USE DEF CrewInv, CallsInv
<1>1. /\ now' = now /\ calls \in Nat /\ calls' = calls + 1 /\ calls' \in RoomIds
      /\ calls' \in 0..MaxCalls
      /\ UNCHANGED <<rooms, members, issued, invited, overtaken>>
      /\ RoomIds \subseteq Nat
  BY Numbers, ServingAssumption DEF Ask, Arrival, CrewTypeOK, ServingTypeOK, RoomIds
<1> DEFINE c == [n |-> calls', req |-> q, phase |-> "open", id |-> calls',
                 room |-> NoRow, member |-> NoRow]
<1>2. c \in CrewCall /\ c # NoRow
  BY <1>1, CrewShapes DEF CrewCall
<1>3. crew' = [crew EXCEPT ![t] = c]
  BY DEF Ask
<1>4. c.n = calls' /\ c.id = calls' /\ c.phase = "open"
  OBVIOUS
<1> HIDE DEF c
<1>5. /\ crew' \in [Threads -> CrewCall \cup {NoRow}]
      /\ crew'[t] = c /\ \A u \in Threads \ {t} : crew'[u] = crew[u]
  BY <1>2, <1>3 DEF CrewTypeOK
<1>6. CrewTypeOK'
  <2>1. ServingTypeOK'
    BY <1>1 DEF CrewTypeOK, ServingTypeOK
  <2> QED
    BY <1>1, <1>5, <2>1 DEF CrewTypeOK
<1>7. UsedInv'
  BY <1>1, MoreCalls
<1>8. \A u \in Threads \ {t} : Busy(u)' => Busy(u) /\ crew[u].n \in Nat /\ crew[u].n <= calls
  BY <1>1, <1>5, CrewCallShape DEF Busy, NumberInv
<1>9. (\A r \in RoomIds : calls' \notin invited[r]) /\ rooms[calls'] = NoRow
  BY <1>1 DEF UsedInv
<1>10. NumberInv'
  BY <1>1, <1>4, <1>5, <1>8, <1>9 DEF NumberInv, Busy
<1>11. CreateInv' /\ DecidedInv'
  BY <1>1, <1>4, <1>5, <1>8, <1>9 DEF CreateInv, DecidedInv, Busy
<1>12. c.req = q
  BY DEF c
<1>13. TargetInv'
  BY <1>5, <1>8, <1>12 DEF TargetInv, TargetFits, Busy
<1> QED
  BY <1>1, <1>6, <1>7, <1>10, <1>11, <1>13, SeatsStay

(* A read: the call of one thread is decided, and nothing else changes.    *)
LEMMA DecidedStep ==
  ASSUME CrewInv, NEW t \in Threads, Busy(t), NEW c \in CrewCall,
         c.n = crew[t].n, c.req = crew[t].req,
         c.req.kind = "create" => c.id = crew[t].id,
         c.req.kind # "create" =>
           /\ c.room # NoRow
           /\ c.req.kind = "join" => c.room.invite = c.req.key
           /\ c.req.kind = "revoke" => c.req.to # c.room.owner,
         crew' = [crew EXCEPT ![t] = c],
         UNCHANGED <<serving, rooms, members, issued, invited, overtaken>>
  PROVE  CrewInv'
<1> USE DEF CrewInv, CallsInv, serving
<1>1. /\ crew' \in [Threads -> CrewCall \cup {NoRow}]
      /\ crew'[t] = c /\ \A u \in Threads \ {t} : crew'[u] = crew[u]
  BY DEF CrewTypeOK
<1>2. CrewTypeOK'
  BY <1>1 DEF CrewTypeOK, ServingTypeOK
<1>3. UsedInv'
  BY DEF UsedInv
<1>4. \A u \in Threads : Busy(u)' => Busy(u) /\ crew'[u].n = crew[u].n
                                       /\ crew'[u].req = crew[u].req
  BY <1>1 DEF Busy
<1>5. NumberInv'
  BY <1>4 DEF NumberInv
<1>6. CreateInv'
  BY <1>1, <1>4 DEF CreateInv
<1>7. DecidedInv'
  BY <1>1, <1>4 DEF DecidedInv
<1>8. TargetInv'
  BY <1>4 DEF TargetInv, TargetFits
<1> QED
  BY <1>2, <1>3, <1>5, <1>6, <1>7, <1>8, SeatsStay

(* What the other calls rely on, when one writes and is answered.          *)
LEMMA AnsweredKeeps ==
  ASSUME CrewInv, NEW t \in Threads, Busy(t), Answer(t), UNCHANGED serving,
         \A r \in RoomIds : invited'[r] \subseteq invited[r] \cup {crew[t].n},
         \A r \in RoomIds : rooms'[r] # NoRow => rooms[r] # NoRow \/ r = crew[t].n
  PROVE  /\ crew' \in [Threads -> CrewCall \cup {NoRow}]
         /\ CallsInv'
<1> USE DEF CrewInv, CallsInv, serving
<1>1. /\ crew' \in [Threads -> CrewCall \cup {NoRow}]
      /\ crew'[t] = NoRow /\ \A u \in Threads \ {t} : crew'[u] = crew[u]
  BY DEF CrewTypeOK, Answer
<1>2. \A u \in Threads : Busy(u)' => u # t /\ Busy(u) /\ crew'[u] = crew[u]
  BY <1>1 DEF Busy
<1>3. crew[t].n <= calls /\ crew[t].n \in RoomIds
  BY CrewCallShape DEF NumberInv
<1>4. \A u \in Threads \ {t} : Busy(u) => crew[u].n # crew[t].n /\ crew[u].n \in RoomIds
  BY CrewCallShape DEF NumberInv
<1>5. NumberInv'
  BY <1>2, <1>4 DEF NumberInv
<1>6. UsedInv'
  BY <1>3 DEF UsedInv
<1>7. CreateInv'
  BY <1>2, <1>4 DEF CreateInv
<1>8. DecidedInv' /\ TargetInv'
  BY <1>2 DEF DecidedInv, TargetInv, TargetFits
<1> QED
  BY <1>1, <1>5, <1>6, <1>7, <1>8

-----------------------------------------------------------------------------
(***************************************************************************)
(* The operations.                                                         *)
(***************************************************************************)
LEMMA RefuseOrFailStep ==
  ASSUME CrewInv, NEW t \in Threads, RefuseCall(t) \/ Fail(t)
  PROVE  CrewInv'
<1>1. /\ Busy(t) /\ Answer(t) /\ UNCHANGED serving
      /\ UNCHANGED <<rooms, members, issued, invited, overtaken>>
  BY DEF RefuseCall, Fail, Writing, Busy
<1>2. crew' \in [Threads -> CrewCall \cup {NoRow}] /\ CallsInv'
  BY <1>1, AnsweredKeeps
<1>3. CrewTypeOK'
  BY <1>1, <1>2 DEF CrewInv, CrewTypeOK, ServingTypeOK, serving
<1> QED
  BY <1>1, <1>2, <1>3, SeatsStay

LEMMA ReadForCreateStep ==
  ASSUME CrewInv, NEW t \in Threads, ReadForCreate(t)
  PROVE  CrewInv'
<1>1. Busy(t) /\ crew[t].req.kind = "create"
  BY DEF ReadForCreate, Busy
<1> DEFINE c == [crew[t] EXCEPT !.phase = "write"]
<1>2. /\ c \in CrewCall /\ c.n = crew[t].n /\ c.req = crew[t].req /\ c.id = crew[t].id
  BY <1>1, CrewCallShape DEF CrewInv, CrewCall
<1>3. crew' = [crew EXCEPT ![t] = c]
  BY DEF ReadForCreate
<1> HIDE DEF c
<1> QED
  BY <1>1, <1>2, <1>3, DecidedStep DEF ReadForCreate

LEMMA ReadStep ==
  ASSUME CrewInv, NEW t \in Threads, Read(t)
  PROVE  CrewInv'
<1>1. Busy(t) /\ crew[t].req.kind # "create"
  BY DEF Read, Busy
<1>2. PICK r \in Named(crew[t].req.alias) :
        /\ Permitted(crew[t].req, r)
        /\ crew' = [crew EXCEPT ![t] =
             [crew[t] EXCEPT !.phase = "write", !.id = r, !.room = rooms[r],
                             !.member = members[<<r, crew[t].req.phone>>]]]
  BY DEF Read
<1>3. /\ r \in RoomIds /\ rooms[r] # NoRow
      /\ rooms[r] \in RoomRow /\ members[<<r, crew[t].req.phone>>] \in MemberRow \cup {NoRow}
  BY <1>1, CrewCallShape DEF Named, Standing, CrewInv, CrewTypeOK, Seats
<1> DEFINE c == [crew[t] EXCEPT !.phase = "write", !.id = r, !.room = rooms[r],
                                !.member = members[<<r, crew[t].req.phone>>]]
<1>4. /\ c \in CrewCall /\ c.n = crew[t].n /\ c.req = crew[t].req /\ c.room = rooms[r]
  BY <1>1, <1>3, CrewCallShape DEF CrewInv, CrewCall
<1>5. crew' = [crew EXCEPT ![t] = c]
  BY <1>2
<1> HIDE DEF c
<1>6. /\ crew[t].req.kind = "join" => rooms[r].invite = crew[t].req.key
      /\ crew[t].req.kind = "revoke" => crew[t].req.to # rooms[r].owner
  BY <1>2 DEF Permitted, OwnerSpared
<1> QED
  BY <1>1, <1>3, <1>4, <1>5, <1>6, DecidedStep DEF Read

LEMMA AskCrewStep ==
  ASSUME CrewInv, NEW t \in Threads, AskCrew(t)
  PROVE  CrewInv'
<1>1. /\ Invitations \subseteq Nat
      /\ \A g \in issued : g.phone \in Phones /\ g.key \in Nat
  BY Numbers DEF Invitations, CrewInv, CrewTypeOK
<1>2. \A kind \in CrewKinds : \A q \in CrewRoomAuthRequest(kind) :
        q \in CrewRequest /\ q.kind = kind /\ q.to \in Aliases
  BY <1>1 DEF CrewRoomAuthRequest, CrewRequest, CrewKinds
<1>3. ASSUME NEW q, Ask(t, q), q \in CreateCrewRoomRequest \/ q \in JoinCrewRoomRequest
      PROVE  CrewInv'
  <2>1. q \in CrewRequest /\ TargetFits(q)
    BY <1>1, <1>3
       DEF CreateCrewRoomRequest, JoinCrewRoomRequest, CrewRequest, CrewKinds, TargetFits
  <2> QED
    BY <1>3, <2>1, AskStep
<1>4. ASSUME NEW kind \in {"open", "list", "start", "delete"},
             NEW q \in CrewRoomAuthRequest(kind), Ask(t, q)
      PROVE  CrewInv'
  <2>1. q \in CrewRequest /\ TargetFits(q)
    BY <1>2, <1>4 DEF CrewKinds, TargetFits
  <2> QED
    BY <1>4, <2>1, AskStep
<1>5. ASSUME NEW q \in RenameCrewRoomRequest, Ask(t, q)
      PROVE  CrewInv'
  <2>1. PICK k \in CrewRoomAuthRequest("rename"), a \in Aliases : q = [k EXCEPT !.to = a]
    BY <1>5 DEF RenameCrewRoomRequest
  <2>2. k \in CrewRequest /\ k.kind = "rename"
    BY <1>2 DEF CrewKinds
  <2>3. q \in CrewRequest /\ q.kind = "rename" /\ q.to = a
    BY <2>1, <2>2 DEF CrewRequest
  <2> QED
    BY <1>5, <2>3, AskStep DEF TargetFits
<1>6. ASSUME NEW kind \in {"transfer", "revoke"},
             NEW q \in CrewRoomTargetDeviceRequest(kind), Ask(t, q)
      PROVE  CrewInv'
  <2>1. PICK k \in CrewRoomAuthRequest(kind), p \in Phones : q = [k EXCEPT !.to = p]
    BY <1>6 DEF CrewRoomTargetDeviceRequest
  <2>2. k \in CrewRequest /\ k.kind = kind
    BY <1>2 DEF CrewKinds
  <2>3. q \in CrewRequest /\ q.kind = kind /\ q.to = p
    BY <2>1, <2>2 DEF CrewRequest
  <2> QED
    BY <1>6, <2>3, AskStep DEF TargetFits
<1> QED
  BY <1>3, <1>4, <1>5, <1>6
     DEF AskCrew, AskCreate, AskOpen, AskJoin, AskStart, AskList, AskRename,
         AskTransfer, AskRevoke, AskDelete

(* What is known of a call that writes. *)
LEMMA WriterShape ==
  ASSUME CrewInv, NEW t \in Threads, NEW kinds, Writing(t, kinds)
  PROVE  /\ Busy(t) /\ crew[t] \in CrewCall /\ crew[t].n \in RoomIds
         /\ crew[t].id \in RoomIds /\ crew[t].req.phone \in Phones
         /\ crew[t].req.alias \in Aliases /\ crew[t].req.kind \in kinds
         /\ crew[t].member \in MemberRow \cup {NoRow}
         /\ crew[t].req.kind # "create" =>
              /\ crew[t].room \in RoomRow
              /\ crew[t].req.kind = "join" => crew[t].room.invite = crew[t].req.key
              /\ crew[t].req.kind = "revoke" => crew[t].req.to # crew[t].room.owner
         /\ TargetFits(crew[t].req)
         /\ UNCHANGED serving
BY CrewCallShape DEF CrewInv, CallsInv, DecidedInv, TargetInv, Writing, Busy

LEMMA CreateStep ==
  ASSUME CrewInv, NEW t \in Threads, Create(t)
  PROVE  CrewInv'
<1> DEFINE n == crew[t].n
<1> DEFINE p == crew[t].req.phone
<1> DEFINE row == [alias |-> crew[t].req.alias, owner |-> p, invite |-> n, generation |-> 1]
<1> DEFINE seat == [credential |-> n, revoked |-> FALSE]
<1>1. /\ Busy(t) /\ n \in RoomIds /\ p \in Phones /\ crew[t].req.alias \in Aliases
      /\ Answer(t) /\ UNCHANGED serving /\ crew[t].id = n /\ rooms[n] = NoRow
  BY WriterShape DEF Create, CrewInv, CallsInv, CreateInv
<1>2. /\ row \in RoomRow /\ row.owner = p /\ row.alias = crew[t].req.alias
      /\ seat \in MemberRow /\ ~seat.revoked
  BY <1>1 DEF RoomRow, MemberRow
<1>3. /\ rooms' = [rooms EXCEPT ![n] = row]
      /\ members' = [members EXCEPT ![<<n, p>>] = seat]
      /\ issued' = issued \cup {[phone |-> p, key |-> n]}
      /\ invited' = [invited EXCEPT ![n] = {n}]
      /\ UNCHANGED overtaken
      /\ Named(crew[t].req.alias) \ {n} = {}
  BY <1>1 DEF Create, AliasConflict
<1> HIDE DEF row, seat
<1>4. /\ rooms'[n] = row /\ \A r \in RoomIds \ {n} : rooms'[r] = rooms[r]
      /\ rooms' \in [RoomIds -> RoomRow \cup {NoRow}] /\ row # NoRow
  BY <1>1, <1>2, <1>3, CrewShapes DEF CrewInv, CrewTypeOK
<1>5. /\ <<n, p>> \in Seats
      /\ members'[<<n, p>>] = seat /\ \A s \in Seats \ {<<n, p>>} : members'[s] = members[s]
      /\ members' \in [Seats -> MemberRow \cup {NoRow}] /\ seat # NoRow
  BY <1>1, <1>2, <1>3, CrewShapes DEF CrewInv, CrewTypeOK, Seats
<1>6. invited' \in [RoomIds -> SUBSET RoomIds]
      /\ \A r \in RoomIds : invited'[r] \subseteq invited[r] \cup {n}
  BY <1>1, <1>3 DEF CrewInv, CrewTypeOK
<1>7. crew' \in [Threads -> CrewCall \cup {NoRow}] /\ CallsInv'
  BY <1>1, <1>4, <1>6, AnsweredKeeps
<1>8. CrewTypeOK'
  BY <1>1, <1>3, <1>4, <1>5, <1>6, <1>7 DEF CrewInv, CrewTypeOK, ServingTypeOK, serving
<1>9. AliasInv'
  BY <1>1, <1>2, <1>3, <1>4 DEF CrewInv, AliasInv, Named, Standing
<1>10. SeatInv'
  BY <1>1, <1>4, <1>5 DEF CrewInv, SeatInv, Seats
<1>11. OwnerInv'
  <2>1. ASSUME NEW r \in RoomIds \ {n}, rooms[r] # NoRow
        PROVE  <<r, rooms[r].owner>> \in Seats \ {<<n, p>>}
    BY <2>1 DEF Seats, CrewInv, CrewTypeOK, RoomRow
  <2> QED
    BY <1>2, <1>3, <1>4, <1>5, <2>1 DEF CrewInv, OwnerInv
<1> QED
  BY <1>7, <1>8, <1>9, <1>10, <1>11 DEF CrewInv

LEMMA OpenOrListStep ==
  ASSUME CrewInv, NEW t \in Threads, OpenOrList(t)
  PROVE  CrewInv'
<1>1. /\ Busy(t) /\ Answer(t) /\ UNCHANGED serving
      /\ UNCHANGED <<rooms, members, issued, invited, overtaken>>
  BY WriterShape DEF OpenOrList, Touched
<1>2. crew' \in [Threads -> CrewCall \cup {NoRow}] /\ CallsInv'
  BY <1>1, AnsweredKeeps
<1>3. CrewTypeOK'
  BY <1>1, <1>2 DEF CrewInv, CrewTypeOK, ServingTypeOK, serving
<1> QED
  BY <1>1, <1>2, <1>3, SeatsStay

(* A member's row changes: it stands in a room, and the owner's seat stays *)
(* as it is or is marked.                                                  *)
LEMMA SeatChanges ==
  ASSUME CrewInv, NEW t \in Threads, Busy(t), Answer(t), UNCHANGED <<serving, rooms, invited>>,
         NEW s \in Seats, NEW row \in MemberRow, members' = [members EXCEPT ![s] = row],
         rooms[s[1]] # NoRow,
         issued' \subseteq [phone : Phones, key : RoomIds],
         overtaken' \subseteq RoomIds, overtaken \subseteq overtaken',
         row.revoked =>
           \/ members[s] # NoRow /\ members[s].revoked
           \/ rooms[s[1]].owner # s[2]
           \/ s[1] \in overtaken'
  PROVE  CrewInv'
<1>1. /\ members'[s] = row /\ \A u \in Seats \ {s} : members'[u] = members[u]
      /\ members' \in [Seats -> MemberRow \cup {NoRow}] /\ row # NoRow
  BY CrewShapes DEF CrewInv, CrewTypeOK
<1>2. crew' \in [Threads -> CrewCall \cup {NoRow}] /\ CallsInv'
  BY AnsweredKeeps
<1>3. CrewTypeOK'
  BY <1>1, <1>2 DEF CrewInv, CrewTypeOK, ServingTypeOK, serving
<1>4. SeatInv' /\ AliasInv'
  BY <1>1 DEF CrewInv, SeatInv, AliasInv
<1>5. OwnerInv'
  <2> SUFFICES ASSUME NEW r \in RoomIds, rooms[r] # NoRow, r \notin overtaken'
               PROVE  LET o == <<r, rooms[r].owner>> IN members'[o] # NoRow /\ ~members'[o].revoked
    BY DEF OwnerInv
  <2> DEFINE o == <<r, rooms[r].owner>>
  <2>1. o \in Seats /\ members[o] # NoRow /\ ~members[o].revoked
    BY DEF Seats, CrewInv, CrewTypeOK, RoomRow, OwnerInv
  <2>2. s = o => s[1] = r /\ s[2] = rooms[r].owner
    OBVIOUS
  <2> HIDE DEF o
  <2>3. CASE s = o
    BY <1>1, <2>1, <2>2, <2>3 DEF o
  <2>4. CASE s # o
    BY <1>1, <2>1, <2>4 DEF o
  <2> QED
    BY <2>3, <2>4
<1> QED
  BY <1>2, <1>3, <1>4, <1>5 DEF CrewInv

LEMMA JoinRoomStep ==
  ASSUME CrewInv, NEW t \in Threads, Join(t)
  PROVE  CrewInv'
<1> DEFINE s == <<crew[t].id, crew[t].req.phone>>
<1> DEFINE row == [credential |-> crew[t].n,
                   revoked |-> members[s] # NoRow /\ members[s].revoked /\ ~crew[t].member.revoked]
<1>1. /\ Busy(t) /\ crew[t].n \in RoomIds /\ crew[t].id \in RoomIds /\ crew[t].req.phone \in Phones
      /\ Answer(t) /\ UNCHANGED <<serving, rooms, invited, overtaken>>
      /\ rooms[crew[t].id] # NoRow
      /\ issued' = issued \cup {[phone |-> crew[t].req.phone, key |-> crew[t].n]}
  BY WriterShape DEF Join
<1>2. s \in Seats /\ s[1] = crew[t].id
  BY <1>1 DEF Seats
<1>3. /\ (members[s] # NoRow /\ members[s].revoked /\ ~crew[t].member.revoked) \in BOOLEAN
      /\ row.revoked => members[s] # NoRow /\ members[s].revoked
  OBVIOUS
<1>4. row \in MemberRow
  BY <1>1, <1>3 DEF MemberRow
<1>5. members' = [members EXCEPT ![s] = row]
  BY DEF Join
<1>6. /\ issued' \subseteq [phone : Phones, key : RoomIds]
      /\ overtaken' \subseteq RoomIds /\ overtaken \subseteq overtaken'
  BY <1>1 DEF CrewInv, CrewTypeOK
<1> HIDE DEF s, row
<1> QED
  BY <1>1, <1>2, <1>3, <1>4, <1>5, <1>6, SeatChanges

LEMMA RevokeStep ==
  ASSUME CrewInv, NEW t \in Threads, Revoke(t)
  PROVE  CrewInv'
<1> DEFINE s == <<crew[t].id, crew[t].req.to>>
<1> DEFINE row == [credential |-> members[s].credential, revoked |-> TRUE]
<1>1. /\ Busy(t) /\ crew[t].id \in RoomIds /\ crew[t].req.to \in Phones
      /\ crew[t].req.to # crew[t].room.owner
      /\ Answer(t) /\ UNCHANGED <<serving, rooms, issued, invited>>
      /\ rooms[crew[t].id] # NoRow /\ members[s] # NoRow
  BY WriterShape DEF Revoke, TargetFits
<1>2. s \in Seats /\ s[1] = crew[t].id /\ s[2] = crew[t].req.to
  BY <1>1 DEF Seats
<1>3. row \in MemberRow
  BY <1>1, <1>2 DEF MemberRow, CrewInv, CrewTypeOK
<1>4. members' = [members EXCEPT ![s] = row]
  BY DEF Revoke
<1>5. /\ overtaken' \in {overtaken, overtaken \cup {crew[t].id}}
      /\ rooms[crew[t].id].owner = crew[t].req.to => crew[t].id \in overtaken'
  BY <1>1 DEF Revoke
<1>6. issued' \subseteq [phone : Phones, key : RoomIds] /\ overtaken' \subseteq RoomIds
  BY <1>1, <1>5 DEF CrewInv, CrewTypeOK
<1> HIDE DEF s, row
<1> QED
  BY <1>1, <1>2, <1>3, <1>4, <1>5, <1>6, SeatChanges

(* A room's row changes: nobody else has its alias, and its owner's seat   *)
(* is not revoked, or the room is marked.                                  *)
LEMMA RoomChanges ==
  ASSUME CrewInv, NEW t \in Threads, Busy(t), Answer(t), UNCHANGED <<serving, members, issued>>,
         NEW r \in RoomIds, rooms[r] # NoRow, NEW row \in RoomRow,
         rooms' = [rooms EXCEPT ![r] = row],
         row.alias = rooms[r].alias \/ Named(row.alias) \ {r} = {},
         invited' \in [RoomIds -> SUBSET RoomIds],
         \A q \in RoomIds : invited'[q] \subseteq invited[q] \cup {crew[t].n},
         overtaken' \subseteq RoomIds, overtaken \subseteq overtaken',
         row.owner = rooms[r].owner \/ Active(<<r, row.owner>>) \/ r \in overtaken'
  PROVE  CrewInv'
<1>1. /\ rooms'[r] = row /\ \A q \in RoomIds \ {r} : rooms'[q] = rooms[q]
      /\ rooms' \in [RoomIds -> RoomRow \cup {NoRow}] /\ row # NoRow
  BY CrewShapes DEF CrewInv, CrewTypeOK
<1>2. crew' \in [Threads -> CrewCall \cup {NoRow}] /\ CallsInv'
  BY <1>1, AnsweredKeeps
<1>3. CrewTypeOK'
  BY <1>1, <1>2 DEF CrewInv, CrewTypeOK, ServingTypeOK, serving
<1>4. AliasInv'
  <2>1. \A q \in RoomIds \ {r} : rooms[q] # NoRow => rooms[q].alias # row.alias
    BY DEF CrewInv, AliasInv, Named, Standing
  <2> QED
    BY <1>1, <2>1 DEF CrewInv, AliasInv
<1>5. SeatInv'
  <2>1. \A s \in Seats : s[1] \in RoomIds
    BY DEF Seats
  <2> QED
    BY <1>1, <2>1 DEF CrewInv, SeatInv
<1>6. OwnerInv'
  BY <1>1 DEF CrewInv, OwnerInv, Active
<1> QED
  BY <1>2, <1>3, <1>4, <1>5, <1>6 DEF CrewInv

LEMMA StartStep ==
  ASSUME CrewInv, NEW t \in Threads, Start(t)
  PROVE  CrewInv'
<1> DEFINE r == crew[t].id
<1> DEFINE next == NextGeneration(t)
<1> DEFINE row == [rooms[r] EXCEPT !.invite = crew[t].n, !.generation = next]
<1>1. /\ Busy(t) /\ Answer(t) /\ UNCHANGED <<serving, members, issued, overtaken>>
      /\ r \in RoomIds /\ rooms[r] # NoRow /\ crew[t].n \in RoomIds
      /\ crew[t].room \in RoomRow
  BY WriterShape DEF Start
<1>2. next \in Nat
  BY <1>1 DEF NextGeneration, RoomRow
<1>3. rooms' = [rooms EXCEPT ![r] = row]
  BY DEF Start
<1>4. row \in RoomRow /\ row.alias = rooms[r].alias /\ row.owner = rooms[r].owner
  <2> HIDE DEF next
  <2>1. rooms[r] \in RoomRow
    BY <1>1 DEF CrewInv, CrewTypeOK
  <2> QED
    BY <1>1, <1>2, <2>1 DEF RoomRow
<1>5. /\ invited' \in [RoomIds -> SUBSET RoomIds]
      /\ \A q \in RoomIds : invited'[q] \subseteq invited[q] \cup {crew[t].n}
  BY <1>1 DEF Start, CrewInv, CrewTypeOK
<1>6. overtaken' \subseteq RoomIds /\ overtaken \subseteq overtaken'
  BY <1>1 DEF CrewInv, CrewTypeOK
<1> HIDE DEF row, r
<1> QED
  BY <1>1, <1>3, <1>4, <1>5, <1>6, RoomChanges

LEMMA RenameStep ==
  ASSUME CrewInv, NEW t \in Threads, Rename(t)
  PROVE  CrewInv'
<1> DEFINE r == crew[t].id
<1> DEFINE row == [rooms[r] EXCEPT !.alias = crew[t].req.to]
<1>1. /\ Busy(t) /\ Answer(t)
      /\ UNCHANGED <<serving, members, issued, invited, overtaken>>
      /\ r \in RoomIds /\ rooms[r] # NoRow /\ crew[t].req.to \in Aliases
      /\ Named(crew[t].req.to) \ {r} = {}
  BY WriterShape DEF Rename, TargetFits, AliasConflict
<1>2. rooms' = [rooms EXCEPT ![r] = row]
  BY DEF Rename, RoomUpdate
<1>3. row \in RoomRow /\ row.alias = crew[t].req.to /\ row.owner = rooms[r].owner
  <2>1. rooms[r] \in RoomRow
    BY <1>1 DEF CrewInv, CrewTypeOK
  <2> QED
    BY <1>1, <2>1 DEF RoomRow
<1>4. /\ invited' \in [RoomIds -> SUBSET RoomIds]
      /\ \A q \in RoomIds : invited'[q] \subseteq invited[q] \cup {crew[t].n}
      /\ overtaken' \subseteq RoomIds /\ overtaken \subseteq overtaken'
  BY <1>1 DEF CrewInv, CrewTypeOK
<1> HIDE DEF row, r
<1> QED
  BY <1>1, <1>2, <1>3, <1>4, RoomChanges

LEMMA TransferStep ==
  ASSUME CrewInv, NEW t \in Threads, Transfer(t)
  PROVE  CrewInv'
<1> DEFINE r == crew[t].id
<1> DEFINE row == [rooms[r] EXCEPT !.owner = crew[t].req.to]
<1>1. /\ Busy(t) /\ Answer(t)
      /\ UNCHANGED <<serving, members, issued, invited>>
      /\ r \in RoomIds /\ rooms[r] # NoRow /\ crew[t].req.to \in Phones
  BY WriterShape DEF Transfer, TargetFits
<1>2. rooms' = [rooms EXCEPT ![r] = row]
  BY DEF Transfer, RoomUpdate
<1>3. row \in RoomRow /\ row.alias = rooms[r].alias /\ row.owner = crew[t].req.to
  <2>1. rooms[r] \in RoomRow
    BY <1>1 DEF CrewInv, CrewTypeOK
  <2> QED
    BY <1>1, <2>1 DEF RoomRow
<1>4. /\ invited' \in [RoomIds -> SUBSET RoomIds]
      /\ \A q \in RoomIds : invited'[q] \subseteq invited[q] \cup {crew[t].n}
  BY <1>1 DEF CrewInv, CrewTypeOK
<1>5. /\ overtaken' \in {overtaken, overtaken \cup {r}}
      /\ Active(<<r, crew[t].req.to>>) \/ r \in overtaken'
  BY DEF Transfer
<1>6. overtaken' \subseteq RoomIds /\ overtaken \subseteq overtaken'
  BY <1>1, <1>5 DEF CrewInv, CrewTypeOK
<1> HIDE DEF row, r
<1> QED
  BY <1>1, <1>2, <1>3, <1>4, <1>5, <1>6, RoomChanges

LEMMA DeleteStep ==
  ASSUME CrewInv, NEW t \in Threads, Delete(t)
  PROVE  CrewInv'
<1> DEFINE id == crew[t].id
<1>1. /\ Busy(t) /\ Answer(t) /\ UNCHANGED <<serving, issued, invited, overtaken>>
      /\ id \in RoomIds
  BY WriterShape DEF Delete
<1>2. /\ rooms' \in [RoomIds -> RoomRow \cup {NoRow}]
      /\ rooms'[id] = NoRow /\ \A r \in RoomIds \ {id} : rooms'[r] = rooms[r]
  BY <1>1 DEF Delete, CrewInv, CrewTypeOK
<1>3. /\ members' \in [Seats -> MemberRow \cup {NoRow}]
      /\ \A s \in Seats : members'[s] = IF s[1] = id THEN NoRow ELSE members[s]
  BY DEF Delete, MembersWithout, CrewInv, CrewTypeOK
<1>4. crew' \in [Threads -> CrewCall \cup {NoRow}] /\ CallsInv'
  BY <1>1, <1>2, AnsweredKeeps
<1>5. CrewTypeOK'
  BY <1>1, <1>2, <1>3, <1>4 DEF CrewInv, CrewTypeOK, ServingTypeOK, serving
<1>6. AliasInv'
  BY <1>2 DEF CrewInv, AliasInv
<1>7. SeatInv'
  <2>1. \A s \in Seats : s[1] \in RoomIds
    BY DEF Seats
  <2> QED
    BY <1>2, <1>3, <2>1 DEF CrewInv, SeatInv
<1>8. OwnerInv'
  <2>1. ASSUME NEW r \in RoomIds \ {id}, rooms[r] # NoRow
        PROVE  <<r, rooms[r].owner>> \in Seats /\ <<r, rooms[r].owner>>[1] = r
    BY <2>1 DEF Seats, CrewInv, CrewTypeOK, RoomRow
  <2> QED
    BY <1>1, <1>2, <1>3, <2>1 DEF CrewInv, OwnerInv
<1> QED
  BY <1>4, <1>5, <1>6, <1>7, <1>8 DEF CrewInv

(* Time passes, or other services are called. *)
LEMMA CrewElsewhere ==
  ASSUME CrewInv, now' \in Nat, calls' \in 0..MaxCalls, calls <= calls', UNCHANGED crewState
  PROVE  CrewInv'
<1> USE DEF CrewInv, CallsInv, crewState
<1>1. CrewTypeOK'
  BY DEF CrewTypeOK, ServingTypeOK
<1>2. /\ RoomIds \subseteq Nat /\ calls \in Nat /\ calls' \in Nat
      /\ \A r \in RoomIds : invited[r] \subseteq RoomIds
  BY Numbers, ServingAssumption DEF CrewTypeOK
<1>3. \A t \in Threads : Busy(t) => crew[t].n \in Nat
  BY <1>2, CrewCallShape
<1>4. NumberInv' /\ UsedInv'
  <2>1. UsedInv'
    BY <1>2, MoreCalls
  <2>2. \A t \in Threads : Busy(t) => crew[t].n <= calls'
    <3> HIDE DEF Busy
    <3> QED
      BY <1>2, <1>3 DEF NumberInv
  <2> QED
    BY <2>1, <2>2 DEF NumberInv, Busy
<1>5. CreateInv' /\ DecidedInv' /\ TargetInv'
  BY DEF CreateInv, DecidedInv, TargetInv, TargetFits, Busy
<1> QED
  BY <1>1, <1>4, <1>5, SeatsStay

-----------------------------------------------------------------------------
LEMMA CrewPreserved ==
  ASSUME CrewInv, [CrewNext]_crewVars
  PROVE  CrewInv'
<1>1. ASSUME NEW t \in Threads, ServeCrew(t) PROVE CrewInv'
  BY <1>1, ReadForCreateStep, ReadStep, RefuseOrFailStep, CreateStep, OpenOrListStep,
     JoinRoomStep, StartStep, RenameStep, TransferStep, RevokeStep, DeleteStep DEF ServeCrew
<1>2. CASE Elsewhere /\ UNCHANGED crewState
  <2>1. now' \in Nat /\ calls' \in 0..MaxCalls /\ calls <= calls'
    BY <1>2, Numbers DEF Elsewhere, CrewInv
  <2> QED
    BY <1>2, <2>1, CrewElsewhere
<1>3. CASE UNCHANGED crewVars
  <2>1. now' = now /\ calls' = calls /\ UNCHANGED crewState
    BY <1>3 DEF crewVars, serving
  <2>2. now \in Nat /\ calls \in 0..MaxCalls /\ calls \in Nat
    BY Numbers DEF CrewInv, CrewTypeOK, ServingTypeOK
  <2> QED
    BY <2>1, <2>2, CrewElsewhere
<1> QED
  BY <1>1, <1>2, <1>3, AskCrewStep DEF CrewNext, CrewStep

THEOREM CrewInvHolds == CrewSpec => []CrewInv
<1>1. CrewInit /\ ServingInit => CrewInv
  BY CrewInitHolds
<1>2. CrewInv /\ [CrewNext]_crewVars => CrewInv'
  BY CrewPreserved
<1> QED
  BY <1>1, <1>2, PTL DEF CrewSpec

(* An alias opens one room: the unique constraint decides at the commit.   *)
THEOREM AliasOpensOneRoom == CrewSpec => []OneRoomPerAlias
<1>1. CrewInv => OneRoomPerAlias
  BY DEF CrewInv, AliasInv, OneRoomPerAlias, Standing
<1> QED
  BY <1>1, CrewInvHolds, PTL

(* A deleted room leaves no seat behind, of a join that overlaps included. *)
THEOREM SeatsGoWithRoom == CrewSpec => []NoSeatWithoutRoom
<1>1. CrewInv => NoSeatWithoutRoom
  BY DEF CrewInv, SeatInv, NoSeatWithoutRoom, Standing, Seats
<1> QED
  BY <1>1, CrewInvHolds, PTL

(* The owner can open the room, unless its transfer overlapped the         *)
(* revocation of the new owner.                                            *)
THEOREM OwnerCanOpen == CrewSpec => []OwnerStands
<1>1. CrewInv => OwnerStands
  BY DEF CrewInv, OwnerInv, OwnerStands, Standing, Active
<1> QED
  BY <1>1, CrewInvHolds, PTL

(* A replaced invitation is never current again: a start writes its own.   *)
THEOREM InvitesReplaced == CrewSpec => InvitesNeverReturn
<1> DEFINE NoReturn == \A r \in Standing :
             rooms'[r] # NoRow /\ rooms'[r].invite # rooms[r].invite =>
               rooms'[r].invite \notin invited[r]
<1>1. ASSUME CrewInv, [CrewNext]_crewVars PROVE NoReturn
  <2> SUFFICES ASSUME NEW r \in RoomIds, rooms[r] # NoRow, rooms'[r] # NoRow,
                      rooms'[r].invite # rooms[r].invite
               PROVE  rooms'[r].invite \notin invited[r]
    BY DEF Standing
  <2>1. rooms[r] \in RoomRow /\ rooms \in [RoomIds -> RoomRow \cup {NoRow}]
    BY <1>1 DEF CrewInv, CrewTypeOK
  <2>2. ASSUME NEW t \in Threads, Busy(t) PROVE crew[t].n \notin invited[r]
    BY <1>1, <2>2 DEF CrewInv, CallsInv, NumberInv
  <2>3. ASSUME NEW t \in Threads, Create(t) PROVE rooms'[r].invite = crew[t].n
    BY <2>1, <2>3 DEF Create
  <2>4. ASSUME NEW t \in Threads, Start(t) PROVE rooms'[r].invite = crew[t].n
    <3> DEFINE next == NextGeneration(t)
    <3>1. rooms' = [rooms EXCEPT ![crew[t].id] =
                      [rooms[crew[t].id] EXCEPT !.invite = crew[t].n, !.generation = next]]
      BY <2>4 DEF Start
    <3> HIDE DEF next
    <3>2. crew[t].id = r /\ rooms'[r] = [rooms[r] EXCEPT !.invite = crew[t].n, !.generation = next]
      BY <2>1, <3>1
    <3> QED
      BY <2>1, <3>2 DEF RoomRow
  <2>5. ASSUME NEW t \in Threads, Rename(t) PROVE FALSE
    BY <2>1, <2>5 DEF Rename, RoomUpdate, RoomRow
  <2>6. ASSUME NEW t \in Threads, Transfer(t) PROVE FALSE
    BY <2>1, <2>6 DEF Transfer, RoomUpdate, RoomRow
  <2>7. ASSUME NEW t \in Threads, Delete(t) PROVE FALSE
    BY <2>1, <2>7 DEF Delete
  <2>8. \/ rooms' = rooms
        \/ \E t \in Threads : Busy(t) /\ (Create(t) \/ Start(t))
        \/ \E t \in Threads : Rename(t) \/ Transfer(t) \/ Delete(t)
    BY <1>1 DEF CrewNext, CrewStep, crewVars, crewState, AskCrew, ServeCrew, Ask, AskCreate,
         AskOpen, AskJoin, AskStart, AskList, AskRename, AskTransfer, AskRevoke, AskDelete,
         ReadForCreate, Read, RefuseCall, OpenOrList, Join, Revoke, Fail, Create, Start,
         Writing, Busy
  <2> QED
    BY <2>2, <2>3, <2>4, <2>5, <2>6, <2>7, <2>8
<1>2. CrewInv /\ [CrewNext]_crewVars => [NoReturn]_crewVars
  BY <1>1
<1> QED
  BY <1>2, CrewInvHolds, PTL DEF CrewSpec, InvitesNeverReturn

(* A revocation is lifted by nothing but a join whose invitation was the   *)
(* current one when, after the revocation, the call read it.               *)
THEOREM RevocationHolds == CrewSpec => RevocationSticks
<1> DEFINE Sticks ==
      \A s \in Seats :
        members[s] # NoRow /\ members[s].revoked /\ members'[s] # NoRow
          /\ ~members'[s].revoked =>
        \E t \in Threads :
          /\ Join(t)
          /\ <<crew[t].id, crew[t].req.phone>> = s
          /\ crew[t].member # NoRow /\ crew[t].member.revoked
          /\ crew[t].room.invite = crew[t].req.key
<1>1. ASSUME CrewInv, [CrewNext]_crewVars PROVE Sticks
  <2> SUFFICES ASSUME NEW s \in Seats, members[s] # NoRow, members[s].revoked,
                      members'[s] # NoRow, ~members'[s].revoked
               PROVE  \E t \in Threads :
                        /\ Join(t)
                        /\ <<crew[t].id, crew[t].req.phone>> = s
                        /\ crew[t].member # NoRow /\ crew[t].member.revoked
                        /\ crew[t].room.invite = crew[t].req.key
    OBVIOUS
  <2>1. members \in [Seats -> MemberRow \cup {NoRow}]
    BY <1>1 DEF CrewInv, CrewTypeOK
  <2>2. ASSUME NEW t \in Threads, Create(t) PROVE FALSE
    <3>1. Busy(t) /\ crew[t].id = crew[t].n /\ rooms[crew[t].n] = NoRow
      BY <1>1, <2>2 DEF Create, Writing, Busy, CrewInv, CallsInv, CreateInv
    <3>2. s # <<crew[t].id, crew[t].req.phone>>
      BY <1>1, <3>1 DEF CrewInv, SeatInv
    <3> QED
      BY <2>1, <2>2, <3>2 DEF Create
  <2>3. ASSUME NEW t \in Threads, Revoke(t) PROVE FALSE
    BY <2>1, <2>3 DEF Revoke
  <2>4. ASSUME NEW t \in Threads, Delete(t) PROVE FALSE
    BY <2>1, <2>4 DEF Delete, MembersWithout
  <2>5. ASSUME NEW t \in Threads, Join(t)
        PROVE  /\ <<crew[t].id, crew[t].req.phone>> = s
               /\ crew[t].member # NoRow /\ crew[t].member.revoked
               /\ crew[t].room.invite = crew[t].req.key
    <3> DEFINE seat == <<crew[t].id, crew[t].req.phone>>
    <3> DEFINE row == [credential |-> crew[t].n,
                       revoked |-> members[seat] # NoRow /\ members[seat].revoked
                                     /\ ~crew[t].member.revoked]
    <3>1. /\ Busy(t) /\ crew[t].req.kind = "join"
          /\ (crew[t].member = NoRow) <=> (members[seat] = NoRow)
          /\ members' = [members EXCEPT ![seat] = row]
      BY <2>5 DEF Join, Writing, Busy
    <3>2. row.revoked <=> members[seat] # NoRow /\ members[seat].revoked
                            /\ ~crew[t].member.revoked
      OBVIOUS
    <3>3. crew[t].room.invite = crew[t].req.key
      BY <1>1, <2>5, WriterShape DEF Join
    <3> HIDE DEF seat, row
    <3>4. seat = s
      BY <2>1, <3>1
    <3> QED
      BY <2>1, <3>1, <3>2, <3>3, <3>4 DEF seat
  <2>6. \/ members' = members
        \/ \E t \in Threads : Create(t) \/ Join(t) \/ Revoke(t) \/ Delete(t)
    BY <1>1 DEF CrewNext, CrewStep, crewVars, crewState, AskCrew, ServeCrew, Ask, AskCreate,
         AskOpen, AskJoin, AskStart, AskList, AskRename, AskTransfer, AskRevoke, AskDelete,
         ReadForCreate, Read, RefuseCall, OpenOrList, Touched, Start, Rename, Transfer, Fail
  <2> QED
    BY <2>2, <2>3, <2>4, <2>5, <2>6
<1>2. CrewInv /\ [CrewNext]_crewVars => [Sticks]_crewVars
  BY <1>1
<1> QED
  BY <1>2, CrewInvHolds, PTL DEF CrewSpec, RevocationSticks

-----------------------------------------------------------------------------
(***************************************************************************)
(* Ride codes.  What a registration has read stays true until it writes: a *)
(* ride it found claimed keeps its secret, a ride it claims is nobody      *)
(* else's (ClaimInv), and a code it found keeps its ride and secret        *)
(* (FoundInv).                                                             *)
(***************************************************************************)
Claims(t) == registering[t] # NoEntry /\ registering[t].claims
Registers(t) == registering[t] # NoEntry /\ registering[t].phase = "write"

ClaimInv ==
  \A t \in Registrars : registering[t] # NoEntry =>
    LET g == registering[t] IN
    /\ g.claims => /\ g.phase = "write"
                   /\ claimed[g.ride] = NoEntry
                   /\ \A u \in Registrars :
                        Claims(u) /\ registering[u].ride = g.ride => u = t
    /\ g.phase = "write" /\ ~g.claims =>
         /\ claimed[g.ride] # NoEntry
         /\ claimed[g.ride].secret = g.secret

(* The row of a code that has not expired at a time. *)
LiveIn(C, code, at) ==
  IF C[code] = NoEntry \/ C[code].expires <= at THEN NoEntry ELSE C[code]

FoundInv ==
  \A t \in Registrars : Registers(t) /\ ~registering[t].isNew =>
    LET live == LiveIn(codes, registering[t].code, now) IN
    /\ live # NoEntry
    /\ live.ride = registering[t].ride
    /\ live.secret = registering[t].secret

(* A promise is kept by the row of its code, which expires no sooner. *)
Kept(p) ==
  /\ codes[p.code] # NoEntry
  /\ codes[p.code].ride = p.ride
  /\ codes[p.code].secret = p.secret
  /\ codes[p.code].expires >= p.expires

PromiseInv == \A p \in promised : p.expires > now => Kept(p)

JoinInv == JoinTypeOK /\ ClaimInv /\ FoundInv /\ PromiseInv

-----------------------------------------------------------------------------
LEMMA JoinShapes ==
  NoEntry \notin ClaimedRide /\ NoEntry \notin RideJoinCode /\ NoEntry \notin Registration
BY JoinAssumption

LEMMA JoinInitHolds == JoinInit /\ ServingInit => JoinInv
BY ServingAssumption
   DEF JoinInit, ServingInit, JoinInv, JoinTypeOK, ServingTypeOK, ClaimInv, FoundInv,
       PromiseInv, Registers

LEMMA LiveIsIn == \A c : LiveCode(c) = LiveIn(codes, c, now)
BY DEF LiveCode, LiveIn

(* A registration that leaves the tables alone and ends, or arrives.       *)
LEMMA NoWriteStep ==
  ASSUME JoinInv, NEW t \in Registrars, JoinTypeOK', UNCHANGED <<now, claimed, codes, promised>>,
         \/ registering'[t] = NoEntry
         \/ registering'[t].phase = "open" /\ ~registering'[t].claims,
         \A u \in Registrars \ {t} : registering'[u] = registering[u]
  PROVE  JoinInv'
<1> USE DEF JoinInv
<1>1. ClaimInv'
  <2>1. ~Claims(t)' /\ ~Registers(t)'
    BY DEF Claims, Registers
  <2>2. \A u \in Registrars : Claims(u)' => Claims(u) /\ u # t
    BY <2>1 DEF Claims
  <2> QED
    BY <2>1, <2>2 DEF ClaimInv, Claims, Registers
<1>2. FoundInv'
  BY DEF FoundInv, Registers
<1>3. PromiseInv'
  BY DEF PromiseInv, Kept
<1> QED
  BY <1>1, <1>2, <1>3

LEMMA AskRegisterStep ==
  ASSUME JoinInv, NEW t \in Registrars, AskRegister(t)
  PROVE  JoinInv'
<1>1. PICK ride \in Rides, secret \in Secrets, root \in Roots \cup {NoRoot}, code \in Codes :
        registering' = [registering EXCEPT ![t] =
          [n |-> calls', ride |-> ride, secret |-> secret,
           root |-> root, code |-> code, phase |-> "open", claims |-> FALSE,
           readRoot |-> NoRoot, isNew |-> FALSE]]
  BY DEF AskRegister
<1>2. /\ now' = now /\ calls' \in 0..MaxCalls /\ calls' \in Nat
      /\ UNCHANGED <<claimed, codes, promised>>
  BY ServingAssumption DEF AskRegister, Arrival, JoinInv, JoinTypeOK, ServingTypeOK
<1>3. [n |-> calls', ride |-> ride, secret |-> secret,
       root |-> root, code |-> code, phase |-> "open", claims |-> FALSE,
       readRoot |-> NoRoot, isNew |-> FALSE] \in Registration
  BY <1>2 DEF Registration
<1>4. /\ registering' \in [Registrars -> Registration \cup {NoEntry}]
      /\ registering'[t].phase = "open" /\ ~registering'[t].claims
      /\ \A u \in Registrars \ {t} : registering'[u] = registering[u]
  BY <1>1, <1>3 DEF JoinInv, JoinTypeOK
<1>5. JoinTypeOK'
  BY <1>2, <1>4 DEF JoinInv, JoinTypeOK, ServingTypeOK
<1> QED
  BY <1>2, <1>4, <1>5, NoWriteStep

(* A refusal, or a failure at the commit. *)
LEMMA EndedStep ==
  ASSUME JoinInv, NEW t \in Registrars,
         registering' = [registering EXCEPT ![t] = NoEntry],
         UNCHANGED <<serving, claimed, codes, promised>>
  PROVE  JoinInv'
<1>1. /\ registering' \in [Registrars -> Registration \cup {NoEntry}]
      /\ registering'[t] = NoEntry
      /\ \A u \in Registrars \ {t} : registering'[u] = registering[u]
  BY DEF JoinInv, JoinTypeOK
<1>2. JoinTypeOK' /\ now' = now
  BY <1>1 DEF JoinInv, JoinTypeOK, ServingTypeOK, serving
<1> QED
  BY <1>1, <1>2, NoWriteStep

LEMMA ReadRideStep ==
  ASSUME JoinInv, NEW t \in Registrars, ReadRide(t)
  PROVE  JoinInv'
<1> DEFINE g == registering[t]
<1> DEFINE claims == claimed[g.ride] = NoEntry
<1> DEFINE root == IF claimed[g.ride] = NoEntry THEN NoRoot ELSE claimed[g.ride].root
<1> DEFINE isNew == LiveCode(g.code) = NoEntry
<1>1. /\ g \in Registration /\ g.ride \in Rides /\ g.phase = "open" /\ ~g.claims
      /\ claims => Claiming(g.ride) = {}
      /\ SecretFits(t) /\ CodeFits(t)
      /\ UNCHANGED <<serving, claimed, codes, promised>>
  BY DEF JoinInv, JoinTypeOK, ReadRide, Registration, ClaimInv
<1>2. claims \in BOOLEAN /\ isNew \in BOOLEAN /\ root \in Roots \cup {NoRoot}
  BY <1>1 DEF JoinInv, JoinTypeOK, ClaimedRide
<1>3. registering' = [registering EXCEPT ![t] =
        [g EXCEPT !.phase = "write", !.claims = claims, !.readRoot = root, !.isNew = isNew]]
  BY DEF ReadRide
<1> HIDE DEF claims, root, isNew
<1>4. /\ registering'[t] =
           [g EXCEPT !.phase = "write", !.claims = claims, !.readRoot = root, !.isNew = isNew]
      /\ \A u \in Registrars \ {t} : registering'[u] = registering[u]
      /\ registering' = [u \in Registrars |-> registering'[u]]
  BY <1>3 DEF JoinInv, JoinTypeOK
<1>5. /\ registering'[t] \in Registration /\ registering'[t].phase = "write"
      /\ registering'[t].ride = g.ride /\ registering'[t].secret = g.secret
      /\ registering'[t].code = g.code
      /\ registering'[t].claims = claims /\ registering'[t].isNew = isNew
  BY <1>1, <1>2, <1>4 DEF Registration
<1>6. JoinTypeOK' /\ now' = now
  BY <1>1, <1>4, <1>5 DEF JoinInv, JoinTypeOK, ServingTypeOK, serving
<1>7. ClaimInv'
  <2>1. ASSUME NEW u \in Registrars \ {t}, Claims(u)
        PROVE  claims => registering[u].ride # g.ride
    BY <1>1, <2>1 DEF Claiming, Claims
  <2>2. \A u \in Registrars \ {t} : Claims(u)' <=> Claims(u)
    BY <1>4 DEF Claims
  <2>3. Claims(t)' <=> claims
    BY <1>5, JoinShapes DEF Claims
  <2>4. claims => claimed[g.ride] = NoEntry
    BY DEF claims
  <2>5. ~claims => claimed[g.ride] # NoEntry /\ claimed[g.ride].secret = g.secret
    BY <1>1 DEF claims, SecretFits
  <2>6. ASSUME NEW u \in Registrars, NEW v \in Registrars, Claims(u)', Claims(v)',
               registering'[u].ride = registering'[v].ride
        PROVE  u = v
    <3>1. CASE u # t /\ v # t
      BY <1>4, <2>2, <2>6, <3>1 DEF JoinInv, ClaimInv, Claims
    <3>2. ASSUME NEW w \in Registrars \ {t}, Claims(w)', claims,
                 registering'[w].ride = g.ride
          PROVE  FALSE
      BY <1>4, <2>1, <2>2, <3>2
    <3>3. CASE u = t /\ v # t
      BY <1>5, <2>3, <2>6, <3>2, <3>3
    <3>4. CASE u # t /\ v = t
      BY <1>5, <2>3, <2>6, <3>2, <3>4
    <3> QED
      BY <3>1, <3>3, <3>4
  <2>7. ASSUME NEW u \in Registrars, registering'[u] # NoEntry
        PROVE  LET k == registering'[u] IN
               /\ k.claims => k.phase = "write" /\ claimed'[k.ride] = NoEntry
               /\ k.phase = "write" /\ ~k.claims =>
                    claimed'[k.ride] # NoEntry /\ claimed'[k.ride].secret = k.secret
    <3>1. CASE u = t
      BY <1>1, <1>5, <2>4, <2>5, <3>1
    <3>2. CASE u # t
      BY <1>1, <1>4, <2>7, <3>2 DEF JoinInv, ClaimInv
    <3> QED
      BY <3>1, <3>2
  <2> QED
    BY <2>6, <2>7 DEF ClaimInv, Claims
<1>8. FoundInv'
  <2>1. ~isNew =>
          /\ LiveCode(g.code) # NoEntry
          /\ LiveCode(g.code).ride = g.ride
          /\ LiveCode(g.code).secret = g.secret
    BY <1>1 DEF isNew, CodeFits
  <2>2. LiveCode(g.code) = LiveIn(codes, g.code, now)
    BY LiveIsIn
  <2>3. ASSUME NEW u \in Registrars, Registers(u)', ~registering'[u].isNew
        PROVE  LET live == LiveIn(codes', registering'[u].code, now') IN
               /\ live # NoEntry
               /\ live.ride = registering'[u].ride
               /\ live.secret = registering'[u].secret
    <3>1. CASE u = t
      BY <1>1, <1>5, <1>6, <2>1, <2>2, <2>3, <3>1
    <3>2. CASE u # t
      BY <1>1, <1>4, <1>6, <2>3, <3>2 DEF JoinInv, FoundInv, Registers
    <3> QED
      BY <3>1, <3>2
  <2> QED
    BY <2>3 DEF FoundInv
<1>9. PromiseInv'
  BY <1>1, <1>6 DEF JoinInv, PromiseInv, Kept
<1> QED
  BY <1>6, <1>7, <1>8, <1>9 DEF JoinInv

-----------------------------------------------------------------------------
(* The ride's secret stands, and the code's row where it is live.          *)
LEMMA WrittenRows ==
  ASSUME JoinInv, NEW t \in Registrars, Register(t)
  PROVE  LET g == registering[t]
             old == LiveCode(g.code)
             expires == IF old = NoEntry THEN now + CodeLife ELSE old.expires
         IN  /\ g \in Registration /\ g.ride \in Rides /\ g.code \in Codes
             /\ claimed[g.ride] # NoEntry => claimed[g.ride].secret = g.secret
             /\ old # NoEntry =>
                  old.ride = g.ride /\ old.secret = g.secret /\ old = codes[g.code]
             /\ RideAfter(g) \in ClaimedRide /\ RideAfter(g).secret = g.secret
             /\ expires \in Nat /\ expires > now
             /\ Row(g, expires) \in RideJoinCode
<1> DEFINE g == registering[t]
<1> DEFINE old == LiveCode(g.code)
<1> DEFINE expires == IF old = NoEntry THEN now + CodeLife ELSE old.expires
<1>1. /\ g # NoEntry /\ g \in Registration /\ g.phase = "write" /\ ~CodeTaken(g)
      /\ g.ride \in Rides /\ g.secret \in Secrets /\ g.root \in Roots \cup {NoRoot}
      /\ g.code \in Codes /\ g.n \in Nat /\ g.isNew \in BOOLEAN
  BY DEF JoinInv, JoinTypeOK, Register, Registration
<1>2. claimed[g.ride] # NoEntry => claimed[g.ride].secret = g.secret
  BY <1>1 DEF JoinInv, ClaimInv
<1>3. old # NoEntry => old.ride = g.ride /\ old.secret = g.secret
  BY <1>1, LiveIsIn DEF JoinInv, FoundInv, Registers, CodeTaken
<1>4. old # NoEntry =>
        old = codes[g.code] /\ old.expires \in Nat /\ old.expires > now
  BY <1>1 DEF LiveCode, JoinInv, JoinTypeOK, RideJoinCode, ServingTypeOK
<1>5. expires \in Nat /\ expires > now
  <2>1. now \in Nat /\ CodeLife \in Nat \ {0}
    BY JoinAssumption DEF JoinInv, JoinTypeOK, ServingTypeOK
  <2> HIDE DEF old
  <2> QED
    BY <1>4, <2>1
<1>6. RideAfter(g) \in ClaimedRide /\ RideAfter(g).secret = g.secret
  <2>1. claimed[g.ride] # NoEntry => claimed[g.ride].root \in Roots \cup {NoRoot}
    BY <1>1 DEF JoinInv, JoinTypeOK, ClaimedRide
  <2> QED
    BY <1>1, <2>1 DEF RideAfter, ClaimedRide
<1>7. Row(g, expires) \in RideJoinCode
  BY <1>1, <1>5 DEF Row, RideJoinCode
<1> QED
  BY <1>1, <1>2, <1>3, <1>4, <1>5, <1>6, <1>7

LEMMA RegisterStep ==
  ASSUME JoinInv, NEW t \in Registrars, Register(t)
  PROVE  JoinInv'
<1> DEFINE g == registering[t]
<1> DEFINE old == LiveCode(g.code)
<1> DEFINE expires == IF old = NoEntry THEN now + CodeLife ELSE old.expires
<1> DEFINE row == Row(g, expires)
<1> DEFINE ride == RideAfter(g)
<1>1. /\ g \in Registration /\ g.ride \in Rides /\ g.code \in Codes
      /\ claimed[g.ride] # NoEntry => claimed[g.ride].secret = g.secret
      /\ old # NoEntry =>
           old.ride = g.ride /\ old.secret = g.secret /\ old = codes[g.code]
      /\ ride \in ClaimedRide /\ ride.secret = g.secret
      /\ expires \in Nat /\ expires > now
      /\ row \in RideJoinCode
      /\ old # NoEntry => expires = old.expires
  BY WrittenRows
<1>2. /\ claimed' = [claimed EXCEPT ![g.ride] = ride]
      /\ codes' = [CodesPurged EXCEPT ![g.code] = row]
      /\ promised' = promised \cup
           {[code |-> g.code, ride |-> g.ride, secret |-> g.secret, n |-> g.n,
             expires |-> expires]}
      /\ registering' = [registering EXCEPT ![t] = NoEntry]
      /\ now' = now /\ calls' = calls
      /\ row.ride = g.ride /\ row.secret = g.secret /\ row.expires = expires
      /\ g # NoEntry /\ g.phase = "write"
  BY DEF Register, serving, Row
<1> HIDE DEF old, expires, row, ride
<1>3. /\ registering'[t] = NoEntry
      /\ \A u \in Registrars \ {t} : registering'[u] = registering[u]
      /\ registering' \in [Registrars -> Registration \cup {NoEntry}]
  BY <1>2 DEF JoinInv, JoinTypeOK
<1>4. /\ claimed'[g.ride] = ride
      /\ \A r \in Rides \ {g.ride} : claimed'[r] = claimed[r]
      /\ claimed' \in [Rides -> ClaimedRide \cup {NoEntry}]
  BY <1>1, <1>2 DEF JoinInv, JoinTypeOK
<1>5. /\ codes'[g.code] = row
      /\ \A c \in Codes \ {g.code} : codes'[c] = LiveCode(c)
      /\ codes' \in [Codes -> RideJoinCode \cup {NoEntry}]
  BY <1>1, <1>2 DEF JoinInv, JoinTypeOK, CodesPurged, LiveCode
<1>6. JoinTypeOK'
  <2>1. [code |-> g.code, ride |-> g.ride, secret |-> g.secret, n |-> g.n,
         expires |-> expires] \in Promise
    BY <1>1 DEF Promise, Registration
  <2> QED
    BY <1>2, <1>3, <1>4, <1>5, <2>1 DEF JoinInv, JoinTypeOK, ServingTypeOK
<1>7. ClaimInv'
  <2>1. \A u \in Registrars : registering'[u] # NoEntry =>
          /\ u # t /\ registering'[u] = registering[u] /\ registering[u] # NoEntry
          /\ registering[u].ride \in Rides
    BY <1>3 DEF JoinInv, JoinTypeOK, Registration
  <2>2. ASSUME NEW u \in Registrars \ {t}, Claims(u)
        PROVE  registering[u].ride # g.ride
    <3> SUFFICES ASSUME registering[u].ride = g.ride PROVE FALSE
      OBVIOUS
    <3>1. claimed[g.ride] = NoEntry
      BY <2>2 DEF JoinInv, ClaimInv, Claims
    <3>2. Claims(t)
      BY <1>2, <3>1 DEF JoinInv, ClaimInv, Claims
    <3> QED
      BY <2>2, <3>2 DEF JoinInv, ClaimInv, Claims
  <2>3. ASSUME NEW u \in Registrars, registering'[u] # NoEntry
        PROVE  LET k == registering'[u] IN
               /\ k.claims =>
                    /\ k.phase = "write"
                    /\ claimed'[k.ride] = NoEntry
                    /\ \A v \in Registrars : Claims(v)' /\ registering'[v].ride = k.ride => v = u
               /\ k.phase = "write" /\ ~k.claims =>
                    claimed'[k.ride] # NoEntry /\ claimed'[k.ride].secret = k.secret
    <3> DEFINE k == registering[u]
    <3>1. u # t /\ registering'[u] = k /\ k # NoEntry /\ k.ride \in Rides
      BY <2>1, <2>3
    <3>2. k.claims =>
            /\ k.phase = "write" /\ claimed[k.ride] = NoEntry /\ k.ride # g.ride
            /\ \A v \in Registrars : Claims(v) /\ registering[v].ride = k.ride => v = u
      BY <2>2, <3>1 DEF JoinInv, ClaimInv, Claims
    <3>3. \A v \in Registrars : Claims(v)' => Claims(v) /\ registering'[v] = registering[v]
      BY <2>1 DEF Claims
    <3>4. k.phase = "write" /\ ~k.claims =>
            claimed[k.ride] # NoEntry /\ claimed[k.ride].secret = k.secret
      BY <3>1 DEF JoinInv, ClaimInv
    <3>5. claimed[k.ride] # NoEntry =>
            claimed'[k.ride] # NoEntry /\ claimed'[k.ride].secret = claimed[k.ride].secret
      BY <1>1, <1>4, <3>1, JoinShapes
    <3>6. k.claims => claimed'[k.ride] = NoEntry
      BY <1>4, <3>1, <3>2
    <3> QED
      BY <3>1, <3>2, <3>3, <3>4, <3>5, <3>6
  <2> QED
    BY <2>3 DEF ClaimInv
<1>8. row.expires > now /\ row # NoEntry
  BY <1>1, <1>2, JoinShapes
<1>9. FoundInv'
  <2> SUFFICES ASSUME NEW u \in Registrars, Registers(u)', ~registering'[u].isNew
               PROVE  LET live == LiveIn(codes', registering'[u].code, now') IN
                      /\ live # NoEntry
                      /\ live.ride = registering'[u].ride
                      /\ live.secret = registering'[u].secret
    BY DEF FoundInv
  <2> DEFINE k == registering[u]
  <2>1. /\ registering'[u] = k /\ Registers(u) /\ ~k.isNew /\ k.code \in Codes
    BY <1>3 DEF Registers, JoinInv, JoinTypeOK, Registration
  <2>2. LET live == LiveIn(codes, k.code, now) IN
        live # NoEntry /\ live.ride = k.ride /\ live.secret = k.secret
    BY <2>1 DEF JoinInv, FoundInv
  <2>3. CASE k.code = g.code
    <3>1. old # NoEntry /\ k.ride = g.ride /\ k.secret = g.secret
      BY <1>1, <2>2, <2>3, LiveIsIn DEF old
    <3>2. now \in Nat /\ ~(row.expires <= now)
      BY <1>1, <1>2 DEF JoinInv, JoinTypeOK, ServingTypeOK
    <3>3. LiveIn(codes', k.code, now') = row
      BY <1>2, <1>5, <1>8, <2>3, <3>2 DEF LiveIn
    <3> QED
      BY <1>2, <1>8, <2>1, <3>1, <3>3
  <2>4. CASE k.code # g.code
    <3>1. codes'[k.code] = LiveIn(codes, k.code, now)
      BY <1>5, <2>1, <2>4, LiveIsIn
    <3>2. LiveIn(codes', k.code, now') = LiveIn(codes, k.code, now)
      BY <1>2, <3>1 DEF LiveIn
    <3> QED
      BY <2>1, <2>2, <3>2
  <2> QED
    BY <2>3, <2>4
<1>10. PromiseInv'
  <2> SUFFICES ASSUME NEW p \in promised', p.expires > now
               PROVE  Kept(p)'
    BY <1>2 DEF PromiseInv
  <2>1. CASE p \in promised /\ p.code # g.code
    <3>1. Kept(p) /\ p.code \in Codes /\ p.expires \in Nat /\ now \in Nat
      BY <2>1 DEF JoinInv, PromiseInv, JoinTypeOK, ServingTypeOK, Promise
    <3>2. codes[p.code].expires \in Nat /\ codes[p.code].expires >= p.expires
      BY <3>1 DEF Kept, JoinInv, JoinTypeOK, RideJoinCode
    <3>3. LiveCode(p.code) = codes[p.code]
      BY <3>1, <3>2 DEF LiveCode
    <3> QED
      BY <1>5, <2>1, <3>1, <3>3 DEF Kept
  <2>2. CASE p \in promised /\ p.code = g.code
    <3>1. Kept(p) /\ p.code \in Codes /\ p.expires \in Nat /\ now \in Nat
      BY <2>2 DEF JoinInv, PromiseInv, JoinTypeOK, ServingTypeOK, Promise
    <3>2. codes[p.code].expires \in Nat /\ codes[p.code].expires >= p.expires
      BY <3>1 DEF Kept, JoinInv, JoinTypeOK, RideJoinCode
    <3>3. LiveCode(p.code) = codes[p.code] /\ old = codes[p.code] /\ old # NoEntry
      BY <2>2, <3>1, <3>2 DEF LiveCode, Kept, old
    <3> QED
      BY <1>1, <1>2, <1>5, <1>8, <2>2, <3>1, <3>3 DEF Kept
  <2>3. CASE p = [code |-> g.code, ride |-> g.ride, secret |-> g.secret, n |-> g.n,
                  expires |-> expires]
    BY <1>1, <1>2, <1>5, <1>8, <2>3 DEF Kept
  <2> QED
    BY <1>2, <2>1, <2>2, <2>3
<1> QED
  BY <1>6, <1>7, <1>9, <1>10 DEF JoinInv

(* A code that is deleted had expired. *)
LEMMA PurgeCodesStep ==
  ASSUME JoinInv, PurgeCodes
  PROVE  JoinInv'
<1>1. /\ UNCHANGED <<now, calls, claimed, registering, promised>>
      /\ \A c \in Codes : codes'[c] = LiveCode(c)
      /\ codes' \in [Codes -> RideJoinCode \cup {NoEntry}]
  BY DEF PurgeCodes, CodesPurged, LiveCode, JoinInv, JoinTypeOK, serving
<1>2. JoinTypeOK'
  BY <1>1 DEF JoinInv, JoinTypeOK, ServingTypeOK
<1>3. ClaimInv'
  BY <1>1 DEF JoinInv, ClaimInv, Claims
<1>4. \A c \in Codes : LiveIn(codes', c, now') = LiveIn(codes, c, now)
  BY <1>1, LiveIsIn DEF LiveIn
<1>5. FoundInv'
  <2>1. \A t \in Registrars : Registers(t) => registering[t].code \in Codes
    BY DEF Registers, JoinInv, JoinTypeOK, Registration
  <2> QED
    BY <1>1, <1>4, <2>1 DEF JoinInv, FoundInv, Registers
<1>6. PromiseInv'
  <2> SUFFICES ASSUME NEW p \in promised, p.expires > now PROVE Kept(p)'
    BY <1>1 DEF PromiseInv
  <2>1. Kept(p) /\ p.code \in Codes /\ p.expires \in Nat /\ now \in Nat
    BY DEF JoinInv, PromiseInv, JoinTypeOK, ServingTypeOK, Promise
  <2>2. codes[p.code].expires \in Nat /\ codes[p.code].expires >= p.expires
    BY <2>1 DEF Kept, JoinInv, JoinTypeOK, RideJoinCode
  <2>3. LiveCode(p.code) = codes[p.code]
    BY <2>1, <2>2 DEF LiveCode
  <2> QED
    BY <1>1, <2>1, <2>3 DEF Kept
<1> QED
  BY <1>2, <1>3, <1>5, <1>6 DEF JoinInv

(* Time passes only while nobody registers; a promise may run out.         *)
LEMMA JoinElsewhere ==
  ASSUME JoinInv, now' \in Nat, now <= now', calls' \in 0..MaxCalls,
         now' # now => JoinQuiet, UNCHANGED joinState
  PROVE  JoinInv'
<1> USE DEF joinState
<1>1. JoinTypeOK'
  BY DEF JoinInv, JoinTypeOK, ServingTypeOK
<1>2. ClaimInv'
  BY DEF JoinInv, ClaimInv, Claims
<1>3. FoundInv'
  BY DEF JoinInv, FoundInv, Registers, JoinQuiet
<1>4. PromiseInv'
  <2>1. now \in Nat /\ \A p \in promised : p.expires \in Nat
    BY DEF JoinInv, JoinTypeOK, ServingTypeOK, Promise
  <2> QED
    BY <2>1 DEF JoinInv, PromiseInv, Kept
<1> QED
  BY <1>1, <1>2, <1>3, <1>4 DEF JoinInv

-----------------------------------------------------------------------------
LEMMA JoinPreserved ==
  ASSUME JoinInv, [JoinNext]_joinVars
  PROVE  JoinInv'
<1>1. ASSUME NEW t \in Registrars,
             AskRegister(t) \/ ReadRide(t) \/ RefuseRegister(t) \/ Register(t) \/ FailRegister(t)
      PROVE  JoinInv'
  <2>1. CASE RefuseRegister(t)
    BY <2>1, EndedStep DEF RefuseRegister
  <2>2. CASE FailRegister(t)
    BY <2>2, EndedStep DEF FailRegister
  <2> QED
    BY <1>1, <2>1, <2>2, AskRegisterStep, ReadRideStep, RegisterStep
<1>2. CASE Elsewhere /\ (now' # now => JoinQuiet) /\ UNCHANGED joinState
  <2>1. now' \in Nat /\ now <= now' /\ calls' \in 0..MaxCalls
    BY <1>2 DEF Elsewhere
  <2> QED
    BY <1>2, <2>1, JoinElsewhere
<1>3. CASE UNCHANGED joinVars
  <2>1. now' = now /\ calls' = calls /\ UNCHANGED joinState
    BY <1>3 DEF joinVars, serving
  <2>2. now \in Nat /\ calls \in 0..MaxCalls
    BY DEF JoinInv, JoinTypeOK, ServingTypeOK
  <2> QED
    BY <2>1, <2>2, JoinElsewhere
<1> QED
  BY <1>1, <1>2, <1>3, PurgeCodesStep DEF JoinNext, JoinStep

THEOREM JoinInvHolds == JoinSpec => []JoinInv
<1>1. JoinInit /\ ServingInit => JoinInv
  BY JoinInitHolds
<1>2. JoinInv /\ [JoinNext]_joinVars => JoinInv'
  BY JoinPreserved
<1> QED
  BY <1>1, <1>2, PTL DEF JoinSpec

(* A confirmed code leads to its ride and secret until it expires, however *)
(* many others register the same digits meanwhile (register_join_code).    *)
THEOREM CodesResolve == JoinSpec => []PromisedResolves
<1>1. JoinInv => PromisedResolves
  <2> SUFFICES ASSUME JoinInv, NEW p \in promised, p.expires > now
               PROVE  /\ Resolved(p.code, 0) # NoEntry
                      /\ Resolved(p.code, 0).ride = p.ride
                      /\ Resolved(p.code, 0).secret = p.secret
    BY DEF PromisedResolves
  <2>1. Kept(p) /\ p.code \in Codes /\ p.expires \in Nat /\ now \in Nat
    BY DEF JoinInv, PromiseInv, JoinTypeOK, ServingTypeOK, Promise
  <2>2. codes[p.code].expires \in Nat /\ codes[p.code].expires >= p.expires
    BY <2>1 DEF Kept, JoinInv, JoinTypeOK, RideJoinCode
  <2> QED
    BY <2>1, <2>2 DEF Kept, Resolved
<1> QED
  BY <1>1, JoinInvHolds, PTL

(* A ride keeps the credential it was claimed with: of two claims that     *)
(* overlap the second waits for the first, and fits it or is refused.      *)
THEOREM CredentialKept == JoinSpec => CredentialStands
<1> DEFINE Stands == \A r \in Rides : claimed[r] # NoEntry =>
                       claimed'[r] # NoEntry /\ claimed'[r].secret = claimed[r].secret
<1>1. ASSUME JoinInv, [JoinNext]_joinVars PROVE Stands
  <2>1. ASSUME NEW t \in Registrars, Register(t) PROVE Stands
    <3> DEFINE g == registering[t]
    <3> DEFINE ride == RideAfter(g)
    <3>1. /\ g.ride \in Rides /\ ride \in ClaimedRide /\ ride.secret = g.secret
          /\ claimed[g.ride] # NoEntry => claimed[g.ride].secret = g.secret
      BY <1>1, <2>1, WrittenRows
    <3>2. claimed' = [claimed EXCEPT ![g.ride] = ride]
      BY <2>1 DEF Register
    <3> HIDE DEF ride
    <3> QED
      BY <1>1, <3>1, <3>2, JoinShapes DEF JoinInv, JoinTypeOK
  <2>2. claimed' = claimed \/ \E t \in Registrars : Register(t)
    BY <1>1 DEF JoinNext, JoinStep, joinVars, joinState, AskRegister, ReadRide,
         RefuseRegister, FailRegister, PurgeCodes
  <2> QED
    BY <2>1, <2>2
<1>2. JoinInv /\ [JoinNext]_joinVars => [Stands]_joinVars
  BY <1>1
<1> QED
  BY <1>2, JoinInvHolds, PTL DEF JoinSpec, CredentialStands
=============================================================================
