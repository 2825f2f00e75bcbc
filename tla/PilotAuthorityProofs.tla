------------------------ MODULE PilotAuthorityProofs ------------------------
(***************************************************************************)
(* Theorems about PilotAuthority, for any crew and any number of events:   *)
(* the policy and the reducer name the same pilot.                         *)
(*                                                                         *)
(* The argument follows the events in their order.  After the first n of   *)
(* them the policy's pilot is the one the reducer has reached by the       *)
(* handovers that were accepted among these n, and no other handover among *)
(* them could be applied.  That takes an E that the policy counts in full: *)
(* what a device keeps in memory is (FilteredTwice), which the inductive   *)
(* invariant says along with the order of an offer and its acceptance.     *)
(*                                                                         *)
(* For any clocks: an event that sorts after all others is judged last, by *)
(* the policy of the others, so events that come in their order are        *)
(* admitted as a replay would count them, and devices that have the same   *)
(* ones agree.                                                             *)
(***************************************************************************)
EXTENDS PilotAuthority, FiniteSetTheorems, WellFoundedInduction, TLAPS

(* A property of 0 that passes on to the next number is one of every       *)
(* number: the least that lacks it is neither 0 nor a successor.           *)
LEMMA EveryNumber ==
  ASSUME NEW T \in SUBSET Nat, 0 \in T, \A n \in T : n + 1 \in T
  PROVE  T = Nat
<1>1. IsWellFoundedOn(OpToRel(<, Nat), Nat)
  BY NatLessThanWellFounded
<1>2. SUFFICES ASSUME Nat \ T # {} PROVE FALSE
  OBVIOUS
<1>3. PICK n \in Nat \ T : \A m \in Nat \ T : ~(<<m, n>> \in OpToRel(<, Nat))
  <2> DEFINE C == Nat \ T
  <2>1. C \subseteq Nat /\ C # {}
    BY <1>2
  <2> HIDE DEF C
  <2>2. \E n \in C : \A m \in C : ~(<<m, n>> \in OpToRel(<, Nat))
    BY <1>1, <2>1, WFMin
  <2> QED
    BY <2>2 DEF C
<1>4. \A m \in Nat \ T : ~(m < n)
  BY <1>3 DEF OpToRel
<1>5. n # 0 /\ n - 1 \in Nat
  OBVIOUS
<1>6. n - 1 \in T
  BY <1>4, <1>5
<1> QED
  BY <1>5, <1>6

(* The same up to a bound. *)
LEMMA EveryNumberTo ==
  ASSUME NEW last \in Nat, NEW T, 0 \in T,
         \A n \in 0..last : n \in T /\ n + 1 <= last => n + 1 \in T
  PROVE  \A n \in 0..last : n \in T
<1> DEFINE U == {n \in Nat : n <= last => n \in T}
<1>1. 0 \in U
  OBVIOUS
<1>2. \A n \in U : n + 1 \in U
  OBVIOUS
<1>3. U \in SUBSET Nat
  OBVIOUS
<1> HIDE DEF U
<1>4. U = Nat
  BY <1>1, <1>2, <1>3, EveryNumber
<1> QED
  BY <1>4 DEF U

-----------------------------------------------------------------------------
(***************************************************************************)
(* The order of events.  A journal holds finitely many, no two alike.      *)
(***************************************************************************)
Journal(E) ==
  /\ E \subseteq Event
  /\ IsFiniteSet(E)
  /\ \A e, f \in E : e.id = f.id => e = f

Rank(E, e) == Cardinality({f \in E : Before(f, e)})
UpTo(E, n) == {e \in E : Rank(E, e) < n}

LEMMA EventFields ==
  ASSUME NEW e \in Event
  PROVE  /\ e.id \in Nat /\ e.at \in Int /\ e.by \in Devices
         /\ e.kind \in {"offer", "accept", "revoke"}
         /\ e.kind = "offer" => e.to \in Devices /\ e.expires \in Int
         /\ e.kind = "accept" => e.offer \in Nat
BY DEF Event

LEMMA BeforeOrders ==
  ASSUME NEW E, Journal(E)
  PROVE  /\ \A e \in E : ~Before(e, e)
         /\ \A e, f \in E : e = f \/ Before(e, f) \/ Before(f, e)
         /\ \A e, f, g \in E : Before(e, f) /\ Before(f, g) => Before(e, g)
<1>1. \A e \in E : e.id \in Nat /\ e.at \in Int
  BY EventFields DEF Journal
<1>2. \A e, f \in E : e.id = f.id => e = f
  BY DEF Journal
<1> QED
  BY <1>1, <1>2 DEF Before

LEMMA RankOrders ==
  ASSUME NEW E, Journal(E)
  PROVE  /\ Cardinality(E) \in Nat
         /\ \A e \in E : Rank(E, e) \in Nat /\ Rank(E, e) < Cardinality(E)
         /\ \A e, f \in E : Before(e, f) <=> Rank(E, e) < Rank(E, f)
         /\ \A e, f \in E : Rank(E, e) = Rank(E, f) => e = f
<1>1. IsFiniteSet(E) /\ Cardinality(E) \in Nat
  BY FS_CardinalityType DEF Journal
<1>2. ASSUME NEW A \in SUBSET E, NEW B \in SUBSET A, A # B
      PROVE  /\ Cardinality(A) \in Nat /\ Cardinality(B) \in Nat
             /\ Cardinality(B) < Cardinality(A)
  <2>1. IsFiniteSet(A) /\ Cardinality(A) \in Nat
    BY <1>1, FS_Subset, FS_CardinalityType
  <2>2. /\ IsFiniteSet(B) /\ Cardinality(B) \in Nat
        /\ Cardinality(B) <= Cardinality(A)
        /\ Cardinality(B) # Cardinality(A)
    BY <1>2, <2>1, FS_Subset, FS_CardinalityType
  <2> QED
    BY <2>1, <2>2
<1>3. ASSUME NEW e \in E
      PROVE  Rank(E, e) \in Nat /\ Rank(E, e) < Cardinality(E)
  <2>1. {f \in E : Before(f, e)} # E
    BY BeforeOrders
  <2> QED
    BY <1>2, <2>1 DEF Rank
<1>4. ASSUME NEW e \in E, NEW f \in E, Before(e, f)
      PROVE  Rank(E, e) < Rank(E, f)
  <2> DEFINE A == {g \in E : Before(g, f)}
             B == {g \in E : Before(g, e)}
  <2>1. B \subseteq A /\ e \in A /\ e \notin B
    BY <1>4, BeforeOrders
  <2>2. A \in SUBSET E /\ B \in SUBSET A /\ A # B
    BY <2>1
  <2> HIDE DEF A, B
  <2>3. Cardinality(B) < Cardinality(A)
    BY <1>2, <2>2
  <2> QED
    BY <2>3 DEF Rank, A, B
<1>5. ASSUME NEW e \in E, NEW f \in E
      PROVE  /\ Before(e, f) <=> Rank(E, e) < Rank(E, f)
             /\ Rank(E, e) = Rank(E, f) => e = f
  <2>1. e = f \/ Before(e, f) \/ Before(f, e)
    BY BeforeOrders
  <2>2. Before(f, e) => Rank(E, f) < Rank(E, e)
    BY <1>4
  <2>3. Before(e, f) => Rank(E, e) < Rank(E, f)
    BY <1>4
  <2> QED
    BY <1>3, <2>1, <2>2, <2>3
<1> QED
  BY <1>1, <1>3, <1>5

(* The n-th event is there, and n - 1 come before it. *)
LEMMA NthIsThere ==
  ASSUME NEW E, Journal(E), NEW n \in 1..Cardinality(E)
  PROVE  Nth(E, n) \in E /\ Rank(E, Nth(E, n)) = n - 1
<1> DEFINE rank == [e \in E |-> Rank(E, e)]
           T == 0..(Cardinality(E) - 1)
<1>1. IsFiniteSet(E) /\ Cardinality(E) \in Nat
  BY FS_CardinalityType DEF Journal
<1>2. IsFiniteSet(T) /\ Cardinality(T) = Cardinality(E)
  <2>1. 0 \in Int /\ Cardinality(E) - 1 \in Int /\ ~(0 > Cardinality(E) - 1)
    BY <1>1
  <2> QED
    BY <1>1, <2>1, FS_Interval
<1>3. rank \in Injection(E, T)
  <2>1. \A e \in E : Rank(E, e) \in T
    BY <1>1, RankOrders
  <2> QED
    BY <2>1, RankOrders DEF Injection, IsInjective
<1>4. rank \in Surjection(E, T)
  BY <1>2, <1>3, FS_Injection
<1>5. n - 1 \in T
  BY <1>1
<1>6. \E e \in E : rank[e] = n - 1
  BY <1>4, <1>5 DEF Surjection
<1>7. \E e \in E : Cardinality({f \in E : Before(f, e)}) = n - 1
  BY <1>6 DEF Rank
<1> QED
  BY <1>7 DEF Nth, Rank

(* The events up to the n-th, one by one. *)
LEMMA UpToGrows ==
  ASSUME NEW E, Journal(E)
  PROVE  /\ UpTo(E, 0) = {}
         /\ UpTo(E, Cardinality(E)) = E
         /\ \A n \in 0..Cardinality(E) : n + 1 <= Cardinality(E) =>
              /\ Nth(E, n + 1) \in E
              /\ Nth(E, n + 1) \notin UpTo(E, n)
              /\ UpTo(E, n + 1) = UpTo(E, n) \cup {Nth(E, n + 1)}
              /\ UpTo(E, n) = {e \in E : Before(e, Nth(E, n + 1))}
<1>1. /\ Cardinality(E) \in Nat
      /\ \A e \in E : Rank(E, e) \in Nat /\ Rank(E, e) < Cardinality(E)
  BY RankOrders
<1>2. UpTo(E, 0) = {} /\ UpTo(E, Cardinality(E)) = E
  BY <1>1 DEF UpTo
<1>3. ASSUME NEW n \in 0..Cardinality(E), n + 1 <= Cardinality(E)
      PROVE  /\ Nth(E, n + 1) \in E
             /\ Nth(E, n + 1) \notin UpTo(E, n)
             /\ UpTo(E, n + 1) = UpTo(E, n) \cup {Nth(E, n + 1)}
             /\ UpTo(E, n) = {e \in E : Before(e, Nth(E, n + 1))}
  <2>1. n + 1 \in 1..Cardinality(E) /\ (n + 1) - 1 = n
    BY <1>1, <1>3
  <2>2. PICK x : x = Nth(E, n + 1)
    OBVIOUS
  <2>3. x \in E /\ Rank(E, x) = n
    BY <2>1, <2>2, NthIsThere
  <2>4. x \notin UpTo(E, n)
    BY <2>3 DEF UpTo
  <2>5. UpTo(E, n + 1) = UpTo(E, n) \cup {x}
    <3>1. ASSUME NEW e \in E
          PROVE  Rank(E, e) < n + 1 <=> Rank(E, e) < n \/ e = x
      <4>1. Rank(E, e) = n => e = x
        BY <2>3, RankOrders
      <4> QED
        BY <1>1, <2>3, <4>1
    <3> QED
      BY <2>3, <3>1 DEF UpTo
  <2>6. UpTo(E, n) = {e \in E : Before(e, x)}
    BY <2>3, RankOrders DEF UpTo
  <2> QED
    BY <2>2, <2>3, <2>4, <2>5, <2>6
<1> QED
  BY <1>2, <1>3

-----------------------------------------------------------------------------
(***************************************************************************)
(* The policy's replay.                                                    *)
(***************************************************************************)
JudgedTo(after, E, n) ==
  after = [m \in 0..n |-> IF m = 0 THEN Start ELSE Judge(after[m - 1], Nth(E, m))]

LEMMA JudgedToExist ==
  ASSUME NEW E, NEW n \in Nat
  PROVE  \E after : JudgedTo(after, E, n)
<1> DEFINE T == {m \in Nat : \E after : JudgedTo(after, E, m)}
<1>1. 0 \in T
  <2> DEFINE a == [m \in 0..0 |-> Start]
  <2>1. a = [m \in 0..0 |-> IF m = 0 THEN Start ELSE Judge(a[m - 1], Nth(E, m))]
    OBVIOUS
  <2> HIDE DEF a
  <2>2. JudgedTo(a, E, 0)
    BY <2>1 DEF JudgedTo
  <2> QED
    BY <2>2
<1>2. \A m \in T : m + 1 \in T
  <2> SUFFICES ASSUME NEW m \in T PROVE m + 1 \in T
    OBVIOUS
  <2> PICK a : JudgedTo(a, E, m)
    OBVIOUS
  <2> DEFINE b == [i \in 0..(m + 1) |->
                     IF i = m + 1 THEN Judge(a[m], Nth(E, m + 1)) ELSE a[i]]
             c == [i \in 0..(m + 1) |-> IF i = 0 THEN Start
                                        ELSE Judge(b[i - 1], Nth(E, i))]
  <2>1. ASSUME NEW i \in 0..(m + 1) PROVE b[i] = c[i]
    <3>1. CASE i = m + 1
      BY <3>1
    <3>2. CASE i \in 0..m
      <4>1. a[i] = IF i = 0 THEN Start ELSE Judge(a[i - 1], Nth(E, i))
        BY <3>2 DEF JudgedTo
      <4>2. i # 0 => b[i - 1] = a[i - 1]
        BY <3>2
      <4> QED
        BY <3>2, <4>1, <4>2
    <3> QED
      BY <3>1, <3>2
  <2>2. b = c
    BY <2>1
  <2>3. JudgedTo(b, E, m + 1)
    BY <2>2 DEF JudgedTo
  <2> QED
    BY <2>3
<1>3. T = Nat
  <2> HIDE DEF T
  <2>1. T \in SUBSET Nat
    BY DEF T
  <2> QED
    BY <1>1, <1>2, <2>1, EveryNumber
<1> QED
  BY <1>3

(* The states the policy goes through. *)
Judged(E) == CHOOSE after : JudgedTo(after, E, Cardinality(E))

LEMMA PolicyIsJudged ==
  ASSUME NEW E, Cardinality(E) \in Nat
  PROVE  /\ Judged(E)[0] = Start
         /\ \A n \in 0..Cardinality(E) : n + 1 <= Cardinality(E) =>
              Judged(E)[n + 1] = Judge(Judged(E)[n], Nth(E, n + 1))
         /\ Policy(E) = Judged(E)[Cardinality(E)]
<1>1. JudgedTo(Judged(E), E, Cardinality(E))
  BY JudgedToExist DEF Judged
<1>2. Policy(E) = Judged(E)[Cardinality(E)]
  BY DEF Policy, Judged, JudgedTo
<1>3. PICK after : after = Judged(E)
  OBVIOUS
<1>4. JudgedTo(after, E, Cardinality(E))
  BY <1>1, <1>3
<1>5. after[0] = Start
  BY <1>4 DEF JudgedTo
<1>6. ASSUME NEW n \in 0..Cardinality(E), n + 1 <= Cardinality(E)
      PROVE  after[n + 1] = Judge(after[n], Nth(E, n + 1))
  <2>1. n + 1 \in 0..Cardinality(E) /\ n + 1 # 0 /\ (n + 1) - 1 = n
    BY <1>6
  <2> QED
    BY <1>4, <2>1 DEF JudgedTo
<1> QED
  BY <1>2, <1>3, <1>5, <1>6

(* What one event makes of the policy's state. *)
PolicyState == [pilot : Devices, revoked : SUBSET Devices,
                offers : SUBSET Event, counted : SUBSET Event]

Effective(p, e) ==
  /\ e.kind = "accept"
  /\ \E o \in p.offers : FromPilot(p, o) /\ Accepts(e, o)

LEMMA JudgeStep ==
  ASSUME NEW p \in PolicyState, NEW e \in Event
  PROVE  /\ Judge(p, e) \in PolicyState
         /\ ~IsAuthorized(p, e) => Judge(p, e) = p
         /\ IsAuthorized(p, e) =>
              /\ Judge(p, e).counted = p.counted \cup {e}
              /\ Judge(p, e).offers = p.offers \cup {o \in {e} : o.kind = "offer"}
              /\ Judge(p, e).pilot = IF Effective(p, e) THEN e.by ELSE p.pilot
<1>1. ~IsAuthorized(p, e) => Judge(p, e) = p
  BY DEF Judge
<1>2. /\ e.kind \in {"offer", "accept", "revoke"} /\ e.by \in Devices
      /\ e.kind = "revoke" => e.target \in Devices
  BY DEF Event
<1>3. /\ Applied(p, e) \in PolicyState
      /\ Applied(p, e).counted = p.counted
      /\ Applied(p, e).offers = p.offers \cup {o \in {e} : o.kind = "offer"}
      /\ Applied(p, e).pilot = IF Effective(p, e) THEN e.by ELSE p.pilot
  <2>1. CASE e.kind = "offer"
    <3>1. Applied(p, e) = [p EXCEPT !.offers = @ \cup {e}]
      BY <2>1 DEF Applied
    <3>2. ~Effective(p, e)
      BY <2>1 DEF Effective
    <3> QED
      BY <2>1, <3>1, <3>2 DEF PolicyState
  <2>2. CASE e.kind = "accept"
    <3>1. Applied(p, e) = IF Effective(p, e) THEN [p EXCEPT !.pilot = e.by] ELSE p
      BY <2>2 DEF Applied, Effective
    <3>2. {o \in {e} : o.kind = "offer"} = {}
      BY <2>2
    <3>3. CASE Effective(p, e)
      BY <1>2, <3>1, <3>2, <3>3 DEF PolicyState
    <3>4. CASE ~Effective(p, e)
      BY <1>2, <3>1, <3>2, <3>4 DEF PolicyState
    <3> QED
      BY <3>3, <3>4
  <2>3. CASE e.kind = "revoke"
    <3>1. Applied(p, e) = IF e.target # p.pilot
                          THEN [p EXCEPT !.revoked = @ \cup {e.target}] ELSE p
      BY <2>3 DEF Applied
    <3>2. ~Effective(p, e) /\ {o \in {e} : o.kind = "offer"} = {}
      BY <2>3 DEF Effective
    <3> QED
      BY <1>2, <2>3, <3>1, <3>2 DEF PolicyState
  <2> QED
    BY <1>2, <2>1, <2>2, <2>3
<1>4. IsAuthorized(p, e) =>
        Judge(p, e) = [Applied(p, e) EXCEPT !.counted = @ \cup {e}]
  BY DEF Judge
<1>5. PICK q : q = Applied(p, e)
  OBVIOUS
<1>6. ASSUME IsAuthorized(p, e)
      PROVE  /\ Judge(p, e) \in PolicyState
             /\ Judge(p, e).counted = p.counted \cup {e}
             /\ Judge(p, e).offers = q.offers
             /\ Judge(p, e).pilot = q.pilot
  <2>1. Judge(p, e) = [q EXCEPT !.counted = @ \cup {e}]
    BY <1>4, <1>5, <1>6
  <2>2. q \in PolicyState /\ q.counted = p.counted
    BY <1>3, <1>5
  <2> QED
    BY <2>1, <2>2 DEF PolicyState
<1> QED
  BY <1>1, <1>3, <1>5, <1>6

LEMMA JudgeStandsBy ==
  ASSUME NEW p \in PolicyState, NEW e \in Event, p.pilot \notin p.revoked
  PROVE  Judge(p, e).pilot \notin Judge(p, e).revoked
<1>1. CASE ~IsAuthorized(p, e)
  BY <1>1 DEF Judge
<1>2. CASE IsAuthorized(p, e)
  <2>1. PICK q : q = Applied(p, e)
    OBVIOUS
  <2>2. Judge(p, e) = [q EXCEPT !.counted = @ \cup {e}]
    BY <1>2, <2>1 DEF Judge
  <2>3. e.kind \in {"offer", "accept", "revoke"} /\ e.by \notin p.revoked
    BY <1>2, EventFields DEF IsAuthorized
  <2>4. q \in PolicyState /\ q.pilot \notin q.revoked
    <3>1. CASE e.kind = "offer"
      BY <2>1, <3>1 DEF Applied, PolicyState
    <3>2. CASE e.kind = "accept"
      <4>1. q = [p EXCEPT !.pilot = e.by] \/ q = p
        BY <2>1, <3>2 DEF Applied
      <4> QED
        BY <2>3, <4>1, EventFields DEF PolicyState
    <3>3. CASE e.kind = "revoke"
      <4>1. e.target \in Devices
        BY <3>3 DEF Event
      <4>2. \/ e.target # p.pilot /\ q = [p EXCEPT !.revoked = @ \cup {e.target}]
            \/ q = p
        BY <2>1, <3>3 DEF Applied
      <4> QED
        BY <4>1, <4>2 DEF PolicyState
    <3> QED
      BY <2>3, <3>1, <3>2, <3>3
  <2> QED
    BY <2>2, <2>4 DEF PolicyState
<1> QED
  BY <1>1, <1>2

LEMMA UpToMonotone ==
  ASSUME NEW E, NEW m \in Nat, NEW n \in Nat, m <= n, Journal(E)
  PROVE  UpTo(E, m) \subseteq UpTo(E, n)
<1>1. \A e \in E : Rank(E, e) \in Nat
  BY RankOrders
<1> QED
  BY <1>1 DEF UpTo

(* The policy counts an event when it comes to it, or never. *)
LEMMA CountedInTurn ==
  ASSUME NEW E, Journal(E)
  PROVE  \A n \in 0..Cardinality(E) :
           /\ Judged(E)[n] \in PolicyState
           /\ Judged(E)[n].counted \subseteq UpTo(E, n)
           /\ Judged(E)[n].offers = OfKind(Judged(E)[n].counted, "offer")
           /\ \A m \in 0..n : Judged(E)[n].counted \cap UpTo(E, m) = Judged(E)[m].counted
<1>0. Cardinality(E) \in Nat /\ E \subseteq Event
  BY RankOrders DEF Journal
<1>1. PICK J : J = Judged(E)
  OBVIOUS
<1>2. /\ J[0] = Start
      /\ \A n \in 0..Cardinality(E) : n + 1 <= Cardinality(E) =>
           J[n + 1] = Judge(J[n], Nth(E, n + 1))
  BY <1>0, <1>1, PolicyIsJudged
<1> DEFINE Good(n) == /\ J[n] \in PolicyState
                      /\ J[n].counted \subseteq UpTo(E, n)
                      /\ J[n].offers = OfKind(J[n].counted, "offer")
                      /\ \A m \in 0..n : J[n].counted \cap UpTo(E, m) = J[m].counted
           T == {n \in Nat : Good(n)}
<1>3. Good(0)
  <2>1. /\ J[0] \in PolicyState
        /\ J[0].counted = {} /\ J[0].offers = {}
    BY <1>2, AuthorityAssumption DEF Start, PolicyState
  <2>2. J[0].offers = OfKind(J[0].counted, "offer")
    BY <2>1 DEF OfKind
  <2>3. ASSUME NEW m \in 0..0 PROVE J[0].counted \cap UpTo(E, m) = J[m].counted
    BY <2>1
  <2> QED
    BY <2>1, <2>2, <2>3
<1>4. ASSUME NEW n \in 0..Cardinality(E), Good(n), n + 1 <= Cardinality(E)
      PROVE  Good(n + 1)
  <2>1. PICK e : e = Nth(E, n + 1)
    OBVIOUS
  <2>2. /\ e \in E /\ e \in Event /\ e \notin UpTo(E, n)
        /\ UpTo(E, n + 1) = UpTo(E, n) \cup {e}
    BY <1>0, <1>4, <2>1, UpToGrows
  <2>3. J[n + 1] = Judge(J[n], e)
    BY <1>2, <1>4, <2>1
  <2>4. /\ J[n + 1] \in PolicyState
        /\ \/ J[n + 1] = J[n]
           \/ /\ J[n + 1].counted = J[n].counted \cup {e}
              /\ J[n + 1].offers = J[n].offers \cup {o \in {e} : o.kind = "offer"}
    BY <1>4, <2>2, <2>3, JudgeStep
  <2>5. /\ J[n + 1].counted \subseteq UpTo(E, n + 1)
        /\ J[n + 1].counted \cap UpTo(E, n) = J[n].counted
    BY <1>4, <2>2, <2>4
  <2>6. J[n + 1].offers = OfKind(J[n + 1].counted, "offer")
    BY <1>4, <2>4 DEF OfKind
  <2>7. ASSUME NEW m \in 0..(n + 1)
        PROVE  J[n + 1].counted \cap UpTo(E, m) = J[m].counted
    <3>1. CASE m = n + 1
      BY <2>5, <3>1
    <3>2. CASE m \in 0..n
      <4>1. UpTo(E, m) \subseteq UpTo(E, n)
        BY <3>2, UpToMonotone
      <4>2. J[n].counted \cap UpTo(E, m) = J[m].counted
        BY <1>4, <3>2
      <4> QED
        BY <2>5, <4>1, <4>2
    <3> QED
      BY <3>1, <3>2
  <2> QED
    BY <2>4, <2>5, <2>6, <2>7
<1>5. \A n \in 0..Cardinality(E) : n \in T
  <2>1. 0 \in T
    BY <1>3
  <2>2. \A n \in 0..Cardinality(E) : n \in T /\ n + 1 <= Cardinality(E) => n + 1 \in T
    BY <1>4
  <2> HIDE DEF T
  <2> QED
    BY <1>0, <2>1, <2>2, EveryNumberTo
<1> QED
  BY <1>1, <1>5

(* An event is counted exactly when it is authorized as its turn comes. *)
LEMMA CountedIfAuthorized ==
  ASSUME NEW E, Journal(E), NEW n \in 0..Cardinality(E), n + 1 <= Cardinality(E)
  PROVE  /\ Nth(E, n + 1) \in Filtered(E) <=> IsAuthorized(Judged(E)[n], Nth(E, n + 1))
         /\ Filtered(E) \cap UpTo(E, n) = Judged(E)[n].counted
<1>1. PICK last : last = Cardinality(E)
  OBVIOUS
<1>2. last \in Nat /\ n \in 0..last /\ n + 1 \in 0..last /\ last \in 0..last
  BY <1>1, RankOrders
<1>3. Filtered(E) = Judged(E)[last].counted
  BY <1>1, <1>2, PolicyIsJudged DEF Filtered
<1>4. /\ Judged(E)[last].counted \cap UpTo(E, n) = Judged(E)[n].counted
      /\ Judged(E)[last].counted \cap UpTo(E, n + 1) = Judged(E)[n + 1].counted
      /\ Judged(E)[n] \in PolicyState
  BY <1>1, <1>2, CountedInTurn
<1>5. PICK e : e = Nth(E, n + 1)
  OBVIOUS
<1>6. e \in Event /\ e \in UpTo(E, n + 1) /\ e \notin UpTo(E, n)
  BY <1>5, UpToGrows DEF Journal
<1>7. Judged(E)[n + 1] = Judge(Judged(E)[n], e)
  BY <1>1, <1>2, <1>5, PolicyIsJudged
<1>8. e \in Judged(E)[n + 1].counted <=> IsAuthorized(Judged(E)[n], e)
  <2>1. e \notin Judged(E)[n].counted
    BY <1>4, <1>6
  <2> QED
    BY <1>4, <1>6, <1>7, <2>1, JudgeStep
<1> QED
  BY <1>3, <1>4, <1>5, <1>6, <1>8

LEMMA PolicyIsTyped ==
  ASSUME NEW E, Journal(E)
  PROVE  Policy(E) \in PolicyState
<1>1. PICK last : last = Cardinality(E)
  OBVIOUS
<1>2. last \in Nat /\ last \in 0..last
  BY <1>1, RankOrders
<1> QED
  BY <1>1, <1>2, PolicyIsJudged, CountedInTurn

(* No event makes the pilot a device that is revoked: a revoked device's   *)
(* acceptance does not count, and the pilot is never the target.           *)
LEMMA PilotStands ==
  ASSUME NEW E, Journal(E)
  PROVE  Policy(E).pilot \notin Policy(E).revoked
<1>1. PICK last : last = Cardinality(E)
  OBVIOUS
<1>2. last \in Nat /\ E \subseteq Event
  BY <1>1, RankOrders DEF Journal
<1>3. PICK J : J = Judged(E)
  OBVIOUS
<1>4. /\ J[0] = Start /\ Policy(E) = J[last]
      /\ \A n \in 0..last : n + 1 <= last => J[n + 1] = Judge(J[n], Nth(E, n + 1))
      /\ \A n \in 0..last : J[n] \in PolicyState
  BY <1>1, <1>2, <1>3, PolicyIsJudged, CountedInTurn
<1> DEFINE T == {n \in Nat : J[n].pilot \notin J[n].revoked}
<1>5. 0 \in T
  BY <1>4 DEF Start
<1>6. ASSUME NEW n \in 0..last, n \in T, n + 1 <= last PROVE n + 1 \in T
  <2>1. PICK e : e = Nth(E, n + 1)
    OBVIOUS
  <2>2. e \in Event
    BY <1>1, <1>2, <1>6, <2>1, UpToGrows
  <2>3. PICK p : p = J[n]
    OBVIOUS
  <2>4. p \in PolicyState /\ p.pilot \notin p.revoked /\ J[n + 1] = Judge(p, e)
    BY <1>4, <1>6, <2>1, <2>3
  <2>5. Judge(p, e).pilot \notin Judge(p, e).revoked
    BY <2>2, <2>4, JudgeStandsBy
  <2> QED
    BY <1>6, <2>4, <2>5
<1>7. last \in T
  <2> HIDE DEF T
  <2>1. \A n \in 0..last : n \in T
    BY <1>2, <1>5, <1>6, EveryNumberTo
  <2> QED
    BY <1>2, <2>1
<1> QED
  BY <1>4, <1>7

LEMMA FilteredIsSubset ==
  ASSUME NEW E, Journal(E)
  PROVE  Filtered(E) \subseteq E /\ Journal(Filtered(E))
<1>1. PICK last : last = Cardinality(E)
  OBVIOUS
<1>2. last \in Nat /\ last \in 0..last
  BY <1>1, RankOrders
<1>3. Filtered(E) = Judged(E)[last].counted
  BY <1>1, <1>2, PolicyIsJudged DEF Filtered
<1>4. Judged(E)[last].counted \subseteq UpTo(E, last)
  BY <1>1, <1>2, CountedInTurn
<1>5. Filtered(E) \subseteq E
  BY <1>3, <1>4 DEF UpTo
<1> QED
  BY <1>5, FS_Subset DEF Journal

(* What the policy does not count it does not miss. *)
LEMMA PolicyTwice ==
  ASSUME NEW E, Journal(E)
  PROVE  Policy(Filtered(E)) = Policy(E)
<1>1. PICK F : F = Filtered(E)
  OBVIOUS
<1>2. F \subseteq E /\ Journal(F) /\ E \subseteq Event
  BY <1>1, FilteredIsSubset DEF Journal
<1>3. PICK last : last = Cardinality(E)
  OBVIOUS
<1>4. last \in Nat /\ Cardinality(F) \in Nat /\ IsFiniteSet(F)
  BY <1>2, <1>3, RankOrders DEF Journal
<1>5. PICK J : J = Judged(E)
  OBVIOUS
<1>6. PICK K : K = Judged(F)
  OBVIOUS
<1>7. /\ J[0] = Start /\ K[0] = Start
      /\ \A n \in 0..last : n + 1 <= last => J[n + 1] = Judge(J[n], Nth(E, n + 1))
      /\ \A n \in 0..Cardinality(F) : n + 1 <= Cardinality(F) =>
           K[n + 1] = Judge(K[n], Nth(F, n + 1))
      /\ Policy(E) = J[last] /\ Policy(F) = K[Cardinality(F)]
  BY <1>3, <1>4, <1>5, <1>6, PolicyIsJudged
<1> DEFINE Kept(n) == Cardinality(F \cap UpTo(E, n))
           T == {n \in Nat : K[Kept(n)] = J[n]}
<1>8. 0 \in T
  <2>1. F \cap UpTo(E, 0) = {}
    BY UpToGrows
  <2>2. Kept(0) = 0
    BY <2>1, FS_EmptySet
  <2> QED
    BY <1>7, <2>2
<1>9. ASSUME NEW n \in 0..last, n \in T, n + 1 <= last PROVE n + 1 \in T
  <2>1. PICK e : e = Nth(E, n + 1)
    OBVIOUS
  <2>2. /\ e \in E /\ e \in Event /\ e \notin UpTo(E, n)
        /\ UpTo(E, n + 1) = UpTo(E, n) \cup {e}
        /\ UpTo(E, n) = {f \in E : Before(f, e)}
    BY <1>2, <1>3, <1>9, <2>1, UpToGrows
  <2>3. J[n + 1] = Judge(J[n], e)
    BY <1>7, <1>9, <2>1
  <2>4. e \in F <=> IsAuthorized(J[n], e)
    BY <1>1, <1>3, <1>5, <1>9, <2>1, CountedIfAuthorized
  <2>5. CASE e \notin F
    <3>1. F \cap UpTo(E, n + 1) = F \cap UpTo(E, n)
      BY <2>2, <2>5
    <3>2. J[n + 1] = J[n]
      BY <2>3, <2>4, <2>5 DEF Judge
    <3>3. Kept(n + 1) = Kept(n)
      BY <3>1
    <3> QED
      BY <1>9, <3>2, <3>3
  <2>6. CASE e \in F
    <3> DEFINE k == Kept(n)
    <3>1. /\ F \cap UpTo(E, n + 1) = (F \cap UpTo(E, n)) \cup {e}
          /\ e \notin F \cap UpTo(E, n)
      BY <2>2, <2>6
    <3>2. IsFiniteSet(F \cap UpTo(E, n))
      BY <1>4, FS_Subset
    <3>3. Kept(n + 1) = k + 1 /\ k \in Nat
      BY <3>1, <3>2, FS_AddElement, FS_CardinalityType
    <3>4. Rank(F, e) = k
      <4>1. {f \in F : Before(f, e)} = F \cap UpTo(E, n)
        BY <1>2, <2>2
      <4> QED
        BY <4>1 DEF Rank
    <3> HIDE DEF k
    <3>5. k \in 0..Cardinality(F) /\ k + 1 <= Cardinality(F)
          /\ k + 1 \in 1..Cardinality(F) /\ (k + 1) - 1 = k
      BY <1>2, <1>4, <2>6, <3>3, <3>4, RankOrders
    <3>6. Nth(F, k + 1) \in F /\ Rank(F, Nth(F, k + 1)) = k
      BY <1>2, <3>5, NthIsThere
    <3>7. Nth(F, k + 1) = e
      BY <1>2, <2>6, <3>4, <3>6, RankOrders
    <3>8. K[k + 1] = Judge(K[k], e)
      BY <1>7, <3>5, <3>7
    <3>9. K[k] = J[n]
      BY <1>9 DEF k
    <3> QED
      BY <1>9, <2>3, <3>3, <3>8, <3>9
  <2> QED
    BY <2>5, <2>6
<1>10. last \in T
  <2> HIDE DEF T
  <2>1. \A n \in 0..last : n \in T
    BY <1>4, <1>8, <1>9, EveryNumberTo
  <2> QED
    BY <1>4, <2>1
<1>11. F \cap UpTo(E, last) = F
  BY <1>2, <1>3, UpToGrows
<1> QED
  BY <1>1, <1>7, <1>10, <1>11

LEMMA FilteredTwice ==
  ASSUME NEW E, Journal(E)
  PROVE  Filtered(Filtered(E)) = Filtered(E)
BY PolicyTwice DEF Filtered

(* An event that sorts after all others is judged after all others. *)
LEMMA LastIsJudgedLast ==
  ASSUME NEW E, NEW e, Journal(E \cup {e}), e \notin E, \A f \in E : Before(f, e)
  PROVE  Policy(E \cup {e}) = Judge(Policy(E), e)
<1>1. PICK G : G = E \cup {e}
  OBVIOUS
<1>2. PICK n : n = Cardinality(E)
  OBVIOUS
<1>3. /\ Journal(G) /\ Journal(E) /\ IsFiniteSet(E)
      /\ n \in Nat /\ Cardinality(G) = n + 1
  BY <1>1, <1>2, FS_Subset, FS_AddElement, FS_CardinalityType DEF Journal
<1>4. Rank(G, e) = n
  <2>1. {f \in G : Before(f, e)} = E
    BY <1>1, <1>3, BeforeOrders
  <2> QED
    BY <1>2, <2>1 DEF Rank
<1>5. \A f \in E : Rank(G, f) = Rank(E, f)
  <2> SUFFICES ASSUME NEW f \in E PROVE Rank(G, f) = Rank(E, f)
    OBVIOUS
  <2>1. ~Before(e, f)
    BY <1>1, <1>3, BeforeOrders
  <2>2. {g \in G : Before(g, f)} = {g \in E : Before(g, f)}
    BY <1>1, <2>1
  <2> QED
    BY <2>2 DEF Rank
<1>6. Nth(G, n + 1) = e
  <2>1. n + 1 \in 1..Cardinality(G) /\ (n + 1) - 1 = n
    BY <1>3
  <2>2. Nth(G, n + 1) \in G /\ Rank(G, Nth(G, n + 1)) = n
    BY <1>3, <2>1, NthIsThere
  <2> QED
    BY <1>1, <1>3, <1>4, <2>2, RankOrders
<1>7. \A m \in 0..n : m + 1 <= n => Nth(G, m + 1) = Nth(E, m + 1)
  <2> SUFFICES ASSUME NEW m \in 0..n, m + 1 <= n PROVE Nth(G, m + 1) = Nth(E, m + 1)
    OBVIOUS
  <2>1. m + 1 \in 1..Cardinality(G) /\ m + 1 \in 1..Cardinality(E) /\ (m + 1) - 1 = m
    BY <1>2, <1>3
  <2>2. /\ Nth(G, m + 1) \in G /\ Rank(G, Nth(G, m + 1)) = m
        /\ Nth(E, m + 1) \in E /\ Rank(E, Nth(E, m + 1)) = m
    BY <1>3, <2>1, NthIsThere
  <2>3. Nth(E, m + 1) \in G /\ Rank(G, Nth(E, m + 1)) = m
    BY <1>1, <1>5, <2>2
  <2> QED
    BY <1>3, <2>2, <2>3, RankOrders
<1>8. PICK J : J = Judged(E)
  OBVIOUS
<1>9. PICK K : K = Judged(G)
  OBVIOUS
<1>10. /\ J[0] = Start /\ K[0] = Start
       /\ \A m \in 0..n : m + 1 <= n => J[m + 1] = Judge(J[m], Nth(E, m + 1))
       /\ \A m \in 0..(n + 1) : m + 1 <= n + 1 => K[m + 1] = Judge(K[m], Nth(G, m + 1))
       /\ Policy(E) = J[n] /\ Policy(G) = K[n + 1]
  BY <1>2, <1>3, <1>8, <1>9, PolicyIsJudged
<1> DEFINE T == {m \in Nat : K[m] = J[m]}
<1>11. 0 \in T
  BY <1>10
<1>12. ASSUME NEW m \in 0..n, m \in T, m + 1 <= n PROVE m + 1 \in T
  <2>1. m \in 0..(n + 1) /\ m + 1 <= n + 1 /\ m + 1 \in Nat
    BY <1>3, <1>12
  <2>2. K[m + 1] = Judge(K[m], Nth(G, m + 1)) /\ J[m + 1] = Judge(J[m], Nth(E, m + 1))
    BY <1>10, <1>12, <2>1
  <2>3. Nth(G, m + 1) = Nth(E, m + 1) /\ K[m] = J[m]
    BY <1>7, <1>12
  <2> QED
    BY <2>1, <2>2, <2>3
<1>13. n \in T
  <2> HIDE DEF T
  <2>1. \A m \in 0..n : m \in T
    BY <1>3, <1>11, <1>12, EveryNumberTo
  <2> QED
    BY <1>3, <2>1
<1>14. K[n + 1] = Judge(K[n], e)
  <2>1. n \in 0..(n + 1) /\ n + 1 <= n + 1
    BY <1>3
  <2> QED
    BY <1>6, <1>10, <2>1
<1> QED
  BY <1>1, <1>10, <1>13, <1>14

(* So an event that comes in order leaves a memory that was a replay of    *)
(* the journal a replay of the journal.                                    *)
LEMMA LastIsAdmitted ==
  ASSUME NEW E, NEW e, Journal(E \cup {e}), e \notin E, \A f \in E : Before(f, e)
  PROVE  /\ Policy(Filtered(E) \cup {e}) = Policy(E \cup {e})
         /\ Admit(Filtered(E), e) = Filtered(E \cup {e})
<1>1. PICK F : F = Filtered(E)
  OBVIOUS
<1>2. Journal(E) /\ e \in Event
  BY FS_Subset DEF Journal
<1>3. F \subseteq E
  BY <1>1, <1>2, FilteredIsSubset
<1>4. Journal(F \cup {e})
  <2>1. F \cup {e} \subseteq E \cup {e}
    BY <1>3
  <2> QED
    BY <2>1, FS_Subset DEF Journal
<1>5. /\ Policy(F \cup {e}) = Judge(Policy(F), e)
      /\ Policy(E \cup {e}) = Judge(Policy(E), e)
      /\ Policy(F) = Policy(E)
  BY <1>1, <1>2, <1>3, <1>4, LastIsJudgedLast, PolicyTwice
<1>6. Policy(F \cup {e}) = Policy(E \cup {e})
  BY <1>5
<1>7. CASE e \in Filtered(E \cup {e})
  BY <1>1, <1>6, <1>7 DEF Admit, Filtered
<1>8. CASE e \notin Filtered(E \cup {e})
  <2>1. Policy(E) \in PolicyState
    BY <1>2, PolicyIsTyped
  <2>2. ~IsAuthorized(Policy(E), e)
    <3>1. IsAuthorized(Policy(E), e) => e \in Judge(Policy(E), e).counted
      BY <1>2, <2>1, JudgeStep
    <3> QED
      BY <1>5, <1>8, <3>1 DEF Filtered
  <2>3. Filtered(E \cup {e}) = F
    BY <1>1, <1>2, <1>5, <2>1, <2>2, JudgeStep DEF Filtered
  <2> QED
    BY <1>1, <1>6, <1>8, <2>3 DEF Admit, Filtered
<1> QED
  BY <1>1, <1>6, <1>7, <1>8

-----------------------------------------------------------------------------
(***************************************************************************)
(* The reducer's replay.                                                   *)
(***************************************************************************)
HandedTo(after, E, n) ==
  after = [m \in 0..n |-> IF m = 0 THEN <<>> ELSE Extended(E, after[m - 1])]

LEMMA HandedToExist ==
  ASSUME NEW E, NEW n \in Nat
  PROVE  \E after : HandedTo(after, E, n)
<1> DEFINE T == {m \in Nat : \E after : HandedTo(after, E, m)}
<1>1. 0 \in T
  <2> DEFINE a == [m \in 0..0 |-> <<>>]
  <2>1. a = [m \in 0..0 |-> IF m = 0 THEN <<>> ELSE Extended(E, a[m - 1])]
    OBVIOUS
  <2> HIDE DEF a
  <2>2. HandedTo(a, E, 0)
    BY <2>1 DEF HandedTo
  <2> QED
    BY <2>2
<1>2. \A m \in T : m + 1 \in T
  <2> SUFFICES ASSUME NEW m \in T PROVE m + 1 \in T
    OBVIOUS
  <2> PICK a : HandedTo(a, E, m)
    OBVIOUS
  <2> DEFINE b == [i \in 0..(m + 1) |-> IF i = m + 1 THEN Extended(E, a[m]) ELSE a[i]]
             c == [i \in 0..(m + 1) |-> IF i = 0 THEN <<>> ELSE Extended(E, b[i - 1])]
  <2>1. ASSUME NEW i \in 0..(m + 1) PROVE b[i] = c[i]
    <3>1. CASE i = m + 1
      BY <3>1
    <3>2. CASE i \in 0..m
      <4>1. a[i] = IF i = 0 THEN <<>> ELSE Extended(E, a[i - 1])
        BY <3>2 DEF HandedTo
      <4>2. i # 0 => b[i - 1] = a[i - 1]
        BY <3>2
      <4> QED
        BY <3>2, <4>1, <4>2
    <3> QED
      BY <3>1, <3>2
  <2>2. b = c
    BY <2>1
  <2>3. HandedTo(b, E, m + 1)
    BY <2>2 DEF HandedTo
  <2> QED
    BY <2>3
<1>3. T = Nat
  <2> HIDE DEF T
  <2>1. T \in SUBSET Nat
    BY DEF T
  <2> QED
    BY <1>1, <1>2, <2>1, EveryNumber
<1> QED
  BY <1>3

(* The handovers after each round of the reducer's loop. *)
Rounds(E) == Cardinality(OfKind(E, "offer"))
Handed(E) == CHOOSE after : HandedTo(after, E, Rounds(E))

LEMMA HandoversAreHanded ==
  ASSUME NEW E, Rounds(E) \in Nat
  PROVE  /\ Handed(E)[0] = <<>>
         /\ \A n \in 0..Rounds(E) : n + 1 <= Rounds(E) =>
              Handed(E)[n + 1] = Extended(E, Handed(E)[n])
         /\ Handovers(E) = Handed(E)[Rounds(E)]
<1>1. HandedTo(Handed(E), E, Rounds(E))
  BY HandedToExist DEF Handed
<1>2. Handovers(E) = Handed(E)[Rounds(E)]
  BY DEF Handovers, Handed, HandedTo, Rounds
<1>3. PICK after : after = Handed(E)
  OBVIOUS
<1>4. HandedTo(after, E, Rounds(E))
  BY <1>1, <1>3
<1>5. after[0] = <<>>
  BY <1>4 DEF HandedTo
<1>6. ASSUME NEW n \in 0..Rounds(E), n + 1 <= Rounds(E)
      PROVE  after[n + 1] = Extended(E, after[n])
  <2>1. n + 1 \in 0..Rounds(E) /\ n + 1 # 0 /\ (n + 1) - 1 = n
    BY <1>6
  <2> QED
    BY <1>4, <2>1 DEF HandedTo
<1> QED
  BY <1>2, <1>3, <1>5, <1>6

Handover(E) ==
  {h \in [offer : OfKind(E, "offer"), acceptance : OfKind(E, "accept")] :
     h.acceptance.offer = h.offer.id}

LEMMA CandidatesAreHandovers ==
  ASSUME NEW E, Journal(E), NEW handovers
  PROVE  /\ Candidates(E, handovers) \subseteq Handover(E)
         /\ \A g, h \in Handover(E) : g.acceptance = h.acceptance => g = h
<1>1. ASSUME NEW h \in Candidates(E, handovers) PROVE h \in Handover(E)
  <2>1. /\ h \in [offer : OfKind(E, "offer"), acceptance : OfKind(E, "accept")]
        /\ Accepts(h.acceptance, h.offer)
    BY DEF Candidates
  <2> QED
    BY <2>1 DEF Accepts, Handover
<1>2. ASSUME NEW g \in Handover(E), NEW h \in Handover(E), g.acceptance = h.acceptance
      PROVE  g = h
  <2>1. /\ g \in [offer : OfKind(E, "offer"), acceptance : OfKind(E, "accept")]
        /\ h \in [offer : OfKind(E, "offer"), acceptance : OfKind(E, "accept")]
    BY DEF Handover
  <2>2. g.offer.id = h.offer.id /\ g.offer \in E /\ h.offer \in E
    BY <1>2, <2>1 DEF Handover, OfKind
  <2>3. g.offer = h.offer
    BY <2>2 DEF Journal
  <2> QED
    BY <1>2, <2>1, <2>3
<1> QED
  BY <1>1, <1>2

LEMMA LeastNumber ==
  ASSUME NEW C \in SUBSET Nat, C # {}
  PROVE  \E n \in C : \A m \in C : n <= m
<1>1. IsWellFoundedOn(OpToRel(<, Nat), Nat)
  BY NatLessThanWellFounded
<1>2. \E n \in C : \A m \in C : ~(<<m, n>> \in OpToRel(<, Nat))
  BY <1>1, WFMin
<1>3. PICK n \in C : \A m \in C : ~(m < n)
  BY <1>2 DEF OpToRel
<1> QED
  BY <1>3

(* The loop applies the candidate accepted first, if there is one. *)
LEMMA ExtendedByFirst ==
  ASSUME NEW E, Journal(E), NEW handovers
  PROVE  /\ Candidates(E, handovers) = {} => Extended(E, handovers) = handovers
         /\ Candidates(E, handovers) # {} =>
              \E h \in Candidates(E, handovers) :
                /\ Extended(E, handovers) = Append(handovers, h)
                /\ \A g \in Candidates(E, handovers) :
                     g = h \/ Before(h.acceptance, g.acceptance)
<1> DEFINE C == Candidates(E, handovers)
<1>1. C \subseteq Handover(E)
  BY CandidatesAreHandovers
<1>2. \A h \in C : h.acceptance \in E
  BY <1>1 DEF Handover, OfKind
<1>3. C = {} => Extended(E, handovers) = handovers
  BY DEF Extended, FirstAccepted
<1>4. ASSUME C # {} PROVE FirstAccepted(C) # {}
  <2> DEFINE R == {Rank(E, h.acceptance) : h \in C}
  <2>1. R \in SUBSET Nat /\ R # {}
    BY <1>2, <1>4, RankOrders
  <2> HIDE DEF R
  <2>2. PICK n \in R : \A m \in R : n <= m
    BY <2>1, LeastNumber
  <2>3. PICK h \in C : n = Rank(E, h.acceptance)
    BY DEF R
  <2>4. ASSUME NEW g \in C
        PROVE  g = h \/ Before(h.acceptance, g.acceptance)
    <3>1. Rank(E, h.acceptance) <= Rank(E, g.acceptance)
      BY <2>2, <2>3 DEF R
    <3>2. h.acceptance \in E /\ g.acceptance \in E
      BY <1>2
    <3>3. \/ h.acceptance = g.acceptance
          \/ Before(h.acceptance, g.acceptance)
      BY <3>1, <3>2, RankOrders
    <3> QED
      BY <1>1, <3>3, CandidatesAreHandovers
  <2> QED
    BY <2>4 DEF FirstAccepted
<1>5. ASSUME C # {}
      PROVE  \E h \in C : /\ Extended(E, handovers) = Append(handovers, h)
                          /\ \A g \in C : g = h \/ Before(h.acceptance, g.acceptance)
  <2>1. PICK h : h = CHOOSE x \in FirstAccepted(C) : TRUE
    OBVIOUS
  <2>2. h \in FirstAccepted(C)
    BY <1>4, <1>5, <2>1
  <2>3. Extended(E, handovers) = Append(handovers, h)
    BY <1>4, <1>5, <2>1 DEF Extended
  <2> QED
    BY <2>2, <2>3 DEF FirstAccepted
<1> QED
  BY <1>3, <1>5

(* No offer is applied twice, so there are rounds enough for all of them.  *)
Distinct(handovers) ==
  \A i, j \in DOMAIN handovers : handovers[i].offer = handovers[j].offer => i = j

LEMMA RoundsAreFinite ==
  ASSUME NEW E, Journal(E)
  PROVE  Rounds(E) \in Nat /\ IsFiniteSet(OfKind(E, "offer"))
<1>1. OfKind(E, "offer") \in SUBSET E
  BY DEF OfKind
<1>2. IsFiniteSet(OfKind(E, "offer"))
  BY <1>1, FS_Subset DEF Journal
<1> QED
  BY <1>2, FS_CardinalityType DEF Rounds

LEMMA AppendKeepsDistinct ==
  ASSUME NEW E, Journal(E), NEW handovers \in Seq(Handover(E)), Distinct(handovers),
         NEW h \in Candidates(E, handovers)
  PROVE  /\ Append(handovers, h) \in Seq(Handover(E))
         /\ Distinct(Append(handovers, h))
         /\ Len(handovers) + 1 <= Rounds(E)
<1>1. h \in Handover(E)
  BY CandidatesAreHandovers
<1>2. PICK longer : longer = Append(handovers, h)
  OBVIOUS
<1>3. /\ longer \in Seq(Handover(E)) /\ Len(longer) = Len(handovers) + 1
      /\ DOMAIN longer = 1..(Len(handovers) + 1) /\ Len(handovers) \in Nat
      /\ DOMAIN handovers = 1..Len(handovers)
      /\ longer[Len(handovers) + 1] = h
      /\ \A i \in 1..Len(handovers) : longer[i] = handovers[i]
  BY <1>1, <1>2
<1>4. \A i \in DOMAIN handovers : handovers[i].offer # h.offer
  BY DEF Candidates
<1>5. Distinct(longer)
  <2> SUFFICES ASSUME NEW i \in DOMAIN longer, NEW j \in DOMAIN longer,
                      longer[i].offer = longer[j].offer
               PROVE  i = j
    BY DEF Distinct
  <2>1. CASE i \in DOMAIN handovers /\ j \in DOMAIN handovers
    BY <1>3, <2>1 DEF Distinct
  <2>2. CASE i \in DOMAIN handovers /\ j = Len(handovers) + 1
    BY <1>3, <1>4, <2>2
  <2>3. CASE j \in DOMAIN handovers /\ i = Len(handovers) + 1
    BY <1>3, <1>4, <2>3
  <2> QED
    BY <1>3, <2>1, <2>2, <2>3
<1>6. Len(handovers) + 1 <= Rounds(E)
  <2> DEFINE used == [i \in 1..(Len(handovers) + 1) |-> longer[i].offer]
             D == 1..(Len(handovers) + 1)
  <2>1. \A i \in D : longer[i] \in Handover(E)
    BY <1>3
  <2>2. used \in [D -> OfKind(E, "offer")]
    BY <2>1 DEF Handover
  <2>3. \A i, j \in D : used[i] = used[j] => i = j
    BY <1>3, <1>5 DEF Distinct
  <2>4. used \in Injection(D, OfKind(E, "offer"))
    BY <2>2, <2>3 DEF Injection, IsInjective
  <2>5. Cardinality(D) <= Rounds(E)
    <3> HIDE DEF used, D
    <3> QED
      BY <2>4, RoundsAreFinite, FS_Injection DEF Rounds
  <2>6. Cardinality(D) = Len(handovers) + 1
    <3>1. 1 \in Int /\ Len(handovers) + 1 \in Int /\ ~(1 > Len(handovers) + 1)
      BY <1>3
    <3> QED
      BY <3>1, FS_Interval
  <2> QED
    BY <2>5, <2>6
<1> QED
  BY <1>2, <1>3, <1>5, <1>6

LEMMA HandedIsDistinct ==
  ASSUME NEW E, Journal(E)
  PROVE  \A n \in 0..Rounds(E) :
           Handed(E)[n] \in Seq(Handover(E)) /\ Distinct(Handed(E)[n])
<1>1. Rounds(E) \in Nat
  BY RoundsAreFinite
<1>2. PICK H : H = Handed(E)
  OBVIOUS
<1>3. /\ H[0] = <<>>
      /\ \A n \in 0..Rounds(E) : n + 1 <= Rounds(E) => H[n + 1] = Extended(E, H[n])
  BY <1>1, <1>2, HandoversAreHanded
<1> DEFINE T == {n \in Nat : H[n] \in Seq(Handover(E)) /\ Distinct(H[n])}
<1>4. 0 \in T
  <2>1. <<>> \in Seq(Handover(E)) /\ DOMAIN <<>> = {}
    OBVIOUS
  <2>2. Distinct(<<>>)
    BY <2>1 DEF Distinct
  <2> QED
    BY <1>3, <2>1, <2>2
<1>5. ASSUME NEW n \in 0..Rounds(E), n \in T, n + 1 <= Rounds(E) PROVE n + 1 \in T
  <2>1. H[n + 1] = Extended(E, H[n])
    BY <1>3, <1>5
  <2>2. CASE Candidates(E, H[n]) = {}
    BY <1>5, <2>1, <2>2, ExtendedByFirst
  <2>3. CASE Candidates(E, H[n]) # {}
    <3>1. PICK h \in Candidates(E, H[n]) : H[n + 1] = Append(H[n], h)
      BY <2>1, <2>3, ExtendedByFirst
    <3>2. H[n + 1] \in Seq(Handover(E)) /\ Distinct(H[n + 1])
      BY <1>5, <3>1, AppendKeepsDistinct
    <3> QED
      BY <1>5, <3>2
  <2> QED
    BY <2>2, <2>3
<1>6. \A n \in 0..Rounds(E) : n \in T
  <2> HIDE DEF T
  <2> QED
    BY <1>1, <1>4, <1>5, EveryNumberTo
<1> QED
  BY <1>2, <1>6

(* What was applied stays applied, in its place. *)
LEMMA HandedGrows ==
  ASSUME NEW E, Journal(E), NEW k \in 0..Rounds(E)
  PROVE  /\ Len(Handed(E)[k]) <= Len(Handovers(E))
         /\ \A i \in 1..Len(Handed(E)[k]) : Handovers(E)[i] = Handed(E)[k][i]
         /\ Candidates(E, Handed(E)[k]) = {} => Handovers(E) = Handed(E)[k]
<1>1. Rounds(E) \in Nat
  BY RoundsAreFinite
<1>2. PICK H : H = Handed(E)
  OBVIOUS
<1>3. /\ \A n \in 0..Rounds(E) : n + 1 <= Rounds(E) => H[n + 1] = Extended(E, H[n])
      /\ Handovers(E) = H[Rounds(E)]
  BY <1>1, <1>2, HandoversAreHanded
<1>4. \A n \in 0..Rounds(E) : H[n] \in Seq(Handover(E))
  BY <1>2, HandedIsDistinct
<1> DEFINE T == {n \in Nat : n >= k =>
                   /\ Len(H[k]) <= Len(H[n])
                   /\ \A i \in 1..Len(H[k]) : H[n][i] = H[k][i]
                   /\ Candidates(E, H[k]) = {} => H[n] = H[k]}
<1>5. 0 \in T
  <2>1. Len(H[k]) \in Nat
    BY <1>4
  <2> QED
    BY <2>1
<1>6. ASSUME NEW n \in 0..Rounds(E), n \in T, n + 1 <= Rounds(E) PROVE n + 1 \in T
  <2>1. H[n + 1] = Extended(E, H[n])
    BY <1>3, <1>6
  <2>2. /\ H[n] \in Seq(Handover(E)) /\ H[k] \in Seq(Handover(E))
        /\ Len(H[n]) \in Nat /\ Len(H[k]) \in Nat
    BY <1>4
  <2>3. CASE n + 1 = k
    BY <2>2, <2>3
  <2>4. CASE n >= k
    <3>1. /\ Len(H[k]) <= Len(H[n])
          /\ \A i \in 1..Len(H[k]) : H[n][i] = H[k][i]
          /\ Candidates(E, H[k]) = {} => H[n] = H[k]
      BY <1>6, <2>4
    <3>2. CASE Candidates(E, H[n]) = {}
      <4>1. H[n + 1] = H[n]
        BY <2>1, <3>2, ExtendedByFirst
      <4> QED
        BY <1>6, <3>1, <4>1
    <3>3. CASE Candidates(E, H[n]) # {}
      <4>1. PICK h \in Candidates(E, H[n]) : H[n + 1] = Append(H[n], h)
        BY <2>1, <3>3, ExtendedByFirst
      <4>2. h \in Handover(E)
        BY CandidatesAreHandovers
      <4>3. /\ Len(H[n + 1]) = Len(H[n]) + 1
            /\ \A i \in 1..Len(H[n]) : H[n + 1][i] = H[n][i]
        BY <2>2, <4>1, <4>2
      <4>4. Candidates(E, H[k]) # {}
        BY <3>1, <3>3
      <4>5. /\ Len(H[k]) <= Len(H[n + 1])
            /\ \A i \in 1..Len(H[k]) : H[n + 1][i] = H[k][i]
        BY <2>2, <3>1, <4>3
      <4> QED
        BY <1>6, <4>4, <4>5
    <3> QED
      BY <3>2, <3>3
  <2>5. CASE ~(n + 1 >= k)
    BY <1>6, <2>5
  <2> QED
    BY <1>1, <2>3, <2>4, <2>5
<1>7. \A n \in 0..Rounds(E) : n \in T
  <2> HIDE DEF T
  <2> QED
    BY <1>1, <1>5, <1>6, EveryNumberTo
<1>8. Rounds(E) \in T /\ Rounds(E) >= k
  BY <1>1, <1>7
<1> QED
  BY <1>2, <1>3, <1>8

-----------------------------------------------------------------------------
(***************************************************************************)
(* The two replays compared.                                               *)
(***************************************************************************)
OffersFirst(E) ==
  \A a \in OfKind(E, "accept"), o \in OfKind(E, "offer") :
    a.offer = o.id => Before(o, a)

(* After n events: the rounds the reducer has made by then.                *)
InStepAfter(E, n, k) ==
  /\ Len(Handed(E)[k]) = k
  /\ Pilot(Handed(E)[k]) = Judged(E)[n].pilot
  /\ \A i \in 1..k : Handed(E)[k][i].acceptance \in UpTo(E, n)
  /\ \A h \in Candidates(E, Handed(E)[k]) : h.acceptance \notin UpTo(E, n)

(* One event further, unless it hands over: the reducer stays behind too.  *)
LEMMA StayInStep ==
  ASSUME NEW E, Journal(E), Filtered(E) = E, OffersFirst(E),
         NEW n \in 0..Cardinality(E), n + 1 <= Cardinality(E),
         NEW k \in 0..Rounds(E), InStepAfter(E, n, k),
         ~Effective(Judged(E)[n], Nth(E, n + 1))
  PROVE  InStepAfter(E, n + 1, k)
<1>1. PICK e : e = Nth(E, n + 1)
  OBVIOUS
<1>2. PICK p : p = Judged(E)[n]
  OBVIOUS
<1>3. PICK hs : hs = Handed(E)[k]
  OBVIOUS
<1>4. /\ e \in E /\ e \in Event
      /\ UpTo(E, n + 1) = UpTo(E, n) \cup {e}
      /\ UpTo(E, n) = {f \in E : Before(f, e)}
  BY <1>1, UpToGrows DEF Journal
<1>5. /\ p \in PolicyState /\ IsAuthorized(p, e)
      /\ p.offers = OfKind(UpTo(E, n), "offer")
  <2>1. /\ e \in E <=> IsAuthorized(p, e)
        /\ E \cap UpTo(E, n) = p.counted
    BY <1>1, <1>2, CountedIfAuthorized
  <2>2. p \in PolicyState /\ p.offers = OfKind(p.counted, "offer")
    BY <1>2, CountedInTurn
  <2>3. UpTo(E, n) \subseteq E
    BY DEF UpTo
  <2> QED
    BY <1>4, <2>1, <2>2, <2>3
<1>6. Judged(E)[n + 1].pilot = p.pilot
  <2>1. Judged(E)[n + 1] = Judge(p, e)
    BY <1>1, <1>2, RankOrders, PolicyIsJudged
  <2> QED
    BY <1>1, <1>2, <1>4, <1>5, <2>1, JudgeStep
<1>7. ASSUME NEW h \in Candidates(E, hs), h.acceptance = e PROVE FALSE
  <2>1. /\ h \in [offer : OfKind(E, "offer"), acceptance : OfKind(E, "accept")]
        /\ Accepts(e, h.offer) /\ h.offer.by = Pilot(hs)
    BY <1>7 DEF Candidates
  <2>2. /\ h.offer \in OfKind(E, "offer") /\ e \in OfKind(E, "accept")
        /\ e.offer = h.offer.id
    BY <1>7, <2>1 DEF Accepts
  <2>3. Before(h.offer, e)
    BY <2>2 DEF OffersFirst
  <2>4. h.offer \in p.offers
    BY <1>4, <1>5, <2>2, <2>3 DEF OfKind
  <2>5. FromPilot(p, h.offer)
    BY <1>2, <1>3, <2>1 DEF FromPilot, InStepAfter
  <2>6. Effective(p, e)
    BY <2>1, <2>2, <2>4, <2>5 DEF Effective, OfKind
  <2> QED
    BY <1>1, <1>2, <2>6
<1> QED
  BY <1>2, <1>3, <1>4, <1>6, <1>7 DEF InStepAfter

(* The acceptance that hands over is the one the reducer applies next.     *)
LEMMA MoveInStep ==
  ASSUME NEW E, Journal(E), Filtered(E) = E,
         AcceptedOnce(E), HandoversInOrder(E),
         NEW n \in 0..Cardinality(E), n + 1 <= Cardinality(E),
         NEW k \in 0..Rounds(E), InStepAfter(E, n, k),
         Effective(Judged(E)[n], Nth(E, n + 1))
  PROVE  k + 1 \in 0..Rounds(E) /\ InStepAfter(E, n + 1, k + 1)
<1>1. PICK e : e = Nth(E, n + 1)
  OBVIOUS
<1>2. PICK p : p = Judged(E)[n]
  OBVIOUS
<1>3. PICK hs : hs = Handed(E)[k]
  OBVIOUS
<1>a. Rounds(E) \in Nat
  BY RoundsAreFinite
<1>4. /\ e \in E /\ e \in Event /\ e \notin UpTo(E, n)
      /\ UpTo(E, n + 1) = UpTo(E, n) \cup {e}
      /\ UpTo(E, n) = {f \in E : Before(f, e)}
  BY <1>1, UpToGrows DEF Journal
<1>5. /\ p \in PolicyState /\ IsAuthorized(p, e)
      /\ p.offers = OfKind(UpTo(E, n), "offer")
  <2>1. /\ e \in E <=> IsAuthorized(p, e)
        /\ E \cap UpTo(E, n) = p.counted
    BY <1>1, <1>2, CountedIfAuthorized
  <2>2. p \in PolicyState /\ p.offers = OfKind(p.counted, "offer")
    BY <1>2, CountedInTurn
  <2>3. UpTo(E, n) \subseteq E
    BY DEF UpTo
  <2> QED
    BY <1>4, <2>1, <2>2, <2>3
<1>6. Judged(E)[n + 1].pilot = e.by
  <2>1. Judged(E)[n + 1] = Judge(p, e)
    BY <1>1, <1>2, RankOrders, PolicyIsJudged
  <2> QED
    BY <1>1, <1>2, <1>4, <1>5, <2>1, JudgeStep
<1>7. /\ hs \in Seq(Handover(E)) /\ Distinct(hs) /\ Len(hs) = k /\ k \in Nat
      /\ DOMAIN hs = 1..k
  BY <1>3, HandedIsDistinct DEF InStepAfter
<1>8. PICK o \in p.offers : FromPilot(p, o) /\ Accepts(e, o)
  BY <1>1, <1>2 DEF Effective
<1> DEFINE next == [offer |-> o, acceptance |-> e]
<1>9. /\ o \in OfKind(E, "offer") /\ e \in OfKind(E, "accept")
      /\ e.offer = o.id /\ e.by = o.to
  BY <1>1, <1>2, <1>4, <1>5, <1>8 DEF OfKind, UpTo, Effective, Accepts
<1>10. next \in Candidates(E, hs)
  <2>1. next \in [offer : OfKind(E, "offer"), acceptance : OfKind(E, "accept")]
    BY <1>9
  <2>2. e \in Acceptance(E, o)
    BY <1>9 DEF Acceptance, First, AcceptedOnce, OfKind
  <2>3. o.by = Pilot(hs)
    BY <1>2, <1>3, <1>8 DEF FromPilot, InStepAfter
  <2>4. ASSUME NEW i \in DOMAIN hs PROVE hs[i].offer # o
    <3>1. hs[i] \in Handover(E) /\ hs[i].acceptance \in UpTo(E, n)
      BY <1>3, <1>7 DEF InStepAfter
    <3>2. /\ hs[i].acceptance \in OfKind(E, "accept")
          /\ hs[i].acceptance.offer = hs[i].offer.id
      BY <3>1 DEF Handover
    <3>3. hs[i].offer = o => hs[i].acceptance = e
      BY <1>9, <3>2 DEF AcceptedOnce
    <3> QED
      BY <1>4, <3>1, <3>3
  <2> QED
    BY <1>8, <2>1, <2>2, <2>3, <2>4 DEF Candidates
<1>11. k + 1 \in 0..Rounds(E)
  BY <1>7, <1>10, <1>a, AppendKeepsDistinct
<1>12. Handed(E)[k + 1] = Append(hs, next)
  <2>1. PICK h \in Candidates(E, hs) :
          /\ Extended(E, hs) = Append(hs, h)
          /\ \A g \in Candidates(E, hs) : g = h \/ Before(h.acceptance, g.acceptance)
    BY <1>10, ExtendedByFirst
  <2>2. next = h \/ Before(h.acceptance, e)
    BY <1>10, <2>1
  <2>3. h \in Handover(E) /\ h.acceptance \in E
    BY CandidatesAreHandovers DEF Handover, OfKind
  <2>4. h.acceptance \notin UpTo(E, n)
    BY <1>3 DEF InStepAfter
  <2>5. next = h
    BY <1>4, <2>2, <2>3, <2>4
  <2>6. Handed(E)[k + 1] = Extended(E, hs)
    BY <1>3, <1>11, <1>a, HandoversAreHanded
  <2> QED
    BY <2>1, <2>5, <2>6
<1>13. PICK longer : longer = Handed(E)[k + 1]
  OBVIOUS
<1>14. /\ longer \in Seq(Handover(E)) /\ Len(longer) = k + 1
       /\ longer[k + 1].offer = o /\ longer[k + 1].acceptance = e
       /\ \A i \in 1..k : longer[i] = hs[i]
  <2>1. next \in Handover(E)
    BY <1>10, CandidatesAreHandovers
  <2>2. next.offer = o /\ next.acceptance = e
    OBVIOUS
  <2> HIDE DEF next
  <2> QED
    BY <1>7, <1>12, <1>13, <2>1, <2>2
<1>15. Pilot(longer) = Judged(E)[n + 1].pilot
  <2>1. longer # <<>>
    BY <1>7, <1>14
  <2> QED
    BY <1>6, <1>9, <1>14, <2>1 DEF Pilot
<1>16. \A i \in 1..(k + 1) : longer[i].acceptance \in UpTo(E, n + 1)
  <2>1. \A i \in 1..k : hs[i].acceptance \in UpTo(E, n)
    BY <1>3 DEF InStepAfter
  <2> QED
    BY <1>4, <1>7, <1>14, <2>1
<1>17. ASSUME NEW h \in Candidates(E, longer), h.acceptance \in UpTo(E, n + 1)
       PROVE  FALSE
  <2>1. Distinct(longer)
    BY <1>11, <1>13, HandedIsDistinct
  <2>2. k + 2 \in 0..Rounds(E)
    BY <1>7, <1>14, <1>a, <2>1, AppendKeepsDistinct
  <2>3. PICK g \in Candidates(E, longer) :
          /\ Extended(E, longer) = Append(longer, g)
          /\ \A f \in Candidates(E, longer) : f = g \/ Before(g.acceptance, f.acceptance)
    BY ExtendedByFirst
  <2>4. g \in Handover(E) /\ h \in Handover(E) /\ g.acceptance \in E /\ h.acceptance \in E
    BY CandidatesAreHandovers DEF Handover, OfKind
  <2>5. Handed(E)[k + 2] = Append(longer, g)
    <3>1. Handed(E)[(k + 1) + 1] = Extended(E, longer)
      BY <1>11, <1>13, <1>a, <2>2, HandoversAreHanded
    <3> QED
      BY <1>7, <2>3, <3>1
  <2>6. PICK H : H = Handovers(E)
    OBVIOUS
  <2>7. /\ Len(Handed(E)[k + 2]) = k + 2
        /\ Handed(E)[k + 2][k + 1].acceptance = e
        /\ Handed(E)[k + 2][k + 2] = g
    BY <1>7, <1>14, <2>4, <2>5
  <2>8. /\ k + 1 \in DOMAIN H /\ k + 2 \in DOMAIN H
        /\ H[k + 1].acceptance = e /\ H[k + 2] = g
    <3>1. H \in Seq(Handover(E))
      BY <1>a, <2>6, HandoversAreHanded, HandedIsDistinct
    <3>2. PICK m : m = k + 2
      OBVIOUS
    <3>3. /\ Len(Handed(E)[m]) <= Len(H)
          /\ \A i \in 1..Len(Handed(E)[m]) : H[i] = Handed(E)[m][i]
      BY <2>2, <2>6, <3>2, HandedGrows
    <3>4. Len(H) \in Nat /\ DOMAIN H = 1..Len(H)
      BY <3>1
    <3>5. k + 2 <= Len(H) /\ \A i \in 1..(k + 2) : H[i] = Handed(E)[k + 2][i]
      BY <2>7, <3>2, <3>3
    <3>6. k + 1 \in 1..(k + 2) /\ k + 2 \in 1..(k + 2)
      BY <1>7
    <3> QED
      BY <1>7, <2>7, <3>4, <3>5, <3>6
  <2>9. Before(e, g.acceptance)
    BY <1>7, <2>6, <2>8 DEF HandoversInOrder
  <2>10. g.acceptance = h.acceptance \/ Before(g.acceptance, h.acceptance)
    BY <2>3
  <2>11. h.acceptance = e \/ Before(h.acceptance, e)
    BY <1>4, <1>17
  <2> QED
    BY <1>4, <2>4, <2>9, <2>10, <2>11, BeforeOrders
<1> QED
  BY <1>7, <1>11, <1>13, <1>14, <1>15, <1>16, <1>17 DEF InStepAfter

LEMMA OnePilot ==
  ASSUME NEW E, Journal(E), Filtered(E) = E, OffersFirst(E),
         AcceptedOnce(E), HandoversInOrder(E)
  PROVE  Policy(E).pilot = PilotOf(E)
<1>1. PICK last : last = Cardinality(E)
  OBVIOUS
<1>2. last \in Nat /\ Rounds(E) \in Nat
  BY <1>1, RankOrders, RoundsAreFinite
<1> DEFINE T == {n \in Nat : \E k \in 0..Rounds(E) : InStepAfter(E, n, k)}
<1>3. 0 \in T
  <2>1. Handed(E)[0] = <<>> /\ Judged(E)[0] = Start
    BY <1>1, <1>2, HandoversAreHanded, PolicyIsJudged
  <2>2. UpTo(E, 0) = {}
    BY UpToGrows
  <2>3. InStepAfter(E, 0, 0)
    BY <2>1, <2>2 DEF InStepAfter, Pilot, Start
  <2> QED
    BY <1>2, <2>3
<1>4. ASSUME NEW n \in 0..last, n \in T, n + 1 <= last PROVE n + 1 \in T
  <2>1. PICK k \in 0..Rounds(E) : InStepAfter(E, n, k)
    BY <1>4
  <2>2. CASE Effective(Judged(E)[n], Nth(E, n + 1))
    BY <1>1, <1>4, <2>1, <2>2, MoveInStep
  <2>3. CASE ~Effective(Judged(E)[n], Nth(E, n + 1))
    BY <1>1, <1>4, <2>1, <2>3, StayInStep
  <2> QED
    BY <2>2, <2>3
<1>5. last \in T
  <2> HIDE DEF T
  <2>1. \A n \in 0..last : n \in T
    BY <1>2, <1>3, <1>4, EveryNumberTo
  <2> QED
    BY <1>2, <2>1
<1>6. PICK k \in 0..Rounds(E) : InStepAfter(E, last, k)
  BY <1>5
<1>7. Candidates(E, Handed(E)[k]) = {}
  <2>1. \A h \in Candidates(E, Handed(E)[k]) : h.acceptance \in E
    BY CandidatesAreHandovers DEF Handover, OfKind
  <2>2. UpTo(E, last) = E
    BY <1>1, UpToGrows
  <2> QED
    BY <1>6, <2>1, <2>2 DEF InStepAfter
<1>8. Handovers(E) = Handed(E)[k]
  BY <1>7, HandedGrows
<1>9. Policy(E) = Judged(E)[last]
  BY <1>1, <1>2, PolicyIsJudged
<1> QED
  BY <1>6, <1>8, <1>9 DEF InStepAfter, PilotOf

-----------------------------------------------------------------------------
(***************************************************************************)
(* What is made, known and in memory.  That the events are numbered as     *)
(* they are made and that a device remembers a part of its journal which   *)
(* the policy counts in full holds for any clocks (JournalsInv); for       *)
(* clocks in step the newest event is also the latest (TimesInv).          *)
(***************************************************************************)
ClocksInStep == \A d, f \in Devices : Offset[d] = Offset[f]

MadeInv ==
  /\ now \in Nat
  /\ made \subseteq Event
  /\ IsFiniteSet(made)
  /\ \A e \in made : e.id <= Cardinality(made)
  /\ \A e, f \in made : e.id = f.id => e = f

HeldInv ==
  /\ known \in [Devices -> SUBSET made]
  /\ memory \in [Devices -> SUBSET made]
  /\ \A d \in Devices : memory[d] \subseteq known[d] /\ Filtered(memory[d]) = memory[d]

JournalsInv == MadeInv /\ HeldInv

(* An acceptance is made of an offer that was made before it. *)
TimesInv ==
  /\ \A e \in made, d \in Devices : e.at <= Clock(d)
  /\ \A a \in OfKind(made, "accept") : \E o \in OfKind(made, "offer") :
       a.offer = o.id /\ o.id < a.id /\ o.at <= a.at

PilotInv == JournalsInv /\ TimesInv

(* A device's memory departs from the replay of its journal, and with it   *)
(* from the other devices', only when an event reaches the journal that    *)
(* sorts before one that is there already.                                 *)
DivergesOnlyOutOfOrder ==
  [][\A d \in Devices :
       memory[d] = Filtered(known[d]) =>
         \/ memory'[d] = Filtered(known'[d])
         \/ \E e \in known'[d] \ known[d], f \in known[d] : Before(e, f)]_vars

(* The pilot is never among the revoked, whatever a revocation and a       *)
(* handover that cross make of it at a device.                             *)
PilotNeverRevoked ==
  \A d \in Devices : Policy(memory[d]).pilot \notin Policy(memory[d]).revoked

(* What the app lets its user do as the pilot, to offer the flight and to  *)
(* revoke a device, counts: it is in the memory of the device afterwards.  *)
PilotIsHeeded ==
  [][\A d, t \in Devices :
       /\ Offer(d, t) \/ Revoke(d, t)
       /\ HandoversInOrder(memory[d]) /\ AcceptedOnce(memory[d])
       => made' \ made \subseteq memory'[d]]_vars

-----------------------------------------------------------------------------
LEMMA JournalOfMade ==
  ASSUME MadeInv, NEW E \in SUBSET made
  PROVE  Journal(E)
BY FS_Subset DEF MadeInv, Journal

LEMMA PartOfMade ==
  ASSUME PilotInv, NEW E \in SUBSET made
  PROVE  Journal(E) /\ OffersFirst(E)
<1>1. Journal(E)
  BY JournalOfMade DEF PilotInv, JournalsInv
<1>2. ASSUME NEW a \in OfKind(E, "accept"), NEW o \in OfKind(E, "offer"), a.offer = o.id
      PROVE  Before(o, a)
  <2>1. a \in OfKind(made, "accept") /\ o \in made
    BY DEF OfKind
  <2>2. PICK p \in OfKind(made, "offer") : a.offer = p.id /\ p.id < a.id /\ p.at <= a.at
    BY <2>1 DEF PilotInv, TimesInv
  <2>3. p = o
    BY <1>2, <2>1, <2>2 DEF PilotInv, JournalsInv, MadeInv, OfKind
  <2>4. a.at \in Int /\ o.at \in Int
    BY <2>1, EventFields DEF PilotInv, JournalsInv, MadeInv, OfKind
  <2> QED
    BY <2>2, <2>3, <2>4 DEF Before
<1> QED
  BY <1>1, <1>2 DEF OffersFirst

LEMMA InvNamesOnePilot ==
  ASSUME PilotInv, NEW d \in Devices,
         HandoversInOrder(memory[d]), AcceptedOnce(memory[d])
  PROVE  Policy(memory[d]).pilot = PilotOf(memory[d])
<1>1. memory[d] \in SUBSET made /\ Filtered(memory[d]) = memory[d]
  BY DEF PilotInv, JournalsInv, HeldInv
<1> QED
  BY <1>1, PartOfMade, OnePilot

LEMMA PilotInitHolds == Init => JournalsInv /\ TimesInv
<1> SUFFICES ASSUME Init PROVE JournalsInv /\ TimesInv
  OBVIOUS
<1>1. MadeInv /\ TimesInv
  BY FS_EmptySet DEF Init, MadeInv, TimesInv, OfKind
<1>2. Journal({})
  BY FS_EmptySet DEF Journal
<1>3. Filtered({}) = {}
  BY <1>2, FilteredIsSubset
<1> QED
  BY <1>1, <1>3 DEF Init, HeldInv, JournalsInv

(* An event that is admitted leaves a memory that counts in full. *)
LEMMA AdmitKeeps ==
  ASSUME NEW E, NEW e, Journal(E \cup {e}), Filtered(E) = E
  PROVE  Admit(E, e) \subseteq E \cup {e} /\ Filtered(Admit(E, e)) = Admit(E, e)
<1>1. /\ Filtered(E \cup {e}) \subseteq E \cup {e}
      /\ Filtered(Filtered(E \cup {e})) = Filtered(E \cup {e})
  BY FilteredIsSubset, FilteredTwice
<1>2. Admit(E, e) = Filtered(E \cup {e}) \/ Admit(E, e) = E
  BY DEF Admit
<1> QED
  BY <1>1, <1>2

-----------------------------------------------------------------------------
(* The event a device makes, and that its number is free. *)
MakesOf(d, e) ==
  /\ Record(d, e) /\ e \in Event
  /\ e.id = NextId /\ e.at = Clock(d) /\ e.by = d
  /\ e.kind = "accept" => \E o \in OfKind(memory[d], "offer") : e.offer = o.id

LEMMA OfferMakes ==
  ASSUME JournalsInv, NEW d \in Devices, NEW t \in Devices, Offer(d, t) \/ Revoke(d, t)
  PROVE  \E e : MakesOf(d, e) /\ e.kind # "accept"
<1>1. NextId \in Nat \ {0} /\ Clock(d) \in Int /\ Clock(d) + OfferLife \in Int
  BY FS_CardinalityType, AuthorityAssumption DEF JournalsInv, MadeInv, NextId, Clock
<1>2. CASE Offer(d, t)
  <2>1. PICK e : e = [id |-> NextId, kind |-> "offer", by |-> d, at |-> Clock(d),
                      to |-> t, expires |-> Clock(d) + OfferLife]
    OBVIOUS
  <2>2. Record(d, e) /\ e.id = NextId /\ e.at = Clock(d) /\ e.by = d /\ e.kind = "offer"
    BY <1>2, <2>1 DEF Offer
  <2>3. NextId \in 1..MaxEvents
    BY <1>1, <2>2, AuthorityAssumption DEF Record
  <2>4. e \in Event
    BY <1>1, <2>1, <2>3 DEF Event
  <2> QED
    BY <2>2, <2>4 DEF MakesOf
<1>3. CASE Revoke(d, t)
  <2>1. PICK e : e = [id |-> NextId, kind |-> "revoke", by |-> d, at |-> Clock(d),
                      target |-> t]
    OBVIOUS
  <2>2. Record(d, e) /\ e.id = NextId /\ e.at = Clock(d) /\ e.by = d /\ e.kind = "revoke"
    BY <1>3, <2>1 DEF Revoke
  <2>3. NextId \in 1..MaxEvents
    BY <1>1, <2>2, AuthorityAssumption DEF Record
  <2>4. e \in Event
    BY <1>1, <2>1, <2>3 DEF Event
  <2> QED
    BY <2>2, <2>4 DEF MakesOf
<1> QED
  BY <1>2, <1>3

LEMMA AcceptMakes ==
  ASSUME JournalsInv, NEW d \in Devices, Accept(d)
  PROVE  \E e : MakesOf(d, e)
<1>1. PICK o \in Pending(memory[d], Clock(d)) :
        Record(d, [id |-> NextId, kind |-> "accept", by |-> d, at |-> Clock(d),
                   offer |-> o.id])
  BY DEF Accept
<1>2. PICK e : e = [id |-> NextId, kind |-> "accept", by |-> d, at |-> Clock(d),
                    offer |-> o.id]
  OBVIOUS
<1>3. Record(d, e) /\ e.id = NextId /\ e.at = Clock(d) /\ e.offer = o.id /\ e.by = d
  BY <1>1, <1>2
<1>4. o \in OfKind(memory[d], "offer")
  BY DEF Pending
<1>5. o.id \in 1..MaxEvents
  BY <1>4 DEF OfKind, JournalsInv, HeldInv, MadeInv, Event
<1>6. NextId \in 1..MaxEvents /\ Clock(d) \in Int
  BY <1>3, FS_CardinalityType, AuthorityAssumption
     DEF JournalsInv, MadeInv, NextId, Clock, Record
<1>7. e \in Event
  BY <1>2, <1>5, <1>6 DEF Event
<1> QED
  BY <1>3, <1>4, <1>7 DEF MakesOf

(* Every step makes an event, delivers one, opens an app, or only lets     *)
(* time pass.                                                              *)
LEMMA StepsOfPilots ==
  ASSUME JournalsInv, Next
  PROVE  \/ \E d \in Devices : \E e : MakesOf(d, e)
         \/ \E d \in Devices : \E e \in made : Receive(d, e)
         \/ \E d \in Devices : Open(d)
         \/ Tick
BY OfferMakes, AcceptMakes DEF Next

(* A new event has the highest number. *)
LEMMA NewIsHighest ==
  ASSUME JournalsInv, NEW d \in Devices, NEW e, MakesOf(d, e)
  PROVE  /\ \A f \in made : f.id < e.id /\ f.id \in Nat
         /\ e \notin made /\ e \notin known[d]
         /\ made' = made \cup {e} /\ IsFiniteSet(made')
         /\ Cardinality(made') = Cardinality(made) + 1 /\ e.id = Cardinality(made')
         /\ known' = [known EXCEPT ![d] = known[d] \cup {e}]
         /\ memory' = [memory EXCEPT ![d] = Admit(memory[d], e)]
         /\ now' = now
<1>1. IsFiniteSet(made) /\ Cardinality(made) \in Nat
  BY FS_CardinalityType DEF JournalsInv, MadeInv
<1>2. \A f \in made : f.id < e.id /\ f.id \in Nat
  BY <1>1, EventFields DEF JournalsInv, MadeInv, MakesOf, NextId
<1>3. e \notin made /\ known[d] \subseteq made
  BY <1>2 DEF JournalsInv, HeldInv
<1>4. /\ made' = made \cup {e} /\ now' = now
      /\ known' = [known EXCEPT ![d] = known[d] \cup {e}]
      /\ memory' = [memory EXCEPT ![d] = Admit(memory[d], e)]
  BY DEF MakesOf, Record, Stored
<1>5. IsFiniteSet(made') /\ Cardinality(made') = Cardinality(made) + 1
  BY <1>1, <1>3, <1>4, FS_AddElement
<1>6. e.id = Cardinality(made')
  BY <1>5 DEF MakesOf, NextId
<1> QED
  BY <1>2, <1>3, <1>4, <1>5, <1>6

(* An event that reaches a device, of its own making or delivered. *)
LEMMA ArrivalKeeps ==
  ASSUME JournalsInv, NEW d \in Devices, NEW e, MadeInv', made \cup {e} = made',
         known' = [known EXCEPT ![d] = known[d] \cup {e}],
         memory' = [memory EXCEPT ![d] = Admit(memory[d], e)]
  PROVE  HeldInv'
<1>1. memory[d] \subseteq known[d] /\ known[d] \subseteq made /\ Filtered(memory[d]) = memory[d]
  BY DEF JournalsInv, HeldInv
<1>2. Journal(memory[d] \cup {e})
  BY <1>1, FS_Subset DEF MadeInv, Journal
<1>3. /\ Admit(memory[d], e) \subseteq memory[d] \cup {e}
      /\ Filtered(Admit(memory[d], e)) = Admit(memory[d], e)
  BY <1>1, <1>2, AdmitKeeps
<1>4. known' \in [Devices -> SUBSET made'] /\ memory' \in [Devices -> SUBSET made']
  BY <1>1, <1>3 DEF JournalsInv, HeldInv
<1>5. \A f \in Devices : memory'[f] \subseteq known'[f] /\ Filtered(memory'[f]) = memory'[f]
  BY <1>1, <1>3 DEF JournalsInv, HeldInv
<1> QED
  BY <1>4, <1>5 DEF HeldInv

LEMMA JournalsNext ==
  ASSUME JournalsInv, Next
  PROVE  JournalsInv'
<1>1. ASSUME NEW d \in Devices, NEW e, MakesOf(d, e)
      PROVE  JournalsInv'
  <2>1. /\ made' = made \cup {e} /\ IsFiniteSet(made') /\ now' = now
        /\ Cardinality(made') = Cardinality(made) + 1 /\ e.id = Cardinality(made')
        /\ \A f \in made : f.id < e.id /\ f.id \in Nat
    BY <1>1, NewIsHighest
  <2>2. now' \in Nat /\ made' \subseteq Event
    BY <1>1, <2>1 DEF MakesOf, JournalsInv, MadeInv
  <2>3. \A f \in made' : f.id <= Cardinality(made')
    <3>1. Cardinality(made) \in Nat /\ \A f \in made : f.id <= Cardinality(made)
      BY FS_CardinalityType DEF JournalsInv, MadeInv
    <3> QED
      BY <2>1, <3>1
  <2>4. \A f, g \in made' : f.id = g.id => f = g
    <3>1. \A f, g \in made : f.id = g.id => f = g
      BY DEF JournalsInv, MadeInv
    <3>2. \A f \in made : f.id # e.id
      BY <2>1
    <3> QED
      BY <2>1, <3>1, <3>2
  <2>5. MadeInv'
    BY <2>1, <2>2, <2>3, <2>4 DEF MadeInv
  <2> QED
    BY <1>1, <2>5, NewIsHighest, ArrivalKeeps DEF JournalsInv
<1>2. ASSUME NEW d \in Devices, NEW e \in made, Receive(d, e)
      PROVE  JournalsInv'
  <2>1. /\ MadeInv' /\ made \cup {e} = made'
        /\ known' = [known EXCEPT ![d] = known[d] \cup {e}]
        /\ memory' = [memory EXCEPT ![d] = Admit(memory[d], e)]
    BY <1>2 DEF Receive, Stored, JournalsInv, MadeInv
  <2> QED
    BY <2>1, ArrivalKeeps DEF JournalsInv
<1>3. ASSUME NEW d \in Devices, Open(d)
      PROVE  JournalsInv'
  <2>1. /\ UNCHANGED <<now, made, known>>
        /\ memory' = [memory EXCEPT ![d] = Filtered(known[d])]
    BY <1>3 DEF Open
  <2>2. known[d] \in SUBSET made
    BY DEF JournalsInv, HeldInv
  <2>3. /\ Filtered(known[d]) \subseteq known[d]
        /\ Filtered(Filtered(known[d])) = Filtered(known[d])
    BY <2>2, JournalOfMade, FilteredIsSubset, FilteredTwice DEF JournalsInv
  <2> QED
    BY <2>1, <2>2, <2>3 DEF JournalsInv, MadeInv, HeldInv
<1>4. CASE Tick
  BY <1>4 DEF Tick, JournalsInv, MadeInv, HeldInv
<1> QED
  BY <1>1, <1>2, <1>3, <1>4, StepsOfPilots

LEMMA JournalsInvHolds == Spec => []JournalsInv
<1>1. JournalsInv /\ [Next]_vars => JournalsInv'
  <2> SUFFICES ASSUME JournalsInv, UNCHANGED vars PROVE JournalsInv'
    BY JournalsNext
  <2> QED
    BY DEF vars, JournalsInv, MadeInv, HeldInv
<1> QED
  BY <1>1, PilotInitHolds, PTL DEF Spec

(* With clocks in step a new event sorts after all others. *)
LEMMA NewIsLast ==
  ASSUME PilotInv, NEW d \in Devices, NEW e, MakesOf(d, e)
  PROVE  \A f \in made : Before(f, e)
<1>1. \A f \in made : f.id < e.id /\ f.at <= e.at /\ f.at \in Int
  BY NewIsHighest, EventFields DEF PilotInv, JournalsInv, MadeInv, TimesInv, MakesOf
<1>2. e.at \in Int
  BY EventFields DEF MakesOf
<1> QED
  BY <1>1, <1>2 DEF Before

LEMMA TimesNext ==
  ASSUME ClocksInStep, PilotInv, Next
  PROVE  TimesInv'
<1>1. ASSUME NEW d \in Devices, NEW e, MakesOf(d, e)
      PROVE  TimesInv'
  <2>1. /\ made' = made \cup {e} /\ now' = now
        /\ \A f \in made : f.id < e.id /\ f.id \in Nat
    BY <1>1, NewIsHighest DEF PilotInv
  <2>2. e.at = Clock(d) /\ e.at \in Int
    BY <1>1, EventFields DEF MakesOf
  <2>3. \A f \in made', c \in Devices : f.at <= Clock(c)'
    <3>1. \A c \in Devices : Clock(c)' = Clock(c) /\ Clock(c) = Clock(d)
      BY <2>1 DEF Clock, ClocksInStep
    <3> QED
      BY <2>1, <2>2, <3>1 DEF PilotInv, TimesInv
  <2>4. ASSUME NEW a \in OfKind(made', "accept")
        PROVE  \E o \in OfKind(made', "offer") :
                 a.offer = o.id /\ o.id < a.id /\ o.at <= a.at
    <3>1. OfKind(made, "offer") \subseteq OfKind(made', "offer")
      BY <2>1 DEF OfKind
    <3>2. CASE a \in made
      BY <3>1, <3>2 DEF OfKind, PilotInv, TimesInv
    <3>3. CASE a = e
      <4>1. PICK o \in OfKind(memory[d], "offer") : e.offer = o.id
        BY <1>1, <3>3 DEF MakesOf, OfKind
      <4>2. o \in OfKind(made, "offer")
        BY <4>1 DEF OfKind, PilotInv, JournalsInv, HeldInv
      <4>3. o.id < e.id /\ o.at <= e.at
        BY <2>1, <2>2, <4>2 DEF OfKind, PilotInv, TimesInv
      <4> QED
        BY <3>1, <3>3, <4>1, <4>2, <4>3
    <3> QED
      BY <2>1, <3>2, <3>3 DEF OfKind
  <2> QED
    BY <2>3, <2>4 DEF TimesInv
<1>2. ASSUME UNCHANGED <<now, made>> PROVE TimesInv'
  BY <1>2 DEF PilotInv, TimesInv, Clock
<1>3. CASE Tick
  <2>1. now' = now + 1 /\ made' = made
    BY <1>3 DEF Tick
  <2>2. ASSUME NEW e \in made, NEW d \in Devices PROVE e.at <= Clock(d)'
    <3>1. e.at \in Int /\ now \in Nat /\ Offset[d] \in Int /\ e.at <= now + Offset[d]
      BY EventFields, AuthorityAssumption DEF PilotInv, JournalsInv, MadeInv, TimesInv, Clock
    <3> QED
      BY <2>1, <3>1 DEF Clock
  <2> QED
    BY <2>1, <2>2 DEF PilotInv, TimesInv
<1>4. (\E d \in Devices : Open(d) \/ \E e \in made : Receive(d, e)) => UNCHANGED <<now, made>>
  BY DEF Open, Receive
<1> QED
  BY <1>1, <1>2, <1>3, <1>4, StepsOfPilots DEF PilotInv

LEMMA PilotInvHolds ==
  ASSUME ClocksInStep
  PROVE  Spec => []PilotInv
<1>1. JournalsInv /\ TimesInv /\ [Next]_vars => TimesInv'
  <2> SUFFICES ASSUME PilotInv, UNCHANGED vars PROVE TimesInv'
    BY TimesNext DEF PilotInv
  <2> QED
    BY DEF vars, PilotInv, TimesInv, Clock
<1> QED
  BY <1>1, PilotInitHolds, JournalsInvHolds, PTL DEF Spec, PilotInv

(* Whatever is offered, accepted and revoked, in whatever order it reaches *)
(* a device and whenever the app is opened: the policy and the reducer     *)
(* name the same pilot there, for any crew with clocks in step and any     *)
(* number of events, unless a stale pair was applied or an offer was       *)
(* accepted twice.                                                         *)
THEOREM OneAuthority ==
  ASSUME ClocksInStep
  PROVE  Spec => []OneAuthorityUnlessStale
<1>1. PilotInv => OneAuthorityUnlessStale
  BY InvNamesOnePilot DEF OneAuthorityUnlessStale
<1> QED
  BY <1>1, PilotInvHolds, PTL

-----------------------------------------------------------------------------
(* An event that reaches a device, in order: its memory stays a replay.    *)
LEMMA ArrivalReplays ==
  ASSUME JournalsInv, JournalsInv', NEW d \in Devices, NEW e, e \in made', e \notin known[d],
         known' = [known EXCEPT ![d] = known[d] \cup {e}],
         memory' = [memory EXCEPT ![d] = Admit(memory[d], e)],
         NEW o \in Devices, memory[o] = Filtered(known[o])
  PROVE  \/ memory'[o] = Filtered(known'[o])
         \/ \E x \in known'[o] \ known[o], f \in known[o] : Before(x, f)
<1>1. CASE o # d
  BY <1>1 DEF JournalsInv, HeldInv
<1>2. CASE o = d
  <2> SUFFICES ASSUME \A f \in known[d] : ~Before(e, f)
               PROVE  Admit(memory[d], e) = Filtered(known[d] \cup {e})
    BY <1>2 DEF JournalsInv, HeldInv
  <2>1. known[d] \cup {e} \in SUBSET made'
    BY DEF JournalsInv, HeldInv
  <2>2. Journal(known[d] \cup {e})
    BY <2>1, FS_Subset DEF JournalsInv, MadeInv, Journal
  <2>3. \A f \in known[d] : Before(f, e)
    BY <2>2, BeforeOrders
  <2> QED
    BY <1>2, <2>2, <2>3, LastIsAdmitted
<1> QED
  BY <1>1, <1>2

(* The devices' memories depart from the replay of their journals only     *)
(* through events that come out of order, for any clocks: as long as every *)
(* event comes after those before it, devices that have the same events    *)
(* agree on all that the policy says.                                      *)
THEOREM DivergenceHasCause == Spec => DivergesOnlyOutOfOrder
<1>1. ASSUME JournalsInv, JournalsInv', Next, NEW o \in Devices,
             memory[o] = Filtered(known[o])
      PROVE  \/ memory'[o] = Filtered(known'[o])
             \/ \E x \in known'[o] \ known[o], f \in known[o] : Before(x, f)
  <2>1. ASSUME NEW d \in Devices, NEW e, MakesOf(d, e)
        PROVE  \/ memory'[o] = Filtered(known'[o])
               \/ \E x \in known'[o] \ known[o], f \in known[o] : Before(x, f)
    <3>1. /\ e \in made' /\ e \notin known[d]
          /\ known' = [known EXCEPT ![d] = known[d] \cup {e}]
          /\ memory' = [memory EXCEPT ![d] = Admit(memory[d], e)]
      BY <1>1, <2>1, NewIsHighest
    <3> QED
      BY <1>1, <3>1, ArrivalReplays
  <2>2. ASSUME NEW d \in Devices, NEW e \in made, Receive(d, e)
        PROVE  \/ memory'[o] = Filtered(known'[o])
               \/ \E x \in known'[o] \ known[o], f \in known[o] : Before(x, f)
    <3>1. /\ e \in made' /\ e \notin known[d]
          /\ known' = [known EXCEPT ![d] = known[d] \cup {e}]
          /\ memory' = [memory EXCEPT ![d] = Admit(memory[d], e)]
      BY <2>2 DEF Receive, Stored
    <3> QED
      BY <1>1, <3>1, ArrivalReplays
  <2>3. ASSUME NEW d \in Devices, Open(d)
        PROVE  memory'[o] = Filtered(known'[o])
    BY <1>1, <2>3 DEF Open, JournalsInv, HeldInv
  <2>4. Tick => memory'[o] = Filtered(known'[o])
    BY <1>1 DEF Tick
  <2> QED
    BY <1>1, <2>1, <2>2, <2>3, <2>4, StepsOfPilots
<1>2. JournalsInv /\ JournalsInv' /\ Next =>
        \A d \in Devices :
          memory[d] = Filtered(known[d]) =>
            \/ memory'[d] = Filtered(known'[d])
            \/ \E e \in known'[d] \ known[d], f \in known[d] : Before(e, f)
  BY <1>1
<1> QED
  BY <1>2, JournalsInvHolds, PTL DEF Spec, DivergesOnlyOutOfOrder

(* Nobody who is revoked is the pilot at any device, for any clocks.       *)
THEOREM PilotKeepsStanding == Spec => []PilotNeverRevoked
<1>1. JournalsInv => PilotNeverRevoked
  <2> SUFFICES ASSUME JournalsInv, NEW d \in Devices
               PROVE  Policy(memory[d]).pilot \notin Policy(memory[d]).revoked
    BY DEF PilotNeverRevoked
  <2>1. Journal(memory[d])
    BY JournalOfMade DEF JournalsInv, HeldInv
  <2> QED
    BY <2>1, PilotStands
<1> QED
  BY <1>1, JournalsInvHolds, PTL

(* Whoever the app takes for the pilot is heard by the policy: an offer or *)
(* a revocation it lets its user make counts, for clocks in step, unless a *)
(* stale pair was applied or an offer was accepted twice.                  *)
THEOREM PilotHeeded ==
  ASSUME ClocksInStep
  PROVE  Spec => PilotIsHeeded
<1>1. ASSUME PilotInv, NEW d \in Devices, NEW t \in Devices, Offer(d, t) \/ Revoke(d, t),
             HandoversInOrder(memory[d]), AcceptedOnce(memory[d])
      PROVE  made' \ made \subseteq memory'[d]
  <2>1. PICK e : MakesOf(d, e) /\ e.kind # "accept"
    BY <1>1, OfferMakes DEF PilotInv
  <2>2. PICK M : M = memory[d]
    OBVIOUS
  <2>3. M \in SUBSET made /\ Filtered(M) = M /\ Journal(M)
    BY <1>1, <2>2, PartOfMade DEF PilotInv, JournalsInv, HeldInv
  <2>4. /\ made' = made \cup {e} /\ e \notin made
        /\ memory' = [memory EXCEPT ![d] = Admit(M, e)]
        /\ \A f \in made : Before(f, e)
    BY <1>1, <2>1, <2>2, NewIsHighest, NewIsLast DEF PilotInv
  <2>5. e \in Event /\ e.by = d
    BY <2>1 DEF MakesOf
  <2>6. Journal(M \cup {e})
    <3>1. \A f \in M : f.id # e.id
      BY <1>1, <2>1, <2>3, <2>5, NewIsHighest, EventFields DEF PilotInv
    <3>2. IsFiniteSet(M \cup {e})
      BY <2>3, FS_AddElement DEF Journal
    <3> QED
      BY <2>3, <2>5, <3>1, <3>2 DEF Journal
  <2>7. Policy(M \cup {e}) = Judge(Policy(M), e)
    BY <2>3, <2>4, <2>6, LastIsJudgedLast
  <2>8. Policy(M).pilot = d
    <3>1. PilotOf(memory[d]) = d
      BY <1>1 DEF Offer, Revoke, HasAuthority
    <3> QED
      BY <1>1, <2>2, <3>1, InvNamesOnePilot
  <2>9. d \notin Policy(M).revoked
    BY <2>3, <2>8, PilotStands
  <2>10. IsAuthorized(Policy(M), e)
    BY <2>5, <2>8, <2>9 DEF IsAuthorized
  <2>11. e \in Filtered(M \cup {e})
    BY <2>3, <2>5, <2>7, <2>10, PolicyIsTyped, JudgeStep DEF Filtered
  <2>12. Admit(M, e) = Filtered(M \cup {e})
    BY <2>11 DEF Admit
  <2>13. memory'[d] = Filtered(M \cup {e})
    BY <2>4, <2>12, <1>1 DEF PilotInv, JournalsInv, HeldInv
  <2> QED
    BY <2>4, <2>11, <2>13
<1>2. PilotInv =>
        \A d, t \in Devices :
          /\ Offer(d, t) \/ Revoke(d, t)
          /\ HandoversInOrder(memory[d]) /\ AcceptedOnce(memory[d])
          => made' \ made \subseteq memory'[d]
  BY <1>1
<1> QED
  BY <1>2, PilotInvHolds, PTL DEF Spec, PilotIsHeeded
=============================================================================
