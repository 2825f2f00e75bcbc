------------------------- MODULE InternetSyncProofs -------------------------
(***************************************************************************)
(* Theorems about InternetSync, for any number of devices and events and   *)
(* any batch and page sizes, whatever is killed, restarted, lost, late,    *)
(* unreadable, rekeyed or dropped by retention.                            *)
(*                                                                         *)
(* The argument is about one device at a time: DeviceOK relates what it    *)
(* holds durably, what its worker has in memory and the call it waits for  *)
(* to the relay's rows.  A step of the device keeps its own DeviceOK, and  *)
(* a call the relay serves keeps everybody's, because a row it adds lies   *)
(* above every cursor given out (LogInv).  A synchronization goes through  *)
(* its phases once: a worker waits while its one call is under way, and    *)
(* with every step there is less before it (SyncInv).                      *)
(***************************************************************************)
EXTENDS InternetSync, FiniteSetTheorems, TLAPS

FiniteEvents == {E \in SUBSET Events : IsFiniteSet(E)}

Steps == {"idle", "waiting", "accepting", "receiving"}
Worker ==
  [running : BOOLEAN, step : Steps, current : BOOLEAN, timer : BOOLEAN,
   probing : BOOLEAN, downloadOnly : BOOLEAN, quarantined : SUBSET Events,
   upload : SUBSET Events, known : SUBSET Events, accepted : SUBSET Events,
   received : SUBSET LogRow, next : Cursor, handing : SUBSET Events]

Request == [phase : {"request"}, cursor : Cursor, upload : FiniteEvents]
AnswerOf == [phase : {"answer"}, accepted : SUBSET Events, rows : SUBSET LogRow,
             next : Cursor]
Outcome == [phase : {"none", "refused", "invalidCursor"}]
Calls == Request \cup AnswerOf \cup Outcome

TypeInv ==
  /\ journal \in [Devices -> FiniteEvents]
  /\ acked \in [Devices -> SUBSET Events]
  /\ cursor \in [Devices -> Cursor]
  /\ worker \in [Devices -> Worker]
  /\ link \in [Devices -> Calls]
  /\ late \subseteq Request
  /\ log \subseteq LogRow /\ IsFiniteSet(log)
  /\ nextSeq \in Nat \ {0}
  /\ minted \subseteq Nat
  /\ epoch \in Nat \ {0}
  /\ everLogged \subseteq Events
  /\ emitted \in [Devices -> SUBSET Events]

(* The relay's numbers, and what it has ever stored. *)
LogInv ==
  /\ \A r \in log : r.seq < nextSeq
  /\ \A c \in minted : c < nextSeq
  /\ 0 \in minted
  /\ \A r, s \in log : r.id = s.id \/ r.seq = s.seq => r = s
  /\ \A r \in log : r.id \in everLogged
  /\ \A q \in late : q.cursor.seq \in minted

(* The rows up to a number are in a journal J or among the rows R.         *)
Covered(L, n, J, R) == \A r \in L : r.seq <= n => r.id \in J \/ r \in R

CallOK(k, J, L, M, N) ==
  /\ k.phase = "request" =>
       k.cursor.seq \in M /\ Covered(L, k.cursor.seq, J, {})
  /\ k.phase = "answer" =>
       /\ k.next.seq \in M /\ Covered(L, k.next.seq, J, k.rows)
       /\ k.accepted \subseteq N
       /\ \A r \in k.rows : r.id \in N

WorkerOK(w, J, E, L, M, N) ==
  /\ w.next.seq \in M /\ Covered(L, w.next.seq, J, w.received)
  /\ w.accepted \subseteq N
  /\ \A r \in w.received : r.id \in N
  /\ w.known \subseteq J /\ w.handing \subseteq w.known /\ w.handing \cap E = {}
  /\ w.step # "idle" => E \subseteq w.known
  /\ w.running => w.timer \/ w.step # "idle"

(* Of a device with journal J, acknowledgements A, cursor c, worker w,     *)
(* call k and handed-over events E; the relay has rows L, cursors M and    *)
(* has ever stored N.                                                      *)
DeviceOK(J, A, c, w, k, E, L, M, N) ==
  /\ c.seq \in M /\ Covered(L, c.seq, J, {})
  /\ A \subseteq N
  /\ E \subseteq J
  /\ WorkerOK(w, J, E, L, M, N)
  /\ CallOK(k, J, L, M, N)

DevicesInv ==
  \A d \in Devices :
    DeviceOK(journal[d], acked[d], cursor[d], worker[d], link[d], emitted[d],
             log, minted, everLogged)

Inv == TypeInv /\ LogInv /\ DevicesInv

-----------------------------------------------------------------------------
(***************************************************************************)
(* Numbers.                                                                *)
(***************************************************************************)
(* A finite set of natural numbers has a greatest one: the set of those    *)
(* above it is minimal among the sets of those above one.                  *)
LEMMA MaxExists ==
  ASSUME NEW S \in SUBSET Nat, IsFiniteSet(S), S # {}
  PROVE  Max(S) \in S /\ \A y \in S : Max(S) >= y
<1> DEFINE Above(x) == {y \in S : y > x}
<1> DEFINE T == {Above(x) : x \in S}
<1>1. T \subseteq FiniteSubsetsOf(S) /\ T # {}
  <2>1. T \subseteq SUBSET S
    OBVIOUS
  <2>2. T # {}
    OBVIOUS
  <2> HIDE DEF T
  <2> QED
    BY <2>1, <2>2, FS_FiniteSubsetsOfFinite
<1>2. PICK U \in T : \A V \in T : <<V, U>> \notin StrictSubsetOrdering(S)
  BY <1>1, FS_StrictSubsetOrderingWellFounded, WFMin
<1>3. PICK x \in S : U = Above(x)
  OBVIOUS
<1>4. \A y \in S : x >= y
  <2> SUFFICES ASSUME NEW y \in S, y > x PROVE FALSE
    OBVIOUS
  <2>1. Above(y) \subseteq U /\ y \in U /\ y \notin Above(y)
    <3>1. \A z \in S : z > y => z > x
      OBVIOUS
    <3>2. ~(y > y)
      OBVIOUS
    <3> QED
      BY <1>3, <3>1, <3>2
  <2>2. <<Above(y), U>> \in StrictSubsetOrdering(S)
    BY <1>3, <2>1 DEF StrictSubsetOrdering
  <2> QED
    BY <1>2, <2>2
<1> QED
  BY <1>4 DEF Max

(* So has any set of natural numbers a least one. *)
LEMMA MinExists ==
  ASSUME NEW S \in SUBSET Nat, S # {}
  PROVE  \E n \in S : \A m \in S : n <= m
<1> DEFINE Below(n) == 0 .. (n - 1)
<1> DEFINE T == {Below(n) : n \in S}
<1>1. T \subseteq FiniteSubsetsOf(Nat) /\ T # {}
  <2>1. \A n \in S : Below(n) \subseteq Nat /\ IsFiniteSet(Below(n))
    BY FS_Interval
  <2> HIDE DEF Below
  <2> QED
    BY <2>1 DEF FiniteSubsetsOf
<1>2. PICK U \in T : \A V \in T : <<V, U>> \notin StrictSubsetOrdering(Nat)
  BY <1>1, FS_StrictSubsetOrderingWellFounded, WFMin
<1>3. PICK n \in S : U = Below(n)
  OBVIOUS
<1>4. \A m \in S : n <= m
  <2> SUFFICES ASSUME NEW m \in S, m < n PROVE FALSE
    OBVIOUS
  <2>1. Below(m) \subseteq Below(n) /\ m \in Below(n) /\ m \notin Below(m)
    OBVIOUS
  <2>2. Below(n) \subseteq Nat
    OBVIOUS
  <2>3. Below(m) \in T
    OBVIOUS
  <2> HIDE DEF Below, T
  <2>4. <<Below(m), U>> \in StrictSubsetOrdering(Nat)
    BY <1>3, <2>1, <2>2 DEF StrictSubsetOrdering
  <2> QED
    BY <1>2, <2>3, <2>4
<1> QED
  BY <1>4

(* A page is closed downwards: what lies between a cursor and the number   *)
(* of its last row is in it.                                               *)
LEMMA PageCovers ==
  ASSUME NEW L \in SUBSET LogRow, IsFiniteSet(L), NEW c \in Cursor
  PROVE  LET page == Page(L, c) IN
         /\ page \subseteq L
         /\ Last(page, c) \in {c.seq} \cup {r.seq : r \in page}
         /\ Last(page, c) \in Nat
         /\ \A r \in L : r.seq <= Last(page, c) => r.seq <= c.seq \/ r \in page
<1> DEFINE visible == {r \in L : r.seq > c.seq}
<1> DEFINE Below(r) == {s \in visible : s.seq < r.seq}
<1> DEFINE page == Page(L, c)
<1> DEFINE seqs == {r.seq : r \in page}
<1>1. page = {r \in visible : Cardinality(Below(r)) < MaxDownload}
  BY DEF Page
<1>2. \A r \in L : r.seq \in Nat
  BY DEF LogRow
<1>3. c.seq \in Nat
  BY DEF Cursor
<1>4. page \subseteq L
  BY <1>1
<1>5. CASE page = {}
  <2>1. Last(page, c) = c.seq
    BY <1>5 DEF Last
  <2> QED
    BY <1>3, <1>4, <2>1
<1>6. CASE page # {}
  <2>1. Last(page, c) = Max(seqs)
    BY <1>6 DEF Last
  <2>2. seqs \in SUBSET Nat /\ seqs # {}
    BY <1>2, <1>4, <1>6
  <2>3. IsFiniteSet(seqs)
    <3>1. IsFiniteSet(page)
      BY <1>4, FS_Subset
    <3> DEFINE f == [r \in page |-> r.seq]
    <3>2. f \in Surjection(page, seqs)
      BY DEF Surjection
    <3> QED
      BY <3>1, <3>2, FS_Surjection
  <2>4. Max(seqs) \in seqs
    BY <2>2, <2>3, MaxExists
  <2>5. PICK m \in page : m.seq = Max(seqs)
    BY <2>4
  <2>6. ASSUME NEW r \in L, r.seq <= m.seq, r.seq > c.seq PROVE r \in page
    <3>1. r \in visible /\ m \in visible /\ m \in L
      BY <1>1, <2>6
    <3>2. Below(r) \subseteq Below(m)
      BY <1>2, <2>6, <3>1
    <3>3. IsFiniteSet(Below(m)) /\ Below(m) \subseteq L
      BY FS_Subset
    <3>4. /\ IsFiniteSet(Below(r)) /\ Cardinality(Below(r)) <= Cardinality(Below(m))
      BY <3>2, <3>3, FS_Subset
    <3>5. Cardinality(Below(m)) < MaxDownload
      BY <1>1
    <3>6. Cardinality(Below(r)) < MaxDownload
      <4>1. Cardinality(Below(r)) \in Nat /\ Cardinality(Below(m)) \in Nat
        BY <3>3, <3>4, FS_CardinalityType
      <4> HIDE DEF Below
      <4> QED
        BY <3>4, <3>5, <4>1, BoundAssumption
    <3> QED
      BY <1>1, <3>1, <3>6
  <2> HIDE DEF page, seqs
  <2>7. ASSUME NEW r \in L, r.seq <= Last(page, c), ~(r.seq <= c.seq) PROVE r \in page
    BY <1>2, <1>3, <2>1, <2>5, <2>6, <2>7
  <2>8. Last(page, c) \in seqs /\ Last(page, c) \in Nat
    BY <2>1, <2>2, <2>4
  <2> QED
    BY <1>4, <2>7, <2>8 DEF seqs, page
<1> QED
  BY <1>5, <1>6

(* The rows an upload adds: new events, with numbers of their own from     *)
(* nextSeq on, below the next that will be free.                           *)
LEMMA StoredRows ==
  ASSUME TypeInv, LogInv, NEW upload \in FiniteEvents
  PROVE  LET added == Stored(upload) IN
         /\ added \subseteq LogRow /\ IsFiniteSet(added)
         /\ \A r \in added : r.id \in upload /\ r.id \notin Ids(log)
         /\ upload \subseteq Ids(log \cup added)
         /\ \A r \in added : nextSeq <= r.seq /\ r.seq < nextSeq + Cardinality(added)
         /\ \A r, s \in added : r.id = s.id \/ r.seq = s.seq => r = s
         /\ added \cap log = {}
         /\ Cardinality(added) \in Nat
<1> DEFINE new == upload \ Ids(log)
<1> DEFINE Before(e) == {o \in new : o < e}
<1> DEFINE row(e) == [seq |-> nextSeq + Cardinality(Before(e)), id |-> e]
<1> DEFINE added == {row(e) : e \in new}
<1>1. Stored(upload) = added
  BY DEF Stored
<1>2. IsFiniteSet(new) /\ new \subseteq Events /\ new \subseteq Nat
  <2>1. IsFiniteSet(upload) /\ upload \subseteq Events
    BY DEF FiniteEvents
  <2> QED
    BY <2>1, EventAssumption, FS_Subset
<1>3. nextSeq \in Nat \ {0}
  BY DEF TypeInv
<1>4. \A e \in new : IsFiniteSet(Before(e)) /\ Cardinality(Before(e)) \in Nat
  BY <1>2, FS_Subset, FS_CardinalityType
<1>5. Cardinality(new) \in Nat
  BY <1>2, FS_CardinalityType
<1>6. \A e \in new : Cardinality(Before(e)) < Cardinality(new)
  <2> SUFFICES ASSUME NEW e \in new PROVE Cardinality(Before(e)) < Cardinality(new)
    OBVIOUS
  <2>1. Before(e) \subseteq new /\ e \notin Before(e)
    BY <1>2
  <2>2. Before(e) # new
    BY <2>1
  <2>3. Cardinality(Before(e)) <= Cardinality(new) /\ Cardinality(Before(e)) # Cardinality(new)
    BY <1>2, <2>1, <2>2, FS_Subset
  <2> HIDE DEF Before, new
  <2> QED
    BY <1>4, <1>5, <2>3
<1>7. \A e, f \in new : e < f => Cardinality(Before(e)) < Cardinality(Before(f))
  <2> SUFFICES ASSUME NEW e \in new, NEW f \in new, e < f
               PROVE  Cardinality(Before(e)) < Cardinality(Before(f))
    OBVIOUS
  <2>1. Before(e) \subseteq Before(f)
    BY <1>2
  <2>2. e \in Before(f) /\ e \notin Before(e)
    BY <1>2
  <2>3. Cardinality(Before(e)) <= Cardinality(Before(f))
          /\ Cardinality(Before(e)) # Cardinality(Before(f))
    BY <1>4, <2>1, <2>2, FS_Subset
  <2> HIDE DEF Before, new
  <2> QED
    BY <1>4, <2>3
<1>8. \A e, f \in new : e # f => row(e).seq # row(f).seq
  <2> SUFFICES ASSUME NEW e \in new, NEW f \in new, e # f
               PROVE  row(e).seq # row(f).seq
    OBVIOUS
  <2>1. e < f \/ f < e
    BY <1>2
  <2>2. Cardinality(Before(e)) # Cardinality(Before(f))
    <3> HIDE DEF Before
    <3> QED
      BY <1>4, <1>7, <2>1
  <2>3. row(e).seq = nextSeq + Cardinality(Before(e)) /\ row(f).seq = nextSeq + Cardinality(Before(f))
    OBVIOUS
  <2> HIDE DEF Before, row, new
  <2> QED
    BY <1>3, <1>4, <2>2, <2>3
<1>9. IsFiniteSet(added) /\ Cardinality(added) = Cardinality(new)
  <2> DEFINE f == [e \in new |-> row(e)]
  <2>1. \A e, g \in new : f[e] = f[g] => e = g
    BY <1>8
  <2>2. f \in Bijection(new, added)
    <3>1. f \in [new -> added]
      OBVIOUS
    <3>2. \A r \in added : \E e \in new : f[e] = r
      OBVIOUS
    <3> QED
      BY <2>1, <3>1, <3>2 DEF Bijection, Injection, Surjection, IsInjective
  <2>3. ExistsBijection(new, added)
    BY <2>2 DEF ExistsBijection
  <2> QED
    BY <1>2, <2>3, FS_Bijection
<1>10. \A e \in new :
         /\ row(e) \in LogRow /\ row(e).id = e
         /\ nextSeq <= row(e).seq /\ row(e).seq < nextSeq + Cardinality(new)
  <2> SUFFICES ASSUME NEW e \in new
               PROVE  /\ row(e) \in LogRow /\ row(e).id = e
                      /\ nextSeq <= row(e).seq /\ row(e).seq < nextSeq + Cardinality(new)
    OBVIOUS
  <2> DEFINE n == Cardinality(Before(e))
  <2>1. n \in Nat /\ n < Cardinality(new)
    BY <1>4, <1>6
  <2>2. row(e) = [seq |-> nextSeq + n, id |-> e] /\ e \in Events
    BY <1>2
  <2> HIDE DEF n, row, new
  <2> QED
    BY <1>3, <1>5, <2>1, <2>2 DEF LogRow
<1>11. added \cap log = {}
  BY <1>10 DEF Ids
<1>12. upload \subseteq Ids(log \cup added)
  <2> SUFFICES ASSUME NEW e \in upload, e \notin Ids(log) PROVE e \in Ids(log \cup added)
    BY DEF Ids
  <2>1. row(e) \in added /\ row(e).id = e
    BY <1>10
  <2> QED
    BY <2>1 DEF Ids
<1>13. \A r \in added : r.id \in upload /\ r.id \notin Ids(log)
  BY <1>10
<1>14. added \subseteq LogRow
  BY <1>10
<1>15. \A r \in added : nextSeq <= r.seq /\ r.seq < nextSeq + Cardinality(added)
  BY <1>9, <1>10
<1>16. \A r, s \in added : r.id = s.id \/ r.seq = s.seq => r = s
  <2>1. \A e, f \in new :
          row(e).id = row(f).id \/ row(e).seq = row(f).seq => e = f
    BY <1>8, <1>10
  <2>2. \A r \in added : \E e \in new : r = row(e)
    OBVIOUS
  <2> HIDE DEF row, new, added
  <2> QED
    BY <2>1, <2>2
<1> HIDE DEF added
<1>17. /\ Stored(upload) \subseteq LogRow /\ IsFiniteSet(Stored(upload))
       /\ Cardinality(Stored(upload)) \in Nat
       /\ Stored(upload) \cap log = {}
  BY <1>1, <1>5, <1>9, <1>11, <1>14
<1>18. /\ \A r \in Stored(upload) : r.id \in upload /\ r.id \notin Ids(log)
       /\ upload \subseteq Ids(log \cup Stored(upload))
  BY <1>1, <1>12, <1>13
<1>19. \A r \in Stored(upload) :
         nextSeq <= r.seq /\ r.seq < nextSeq + Cardinality(Stored(upload))
  BY <1>1, <1>15
<1>20. \A r, s \in Stored(upload) : r.id = s.id \/ r.seq = s.seq => r = s
  BY <1>1, <1>16
<1> QED
  BY <1>17, <1>18, <1>19, <1>20

(* A call the relay serves: it keeps what it has given out, stores every   *)
(* event it accepts, and numbers a row it adds above every cursor.         *)
LEMMA WrittenRelay ==
  ASSUME Inv, NEW q \in Request, q.cursor.seq \in minted, Written(Serve(q)),
         late' \subseteq late
  PROVE  /\ log' \subseteq LogRow /\ IsFiniteSet(log')
         /\ nextSeq' \in Nat \ {0} /\ minted' \subseteq Nat
         /\ epoch' \in Nat \ {0} /\ everLogged' \subseteq Events
         /\ LogInv'
         /\ log \subseteq log' /\ minted \subseteq minted' /\ everLogged \subseteq everLogged'
         /\ \A r \in log' \ log : \A c \in minted : c < r.seq
         /\ \A r \in log' \ log : \A s \in log : s.seq < r.seq
         /\ minted' \subseteq minted \cup {r.seq : r \in log'}
         /\ Serve(q).answer \in Calls
         /\ Serve(q).answer.phase # "request"
         /\ Serve(q).answer.phase = "answer" =>
              LET a == Serve(q).answer IN
              /\ a.next.seq \in minted'
              /\ \A r \in log' : r.seq <= a.next.seq => r.seq <= q.cursor.seq \/ r \in a.rows
              /\ a.accepted \subseteq everLogged'
              /\ \A r \in a.rows : r.id \in everLogged'
<1> USE DEF Inv
<1> DEFINE out == Serve(q)
<1>1. /\ q.cursor \in Cursor /\ q.upload \in FiniteEvents /\ q.upload \subseteq Events
      /\ nextSeq \in Nat \ {0} /\ log \subseteq LogRow /\ IsFiniteSet(log)
      /\ minted \subseteq Nat /\ epoch \in Nat \ {0} /\ everLogged \subseteq Events
  BY DEF TypeInv, Request, FiniteEvents
<1>2. /\ log' = out.log
      /\ nextSeq' = nextSeq + Cardinality(out.log \ log)
      /\ minted' = IF out.answer.phase = "answer"
                   THEN minted \cup {out.answer.next.seq} ELSE minted
      /\ everLogged' = everLogged \cup Ids(out.log)
      /\ epoch' = epoch
  BY DEF Written
<1>3. CASE ~ValidCursor(q.cursor) \/ q.upload \cap Poison # {}
  <2>1. out.log = log /\ (out.answer = [phase |-> "invalidCursor"] \/ out.answer = [phase |-> "refused"])
    BY <1>3 DEF Serve
  <2>2. out.answer \in Outcome /\ out.answer.phase \notin {"answer", "request"}
    BY <2>1 DEF Outcome
  <2>3. log \ log = {} /\ Cardinality({}) = 0
    BY FS_EmptySet
  <2>4. log' = log /\ nextSeq' = nextSeq /\ minted' = minted
    BY <1>1, <1>2, <2>1, <2>2, <2>3
  <2>5. everLogged' = everLogged
    BY <1>2, <2>1 DEF LogInv, Ids
  <2>6. LogInv'
    BY <2>4, <2>5 DEF LogInv
  <2> HIDE DEF out
  <2>7. out.answer \in Calls
    BY <2>2 DEF Calls
  <2> QED
    BY <1>1, <1>2, <2>2, <2>4, <2>5, <2>6, <2>7 DEF out
<1>4. CASE ValidCursor(q.cursor) /\ q.upload \cap Poison = {}
  <2> DEFINE added == Stored(q.upload)
  <2> DEFINE rows == log \cup added
  <2> DEFINE page == Page(rows, q.cursor)
  <2> DEFINE last == Last(page, q.cursor)
  <2> DEFINE ans == [phase |-> "answer", accepted |-> q.upload, rows |-> page,
                     next |-> [epoch |-> epoch, seq |-> last]]
  <2>1. out.log = rows /\ out.answer = ans
    BY <1>4 DEF Serve
  <2>2. /\ added \subseteq LogRow /\ IsFiniteSet(added)
        /\ \A r \in added : r.id \in q.upload /\ r.id \notin Ids(log)
        /\ q.upload \subseteq Ids(rows)
        /\ \A r \in added : nextSeq <= r.seq /\ r.seq < nextSeq + Cardinality(added)
        /\ \A r, s \in added : r.id = s.id \/ r.seq = s.seq => r = s
        /\ added \cap log = {}
        /\ Cardinality(added) \in Nat
    BY <1>1, StoredRows
  <2>3. rows \in SUBSET LogRow /\ IsFiniteSet(rows)
    BY <1>1, <2>2, FS_Union
  <2>4. /\ page \subseteq rows
        /\ last \in {q.cursor.seq} \cup {r.seq : r \in page}
        /\ last \in Nat
        /\ \A r \in rows : r.seq <= last => r.seq <= q.cursor.seq \/ r \in page
    BY <1>1, <2>3, PageCovers
  <2>5. rows \ log = added
    BY <2>2
  <2> HIDE DEF added
  <2>6. log' = rows /\ nextSeq' = nextSeq + Cardinality(added)
    BY <1>2, <2>1, <2>5
  <2>7. minted' = minted \cup {last} /\ everLogged' = everLogged \cup Ids(rows)
    <3>1. ans.phase = "answer" /\ ans.next.seq = last
      OBVIOUS
    <3> HIDE DEF ans, last, rows, out
    <3>2. out.answer.phase = "answer" /\ out.answer.next.seq = last
      BY <2>1, <3>1
    <3> QED
      BY <1>2, <2>1, <3>2
  <2>8. \A r \in rows : r.seq \in Nat \ {0} /\ r.id \in Events /\ r.id \in Ids(rows)
    BY <2>3 DEF LogRow, Ids
  <2> HIDE DEF page, last
  <2>9. ans \in AnswerOf
    BY <1>1, <2>3, <2>4 DEF AnswerOf, Cursor
  <2>10. ans.phase = "answer" /\ ans.accepted = q.upload /\ ans.rows = page /\ ans.next.seq = last
    OBVIOUS
  <2>11. \A r \in added : \A c \in minted : c < r.seq
    <3> SUFFICES ASSUME NEW r \in added, NEW c \in minted PROVE c < r.seq
      OBVIOUS
    <3>1. c \in Nat /\ r.seq \in Nat /\ c < nextSeq /\ nextSeq <= r.seq
      BY <1>1, <2>2, <2>8 DEF LogInv
    <3> QED
      BY <1>1, <3>1
  <2>12. \A r \in added : \A s \in log : s.seq < r.seq
    <3> SUFFICES ASSUME NEW r \in added, NEW s \in log PROVE s.seq < r.seq
      OBVIOUS
    <3>1. s.seq \in Nat /\ r.seq \in Nat /\ s.seq < nextSeq /\ nextSeq <= r.seq
      BY <2>2, <2>8 DEF LogInv
    <3> QED
      BY <1>1, <3>1
  <2>13. \A r \in rows : r.seq < nextSeq + Cardinality(added)
    <3>1. \A r \in log : r.seq < nextSeq + Cardinality(added)
      BY <1>1, <2>2, <2>8 DEF LogInv
    <3> QED
      BY <2>2, <3>1
  <2>14. last < nextSeq + Cardinality(added)
    <3>1. q.cursor.seq < nextSeq /\ q.cursor.seq \in Nat
      BY <1>1 DEF LogInv
    <3>2. CASE last = q.cursor.seq
      BY <1>1, <2>2, <3>1, <3>2
    <3>3. CASE \E r \in page : last = r.seq
      BY <2>4, <2>13, <3>3
    <3> QED
      BY <2>4, <3>2, <3>3
  <2>15. \A r, s \in rows : r.id = s.id \/ r.seq = s.seq => r = s
    <3>1. \A r \in added, s \in log : r.id # s.id
      BY <2>2 DEF Ids
    <3>2. \A r \in added, s \in log : r.seq # s.seq
      BY <2>8, <2>12
    <3>3. \A r, s \in log : r.id = s.id \/ r.seq = s.seq => r = s
      BY DEF LogInv
    <3> QED
      BY <2>2, <3>1, <3>2, <3>3
  <2>16. LogInv'
    <3>1. \A c \in minted : c < nextSeq + Cardinality(added)
      BY <1>1, <2>2 DEF LogInv
    <3>2. 0 \in minted /\ (\A r \in late : r.cursor.seq \in minted)
      BY DEF LogInv
    <3> HIDE DEF rows
    <3>3. \A c \in minted' : c < nextSeq'
      BY <2>6, <2>7, <2>14, <3>1
    <3>4. (\A r \in log' : r.seq < nextSeq') /\ (\A r \in log' : r.id \in everLogged')
      BY <2>6, <2>7, <2>8, <2>13
    <3>5. 0 \in minted' /\ (\A r \in late' : r.cursor.seq \in minted')
      BY <2>7, <3>2
    <3>6. \A r, s \in log' : r.id = s.id \/ r.seq = s.seq => r = s
      BY <2>6, <2>15
    <3> QED
      BY <3>3, <3>4, <3>5, <3>6 DEF LogInv
  <2>17. /\ nextSeq' \in Nat \ {0} /\ minted' \subseteq Nat /\ everLogged' \subseteq Events
    <3>1. Ids(rows) \subseteq Events
      BY <2>8 DEF Ids
    <3>2. nextSeq + Cardinality(added) \in Nat \ {0}
      BY <1>1, <2>2
    <3> HIDE DEF rows
    <3> QED
      BY <1>1, <2>4, <2>6, <2>7, <3>1, <3>2
  <2>18. minted' \subseteq minted \cup {r.seq : r \in log'}
    BY <2>4, <2>6, <2>7
  <2>19. log \subseteq log' /\ minted \subseteq minted' /\ everLogged \subseteq everLogged'
    BY <2>6, <2>7
  <2>20. log' \ log = added
    BY <2>5, <2>6
  <2>21. /\ ans.next.seq \in minted'
         /\ \A r \in log' : r.seq <= ans.next.seq => r.seq <= q.cursor.seq \/ r \in ans.rows
         /\ ans.accepted \subseteq everLogged'
         /\ \A r \in ans.rows : r.id \in everLogged'
    BY <2>2, <2>4, <2>6, <2>7, <2>8, <2>10
  <2>22. /\ log' \subseteq LogRow /\ IsFiniteSet(log')
         /\ \A r \in log' \ log : \A c \in minted : c < r.seq
         /\ \A r \in log' \ log : \A s \in log : s.seq < r.seq
    BY <2>3, <2>6, <2>11, <2>12, <2>20
  <2>23. Serve(q).answer = ans /\ ans \in Calls /\ epoch' = epoch
    BY <1>2, <2>1, <2>9 DEF Calls
  <2> HIDE DEF ans, rows, out
  <2> QED
    BY <1>1, <2>10, <2>16, <2>17, <2>18, <2>19, <2>21, <2>22, <2>23
<1> QED
  BY <1>3, <1>4

-----------------------------------------------------------------------------
(***************************************************************************)
(* One device, and the relay under it.                                     *)
(***************************************************************************)
(* A device is as well off with rows dropped, and with rows added above    *)
(* every cursor.                                                           *)
LEMMA RelayMoves ==
  ASSUME NEW J, NEW A, NEW c, NEW w, NEW k, NEW E,
         NEW L, NEW M \in SUBSET Nat, NEW N, DeviceOK(J, A, c, w, k, E, L, M, N),
         NEW L2 \in SUBSET LogRow, NEW M2, NEW N2, M \subseteq M2, N \subseteq N2,
         \A r \in L2 : r \in L \/ \A m \in M : m < r.seq
  PROVE  DeviceOK(J, A, c, w, k, E, L2, M2, N2)
<1>1. \A n \in M : \A I, R : Covered(L, n, I, R) => Covered(L2, n, I, R)
  <2> SUFFICES ASSUME NEW n \in M, NEW I, NEW R, Covered(L, n, I, R),
                      NEW r \in L2, r.seq <= n
               PROVE  r.id \in I \/ r \in R
    BY DEF Covered
  <2>1. r.seq \in Nat /\ n \in Nat
    BY DEF LogRow
  <2>2. r \in L
    BY <2>1
  <2> QED
    BY <2>2 DEF Covered
<1>2. c.seq \in M2 /\ Covered(L2, c.seq, J, {})
  BY <1>1 DEF DeviceOK
<1>3. WorkerOK(w, J, E, L2, M2, N2)
  BY <1>1 DEF DeviceOK, WorkerOK
<1>4. CallOK(k, J, L2, M2, N2)
  BY <1>1 DEF DeviceOK, CallOK
<1> QED
  BY <1>2, <1>3, <1>4 DEF DeviceOK

(* Nothing is owed to a journal that grows. *)
LEMMA JournalGrows ==
  ASSUME NEW J, NEW A, NEW c, NEW w, NEW k, NEW E, NEW L, NEW M, NEW N,
         DeviceOK(J, A, c, w, k, E, L, M, N), NEW I, J \subseteq I
  PROVE  DeviceOK(I, A, c, w, k, E, L, M, N)
BY DEF DeviceOK, WorkerOK, CallOK, Covered

(* Only device d changes. *)
OnlyDevice(d) ==
  /\ journal' \in [Devices -> FiniteEvents] /\ acked' \in [Devices -> SUBSET Events]
  /\ cursor' \in [Devices -> Cursor] /\ worker' \in [Devices -> Worker]
  /\ link' \in [Devices -> Calls] /\ emitted' \in [Devices -> SUBSET Events]
  /\ \A o \in Devices \ {d} :
       /\ journal'[o] = journal[o] /\ acked'[o] = acked[o] /\ cursor'[o] = cursor[o]
       /\ worker'[o] = worker[o] /\ link'[o] = link[o] /\ emitted'[o] = emitted[o]

(* A step of one device, which leaves the relay alone. *)
LEMMA DeviceStep ==
  ASSUME Inv, NEW d \in Devices, OnlyDevice(d), UNCHANGED relay,
         late' = late \/ (link[d].phase = "request" /\ late' = late \cup {link[d]}),
         DeviceOK(journal'[d], acked'[d], cursor'[d], worker'[d], link'[d], emitted'[d],
                  log, minted, everLogged)
  PROVE  Inv'
<1> USE DEF Inv
<1>1. UNCHANGED <<log, nextSeq, minted, epoch, everLogged>>
  BY DEF relay
<1>2. link[d] \in Calls /\ CallOK(link[d], journal[d], log, minted, everLogged)
  BY DEF TypeInv, DevicesInv, DeviceOK
<1>3. link[d].phase = "request" => link[d] \in Request /\ link[d].cursor.seq \in minted
  BY <1>2 DEF Calls, AnswerOf, Outcome, CallOK
<1>4. late' \subseteq Request /\ \A q \in late' : q.cursor.seq \in minted
  BY <1>3 DEF TypeInv, LogInv
<1>5. TypeInv'
  BY <1>1, <1>4 DEF TypeInv, OnlyDevice
<1>6. LogInv'
  BY <1>1, <1>4 DEF LogInv
<1>7. DevicesInv'
  BY <1>1 DEF DevicesInv, OnlyDevice
<1> QED
  BY <1>5, <1>6, <1>7

(* What Inv says of one device. *)
LEMMA OneDevice ==
  ASSUME Inv, NEW d \in Devices
  PROVE  /\ journal[d] \in FiniteEvents /\ acked[d] \in SUBSET Events
         /\ cursor[d] \in Cursor /\ worker[d] \in Worker /\ link[d] \in Calls
         /\ emitted[d] \in SUBSET Events
         /\ DeviceOK(journal[d], acked[d], cursor[d], worker[d], link[d], emitted[d],
                     log, minted, everLogged)
         /\ journal = [journal EXCEPT ![d] = journal[d]]
         /\ acked = [acked EXCEPT ![d] = acked[d]]
         /\ cursor = [cursor EXCEPT ![d] = cursor[d]]
         /\ worker = [worker EXCEPT ![d] = worker[d]]
         /\ link = [link EXCEPT ![d] = link[d]]
         /\ emitted = [emitted EXCEPT ![d] = emitted[d]]
BY DEF Inv, TypeInv, DevicesInv

(* The beginning of the log. *)
LEMMA FromTheStart ==
  ASSUME Inv
  PROVE  /\ NoCursor \in Cursor /\ NoCursor.seq \in minted
         /\ \A J, R : Covered(log, NoCursor.seq, J, R)
<1>1. \A r \in log : r.seq \in Nat \ {0}
  BY DEF Inv, TypeInv, LogRow
<1>2. NoCursor.seq = 0 /\ NoCursor \in Cursor
  BY DEF NoCursor, Cursor
<1>3. \A J, R : Covered(log, NoCursor.seq, J, R)
  BY <1>1, <1>2 DEF Covered
<1> QED
  BY <1>2, <1>3 DEF Inv, LogInv

(* The end of a synchronization, whatever came before it. *)
LEMMA OverOK ==
  ASSUME Inv, NEW w \in Worker, NEW J, NEW E
  PROVE  /\ Over(w) \in Worker
         /\ WorkerOK(Over(w), J, E, log, minted, everLogged)
<1> DEFINE o == Over(w)
<1>1. /\ o.step = "idle" /\ o.timer = w.running /\ o.running = w.running
      /\ o.known = {} /\ o.accepted = {} /\ o.received = {} /\ o.handing = {}
      /\ o.next = NoCursor
  BY DEF Over, Worker
<1>2. o \in Worker
  BY FromTheStart DEF Over, Worker, Steps
<1> HIDE DEF o
<1>3. WorkerOK(o, J, E, log, minted, everLogged)
  BY <1>1, <1>2, FromTheStart DEF WorkerOK, Worker
<1> QED
  BY <1>2, <1>3 DEF o

(* Narrowing down the upload keeps the worker a worker. *)
LEMMA IsolateOK ==
  ASSUME NEW w \in Worker
  PROVE  Isolate(w) \in Worker
<1> DEFINE q == IF Cardinality(w.upload) = 1
                THEN w.quarantined \cup w.upload ELSE w.quarantined
<1> DEFINE p == Cardinality(w.upload) > 1
<1>1. w.upload # {} =>
        Isolate(w) = [w EXCEPT !.downloadOnly = TRUE, !.quarantined = q, !.probing = p]
  BY DEF Isolate
<1>2. q \in SUBSET Events /\ p \in BOOLEAN
  BY DEF Worker
<1>3. w.upload = {} => Isolate(w) = w
  BY DEF Isolate
<1> HIDE DEF p, q
<1> QED
  BY <1>1, <1>2, <1>3 DEF Worker

(* Without a call under way nothing is promised about one. *)
LEMMA NoCallOK ==
  ASSUME NEW J, NEW L, NEW M, NEW N
  PROVE  /\ NoCall \in Calls /\ [phase |-> "refused"] \in Calls
         /\ CallOK(NoCall, J, L, M, N)
         /\ CallOK([phase |-> "refused"], J, L, M, N)
BY DEF NoCall, Calls, Outcome, CallOK

-----------------------------------------------------------------------------
(***************************************************************************)
(* One lemma per action.                                                   *)
(***************************************************************************)
LEMMA InvInit == Init => Inv
<1> SUFFICES ASSUME Init PROVE Inv
  OBVIOUS
<1> USE DEF Init
<1>1. Stopped \in Worker /\ NoCall \in Calls /\ NoCursor \in Cursor
  BY DEF Stopped, Worker, Steps, NoCall, Calls, Outcome, NoCursor, Cursor
<1>2. {} \in FiniteEvents /\ IsFiniteSet({})
  BY FS_EmptySet DEF FiniteEvents
<1>3. TypeInv
  BY <1>1, <1>2 DEF TypeInv
<1>4. LogInv
  BY DEF LogInv
<1>5. NoCursor.seq = 0
  BY DEF NoCursor
<1>6. \A J, E : WorkerOK(Stopped, {}, {}, {}, {0}, {})
  BY <1>5 DEF WorkerOK, Stopped, Covered
<1>7. CallOK(NoCall, {}, {}, {0}, {})
  BY DEF CallOK, NoCall
<1>8. DevicesInv
  BY <1>5, <1>6, <1>7 DEF DevicesInv, DeviceOK, Covered
<1> QED
  BY <1>3, <1>4, <1>8 DEF Inv

(* The journal takes an event the app or the nearby relay adds. *)
LEMMA InvRecord ==
  ASSUME Inv, NEW d \in Devices, NEW e \in Events,
         journal' = [journal EXCEPT ![d] = @ \cup {e}],
         UNCHANGED <<acked, cursor, worker, link, late, relay, emitted>>
  PROVE  Inv'
<1> DEFINE J == journal[d] \cup {e}
<1>1. J \in FiniteEvents
  BY OneDevice, FS_AddElement DEF FiniteEvents
<1>2. DeviceOK(J, acked[d], cursor[d], worker[d], link[d], emitted[d],
               log, minted, everLogged)
  BY OneDevice, JournalGrows
<1>3. journal' = [journal EXCEPT ![d] = J]
  OBVIOUS
<1> HIDE DEF J
<1>4. OnlyDevice(d) /\ journal'[d] = J
  BY <1>1, <1>3 DEF Inv, TypeInv, OnlyDevice
<1> QED
  BY <1>2, <1>4, DeviceStep

(* The worker's memory changes, and nothing else. *)
LEMMA WorkerStep ==
  ASSUME Inv, NEW d \in Devices, NEW w \in Worker,
         worker' = [worker EXCEPT ![d] = w],
         WorkerOK(w, journal[d], emitted[d], log, minted, everLogged),
         UNCHANGED <<durable, link, late, relay, emitted>>
  PROVE  Inv'
<1>1. DeviceOK(journal[d], acked[d], cursor[d], w, link[d], emitted[d],
               log, minted, everLogged)
  BY OneDevice DEF DeviceOK
<1>2. UNCHANGED <<journal, acked, cursor>>
  BY DEF durable
<1>3. OnlyDevice(d) /\ worker'[d] = w
  BY <1>2 DEF Inv, TypeInv, OnlyDevice
<1> QED
  BY <1>1, <1>2, <1>3, DeviceStep

(* A call is over, and so is what the worker had under way. *)
LEMMA CallEnds ==
  ASSUME Inv, NEW d \in Devices, NEW c \in {cursor[d], NoCursor}, NEW w \in Worker,
         worker' = [worker EXCEPT ![d] = w],
         WorkerOK(w, journal[d], emitted[d], log, minted, everLogged),
         link' = [link EXCEPT ![d] = NoCall],
         cursor' = [cursor EXCEPT ![d] = c],
         late' = late \/ (link[d].phase = "request" /\ late' = late \cup {link[d]}),
         UNCHANGED <<journal, acked, relay, emitted>>
  PROVE  Inv'
<1>1. c \in Cursor /\ c.seq \in minted /\ Covered(log, c.seq, journal[d], {})
  BY OneDevice, FromTheStart DEF DeviceOK
<1>2. CallOK(NoCall, journal[d], log, minted, everLogged) /\ NoCall \in Calls
  BY NoCallOK
<1>3. DeviceOK(journal[d], acked[d], c, w, NoCall, emitted[d], log, minted, everLogged)
  BY <1>1, <1>2, OneDevice DEF DeviceOK
<1>4. OnlyDevice(d) /\ worker'[d] = w /\ link'[d] = NoCall /\ cursor'[d] = c
  BY <1>1, <1>2 DEF Inv, TypeInv, OnlyDevice
<1> QED
  BY <1>3, <1>4, DeviceStep

LEMMA InvBegin ==
  ASSUME Inv, NEW d \in Devices, Begin(d)
  PROVE  Inv'
<1> USE DEF Begin
<1> DEFINE w == [worker[d] EXCEPT !.step = "waiting", !.current = TRUE, !.timer = FALSE,
                   !.downloadOnly = FALSE, !.upload = Upload(d), !.known = journal[d]]
<1> DEFINE k == [phase |-> "request", cursor |-> cursor[d], upload |-> Upload(d)]
<1>1. worker' = [worker EXCEPT ![d] = w] /\ link' = [link EXCEPT ![d] = k]
  OBVIOUS
<1>2. /\ worker[d] \in Worker /\ journal[d] \in FiniteEvents /\ cursor[d] \in Cursor
      /\ DeviceOK(journal[d], acked[d], cursor[d], worker[d], link[d], emitted[d],
                  log, minted, everLogged)
  BY OneDevice
<1>3. Upload(d) \in FiniteEvents
  <2>1. Upload(d) \subseteq journal[d]
    BY DEF Upload, Oldest, Offerable
  <2> QED
    BY <1>2, <2>1, FS_Subset DEF FiniteEvents
<1>4. w \in Worker
  BY <1>2, <1>3 DEF Worker, Steps, FiniteEvents
<1>5. k \in Calls
  BY <1>2, <1>3 DEF Calls, Request
<1>6. CallOK(k, journal[d], log, minted, everLogged)
  BY <1>2 DEF CallOK, DeviceOK
<1>7. /\ w.next = worker[d].next /\ w.received = worker[d].received
      /\ w.accepted = worker[d].accepted /\ w.known = journal[d]
      /\ w.handing = worker[d].handing /\ w.step = "waiting"
  BY <1>2 DEF Worker
<1> HIDE DEF w, k
<1>8. WorkerOK(w, journal[d], emitted[d], log, minted, everLogged)
  BY <1>2, <1>7 DEF DeviceOK, WorkerOK
<1>9. DeviceOK(journal[d], acked[d], cursor[d], w, k, emitted[d], log, minted, everLogged)
  BY <1>2, <1>6, <1>8 DEF DeviceOK
<1>10. UNCHANGED <<journal, acked, cursor, emitted, late, relay>>
  BY DEF durable
<1>11. OnlyDevice(d) /\ worker'[d] = w /\ link'[d] = k
  BY <1>1, <1>4, <1>5, <1>10 DEF Inv, TypeInv, OnlyDevice
<1> HIDE DEF Begin
<1> QED
  BY <1>9, <1>10, <1>11, DeviceStep

LEMMA InvAbandon ==
  ASSUME Inv, NEW d \in Devices, Abandon(d)
  PROVE  Inv'
<1>1. Over(worker[d]) \in Worker
      /\ WorkerOK(Over(worker[d]), journal[d], emitted[d], log, minted, everLogged)
  BY OneDevice, OverOK
<1>2. /\ worker' = [worker EXCEPT ![d] = Over(worker[d])]
      /\ UNCHANGED <<durable, link, late, relay, emitted>>
  BY DEF Abandon
<1> QED
  BY <1>1, <1>2, WorkerStep

LEMMA InvFail ==
  ASSUME Inv, NEW d \in Devices, Fail(d)
  PROVE  Inv'
<1> DEFINE w == Over(worker[d])
<1>1. w \in Worker /\ WorkerOK(w, journal[d], emitted[d], log, minted, everLogged)
  BY OneDevice, OverOK
<1>2. /\ worker' = [worker EXCEPT ![d] = w] /\ link' = [link EXCEPT ![d] = NoCall]
      /\ late' = late \/ (link[d].phase = "request" /\ late' = late \cup {link[d]})
      /\ UNCHANGED <<journal, acked, relay, emitted>> /\ cursor' = cursor
  BY DEF Fail, durable
<1>3. cursor' = [cursor EXCEPT ![d] = cursor[d]]
  BY <1>2, OneDevice
<1> HIDE DEF w
<1> QED
  BY <1>1, <1>2, <1>3, CallEnds

LEMMA InvRefused ==
  ASSUME Inv, NEW d \in Devices, Refused(d)
  PROVE  Inv'
<1> DEFINE v == IF worker[d].current THEN Isolate(worker[d]) ELSE worker[d]
<1> DEFINE w == Over(v)
<1>1. v \in Worker
  BY OneDevice, IsolateOK
<1>2. w \in Worker /\ WorkerOK(w, journal[d], emitted[d], log, minted, everLogged)
  BY <1>1, OverOK
<1>3. /\ worker' = [worker EXCEPT ![d] = w] /\ link' = [link EXCEPT ![d] = NoCall]
      /\ late' = late
      /\ UNCHANGED <<journal, acked, relay, emitted>> /\ cursor' = cursor
  BY DEF Refused, durable
<1>4. cursor' = [cursor EXCEPT ![d] = cursor[d]]
  BY <1>3, OneDevice
<1> HIDE DEF w, v
<1> QED
  BY <1>2, <1>3, <1>4, CallEnds

LEMMA InvCursorRefused ==
  ASSUME Inv, NEW d \in Devices, CursorRefused(d)
  PROVE  Inv'
<1> DEFINE w == Over(worker[d])
<1>1. w \in Worker /\ WorkerOK(w, journal[d], emitted[d], log, minted, everLogged)
  BY OneDevice, OverOK
<1>2. /\ worker' = [worker EXCEPT ![d] = w] /\ link' = [link EXCEPT ![d] = NoCall]
      /\ late' = late /\ UNCHANGED <<journal, acked, relay, emitted>>
  BY DEF CursorRefused
<1>3. PICK c \in {cursor[d], NoCursor} : cursor' = [cursor EXCEPT ![d] = c]
  BY OneDevice DEF CursorRefused
<1> HIDE DEF w
<1> QED
  BY <1>1, <1>2, <1>3, CallEnds

LEMMA InvAnswered ==
  ASSUME Inv, NEW d \in Devices, Answered(d)
  PROVE  Inv'
<1> DEFINE v == [worker[d] EXCEPT !.step = "accepting", !.accepted = link[d].accepted,
                   !.received = link[d].rows, !.next = link[d].next]
<1> DEFINE w == IF worker[d].current THEN v ELSE Over(worker[d])
<1>1. /\ worker[d] \in Worker /\ worker[d].step = "waiting"
      /\ WorkerOK(worker[d], journal[d], emitted[d], log, minted, everLogged)
      /\ CallOK(link[d], journal[d], log, minted, everLogged)
  BY OneDevice DEF DeviceOK, Answered
<1>2. link[d] \in AnswerOf /\ link[d].phase = "answer"
  BY OneDevice DEF Answered, Calls, Request, Outcome
<1>3. v \in Worker
  BY <1>1, <1>2 DEF Worker, Steps, AnswerOf
<1>4. /\ v.next = link[d].next /\ v.received = link[d].rows /\ v.accepted = link[d].accepted
      /\ v.known = worker[d].known /\ v.handing = worker[d].handing /\ v.step = "accepting"
  BY <1>1 DEF Worker
<1> HIDE DEF v
<1>5. WorkerOK(v, journal[d], emitted[d], log, minted, everLogged)
  BY <1>1, <1>2, <1>4 DEF WorkerOK, CallOK
<1>6. w \in Worker /\ WorkerOK(w, journal[d], emitted[d], log, minted, everLogged)
  BY <1>1, <1>3, <1>5, OverOK
<1>7. /\ worker' = [worker EXCEPT ![d] = w] /\ link' = [link EXCEPT ![d] = NoCall]
      /\ late' = late
      /\ UNCHANGED <<journal, acked, relay, emitted>> /\ cursor' = cursor
  BY DEF Answered, durable, v
<1>8. cursor' = [cursor EXCEPT ![d] = cursor[d]]
  BY <1>7, OneDevice
<1> HIDE DEF w
<1> QED
  BY <1>6, <1>7, <1>8, CallEnds

LEMMA InvAcknowledge ==
  ASSUME Inv, NEW d \in Devices, NEW e \in Events, Acknowledge(d, e)
  PROVE  Inv'
<1> DEFINE w == [worker[d] EXCEPT !.accepted = @ \ {e}]
<1> DEFINE A == acked[d] \cup {e}
<1>1. /\ worker[d] \in Worker /\ worker[d].step = "accepting" /\ e \in worker[d].accepted
      /\ DeviceOK(journal[d], acked[d], cursor[d], worker[d], link[d], emitted[d],
                  log, minted, everLogged)
  BY OneDevice DEF Acknowledge
<1>2. w \in Worker
  BY <1>1 DEF Worker
<1>3. /\ w.next = worker[d].next /\ w.received = worker[d].received
      /\ w.accepted \subseteq worker[d].accepted /\ w.known = worker[d].known
      /\ w.handing = worker[d].handing /\ w.step = "accepting"
  BY <1>1 DEF Worker
<1>4. /\ worker' = [worker EXCEPT ![d] = w] /\ acked' = [acked EXCEPT ![d] = A]
      /\ UNCHANGED <<journal, cursor, link, late, relay, emitted>>
  BY DEF Acknowledge
<1>5. A \in SUBSET Events /\ A \subseteq everLogged
  BY <1>1, OneDevice DEF DeviceOK, WorkerOK
<1> HIDE DEF w, A
<1>6. WorkerOK(w, journal[d], emitted[d], log, minted, everLogged)
  BY <1>1, <1>3 DEF DeviceOK, WorkerOK
<1>7. DeviceOK(journal[d], A, cursor[d], w, link[d], emitted[d], log, minted, everLogged)
  BY <1>1, <1>5, <1>6 DEF DeviceOK
<1>8. OnlyDevice(d) /\ worker'[d] = w /\ acked'[d] = A
  BY <1>2, <1>4, <1>5 DEF Inv, TypeInv, OnlyDevice
<1> QED
  BY <1>4, <1>7, <1>8, DeviceStep

LEMMA InvAllAcknowledged ==
  ASSUME Inv, NEW d \in Devices, AllAcknowledged(d)
  PROVE  Inv'
<1> DEFINE w == [worker[d] EXCEPT !.step = "receiving"]
<1>1. /\ worker[d] \in Worker /\ worker[d].step = "accepting"
      /\ WorkerOK(worker[d], journal[d], emitted[d], log, minted, everLogged)
  BY OneDevice DEF AllAcknowledged, DeviceOK
<1>2. w \in Worker
  BY <1>1 DEF Worker, Steps
<1>3. /\ w.next = worker[d].next /\ w.received = worker[d].received
      /\ w.accepted = worker[d].accepted /\ w.known = worker[d].known
      /\ w.handing = worker[d].handing /\ w.step = "receiving"
  BY <1>1 DEF Worker
<1>4. worker' = [worker EXCEPT ![d] = w] /\ UNCHANGED <<durable, link, late, relay, emitted>>
  BY DEF AllAcknowledged
<1> HIDE DEF w
<1>5. WorkerOK(w, journal[d], emitted[d], log, minted, everLogged)
  BY <1>1, <1>3 DEF WorkerOK
<1> QED
  BY <1>2, <1>4, <1>5, WorkerStep

(* The row in hand is one of those received. *)
LEMMA NextIsReceived ==
  ASSUME NEW d \in Devices, worker[d] \in Worker, worker[d].received # {}
  PROVE  NextReceived(d) \in worker[d].received
<1> DEFINE R == worker[d].received
<1> DEFINE seqs == {r.seq : r \in R}
<1>1. R \subseteq LogRow /\ \A r \in R : r.seq \in Nat
  BY DEF Worker, LogRow
<1>2. \E r \in R : \A s \in R : r.seq <= s.seq
  <2>1. seqs # {} /\ seqs \subseteq Nat
    BY <1>1
  <2>2. PICK n \in seqs : \A m \in seqs : n <= m
    BY <2>1, MinExists
  <2> QED
    BY <2>2
<1> QED
  BY <1>2 DEF NextReceived

LEMMA InvAppend ==
  ASSUME Inv, NEW d \in Devices, Append(d)
  PROVE  Inv'
<1> DEFINE r == NextReceived(d)
<1> DEFINE new == NewHere(d, r)
<1> DEFINE J == IF new THEN Appended(d, r) ELSE journal[d]
<1> DEFINE A == IF new /\ r.id \notin journal[d] THEN acked[d] \cup {r.id} ELSE acked[d]
<1> DEFINE h == IF new THEN {r.id} ELSE {}
<1> DEFINE w == [worker[d] EXCEPT !.received = @ \ {r}, !.known = @ \cup {r.id},
                   !.handing = h]
<1>1. /\ worker[d] \in Worker /\ worker[d].step = "receiving" /\ worker[d].handing = {}
      /\ DeviceOK(journal[d], acked[d], cursor[d], worker[d], link[d], emitted[d],
                  log, minted, everLogged)
      /\ journal[d] \in FiniteEvents /\ acked[d] \in SUBSET Events
  BY OneDevice DEF Append
<1>2. r \in worker[d].received
  BY <1>1, NextIsReceived DEF Append
<1>3. r \in LogRow /\ r.id \in Events /\ r.id \in everLogged
  BY <1>1, <1>2 DEF Worker, LogRow, DeviceOK, WorkerOK
<1>4. /\ journal' = [journal EXCEPT ![d] = J] /\ acked' = [acked EXCEPT ![d] = A]
      /\ worker' = [worker EXCEPT ![d] = w]
      /\ UNCHANGED <<cursor, link, late, relay, emitted>>
  BY DEF Append
<1>5. new <=> r.id \notin worker[d].known
  BY DEF NewHere
<1> HIDE DEF r, new
<1>6. /\ J \in FiniteEvents /\ journal[d] \subseteq J /\ (new => r.id \in J)
  BY <1>1, <1>3, FS_AddElement DEF FiniteEvents, Appended
<1>7. A \in SUBSET Events /\ A \subseteq everLogged
  BY <1>1, <1>3 DEF DeviceOK
<1>8. h \in SUBSET Events /\ (new => h = {r.id}) /\ (~new => h = {})
  BY <1>3
<1> HIDE DEF J, A, h
<1>9. w \in Worker
  BY <1>1, <1>3, <1>8 DEF Worker
<1>10. /\ w.next = worker[d].next /\ w.received = worker[d].received \ {r}
       /\ w.accepted = worker[d].accepted /\ w.known = worker[d].known \cup {r.id}
       /\ w.handing = h /\ w.step = "receiving"
  BY <1>1 DEF Worker
<1> HIDE DEF w
<1>11. r.id \in J
  BY <1>1, <1>5, <1>6 DEF DeviceOK, WorkerOK
<1>12. WorkerOK(w, J, emitted[d], log, minted, everLogged)
  <2>1. Covered(log, w.next.seq, J, w.received)
    BY <1>1, <1>6, <1>10, <1>11 DEF DeviceOK, WorkerOK, Covered
  <2>2. w.known \subseteq J /\ w.handing \subseteq w.known /\ emitted[d] \subseteq w.known
    BY <1>1, <1>6, <1>8, <1>10, <1>11 DEF DeviceOK, WorkerOK
  <2>3. w.handing \cap emitted[d] = {}
    BY <1>1, <1>5, <1>8, <1>10 DEF DeviceOK, WorkerOK
  <2> QED
    BY <1>1, <1>10, <2>1, <2>2, <2>3 DEF DeviceOK, WorkerOK
<1>13. DeviceOK(J, A, cursor[d], w, link[d], emitted[d], log, minted, everLogged)
  BY <1>1, <1>6, <1>7, <1>12 DEF DeviceOK, CallOK, Covered
<1>14. OnlyDevice(d) /\ worker'[d] = w /\ acked'[d] = A /\ journal'[d] = J
  BY <1>4, <1>6, <1>7, <1>9 DEF Inv, TypeInv, OnlyDevice
<1> QED
  BY <1>4, <1>13, <1>14, DeviceStep

LEMMA InvHandOver ==
  ASSUME Inv, NEW d \in Devices, HandOver(d)
  PROVE  Inv'
<1> DEFINE w == [worker[d] EXCEPT !.handing = {}]
<1> DEFINE E == emitted[d] \cup worker[d].handing
<1>1. /\ worker[d] \in Worker /\ worker[d].step = "receiving"
      /\ DeviceOK(journal[d], acked[d], cursor[d], worker[d], link[d], emitted[d],
                  log, minted, everLogged)
      /\ emitted[d] \in SUBSET Events
  BY OneDevice DEF HandOver
<1>2. w \in Worker /\ E \in SUBSET Events
  BY <1>1 DEF Worker
<1>3. /\ w.next = worker[d].next /\ w.received = worker[d].received
      /\ w.accepted = worker[d].accepted /\ w.known = worker[d].known
      /\ w.handing = {} /\ w.step = "receiving"
  BY <1>1 DEF Worker
<1>4. /\ worker' = [worker EXCEPT ![d] = w] /\ emitted' = [emitted EXCEPT ![d] = E]
      /\ UNCHANGED <<journal, acked, cursor, link, late, relay>>
  BY DEF HandOver, durable
<1>5. E \subseteq worker[d].known /\ E \subseteq journal[d]
  BY <1>1 DEF DeviceOK, WorkerOK
<1> HIDE DEF w, E
<1>6. WorkerOK(w, journal[d], E, log, minted, everLogged)
  BY <1>1, <1>3, <1>5 DEF DeviceOK, WorkerOK
<1>7. DeviceOK(journal[d], acked[d], cursor[d], w, link[d], E, log, minted, everLogged)
  BY <1>1, <1>5, <1>6 DEF DeviceOK
<1>8. OnlyDevice(d) /\ worker'[d] = w /\ emitted'[d] = E
  BY <1>2, <1>4 DEF Inv, TypeInv, OnlyDevice
<1> QED
  BY <1>4, <1>7, <1>8, DeviceStep

LEMMA InvSaveCursor ==
  ASSUME Inv, NEW d \in Devices, SaveCursor(d)
  PROVE  Inv'
<1> DEFINE v == [worker[d] EXCEPT !.probing = ProbesOn(worker[d])]
<1> DEFINE w == Over(v)
<1> DEFINE c == worker[d].next
<1>1. /\ worker[d] \in Worker /\ worker[d].received = {}
      /\ DeviceOK(journal[d], acked[d], cursor[d], worker[d], link[d], emitted[d],
                  log, minted, everLogged)
  BY OneDevice DEF SaveCursor, AllReceived
<1>2. v \in Worker
  BY <1>1 DEF Worker, ProbesOn
<1>3. w \in Worker /\ WorkerOK(w, journal[d], emitted[d], log, minted, everLogged)
  BY <1>2, OverOK
<1>4. /\ worker' = [worker EXCEPT ![d] = w] /\ cursor' = [cursor EXCEPT ![d] = c]
      /\ UNCHANGED <<journal, acked, link, late, relay, emitted>>
  BY DEF SaveCursor
<1>5. c \in Cursor /\ c.seq \in minted /\ Covered(log, c.seq, journal[d], {})
  BY <1>1 DEF DeviceOK, WorkerOK, Worker
<1> HIDE DEF w, v, c
<1>6. DeviceOK(journal[d], acked[d], c, w, link[d], emitted[d], log, minted, everLogged)
  BY <1>1, <1>3, <1>5 DEF DeviceOK
<1>7. OnlyDevice(d) /\ worker'[d] = w /\ cursor'[d] = c
  BY <1>3, <1>4, <1>5 DEF Inv, TypeInv, OnlyDevice
<1> QED
  BY <1>4, <1>6, <1>7, DeviceStep

LEMMA InvStart ==
  ASSUME Inv, NEW d \in Devices, Start(d)
  PROVE  Inv'
<1> DEFINE w == [worker[d] EXCEPT !.running = TRUE, !.current = FALSE,
                   !.timer = (worker[d].step = "idle"),
                   !.probing = FALSE, !.downloadOnly = FALSE, !.quarantined = {}]
<1>1. /\ worker[d] \in Worker
      /\ WorkerOK(worker[d], journal[d], emitted[d], log, minted, everLogged)
  BY OneDevice DEF DeviceOK
<1>2. w \in Worker
  BY <1>1 DEF Worker
<1>3. /\ w.next = worker[d].next /\ w.received = worker[d].received
      /\ w.accepted = worker[d].accepted /\ w.known = worker[d].known
      /\ w.handing = worker[d].handing /\ w.step = worker[d].step
      /\ (w.timer \/ w.step # "idle")
  BY <1>1 DEF Worker
<1>4. worker' = [worker EXCEPT ![d] = w] /\ UNCHANGED <<durable, link, late, relay, emitted>>
  BY DEF Start
<1> HIDE DEF w
<1>5. WorkerOK(w, journal[d], emitted[d], log, minted, everLogged)
  BY <1>1, <1>3 DEF WorkerOK
<1> QED
  BY <1>2, <1>4, <1>5, WorkerStep

LEMMA InvStop ==
  ASSUME Inv, NEW d \in Devices, Stop(d)
  PROVE  Inv'
<1> DEFINE w == [worker[d] EXCEPT !.running = FALSE, !.current = FALSE, !.timer = FALSE]
<1>1. /\ worker[d] \in Worker
      /\ WorkerOK(worker[d], journal[d], emitted[d], log, minted, everLogged)
  BY OneDevice DEF DeviceOK
<1>2. w \in Worker
  BY <1>1 DEF Worker
<1>3. /\ w.next = worker[d].next /\ w.received = worker[d].received
      /\ w.accepted = worker[d].accepted /\ w.known = worker[d].known
      /\ w.handing = worker[d].handing /\ w.step = worker[d].step
      /\ ~w.running
  BY <1>1 DEF Worker
<1>4. worker' = [worker EXCEPT ![d] = w] /\ UNCHANGED <<durable, link, late, relay, emitted>>
  BY DEF Stop
<1> HIDE DEF w
<1>5. WorkerOK(w, journal[d], emitted[d], log, minted, everLogged)
  BY <1>1, <1>3 DEF WorkerOK
<1> QED
  BY <1>2, <1>4, <1>5, WorkerStep

LEMMA InvKill ==
  ASSUME Inv, NEW d \in Devices, Kill(d)
  PROVE  Inv'
<1>1. Stopped \in Worker
  BY FromTheStart DEF Stopped, Worker, Steps
<1>2. /\ Stopped.next = NoCursor /\ Stopped.received = {} /\ Stopped.accepted = {}
      /\ Stopped.known = {} /\ Stopped.handing = {} /\ Stopped.step = "idle"
      /\ Stopped.running = FALSE
  BY DEF Stopped
<1>3. WorkerOK(Stopped, journal[d], emitted[d], log, minted, everLogged)
  BY <1>2, FromTheStart DEF WorkerOK
<1>4. /\ worker' = [worker EXCEPT ![d] = Stopped] /\ link' = [link EXCEPT ![d] = NoCall]
      /\ late' = late \/ (link[d].phase = "request" /\ late' = late \cup {link[d]})
      /\ UNCHANGED <<journal, acked, relay, emitted>> /\ cursor' = cursor
  BY DEF Kill, durable
<1>5. cursor' = [cursor EXCEPT ![d] = cursor[d]]
  BY <1>4, OneDevice
<1> QED
  BY <1>1, <1>3, <1>4, <1>5, CallEnds

(* A call the relay serves, awaited or not: what the devices hold survives *)
(* it, and an answer to a device covers all up to the cursor it carries.   *)
LEMMA ServedKeeps ==
  ASSUME Inv, NEW q \in Request, q.cursor.seq \in minted, Written(Serve(q)),
         late' \subseteq late, UNCHANGED <<durable, worker, emitted>>,
         link' \in [Devices -> Calls],
         \A d \in Devices :
           link'[d] = link[d] \/ (link[d] = q /\ link'[d] = Serve(q).answer)
  PROVE  Inv'
<1>1. /\ log \in SUBSET LogRow /\ minted \in SUBSET Nat
  BY DEF Inv, TypeInv
<1>2. /\ log' \in SUBSET LogRow /\ IsFiniteSet(log')
      /\ nextSeq' \in Nat \ {0} /\ minted' \subseteq Nat
      /\ epoch' \in Nat \ {0} /\ everLogged' \subseteq Events
      /\ LogInv'
      /\ minted \subseteq minted' /\ everLogged \subseteq everLogged'
      /\ \A r \in log' : r \in log \/ \A m \in minted : m < r.seq
  BY WrittenRelay
<1>3. TypeInv'
  BY <1>2 DEF Inv, TypeInv, durable
<1>4. ASSUME NEW d \in Devices
      PROVE  DeviceOK(journal[d], acked[d], cursor[d], worker[d], link[d], emitted[d],
                      log', minted', everLogged')
  <2>1. DeviceOK(journal[d], acked[d], cursor[d], worker[d], link[d], emitted[d],
                 log, minted, everLogged)
    BY OneDevice
  <2> QED
    BY <1>1, <1>2, <2>1, RelayMoves
<1>5. ASSUME NEW d \in Devices, link[d] = q
      PROVE  CallOK(Serve(q).answer, journal[d], log', minted', everLogged')
  <2> DEFINE a == Serve(q).answer
  <2>1. Covered(log', q.cursor.seq, journal[d], {})
    BY <1>4, <1>5 DEF DeviceOK, CallOK, Request
  <2>2. /\ a.phase # "request"
        /\ a.phase = "answer" =>
             /\ a.next.seq \in minted'
             /\ \A r \in log' : r.seq <= a.next.seq => r.seq <= q.cursor.seq \/ r \in a.rows
             /\ a.accepted \subseteq everLogged'
             /\ \A r \in a.rows : r.id \in everLogged'
    BY WrittenRelay
  <2> HIDE DEF a
  <2>3. a.phase = "answer" => Covered(log', a.next.seq, journal[d], a.rows)
    BY <2>1, <2>2 DEF Covered
  <2>4. CallOK(a, journal[d], log', minted', everLogged')
    BY <2>2, <2>3 DEF CallOK
  <2> QED
    BY <2>4 DEF a
<1>6. DevicesInv'
  <2> SUFFICES ASSUME NEW d \in Devices
               PROVE  DeviceOK(journal[d], acked[d], cursor[d], worker[d], link'[d],
                               emitted[d], log', minted', everLogged')
    BY DEF DevicesInv, durable
  <2>1. CASE link'[d] = link[d]
    BY <1>4, <2>1
  <2>2. CASE link[d] = q /\ link'[d] = Serve(q).answer
    BY <1>4, <1>5, <2>2 DEF DeviceOK
  <2> QED
    BY <2>1, <2>2
<1> QED
  BY <1>2, <1>3, <1>6 DEF Inv

LEMMA InvRelayServes ==
  ASSUME Inv, NEW d \in Devices, RelayServes(d)
  PROVE  Inv'
<1> DEFINE q == link[d]
<1>1. q \in Request /\ q.cursor.seq \in minted
  BY OneDevice DEF RelayServes, Calls, AnswerOf, Outcome, DeviceOK, CallOK
<1>2. /\ Written(Serve(q)) /\ link' = [link EXCEPT ![d] = Serve(q).answer]
      /\ UNCHANGED <<durable, worker, emitted>> /\ late' \subseteq late
  BY DEF RelayServes
<1>3. Serve(q).answer \in Calls
  BY <1>1, <1>2, WrittenRelay
<1>4. link \in [Devices -> Calls]
  BY DEF Inv, TypeInv
<1>5. /\ link' \in [Devices -> Calls]
      /\ \A o \in Devices :
           link'[o] = link[o] \/ (link[o] = q /\ link'[o] = Serve(q).answer)
  BY <1>2, <1>3, <1>4
<1> HIDE DEF q
<1> QED
  BY <1>1, <1>2, <1>5, ServedKeeps

(* Rows are dropped, or the key changes: every device is as it was. *)
LEMMA RelayLoses ==
  ASSUME Inv, log' \subseteq log, epoch' \in Nat \ {0}, late' \subseteq late,
         UNCHANGED <<durable, worker, link, nextSeq, minted, everLogged, emitted>>
  PROVE  Inv'
<1>1. log' \in SUBSET LogRow /\ IsFiniteSet(log') /\ minted \in SUBSET Nat
  BY FS_Subset DEF Inv, TypeInv
<1>2. TypeInv'
  BY <1>1 DEF Inv, TypeInv, durable
<1>3. LogInv'
  BY DEF Inv, LogInv
<1>4. ASSUME NEW d \in Devices
      PROVE  DeviceOK(journal[d], acked[d], cursor[d], worker[d], link[d], emitted[d],
                      log', minted, everLogged)
  <2>1. DeviceOK(journal[d], acked[d], cursor[d], worker[d], link[d], emitted[d],
                 log, minted, everLogged)
    BY OneDevice
  <2>2. \A r \in log' : r \in log \/ \A m \in minted : m < r.seq
    OBVIOUS
  <2> QED
    BY <1>1, <2>1, <2>2, RelayMoves
<1>5. DevicesInv'
  BY <1>4 DEF DevicesInv, durable
<1> QED
  BY <1>2, <1>3, <1>5 DEF Inv

LEMMA InvRelayServesLate ==
  ASSUME Inv, NEW req \in late, RelayServesLate(req)
  PROVE  Inv'
<1>1. req \in Request /\ req.cursor.seq \in minted
  BY DEF Inv, TypeInv, LogInv
<1>2. late' \subseteq late /\ UNCHANGED <<durable, worker, link, emitted>>
  BY DEF RelayServesLate
<1>3. link' \in [Devices -> Calls]
  BY <1>2 DEF Inv, TypeInv
<1>4. CASE Written(Serve(req))
  BY <1>1, <1>2, <1>3, <1>4, ServedKeeps
<1>5. CASE UNCHANGED relay
  <2>1. UNCHANGED <<log, nextSeq, minted, epoch, everLogged>>
    BY <1>5 DEF relay
  <2>2. epoch' \in Nat \ {0}
    BY <2>1 DEF Inv, TypeInv
  <2> QED
    BY <1>2, <2>1, <2>2, RelayLoses
<1> QED
  BY <1>4, <1>5 DEF RelayServesLate

(* A call ends in a refusal. *)
LEMMA InvRefusal ==
  ASSUME Inv, NEW d \in Devices, RelayFull(d) \/ Unreadable(d)
  PROVE  Inv'
<1> DEFINE k == [phase |-> "refused"]
<1>1. /\ link' = [link EXCEPT ![d] = k]
      /\ UNCHANGED <<durable, worker, late, relay, emitted>>
  BY DEF RelayFull, Unreadable
<1>2. k \in Calls /\ CallOK(k, journal[d], log, minted, everLogged)
  BY NoCallOK
<1> HIDE DEF k
<1>3. DeviceOK(journal[d], acked[d], cursor[d], worker[d], k, emitted[d],
               log, minted, everLogged)
  BY <1>2, OneDevice DEF DeviceOK
<1>4. OnlyDevice(d) /\ link'[d] = k /\ UNCHANGED <<journal, acked, cursor>>
  BY <1>1, <1>2 DEF Inv, TypeInv, OnlyDevice, durable
<1> QED
  BY <1>1, <1>3, <1>4, DeviceStep

LEMMA InvNext ==
  ASSUME Inv, [Next]_vars
  PROVE  Inv'
<1>1. CASE UNCHANGED vars
  BY <1>1 DEF Inv, TypeInv, LogInv, DevicesInv, vars, durable, relay
<1>2. ASSUME NEW d \in Devices, NEW e \in Events,
             Record(d, e) \/ \E o \in Devices : ReceiveNearby(d, o, e)
      PROVE  Inv'
  BY <1>2, InvRecord DEF Record, ReceiveNearby
<1>3. ASSUME NEW d \in Devices, Proceed(d)
      PROVE  Inv'
  BY <1>3, InvAbandon, InvRefused, InvCursorRefused, InvAnswered, InvAcknowledge,
     InvAllAcknowledged, InvAppend, InvHandOver, InvSaveCursor DEF Proceed
<1>4. ASSUME NEW d \in Devices,
             \/ Begin(d) \/ Fail(d) \/ Start(d) \/ Stop(d) \/ Kill(d)
             \/ RelayServes(d) \/ RelayFull(d) \/ Unreadable(d)
      PROVE  Inv'
  BY <1>4, InvBegin, InvFail, InvStart, InvStop, InvKill, InvRelayServes, InvRefusal
<1>5. ASSUME NEW r \in log, RelayForgets(r)
      PROVE  Inv'
  <2>1. /\ log' \subseteq log /\ late' \subseteq late /\ epoch' = epoch
        /\ UNCHANGED <<durable, worker, link, nextSeq, minted, everLogged, emitted>>
    BY <1>5 DEF RelayForgets
  <2>2. epoch' \in Nat \ {0}
    BY <2>1 DEF Inv, TypeInv
  <2> QED
    BY <2>1, <2>2, RelayLoses
<1>6. ASSUME RelayRekeys
      PROVE  Inv'
  <2>1. /\ log' \subseteq log /\ late' \subseteq late /\ epoch' = epoch + 1
        /\ UNCHANGED <<durable, worker, link, nextSeq, minted, everLogged, emitted>>
    BY <1>6 DEF RelayRekeys
  <2>2. epoch' \in Nat \ {0}
    BY <2>1 DEF Inv, TypeInv
  <2> QED
    BY <2>1, <2>2, RelayLoses
<1> QED
  BY <1>1, <1>2, <1>3, <1>4, <1>5, <1>6, InvRelayServesLate DEF Next

-----------------------------------------------------------------------------
(***************************************************************************)
(* Isolation.  While the ride's quota holds and answers can be read, only  *)
(* the relay's validation refuses a call, and it refuses the batch the     *)
(* worker still remembers: start and stop leave that memory alone, and a   *)
(* worker that is killed forgets the call with it.                         *)
(***************************************************************************)
OnlyValidationRefuses == {"full", "garble"} \cap Disturbances = {}

AtFault(w, k) ==
  /\ w.quarantined \subseteq Poison
  /\ k.phase \in {"request", "refused"} => w.step = "waiting"
  /\ k.phase = "request" => k.upload = w.upload
  /\ k.phase = "refused" => IsFiniteSet(w.upload) /\ w.upload \cap Poison # {}

IsolationInv == \A d \in Devices : AtFault(worker[d], link[d])

(* Ending a synchronization leaves the worker's quarantine as it is.       *)
LEMMA OverForgets ==
  ASSUME NEW w \in Worker
  PROVE  /\ Over(w).quarantined = w.quarantined
         /\ Isolate(w).quarantined =
              IF w.upload # {} /\ Cardinality(w.upload) = 1
              THEN w.quarantined \cup w.upload ELSE w.quarantined
         /\ Isolate(w) \in Worker
<1>1. Over(w).quarantined = w.quarantined
  BY DEF Over, Worker
<1>2. CASE w.upload = {}
  BY <1>1, <1>2 DEF Isolate
<1>3. CASE w.upload # {}
  <2>1. Isolate(w).quarantined =
          IF Cardinality(w.upload) = 1 THEN w.quarantined \cup w.upload ELSE w.quarantined
    BY <1>3 DEF Isolate, Worker
  <2> QED
    BY <1>1, <1>3, <2>1, IsolateOK
<1> QED
  BY <1>2, <1>3

(* Of a refused batch only an event that stands alone is quarantined.      *)
LEMMA IsolatesOffender ==
  ASSUME NEW w \in Worker, w.quarantined \subseteq Poison,
         IsFiniteSet(w.upload), w.upload \cap Poison # {}
  PROVE  Isolate(w).quarantined \subseteq Poison
<1>1. CASE Cardinality(w.upload) = 1
  <2>1. PICK e : w.upload = {e}
    BY <1>1, FS_Singleton
  <2>2. w.upload \subseteq Poison
    BY <2>1
  <2> QED
    BY <2>2, OverForgets
<1>2. CASE Cardinality(w.upload) # 1
  BY <1>2, OverForgets
<1> QED
  BY <1>1, <1>2

(* One device moves, the others are as they were. *)
LEMMA OneIsolates ==
  ASSUME IsolationInv, NEW d \in Devices, NEW w, NEW k,
         worker' = [worker EXCEPT ![d] = w], link' = [link EXCEPT ![d] = k],
         Inv, AtFault(w, k)
  PROVE  IsolationInv'
BY DEF IsolationInv, Inv, TypeInv

LEMMA IsolationProceed ==
  ASSUME Inv, IsolationInv, NEW d \in Devices, Proceed(d)
  PROVE  IsolationInv'
<1> USE DEF AtFault
<1>1. /\ worker[d] \in Worker /\ link[d] \in Calls /\ AtFault(worker[d], link[d])
      /\ worker = [worker EXCEPT ![d] = worker[d]] /\ link = [link EXCEPT ![d] = link[d]]
  BY OneDevice DEF IsolationInv
<1>2. /\ NoCall.phase = "none"
      /\ worker[d].step \in {"accepting", "receiving"} => link[d].phase \notin {"request", "refused"}
  BY <1>1 DEF NoCall
<1>3. CASE Abandon(d)
  <2>1. AtFault(Over(worker[d]), link[d])
    BY <1>1, <1>2, <1>3, OverForgets DEF Abandon
  <2>2. worker' = [worker EXCEPT ![d] = Over(worker[d])] /\ link' = link
    BY <1>3 DEF Abandon
  <2> QED
    BY <1>1, <2>1, <2>2, OneIsolates
<1>4. CASE Refused(d)
  <2> DEFINE v == IF worker[d].current THEN Isolate(worker[d]) ELSE worker[d]
  <2>1. worker' = [worker EXCEPT ![d] = Over(v)] /\ link' = [link EXCEPT ![d] = NoCall]
    BY <1>4 DEF Refused
  <2>2. v \in Worker
    BY <1>1, OverForgets
  <2>3. v.quarantined \subseteq Poison
    BY <1>1, <1>4, IsolatesOffender DEF Refused
  <2> HIDE DEF v
  <2>4. AtFault(Over(v), NoCall)
    BY <1>2, <2>2, <2>3, OverForgets
  <2> QED
    BY <2>1, <2>4, OneIsolates
<1>5. CASE CursorRefused(d)
  <2>1. AtFault(Over(worker[d]), NoCall)
    BY <1>1, <1>2, OverForgets
  <2> QED
    BY <1>5, <2>1, OneIsolates DEF CursorRefused
<1>6. CASE Answered(d)
  <2> DEFINE w == IF worker[d].current
                  THEN [worker[d] EXCEPT !.step = "accepting", !.accepted = link[d].accepted,
                                         !.received = link[d].rows, !.next = link[d].next]
                  ELSE Over(worker[d])
  <2>1. w.quarantined = worker[d].quarantined
    BY <1>1, OverForgets DEF Worker
  <2>2. worker' = [worker EXCEPT ![d] = w] /\ link' = [link EXCEPT ![d] = NoCall]
    BY <1>6 DEF Answered
  <2> HIDE DEF w
  <2>3. AtFault(w, NoCall)
    BY <1>1, <1>2, <2>1
  <2> QED
    BY <2>2, <2>3, OneIsolates
<1>7. ASSUME NEW w, worker' = [worker EXCEPT ![d] = w], link' = link,
             w.quarantined = worker[d].quarantined,
             worker[d].step \in {"accepting", "receiving"}
      PROVE  IsolationInv'
  <2>1. AtFault(w, link[d])
    BY <1>1, <1>2, <1>7
  <2> QED
    BY <1>1, <1>7, <2>1, OneIsolates
<1>8. ASSUME NEW e \in Events, Acknowledge(d, e)
      PROVE  IsolationInv'
  <2> DEFINE w == [worker[d] EXCEPT !.accepted = @ \ {e}]
  <2>1. w.quarantined = worker[d].quarantined
    BY <1>1 DEF Worker
  <2>2. worker' = [worker EXCEPT ![d] = w]
    BY <1>8 DEF Acknowledge
  <2> HIDE DEF w
  <2> QED
    BY <1>7, <1>8, <2>1, <2>2 DEF Acknowledge
<1>9. CASE AllAcknowledged(d)
  <2> DEFINE w == [worker[d] EXCEPT !.step = "receiving"]
  <2>1. w.quarantined = worker[d].quarantined
    BY <1>1 DEF Worker
  <2>2. worker' = [worker EXCEPT ![d] = w]
    BY <1>9 DEF AllAcknowledged
  <2> HIDE DEF w
  <2> QED
    BY <1>7, <1>9, <2>1, <2>2 DEF AllAcknowledged
<1>10. CASE Append(d)
  <2> DEFINE r == NextReceived(d)
  <2> DEFINE w == [worker[d] EXCEPT !.received = worker[d].received \ {r},
                                    !.known = worker[d].known \cup {r.id},
                                    !.handing = IF NewHere(d, r) THEN {r.id} ELSE {}]
  <2>1. w.quarantined = worker[d].quarantined
    BY <1>1 DEF Worker
  <2>2. worker' = [worker EXCEPT ![d] = w]
    BY <1>10 DEF Append
  <2> HIDE DEF w, r
  <2> QED
    BY <1>7, <1>10, <2>1, <2>2 DEF Append
<1>11. CASE HandOver(d)
  <2> DEFINE w == [worker[d] EXCEPT !.handing = {}]
  <2>1. w.quarantined = worker[d].quarantined
    BY <1>1 DEF Worker
  <2>2. worker' = [worker EXCEPT ![d] = w]
    BY <1>11 DEF HandOver
  <2> HIDE DEF w
  <2> QED
    BY <1>7, <1>11, <2>1, <2>2 DEF HandOver
<1>12. CASE SaveCursor(d)
  <2> DEFINE v == [worker[d] EXCEPT !.probing = ProbesOn(worker[d])]
  <2>1. v \in Worker /\ v.quarantined = worker[d].quarantined
    BY <1>1 DEF Worker, ProbesOn
  <2>2. worker' = [worker EXCEPT ![d] = Over(v)]
    BY <1>12 DEF SaveCursor
  <2> HIDE DEF v
  <2>3. Over(v).quarantined = worker[d].quarantined
    BY <2>1, OverForgets
  <2> QED
    BY <1>7, <1>12, <2>2, <2>3 DEF SaveCursor
<1> QED
  BY <1>3, <1>4, <1>5, <1>6, <1>8, <1>9, <1>10, <1>11, <1>12 DEF Proceed

LEMMA IsolationDevice ==
  ASSUME Inv, IsolationInv, NEW d \in Devices,
         Begin(d) \/ Fail(d) \/ Start(d) \/ Stop(d) \/ Kill(d)
  PROVE  IsolationInv'
<1> USE DEF AtFault
<1>1. /\ worker[d] \in Worker /\ link[d] \in Calls /\ AtFault(worker[d], link[d])
      /\ worker = [worker EXCEPT ![d] = worker[d]] /\ link = [link EXCEPT ![d] = link[d]]
  BY OneDevice DEF IsolationInv
<1>2. NoCall.phase = "none"
  BY DEF NoCall
<1>3. CASE Begin(d)
  <2> DEFINE w == [worker[d] EXCEPT !.step = "waiting", !.current = TRUE, !.timer = FALSE,
                                    !.downloadOnly = FALSE, !.upload = Upload(d),
                                    !.known = journal[d]]
  <2> DEFINE k == [phase |-> "request", cursor |-> cursor[d], upload |-> Upload(d)]
  <2>1. /\ worker' = [worker EXCEPT ![d] = w]
        /\ link' = [link EXCEPT ![d] = k]
    BY <1>3 DEF Begin
  <2>2. /\ w.quarantined = worker[d].quarantined /\ w.step = "waiting"
        /\ w.upload = Upload(d) /\ k.phase = "request" /\ k.upload = Upload(d)
    BY <1>1 DEF Worker
  <2> HIDE DEF w, k
  <2>3. AtFault(w, k)
    BY <1>1, <2>2
  <2> QED
    BY <2>1, <2>3, OneIsolates
<1>4. CASE Fail(d)
  <2>1. AtFault(Over(worker[d]), NoCall)
    BY <1>1, <1>2, OverForgets
  <2> QED
    BY <1>4, <2>1, OneIsolates DEF Fail
<1>5. CASE Start(d)
  <2> DEFINE w == [worker[d] EXCEPT !.running = TRUE, !.current = FALSE,
                                    !.timer = (worker[d].step = "idle"),
                                    !.probing = FALSE, !.downloadOnly = FALSE,
                                    !.quarantined = {}]
  <2>1. worker' = [worker EXCEPT ![d] = w] /\ link' = link
    BY <1>5 DEF Start
  <2>2. w.quarantined = {} /\ w.step = worker[d].step /\ w.upload = worker[d].upload
    BY <1>1 DEF Worker
  <2> HIDE DEF w
  <2>3. AtFault(w, link[d])
    BY <1>1, <2>2
  <2> QED
    BY <1>1, <2>1, <2>3, OneIsolates
<1>6. CASE Stop(d)
  <2> DEFINE w == [worker[d] EXCEPT !.running = FALSE, !.current = FALSE, !.timer = FALSE]
  <2>1. worker' = [worker EXCEPT ![d] = w] /\ link' = link
    BY <1>6 DEF Stop
  <2>2. /\ w.quarantined = worker[d].quarantined /\ w.step = worker[d].step
        /\ w.upload = worker[d].upload
    BY <1>1 DEF Worker
  <2> HIDE DEF w
  <2>3. AtFault(w, link[d])
    BY <1>1, <2>2
  <2> QED
    BY <1>1, <2>1, <2>3, OneIsolates
<1>7. CASE Kill(d)
  <2>1. AtFault(Stopped, NoCall)
    BY <1>2 DEF Stopped
  <2> QED
    BY <1>7, <2>1, OneIsolates DEF Kill
<1> QED
  BY <1>3, <1>4, <1>5, <1>6, <1>7

(* The relay refuses a call for its batch only. *)
LEMMA IsolationServed ==
  ASSUME Inv, IsolationInv, NEW d \in Devices, RelayServes(d)
  PROVE  IsolationInv'
<1> DEFINE k == Serve(link[d]).answer
<1>1. /\ link[d] \in Calls /\ AtFault(worker[d], link[d]) /\ link[d].phase = "request"
      /\ worker = [worker EXCEPT ![d] = worker[d]]
  BY OneDevice DEF IsolationInv, RelayServes
<1>2. IsFiniteSet(link[d].upload)
  BY <1>1 DEF Calls, Request, AnswerOf, Outcome, FiniteEvents
<1>3. /\ k.phase \in {"invalidCursor", "refused", "answer"}
      /\ k.phase = "refused" => link[d].upload \cap Poison # {}
  BY DEF Serve
<1>4. worker' = worker /\ link' = [link EXCEPT ![d] = k]
  BY DEF RelayServes
<1> HIDE DEF k
<1>5. AtFault(worker[d], k)
  BY <1>1, <1>2, <1>3 DEF AtFault
<1> QED
  BY <1>1, <1>4, <1>5, OneIsolates

LEMMA IsolationNext ==
  ASSUME OnlyValidationRefuses, Inv, IsolationInv, [Next]_vars
  PROVE  IsolationInv'
<1>1. ASSUME UNCHANGED <<worker, link>> PROVE IsolationInv'
  BY <1>1 DEF IsolationInv
<1>2. CASE UNCHANGED vars
  BY <1>1, <1>2 DEF vars
<1>3. ASSUME NEW d \in Devices, NEW e \in Events,
             Record(d, e) \/ \E o \in Devices : ReceiveNearby(d, o, e)
      PROVE  IsolationInv'
  BY <1>1, <1>3 DEF Record, ReceiveNearby
<1>4. ASSUME NEW d \in Devices, RelayFull(d) \/ Unreadable(d)
      PROVE  FALSE
  BY <1>4 DEF RelayFull, Unreadable, Spend, OnlyValidationRefuses
<1>5. ASSUME NEW req \in late, RelayServesLate(req) PROVE IsolationInv'
  BY <1>1, <1>5 DEF RelayServesLate
<1>6. ASSUME NEW r \in log, RelayForgets(r) PROVE IsolationInv'
  BY <1>1, <1>6 DEF RelayForgets
<1>7. CASE RelayRekeys
  BY <1>1, <1>7 DEF RelayRekeys
<1> QED
  BY <1>2, <1>3, <1>4, <1>5, <1>6, <1>7, IsolationProceed, IsolationDevice,
     IsolationServed DEF Next

-----------------------------------------------------------------------------
(***************************************************************************)
(* The theorems.                                                           *)
(***************************************************************************)
(* The invariant the others rest on.                                       *)
THEOREM InvHolds == Spec => []Inv
<1>1. Init => Inv
  BY InvInit
<1>2. Inv /\ [Next]_vars => Inv'
  BY InvNext
<1> QED
  BY <1>1, <1>2, PTL DEF Spec

(* The durable cursor never passes an event the journal does not hold,     *)
(* wherever a kill or a stop falls between synchronizeNow's writes.        *)
THEOREM CursorStaysBehind == Spec => []CursorCoversJournal
<1>1. Inv => CursorCoversJournal
  BY DEF Inv, DevicesInv, DeviceOK, Covered, CursorCoversJournal
<1> QED
  BY <1>1, InvHolds, PTL

(* An event marked acknowledged, never to be uploaded again, is one the    *)
(* relay has stored.                                                       *)
THEOREM AcknowledgedIsStored == Spec => []AckedWasStored
<1>1. Inv => AckedWasStored
  BY DEF Inv, DevicesInv, DeviceOK, AckedWasStored
<1> QED
  BY <1>1, InvHolds, PTL

(* A running worker is never left without its next synchronization.        *)
THEOREM AlwaysScheduled == Spec => []NeverUnscheduled
<1>1. Inv => NeverUnscheduled
  BY DEF Inv, DevicesInv, DeviceOK, WorkerOK, NeverUnscheduled
<1> QED
  BY <1>1, InvHolds, PTL

(* The app is handed an event at most once, and only after the journal has *)
(* it.                                                                     *)
THEOREM HandedAtMostOnce == Spec => HandedOnce
<1>1. Inv => (\A d \in Devices : HandOver(d) =>
                worker[d].handing \cap emitted[d] = {} /\ worker[d].handing \subseteq journal[d])
  BY DEF Inv, DevicesInv, DeviceOK, WorkerOK
<1> QED
  BY <1>1, InvHolds, PTL DEF HandedOnce

(* The quarantine holds only events the relay's validation refuses, as     *)
(* long as nothing else refuses a batch (a ride whose quota is exhausted   *)
(* or an answer this app cannot read would be blamed on it as well).       *)
THEOREM QuarantineIsJust ==
  ASSUME OnlyValidationRefuses
  PROVE  Spec => []OnlyOffendersQuarantined
<1>1. Init => IsolationInv
  BY DEF Init, IsolationInv, AtFault, Stopped, NoCall
<1>2. IsolationInv /\ Inv /\ [Next]_vars => IsolationInv'
  BY IsolationNext
<1>3. IsolationInv => OnlyOffendersQuarantined
  BY DEF IsolationInv, AtFault, OnlyOffendersQuarantined
<1> QED
  BY <1>1, <1>2, <1>3, InvHolds, PTL DEF Spec

(* The internet path meets RideJournal: what the relay adds lies above     *)
(* every row and every cursor, so a device that polls from its cursor      *)
(* misses only what retention has dropped.                                 *)
THEOREM MeetsRideJournal == Spec => JournalSpec
<1>1. Init => Journal!Init
  BY DEF Init, Journal!Init
<1>2. ASSUME Inv, NEW q \in Request, q.cursor.seq \in minted, Written(Serve(q)),
             late' \subseteq late
      PROVE  Journal!Serve
  <2>1. /\ log' \subseteq LogRow /\ LogInv'
        /\ minted \subseteq minted'
        /\ \A r \in log' \ log : \A c \in minted : c < r.seq
        /\ \A r \in log' \ log : \A s \in log : s.seq < r.seq
        /\ minted' \subseteq minted \cup {r.seq : r \in log'}
    BY <1>2, WrittenRelay
  <2>2. \A r, s \in log' : r.id = s.id \/ r.seq = s.seq => r = s
    BY <2>1 DEF LogInv
  <2> QED
    BY <2>1, <2>2 DEF Journal!Serve, Journal!Added, Journal!LogRow, LogRow
<1>3. ASSUME Inv, [Next]_vars
      PROVE  [Journal!Next]_(Journal!vars)
  <2>1. ASSUME NEW d \in Devices, RelayServes(d)
        PROVE  Journal!Next
    <3>1. link[d] \in Request /\ link[d].cursor.seq \in minted
      BY <1>3, <2>1, OneDevice DEF RelayServes, Calls, AnswerOf, Outcome, DeviceOK, CallOK
    <3>2. Written(Serve(link[d])) /\ late' \subseteq late
      BY <2>1 DEF RelayServes
    <3> QED
      BY <1>2, <1>3, <3>1, <3>2 DEF Journal!Next
  <2>2. ASSUME NEW req \in late, RelayServesLate(req)
        PROVE  Journal!Next \/ UNCHANGED <<log, minted>>
    <3>1. req \in Request /\ req.cursor.seq \in minted
      BY <1>3 DEF Inv, TypeInv, LogInv
    <3>2. late' \subseteq late /\ (Written(Serve(req)) \/ UNCHANGED relay)
      BY <2>2 DEF RelayServesLate
    <3> QED
      BY <1>2, <1>3, <3>1, <3>2 DEF Journal!Next, relay
  <2>3. ASSUME NEW r \in log, RelayForgets(r)
        PROVE  Journal!Next
    BY <2>3 DEF RelayForgets, Journal!Next, Journal!Forget
  <2>4. ASSUME RelayRekeys
        PROVE  UNCHANGED <<log, minted>>
    BY <2>4 DEF RelayRekeys
  <2>5. ASSUME NEW d \in Devices,
               \/ Begin(d) \/ Fail(d) \/ Proceed(d) \/ Start(d) \/ Stop(d) \/ Kill(d)
               \/ RelayFull(d) \/ Unreadable(d)
               \/ (\E e \in Events : Record(d, e))
               \/ (\E o \in Devices, e \in Events : ReceiveNearby(d, o, e))
        PROVE  UNCHANGED <<log, minted>>
    <3>1. UNCHANGED relay
      BY <2>5 DEF Begin, Fail, Proceed, Start, Stop, Kill, RelayFull, Unreadable, Record,
         ReceiveNearby, Abandon, Refused, CursorRefused, Answered, Acknowledge,
         AllAcknowledged, Append, HandOver, SaveCursor
    <3> QED
      BY <3>1 DEF relay
  <2>6. CASE UNCHANGED vars
    BY <2>6 DEF vars, relay, Journal!vars
  <2> QED
    BY <1>3, <2>1, <2>2, <2>3, <2>4, <2>5, <2>6 DEF Next, Journal!vars
<1> QED
  BY <1>1, <1>3, InvHolds, PTL DEF Spec, JournalSpec, Journal!Spec

-----------------------------------------------------------------------------
(***************************************************************************)
(* One synchronization, from the call of synchronizeNow to its finally.    *)
(* The call a worker waits for is its own: it asks with the durable        *)
(* cursor, which nothing moves meanwhile, and what it brings lies above    *)
(* it, also where a restart or a new cursor key came in between.           *)
(***************************************************************************)
Forward(c, n) == c.seq <= n.seq /\ c.epoch <= n.epoch

InStep(c, w, k) ==
  /\ w.step = "waiting" <=> k.phase # "none"
  /\ k.phase = "request" => k.cursor = c
  /\ k.phase = "answer" =>
       Forward(c, k.next) /\ IsFiniteSet(k.accepted) /\ IsFiniteSet(k.rows)
  /\ w.step \in {"accepting", "receiving"} =>
       Forward(c, w.next) /\ IsFiniteSet(w.accepted) /\ IsFiniteSet(w.received)

SyncInv == \A d \in Devices : InStep(cursor[d], worker[d], link[d])

(* A worker that waits has a call under way, of which it will hear, and    *)
(* one that does not wait has none.                                        *)
NobodyWaitsInVain ==
  \A d \in Devices : worker[d].step = "waiting" <=> link[d].phase # "none"

(* The durable cursor goes forward, in number and in key, or back to the   *)
(* beginning because the relay refused it; no late, repeated or abandoned  *)
(* answer takes it back.                                                   *)
CursorGoesForward ==
  [][\A d \in Devices :
       \/ Forward(cursor[d], cursor'[d])
       \/ CursorRefused(d) /\ cursor'[d] = NoCursor]_vars

(* What is still before a synchronization: its phases, and in a phase the  *)
(* events to be marked, or appended and handed over.                       *)
Phase(w, k) ==
  CASE w.step = "waiting" /\ k.phase = "request" -> 4
    [] w.step = "waiting" /\ k.phase # "request" -> 3
    [] w.step = "accepting" -> 2
    [] w.step = "receiving" -> 1
    [] OTHER -> 0

Items(w) ==
  IF w.step = "accepting" THEN Cardinality(w.accepted)
  ELSE IF w.step = "receiving"
       THEN 2 * Cardinality(w.received) + (IF w.handing = {} THEN 0 ELSE 1)
  ELSE 0

Lower(w, k, v, l) ==
  \/ Phase(v, l) < Phase(w, k)
  \/ Phase(v, l) = Phase(w, k) /\ Items(v) < Items(w)

(* Every step of a synchronization and of the relay that serves it leaves  *)
(* less before it, and no step of anybody leaves more: it ends after as    *)
(* many of them as the answer has events, plus a few.                      *)
SynchronizationsRunDown ==
  [][\A d \in Devices :
       /\ Proceed(d) \/ RelayServes(d) =>
            Lower(worker[d], link[d], worker'[d], link'[d])
       /\ worker[d].step # "idle" =>
            \/ Lower(worker[d], link[d], worker'[d], link'[d])
            \/ /\ Phase(worker'[d], link'[d]) = Phase(worker[d], link[d])
               /\ Items(worker'[d]) = Items(worker[d])]_vars

-----------------------------------------------------------------------------
(* What a step does to device d alone, and what it says of d. *)
Others(d) ==
  \A o \in Devices : o # d =>
    cursor'[o] = cursor[o] /\ worker'[o] = worker[o] /\ link'[o] = link[o]

CursorKept(d) ==
  Forward(cursor[d], cursor'[d]) \/ (CursorRefused(d) /\ cursor'[d] = NoCursor)

LowerNow(d) == Lower(worker[d], link[d], worker'[d], link'[d])
SameNow(d) ==
  /\ Phase(worker'[d], link'[d]) = Phase(worker[d], link[d])
  /\ Items(worker'[d]) = Items(worker[d])
InStepNow(d) == InStep(cursor[d], worker[d], link[d])

LEMMA Moved ==
  ASSUME Inv, NEW d \in Devices, NEW c, NEW w, NEW k,
         cursor' = [cursor EXCEPT ![d] = c], worker' = [worker EXCEPT ![d] = w],
         link' = [link EXCEPT ![d] = k]
  PROVE  cursor'[d] = c /\ worker'[d] = w /\ link'[d] = k /\ Others(d)
BY DEF Inv, TypeInv, Others

LEMMA ForwardItself == ASSUME NEW c \in Cursor PROVE Forward(c, c)
BY DEF Forward, Cursor

LEMMA OverIsIdle ==
  ASSUME NEW w \in Worker, NEW c, NEW k, k.phase = "none"
  PROVE  InStep(c, Over(w), k) /\ Phase(Over(w), k) = 0 /\ Over(w).step = "idle"
<1>1. Over(w).step = "idle"
  BY DEF Over, Worker
<1> QED
  BY <1>1 DEF InStep, Phase

LEMMA PhaseIsPositive ==
  ASSUME NEW w \in Worker, NEW k, w.step # "idle"
  PROVE  Phase(w, k) \in 1..4
BY DEF Phase, Worker, Steps

(* The end of a synchronization. *)
LEMMA Ends ==
  ASSUME Inv, SyncInv, NEW d \in Devices, NEW c, NEW w \in Worker, NEW k,
         worker[d].step # "idle", k.phase = "none",
         cursor' = [cursor EXCEPT ![d] = c],
         worker' = [worker EXCEPT ![d] = Over(w)],
         link' = [link EXCEPT ![d] = k]
  PROVE  InStepNow(d)' /\ LowerNow(d) /\ Others(d) /\ cursor'[d] = c
<1>1. cursor'[d] = c /\ worker'[d] = Over(w) /\ link'[d] = k /\ Others(d)
  BY Moved
<1>2. InStep(c, Over(w), k) /\ Phase(Over(w), k) = 0
  BY OverIsIdle
<1>3. Phase(worker[d], link[d]) \in 1..4
  BY OneDevice, PhaseIsPositive
<1>4. Lower(worker[d], link[d], Over(w), k)
  BY <1>2, <1>3 DEF Lower
<1> QED
  BY <1>1, <1>2, <1>4 DEF InStepNow, LowerNow

(* A worker that does not wait has no call. *)
LEMMA NoCallInHand ==
  ASSUME Inv, SyncInv, NEW d \in Devices
  PROVE  /\ InStep(cursor[d], worker[d], link[d])
         /\ worker[d].step # "waiting" => link[d].phase = "none"
         /\ Forward(cursor[d], cursor[d]) /\ NoCall.phase = "none"
BY OneDevice, ForwardItself DEF SyncInv, InStep, NoCall

LEMMA ProceedEnds ==
  ASSUME Inv, SyncInv, NEW d \in Devices,
         Abandon(d) \/ Refused(d) \/ CursorRefused(d) \/ SaveCursor(d)
  PROVE  InStepNow(d)' /\ CursorKept(d) /\ LowerNow(d) /\ Others(d)
<1>1. CASE Abandon(d)
  <2>1. /\ worker' = [worker EXCEPT ![d] = Over(worker[d])]
        /\ cursor' = [cursor EXCEPT ![d] = cursor[d]] /\ link' = [link EXCEPT ![d] = link[d]]
        /\ worker[d].step # "idle" /\ link[d].phase = "none" /\ worker[d] \in Worker
    BY <1>1, OneDevice, NoCallInHand DEF Abandon, durable
  <2> QED
    BY <2>1, Ends, NoCallInHand DEF CursorKept
<1>2. CASE Refused(d)
  <2> DEFINE v == IF worker[d].current THEN Isolate(worker[d]) ELSE worker[d]
  <2>1. /\ worker' = [worker EXCEPT ![d] = Over(v)]
        /\ cursor' = [cursor EXCEPT ![d] = cursor[d]] /\ link' = [link EXCEPT ![d] = NoCall]
        /\ worker[d].step # "idle"
    BY <1>2, OneDevice DEF Refused, durable
  <2>2. v \in Worker
    BY OneDevice, IsolateOK
  <2> HIDE DEF v
  <2> QED
    BY <2>1, <2>2, Ends, NoCallInHand DEF CursorKept
<1>3. CASE CursorRefused(d)
  <2> DEFINE c == IF worker[d].current THEN NoCursor ELSE cursor[d]
  <2>1. /\ worker' = [worker EXCEPT ![d] = Over(worker[d])]
        /\ cursor' = [cursor EXCEPT ![d] = c] /\ link' = [link EXCEPT ![d] = NoCall]
        /\ worker[d].step # "idle" /\ worker[d] \in Worker
    BY <1>3, OneDevice DEF CursorRefused
  <2>2. c \in {NoCursor, cursor[d]}
    OBVIOUS
  <2> HIDE DEF c
  <2> QED
    BY <1>3, <2>1, <2>2, Ends, NoCallInHand DEF CursorKept
<1>4. CASE SaveCursor(d)
  <2> DEFINE v == [worker[d] EXCEPT !.probing = ProbesOn(worker[d])]
  <2>1. /\ worker' = [worker EXCEPT ![d] = Over(v)]
        /\ cursor' = [cursor EXCEPT ![d] = worker[d].next]
        /\ worker[d].step = "receiving" /\ link' = link
    BY <1>4 DEF SaveCursor
  <2>5. worker[d] \in Worker
    BY OneDevice
  <2>2. v \in Worker
    BY <2>5 DEF Worker, ProbesOn
  <2>4. link = [link EXCEPT ![d] = link[d]] /\ link[d].phase = "none"
    BY <2>1, OneDevice, NoCallInHand
  <2>3. Forward(cursor[d], worker[d].next)
    BY <2>1, NoCallInHand DEF InStep
  <2> HIDE DEF v
  <2> QED
    BY <2>1, <2>2, <2>3, <2>4, Ends DEF CursorKept
<1> QED
  BY <1>1, <1>2, <1>3, <1>4

(* A step within a phase, or to the next. *)
LEMMA GoesOn ==
  ASSUME Inv, SyncInv, NEW d \in Devices, NEW w, NEW k,
         worker' = [worker EXCEPT ![d] = w], link' = [link EXCEPT ![d] = k],
         cursor' = cursor, InStep(cursor[d], w, k), Lower(worker[d], link[d], w, k)
  PROVE  InStepNow(d)' /\ CursorKept(d) /\ LowerNow(d) /\ Others(d)
<1>1. cursor' = [cursor EXCEPT ![d] = cursor[d]]
  BY OneDevice
<1>2. cursor'[d] = cursor[d] /\ worker'[d] = w /\ link'[d] = k /\ Others(d)
  BY <1>1, Moved
<1> QED
  BY <1>2, NoCallInHand DEF InStepNow, CursorKept, LowerNow

LEMMA ProceedAnswered ==
  ASSUME Inv, SyncInv, NEW d \in Devices, Answered(d)
  PROVE  InStepNow(d)' /\ CursorKept(d) /\ LowerNow(d) /\ Others(d)
<1> DEFINE v == [worker[d] EXCEPT !.step = "accepting", !.accepted = link[d].accepted,
                   !.received = link[d].rows, !.next = link[d].next]
<1>1. /\ worker[d] \in Worker /\ worker[d].step = "waiting" /\ link[d].phase = "answer"
      /\ link' = [link EXCEPT ![d] = NoCall] /\ cursor' = cursor
      /\ cursor = [cursor EXCEPT ![d] = cursor[d]]
  BY OneDevice DEF Answered, durable
<1>2. CASE worker[d].current
  <2>1. worker' = [worker EXCEPT ![d] = v]
    BY <1>2 DEF Answered
  <2>2. /\ v.step = "accepting" /\ v.accepted = link[d].accepted
        /\ v.received = link[d].rows /\ v.next = link[d].next
    BY <1>1 DEF Worker
  <2> HIDE DEF v
  <2>3. InStep(cursor[d], v, NoCall)
    BY <1>1, <2>2, NoCallInHand DEF InStep
  <2>4. Phase(worker[d], link[d]) = 3 /\ Phase(v, NoCall) = 2
    BY <1>1, <2>2 DEF Phase
  <2>5. Lower(worker[d], link[d], v, NoCall)
    BY <2>4 DEF Lower
  <2> QED
    BY <1>1, <2>1, <2>3, <2>5, GoesOn
<1>3. CASE ~worker[d].current
  <2>1. worker' = [worker EXCEPT ![d] = Over(worker[d])]
    BY <1>3 DEF Answered
  <2>2. worker[d].step # "idle" /\ cursor' = [cursor EXCEPT ![d] = cursor[d]]
    BY <1>1
  <2> QED
    BY <1>1, <2>1, <2>2, Ends, NoCallInHand DEF CursorKept
<1> QED
  BY <1>2, <1>3

(* One event fewer to be marked, or to be handed over. *)
LEMMA OneFewer ==
  ASSUME NEW S, IsFiniteSet(S), NEW x \in S
  PROVE  /\ IsFiniteSet(S \ {x}) /\ Cardinality(S) \in Nat
         /\ Cardinality(S \ {x}) = Cardinality(S) - 1
BY FS_RemoveElement, FS_CardinalityType

LEMMA ProceedAcknowledges ==
  ASSUME Inv, SyncInv, NEW d \in Devices,
         (\E e \in Events : Acknowledge(d, e)) \/ AllAcknowledged(d)
  PROVE  InStepNow(d)' /\ CursorKept(d) /\ LowerNow(d) /\ Others(d)
<1>1. /\ worker[d] \in Worker /\ worker[d].step = "accepting" /\ link[d].phase = "none"
      /\ cursor' = cursor /\ link' = [link EXCEPT ![d] = link[d]]
      /\ Phase(worker[d], link[d]) = 2
      /\ IsFiniteSet(worker[d].accepted) /\ IsFiniteSet(worker[d].received)
      /\ Forward(cursor[d], worker[d].next)
  BY OneDevice, NoCallInHand DEF Acknowledge, AllAcknowledged, durable, Phase, InStep
<1>2. ASSUME NEW e \in Events, Acknowledge(d, e)
      PROVE  InStepNow(d)' /\ CursorKept(d) /\ LowerNow(d) /\ Others(d)
  <2> DEFINE w == [worker[d] EXCEPT !.accepted = @ \ {e}]
  <2>1. worker' = [worker EXCEPT ![d] = w] /\ e \in worker[d].accepted
    BY <1>2 DEF Acknowledge
  <2>2. /\ w.step = "accepting" /\ w.accepted = worker[d].accepted \ {e}
        /\ w.received = worker[d].received /\ w.next = worker[d].next
    BY <1>1 DEF Worker
  <2> HIDE DEF w
  <2>3. /\ IsFiniteSet(w.accepted) /\ Cardinality(worker[d].accepted) \in Nat
        /\ Cardinality(w.accepted) = Cardinality(worker[d].accepted) - 1
    BY <1>1, <2>1, <2>2, OneFewer
  <2>4. InStep(cursor[d], w, link[d])
    BY <1>1, <2>2, <2>3 DEF InStep
  <2>5. /\ Phase(w, link[d]) = 2
        /\ Items(w) = Cardinality(w.accepted)
        /\ Items(worker[d]) = Cardinality(worker[d].accepted)
    BY <1>1, <2>2 DEF Phase, Items
  <2>6. Lower(worker[d], link[d], w, link[d])
    BY <1>1, <2>3, <2>5 DEF Lower
  <2> QED
    BY <1>1, <2>1, <2>4, <2>6, GoesOn
<1>3. ASSUME AllAcknowledged(d)
      PROVE  InStepNow(d)' /\ CursorKept(d) /\ LowerNow(d) /\ Others(d)
  <2> DEFINE w == [worker[d] EXCEPT !.step = "receiving"]
  <2>1. worker' = [worker EXCEPT ![d] = w]
    BY <1>3 DEF AllAcknowledged
  <2>2. /\ w.step = "receiving" /\ w.accepted = worker[d].accepted
        /\ w.received = worker[d].received /\ w.next = worker[d].next
    BY <1>1 DEF Worker
  <2> HIDE DEF w
  <2>3. InStep(cursor[d], w, link[d])
    BY <1>1, <2>2 DEF InStep
  <2>4. Phase(w, link[d]) = 1
    BY <2>2 DEF Phase
  <2>5. Lower(worker[d], link[d], w, link[d])
    BY <1>1, <2>4 DEF Lower
  <2> QED
    BY <1>1, <2>1, <2>3, <2>5, GoesOn
<1> QED
  BY <1>2, <1>3

LEMMA ProceedReceives ==
  ASSUME Inv, SyncInv, NEW d \in Devices, Append(d) \/ HandOver(d)
  PROVE  InStepNow(d)' /\ CursorKept(d) /\ LowerNow(d) /\ Others(d)
<1>1. /\ worker[d] \in Worker /\ worker[d].step = "receiving" /\ link[d].phase = "none"
      /\ cursor' = cursor /\ link' = [link EXCEPT ![d] = link[d]]
      /\ Phase(worker[d], link[d]) = 1
      /\ IsFiniteSet(worker[d].accepted) /\ IsFiniteSet(worker[d].received)
      /\ Forward(cursor[d], worker[d].next)
      /\ Cardinality(worker[d].received) \in Nat
  BY OneDevice, NoCallInHand, FS_CardinalityType DEF Append, HandOver, durable, Phase, InStep
<1>2. CASE Append(d)
  <2> DEFINE r == NextReceived(d)
  <2> DEFINE h == IF NewHere(d, r) THEN {r.id} ELSE {}
  <2> DEFINE w == [worker[d] EXCEPT !.received = @ \ {r}, !.known = @ \cup {r.id},
                     !.handing = h]
  <2>1. worker' = [worker EXCEPT ![d] = w] /\ r \in worker[d].received
        /\ worker[d].handing = {}
    BY <1>1, <1>2, NextIsReceived DEF Append
  <2>2. /\ w.step = "receiving" /\ w.accepted = worker[d].accepted
        /\ w.received = worker[d].received \ {r} /\ w.next = worker[d].next
    BY <1>1 DEF Worker
  <2> HIDE DEF r, w
  <2>3. /\ IsFiniteSet(w.received)
        /\ Cardinality(w.received) = Cardinality(worker[d].received) - 1
    BY <1>1, <2>1, <2>2, OneFewer
  <2>4. InStep(cursor[d], w, link[d])
    BY <1>1, <2>2, <2>3 DEF InStep
  <2>5. /\ Phase(w, link[d]) = 1
        /\ Items(w) \in {2 * Cardinality(w.received), 2 * Cardinality(w.received) + 1}
        /\ Items(worker[d]) = 2 * Cardinality(worker[d].received)
    BY <1>1, <2>1, <2>2, <2>3 DEF Phase, Items
  <2>6. Lower(worker[d], link[d], w, link[d])
    BY <1>1, <2>3, <2>5 DEF Lower
  <2> QED
    BY <1>1, <2>1, <2>4, <2>6, GoesOn
<1>3. CASE HandOver(d)
  <2> DEFINE w == [worker[d] EXCEPT !.handing = {}]
  <2>1. worker' = [worker EXCEPT ![d] = w] /\ worker[d].handing # {}
    BY <1>3 DEF HandOver
  <2>2. /\ w.step = "receiving" /\ w.accepted = worker[d].accepted
        /\ w.received = worker[d].received /\ w.next = worker[d].next /\ w.handing = {}
    BY <1>1 DEF Worker
  <2> HIDE DEF w
  <2>3. InStep(cursor[d], w, link[d])
    BY <1>1, <2>2 DEF InStep
  <2>4. /\ Phase(w, link[d]) = 1
        /\ Items(w) = 2 * Cardinality(worker[d].received)
        /\ Items(worker[d]) = 2 * Cardinality(worker[d].received) + 1
    BY <1>1, <2>1, <2>2 DEF Phase, Items
  <2>5. Lower(worker[d], link[d], w, link[d])
    BY <1>1, <2>4 DEF Lower
  <2> QED
    BY <1>1, <2>1, <2>3, <2>5, GoesOn
<1> QED
  BY <1>2, <1>3

LEMMA ProceedMoves ==
  ASSUME Inv, SyncInv, NEW d \in Devices, Proceed(d)
  PROVE  InStepNow(d)' /\ CursorKept(d) /\ LowerNow(d) /\ Others(d)
BY ProceedEnds, ProceedAnswered, ProceedAcknowledges, ProceedReceives DEF Proceed

(* An answer's cursor is not below the one that was asked with. *)
LEMMA AnswersForward ==
  ASSUME Inv, NEW q \in Request, Serve(q).answer.phase = "answer"
  PROVE  /\ Forward(q.cursor, Serve(q).answer.next)
         /\ IsFiniteSet(Serve(q).answer.accepted)
         /\ IsFiniteSet(Serve(q).answer.rows)
<1> DEFINE rows == log \cup Stored(q.upload)
<1> DEFINE page == Page(rows, q.cursor)
<1>1. q.upload \in FiniteEvents /\ q.cursor \in Cursor
  BY DEF Request
<1>2. /\ ValidCursor(q.cursor)
      /\ Serve(q).answer.accepted = q.upload
      /\ Serve(q).answer.rows = page
      /\ Serve(q).answer.next.epoch = epoch
      /\ Serve(q).answer.next.seq = Last(page, q.cursor)
  BY DEF Serve
<1>3. rows \in SUBSET LogRow /\ IsFiniteSet(rows)
  BY <1>1, StoredRows, FS_Union DEF Inv, TypeInv
<1> HIDE DEF rows
<1>4. /\ page \subseteq rows
      /\ Last(page, q.cursor) \in {q.cursor.seq} \cup {r.seq : r \in page}
  BY <1>1, <1>3, PageCovers
<1>5. \A r \in page : r.seq > q.cursor.seq
  BY DEF Page
<1>6. IsFiniteSet(page)
  BY <1>3, <1>4, FS_Subset
<1> HIDE DEF page
<1>7. \A r \in page : r.seq \in Nat
  BY <1>3, <1>4 DEF LogRow
<1>8. q.cursor.seq \in Nat /\ q.cursor.epoch \in Nat
  BY <1>1 DEF Cursor
<1>9. q.cursor.seq <= Last(page, q.cursor)
  BY <1>4, <1>5, <1>7, <1>8
<1>10. q.cursor.epoch <= epoch
  BY <1>2, <1>8 DEF ValidCursor, NoCursor, Inv, TypeInv
<1> QED
  BY <1>1, <1>2, <1>6, <1>9, <1>10 DEF Forward, FiniteEvents

LEMMA ServedMoves ==
  ASSUME Inv, SyncInv, NEW d \in Devices, RelayServes(d)
  PROVE  InStepNow(d)' /\ CursorKept(d) /\ LowerNow(d) /\ Others(d)
<1> DEFINE k == Serve(link[d]).answer
<1>1. /\ link[d].phase = "request" /\ link' = [link EXCEPT ![d] = k]
      /\ cursor' = cursor /\ worker' = worker /\ worker = [worker EXCEPT ![d] = worker[d]]
  BY OneDevice DEF RelayServes, durable
<1>2. link[d] \in Request
  BY <1>1, OneDevice DEF Calls, AnswerOf, Outcome
<1>3. k.phase \in {"answer", "refused", "invalidCursor"}
  BY DEF Serve
<1>4. worker[d].step = "waiting" /\ link[d].cursor = cursor[d]
  BY <1>1, NoCallInHand
  DEF InStep
<1>5. k.phase = "answer" =>
        /\ Forward(cursor[d], k.next) /\ IsFiniteSet(k.accepted) /\ IsFiniteSet(k.rows)
  BY <1>2, <1>4, AnswersForward
<1> HIDE DEF k
<1>6. InStep(cursor[d], worker[d], k)
  BY <1>3, <1>4, <1>5 DEF InStep
<1>7. Phase(worker[d], link[d]) = 4 /\ Phase(worker[d], k) = 3
  BY <1>1, <1>3, <1>4 DEF Phase
<1>8. Lower(worker[d], link[d], worker[d], k)
  BY <1>7 DEF Lower
<1> QED
  BY <1>1, <1>6, <1>8, GoesOn

(* The other steps of a device leave what is before its synchronization as *)
(* it is, or end it.                                                       *)
LEMMA OthersMove ==
  ASSUME Inv, SyncInv, NEW d \in Devices,
         \/ Begin(d) \/ Fail(d) \/ Start(d) \/ Stop(d) \/ Kill(d)
         \/ RelayFull(d) \/ Unreadable(d)
  PROVE  /\ InStepNow(d)' /\ CursorKept(d) /\ Others(d)
         /\ worker[d].step # "idle" => LowerNow(d) \/ SameNow(d)
<1>1. /\ worker[d] \in Worker /\ link[d] \in Calls /\ NoCall.phase = "none"
      /\ InStep(cursor[d], worker[d], link[d]) /\ Forward(cursor[d], cursor[d])
      /\ cursor = [cursor EXCEPT ![d] = cursor[d]]
      /\ worker = [worker EXCEPT ![d] = worker[d]]
      /\ link = [link EXCEPT ![d] = link[d]]
  BY OneDevice, NoCallInHand
<1>2. CASE Begin(d)
  <2> DEFINE w == [worker[d] EXCEPT !.step = "waiting", !.current = TRUE, !.timer = FALSE,
                                    !.downloadOnly = FALSE, !.upload = Upload(d),
                                    !.known = journal[d]]
  <2> DEFINE k == [phase |-> "request", cursor |-> cursor[d], upload |-> Upload(d)]
  <2>1. /\ worker' = [worker EXCEPT ![d] = w] /\ link' = [link EXCEPT ![d] = k]
        /\ cursor' = cursor /\ worker[d].step = "idle"
    BY <1>2 DEF Begin, durable
  <2>2. w.step = "waiting" /\ k.phase = "request" /\ k.cursor = cursor[d]
    BY <1>1 DEF Worker
  <2> HIDE DEF w, k
  <2>3. InStep(cursor[d], w, k)
    BY <2>2 DEF InStep
  <2>4. cursor'[d] = cursor[d] /\ worker'[d] = w /\ link'[d] = k /\ Others(d)
    BY <1>1, <2>1, Moved
  <2> QED
    BY <1>1, <2>1, <2>3, <2>4 DEF InStepNow, CursorKept
<1>3. CASE Fail(d)
  <2>1. /\ worker' = [worker EXCEPT ![d] = Over(worker[d])]
        /\ link' = [link EXCEPT ![d] = NoCall]
        /\ cursor' = [cursor EXCEPT ![d] = cursor[d]] /\ worker[d].step # "idle"
    BY <1>1, <1>3 DEF Fail, durable
  <2> QED
    BY <1>1, <2>1, Ends DEF CursorKept
<1>4. CASE Start(d) \/ Stop(d)
  <2>1. PICK t \in BOOLEAN, u \in BOOLEAN, p \in BOOLEAN, g \in BOOLEAN, Q \in SUBSET Events :
          worker' = [worker EXCEPT ![d] =
            [worker[d] EXCEPT !.running = u, !.current = FALSE, !.timer = t,
                              !.probing = p, !.downloadOnly = g, !.quarantined = Q]]
    <3>1. CASE Start(d)
      <4>1. (worker[d].step = "idle") \in BOOLEAN
        OBVIOUS
      <4> QED
        BY <3>1, <4>1 DEF Start
    <3>2. CASE Stop(d)
      <4>1. [worker[d] EXCEPT !.running = FALSE, !.current = FALSE, !.timer = FALSE]
            = [worker[d] EXCEPT !.running = FALSE, !.current = FALSE, !.timer = FALSE,
                                !.probing = worker[d].probing,
                                !.downloadOnly = worker[d].downloadOnly,
                                !.quarantined = worker[d].quarantined]
        BY <1>1 DEF Worker
      <4>2. /\ worker[d].probing \in BOOLEAN /\ worker[d].downloadOnly \in BOOLEAN
            /\ worker[d].quarantined \in SUBSET Events
        BY <1>1 DEF Worker
      <4> QED
        BY <3>2, <4>1, <4>2 DEF Stop
    <3> QED
      BY <1>4, <3>1, <3>2
  <2> DEFINE w == [worker[d] EXCEPT !.running = u, !.current = FALSE, !.timer = t,
                                    !.probing = p, !.downloadOnly = g, !.quarantined = Q]
  <2>2. cursor' = cursor /\ link' = link
    BY <1>4 DEF Start, Stop, durable
  <2>3. /\ w.step = worker[d].step /\ w.accepted = worker[d].accepted
        /\ w.received = worker[d].received /\ w.next = worker[d].next
        /\ w.handing = worker[d].handing
    BY <1>1 DEF Worker
  <2>4. worker' = [worker EXCEPT ![d] = w]
    BY <2>1
  <2> HIDE DEF w
  <2>5. InStep(cursor[d], w, link[d])
    BY <1>1, <2>3 DEF InStep
  <2>6. Phase(w, link[d]) = Phase(worker[d], link[d]) /\ Items(w) = Items(worker[d])
    BY <2>3 DEF Phase, Items
  <2>7. cursor'[d] = cursor[d] /\ worker'[d] = w /\ link'[d] = link[d] /\ Others(d)
    BY <1>1, <2>2, <2>4, Moved
  <2> QED
    BY <1>1, <2>5, <2>6, <2>7 DEF InStepNow, CursorKept, SameNow
<1>5. CASE Kill(d)
  <2>1. /\ worker' = [worker EXCEPT ![d] = Stopped] /\ link' = [link EXCEPT ![d] = NoCall]
        /\ cursor' = cursor
    BY <1>5 DEF Kill, durable
  <2>2. cursor'[d] = cursor[d] /\ worker'[d] = Stopped /\ link'[d] = NoCall /\ Others(d)
    BY <1>1, <2>1, Moved
  <2>3. Stopped.step = "idle"
    BY DEF Stopped
  <2>4. InStep(cursor[d], Stopped, NoCall) /\ Phase(Stopped, NoCall) = 0
    BY <1>1, <2>3 DEF InStep, Phase
  <2>5. worker[d].step # "idle" => Phase(worker[d], link[d]) \in 1..4
    BY <1>1, PhaseIsPositive
  <2> QED
    BY <1>1, <2>2, <2>4, <2>5 DEF InStepNow, CursorKept, LowerNow, Lower
<1>6. CASE RelayFull(d) \/ Unreadable(d)
  <2> DEFINE k == [phase |-> "refused"]
  <2>1. /\ worker' = [worker EXCEPT ![d] = worker[d]] /\ link' = [link EXCEPT ![d] = k]
        /\ cursor' = cursor /\ link[d].phase \in {"request", "answer"}
    BY <1>1, <1>6 DEF RelayFull, Unreadable, durable
  <2>2. cursor'[d] = cursor[d] /\ worker'[d] = worker[d] /\ link'[d] = k /\ Others(d)
    BY <1>1, <2>1, Moved
  <2>3. worker[d].step = "waiting" /\ k.phase = "refused"
    BY <1>1, <2>1 DEF InStep
  <2> HIDE DEF k
  <2>4. InStep(cursor[d], worker[d], k)
    BY <2>3 DEF InStep
  <2>5. Phase(worker[d], k) = 3 /\ Phase(worker[d], link[d]) \in {3, 4}
    BY <2>1, <2>3 DEF Phase
  <2> QED
    BY <1>1, <2>2, <2>4, <2>5 DEF InStepNow, CursorKept, LowerNow, SameNow, Lower
<1> QED
  BY <1>2, <1>3, <1>4, <1>5, <1>6

(* Every step keeps SyncInv, and is what the two action properties allow.  *)
LEMMA SyncNext ==
  ASSUME Inv, SyncInv, Next
  PROVE  /\ SyncInv'
         /\ \A d \in Devices : CursorKept(d)
         /\ \A d \in Devices :
              /\ Proceed(d) \/ RelayServes(d) => LowerNow(d)
              /\ worker[d].step # "idle" => LowerNow(d) \/ SameNow(d)
<1>1. ASSUME NEW d \in Devices, InStepNow(d)', CursorKept(d), Others(d),
             worker[d].step # "idle" => LowerNow(d) \/ SameNow(d)
      PROVE  /\ SyncInv' /\ \A o \in Devices : CursorKept(o)
             /\ \A o \in Devices : worker[o].step # "idle" => LowerNow(o) \/ SameNow(o)
  <2>1. ASSUME NEW o \in Devices, o # d
        PROVE  InStepNow(o)' /\ CursorKept(o) /\ SameNow(o)
    <3>1. cursor'[o] = cursor[o] /\ worker'[o] = worker[o] /\ link'[o] = link[o]
      BY <1>1, <2>1 DEF Others
    <3>2. InStep(cursor[o], worker[o], link[o]) /\ Forward(cursor[o], cursor[o])
      BY NoCallInHand
    <3> QED
      BY <3>1, <3>2 DEF InStepNow, CursorKept, SameNow
  <2> QED
    BY <1>1, <2>1 DEF SyncInv, InStepNow
<1>2. ASSUME cursor' = cursor, worker' = worker, link' = link
      PROVE  /\ SyncInv' /\ \A o \in Devices : CursorKept(o)
             /\ \A o \in Devices : worker[o].step # "idle" => LowerNow(o) \/ SameNow(o)
  BY <1>2, NoCallInHand DEF SyncInv, CursorKept, SameNow
<1>3. \A d \in Devices : Proceed(d) \/ RelayServes(d) => LowerNow(d)
  BY ProceedMoves, ServedMoves
<1>4. ASSUME NEW d \in Devices, NEW e \in Events,
             Record(d, e) \/ \E o \in Devices : ReceiveNearby(d, o, e)
      PROVE  cursor' = cursor /\ worker' = worker /\ link' = link
  BY <1>4 DEF Record, ReceiveNearby
<1>5. ASSUME NEW req \in late, RelayServesLate(req)
      PROVE  cursor' = cursor /\ worker' = worker /\ link' = link
  BY <1>5 DEF RelayServesLate, durable
<1>6. ASSUME NEW r \in log, RelayForgets(r)
      PROVE  cursor' = cursor /\ worker' = worker /\ link' = link
  BY <1>6 DEF RelayForgets, durable
<1>7. RelayRekeys => cursor' = cursor /\ worker' = worker /\ link' = link
  BY DEF RelayRekeys, durable
<1>8. ASSUME NEW d \in Devices,
             \/ Begin(d) \/ Fail(d) \/ Proceed(d) \/ Start(d) \/ Stop(d) \/ Kill(d)
             \/ RelayServes(d) \/ RelayFull(d) \/ Unreadable(d)
      PROVE  /\ SyncInv' /\ \A o \in Devices : CursorKept(o)
             /\ \A o \in Devices : worker[o].step # "idle" => LowerNow(o) \/ SameNow(o)
  <2>1. /\ InStepNow(d)' /\ CursorKept(d) /\ Others(d)
        /\ worker[d].step # "idle" => LowerNow(d) \/ SameNow(d)
    BY <1>8, ProceedMoves, ServedMoves, OthersMove
  <2> QED
    BY <2>1, <1>1
<1> QED
  BY <1>2, <1>3, <1>4, <1>5, <1>6, <1>7, <1>8 DEF Next

LEMMA SyncInvHolds == Spec => []SyncInv
<1>1. Init => SyncInv
  BY DEF Init, SyncInv, InStep, Stopped, NoCall
<1>2. SyncInv /\ Inv /\ [Next]_vars => SyncInv'
  <2> SUFFICES ASSUME SyncInv, Inv, UNCHANGED vars PROVE SyncInv'
    BY SyncNext
  <2> QED
    BY DEF vars, durable, SyncInv
<1> QED
  BY <1>1, <1>2, InvHolds, PTL DEF Spec

(* A worker that waits for an answer has a call under way, and one that    *)
(* does not has none: a start, a stop or a kill during a call loses        *)
(* neither its answer nor its worker.                                      *)
THEOREM NobodyIsDeaf == Spec => []NobodyWaitsInVain
<1>1. SyncInv => NobodyWaitsInVain
  BY DEF SyncInv, InStep, NobodyWaitsInVain
<1> QED
  BY <1>1, SyncInvHolds, PTL

(* The durable cursor goes forward or, refused, back to the beginning.     *)
THEOREM CursorsGoForward == Spec => CursorGoesForward
<1>1. SyncInv /\ Inv /\ Next =>
        \A d \in Devices : \/ Forward(cursor[d], cursor'[d])
                           \/ CursorRefused(d) /\ cursor'[d] = NoCursor
  BY SyncNext DEF CursorKept
<1> QED
  BY <1>1, SyncInvHolds, InvHolds, PTL DEF Spec, CursorGoesForward

(* A synchronization ends after finitely many steps of its own, for any    *)
(* size of its upload and its download.  With NobodyIsDeaf and with        *)
(* AlwaysScheduled this is what Delivered rests on besides fairness.       *)
THEOREM SynchronizationsEnd == Spec => SynchronizationsRunDown
<1>1. SyncInv /\ Inv /\ Next =>
        \A d \in Devices :
          /\ Proceed(d) \/ RelayServes(d) =>
               Lower(worker[d], link[d], worker'[d], link'[d])
          /\ worker[d].step # "idle" =>
               \/ Lower(worker[d], link[d], worker'[d], link'[d])
               \/ /\ Phase(worker'[d], link'[d]) = Phase(worker[d], link[d])
                  /\ Items(worker'[d]) = Items(worker[d])
  BY SyncNext DEF LowerNow, SameNow
<1> QED
  BY <1>1, SyncInvHolds, InvHolds, PTL DEF Spec, SynchronizationsRunDown
=============================================================================
