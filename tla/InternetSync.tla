---------------------------- MODULE InternetSync ----------------------------
(***************************************************************************)
(* The internet path of a ride's events: on every device an                *)
(* InternetRelayWorker (apps/mobile/lib/internet) that exchanges the       *)
(* device's journal with the relay, over requests and responses that time  *)
(* out, arrive late or arrive unreadable, with the app being stopped,      *)
(* restarted and killed at any point.                                      *)
(*                                                                         *)
(* Events are numbered in the order of their creation times, the order in  *)
(* which pendingEvents returns them.  The relay serves a call atomically;  *)
(* RelayService is the model of how it does so, and both meet RideJournal. *)
(* Awaits that only read (the pending list, the known identities, the      *)
(* cursor) are one step with the request they build; every await that      *)
(* writes is a step of its own.                                            *)
(***************************************************************************)
EXTENDS Integers, FiniteSets, FiniteSetsExt

CONSTANTS
  Devices,
  Events,         \* a set of positive integers, in creation order
  Author,         \* [Events -> Devices]
  Poison,         \* events the relay's validation refuses
  Unsupported,    \* events whose capability the relay does not offer
  MaxUpload,      \* maximumUploadEvents
  MaxDownload,    \* maximum_download_events
  Disturbances,   \* the kinds of disturbance that may happen
  MaxDisturbances,  \* bound: how many happen in a run
  NearbyPath      \* whether the nearby relay also fills the journals

ASSUME EventAssumption ==
  /\ Events \subseteq Nat \ {0}
  /\ Author \in [Events -> Devices]
  /\ Poison \subseteq Events
  /\ Unsupported \subseteq Events

Kinds == {"kill", "restart", "late", "rekey", "forget", "garble", "full"}

ASSUME BoundAssumption ==
  /\ MaxUpload \in Nat \ {0}
  /\ MaxDownload \in Nat \ {0}
  /\ Disturbances \subseteq Kinds
  /\ MaxDisturbances \in Nat
  /\ NearbyPath \in BOOLEAN

VARIABLES
  journal,     \* per device: the events in its durable journal
  acked,       \* per device: those marked acknowledged
  cursor,      \* per device: the durable cursor
  worker,      \* per device: the worker's memory
  link,        \* per device: the call it is waiting for
  late,        \* requests a device no longer waits for, still travelling
  log,         \* the relay's rows: [seq, id]
  nextSeq,     \* the relay's next sequence number
  minted,      \* history: the cursors the relay has given out
  epoch,       \* the key cursors are signed with
  everLogged,  \* history: the events the relay has ever stored
  emitted,     \* history, per device: the events handed to the app
  left         \* how many disturbances may still happen

durable == <<journal, acked, cursor>>
relay == <<log, nextSeq, minted, epoch, everLogged>>
vars == <<durable, worker, link, late, relay, emitted, left>>

Cursor == [epoch : Nat, seq : Nat]
NoCursor == [epoch |-> 0, seq |-> 0]
LogRow == [seq : Nat \ {0}, id : Events]
Ids(R) == {r.id : r \in R}
Spend(kind) == kind \in Disturbances /\ left > 0 /\ left' = left - 1

Stopped ==
  [running |-> FALSE, step |-> "idle", current |-> FALSE, timer |-> FALSE,
   probing |-> FALSE, downloadOnly |-> FALSE, quarantined |-> {},
   upload |-> {}, known |-> {}, accepted |-> {}, received |-> {},
   next |-> NoCursor, handing |-> {}]

NoCall == [phase |-> "none"]

Init ==
  /\ journal = [d \in Devices |-> {}]
  /\ acked = [d \in Devices |-> {}]
  /\ cursor = [d \in Devices |-> NoCursor]
  /\ worker = [d \in Devices |-> Stopped]
  /\ link = [d \in Devices |-> NoCall]
  /\ late = {}
  /\ log = {}
  /\ nextSeq = 1
  /\ minted = {0}
  /\ epoch = 1
  /\ everLogged = {}
  /\ emitted = [d \in Devices |-> {}]
  /\ left = MaxDisturbances

-----------------------------------------------------------------------------
(***************************************************************************)
(* The journal's other writers.                                            *)
(***************************************************************************)

(* The app records an event of its own, unacknowledged; the controller     *)
(* wakes the worker, which any poll does as well.                          *)
Record(d, e) ==
  /\ Author[e] = d
  /\ e \notin journal[d]
  /\ \A o \in Events : Author[o] = d /\ o < e => o \in journal[d]
  /\ journal' = [journal EXCEPT ![d] = @ \cup {e}]
  /\ UNCHANGED <<acked, cursor, worker, link, late, relay, emitted, left>>

(* The nearby relay appends an event another device holds, unacknowledged. *)
ReceiveNearby(d, o, e) ==
  /\ NearbyPath
  /\ e \in journal[o] \ journal[d]
  /\ journal' = [journal EXCEPT ![d] = @ \cup {e}]
  /\ UNCHANGED <<acked, cursor, worker, link, late, relay, emitted, left>>

-----------------------------------------------------------------------------
(***************************************************************************)
(* The worker.  timer stands for a call of synchronizeNow that is due: a   *)
(* timer or the call start makes.  current is the generation check of the  *)
(* synchronization under way: FALSE once start or stop has been called     *)
(* since it began.                                                         *)
(***************************************************************************)

Offerable(d) == (journal[d] \ acked[d]) \ worker[d].quarantined

(* The k oldest of a set of events. *)
Oldest(E, k) == {e \in E : Cardinality({o \in E : o < e}) < k}

Upload(d) ==
  IF worker[d].downloadOnly THEN {}
  ELSE Oldest(Offerable(d) \ Unsupported,
              IF worker[d].probing THEN 1 ELSE MaxUpload)

(* synchronizeNow up to its request, called by the timer or by wake. *)
Begin(d) ==
  /\ worker[d].running
  /\ worker[d].step = "idle"
  /\ worker' = [worker EXCEPT ![d] =
       [@ EXCEPT !.step = "waiting", !.current = TRUE, !.timer = FALSE,
                 !.downloadOnly = FALSE, !.upload = Upload(d),
                 !.known = journal[d]]]
  /\ link' = [link EXCEPT ![d] =
       [phase |-> "request", cursor |-> cursor[d], upload |-> Upload(d)]]
  /\ UNCHANGED <<durable, late, relay, emitted, left>>

OverIfCurrent(w) ==     \* broken: only the latest generation reschedules
  [w EXCEPT !.step = "idle", !.current = FALSE, !.timer = w.running /\ w.current,
            !.upload = {}, !.known = {}, !.accepted = {}, !.received = {},
            !.next = NoCursor, !.handing = {}]

(* The finally block: the synchronization is over and, while the worker    *)
(* runs, the next one is scheduled, whichever generation asked for it.     *)
Over(w) ==
  [w EXCEPT !.step = "idle", !.current = FALSE, !.timer = w.running,
            !.upload = {}, !.known = {}, !.accepted = {}, !.received = {},
            !.next = NoCursor, !.handing = {}]

(* After any await: start or stop was called meanwhile, give up. *)
Abandon(d) ==
  /\ worker[d].step \in {"accepting", "receiving"}
  /\ ~worker[d].current
  /\ worker' = [worker EXCEPT ![d] = Over(@)]
  /\ UNCHANGED <<durable, link, late, relay, emitted, left>>

(* A failure that is not about the upload: a lost connection, a timeout, a *)
(* busy relay.  The request may still reach the relay.                     *)
Fail(d) ==
  /\ worker[d].step = "waiting"
  /\ worker' = [worker EXCEPT ![d] = Over(@)]
  /\ link' = [link EXCEPT ![d] = NoCall]
  /\ \/ UNCHANGED <<late, left>>
     \/ /\ link[d].phase = "request"
        /\ Spend("late")
        /\ late' = late \cup {link[d]}
  /\ UNCHANGED <<durable, relay, emitted>>

(* _isolateRefusedUpload: download only next, narrow the batch to one, and *)
(* stop offering the one event that is refused alone.                      *)
QuarantineBatch(w) ==   \* broken: the batch is never narrowed down
  IF w.upload = {} THEN w
  ELSE [w EXCEPT !.downloadOnly = TRUE, !.quarantined = @ \cup w.upload]
Isolate(w) ==
  IF w.upload = {} THEN w
  ELSE [w EXCEPT !.downloadOnly = TRUE,
                 !.quarantined = IF Cardinality(w.upload) = 1
                                 THEN @ \cup w.upload ELSE @,
                 !.probing = Cardinality(w.upload) > 1]

(* A failure that is neither retryable nor about the credential. *)
Refused(d) ==
  /\ worker[d].step = "waiting"
  /\ link[d].phase = "refused"
  /\ worker' = [worker EXCEPT ![d] =
                  Over(IF @.current THEN Isolate(@) ELSE @)]
  /\ link' = [link EXCEPT ![d] = NoCall]
  /\ UNCHANGED <<durable, late, relay, emitted, left>>

(* The relay no longer reads the cursor: start over from the beginning. *)
CursorRefused(d) ==
  /\ worker[d].step = "waiting"
  /\ link[d].phase = "invalidCursor"
  /\ cursor' = IF worker[d].current
               THEN [cursor EXCEPT ![d] = NoCursor] ELSE cursor
  /\ worker' = [worker EXCEPT ![d] = Over(@)]
  /\ link' = [link EXCEPT ![d] = NoCall]
  /\ UNCHANGED <<journal, acked, late, relay, emitted, left>>

(* A response arrives; its events verify. *)
Answered(d) ==
  /\ worker[d].step = "waiting"
  /\ link[d].phase = "answer"
  /\ worker' = [worker EXCEPT ![d] =
       IF @.current
       THEN [@ EXCEPT !.step = "accepting", !.accepted = link[d].accepted,
                      !.received = link[d].rows, !.next = link[d].next]
       ELSE Over(@)]
  /\ link' = [link EXCEPT ![d] = NoCall]
  /\ UNCHANGED <<durable, late, relay, emitted, left>>

(* markAcknowledged, one accepted event at a time. *)
Acknowledge(d, e) ==
  /\ worker[d].step = "accepting"
  /\ worker[d].current
  /\ e \in worker[d].accepted
  /\ acked' = [acked EXCEPT ![d] = @ \cup {e}]
  /\ worker' = [worker EXCEPT ![d].accepted = @ \ {e}]
  /\ UNCHANGED <<journal, cursor, link, late, relay, emitted, left>>

AllAcknowledged(d) ==
  /\ worker[d].step = "accepting"
  /\ worker[d].current
  /\ worker[d].accepted = {}
  /\ worker' = [worker EXCEPT ![d].step = "receiving"]
  /\ UNCHANGED <<durable, link, late, relay, emitted, left>>

NextReceived(d) ==
  CHOOSE r \in worker[d].received : \A s \in worker[d].received : r.seq <= s.seq

ToHandOver(d, r) == TRUE              \* broken: known events as well
NewHere(d, r) == r.id \notin worker[d].known
Appended(d, r) == journal[d] \cup {r.id}

(* The downloaded events in order: a known one is passed over, a new one   *)
(* is appended as acknowledged (the append ignores an identity the journal *)
(* has got meanwhile) and then handed to the app.                          *)
Append(d) ==
  /\ worker[d].step = "receiving"
  /\ worker[d].current
  /\ worker[d].handing = {}
  /\ worker[d].received # {}
  /\ LET r == NextReceived(d)
         new == NewHere(d, r)
     IN /\ journal' = [journal EXCEPT ![d] = IF new THEN Appended(d, r) ELSE @]
        /\ acked' = [acked EXCEPT ![d] =
                       IF new /\ r.id \notin journal[d] THEN @ \cup {r.id} ELSE @]
        /\ worker' = [worker EXCEPT ![d] =
             [@ EXCEPT !.received = worker[d].received \ {r},
                       !.known = worker[d].known \cup {r.id},
                       !.handing = IF new THEN {r.id} ELSE {}]]
  /\ UNCHANGED <<cursor, link, late, relay, emitted, left>>

HandOver(d) ==
  /\ worker[d].step = "receiving"
  /\ worker[d].current
  /\ worker[d].handing # {}
  /\ emitted' = [emitted EXCEPT ![d] = @ \cup worker[d].handing]
  /\ worker' = [worker EXCEPT ![d].handing = {}]
  /\ UNCHANGED <<durable, link, late, relay, left>>

NothingInHand(d) == worker[d].handing = {}     \* broken: too early
AllReceived(d) == worker[d].handing = {} /\ worker[d].received = {}
ProbesNoMore(w) == FALSE            \* broken: a download ends it, too
ProbesOn(w) == w.probing /\ w.upload = {}

(* Everything is in the journal: save the cursor and finish.  An upload    *)
(* that went through ends the probing.                                     *)
SaveCursor(d) ==
  /\ worker[d].step = "receiving"
  /\ worker[d].current
  /\ AllReceived(d)
  /\ cursor' = [cursor EXCEPT ![d] = worker[d].next]
  /\ worker' = [worker EXCEPT ![d] =
       Over([@ EXCEPT !.probing = ProbesOn(worker[d])])]
  /\ UNCHANGED <<journal, acked, link, late, relay, emitted, left>>

(* start: a new generation, its memory cleared, its first synchronization  *)
(* called at once; the call returns if one is still under way.             *)
Start(d) ==
  /\ \/ ~worker[d].running /\ left' = left
     \/ worker[d].running /\ Spend("restart")
  /\ worker' = [worker EXCEPT ![d] =
       [@ EXCEPT !.running = TRUE, !.current = FALSE,
                 !.timer = (worker[d].step = "idle"),
                 !.probing = FALSE, !.downloadOnly = FALSE,
                 !.quarantined = {}]]
  /\ UNCHANGED <<durable, link, late, relay, emitted>>

Stop(d) ==
  /\ worker[d].running
  /\ Spend("restart")
  /\ worker' = [worker EXCEPT ![d] =
       [@ EXCEPT !.running = FALSE, !.current = FALSE, !.timer = FALSE]]
  /\ UNCHANGED <<durable, link, late, relay, emitted>>

(* The process dies: only the journal and the cursor are left. *)
Kill(d) ==
  /\ Spend("kill")
  /\ worker' = [worker EXCEPT ![d] = Stopped]
  /\ link' = [link EXCEPT ![d] = NoCall]
  /\ late' = IF link[d].phase = "request" THEN late \cup {link[d]} ELSE late
  /\ UNCHANGED <<durable, relay, emitted>>

-----------------------------------------------------------------------------
(***************************************************************************)
(* The relay.                                                              *)
(***************************************************************************)

ValidCursor(c) == c = NoCursor \/ c.epoch = epoch

(* The rows an accepted upload adds: the events it does not hold, numbered *)
(* in the order of the batch.                                              *)
StoredOne(upload) ==      \* broken: the rest of the batch is passed over
  {[seq |-> nextSeq, id |-> e] : e \in Oldest(upload \ Ids(log), 1)}
StoredAfterLast(upload) ==        \* broken: numbered after the last row left
  LET new == upload \ Ids(log)
      last == IF log = {} THEN 0 ELSE Max({r.seq : r \in log})
  IN {[seq |-> last + Cardinality({o \in new : o <= e}), id |-> e] : e \in new}
Stored(upload) ==
  LET new == upload \ Ids(log)
  IN {[seq |-> nextSeq + Cardinality({o \in new : o < e}), id |-> e] : e \in new}

Page(rows, c) ==
  LET visible == {r \in rows : r.seq > c.seq}
  IN {r \in visible :
        Cardinality({s \in visible : s.seq < r.seq}) < MaxDownload}

Last(rows, c) == IF rows = {} THEN c.seq ELSE Max({r.seq : r \in rows})

(* The effect of one call and the answer it gets. *)
Serve(req) ==
  IF ~ValidCursor(req.cursor)
  THEN [log |-> log, answer |-> [phase |-> "invalidCursor"]]
  ELSE IF req.upload \cap Poison # {}
  THEN [log |-> log, answer |-> [phase |-> "refused"]]
  ELSE LET rows == log \cup Stored(req.upload)
           page == Page(rows, req.cursor)
       IN [log |-> rows,
           answer |-> [phase |-> "answer", accepted |-> req.upload,
                       rows |-> page,
                       next |-> [epoch |-> epoch,
                                 seq |-> Last(page, req.cursor)]]]

Written(outcome) ==
  /\ log' = outcome.log
  /\ nextSeq' = nextSeq + Cardinality(outcome.log \ log)
  /\ minted' = IF outcome.answer.phase = "answer"
               THEN minted \cup {outcome.answer.next.seq} ELSE minted
  /\ everLogged' = everLogged \cup Ids(outcome.log)
  /\ UNCHANGED epoch

RelayServes(d) ==
  /\ link[d].phase = "request"
  /\ LET outcome == Serve(link[d])
     IN /\ Written(outcome)
        /\ link' = [link EXCEPT ![d] = outcome.answer]
  /\ UNCHANGED <<durable, worker, late, emitted, left>>

(* A request nobody waits for any more is served all the same, or lost. *)
RelayServesLate(req) ==
  /\ late' = late \ {req}
  /\ \/ Written(Serve(req))
     \/ UNCHANGED relay
  /\ UNCHANGED <<durable, worker, link, emitted, left>>

(* The ride's quota is exhausted for now (413). *)
RelayFull(d) ==
  /\ link[d].phase = "request"
  /\ link[d].upload # {}
  /\ Spend("full")
  /\ link' = [link EXCEPT ![d] = [phase |-> "refused"]]
  /\ UNCHANGED <<durable, worker, late, relay, emitted>>

(* A response this app cannot read: not JSON, too large, an event that     *)
(* does not verify.                                                        *)
Unreadable(d) ==
  /\ link[d].phase = "answer"
  /\ Spend("garble")
  /\ link' = [link EXCEPT ![d] = [phase |-> "refused"]]
  /\ UNCHANGED <<durable, worker, late, relay, emitted>>

(* Retention drops a row. *)
RelayForgets(r) ==
  /\ Spend("forget")
  /\ log' = log \ {r}
  /\ UNCHANGED <<durable, worker, link, late, nextSeq, minted, epoch, everLogged,
                 emitted>>

(* The relay comes back with another cursor key. *)
RelayRekeys ==
  /\ Spend("rekey")
  /\ epoch' = epoch + 1
  /\ UNCHANGED <<durable, worker, link, late, log, nextSeq, minted, everLogged,
                 emitted>>

-----------------------------------------------------------------------------
(* The timer that the last synchronization or start has set. *)
Poll(d) == worker[d].timer /\ Begin(d)

(* What a worker does by itself while a synchronization is under way. *)
Proceed(d) ==
  \/ Abandon(d) \/ Refused(d) \/ CursorRefused(d) \/ Answered(d)
  \/ (\E e \in Events : Acknowledge(d, e))
  \/ AllAcknowledged(d) \/ Append(d) \/ HandOver(d) \/ SaveCursor(d)

Next ==
  \/ \E d \in Devices, e \in Events : Record(d, e)
  \/ \E d, o \in Devices : \E e \in Events : ReceiveNearby(d, o, e)
  \/ \E d \in Devices :
       \/ Begin(d) \/ Fail(d) \/ Proceed(d)
       \/ Start(d) \/ Stop(d) \/ Kill(d)
       \/ RelayServes(d) \/ RelayFull(d) \/ Unreadable(d)
  \/ \E req \in late : RelayServesLate(req)
  \/ \E r \in log : RelayForgets(r)
  \/ RelayRekeys

Spec == Init /\ [][Next]_vars

(* Timers fire, awaited calls return, a stopped or killed app is opened    *)
(* again, and although calls may fail again and again the network does not *)
(* fail for ever: a device that keeps asking is served and hears of it.    *)
FairSpec ==
  /\ Spec
  /\ \A d \in Devices :
       /\ WF_vars(Poll(d))
       /\ WF_vars(~worker[d].running /\ Start(d))
       /\ WF_vars(Fail(d))
       /\ SF_vars(RelayServes(d))
       /\ SF_vars(Proceed(d))

-----------------------------------------------------------------------------
(* The durable cursor never passes an event the journal does not hold: a   *)
(* kill or a stop between two writes costs a repeated download, not an     *)
(* event (synchronizeNow appends before it saves the cursor).              *)
CursorCoversJournal ==
  \A d \in Devices, r \in log : r.seq <= cursor[d].seq => r.id \in journal[d]

(* An event the device will never upload again is one the relay has had,   *)
(* whatever became of the calls that carried it.                           *)
AckedWasStored == \A d \in Devices : acked[d] \subseteq everLogged

(* The app is handed an event once, also when a cursor is lost, a download *)
(* is repeated or a generation is abandoned half way, and only when the    *)
(* journal holds it already.                                               *)
HandedOnce ==
  [][\A d \in Devices : HandOver(d) =>
       worker[d].handing \cap emitted[d] = {} /\ worker[d].handing \subseteq journal[d]]_vars

(* A running worker always has a synchronization under way or one due, so  *)
(* no restart during a call and no wake that finds it busy leaves it deaf. *)
NeverUnscheduled ==
  \A d \in Devices :
    worker[d].running => worker[d].timer \/ worker[d].step # "idle"

(* Isolation gives up on the event at fault only ("finally quarantines the *)
(* single offender"), whatever else the batch held and in whichever order  *)
(* refusals, lost answers and restarts come.                               *)
OnlyOffendersQuarantined ==
  \A d \in Devices : worker[d].quarantined \subseteq Poison

(* Every event the relay can carry reaches every device, past refused      *)
(* events in the same queue, lost answers, kills and restarts.             *)
Delivered ==
  \A d \in Devices, e \in Events \ (Poison \cup Unsupported) :
    e \in journal[Author[e]] ~> e \in journal[d]

Journal == INSTANCE RideJournal
JournalSpec == Journal!Spec
=============================================================================
