----------------------- MODULE AlertDelivery_proofs -----------------------
(***************************************************************************)
(* Proofs about AlertDelivery for every number of alerts, workers, faults  *)
(* and edits, every schedule and every size of the windows and margins     *)
(* that ConstantsAssumption allows.                                        *)
(***************************************************************************)
EXTENDS AlertDelivery, TLAPS

(* A worker between its intent and the end of its send.                    *)
InHand(w) == job[w].pc \in {"intended", "asked", "sending"}

AttemptOf(w) == [alert |-> job[w].alert, at |-> job[w].at, owner |-> w]
AttemptBehind(r) == [alert |-> r.alert, at |-> r.at, owner |-> r.owner]

(* A message reached the recipient and nothing has been given up.          *)
Landed(a) == copies[a] > 0 /\ ~waived[a]

(* An attempt that only the recording of a delivery can still close, and   *)
(* one that not even that can close.                                       *)
Delivered(x) ==
    x.owner = Nobody \/ (job[x.owner].pc = "sending" /\ job[x.owner].reply = "taken")
OutOfReach(x) ==
    Delivered(x) /\ (x.owner = Nobody \/ ~job[x.owner].live)

(* The locks of a claim: nobody else changes what it decided on.           *)
LockInv ==
    /\ \A w \in Workers :
          job[w].live => /\ job[w].pc # "idle"
                         /\ Waiting(job[w].alert) /\ ~Stale(job[w].alert)
    /\ \A v, w \in Workers :
          job[v].live /\ job[w].live /\ job[v].alert = job[w].alert => v = w

(* Open attempts belong to a send in progress or to nobody, and a send in  *)
(* progress has its attempt open unless it was given up.                   *)
AttemptInv ==
    /\ \A x \in attempts : x.owner # Nobody =>
          InHand(x.owner) /\ x.alert = job[x.owner].alert
    /\ \A w \in Workers : InHand(w) =>
          /\ job[w].at <= now
          /\ waived[job[w].alert] \/ AttemptOf(w) \in attempts

(* Requests on the wire.                                                   *)
WireInv ==
    /\ \A r \in wire :
          /\ r.at <= now /\ now <= r.by /\ r.by <= now + ProviderTimeout
          /\ waived[r.alert] \/ AttemptBehind(r) \in attempts
          /\ r.owner # Nobody =>
                /\ job[r.owner].pc = "sending" /\ job[r.owner].reply = "none"
                /\ job[r.owner].alert = r.alert
          /\ Landed(r.alert) => r.by <= accepted[r.alert] + DedupWindow
    /\ \A r, s \in wire : r.owner = s.owner /\ r.owner # Nobody => r = s
    /\ \A w \in Workers : job[w].pc # "sending" => job[w].reply = "none"

(* What a clear answer of the send boundary is still worth.                *)
AskInv ==
    \A w \in Workers : job[w].pc = "asked" /\ job[w].verdict = "clear" =>
        /\ job[w].askedAt <= now
        /\ Landed(job[w].alert) =>
              \/ job[w].askedAt + BoundaryMargin
                    <= accepted[job[w].alert] + DedupWindow
              \/ \E x \in attempts :
                    /\ x.alert = job[w].alert
                    /\ x.at + DedupWindow < job[w].askedAt + BoundaryMargin
                    /\ OutOfReach(x)

(* A message that landed did so once, and its row or an attempt shows it.  *)
CoverInv ==
    \A a \in Alerts : Landed(a) =>
        /\ copies[a] = 1
        /\ \/ row[a].status = "sent"
           \/ \E x \in attempts :
                 x.alert = a /\ x.at <= accepted[a] /\ Delivered(x)

(* A clear answer and a request both end before the filing window does.    *)
ShutInv ==
    /\ \A w \in Workers :
          job[w].pc = "asked" /\ job[w].verdict = "clear"
          /\ job[w].closes # NoWindow =>
             job[w].askedAt + BoundaryMargin < job[w].closes
    /\ \A r \in wire : r.closes # NoWindow => r.by < r.closes

(* Only an answer the provider gave makes a worker record a delivery.      *)
SentInv ==
    /\ SentWasTaken
    /\ \A w \in Workers : job[w].pc = "sending" /\ job[w].reply = "taken" =>
          copies[job[w].alert] > 0

(* A clear answer given while nothing released the hold found no attempt   *)
(* past the cutoff, and what is recorded later is younger still.           *)
ReleaseInv ==
    \A w \in Workers :
        job[w].pc = "asked" /\ job[w].verdict = "clear" /\ ~job[w].released =>
            \A x \in Open(job[w].alert) :
                job[w].askedAt + BoundaryMargin <= x.at + DedupWindow

----------------------------------------------------------------------------
(* Types.                                                                  *)

LEMMA IdleIsAJob == IdleJob \in Job /\ IdleJob.pc = "idle" /\ IdleJob.live = FALSE
BY ConstantsAssumption DEF IdleJob, Job

LEMMA Margins ==
    /\ DedupWindow \in Nat /\ HoldLimit \in Nat /\ ProviderTimeout \in Nat
    /\ HandoffBudget \in Nat /\ BoundaryMargin \in Nat /\ ClaimMargin \in Nat
    /\ DayLength \in Nat
    /\ BoundaryMargin = ProviderTimeout + HandoffBudget
    /\ BoundaryMargin <= DedupWindow
BY ConstantsAssumption DEF BoundaryMargin, ClaimMargin

(* A failed send leaves a well-typed row, whatever the backoff schedule.   *)
LEMMA FailedRow ==
    ASSUME TypeOK, NEW a \in Alerts, MarkFailed(a)
    PROVE  /\ row' \in [Alerts -> Row]
           /\ \A b \in Alerts : b # a => row'[b] = row[b]
           /\ row'[a].status = "failed"
<1> DEFINE n == IF row[a].failures < Len(Backoff) THEN row[a].failures + 1
                                                 ELSE Len(Backoff)
<1>1. row[a] \in Row /\ now \in Nat
  BY DEF TypeOK
<1>2. Len(Backoff) \in Nat /\ Len(Backoff) > 0
  BY ConstantsAssumption
<1>3. n \in 1 .. Len(Backoff)
  BY <1>1, <1>2 DEF Row
<1>4. Backoff[n] \in Nat
  BY <1>3, ConstantsAssumption, SMTT(30)
<1> HIDE DEF n
<1>5. now + Backoff[n] \in Nat /\ n \in Nat
  BY <1>1, <1>2, <1>3, <1>4
<1>6. row' = [row EXCEPT ![a] = [@ EXCEPT !.status = "failed", !.failures = n,
                                          !.nextAttempt = now + Backoff[n]]]
  BY DEF MarkFailed, n, TypeOK
<1>7. [row[a] EXCEPT !.status = "failed", !.failures = n,
                     !.nextAttempt = now + Backoff[n]] \in Row
  BY <1>1, <1>5 DEF Row, Status
<1> QED BY <1>1, <1>6, <1>7 DEF TypeOK, Row

LEMMA SentRow ==
    ASSUME TypeOK, NEW a \in Alerts, MarkSent(a)
    PROVE  /\ row' \in [Alerts -> Row]
           /\ \A b \in Alerts : b # a => row'[b] = row[b]
           /\ row'[a].status = "sent"
BY DEF TypeOK, MarkSent, Row, Status

LEMMA RescheduledRow ==
    ASSUME TypeOK, NEW r \in Row, NEW s \in Schedules
    PROVE  Rescheduled(r, s) \in Row
<1> DEFINE fresh == r.status \in {"absent", "cancelled"} \/ r.slot # s.slot
<1>1. s.slot \in Nat /\ s.closes \in Nat \cup {NoWindow}
  BY ConstantsAssumption
<1>2. now \in Nat /\ revision \in Nat
  BY DEF TypeOK
<1>3. Later(s.slot, now) \in Nat
  BY <1>1, <1>2 DEF Later
<1> HIDE DEF fresh
<1> QED BY <1>1, <1>2, <1>3 DEF Rescheduled, Row, Status, fresh

LEMMA OrphanTypes ==
    ASSUME TypeOK, NEW w \in Workers
    PROVE  Orphan(attempts, w) \subseteq Attempt /\ Orphan(wire, w) \subseteq Request
<1>1. ASSUME NEW x \in attempts
      PROVE  [x EXCEPT !.owner = Nobody] \in Attempt
  BY <1>1 DEF TypeOK, Attempt
<1>2. ASSUME NEW r \in wire
      PROVE  [r EXCEPT !.owner = Nobody] \in Request
  BY <1>2 DEF TypeOK, Request
<1> QED BY <1>1, <1>2 DEF Orphan, TypeOK

LEMMA IntentType ==
    ASSUME TypeOK, NEW w \in Workers
    PROVE  /\ IntentOf(w) \in Attempt
           /\ [IntentOf(w) EXCEPT !.owner = Nobody] \in Attempt
           /\ job[w].alert \in Alerts
BY DEF TypeOK, IntentOf, Attempt, Job

LEMMA ReleasedIsBoolean == \A a : Released(a) \in BOOLEAN
BY DEF Released

LEMMA TypeStep == TypeOK /\ [Next]_vars => TypeOK'
<1> SUFFICES ASSUME TypeOK, [Next]_vars PROVE TypeOK'
  OBVIOUS
<1> USE IdleIsAJob, Margins DEF providerVars
<1>1. CASE Tick
  BY <1>1 DEF Tick, TypeOK
<1>2. CASE EditEvent
  BY <1>2 DEF EditEvent, TypeOK
<1>3. ASSUME NEW wanted \in SUBSET Alerts,
             NEW schedule \in [wanted -> Schedules],
             Review(wanted, schedule)
      PROVE  TypeOK'
  <2>1. ASSUME NEW a \in Alerts PROVE row'[a] \in Row
    <3>1. row[a] \in Row
      BY DEF TypeOK
    <3>2. a \in wanted => Rescheduled(row[a], schedule[a]) \in Row
      BY <3>1, RescheduledRow
    <3>3. [row[a] EXCEPT !.status = "cancelled"] \in Row
      BY <3>1 DEF Row, Status
    <3> QED BY <1>3, <3>1, <3>2, <3>3 DEF Review
  <2>2. row' \in [Alerts -> Row]
    BY <1>3, <2>1 DEF Review
  <2>3. waived' \in [Alerts -> BOOLEAN]
    BY <1>3 DEF Review, TypeOK
  <2> QED BY <1>3, <2>2, <2>3 DEF Review, TypeOK
<1>4. ASSUME NEW w \in Workers, NEW a \in Alerts, Expire(w, a)
      PROVE  TypeOK'
  BY <1>4 DEF Expire, TypeOK, Row, Status
<1>5. ASSUME NEW w \in Workers, NEW a \in Alerts, Claim(w, a)
      PROVE  TypeOK'
  <2>1. [IdleJob EXCEPT !.pc = "claimed", !.alert = a, !.live = TRUE] \in Job
    BY DEF Job
  <2> QED BY <1>5, <2>1 DEF Claim, TypeOK
<1>6. ASSUME NEW w \in Workers, SendLocally(w)
      PROVE  TypeOK'
  <2>1. job[w].alert \in Alerts
    BY IntentType
  <2>2. row' \in [Alerts -> Row]
    BY <1>6, <2>1, SentRow, FailedRow DEF SendLocally
  <2> QED BY <1>6, <2>2 DEF SendLocally, Release, TypeOK
<1>7. ASSUME NEW w \in Workers, RecordIntent(w)
      PROVE  TypeOK'
  <2>1. IntentOf(w) \in Attempt /\ job[w].alert \in Alerts
    BY IntentType
  <2> DEFINE next == [job[w] EXCEPT !.pc = "intended", !.at = now]
  <2>a. next \in Job
    BY DEF TypeOK, Job
  <2>b. job' = [job EXCEPT ![w] = next]
    BY <1>7 DEF RecordIntent, TypeOK
  <2>2. job' \in [Workers -> Job]
    BY <2>a, <2>b DEF TypeOK
  <2>3. waived' \in [Alerts -> BOOLEAN]
    BY <1>7, <2>1 DEF RecordIntent, Supersede, TypeOK
  <2> QED BY <1>7, <2>1, <2>2, <2>3 DEF RecordIntent, Supersede, TypeOK
<1>8. ASSUME NEW w \in Workers, RefuseIntent(w)
      PROVE  TypeOK'
  BY <1>8 DEF RefuseIntent, Release, TypeOK
<1>9. ASSUME NEW w \in Workers, LoseIntent(w)
      PROVE  TypeOK'
  <2>1. /\ [IntentOf(w) EXCEPT !.owner = Nobody] \in Attempt
        /\ job[w].alert \in Alerts
    BY IntentType
  <2>2. attempts' \subseteq Attempt
    BY <1>9, <2>1 DEF LoseIntent, Supersede, TypeOK
  <2>3. waived' \in [Alerts -> BOOLEAN]
    BY <1>9, <2>1 DEF LoseIntent, Supersede, TypeOK
  <2> QED BY <1>9, <2>2, <2>3 DEF LoseIntent, Fault, Release, TypeOK
<1>10. ASSUME NEW w \in Workers, AskBoundary(w)
       PROVE  TypeOK'
  <2>1. job[w].alert \in Alerts /\ row[job[w].alert] \in Row
    BY IntentType DEF TypeOK
  <2>2. BoundaryVerdict(job[w].alert) \in {"shut", "held", "edge", "clear"}
    BY DEF BoundaryVerdict
  <2> DEFINE next == [job[w] EXCEPT !.pc = "asked", !.askedAt = now,
                                    !.closes = row[job[w].alert].closes,
                                    !.verdict = BoundaryVerdict(job[w].alert),
                                    !.released = Released(job[w].alert)]
  <2>a. next \in Job
    BY <2>1, <2>2, ReleasedIsBoolean, ZenonT(40) DEF TypeOK, Job, Row
  <2>b. job' = [job EXCEPT ![w] = next]
    BY <1>10 DEF AskBoundary, TypeOK
  <2>3. job' \in [Workers -> Job]
    BY <2>a, <2>b DEF TypeOK
  <2> QED BY <1>10, <2>3 DEF AskBoundary, TypeOK
<1>11. ASSUME NEW w \in Workers, RefuseAtBoundary(w)
       PROVE  TypeOK'
  <2>1. job[w].alert \in Alerts
    BY IntentType
  <2>2. row' \in [Alerts -> Row]
    BY <1>11, <2>1, SMTT(30) DEF RefuseAtBoundary, TypeOK, Row, Status
  <2> QED BY <1>11, <2>2 DEF RefuseAtBoundary, Close, Release, TypeOK
<1>12. ASSUME NEW w \in Workers, FailAtBoundary(w)
       PROVE  TypeOK'
  <2>1. attempts' \subseteq Attempt
    BY <1>12, OrphanTypes DEF FailAtBoundary, Close, LeaveOpen, TypeOK
  <2>2. faults' \in Nat
    BY <1>12 DEF FailAtBoundary, Fault, TypeOK
  <2> QED BY <1>12, <2>1, <2>2 DEF FailAtBoundary, Release, TypeOK
<1>13. ASSUME NEW w \in Workers, HandOff(w)
       PROVE  TypeOK'
  <2>1. job[w] \in Job /\ now \in Nat
    BY DEF TypeOK
  <2>2. wire' \subseteq Request
    BY <1>13, <2>1 DEF HandOff, TypeOK, Request, Job
  <2>3. waived' \in [Alerts -> BOOLEAN]
    BY <1>13, <2>1 DEF HandOff, TypeOK, Job
  <2>4. job' \in [Workers -> Job]
    BY <1>13, <2>1 DEF HandOff, TypeOK, Job
  <2> QED BY <1>13, <2>2, <2>3, <2>4 DEF HandOff, TypeOK
<1>14. ASSUME NEW r \in wire, Decide(r)
       PROVE  TypeOK'
  <2>1. r.alert \in Alerts
    BY DEF TypeOK, Request
  <2>2. ASSUME NEW answer \in {"taken", "refused"}, Reply(r, answer)
        PROVE  job' \in [Workers -> Job]
    BY <2>2 DEF Reply, TypeOK, Job
  <2>3. CASE Take(r)
    <3>1. job' \in [Workers -> Job]
      BY <2>2, <2>3 DEF Take
    <3>2. accepted' \in [Alerts -> Nat] /\ copies' \in [Alerts -> Nat]
      BY <2>1, <2>3 DEF Take, TypeOK
    <3> QED BY <2>3, <3>1, <3>2 DEF Take, TypeOK
  <2>4. CASE Refuse(r)
    <3>1. job' \in [Workers -> Job]
      BY <2>2, <2>4 DEF Refuse
    <3> QED BY <2>4, <3>1 DEF Refuse, TypeOK
  <2>5. CASE Drop(r)
    BY <2>5 DEF Drop, TypeOK
  <2> QED BY <1>14, <2>3, <2>4, <2>5 DEF Decide
<1>15. ASSUME NEW w \in Workers, RecordSent(w)
       PROVE  TypeOK'
  BY <1>15, IntentType, SentRow DEF RecordSent, Close, Release, TypeOK
<1>16. ASSUME NEW w \in Workers, RecordRefusal(w)
       PROVE  TypeOK'
  BY <1>16, IntentType, FailedRow DEF RecordRefusal, Close, Release, TypeOK
<1>17. ASSUME NEW w \in Workers, RecordUnknown(w)
       PROVE  TypeOK'
  BY <1>17, IntentType, FailedRow, OrphanTypes
     DEF RecordUnknown, LeaveOpen, Release, TypeOK
<1>18. ASSUME NEW w \in Workers, LoseOutcome(w)
       PROVE  TypeOK'
  <2>1. attempts' \subseteq Attempt
    BY <1>18, OrphanTypes DEF LoseOutcome, Close, LeaveOpen, TypeOK
  <2>2. faults' \in Nat
    BY <1>18 DEF LoseOutcome, Fault, TypeOK
  <2> QED BY <1>18, <2>1, <2>2, OrphanTypes DEF LoseOutcome, Release, TypeOK
<1>19. ASSUME NEW w \in Workers, Crash(w)
       PROVE  TypeOK'
  BY <1>19, OrphanTypes DEF Crash, Fault, LeaveOpen, Release, TypeOK
<1>20. ASSUME NEW w \in Workers, LoseConnection(w)
       PROVE  TypeOK'
  <2>1. [job[w] EXCEPT !.live = FALSE] \in Job
    BY ZenonT(40) DEF TypeOK, Job
  <2>2. job' = [job EXCEPT ![w] = [job[w] EXCEPT !.live = FALSE]]
    BY <1>20 DEF LoseConnection, TypeOK
  <2>3. faults' \in Nat
    BY <1>20 DEF LoseConnection, Fault, TypeOK
  <2> QED BY <1>20, <2>1, <2>2, <2>3 DEF LoseConnection, TypeOK
<1>21. CASE UNCHANGED vars
  BY <1>21 DEF vars, TypeOK
<1> QED
  BY <1>1, <1>2, <1>3, <1>4, <1>5, <1>6, <1>7, <1>8, <1>9, <1>10, <1>11,
     <1>12, <1>13, <1>14, <1>15, <1>16, <1>17, <1>18, <1>19, <1>20, <1>21
     DEF Next, Organizer, Serve, Work, Fail, Provider

(* Every state of every run has the types the database schema and the      *)
(* worker's code give it.                                                  *)
THEOREM TypeCorrect == Spec => []TypeOK
<1>1. Init => TypeOK
  BY ConstantsAssumption, IdleIsAJob
     DEF Init, TypeOK, Row, Status, Attempt, Request
<1> QED BY <1>1, TypeStep, PTL DEF Spec

----------------------------------------------------------------------------
(* The locks.                                                              *)

(* How a worker's step changes job: its own entry and nothing else.        *)
LEMMA ReleaseJob ==
    ASSUME TypeOK, NEW w \in Workers, Release(w)
    PROVE  /\ job'[w].pc = "idle" /\ ~job'[w].live /\ job'[w].reply = "none"
           /\ \A v \in Workers : v # w => job'[v] = job[v]
<1>1. IdleJob.reply = "none"
  BY DEF IdleJob
<1> QED BY <1>1, IdleIsAJob DEF Release, TypeOK

LEMMA ClaimJob ==
    ASSUME TypeOK, NEW w \in Workers, NEW a \in Alerts, Claim(w, a)
    PROVE  /\ job'[w].pc = "claimed" /\ job'[w].alert = a
           /\ job'[w].reply = "none"
           /\ \A v \in Workers : v # w => job'[v] = job[v]
<1>1. IdleJob.reply = "none"
  BY DEF IdleJob
<1> QED BY <1>1, IdleIsAJob DEF Claim, TypeOK, Job

LEMMA IntentJob ==
    ASSUME TypeOK, NEW w \in Workers, RecordIntent(w)
    PROVE  /\ job'[w].pc = "intended" /\ job'[w].at = now
           /\ job'[w].alert = job[w].alert
           /\ job'[w].live = job[w].live /\ job'[w].reply = job[w].reply
           /\ \A v \in Workers : v # w => job'[v] = job[v]
<1>1. job' = [job EXCEPT ![w] = [job[w] EXCEPT !.pc = "intended", !.at = now]]
  BY DEF RecordIntent, TypeOK
<1>2. job[w] \in Job
  BY DEF TypeOK
<1> QED BY <1>1, <1>2 DEF TypeOK, Job

LEMMA AskJob ==
    ASSUME TypeOK, NEW w \in Workers, AskBoundary(w)
    PROVE  /\ job'[w].pc = "asked" /\ job'[w].askedAt = now
           /\ job'[w].closes = row[job[w].alert].closes
           /\ job'[w].verdict = BoundaryVerdict(job[w].alert)
           /\ job'[w].released = Released(job[w].alert)
           /\ job'[w].at = job[w].at /\ job'[w].alert = job[w].alert
           /\ job'[w].live = job[w].live /\ job'[w].reply = job[w].reply
           /\ \A v \in Workers : v # w => job'[v] = job[v]
<1>1. job' = [job EXCEPT ![w] =
                [job[w] EXCEPT !.pc = "asked", !.askedAt = now,
                               !.closes = row[job[w].alert].closes,
                               !.verdict = BoundaryVerdict(job[w].alert),
                               !.released = Released(job[w].alert)]]
  BY DEF AskBoundary, TypeOK
<1>2. job[w] \in Job
  BY DEF TypeOK
<1> QED BY <1>1, <1>2 DEF TypeOK, Job

LEMMA HandOffJob ==
    ASSUME TypeOK, NEW w \in Workers, HandOff(w)
    PROVE  /\ job'[w].pc = "sending"
           /\ job'[w].at = job[w].at /\ job'[w].alert = job[w].alert
           /\ job'[w].live = job[w].live /\ job'[w].reply = job[w].reply
           /\ \A v \in Workers : v # w => job'[v] = job[v]
<1>1. job' = [job EXCEPT ![w] = [job[w] EXCEPT !.pc = "sending",
                                               !.released = FALSE]]
  BY DEF HandOff, TypeOK
<1>2. job[w] \in Job
  BY DEF TypeOK
<1> QED BY <1>1, <1>2 DEF TypeOK, Job

LEMMA LostConnectionJob ==
    ASSUME TypeOK, NEW w \in Workers, LoseConnection(w)
    PROVE  /\ job'[w] = [job[w] EXCEPT !.live = FALSE]
           /\ ~job'[w].live
           /\ job'[w].pc = job[w].pc /\ job'[w].alert = job[w].alert
           /\ job'[w].at = job[w].at /\ job'[w].askedAt = job[w].askedAt
           /\ job'[w].closes = job[w].closes
           /\ job'[w].verdict = job[w].verdict
           /\ job'[w].released = job[w].released
           /\ job'[w].reply = job[w].reply
           /\ \A v \in Workers : v # w => job'[v] = job[v]
<1>1. job' = [job EXCEPT ![w] = [job[w] EXCEPT !.live = FALSE]]
  BY DEF LoseConnection, TypeOK
<1>2. job[w] \in Job
  BY DEF TypeOK
<1> QED BY <1>1, <1>2 DEF TypeOK, Job

(* The provider's answer touches one field of one worker.                  *)
LEMMA DecideJob ==
    ASSUME TypeOK, NEW r \in wire, Decide(r), NEW v \in Workers
    PROVE  /\ job'[v].pc = job[v].pc /\ job'[v].alert = job[v].alert
           /\ job'[v].live = job[v].live /\ job'[v].at = job[v].at
           /\ job'[v].askedAt = job[v].askedAt
           /\ job'[v].closes = job[v].closes
           /\ job'[v].verdict = job[v].verdict
           /\ job'[v].released = job[v].released
           /\ v # r.owner => job'[v].reply = job[v].reply
<1>1. job[v] \in Job
  BY DEF TypeOK
<1>2. \/ job' = job
      \/ /\ r.owner \in Workers
         /\ \E answer \in {"taken", "refused"} :
               job' = [job EXCEPT ![r.owner] = [job[r.owner] EXCEPT !.reply = answer]]
  BY DEF Decide, Take, Refuse, Drop, Reply, TypeOK
<1> QED BY <1>1, <1>2 DEF TypeOK, Job

LEMMA LockStep == TypeOK /\ LockInv /\ [Next]_vars => LockInv'
<1> SUFFICES ASSUME TypeOK, LockInv, [Next]_vars PROVE LockInv'
  OBVIOUS
<1> USE DEF LockInv, Waiting, Stale
<1>0. \A w \in Workers : job[w] \in Job /\ job[w].alert \in Alerts
  BY IntentType DEF TypeOK
<1>1. CASE Tick
  BY <1>1 DEF Tick
<1>2. CASE EditEvent
  BY <1>2 DEF EditEvent, EventLockFree, Holders
<1>3. ASSUME NEW wanted \in SUBSET Alerts,
             NEW schedule \in [wanted -> Schedules],
             Review(wanted, schedule)
      PROVE  LockInv'
  BY <1>3 DEF Review, EventLockFree, Holders
<1>4. ASSUME NEW w \in Workers, NEW a \in Alerts, Expire(w, a)
      PROVE  LockInv'
  <2>1. \A v \in Workers : job[v].live => job[v].alert # a
    BY <1>4 DEF Expire, Claimable, AlertLockFree, Holders
  <2>2. \A b \in Alerts : b # a => row'[b] = row[b]
    BY <1>4 DEF Expire, TypeOK
  <2> QED BY <1>0, <1>4, <2>1, <2>2 DEF Expire
<1>5. ASSUME NEW w \in Workers, NEW a \in Alerts, Claim(w, a)
      PROVE  LockInv'
  <2>1. \A v \in Workers : job[v].live => job[v].alert # a
    BY <1>5 DEF Claim, Claimable, AlertLockFree, Holders
  <2>2. Waiting(a) /\ ~Stale(a)
    BY <1>5 DEF Claim, Claimable, Due
  <2>3. /\ job'[w].pc = "claimed" /\ job'[w].alert = a
        /\ \A v \in Workers : v # w => job'[v] = job[v]
    BY <1>5, ClaimJob
  <2>4. UNCHANGED <<row, revision>>
    BY <1>5 DEF Claim
  <2> QED BY <1>0, <2>1, <2>2, <2>3, <2>4
(* The steps that end a worker's transaction, with what they write to the  *)
(* row of the alert they held.                                             *)
<1>6. ASSUME NEW w \in Workers, Release(w), UNCHANGED revision,
             \A b \in Alerts :
                row'[b] = row[b] \/ (job[w].live /\ b = job[w].alert)
      PROVE  LockInv'
  <2>1. /\ ~job'[w].live
        /\ \A v \in Workers : v # w => job'[v] = job[v]
    BY <1>6, ReleaseJob
  <2>2. ASSUME NEW v \in Workers, job'[v].live
        PROVE  v # w /\ job[v].live /\ job'[v] = job[v]
               /\ row'[job[v].alert] = row[job[v].alert]
    BY <1>0, <1>6, <2>1, <2>2
  <2> QED BY <1>6, <2>1, <2>2
<1>7. ASSUME NEW w \in Workers, SendLocally(w)
      PROVE  LockInv'
  BY <1>0, <1>6, <1>7, SentRow, FailedRow DEF SendLocally
(* The steps in which it keeps what it holds.                              *)
<1>8. ASSUME NEW w \in Workers, UNCHANGED <<row, revision>>,
             job'[w].alert = job[w].alert, job'[w].pc # "idle",
             job'[w].live => job[w].live,
             \A v \in Workers : v # w => job'[v] = job[v]
      PROVE  LockInv'
  BY <1>8
<1>9. ASSUME NEW w \in Workers, RecordIntent(w)
      PROVE  LockInv'
  BY <1>8, <1>9, IntentJob DEF RecordIntent
<1>10. ASSUME NEW w \in Workers, RefuseIntent(w) \/ LoseIntent(w)
       PROVE  LockInv'
  BY <1>6, <1>10 DEF RefuseIntent, LoseIntent
<1>11. ASSUME NEW w \in Workers, AskBoundary(w)
       PROVE  LockInv'
  BY <1>8, <1>11, AskJob DEF AskBoundary
<1>12. ASSUME NEW w \in Workers, RefuseAtBoundary(w)
       PROVE  LockInv'
  <2>1. \A b \in Alerts :
           row'[b] = row[b] \/ (job[w].live /\ b = job[w].alert)
    BY <1>12 DEF RefuseAtBoundary, TypeOK
  <2> QED BY <1>6, <1>12, <2>1 DEF RefuseAtBoundary
<1>13. ASSUME NEW w \in Workers, FailAtBoundary(w) \/ LoseOutcome(w) \/ Crash(w)
       PROVE  LockInv'
  BY <1>6, <1>13 DEF FailAtBoundary, LoseOutcome, Crash
<1>14. ASSUME NEW w \in Workers, HandOff(w)
       PROVE  LockInv'
  BY <1>8, <1>14, HandOffJob DEF HandOff
<1>15. ASSUME NEW r \in wire, Decide(r)
       PROVE  LockInv'
  <2>1. \A v \in Workers : /\ job'[v].pc = job[v].pc
                           /\ job'[v].alert = job[v].alert
                           /\ job'[v].live = job[v].live
    BY <1>15, DecideJob
  <2>2. UNCHANGED <<row, revision>>
    BY <1>15 DEF Decide, Take, Refuse, Drop
  <2> QED BY <2>1, <2>2
<1>16. ASSUME NEW w \in Workers, RecordSent(w)
       PROVE  LockInv'
  BY <1>0, <1>6, <1>16, SentRow DEF RecordSent
<1>17. ASSUME NEW w \in Workers, RecordRefusal(w) \/ RecordUnknown(w)
       PROVE  LockInv'
  BY <1>0, <1>6, <1>17, FailedRow DEF RecordRefusal, RecordUnknown
<1>18. ASSUME NEW w \in Workers, LoseConnection(w)
       PROVE  LockInv'
  BY <1>8, <1>18, LostConnectionJob DEF LoseConnection
<1>19. CASE UNCHANGED vars
  BY <1>19 DEF vars
<1> QED
  BY <1>1, <1>2, <1>3, <1>4, <1>5, <1>7, <1>9, <1>10, <1>11, <1>12, <1>13,
     <1>14, <1>15, <1>16, <1>17, <1>18, <1>19
     DEF Next, Organizer, Serve, Work, Fail, Provider

----------------------------------------------------------------------------
(* The attempts.                                                           *)

(* What closing and orphaning do to the open attempts.                     *)
LEMMA OrphanMembers ==
    ASSUME TypeOK, NEW w \in Workers
    PROVE  /\ \A y \in Orphan(attempts, w) : \E x \in attempts :
                 /\ y.alert = x.alert /\ y.at = x.at
                 /\ y.owner = IF x.owner = w THEN Nobody ELSE x.owner
           /\ \A x \in attempts :
                 [alert |-> x.alert, at |-> x.at,
                  owner |-> IF x.owner = w THEN Nobody ELSE x.owner]
                     \in Orphan(attempts, w)
<1>1. ASSUME NEW x \in attempts
      PROVE  (IF x.owner = w THEN [x EXCEPT !.owner = Nobody] ELSE x)
             = [alert |-> x.alert, at |-> x.at,
                owner |-> IF x.owner = w THEN Nobody ELSE x.owner]
  <2>1. x \in Attempt
    BY <1>1 DEF TypeOK
  <2> QED BY <2>1 DEF Attempt
<1>2. ASSUME NEW y \in Orphan(attempts, w)
      PROVE  \E x \in attempts :
                 y = IF x.owner = w THEN [x EXCEPT !.owner = Nobody] ELSE x
  BY <1>2 DEF Orphan
<1>3. ASSUME NEW x \in attempts
      PROVE  (IF x.owner = w THEN [x EXCEPT !.owner = Nobody] ELSE x)
                \in Orphan(attempts, w)
  BY <1>3 DEF Orphan
<1>4. ASSUME NEW y \in Orphan(attempts, w)
      PROVE  \E x \in attempts :
                 /\ y.alert = x.alert /\ y.at = x.at
                 /\ y.owner = IF x.owner = w THEN Nobody ELSE x.owner
  <2>1. PICK x \in attempts :
                 y = IF x.owner = w THEN [x EXCEPT !.owner = Nobody] ELSE x
    BY <1>2
  <2>2. y = [alert |-> x.alert, at |-> x.at,
             owner |-> IF x.owner = w THEN Nobody ELSE x.owner]
    BY <1>1, <2>1
  <2> QED BY <2>2
<1>5. ASSUME NEW x \in attempts
      PROVE  [alert |-> x.alert, at |-> x.at,
              owner |-> IF x.owner = w THEN Nobody ELSE x.owner]
                \in Orphan(attempts, w)
  BY <1>1, <1>3
<1> QED BY <1>4, <1>5

LEMMA OrphanRequests ==
    ASSUME TypeOK, NEW w \in Workers
    PROVE  \A s \in Orphan(wire, w) : \E r \in wire :
              /\ s.alert = r.alert /\ s.at = r.at /\ s.by = r.by
              /\ s.closes = r.closes
              /\ s.owner = IF r.owner = w THEN Nobody ELSE r.owner
              /\ s.owner # Nobody => s = r
<1> SUFFICES ASSUME NEW s \in Orphan(wire, w)
             PROVE  \E r \in wire :
                       /\ s.alert = r.alert /\ s.at = r.at /\ s.by = r.by
                       /\ s.closes = r.closes
                       /\ s.owner = IF r.owner = w THEN Nobody ELSE r.owner
                       /\ s.owner # Nobody => s = r
  OBVIOUS
<1>1. PICK r \in wire : s = IF r.owner = w THEN [r EXCEPT !.owner = Nobody] ELSE r
  BY DEF Orphan
<1>2. r \in Request
  BY DEF TypeOK
<1>3. CASE r.owner = w
  BY <1>1, <1>2, <1>3 DEF Request
<1>4. CASE r.owner # w
  BY <1>1, <1>4
<1> QED BY <1>3, <1>4

(* Giving an alert's older attempts up is noted in waived, whoever does it.*)
LEMMA SupersedeMarks ==
    ASSUME TypeOK, NEW a \in Alerts, NEW added, Supersede(a, added)
    PROVE  /\ \A b \in Alerts : waived[b] => waived'[b]
           /\ \A b \in Alerts : b # a => waived'[b] = waived[b]
           /\ \A x \in attempts : x \in attempts' \/ (x.alert = a /\ waived'[a])
           /\ added \subseteq attempts'
           /\ \A x \in attempts' : x \in attempts \/ x \in added
<1>1. waived' = [waived EXCEPT ![a] = waived[a] \/ Overtaken(a) # {}]
  BY DEF Supersede
<1>2. waived'[a] = (waived[a] \/ Overtaken(a) # {})
  BY <1>1 DEF TypeOK
<1>3. \A b \in Alerts : b # a => waived'[b] = waived[b]
  BY <1>1 DEF TypeOK
<1>4. \A x \in Overtaken(a) : x.alert = a
  BY DEF Overtaken, Open
<1>5. attempts' = (attempts \ Overtaken(a)) \cup added
  BY DEF Supersede
<1>6. waived[a] \in BOOLEAN /\ waived'[a] \in BOOLEAN
  BY <1>2 DEF TypeOK
<1>7. \A x \in attempts : x \in attempts' \/ (x.alert = a /\ waived'[a])
  BY <1>2, <1>4, <1>5
<1> QED BY <1>2, <1>3, <1>5, <1>7

(* Closing or orphaning a worker's attempt leaves the others' alone.       *)
LEMMA OthersKeepTheirs ==
    ASSUME TypeOK, NEW w \in Workers, Close(w) \/ LeaveOpen(w)
    PROVE  /\ \A x \in attempts' :
                 x.owner = Nobody \/ (x \in attempts /\ x.owner # w)
           /\ \A x \in attempts : x.owner = w \/ x \in attempts'
<1>1. CASE Close(w)
  BY <1>1 DEF Close
<1>2. CASE LeaveOpen(w)
  <2>1. attempts' = Orphan(attempts, w)
    BY <1>2 DEF LeaveOpen
  <2>2. ASSUME NEW y \in attempts'
        PROVE  y.owner = Nobody \/ (y \in attempts /\ y.owner # w)
    <3>1. PICK x \in attempts :
             y = IF x.owner = w THEN [x EXCEPT !.owner = Nobody] ELSE x
      BY <2>1, <2>2 DEF Orphan
    <3>2. x \in Attempt
      BY DEF TypeOK
    <3> QED BY <3>1, <3>2 DEF Attempt
  <2>3. ASSUME NEW x \in attempts, x.owner # w
        PROVE  x \in attempts'
    BY <2>1, <2>3 DEF Orphan
  <2> QED BY <2>2, <2>3
<1> QED BY <1>1, <1>2

LEMMA ReviewMarks ==
    ASSUME TypeOK, NEW wanted \in SUBSET Alerts,
           NEW schedule \in [wanted -> Schedules], Review(wanted, schedule)
    PROVE  /\ \A b \in Alerts : waived[b] => waived'[b]
           /\ \A x \in attempts : x \in attempts' \/ waived'[x.alert]
           /\ attempts' \subseteq attempts
           /\ \A b \in Alerts : row[b].status = "sent" => row'[b] = row[b]
<1>1. \A x \in attempts : x.alert \in Alerts
  BY DEF TypeOK, Attempt
<1> QED BY <1>1 DEF Review, Open, TypeOK, Waiting

LEMMA AttemptStep == TypeOK /\ AttemptInv /\ [Next]_vars => AttemptInv'
<1> SUFFICES ASSUME TypeOK, AttemptInv, [Next]_vars PROVE AttemptInv'
  OBVIOUS
<1> USE DEF AttemptInv, InHand, AttemptOf
<1>0. /\ \A w \in Workers : job[w] \in Job /\ job[w].alert \in Alerts
                            /\ job[w].at \in Nat
      /\ \A x \in attempts : x \in Attempt /\ x.alert \in Alerts
      /\ Nobody \notin Workers
      /\ now \in Nat
  BY ConstantsAssumption DEF TypeOK, Job, Attempt
(* Three shapes of step: nobody enters or leaves a send, ...               *)
<1>1. ASSUME now <= now', now' \in Nat, attempts' \subseteq attempts,
             \A v \in Workers : /\ InHand(v)' = InHand(v)
                                /\ job'[v].alert = job[v].alert
                                /\ job'[v].at = job[v].at,
             \A b \in Alerts : waived[b] => waived'[b],
             \A x \in attempts : x \in attempts' \/ waived'[x.alert]
      PROVE  AttemptInv'
  <2>1. ASSUME NEW x \in attempts', x.owner # Nobody
        PROVE  InHand(x.owner)' /\ x.alert = job'[x.owner].alert
    <3>1. x \in attempts /\ x.owner \in Workers
      BY <1>0, <1>1, <2>1 DEF Attempt
    <3> QED BY <1>1, <2>1, <3>1
  <2>2. ASSUME NEW v \in Workers, InHand(v)'
        PROVE  /\ job'[v].at <= now'
               /\ waived'[job'[v].alert] \/ AttemptOf(v)' \in attempts'
    <3>1. /\ job[v].at <= now
          /\ waived[job[v].alert] \/ AttemptOf(v) \in attempts
      BY <1>1, <2>2
    <3>2. AttemptOf(v)' = AttemptOf(v) /\ AttemptOf(v).alert = job[v].alert
      BY <1>1
    <3> QED BY <1>0, <1>1, <3>1, <3>2
  <2> QED BY <2>1, <2>2
(* ... one worker ends its send, ...                                       *)
<1>2. ASSUME NEW w \in Workers, Release(w), UNCHANGED now,
             \A b \in Alerts : waived[b] => waived'[b],
             \A x \in attempts' :
                x.owner = Nobody \/ (x \in attempts /\ x.owner # w),
             \A x \in attempts :
                x.owner = w \/ x \in attempts' \/ waived'[x.alert]
      PROVE  AttemptInv'
  <2>1. /\ job'[w].pc = "idle"
        /\ \A v \in Workers : v # w => job'[v] = job[v]
    BY <1>2, ReleaseJob
  <2>2. ASSUME NEW x \in attempts', x.owner # Nobody
        PROVE  InHand(x.owner)' /\ x.alert = job'[x.owner].alert
    <3>1. x \in attempts /\ x.owner \in Workers /\ x.owner # w
      BY <1>0, <1>2, <2>2 DEF Attempt
    <3> QED BY <2>1, <2>2, <3>1
  <2>3. ASSUME NEW v \in Workers, InHand(v)'
        PROVE  /\ job'[v].at <= now'
               /\ waived'[job'[v].alert] \/ AttemptOf(v)' \in attempts'
    <3>1. v # w /\ job'[v] = job[v]
      BY <2>1, <2>3
    <3>2. /\ job[v].at <= now
          /\ waived[job[v].alert] \/ AttemptOf(v) \in attempts
      BY <2>3, <3>1
    <3>3. AttemptOf(v)' = AttemptOf(v) /\ AttemptOf(v).owner = v
          /\ AttemptOf(v).alert = job[v].alert
      BY <3>1
    <3> QED BY <1>0, <1>2, <3>1, <3>2, <3>3
  <2> QED BY <2>2, <2>3
(* ... or a worker that had no attempt ends before it made one.            *)
<1>3. ASSUME NEW w \in Workers, ~InHand(w), NEW x \in attempts
      PROVE  x.owner # w
  BY <1>0, <1>3
<1>4. CASE Tick
  BY <1>0, <1>1, <1>4 DEF Tick
<1>5. CASE EditEvent
  BY <1>0, <1>1, <1>5 DEF EditEvent
<1>6. ASSUME NEW wanted \in SUBSET Alerts,
             NEW schedule \in [wanted -> Schedules],
             Review(wanted, schedule)
      PROVE  AttemptInv'
  <2>1. UNCHANGED <<now, job>>
    BY <1>6 DEF Review
  <2> QED BY <1>0, <1>1, <1>6, <2>1, ReviewMarks, ZenonT(40)
<1>7. ASSUME NEW w \in Workers, NEW a \in Alerts, Expire(w, a)
      PROVE  AttemptInv'
  BY <1>0, <1>1, <1>7 DEF Expire
<1>8. ASSUME NEW w \in Workers, NEW a \in Alerts, Claim(w, a)
      PROVE  AttemptInv'
  <2>1. job[w].pc = "idle" /\ UNCHANGED <<now, attempts, waived>>
    BY <1>8 DEF Claim, Claimable
  <2>2. /\ job'[w].pc = "claimed"
        /\ \A v \in Workers : v # w => job'[v] = job[v]
    BY <1>8, ClaimJob
  <2>3. \A x \in attempts : x.owner # w
    BY <1>3, <2>1
  <2> QED BY <1>0, <2>1, <2>2, <2>3 DEF Attempt
<1>9. ASSUME NEW w \in Workers, SendLocally(w) \/ RefuseIntent(w)
      PROVE  AttemptInv'
  <2>1. /\ Release(w) /\ UNCHANGED <<now, attempts, waived>>
        /\ job[w].pc = "claimed"
    BY <1>9 DEF SendLocally, RefuseIntent
  <2> QED BY <1>2, <1>3, <2>1
<1>10. ASSUME NEW w \in Workers, RecordIntent(w)
       PROVE  AttemptInv'
  <2>1. /\ job'[w].pc = "intended" /\ job'[w].at = now
        /\ job'[w].alert = job[w].alert
        /\ \A v \in Workers : v # w => job'[v] = job[v]
    BY <1>10, IntentJob
  <2>2. now' = now /\ job[w].pc = "claimed"
        /\ Supersede(job[w].alert, {IntentOf(w)})
    BY <1>10 DEF RecordIntent
  <2>3. /\ \A b \in Alerts : waived[b] => waived'[b]
        /\ \A x \in attempts :
              x \in attempts' \/ (x.alert = job[w].alert /\ waived'[x.alert])
        /\ IntentOf(w) \in attempts'
        /\ \A x \in attempts' : x \in attempts \/ x = IntentOf(w)
    BY <1>0, <2>2, SupersedeMarks
  <2>4. IntentOf(w) = AttemptOf(w)'
    BY <2>1 DEF IntentOf
  <2>5. ASSUME NEW x \in attempts', x.owner # Nobody
        PROVE  InHand(x.owner)' /\ x.alert = job'[x.owner].alert
    <3>1. CASE x = IntentOf(w)
      BY <2>1, <3>1 DEF IntentOf
    <3>2. CASE x \in attempts
      BY <1>0, <1>3, <2>1, <2>2, <2>5, <3>2 DEF Attempt
    <3> QED BY <2>3, <3>1, <3>2
  <2>6. ASSUME NEW v \in Workers, InHand(v)'
        PROVE  /\ job'[v].at <= now'
               /\ waived'[job'[v].alert] \/ AttemptOf(v)' \in attempts'
    <3>1. CASE v = w
      BY <1>0, <2>1, <2>2, <2>3, <2>4, <3>1
    <3>2. CASE v # w
      <4>1. job'[v] = job[v] /\ AttemptOf(v)' = AttemptOf(v)
            /\ AttemptOf(v).alert = job[v].alert
        BY <2>1, <3>2
      <4> QED BY <1>0, <2>2, <2>3, <2>6, <4>1
    <3> QED BY <3>1, <3>2
  <2> QED BY <2>5, <2>6
<1>11. ASSUME NEW w \in Workers, LoseIntent(w)
       PROVE  AttemptInv'
  <2> DEFINE lost == [IntentOf(w) EXCEPT !.owner = Nobody]
  <2>1. /\ Release(w) /\ now' = now /\ job[w].pc = "claimed"
        /\ \/ UNCHANGED <<attempts, waived>>
           \/ Supersede(job[w].alert, {})
           \/ Supersede(job[w].alert, {lost})
    BY <1>11 DEF LoseIntent
  <2>2. lost.owner = Nobody
    BY DEF IntentOf
  <2> HIDE DEF lost
  <2>3. /\ \A b \in Alerts : waived[b] => waived'[b]
        /\ \A x \in attempts : x \in attempts' \/ waived'[x.alert]
        /\ \A x \in attempts' : x \in attempts \/ x = lost
    BY <1>0, <2>1, SupersedeMarks
  <2> QED BY <1>2, <1>3, <2>1, <2>2, <2>3
<1>12. ASSUME NEW w \in Workers, AskBoundary(w)
       PROVE  AttemptInv'
  <2>1. job[w].pc = "intended" /\ UNCHANGED <<now, attempts, waived>>
    BY <1>12 DEF AskBoundary
  <2> QED BY <1>0, <1>1, <1>12, <2>1, AskJob
(* Every way in which an attempt that was recorded is closed or left.      *)
<1>13. ASSUME NEW w \in Workers, Release(w), Close(w) \/ LeaveOpen(w),
              UNCHANGED <<now, waived>>
       PROVE  AttemptInv'
  BY <1>2, <1>13, OthersKeepTheirs
<1>14. ASSUME NEW w \in Workers,
              RefuseAtBoundary(w) \/ FailAtBoundary(w) \/ RecordSent(w)
                 \/ RecordRefusal(w) \/ RecordUnknown(w) \/ LoseOutcome(w)
                 \/ Crash(w)
       PROVE  AttemptInv'
  <2>1. Release(w) /\ (Close(w) \/ LeaveOpen(w)) /\ UNCHANGED <<now, waived>>
    BY <1>14 DEF RefuseAtBoundary, FailAtBoundary, RecordSent, RecordRefusal,
                 RecordUnknown, LoseOutcome, Crash
  <2> QED BY <1>13, <2>1
<1>15. ASSUME NEW w \in Workers, HandOff(w)
       PROVE  AttemptInv'
  <2>1. job[w].pc = "asked" /\ UNCHANGED <<now, attempts>>
    BY <1>15 DEF HandOff
  <2>2. \A b \in Alerts : waived[b] => waived'[b]
    BY <1>0, <1>15 DEF HandOff, TypeOK
  <2> QED BY <1>0, <1>1, <1>15, <2>1, <2>2, HandOffJob
<1>16. ASSUME NEW r \in wire, Decide(r)
       PROVE  AttemptInv'
  <2>1. UNCHANGED <<now, attempts, waived>>
    BY <1>16 DEF Decide, Take, Refuse, Drop
  <2> QED BY <1>0, <1>1, <1>16, <2>1, DecideJob
<1>17. ASSUME NEW w \in Workers, LoseConnection(w)
       PROVE  AttemptInv'
  <2>1. UNCHANGED <<now, attempts, waived>>
    BY <1>17 DEF LoseConnection
  <2>2. \A v \in Workers : /\ job'[v].pc = job[v].pc
                           /\ job'[v].alert = job[v].alert
                           /\ job'[v].at = job[v].at
    BY <1>17, LostConnectionJob
  <2> QED BY <1>0, <1>1, <2>1, <2>2
<1>18. CASE UNCHANGED vars
  BY <1>0, <1>1, <1>18 DEF vars
<1> QED
  BY <1>4, <1>5, <1>6, <1>7, <1>8, <1>9, <1>10, <1>11, <1>12, <1>14, <1>15,
     <1>16, <1>17, <1>18 DEF Next, Organizer, Serve, Work, Fail, Provider

----------------------------------------------------------------------------
(* The requests.                                                           *)

LEMMA OrphanOfNone ==
    ASSUME TypeOK, NEW w \in Workers, \A r \in wire : r.owner # w
    PROVE  Orphan(wire, w) = wire
<1>1. \A s \in Orphan(wire, w) : s \in wire
  BY DEF Orphan
<1>2. \A s \in wire : s \in Orphan(wire, w)
  BY DEF Orphan
<1> QED BY <1>1, <1>2

LEMMA WireStep ==
    TypeOK /\ AttemptInv /\ WireInv /\ AskInv /\ [Next]_vars => WireInv'
<1> SUFFICES ASSUME TypeOK, AttemptInv, WireInv, AskInv, [Next]_vars
             PROVE  WireInv'
  OBVIOUS
<1> USE DEF WireInv, AttemptBehind, Landed, providerVars
<1>0. /\ \A w \in Workers : job[w] \in Job /\ job[w].alert \in Alerts
                            /\ job[w].at \in Nat
      /\ \A r \in wire : /\ r.alert \in Alerts /\ r.at \in Nat /\ r.by \in Nat
                         /\ r.owner \in Workers \cup {Nobody}
      /\ Nobody \notin Workers
      /\ now \in Nat
      /\ accepted \in [Alerts -> Nat] /\ copies \in [Alerts -> Nat]
      /\ DedupWindow \in Nat /\ ProviderTimeout \in Nat
  BY ConstantsAssumption DEF TypeOK, Job, Request
(* No send begins or ends, ...                                             *)
<1>1. ASSUME UNCHANGED <<now, wire, providerVars>>,
             \A v \in Workers :
                job[v].pc = "sending" =>
                   /\ job'[v].pc = "sending" /\ job'[v].alert = job[v].alert
                   /\ job'[v].reply = job[v].reply,
             \A v \in Workers : job'[v].pc # "sending" => job'[v].reply = "none",
             \A b \in Alerts : waived[b] => waived'[b],
             \A x \in attempts : x \in attempts' \/ waived'[x.alert]
      PROVE  WireInv'
  <2>1. ASSUME NEW r \in wire
        PROVE  /\ r.at <= now' /\ now' <= r.by /\ r.by <= now' + ProviderTimeout
               /\ waived'[r.alert] \/ AttemptBehind(r) \in attempts'
               /\ r.owner # Nobody =>
                     /\ job'[r.owner].pc = "sending"
                     /\ job'[r.owner].reply = "none"
                     /\ job'[r.owner].alert = r.alert
               /\ Landed(r.alert)' => r.by <= accepted'[r.alert] + DedupWindow
    BY <1>0, <1>1, <2>1
  <2> QED BY <1>1, <2>1
(* ... a worker with nothing on the wire ends, ...                         *)
<1>2. ASSUME NEW w \in Workers, Release(w),
             UNCHANGED <<now, wire, providerVars>>,
             \A r \in wire : r.owner # w,
             \A b \in Alerts : waived[b] => waived'[b],
             \A x \in attempts :
                x.owner = w \/ x \in attempts' \/ waived'[x.alert]
      PROVE  WireInv'
  <2>1. /\ job'[w].reply = "none"
        /\ \A v \in Workers : v # w => job'[v] = job[v]
    BY <1>2, ReleaseJob
  <2>2. ASSUME NEW r \in wire
        PROVE  /\ r.at <= now' /\ now' <= r.by /\ r.by <= now' + ProviderTimeout
               /\ waived'[r.alert] \/ AttemptBehind(r) \in attempts'
               /\ r.owner # Nobody =>
                     /\ job'[r.owner].pc = "sending"
                     /\ job'[r.owner].reply = "none"
                     /\ job'[r.owner].alert = r.alert
               /\ Landed(r.alert)' => r.by <= accepted'[r.alert] + DedupWindow
    <3>1. r.owner # w /\ (r.owner # Nobody => job'[r.owner] = job[r.owner])
      BY <1>0, <1>2, <2>1
    <3>2. waived'[r.alert] \/ AttemptBehind(r) \in attempts'
      BY <1>0, <1>2, <3>1
    <3>3. Landed(r.alert)' => Landed(r.alert)
      BY <1>0, <1>2
    <3> QED BY <1>2, <3>1, <3>2, <3>3
  <2>3. \A v \in Workers : job'[v].pc # "sending" => job'[v].reply = "none"
    BY <2>1
  <2> QED BY <1>2, <2>2, <2>3
(* ... or a worker leaves its request and its attempt behind.              *)
<1>3. ASSUME NEW w \in Workers, Release(w), LeaveOpen(w),
             wire' = Orphan(wire, w), UNCHANGED <<now, providerVars, waived>>
      PROVE  WireInv'
  <2>1. /\ job'[w].reply = "none"
        /\ \A v \in Workers : v # w => job'[v] = job[v]
    BY <1>3, ReleaseJob
  <2>2. ASSUME NEW s \in wire'
        PROVE  /\ s.at <= now' /\ now' <= s.by /\ s.by <= now' + ProviderTimeout
               /\ waived'[s.alert] \/ AttemptBehind(s) \in attempts'
               /\ s.owner # Nobody =>
                     /\ job'[s.owner].pc = "sending"
                     /\ job'[s.owner].reply = "none"
                     /\ job'[s.owner].alert = s.alert
               /\ Landed(s.alert)' => s.by <= accepted'[s.alert] + DedupWindow
    <3>1. PICK r \in wire :
             /\ s.alert = r.alert /\ s.at = r.at /\ s.by = r.by
             /\ s.owner = IF r.owner = w THEN Nobody ELSE r.owner
             /\ s.owner # Nobody => s = r
      BY <1>3, <2>2, OrphanRequests
    <3>2. waived[r.alert] \/ AttemptBehind(s) \in attempts'
      <4>1. CASE AttemptBehind(r) \in attempts
        <5>1. [alert |-> r.alert, at |-> r.at,
               owner |-> IF r.owner = w THEN Nobody ELSE r.owner]
                  \in Orphan(attempts, w)
          BY <4>1, OrphanMembers
        <5> QED BY <1>3, <3>1, <5>1 DEF LeaveOpen
      <4> QED BY <4>1
    <3>3. s.owner # Nobody => s.owner \in Workers /\ s.owner # w
      BY <1>0, <3>1
    <3> QED BY <1>0, <1>3, <2>1, <3>1, <3>2, <3>3
  <2>3. ASSUME NEW s \in wire', NEW t \in wire',
               s.owner = t.owner, s.owner # Nobody
        PROVE  s = t
    <3>1. s \in wire /\ t \in wire
      BY <1>3, <2>3, OrphanRequests
    <3> QED BY <2>3, <3>1
  <2>4. \A v \in Workers : job'[v].pc # "sending" => job'[v].reply = "none"
    BY <2>1
  <2> QED BY <2>2, <2>3, <2>4
<1>4. CASE Tick
  <2>1. \A r \in wire : now < r.by
    BY <1>4 DEF Tick
  <2>2. now' = now + 1 /\ UNCHANGED <<attempts, job, wire, providerVars, waived>>
    BY <1>4 DEF Tick
  <2>3. \A r \in wire : r.at <= now' /\ now' <= r.by /\ r.by <= now' + ProviderTimeout
    <3> SUFFICES ASSUME NEW r \in wire
                 PROVE  r.at <= now' /\ now' <= r.by
                        /\ r.by <= now' + ProviderTimeout
      OBVIOUS
    <3>1. r.at <= now /\ now < r.by /\ r.by <= now + ProviderTimeout
      BY <2>1
    <3>2. r.at \in Nat /\ r.by \in Nat
      BY <1>0
    <3> HIDE DEF WireInv
    <3> QED BY <1>0, <2>2, <3>1, <3>2
  <2> QED BY <2>2, <2>3
<1>5. CASE EditEvent
  BY <1>1, <1>5 DEF EditEvent
<1>6. ASSUME NEW wanted \in SUBSET Alerts,
             NEW schedule \in [wanted -> Schedules],
             Review(wanted, schedule)
      PROVE  WireInv'
  <2>1. UNCHANGED <<now, job, wire, providerVars>>
    BY <1>6 DEF Review
  <2> QED BY <1>1, <1>6, <2>1, ReviewMarks
<1>7. ASSUME NEW w \in Workers, NEW a \in Alerts, Expire(w, a)
      PROVE  WireInv'
  BY <1>1, <1>7 DEF Expire
<1>8. ASSUME NEW w \in Workers, NEW a \in Alerts, Claim(w, a)
      PROVE  WireInv'
  <2>1. /\ job[w].pc = "idle"
        /\ UNCHANGED <<now, wire, attempts, providerVars, waived>>
    BY <1>8 DEF Claim, Claimable
  <2> QED BY <1>1, <1>8, <2>1, ClaimJob
<1>9. ASSUME NEW w \in Workers, job[w].pc # "sending", NEW r \in wire
      PROVE  r.owner # w
  BY <1>0, <1>9
<1>10. ASSUME NEW w \in Workers, SendLocally(w) \/ RefuseIntent(w)
       PROVE  WireInv'
  <2>1. /\ Release(w) /\ job[w].pc = "claimed"
        /\ UNCHANGED <<now, wire, attempts, providerVars, waived>>
    BY <1>10 DEF SendLocally, RefuseIntent
  <2> QED BY <1>2, <1>9, <2>1
<1>11. ASSUME NEW w \in Workers, RecordIntent(w)
       PROVE  WireInv'
  <2>1. /\ UNCHANGED <<now, wire, providerVars>>
        /\ Supersede(job[w].alert, {IntentOf(w)})
        /\ job[w].pc = "claimed"
    BY <1>11 DEF RecordIntent
  <2>2. /\ \A b \in Alerts : waived[b] => waived'[b]
        /\ \A x \in attempts : x \in attempts' \/ waived'[x.alert]
    BY <1>0, <2>1, SupersedeMarks
  <2>3. /\ job'[w].reply = "none"
        /\ \A v \in Workers : v # w => job'[v] = job[v]
    BY <1>11, <2>1, IntentJob
  <2> QED BY <1>1, <2>1, <2>2, <2>3
<1>12. ASSUME NEW w \in Workers, LoseIntent(w)
       PROVE  WireInv'
  <2>1. /\ Release(w) /\ job[w].pc = "claimed"
        /\ UNCHANGED <<now, wire, providerVars>>
        /\ \/ UNCHANGED <<attempts, waived>>
           \/ Supersede(job[w].alert, {})
           \/ Supersede(job[w].alert, {[IntentOf(w) EXCEPT !.owner = Nobody]})
    BY <1>12 DEF LoseIntent
  <2>2. /\ \A b \in Alerts : waived[b] => waived'[b]
        /\ \A x \in attempts : x \in attempts' \/ waived'[x.alert]
    BY <1>0, <2>1, SupersedeMarks
  <2> QED BY <1>2, <1>9, <2>1, <2>2
<1>13. ASSUME NEW w \in Workers, AskBoundary(w)
       PROVE  WireInv'
  <2>1. /\ job[w].pc = "intended"
        /\ UNCHANGED <<now, wire, attempts, providerVars, waived>>
    BY <1>13 DEF AskBoundary
  <2>2. /\ job'[w].reply = "none"
        /\ \A v \in Workers : v # w => job'[v] = job[v]
    BY <1>13, <2>1, AskJob
  <2> QED BY <1>1, <2>1, <2>2
(* A worker whose attempt is closed has nothing on the wire.               *)
<1>14. ASSUME NEW w \in Workers, Release(w), Close(w) \/ LeaveOpen(w),
              UNCHANGED <<now, wire, providerVars, waived>>,
              job[w].pc # "sending" \/ job[w].reply # "none"
       PROVE  WireInv'
  <2>1. \A r \in wire : r.owner # w
    BY <1>0, <1>14
  <2> QED BY <1>2, <1>14, <2>1, OthersKeepTheirs
<1>15. ASSUME NEW w \in Workers,
              RefuseAtBoundary(w) \/ FailAtBoundary(w) \/ RecordSent(w)
                 \/ RecordRefusal(w)
       PROVE  WireInv'
  <2>1. /\ Release(w) /\ (Close(w) \/ LeaveOpen(w))
        /\ UNCHANGED <<now, wire, providerVars, waived>>
        /\ job[w].pc # "sending" \/ job[w].reply # "none"
    BY <1>15 DEF RefuseAtBoundary, FailAtBoundary, RecordSent, RecordRefusal
  <2> QED BY <1>14, <2>1
<1>16. ASSUME NEW w \in Workers,
              RecordUnknown(w) \/ LoseOutcome(w) \/ Crash(w)
       PROVE  WireInv'
  <2>1. /\ Release(w) /\ wire' = Orphan(wire, w)
        /\ UNCHANGED <<now, providerVars, waived>>
        /\ LeaveOpen(w) \/ (Close(w) /\ job[w].reply = "refused")
    BY <1>16 DEF RecordUnknown, LoseOutcome, Crash
  <2>2. CASE LeaveOpen(w)
    BY <1>3, <2>1, <2>2
  <2>3. CASE Close(w) /\ job[w].reply = "refused"
    <3>1. \A r \in wire : r.owner # w
      BY <1>0, <2>3
    <3>2. wire' = wire
      BY <2>1, <3>1, OrphanOfNone
    <3> QED BY <1>14, <2>1, <2>3, <3>2
  <2> QED BY <2>1, <2>2, <2>3
(* The new request lands inside what the answer of the boundary covers.    *)
<1>17. ASSUME NEW w \in Workers, HandOff(w)
       PROVE  WireInv'
  <2> DEFINE a == job[w].alert
             new == [alert |-> a, at |-> job[w].at, owner |-> w,
                     by |-> now + ProviderTimeout, closes |-> job[w].closes]
  <2>1. /\ job[w].pc = "asked" /\ job[w].verdict = "clear"
        /\ now <= job[w].askedAt + HandoffBudget
        /\ wire' = wire \cup {new}
        /\ UNCHANGED <<now, attempts, providerVars>>
    BY <1>17 DEF HandOff, Refuses, HandoffFitsTheMargin
  <2>2. /\ \A b \in Alerts : waived[b] => waived'[b]
        /\ \A b \in Alerts : b # a => waived'[b] = waived[b]
        /\ (\E x \in Open(a) :
              /\ x.owner # w
              /\ x.at + DedupWindow < job[w].askedAt + BoundaryMargin)
              => waived'[a]
    BY <1>0, <1>17 DEF HandOff, TypeOK
  <2>3. /\ job'[w].pc = "sending" /\ job'[w].alert = a
        /\ job'[w].reply = "none"
        /\ \A v \in Workers : v # w => job'[v] = job[v]
    BY <1>17, <2>1, HandOffJob
  <2>4. job[w].at <= now /\ (waived[a] \/ AttemptOf(w) \in attempts)
    BY <2>1 DEF AttemptInv, InHand
  <2>5. copies[a] > 0 /\ ~waived'[a] => new.by <= accepted[a] + DedupWindow
    <3> SUFFICES ASSUME copies[a] > 0, ~waived'[a]
                 PROVE  now + ProviderTimeout <= accepted[a] + DedupWindow
      OBVIOUS
    <3>a. a \in Alerts
      BY <1>0
    <3>1. Landed(a)
      BY <2>2, <3>a
    <3>2. ~ \E x \in attempts :
               /\ x.alert = a /\ x.owner # w
               /\ x.at + DedupWindow < job[w].askedAt + BoundaryMargin
      <4>1. ~ \E x \in Open(a) :
                 /\ x.owner # w
                 /\ x.at + DedupWindow < job[w].askedAt + BoundaryMargin
        BY <2>2, <3>a
      <4> QED BY <4>1 DEF Open
    <3>b. \A x \in attempts : OutOfReach(x) => x.owner # w
      BY <2>1, ConstantsAssumption DEF OutOfReach, Delivered
    <3>3. job[w].askedAt + BoundaryMargin <= accepted[a] + DedupWindow
      BY <2>1, <3>1, <3>2, <3>b DEF AskInv
    <3>4. job[w].askedAt \in Nat
      BY <1>0 DEF Job
    <3>5. accepted[a] \in Nat
      BY <1>0
    <3> QED BY <1>0, <2>1, <3>3, <3>4, <3>5, Margins
  <2>6. \A r \in wire : r.owner # w
    BY <1>9, <2>1
  <2>7. ASSUME NEW r \in wire'
        PROVE  /\ r.at <= now' /\ now' <= r.by /\ r.by <= now' + ProviderTimeout
               /\ waived'[r.alert] \/ AttemptBehind(r) \in attempts'
               /\ r.owner # Nobody =>
                     /\ job'[r.owner].pc = "sending"
                     /\ job'[r.owner].reply = "none"
                     /\ job'[r.owner].alert = r.alert
               /\ Landed(r.alert)' => r.by <= accepted'[r.alert] + DedupWindow
    <3>1. CASE r = new
      <4>1. /\ r.at = job[w].at /\ r.by = now + ProviderTimeout
            /\ r.alert = a /\ r.owner = w
            /\ AttemptBehind(r) = AttemptOf(w)
        BY <3>1 DEF AttemptOf
      <4> QED BY <1>0, <2>1, <2>2, <2>3, <2>4, <2>5, <4>1
    <3>2. CASE r \in wire
      <4>1. r.owner # Nobody => job'[r.owner] = job[r.owner]
        BY <1>0, <2>3, <2>6, <3>2
      <4>2. Landed(r.alert)' => Landed(r.alert)
        BY <1>0, <2>1, <2>2, <3>2
      <4> QED BY <1>0, <2>1, <2>2, <3>2, <4>1, <4>2
    <3> QED BY <2>1, <3>1, <3>2
  <2>8. ASSUME NEW r \in wire', NEW s \in wire',
               r.owner = s.owner, r.owner # Nobody
        PROVE  r = s
    <3>1. new.owner = w
      OBVIOUS
    <3> QED BY <2>1, <2>6, <2>8, <3>1
  <2>9. \A v \in Workers : job'[v].pc # "sending" => job'[v].reply = "none"
    BY <2>3
  <2> QED BY <2>7, <2>8, <2>9
<1>18. ASSUME NEW q \in wire, Decide(q)
       PROVE  WireInv'
  <2>1. wire' = wire \ {q} /\ UNCHANGED <<now, attempts, waived>>
    BY <1>18 DEF Decide, Take, Refuse, Drop
  <2>2. \A v \in Workers : /\ job'[v].pc = job[v].pc
                           /\ job'[v].alert = job[v].alert
                           /\ v # q.owner => job'[v].reply = job[v].reply
    BY <1>18, DecideJob
  <2>3. \A b \in Alerts :
           \/ accepted'[b] = accepted[b] /\ copies'[b] = copies[b]
           \/ accepted'[b] = now
    BY <1>0, <1>18 DEF Decide, Take, Refuse, Drop
  <2>4. ProviderTimeout <= DedupWindow
    BY Margins
  <2>5. ASSUME NEW r \in wire'
        PROVE  /\ r.at <= now' /\ now' <= r.by /\ r.by <= now' + ProviderTimeout
               /\ waived'[r.alert] \/ AttemptBehind(r) \in attempts'
               /\ r.owner # Nobody =>
                     /\ job'[r.owner].pc = "sending"
                     /\ job'[r.owner].reply = "none"
                     /\ job'[r.owner].alert = r.alert
               /\ Landed(r.alert)' => r.by <= accepted'[r.alert] + DedupWindow
    <3>1. r \in wire /\ r # q
      BY <2>1, <2>5
    <3>2. r.owner # Nobody => r.owner # q.owner
      BY <3>1
    <3>3. Landed(r.alert)' => r.by <= accepted'[r.alert] + DedupWindow
      <4>1. CASE accepted'[r.alert] = now
        <5>1. r.by <= now + ProviderTimeout /\ r.by \in Nat
          BY <1>0, <3>1
        <5> HIDE DEF WireInv
        <5> QED BY <1>0, <2>4, <4>1, <5>1
      <4>2. CASE /\ accepted'[r.alert] = accepted[r.alert]
                 /\ copies'[r.alert] = copies[r.alert]
        BY <2>1, <3>1, <4>2
      <4> QED BY <1>0, <2>3, <3>1, <4>1, <4>2
    <3>4. r.owner # Nobody =>
             /\ job'[r.owner].pc = "sending"
             /\ job'[r.owner].reply = "none"
             /\ job'[r.owner].alert = r.alert
      BY <1>0, <2>2, <3>1, <3>2
    <3> QED BY <2>1, <3>1, <3>3, <3>4
  <2>6. \A v \in Workers : job'[v].pc # "sending" => job'[v].reply = "none"
    <3>1. q.owner # Nobody => job[q.owner].pc = "sending"
      OBVIOUS
    <3>2. \A v \in Workers : job[v].pc # "sending" => job[v].reply = "none"
      OBVIOUS
    <3>3. \A v \in Workers : v # Nobody
      BY <1>0
    <3> QED BY <2>2, <3>1, <3>2, <3>3
  <2> QED BY <2>1, <2>5, <2>6
<1>19. ASSUME NEW w \in Workers, LoseConnection(w)
       PROVE  WireInv'
  <2>1. UNCHANGED <<now, wire, attempts, providerVars, waived>>
    BY <1>19 DEF LoseConnection
  <2>2. \A v \in Workers : /\ job'[v].pc = job[v].pc
                           /\ job'[v].alert = job[v].alert
                           /\ job'[v].reply = job[v].reply
    BY <1>19, LostConnectionJob
  <2> QED BY <1>1, <2>1, <2>2
<1>20. CASE UNCHANGED vars
  BY <1>1, <1>20 DEF vars
<1> QED
  BY <1>4, <1>5, <1>6, <1>7, <1>8, <1>10, <1>11, <1>12, <1>13, <1>15, <1>16,
     <1>17, <1>18, <1>19, <1>20
     DEF Next, Organizer, Serve, Work, Fail, Provider

----------------------------------------------------------------------------
(* What any step leaves of the evidence.                                   *)

LEMMA WaivedStep ==
    ASSUME TypeOK, [Next]_vars
    PROVE  \A b \in Alerts : waived[b] => waived'[b]
<1>1. ASSUME NEW wanted \in SUBSET Alerts,
             NEW schedule \in [wanted -> Schedules],
             Review(wanted, schedule)
      PROVE  \A b \in Alerts : waived[b] => waived'[b]
  BY <1>1, ReviewMarks
<1>2. ASSUME NEW w \in Workers, RecordIntent(w) \/ LoseIntent(w)
      PROVE  \A b \in Alerts : waived[b] => waived'[b]
  <2>1. \/ UNCHANGED waived
        \/ \E added : Supersede(job[w].alert, added)
    BY <1>2 DEF RecordIntent, LoseIntent
  <2> QED BY <2>1, IntentType, SupersedeMarks
<1>3. ASSUME NEW w \in Workers, HandOff(w)
      PROVE  \A b \in Alerts : waived[b] => waived'[b]
  BY <1>3, IntentType DEF HandOff, TypeOK
<1>4. CASE UNCHANGED waived
  BY <1>4
<1> QED
  BY <1>1, <1>2, <1>3, <1>4
     DEF Next, Organizer, Serve, Work, Fail, Provider, Decide, vars,
         Tick, EditEvent, Expire, Claim, SendLocally, RefuseIntent,
         AskBoundary, RefuseAtBoundary, FailAtBoundary, Take, Refuse, Drop,
         RecordSent, RecordRefusal, RecordUnknown, LoseOutcome, Crash,
         LoseConnection

(* An alert that is sent stays sent: every writer of a row holds its lock  *)
(* and holds it only of a row that was waiting.                            *)
LEMMA SentStays ==
    ASSUME TypeOK, LockInv, [Next]_vars, NEW b \in Alerts,
           row[b].status = "sent"
    PROVE  row'[b].status = "sent"
<1>0. /\ \A w \in Workers : job[w].alert \in Alerts
      /\ \A w \in Workers : job[w].live => job[w].alert # b
  BY IntentType DEF LockInv, Waiting
<1>1. ASSUME NEW wanted \in SUBSET Alerts,
             NEW schedule \in [wanted -> Schedules],
             Review(wanted, schedule)
      PROVE  row'[b].status = "sent"
  BY <1>1, ReviewMarks
<1>2. ASSUME NEW w \in Workers, NEW a \in Alerts, Expire(w, a)
      PROVE  row'[b].status = "sent"
  BY <1>2 DEF Expire, Claimable, Due, Waiting, TypeOK
<1>3. ASSUME NEW w \in Workers, job[w].live,
             MarkSent(job[w].alert) \/ MarkFailed(job[w].alert)
      PROVE  row'[b].status = "sent"
  BY <1>0, <1>3, SentRow, FailedRow
<1>4. ASSUME NEW w \in Workers, RefuseAtBoundary(w)
      PROVE  row'[b].status = "sent"
  <2>1. \/ UNCHANGED row
        \/ /\ job[w].live
           /\ row' = [row EXCEPT ![job[w].alert].status = "cancelled"]
    BY <1>4 DEF RefuseAtBoundary
  <2> QED BY <1>0, <2>1 DEF TypeOK
<1>5. ASSUME NEW w \in Workers,
             SendLocally(w) \/ RecordSent(w) \/ RecordRefusal(w) \/ RecordUnknown(w)
      PROVE  row'[b].status = "sent"
  BY <1>3, <1>5 DEF SendLocally, RecordSent, RecordRefusal, RecordUnknown
<1>6. CASE UNCHANGED row
  BY <1>6
<1> QED
  BY <1>1, <1>2, <1>4, <1>5, <1>6
     DEF Next, Organizer, Serve, Work, Fail, Provider, Decide, vars,
         Tick, EditEvent, Claim, RecordIntent, RefuseIntent, LoseIntent,
         AskBoundary, FailAtBoundary, HandOff, Take, Refuse, Drop,
         LoseOutcome, Crash, LoseConnection

(* The attempt behind a delivery stays, unless it is given up or the       *)
(* delivery is recorded.                                                   *)
LEMMA WitnessStep ==
    ASSUME TypeOK, AttemptInv, WireInv, [Next]_vars,
           NEW x \in attempts, Delivered(x)
    PROVE  \/ waived'[x.alert]
           \/ row'[x.alert].status = "sent" /\ ~OutOfReach(x)
              /\ x.owner # Nobody /\ job[x.owner].live
           \/ \E y \in attempts' :
                 /\ y.alert = x.alert /\ y.at = x.at /\ Delivered(y)'
                 /\ OutOfReach(x) => OutOfReach(y)'
<1> DEFINE Stays == \E y \in attempts' :
                 /\ y.alert = x.alert /\ y.at = x.at /\ Delivered(y)'
                 /\ OutOfReach(x) => OutOfReach(y)'
<1> USE DEF Delivered, OutOfReach
<1>0. /\ x \in Attempt /\ x.alert \in Alerts
      /\ x.owner \in Workers \cup {Nobody} /\ Nobody \notin Workers
  BY ConstantsAssumption DEF TypeOK, Attempt
<1>1. ASSUME x \in attempts',
             x.owner \in Workers =>
                /\ job'[x.owner].pc = job[x.owner].pc
                /\ job'[x.owner].reply = job[x.owner].reply
                /\ job'[x.owner].live => job[x.owner].live
      PROVE  Stays
  BY <1>0, <1>1
<1>2. CASE Tick \/ EditEvent \/ UNCHANGED vars
  BY <1>1, <1>2 DEF Tick, EditEvent, vars
<1>3. ASSUME NEW wanted \in SUBSET Alerts,
             NEW schedule \in [wanted -> Schedules],
             Review(wanted, schedule)
      PROVE  Stays \/ waived'[x.alert]
  <2>1. job' = job
    BY <1>3 DEF Review
  <2> QED BY <1>1, <1>3, <2>1, ReviewMarks
<1>4. ASSUME NEW w \in Workers, NEW a \in Alerts, Expire(w, a) \/ Claim(w, a)
      PROVE  Stays
  <2>1. CASE Expire(w, a)
    BY <1>1, <2>1 DEF Expire
  <2>2. CASE Claim(w, a)
    <3>1. attempts' = attempts /\ job[w].pc = "idle"
      BY <2>2 DEF Claim, Claimable
    <3>2. \A v \in Workers : v # w => job'[v] = job[v]
      BY <2>2, ClaimJob
    <3>3. x.owner # w
      BY <1>0, <3>1
    <3> QED BY <1>1, <3>1, <3>2, <3>3
  <2> QED BY <1>4, <2>1, <2>2
(* A worker that is not in possession of an answer owns no such attempt.   *)
<1>5. ASSUME NEW w \in Workers,
             job[w].pc # "sending" \/ job[w].reply # "taken"
      PROVE  x.owner # w
  BY <1>0, <1>5
<1>6. ASSUME NEW w \in Workers, x.owner # w, x \in attempts' \/ waived'[x.alert],
             \A v \in Workers : v # w => job'[v] = job[v]
      PROVE  Stays \/ waived'[x.alert]
  BY <1>1, <1>6
<1>7. ASSUME NEW w \in Workers, SendLocally(w) \/ RefuseIntent(w)
      PROVE  Stays \/ waived'[x.alert]
  <2>1. Release(w) /\ attempts' = attempts /\ job[w].pc = "claimed"
    BY <1>7 DEF SendLocally, RefuseIntent
  <2> QED BY <1>5, <1>6, <2>1, ReleaseJob
<1>8. ASSUME NEW w \in Workers, RecordIntent(w) \/ LoseIntent(w)
      PROVE  Stays \/ waived'[x.alert]
  <2>1. /\ job[w].pc = "claimed" /\ job[w].alert \in Alerts
        /\ \/ attempts' = attempts
           \/ \E added : Supersede(job[w].alert, added)
    BY <1>8, IntentType DEF RecordIntent, LoseIntent
  <2>2. x \in attempts' \/ waived'[x.alert]
    BY <2>1, SupersedeMarks
  <2>3. \A v \in Workers : v # w => job'[v] = job[v]
    BY <1>8, IntentJob, ReleaseJob DEF LoseIntent
  <2> QED BY <1>5, <1>6, <2>1, <2>2, <2>3
<1>9. ASSUME NEW w \in Workers, AskBoundary(w)
      PROVE  Stays \/ waived'[x.alert]
  <2>1. job[w].pc = "intended" /\ attempts' = attempts
    BY <1>9 DEF AskBoundary
  <2> QED BY <1>5, <1>6, <1>9, <2>1, AskJob
<1>10. ASSUME NEW w \in Workers, HandOff(w)
       PROVE  Stays \/ waived'[x.alert]
  <2>1. job[w].pc = "asked" /\ attempts' = attempts
    BY <1>10 DEF HandOff
  <2> QED BY <1>5, <1>6, <1>10, <2>1, HandOffJob
<1>11. ASSUME NEW w \in Workers, Release(w), Close(w),
              job[w].pc # "sending" \/ job[w].reply # "taken"
       PROVE  Stays \/ waived'[x.alert]
  BY <1>5, <1>6, <1>11, OthersKeepTheirs, ReleaseJob
<1>12. ASSUME NEW w \in Workers, Release(w), LeaveOpen(w)
       PROVE  Stays
  <2>1. CASE x.owner # w
    <3>1. x \in attempts'
      BY <1>12, <2>1, OthersKeepTheirs
    <3>2. x.owner \in Workers => job'[x.owner] = job[x.owner]
      BY <1>12, <2>1, ReleaseJob
    <3> QED BY <1>1, <3>1, <3>2
  <2>2. CASE x.owner = w
    <3> DEFINE y == [alert |-> x.alert, at |-> x.at, owner |-> Nobody]
    <3>1. y \in attempts'
      BY <1>12, <2>2, OrphanMembers DEF LeaveOpen
    <3>2. y.alert = x.alert /\ y.at = x.at /\ y.owner = Nobody
      OBVIOUS
    <3> HIDE DEF y
    <3> QED BY <3>1, <3>2
  <2> QED BY <2>1, <2>2
<1>13. ASSUME NEW w \in Workers,
              RefuseAtBoundary(w) \/ FailAtBoundary(w) \/ RecordRefusal(w)
                 \/ RecordUnknown(w) \/ LoseOutcome(w) \/ Crash(w)
       PROVE  Stays \/ waived'[x.alert]
  <2>1. /\ Release(w)
        /\ \/ LeaveOpen(w)
           \/ Close(w) /\ (job[w].pc # "sending" \/ job[w].reply # "taken")
    BY <1>13 DEF RefuseAtBoundary, FailAtBoundary, RecordRefusal,
                 RecordUnknown, LoseOutcome, Crash
  <2> QED BY <1>11, <1>12, <2>1
<1>15. ASSUME NEW q \in wire, Decide(q)
       PROVE  Stays
  <2>1. attempts' = attempts
    BY <1>15 DEF Decide, Take, Refuse, Drop
  <2>2. x.owner \in Workers => x.owner # q.owner
    BY <1>0 DEF WireInv
  <2> QED BY <1>1, <1>15, <2>1, <2>2, DecideJob
<1>16. ASSUME NEW w \in Workers, LoseConnection(w)
       PROVE  Stays
  <2>1. attempts' = attempts
    BY <1>16 DEF LoseConnection
  <2>2. \A v \in Workers : /\ job'[v].pc = job[v].pc
                           /\ job'[v].reply = job[v].reply
                           /\ job'[v].live => job[v].live
    BY <1>16, LostConnectionJob
  <2> QED BY <1>1, <2>1, <2>2
<1>17. ASSUME NEW w \in Workers, RecordSent(w), x.owner # w
       PROVE  Stays \/ waived'[x.alert]
  BY <1>6, <1>17, OthersKeepTheirs, ReleaseJob DEF RecordSent
<1>18. ASSUME NEW w \in Workers, RecordSent(w), x.owner = w
       PROVE  row'[x.alert].status = "sent" /\ ~OutOfReach(x)
              /\ x.owner # Nobody /\ job[x.owner].live
  <2>1. x.alert = job[w].alert
    BY <1>0, <1>18 DEF AttemptInv
  <2> QED BY <1>0, <1>18, <2>1, SentRow DEF RecordSent
<1> QED
  BY <1>2, <1>3, <1>4, <1>7, <1>8, <1>9, <1>10, <1>13, <1>15, <1>16, <1>17,
     <1>18 DEF Next, Organizer, Serve, Work, Fail, Provider

----------------------------------------------------------------------------
(* What a delivery, and a clear answer of the boundary, are worth.         *)

LEMMA ProviderStep ==
    ASSUME TypeOK, [Next]_vars
    PROVE  UNCHANGED providerVars \/ \E q \in wire : Take(q)
BY ZenonT(40) DEF Next, Organizer, Serve, Work, Fail, Provider, Decide, vars, providerVars,
       Tick, EditEvent, Review, Expire, Claim, SendLocally, RecordIntent,
       RefuseIntent, LoseIntent, AskBoundary, RefuseAtBoundary, FailAtBoundary,
       HandOff, Refuse, Drop, RecordSent, RecordRefusal, RecordUnknown,
       LoseOutcome, Crash, LoseConnection

LEMMA CoverStep ==
    TypeOK /\ LockInv /\ AttemptInv /\ WireInv /\ CoverInv /\ [Next]_vars
        => CoverInv'
<1> SUFFICES ASSUME TypeOK, LockInv, AttemptInv, WireInv, CoverInv, [Next]_vars,
                    NEW a \in Alerts, Landed(a)'
             PROVE  /\ copies'[a] = 1
                    /\ \/ row'[a].status = "sent"
                       \/ \E x \in attempts' : /\ x.alert = a
                                               /\ x.at <= accepted'[a]
                                               /\ Delivered(x)'
  BY DEF CoverInv
<1> USE DEF Landed
<1>0. copies'[a] > 0 /\ ~waived'[a] /\ ~waived[a]
  BY WaivedStep
<1>1. CASE copies'[a] = copies[a] /\ accepted'[a] = accepted[a]
  <2>1. /\ copies[a] = 1
        /\ \/ row[a].status = "sent"
           \/ \E x \in attempts :
                 x.alert = a /\ x.at <= accepted[a] /\ Delivered(x)
    BY <1>0, <1>1 DEF CoverInv
  <2>2. CASE row[a].status = "sent"
    BY <1>1, <2>1, <2>2, SentStays
  <2>3. ASSUME NEW x \in attempts,
               x.alert = a, x.at <= accepted[a], Delivered(x)
        PROVE  \/ row'[a].status = "sent"
               \/ \E y \in attempts' : /\ y.alert = a
                                       /\ y.at <= accepted'[a]
                                       /\ Delivered(y)'
    BY <1>0, <1>1, <2>3, WitnessStep
  <2> QED BY <1>1, <2>1, <2>2, <2>3
<1>2. ASSUME NEW q \in wire, Take(q),
             ~(copies'[a] = copies[a] /\ accepted'[a] = accepted[a])
      PROVE  /\ copies'[a] = 1
             /\ \E x \in attempts' : /\ x.alert = a
                                     /\ x.at <= accepted'[a]
                                     /\ Delivered(x)'
  <2>1. /\ q.alert = a /\ ~Remembers(a)
        /\ accepted'[a] = now /\ copies'[a] = copies[a] + 1
        /\ UNCHANGED <<now, attempts, waived>> /\ Reply(q, "taken")
    BY <1>2 DEF Take, providerVars, TypeOK, Request
  <2>2. /\ q.at <= now /\ now <= q.by
        /\ AttemptBehind(q) \in attempts
        /\ q.owner # Nobody => job[q.owner].pc = "sending"
        /\ copies[a] > 0 => q.by <= accepted[a] + DedupWindow
    BY <1>0, <2>1 DEF WireInv
  <2>3. copies[a] = 0
    <3>1. /\ now \in Nat /\ q.by \in Nat /\ accepted[a] \in Nat
          /\ copies[a] \in Nat /\ DedupWindow \in Nat
      BY Margins DEF TypeOK, Request
    <3> QED BY <2>1, <2>2, <3>1 DEF Remembers
  <2>4. q.owner \in Workers \cup {Nobody}
    BY DEF TypeOK, Request
  <2>5. q.owner \in Workers =>
           job'[q.owner].pc = job[q.owner].pc /\ job'[q.owner].reply = "taken"
    BY <2>1 DEF Reply, TypeOK, Job
  <2> DEFINE x == AttemptBehind(q)
  <2>6. x.alert = a /\ x.at = q.at /\ x.owner = q.owner
    BY <2>1 DEF AttemptBehind
  <2>7. Nobody \notin Workers
    BY ConstantsAssumption
  <2>8. \E y \in attempts' : /\ y.alert = a
                             /\ y.at <= accepted'[a]
                             /\ Delivered(y)'
    <3>1. x \in attempts'
      BY <2>1, <2>2
    <3> HIDE DEF x
    <3>2. PICK y \in attempts' : y = x
      BY <3>1
    <3>3. Delivered(y)'
      BY <2>2, <2>4, <2>5, <2>6, <2>7, <3>2 DEF Delivered
    <3> QED BY <2>1, <2>2, <2>6, <3>2, <3>3
  <2> QED BY <2>1, <2>3, <2>8
<1> QED BY <1>1, <1>2, ProviderStep DEF providerVars

LEMMA ClockStep ==
    ASSUME TypeOK, [Next]_vars
    PROVE  now <= now' /\ now' \in Nat
<1>1. now' = now \/ now' = now + 1
  BY ZenonT(40) DEF Next, Organizer, Serve, Work, Fail, Provider, Decide, vars,
         Tick, EditEvent, Review, Expire, Claim, SendLocally, RecordIntent,
         RefuseIntent, LoseIntent, AskBoundary, RefuseAtBoundary,
         FailAtBoundary, HandOff, Take, Refuse, Drop, RecordSent,
         RecordRefusal, RecordUnknown, LoseOutcome, Crash, LoseConnection
<1> QED BY <1>1 DEF TypeOK

(* Only asking makes an answer.                                            *)
LEMMA AskedBefore ==
    ASSUME TypeOK, [Next]_vars, NEW w \in Workers, job'[w].pc = "asked"
    PROVE  \/ AskBoundary(w)
           \/ /\ job[w].pc = "asked" /\ job'[w].verdict = job[w].verdict
              /\ job'[w].alert = job[w].alert
              /\ job'[w].askedAt = job[w].askedAt
              /\ job'[w].closes = job[w].closes
              /\ job'[w].released = job[w].released
<1> DEFINE Goal == /\ job[w].pc = "asked" /\ job'[w].verdict = job[w].verdict
                   /\ job'[w].alert = job[w].alert
                   /\ job'[w].askedAt = job[w].askedAt
                   /\ job'[w].closes = job[w].closes
                   /\ job'[w].released = job[w].released
<1>1. CASE job' = job
  BY <1>1
<1>2. ASSUME NEW v \in Workers, Release(v)
      PROVE  Goal
  BY <1>2, ReleaseJob
<1>3. ASSUME NEW v \in Workers, NEW a \in Alerts, Claim(v, a)
      PROVE  Goal
  BY <1>3, ClaimJob
<1>4. ASSUME NEW v \in Workers, RecordIntent(v)
      PROVE  Goal
  BY <1>4, IntentJob
<1>5. ASSUME NEW v \in Workers, AskBoundary(v)
      PROVE  Goal \/ AskBoundary(w)
  BY <1>5, AskJob
<1>6. ASSUME NEW v \in Workers, HandOff(v)
      PROVE  Goal
  BY <1>6, HandOffJob
<1>7. ASSUME NEW v \in Workers, LoseConnection(v)
      PROVE  Goal
  <2>1. CASE v = w
    BY <1>7, <2>1, LostConnectionJob
  <2>2. CASE v # w
    BY <1>7, <2>2, LostConnectionJob
  <2> QED BY <2>1, <2>2
<1>8. ASSUME NEW q \in wire, Decide(q)
      PROVE  Goal
  BY <1>8, DecideJob
<1> QED
  BY <1>1, <1>2, <1>3, <1>4, <1>5, <1>6, <1>7, <1>8
     DEF Next, Organizer, Serve, Work, Fail, Provider, vars,
         Tick, EditEvent, Review, Expire, SendLocally, RefuseIntent,
         LoseIntent, RefuseAtBoundary, FailAtBoundary, RecordSent,
         RecordRefusal, RecordUnknown, LoseOutcome, Crash

LEMMA AskStep ==
    TypeOK /\ LockInv /\ AttemptInv /\ WireInv /\ AskInv /\ CoverInv
        /\ [Next]_vars => AskInv'
<1> SUFFICES ASSUME TypeOK, LockInv, AttemptInv, WireInv, AskInv, CoverInv,
                    [Next]_vars, NEW w \in Workers,
                    job'[w].pc = "asked", job'[w].verdict = "clear"
             PROVE  /\ job'[w].askedAt <= now'
                    /\ copies'[job'[w].alert] > 0 /\ ~waived'[job'[w].alert] =>
                          \/ job'[w].askedAt + BoundaryMargin
                                <= accepted'[job'[w].alert] + DedupWindow
                          \/ \E x \in attempts' :
                                /\ x.alert = job'[w].alert
                                /\ x.at + DedupWindow
                                      < job'[w].askedAt + BoundaryMargin
                                /\ OutOfReach(x)'
  BY DEF AskInv, Landed
<1> DEFINE a == job[w].alert
<1>0. /\ job[w] \in Job /\ a \in Alerts /\ now \in Nat
      /\ job[w].askedAt \in Nat
      /\ accepted \in [Alerts -> Nat] /\ copies \in [Alerts -> Nat]
      /\ DedupWindow \in Nat /\ BoundaryMargin \in Nat
      /\ BoundaryMargin <= DedupWindow
      /\ \A x \in attempts : x.at \in Nat /\ x.alert \in Alerts
                             /\ x.owner \in Workers \cup {Nobody}
      /\ Nobody \notin Workers
  <2>1. job[w] \in Job /\ a \in Alerts /\ now \in Nat /\ job[w].askedAt \in Nat
    BY DEF TypeOK, Job
  <2>2. accepted \in [Alerts -> Nat] /\ copies \in [Alerts -> Nat]
    BY DEF TypeOK
  <2>3. \A x \in attempts : x.at \in Nat /\ x.alert \in Alerts
                             /\ x.owner \in Workers \cup {Nobody}
    BY DEF TypeOK, Attempt
  <2> QED BY <2>1, <2>2, <2>3, Margins, ConstantsAssumption
(* The worker asks in this step.                                           *)
<1>1. ASSUME AskBoundary(w)
      PROVE  /\ job'[w].askedAt = now /\ job'[w].alert = a /\ now' = now
             /\ Landed(a) => \/ now + BoundaryMargin <= accepted[a] + DedupWindow
                             \/ \E x \in attempts' :
                                   /\ x.alert = a
                                   /\ x.at + DedupWindow < now + BoundaryMargin
                                   /\ OutOfReach(x)'
             /\ UNCHANGED <<providerVars, waived>>
  <2>1. /\ job[w].live /\ job[w].pc = "intended"
        /\ UNCHANGED <<now, attempts, providerVars, waived>>
    BY <1>1 DEF AskBoundary
  <2>2. /\ job'[w].askedAt = now /\ job'[w].alert = a
        /\ \A v \in Workers : v # w => job'[v] = job[v]
    BY <1>1, AskJob
  <2>3. ASSUME Landed(a), ~(now + BoundaryMargin <= accepted[a] + DedupWindow)
        PROVE  \E x \in attempts : /\ x.alert = a
                                   /\ x.at + DedupWindow < now + BoundaryMargin
                                   /\ OutOfReach(x)'
    <3>1. row[a].status # "sent"
      BY <2>1 DEF LockInv, Waiting
    <3>2. PICK x \in attempts : x.alert = a /\ x.at <= accepted[a] /\ Delivered(x)
      BY <1>0, <2>3, <3>1 DEF CoverInv
    <3>3. x.at + DedupWindow < now + BoundaryMargin
      <4>1. x.at \in Nat /\ accepted[a] \in Nat
        BY <1>0
      <4> QED BY <1>0, <2>3, <3>2, <4>1
    <3>4. OutOfReach(x)'
      <4>1. CASE x.owner = Nobody
        BY <4>1 DEF OutOfReach, Delivered
      <4>2. CASE x.owner # Nobody
        <5>1. x.owner \in Workers /\ x.owner # w
              /\ job[x.owner].pc = "sending" /\ job[x.owner].reply = "taken"
          BY <1>0, <2>1, <3>2, <4>2 DEF Delivered
        <5>2. job[x.owner].alert = a
          BY <3>2, <4>2 DEF AttemptInv
        <5>3. ~job[x.owner].live
          BY <2>1, <5>1, <5>2 DEF LockInv
        <5>4. job'[x.owner] = job[x.owner]
          BY <2>2, <5>1
        <5> QED BY <5>1, <5>3, <5>4 DEF OutOfReach, Delivered
      <4> QED BY <4>1, <4>2
    <3> QED BY <3>2, <3>3, <3>4
  <2> QED BY <2>1, <2>2, <2>3
(* It asked before, and the answer ages.                                   *)
<1>2. ASSUME job[w].pc = "asked", job[w].verdict = "clear",
             job'[w].alert = a, job'[w].askedAt = job[w].askedAt, now <= now',
             now' \in Nat
      PROVE  /\ job'[w].askedAt <= now'
             /\ copies'[a] > 0 /\ ~waived'[a] =>
                   \/ job[w].askedAt + BoundaryMargin
                         <= accepted'[a] + DedupWindow
                   \/ \E x \in attempts' :
                         /\ x.alert = a
                         /\ x.at + DedupWindow
                               < job[w].askedAt + BoundaryMargin
                         /\ OutOfReach(x)'
  <2>1. /\ job[w].askedAt <= now
        /\ Landed(a) =>
              \/ job[w].askedAt + BoundaryMargin <= accepted[a] + DedupWindow
              \/ \E x \in attempts :
                    /\ x.alert = a
                    /\ x.at + DedupWindow < job[w].askedAt + BoundaryMargin
                    /\ OutOfReach(x)
    BY <1>2 DEF AskInv
  <2> SUFFICES ASSUME copies'[a] > 0, ~waived'[a]
               PROVE  \/ job[w].askedAt + BoundaryMargin
                            <= accepted'[a] + DedupWindow
                      \/ \E x \in attempts' :
                            /\ x.alert = a
                            /\ x.at + DedupWindow
                                  < job[w].askedAt + BoundaryMargin
                            /\ OutOfReach(x)'
    BY <1>0, <1>2, <2>1
  <2>2. ~waived[a]
    BY <1>0, WaivedStep
  <2>3. CASE accepted'[a] = now
    BY <1>0, <2>1, <2>3
  <2>4. CASE accepted'[a] = accepted[a] /\ copies'[a] = copies[a]
    <3>1. Landed(a)
      BY <2>2, <2>4 DEF Landed
    <3>2. CASE job[w].askedAt + BoundaryMargin <= accepted[a] + DedupWindow
      BY <2>4, <3>2
    <3>3. ASSUME NEW x \in attempts, x.alert = a, OutOfReach(x),
                 x.at + DedupWindow < job[w].askedAt + BoundaryMargin
          PROVE  \E y \in attempts' :
                    /\ y.alert = a
                    /\ y.at + DedupWindow < job[w].askedAt + BoundaryMargin
                    /\ OutOfReach(y)'
      <4>1. Delivered(x)
        BY <3>3 DEF OutOfReach
      <4>2. PICK y \in attempts' :
               y.alert = x.alert /\ y.at = x.at /\ OutOfReach(y)'
        BY <3>3, <4>1, WitnessStep
      <4> QED BY <3>3, <4>2
    <3> QED BY <2>1, <3>1, <3>2, <3>3
  <2>5. \/ accepted'[a] = now
        \/ accepted'[a] = accepted[a] /\ copies'[a] = copies[a]
    BY <1>0, ProviderStep DEF Take, providerVars
  <2> QED BY <2>3, <2>4, <2>5
<1>3. AskBoundary(w) \/ /\ job[w].pc = "asked" /\ job[w].verdict = "clear"
                        /\ job'[w].alert = a
                        /\ job'[w].askedAt = job[w].askedAt
  BY AskedBefore
<1>4. now <= now' /\ now' \in Nat
  BY <1>0, ClockStep
<1>5. CASE AskBoundary(w)
  <2>1. copies'[a] > 0 /\ ~waived'[a] => Landed(a)
    BY <1>1, <1>5 DEF Landed, providerVars
  <2> QED BY <1>0, <1>1, <1>5, <2>1 DEF providerVars
<1>6. CASE ~AskBoundary(w)
  BY <1>2, <1>3, <1>4, <1>6
<1> QED BY <1>5, <1>6

----------------------------------------------------------------------------
(* The filing window.                                                      *)

(* Only a handoff puts a request on the wire.                              *)
LEMMA RequestsBefore ==
    ASSUME TypeOK, [Next]_vars, NEW s \in wire'
    PROVE  \/ \E r \in wire :
                 /\ s.by = r.by /\ s.closes = r.closes
                 /\ s.owner # Nobody => s = r
           \/ \E w \in Workers :
                 /\ HandOff(w)
                 /\ s.alert = job[w].alert /\ s.owner = w
                 /\ s.by = now + ProviderTimeout /\ s.closes = job[w].closes
<1>1. CASE wire' \subseteq wire
  BY <1>1
<1>2. ASSUME NEW w \in Workers, wire' = Orphan(wire, w)
      PROVE  \E r \in wire : /\ s.by = r.by /\ s.closes = r.closes
                             /\ s.owner # Nobody => s = r
  BY <1>2, OrphanRequests
<1>3. ASSUME NEW w \in Workers, HandOff(w), s \notin wire
      PROVE  /\ s.alert = job[w].alert /\ s.owner = w
             /\ s.by = now + ProviderTimeout /\ s.closes = job[w].closes
  BY <1>3 DEF HandOff
<1> QED
  BY <1>1, <1>2, <1>3, ZenonT(40)
     DEF Next, Organizer, Serve, Work, Fail, Provider, Decide, vars,
         Tick, EditEvent, Review, Expire, Claim, SendLocally, RecordIntent,
         RefuseIntent, LoseIntent, AskBoundary, RefuseAtBoundary,
         FailAtBoundary, Take, Refuse, Drop, RecordSent, RecordRefusal,
         RecordUnknown, LoseOutcome, Crash, LoseConnection

LEMMA ShutStep == TypeOK /\ ShutInv /\ [Next]_vars => ShutInv'
<1> SUFFICES ASSUME TypeOK, ShutInv, [Next]_vars PROVE ShutInv'
  OBVIOUS
<1>1. ASSUME NEW w \in Workers, job'[w].pc = "asked",
             job'[w].verdict = "clear", job'[w].closes # NoWindow
      PROVE  job'[w].askedAt + BoundaryMargin < job'[w].closes
  <2>1. CASE AskBoundary(w)
    <3>1. /\ job'[w].askedAt = now
          /\ job'[w].closes = row[job[w].alert].closes
          /\ BoundaryVerdict(job[w].alert) = "clear"
      BY <1>1, <2>1, AskJob
    <3>2. ~ShutBy(job[w].alert, now + BoundaryMargin)
      BY <3>1 DEF BoundaryVerdict
    <3>3. row[job[w].alert].closes \in Nat /\ now \in Nat
      BY <1>1, <3>1, IntentType DEF TypeOK, Row
    <3> QED BY <1>1, <3>1, <3>2, <3>3, Margins DEF ShutBy
  <2>2. CASE ~AskBoundary(w)
    BY <1>1, <2>2, AskedBefore DEF ShutInv
  <2> QED BY <2>1, <2>2
<1>2. ASSUME NEW s \in wire', s.closes # NoWindow
      PROVE  s.by < s.closes
  <2>1. CASE \E r \in wire : s.by = r.by /\ s.closes = r.closes
    BY <1>2, <2>1 DEF ShutInv
  <2>2. ASSUME NEW w \in Workers, HandOff(w),
               s.by = now + ProviderTimeout, s.closes = job[w].closes
        PROVE  s.by < s.closes
    <3>1. /\ job[w].pc = "asked" /\ job[w].verdict = "clear"
          /\ now <= job[w].askedAt + HandoffBudget
      BY <2>2 DEF HandOff, Refuses, HandoffFitsTheMargin
    <3>2. job[w].askedAt + BoundaryMargin < job[w].closes
      BY <1>2, <2>2, <3>1 DEF ShutInv
    <3>3. job[w].askedAt \in Nat /\ job[w].closes \in Nat /\ now \in Nat
      BY <1>2, <2>2 DEF TypeOK, Job
    <3> QED BY <2>2, <3>1, <3>2, <3>3, Margins
  <2> QED BY <2>1, <2>2, RequestsBefore
<1> QED BY <1>1, <1>2 DEF ShutInv

LEMMA SentStep ==
    TypeOK /\ LockInv /\ WireInv /\ SentInv /\ [Next]_vars => SentInv'
<1> SUFFICES ASSUME TypeOK, LockInv, WireInv, SentInv, [Next]_vars
             PROVE  SentInv'
  OBVIOUS
<1> USE DEF SentInv, SentWasTaken
<1>0. /\ \A w \in Workers : job[w] \in Job /\ job[w].alert \in Alerts
      /\ copies \in [Alerts -> Nat]
  BY IntentType DEF TypeOK
<1>1. \A b \in Alerts : copies[b] > 0 => copies'[b] > 0
  <2>1. CASE UNCHANGED providerVars
    BY <2>1 DEF providerVars
  <2>2. ASSUME NEW q \in wire, Take(q)
        PROVE  \A b \in Alerts : copies[b] > 0 => copies'[b] > 0
    BY <1>0, <2>2 DEF Take, providerVars
  <2> QED BY <2>1, <2>2, ProviderStep
(* A row becomes sent.                                                     *)
<1>2. ASSUME NEW b \in Alerts \ LocalAlerts,
             row'[b].status = "sent", row[b].status # "sent"
      PROVE  copies[b] > 0
  <2>1. ASSUME NEW wanted \in SUBSET Alerts,
               NEW schedule \in [wanted -> Schedules],
               Review(wanted, schedule)
        PROVE  FALSE
    <3>1. row'[b].status \in {row[b].status, "cancelled", "failed", "pending"}
      BY <2>1 DEF Review, Rescheduled
    <3> QED BY <1>2, <3>1
  <2>2. ASSUME NEW w \in Workers, NEW a \in Alerts, Expire(w, a)
        PROVE  FALSE
    BY <1>2, <2>2 DEF Expire, TypeOK
  <2>3. ASSUME NEW w \in Workers, SendLocally(w)
        PROVE  FALSE
    BY <1>0, <1>2, <2>3, SentRow, FailedRow DEF SendLocally
  <2>4. ASSUME NEW w \in Workers, RefuseAtBoundary(w)
        PROVE  FALSE
    <3>1. \/ UNCHANGED row
          \/ row' = [row EXCEPT ![job[w].alert].status = "cancelled"]
      BY <2>4 DEF RefuseAtBoundary
    <3>2. row'[b].status \in {row[b].status, "cancelled"}
      BY <1>0, <3>1 DEF TypeOK, Row
    <3> QED BY <1>2, <3>2
  <2>5. ASSUME NEW w \in Workers, RecordSent(w)
        PROVE  copies[b] > 0
    BY <1>0, <1>2, <2>5, SentRow DEF RecordSent
  <2>6. ASSUME NEW w \in Workers, RecordRefusal(w) \/ RecordUnknown(w)
        PROVE  FALSE
    BY <1>0, <1>2, <2>6, FailedRow DEF RecordRefusal, RecordUnknown
  <2>7. CASE UNCHANGED row
    BY <1>2, <2>7
  <2> QED
    BY <2>1, <2>2, <2>3, <2>4, <2>5, <2>6, <2>7
       DEF Next, Organizer, Serve, Work, Fail, Provider, Decide, vars,
           Tick, EditEvent, Claim, RecordIntent, RefuseIntent, LoseIntent,
           AskBoundary, FailAtBoundary, HandOff, Take, Refuse, Drop,
           LoseOutcome, Crash, LoseConnection
(* A worker learns that its message was taken.                             *)
<1>3. ASSUME NEW w \in Workers, job'[w].pc = "sending",
             job'[w].reply = "taken",
             ~(job[w].pc = "sending" /\ job[w].reply = "taken")
      PROVE  copies'[job'[w].alert] > 0
  <2>1. ASSUME NEW q \in wire, Decide(q)
        PROVE  copies'[job'[w].alert] > 0
    <3>1. /\ job[w].pc = "sending" /\ job'[w].alert = job[w].alert
          /\ w = q.owner
      BY <1>3, <2>1, DecideJob
    <3>2. job[w].alert = q.alert
      BY <3>1, ConstantsAssumption DEF WireInv
    <3>3. Take(q)
      BY <1>0, <1>3, <2>1, <3>1 DEF Decide, Refuse, Drop, Reply, TypeOK, Job
    <3> QED BY <1>0, <3>1, <3>2, <3>3 DEF Take, Remembers, providerVars
  <2>2. ASSUME NEW v \in Workers,
               \/ Release(v) \/ (\E a \in Alerts : Claim(v, a))
               \/ RecordIntent(v) \/ AskBoundary(v)
        PROVE  FALSE
    BY <1>3, <2>2, ReleaseJob, ClaimJob, IntentJob, AskJob
  <2>3. ASSUME NEW v \in Workers, HandOff(v)
        PROVE  FALSE
    <3>1. job[v].pc = "asked"
      BY <2>3 DEF HandOff
    <3>2. job[v].reply = "none"
      BY <3>1 DEF WireInv
    <3> QED BY <1>3, <2>3, <3>2, HandOffJob
  <2>4. ASSUME NEW v \in Workers, LoseConnection(v)
        PROVE  FALSE
    BY <1>3, <2>4, LostConnectionJob
  <2>5. CASE UNCHANGED job
    BY <1>3, <2>5
  <2> QED
    BY <2>1, <2>2, <2>3, <2>4, <2>5
       DEF Next, Organizer, Serve, Work, Fail, Provider, vars,
           Tick, EditEvent, Review, Expire, SendLocally, RefuseIntent,
           LoseIntent, RefuseAtBoundary, FailAtBoundary, RecordSent,
           RecordRefusal, RecordUnknown, LoseOutcome, Crash
<1>4. ASSUME NEW w \in Workers, job'[w].pc = "sending",
             job[w].pc = "sending"
      PROVE  job'[w].alert = job[w].alert
  <2>1. ASSUME NEW v \in Workers,
               \/ Release(v) \/ (\E a \in Alerts : Claim(v, a))
               \/ RecordIntent(v) \/ AskBoundary(v) \/ HandOff(v)
        PROVE  job'[w].alert = job[w].alert
    BY <1>4, <2>1, ReleaseJob, ClaimJob, IntentJob, AskJob, HandOffJob
  <2>2. ASSUME NEW v \in Workers, LoseConnection(v)
        PROVE  job'[w].alert = job[w].alert
    BY <2>2, LostConnectionJob
  <2>3. ASSUME NEW q \in wire, Decide(q)
        PROVE  job'[w].alert = job[w].alert
    BY <2>3, DecideJob
  <2>4. CASE UNCHANGED job
    BY <2>4
  <2> QED
    BY <2>1, <2>2, <2>3, <2>4
       DEF Next, Organizer, Serve, Work, Fail, Provider, vars,
           Tick, EditEvent, Review, Expire, SendLocally, RefuseIntent,
           LoseIntent, RefuseAtBoundary, FailAtBoundary, RecordSent,
           RecordRefusal, RecordUnknown, LoseOutcome, Crash
<1>5. SentWasTaken'
  BY <1>1, <1>2
<1>6. ASSUME NEW w \in Workers, job'[w].pc = "sending",
             job'[w].reply = "taken"
      PROVE  copies'[job'[w].alert] > 0
  BY <1>0, <1>1, <1>3, <1>4, <1>6
<1> QED BY <1>5, <1>6

----------------------------------------------------------------------------
(* Giving up.                                                              *)

(* An open attempt keeps its alert and its instant; a new one has this     *)
(* instant.                                                                *)
LEMMA AttemptsBefore ==
    ASSUME TypeOK, [Next]_vars, NEW y \in attempts'
    PROVE  (\E x \in attempts : y.alert = x.alert /\ y.at = x.at) \/ y.at = now
<1> DEFINE Goal ==
      (\E x \in attempts : y.alert = x.alert /\ y.at = x.at) \/ y.at = now
<1>1. CASE y \in attempts
  BY <1>1
<1>2. ASSUME NEW wanted \in SUBSET Alerts,
             NEW schedule \in [wanted -> Schedules],
             Review(wanted, schedule)
      PROVE  Goal
  BY <1>1, <1>2, ReviewMarks
<1>3. ASSUME NEW w \in Workers, NEW a \in Alerts, NEW added,
             Supersede(a, added), \A x \in added : x.at = now
      PROVE  Goal
  BY <1>1, <1>3, SupersedeMarks
<1>4. ASSUME NEW w \in Workers, RecordIntent(w) \/ LoseIntent(w)
      PROVE  Goal
  <2>1. /\ IntentOf(w).at = now
        /\ [IntentOf(w) EXCEPT !.owner = Nobody].at = now
        /\ job[w].alert \in Alerts
    BY IntentType DEF IntentOf
  <2>2. \/ UNCHANGED attempts
        \/ \E added : /\ Supersede(job[w].alert, added)
                      /\ \A x \in added : x.at = now
    <3>1. CASE RecordIntent(w)
      BY <2>1, <3>1 DEF RecordIntent
    <3>2. CASE LoseIntent(w)
      <4> DEFINE left == [IntentOf(w) EXCEPT !.owner = Nobody]
      <4>1. \/ UNCHANGED attempts
            \/ Supersede(job[w].alert, {})
            \/ Supersede(job[w].alert, {left})
        BY <3>2 DEF LoseIntent
      <4>2. left.at = now
        BY <2>1
      <4> HIDE DEF left
      <4>3. (\A x \in {} : x.at = now) /\ (\A x \in {left} : x.at = now)
        BY <4>2
      <4> QED BY <4>1, <4>3
    <3> QED BY <1>4, <3>1, <3>2
  <2> QED BY <1>1, <1>3, <2>1, <2>2
<1>5. ASSUME NEW w \in Workers, Close(w) \/ LeaveOpen(w)
      PROVE  Goal
  BY <1>1, <1>5, OrphanMembers DEF Close, LeaveOpen
<1>6. CASE UNCHANGED attempts
  BY <1>1, <1>6
<1> QED
  BY <1>2, <1>4, <1>5, <1>6, ZenonT(40)
     DEF Next, Organizer, Serve, Work, Fail, Provider, Decide, vars,
         Tick, EditEvent, Expire, Claim, SendLocally, RefuseIntent,
         AskBoundary, RefuseAtBoundary, FailAtBoundary, HandOff, Take, Refuse,
         Drop, RecordSent, RecordRefusal, RecordUnknown, LoseOutcome, Crash,
         LoseConnection

LEMMA ReleaseStep == TypeOK /\ AskInv /\ ReleaseInv /\ [Next]_vars => ReleaseInv'
<1> SUFFICES ASSUME TypeOK, AskInv, ReleaseInv, [Next]_vars,
                    NEW w \in Workers, job'[w].pc = "asked",
                    job'[w].verdict = "clear", ~job'[w].released,
                    NEW y \in attempts', y.alert = job'[w].alert
             PROVE  job'[w].askedAt + BoundaryMargin <= y.at + DedupWindow
  BY DEF ReleaseInv, Open
<1>0. /\ now \in Nat /\ job[w].askedAt \in Nat
      /\ \A x \in attempts : x.at \in Nat
  BY DEF TypeOK, Job, Attempt
<1>1. CASE AskBoundary(w)
  <2>1. /\ job'[w].askedAt = now /\ job'[w].alert = job[w].alert
        /\ BoundaryVerdict(job[w].alert) = "clear"
        /\ ~Released(job[w].alert)
    BY <1>1, AskJob
  <2>2. attempts' = attempts
    BY <1>1 DEF AskBoundary
  <2>3. ~PastCutoff(job[w].alert, BoundaryMargin)
    BY <2>1 DEF BoundaryVerdict, Held
  <2>4. ~(y.at + DedupWindow < now + BoundaryMargin)
    BY <2>1, <2>2, <2>3 DEF PastCutoff, Open
  <2> QED BY <1>0, <2>1, <2>2, <2>4, Margins
<1>2. CASE ~AskBoundary(w)
  <2>1. /\ job[w].pc = "asked" /\ job[w].verdict = "clear"
        /\ ~job[w].released /\ job'[w].alert = job[w].alert
        /\ job'[w].askedAt = job[w].askedAt
    BY <1>2, AskedBefore
  <2>2. CASE y.at = now
    <3>1. job[w].askedAt <= now
      BY <2>1 DEF AskInv
    <3> QED BY <1>0, <2>1, <2>2, <3>1, Margins
  <2>3. ASSUME NEW x \in attempts, y.alert = x.alert, y.at = x.at
        PROVE  job'[w].askedAt + BoundaryMargin <= y.at + DedupWindow
    BY <2>1, <2>3 DEF ReleaseInv, Open
  <2> QED BY <2>2, <2>3, AttemptsBefore
<1> QED BY <1>1, <1>2

----------------------------------------------------------------------------
(* The inductive invariant and what follows from it.                       *)

IInv ==
    TypeOK /\ LockInv /\ AttemptInv /\ WireInv /\ AskInv /\ CoverInv
        /\ ShutInv /\ SentInv /\ ReleaseInv

LEMMA Invariance == Spec => []IInv
<1>1. Init => IInv
  <2> SUFFICES ASSUME Init PROVE IInv
    OBVIOUS
  <2>1. TypeOK
    BY ConstantsAssumption, IdleIsAJob
       DEF Init, TypeOK, Row, Status, Attempt, Request
  <2>2. \A w \in Workers : job[w].pc = "idle" /\ ~job[w].live
                           /\ job[w].reply = "none"
    BY IdleIsAJob DEF Init, IdleJob
  <2>3. LockInv /\ AttemptInv /\ WireInv /\ AskInv /\ ShutInv /\ ReleaseInv
    BY <2>2 DEF Init, LockInv, AttemptInv, WireInv, AskInv, ShutInv, ReleaseInv,
                InHand
  <2>4. CoverInv /\ SentInv
    BY <2>2 DEF Init, CoverInv, SentInv, SentWasTaken, Landed
  <2> QED BY <2>1, <2>3, <2>4 DEF IInv
<1>2. IInv /\ [Next]_vars => IInv'
  BY TypeStep, LockStep, AttemptStep, WireStep, AskStep, CoverStep, ShutStep,
     SentStep, ReleaseStep DEF IInv
<1> QED BY <1>1, <1>2, PTL DEF Spec

(* However many processes send, crash, lose answers and retry, and         *)
(* whatever the windows and margins are, an alert is delivered twice only  *)
(* after the code gave up on an unresolved attempt of it.                  *)
THEOREM AtMostOneCopy == Spec => []NoUnaccountedDuplicate
<1>1. IInv => NoUnaccountedDuplicate
  <2> SUFFICES ASSUME IInv, NEW a \in Alerts, copies[a] > 1
               PROVE  waived[a]
    BY DEF NoUnaccountedDuplicate
  <2>1. copies[a] \in Nat
    BY DEF IInv, TypeOK
  <2>2. ~waived[a] => copies[a] = 1
    BY <2>1 DEF IInv, CoverInv, Landed
  <2> QED BY <2>2
<1> QED BY <1>1, Invariance, PTL

(* A delivery the database does not know of is always covered by an        *)
(* unresolved attempt that the hold measures from.                         *)
THEOREM DeliveriesAreCovered == Spec => []UnrecordedDeliveryIsCovered
<1>1. IInv => UnrecordedDeliveryIsCovered
  BY DEF IInv, UnrecordedDeliveryIsCovered, CoverInv, Landed, Open
<1> QED BY <1>1, Invariance, PTL

(* Whatever the margins are, no request is still under way when the filing *)
(* window its message counts down to has shut.                             *)
THEOREM LandsInsideTheWindow == Spec => []NothingLandsAfterShut
<1>1. IInv => NothingLandsAfterShut
  <2> SUFFICES ASSUME IInv, NEW r \in wire, r.closes # NoWindow
               PROVE  now < r.closes
    BY DEF NothingLandsAfterShut
  <2>1. now \in Nat /\ r.by \in Nat /\ r.closes \in Nat
    BY DEF IInv, TypeOK, Request
  <2>2. now <= r.by /\ r.by < r.closes
    BY DEF IInv, WireInv, ShutInv
  <2> QED BY <2>1, <2>2
<1> QED BY <1>1, Invariance, PTL

(* A row the code marked sent stands for a message the provider took.      *)
THEOREM SentMeansTaken == Spec => []SentWasTaken
<1>1. IInv => SentWasTaken
  BY DEF IInv, SentInv
<1> QED BY <1>1, Invariance, PTL

(* The claim's locks do keep edits, reviews and other workers out until    *)
(* the message is handed over.                                             *)
THEOREM LocksKeepTheHandoffCurrent == Spec => HandoffIsCurrent
<1> DEFINE Current ==
      \A r \in wire' \ wire :
          \A w \in Workers : w = r.owner /\ job[w].live =>
             Waiting(r.alert) /\ ~Stale(r.alert)
<1>1. IInv /\ [Next]_vars => Current
  <2> SUFFICES ASSUME IInv, [Next]_vars, NEW r \in wire' \ wire,
                      NEW w \in Workers, w = r.owner, job[w].live
               PROVE  Waiting(r.alert) /\ ~Stale(r.alert)
    OBVIOUS
  <2>1. r.owner # Nobody
    BY ConstantsAssumption
  <2>2. r.alert = job[w].alert
    BY <2>1, RequestsBefore DEF IInv
  <2> QED BY <2>2 DEF IInv, LockInv
<1>2. []IInv /\ [][Next]_vars => [][Current]_vars
  <2>1. IInv /\ [Next]_vars => [Current]_vars
    BY <1>1
  <2> QED BY <2>1, PTL
<1> QED BY <1>2, Invariance, PTL DEF Spec, HandoffIsCurrent

(* An unresolved attempt is not given up by accident: whatever the other   *)
(* sends of the alert record, close or lose between the question a worker  *)
(* asks its boundary and its handoff, the hold was over, or the window was *)
(* about to shut, when it asked.                                           *)
THEOREM GivingUpIsDeliberate == Spec => GivesUpOnlyOnRelease
<1> DEFINE Justified ==
      \A a \in Alerts : waived'[a] /\ ~waived[a] =>
          \/ Released(a)
          \/ row[a].status = "cancelled" /\ row'[a].status = "pending"
          \/ \E w \in Workers :
                 /\ job[w].alert = a /\ job[w].pc = "asked" /\ job[w].released
                 /\ job'[w].pc = "sending"
<1>1. IInv /\ [Next]_vars => Justified
  <2> SUFFICES ASSUME IInv, [Next]_vars, NEW a \in Alerts, waived'[a], ~waived[a]
               PROVE  \/ Released(a)
                      \/ row[a].status = "cancelled" /\ row'[a].status = "pending"
                      \/ \E w \in Workers :
                             /\ job[w].alert = a /\ job[w].pc = "asked"
                             /\ job[w].released /\ job'[w].pc = "sending"
    OBVIOUS
  <2>0. TypeOK
    BY DEF IInv
  (* A review that revives a cancelled row.                                *)
  <2>1. ASSUME NEW wanted \in SUBSET Alerts,
               NEW schedule \in [wanted -> Schedules],
               Review(wanted, schedule)
        PROVE  row[a].status = "cancelled" /\ row'[a].status = "pending"
    <3>1. a \in wanted /\ row[a].status = "cancelled"
      BY <2>0, <2>1 DEF Review, TypeOK
    <3>2. row'[a] = Rescheduled(row[a], schedule[a])
      BY <2>1, <3>1 DEF Review
    <3> QED BY <3>1, <3>2 DEF Rescheduled
  (* A new intent that overtakes older attempts.                           *)
  <2>2. ASSUME NEW w \in Workers, NEW added, ~Held(job[w].alert, ClaimMargin),
               Supersede(job[w].alert, added)
        PROVE  Released(a)
    <3>1. job[w].alert = a
      BY <2>0, <2>2, IntentType, SupersedeMarks
    <3>2. Overtaken(a) # {}
      BY <2>2, <3>1 DEF Supersede, IInv, TypeOK
    <3>3. PastCutoff(a, ClaimMargin)
      <4>1. PICK x \in Open(a) : x.at + DedupWindow < now
        BY <3>2 DEF Overtaken
      <4>2. x.at \in Nat /\ now \in Nat
        BY <2>0, <4>1 DEF TypeOK, Open, Attempt
      <4>3. x.at + DedupWindow < now + ClaimMargin
        BY <4>1, <4>2, Margins
      <4> QED BY <4>3 DEF PastCutoff
    <3> QED BY <2>2, <3>1, <3>3 DEF Held
  (* A handoff.                                                            *)
  <2>3. ASSUME NEW w \in Workers, HandOff(w)
        PROVE  /\ job[w].alert = a /\ job[w].pc = "asked"
               /\ job[w].released /\ job'[w].pc = "sending"
    <3>1. /\ job[w].pc = "asked" /\ job[w].verdict = "clear"
          /\ job'[w].pc = "sending"
      BY <2>0, <2>3, HandOffJob DEF HandOff, Refuses
    <3>2. /\ job[w].alert = a
          /\ \E x \in Open(a) :
                x.at + DedupWindow < job[w].askedAt + BoundaryMargin
      BY <2>0, <2>3 DEF HandOff, TypeOK
    <3>3. PICK x \in Open(a) :
               x.at + DedupWindow < job[w].askedAt + BoundaryMargin
      BY <3>2
    <3>4. x.at \in Nat /\ job[w].askedAt \in Nat
      BY <2>0 DEF TypeOK, Open, Attempt, Job
    <3>5. ~(job[w].askedAt + BoundaryMargin <= x.at + DedupWindow)
      BY <3>3, <3>4, Margins
    <3>6. job[w].released
      BY <3>1, <3>2, <3>5 DEF IInv, ReleaseInv
    <3> QED BY <3>1, <3>2, <3>6
  <2>4. CASE UNCHANGED waived
    BY <2>4
  <2> QED
    BY <2>1, <2>2, <2>3, <2>4, ZenonT(40)
       DEF Next, Organizer, Serve, Work, Fail, Provider, Decide, vars,
           Tick, EditEvent, Expire, Claim, SendLocally, RecordIntent,
           RefuseIntent, LoseIntent, AskBoundary, RefuseAtBoundary,
           FailAtBoundary, Take, Refuse, Drop, RecordSent, RecordRefusal,
           RecordUnknown, LoseOutcome, Crash, LoseConnection
<1>2. []IInv /\ [][Next]_vars => [][Justified]_vars
  <2>1. IInv /\ [Next]_vars => [Justified]_vars
    BY <1>1
  <2> QED BY <2>1, PTL
<1> QED BY <1>2, Invariance, PTL DEF Spec, GivesUpOnlyOnRelease

----------------------------------------------------------------------------
(* The promise of AlertOutbox.                                             *)

(* Steps that leave what the service knows of every alert as it was.       *)
LEMMA StageKept ==
    ASSUME \A b \in Alerts : \/ row'[b].status = row[b].status
                             \/ {row[b].status, row'[b].status}
                                   \subseteq {"pending", "failed"}
    PROVE  UNCHANGED stage
<1>1. \A b \in Alerts :
         (IF row'[b].status \in {"pending", "failed"} THEN "waiting"
                                                     ELSE row'[b].status)
         = (IF row[b].status \in {"pending", "failed"} THEN "waiting"
                                                     ELSE row[b].status)
  OBVIOUS
<1> QED BY <1>1 DEF stage

(* Steps that end the wait of one alert.                                   *)
LEMMA StageOfOne ==
    ASSUME NEW a \in Alerts, Waiting(a), NEW s \in {"sent", "cancelled"},
           row'[a].status = s, \A b \in Alerts : b # a => row'[b] = row[b]
    PROVE  stage[a] = "waiting" /\ stage' = [stage EXCEPT ![a] = s]
<1>1. stage[a] = "waiting"
  BY DEF stage, Waiting
<1>2. \A b \in Alerts :
         (IF row'[b].status \in {"pending", "failed"} THEN "waiting"
                                                     ELSE row'[b].status)
         = (IF b = a THEN s ELSE stage[b])
  BY DEF stage
<1> QED BY <1>1, <1>2 DEF stage

LEMMA ReviewIsPromised ==
    ASSUME TypeOK, NEW wanted \in SUBSET Alerts,
           NEW schedule \in [wanted -> Schedules], Review(wanted, schedule)
    PROVE  Promise!Next
<1> DEFINE given == {a \in wanted : row[a].status = "cancelled" /\ Open(a) # {}}
<1>1. ASSUME NEW a \in Alerts
      PROVE  stage'[a] = IF a \in wanted /\ stage[a] # "sent" THEN "waiting"
                         ELSE IF stage[a] = "waiting" THEN "cancelled"
                         ELSE stage[a]
  <2>1. row[a].status \in Status
    BY DEF TypeOK, Row
  <2>2. row'[a].status =
           IF a \in wanted
           THEN IF row[a].status = "sent" THEN "sent"
                ELSE IF row[a].status = "failed" THEN "failed" ELSE "pending"
           ELSE IF Waiting(a) THEN "cancelled" ELSE row[a].status
    <3>1. Rescheduled(row[a], schedule[a]).status =
             IF row[a].status = "failed" THEN "failed" ELSE "pending"
      BY DEF Rescheduled
    <3>2. [row[a] EXCEPT !.status = "cancelled"].status = "cancelled"
      BY DEF TypeOK, Row
    <3> QED BY <3>1, <3>2 DEF Review
  <2> QED BY <2>1, <2>2 DEF stage, Waiting, Status
<1>2. stage' = [a \in Alerts |->
                  IF a \in wanted /\ stage[a] # "sent" THEN "waiting"
                  ELSE IF stage[a] = "waiting" THEN "cancelled"
                  ELSE stage[a]]
  <2>1. stage' = [a \in Alerts |-> stage'[a]]
    BY DEF stage
  <2> QED BY <1>1, <2>1
<1>3. waived' = [a \in Alerts |-> waived[a] \/ a \in given]
  <2>1. \A a \in Alerts :
           (a \in {b \in wanted : row[b].status = "cancelled"} /\ Open(a) # {})
           <=> a \in given
    OBVIOUS
  <2>2. waived' = [a \in Alerts |->
                     waived[a] \/ (a \in {b \in wanted :
                                           row[b].status = "cancelled"}
                                  /\ Open(a) # {})]
    BY DEF Review
  <2> HIDE DEF given
  <2> QED BY <2>1, <2>2
<1>4. given \in SUBSET {a \in wanted : stage[a] = "cancelled"}
  BY DEF stage
<1>5. UNCHANGED copies
  BY DEF Review, providerVars
<1>6. Promise!Review(wanted)
  <2> HIDE DEF given
  <2> QED BY <1>2, <1>3, <1>4, <1>5 DEF Promise!Review
<1> QED BY <1>6 DEF Promise!Next

(* An alert is given up by what its own send finds, and by nothing else.   *)
LEMMA GivingUpIsPromised ==
    ASSUME TypeOK, NEW a \in Alerts, NEW given \in BOOLEAN,
           waived' = [waived EXCEPT ![a] = @ \/ given],
           UNCHANGED <<row, copies>>
    PROVE  Promise!Next \/ UNCHANGED <<stage, copies, waived>>
<1>1. UNCHANGED stage
  BY StageKept
<1>2. CASE given
  <2>1. waived' = [waived EXCEPT ![a] = TRUE]
    BY <1>2
  <2> QED BY <1>1, <2>1 DEF Promise!Next, Promise!GiveUp
<1>3. CASE ~given
  <2>1. waived' = waived
    BY <1>3 DEF TypeOK
  <2> QED BY <1>1, <2>1
<1> QED BY <1>2, <1>3

(* A second message leaves the provider only when the alert was given up.  *)
LEMMA TakingIsPromised ==
    ASSUME IInv, NEW r \in wire, Take(r)
    PROVE  Promise!Next \/ UNCHANGED <<stage, copies, waived>>
<1> DEFINE a == r.alert
<1>0. /\ a \in Alerts /\ r.by \in Nat /\ now \in Nat /\ copies[a] \in Nat
      /\ accepted[a] \in Nat
  BY DEF IInv, TypeOK, Request
<1>1. UNCHANGED <<stage, waived>>
  BY StageKept DEF Take
<1>2. CASE Remembers(a)
  BY <1>1, <1>2 DEF Take, providerVars
<1>3. CASE ~Remembers(a)
  <2>1. copies[a] = 0 \/ waived[a]
    <3>1. now <= r.by /\ (Landed(a) => r.by <= accepted[a] + DedupWindow)
      BY DEF IInv, WireInv
    <3> QED BY <1>0, <1>3, <3>1, Margins DEF Remembers, Landed
  <2>2. copies' = [copies EXCEPT ![a] = @ + 1]
    BY <1>3 DEF Take
  <2> QED BY <1>0, <1>1, <2>1, <2>2 DEF Promise!Next, Promise!Deliver
<1> QED BY <1>2, <1>3

(* What a send that still holds its locks writes to its row.               *)
LEMMA RecordingIsPromised ==
    ASSUME IInv, NEW w \in Workers,
           SendLocally(w) \/ RecordSent(w) \/ RecordRefusal(w) \/ RecordUnknown(w)
    PROVE  Promise!Next \/ UNCHANGED <<stage, copies, waived>>
<1> DEFINE a == job[w].alert
<1>1. /\ TypeOK /\ a \in Alerts /\ Waiting(a)
      /\ UNCHANGED <<copies, waived>>
  BY IntentType DEF IInv, LockInv, SendLocally, RecordSent, RecordRefusal,
     RecordUnknown, providerVars
<1>2. CASE MarkSent(a)
  <2>1. row'[a].status = "sent" /\ \A b \in Alerts : b # a => row'[b] = row[b]
    BY <1>1, <1>2, SentRow
  <2>2. stage[a] = "waiting" /\ stage' = [stage EXCEPT ![a] = "sent"]
    BY <1>1, <2>1, StageOfOne
  <2>3. a \in LocalAlerts \/ copies[a] > 0
    <3>1. CASE SendLocally(w)
      BY <3>1 DEF SendLocally
    <3>2. CASE RecordSent(w)
      BY <3>2 DEF RecordSent, IInv, SentInv
    <3>3. CASE RecordRefusal(w) \/ RecordUnknown(w)
      <4>1. row'[a].status = "failed"
        BY <1>1, <3>3, FailedRow DEF RecordRefusal, RecordUnknown
      <4> QED BY <2>1, <4>1
    <3> QED BY <3>1, <3>2, <3>3
  <2> QED BY <1>1, <2>2, <2>3 DEF Promise!Next, Promise!Record
<1>3. CASE MarkFailed(a)
  <2>1. row'[a].status = "failed" /\ \A b \in Alerts : b # a => row'[b] = row[b]
    BY <1>1, <1>3, FailedRow
  <2>2. UNCHANGED stage
    BY <1>1, <2>1, StageKept DEF Waiting
  <2> QED BY <1>1, <2>2
<1> QED BY <1>2, <1>3 DEF SendLocally, RecordSent, RecordRefusal, RecordUnknown

(* A window that shut withdraws an alert that waits.                       *)
LEMMA WithdrawingIsPromised ==
    ASSUME TypeOK, NEW a \in Alerts, Waiting(a),
           row' = [row EXCEPT ![a].status = "cancelled"],
           UNCHANGED <<copies, waived>>
    PROVE  Promise!Next
<1>1. row'[a].status = "cancelled" /\ \A b \in Alerts : b # a => row'[b] = row[b]
  BY DEF TypeOK, Row
<1>2. stage[a] = "waiting" /\ stage' = [stage EXCEPT ![a] = "cancelled"]
  BY <1>1, StageOfOne
<1> QED BY <1>2 DEF Promise!Next, Promise!Withdraw

(* Whatever crashes, lost answers, retries and reviews interleave, and     *)
(* whatever the windows and margins are, the service keeps the promise:    *)
(* every step is one step of it or changes nothing it speaks of.           *)
THEOREM DeliveryImplementsTheOutbox == Spec => ImplementsOutbox
<1>1. Init => Promise!Init
  BY DEF Init, Promise!Init, stage
<1>2. IInv /\ [Next]_vars => [Promise!Next]_<<stage, copies, waived>>
  <2> SUFFICES ASSUME IInv, [Next]_vars
               PROVE  Promise!Next \/ UNCHANGED <<stage, copies, waived>>
    OBVIOUS
  <2>0. TypeOK /\ \A w \in Workers : job[w].alert \in Alerts
    BY IntentType DEF IInv
  <2>1. ASSUME NEW wanted \in SUBSET Alerts,
               NEW schedule \in [wanted -> Schedules],
               Review(wanted, schedule)
        PROVE  Promise!Next
    BY <2>0, <2>1, ReviewIsPromised
  <2>2. ASSUME NEW w \in Workers, NEW a \in Alerts, Expire(w, a)
        PROVE  Promise!Next
    BY <2>0, <2>2, WithdrawingIsPromised
       DEF Expire, Claimable, Due, providerVars
  <2>3. ASSUME NEW w \in Workers, RefuseAtBoundary(w),
               row' # row
        PROVE  Promise!Next
    <3>1. /\ job[w].live
          /\ row' = [row EXCEPT ![job[w].alert].status = "cancelled"]
          /\ UNCHANGED <<copies, waived>>
      BY <2>3 DEF RefuseAtBoundary, providerVars
    <3>2. Waiting(job[w].alert)
      BY <3>1 DEF IInv, LockInv
    <3> QED BY <2>0, <3>1, <3>2, WithdrawingIsPromised
  <2>4. ASSUME NEW w \in Workers, NEW added, Supersede(job[w].alert, added),
               UNCHANGED <<row, copies>>
        PROVE  Promise!Next \/ UNCHANGED <<stage, copies, waived>>
    <3> DEFINE given == Overtaken(job[w].alert) # {}
    <3>1. given \in BOOLEAN
      OBVIOUS
    <3>2. waived' = [waived EXCEPT ![job[w].alert] = @ \/ given]
      BY <2>4 DEF Supersede
    <3> HIDE DEF given
    <3> QED BY <2>0, <2>4, <3>1, <3>2, GivingUpIsPromised
  <2>5. ASSUME NEW w \in Workers, HandOff(w)
        PROVE  Promise!Next \/ UNCHANGED <<stage, copies, waived>>
    <3> DEFINE given ==
          \E x \in Open(job[w].alert) :
             /\ x.owner # w
             /\ x.at + DedupWindow < job[w].askedAt + BoundaryMargin
    <3>1. given \in BOOLEAN
      OBVIOUS
    <3>2. /\ waived' = [waived EXCEPT ![job[w].alert] = @ \/ given]
          /\ UNCHANGED <<row, copies>>
      BY <2>5 DEF HandOff, providerVars
    <3> HIDE DEF given
    <3> QED BY <2>0, <3>1, <3>2, GivingUpIsPromised
  <2>6. ASSUME NEW r \in wire, Take(r)
        PROVE  Promise!Next \/ UNCHANGED <<stage, copies, waived>>
    BY <2>6, TakingIsPromised
  <2>7. ASSUME NEW w \in Workers,
               \/ SendLocally(w) \/ RecordSent(w) \/ RecordRefusal(w)
               \/ RecordUnknown(w)
        PROVE  Promise!Next \/ UNCHANGED <<stage, copies, waived>>
    BY <2>7, RecordingIsPromised
  <2>8. ASSUME UNCHANGED <<row, copies, waived>>
        PROVE  UNCHANGED <<stage, copies, waived>>
    BY <2>8, StageKept
  <2>9. ASSUME NEW w \in Workers, RecordIntent(w) \/ LoseIntent(w)
        PROVE  /\ UNCHANGED <<row, copies>>
               /\ UNCHANGED waived \/ \E added : Supersede(job[w].alert, added)
    BY <2>9 DEF RecordIntent, LoseIntent, providerVars
  <2> QED
    BY <2>1, <2>2, <2>3, <2>4, <2>5, <2>6, <2>7, <2>8, <2>9, ZenonT(60)
       DEF Next, Organizer, Serve, Work, Fail, Provider, Decide, vars,
           providerVars, Tick, EditEvent, Claim, RefuseIntent, AskBoundary,
           RefuseAtBoundary, FailAtBoundary, Refuse, Drop, LoseOutcome, Crash,
           LoseConnection
<1> QED BY <1>1, <1>2, Invariance, PTL DEF Spec, ImplementsOutbox, Promise!Spec
=============================================================================
