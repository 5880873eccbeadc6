--------------------------- MODULE AlertDelivery ---------------------------
(***************************************************************************)
(* The delivery protocol of the deadline alerts of one event               *)
(* (apps/api/src/alerts/alerts.ts, alert-delivery.ts).                     *)
(*                                                                         *)
(* Workers are the concurrent sendOne calls of every API process that      *)
(* polls, so two of them may race for one alert.  A claim is a database    *)
(* transaction that holds the event row FOR SHARE and the alert row FOR    *)
(* NO KEY UPDATE until it ends; the attempt intent is committed on a       *)
(* second connection and survives the transaction.  The organizer edits    *)
(* the event and reviews the checklist under the event row's exclusive     *)
(* lock.  The email provider deduplicates a repeated Idempotency-Key for   *)
(* DedupWindow; it is external, and modelled from how the code calls it.   *)
(*                                                                         *)
(* Time is one discrete clock read by the processes, the database and the  *)
(* provider.  It may advance between any two steps of a worker.  A request *)
(* handed over at t reaches the provider by t + ProviderTimeout or never.  *)
(***************************************************************************)
EXTENDS Naturals, Sequences, FiniteSets

CONSTANTS
    Alerts,          \* the alerts the event's plans can call for
    LocalAlerts,     \* those whose sender hands nothing to a provider
    Workers,         \* concurrent sendOne calls, over all processes
    Nobody,          \* the owner of an attempt or request its sender left
    NoWindow,        \* closes of an alert with no filing date
    Schedules,       \* the [slot, closes] pairs a plan can publish
    Backoff,         \* delay before the retry that follows failure n
    DayLength,
    DedupWindow,     \* PROVIDER_DEDUP_WINDOW_HOURS
    HoldLimit,       \* UNRESOLVED_ATTEMPT_HOLD_LIMIT_HOURS
    TickBudget,      \* TICK_BUDGET_MS
    ProviderTimeout, \* PROVIDER_TIMEOUT_MS
    HandoffBudget,   \* SEND_BOUNDARY_HANDOFF_BUDGET_MS
    AnswersGetLost,  \* may a live process miss the provider's answer?
    MaxTime,         \* bound: the last instant of the clock
    MaxRevision,     \* bound: event edits
    MaxFaults        \* bound: crashes, dropped connections, failed writes

ClaimMargin == TickBudget + ProviderTimeout
BoundaryMargin == ProviderTimeout + HandoffBudget

ASSUME ConstantsAssumption ==
    /\ Alerts # {} /\ LocalAlerts \subseteq Alerts
    /\ Nobody \notin Workers
    /\ NoWindow \notin Nat
    /\ Schedules \subseteq [slot : Nat, closes : Nat \cup {NoWindow}]
    /\ Backoff \in Seq(Nat) /\ Backoff # <<>>
    /\ {DayLength, DedupWindow, HoldLimit, TickBudget, ProviderTimeout,
        HandoffBudget, MaxTime, MaxRevision, MaxFaults} \subseteq Nat
    /\ AnswersGetLost \in BOOLEAN
    /\ BoundaryMargin <= ClaimMargin
    /\ ClaimMargin <= DedupWindow
    /\ DedupWindow <= HoldLimit

VARIABLES
    now,       \* the clock
    revision,  \* events.revision_counter
    row,       \* the alerts table: one row per idempotency key
    attempts,  \* alert_send_attempts neither resolved nor superseded
    job,       \* what each worker is doing
    wire,      \* requests handed over that the provider has not decided
    accepted,  \* provider: when it last took an alert's key as new
    copies,    \* provider: messages it delivered for an alert
    waived,    \* history: the code gave up on an unresolved attempt
    faults     \* faults injected so far

vars == <<now, revision, row, attempts, job, wire, accepted, copies, waived,
          faults>>
providerVars == <<accepted, copies>>

----------------------------------------------------------------------------
(* Types.                                                                  *)

Status == {"absent", "pending", "failed", "sent", "cancelled"}
Row == [status : Status, slot : Nat, sendAt : Nat, closes : Nat \cup {NoWindow},
        nextAttempt : Nat, failures : Nat, planRevision : Nat]
Job == [pc : {"idle", "claimed", "intended", "asked", "sending"},
        alert : Alerts,                   \* the alert it claimed
        live : BOOLEAN,                   \* its transaction holds the locks
        at : Nat,                         \* when its intent was recorded
        askedAt : Nat,                    \* when it asked the send boundary,
        closes : Nat \cup {NoWindow},     \* the window that answer was about
        verdict : {"unasked", "shut", "held", "edge", "clear"},
        released : BOOLEAN,               \* history: nothing was held then
        reply : {"none", "taken", "refused"}]
Attempt == [alert : Alerts, at : Nat, owner : Workers \cup {Nobody}]
Request == [alert : Alerts, at : Nat, by : Nat,
            closes : Nat \cup {NoWindow}, owner : Workers \cup {Nobody}]

TypeOK ==
    /\ now \in Nat
    /\ revision \in Nat
    /\ row \in [Alerts -> Row]
    /\ attempts \subseteq Attempt
    /\ job \in [Workers -> Job]
    /\ wire \subseteq Request
    /\ accepted \in [Alerts -> Nat]
    /\ copies \in [Alerts -> Nat]
    /\ waived \in [Alerts -> BOOLEAN]
    /\ faults \in Nat

Later(s, t) == IF s < t THEN t ELSE s

(* A worker that has nothing in its hand.                                  *)
IdleJob == [pc |-> "idle", alert |-> CHOOSE a \in Alerts : TRUE,
            live |-> FALSE, at |-> 0, askedAt |-> 0, closes |-> NoWindow,
            verdict |-> "unasked", released |-> FALSE, reply |-> "none"]

----------------------------------------------------------------------------
(* The predicates the SQL shares between the scan, the claim, the intent   *)
(* and the send boundary.                                                  *)

Waiting(a) == row[a].status \in {"pending", "failed"}

Due(a) ==
    /\ Waiting(a)
    /\ row[a].sendAt <= now
    /\ row[a].nextAttempt <= now

Stale(a) == row[a].planRevision < revision

(* FILING_WINDOW_HAS_SHUT as of the day instant t falls on.  closes is the *)
(* midnight that ends the last filing day, so a day has passed the window  *)
(* exactly when its instants are at or after closes.                       *)
ShutBy(a, t) == row[a].closes # NoWindow /\ row[a].closes <= t

(* The same question asked about tomorrow: today is the last filing day.   *)
LastFilingDay(a) == ShutBy(a, now + DayLength)

Open(a) == {x \in attempts : x.alert = a}

PastCutoff(a, margin) ==
    \E x \in Open(a) : x.at + DedupWindow < now + margin

PastHoldLimit(a) == \E x \in Open(a) : x.at + HoldLimit < now

(* What ends a hold: its limit, and a filing window that is about to shut. *)
Released(a) == PastHoldLimit(a) \/ LastFilingDay(a)

(* unresolvedAttemptPastTheCutoff: the first unresolved attempt is older   *)
(* than the provider's memory less the margin and younger than the hold    *)
(* limit, and waiting another day would not cost the filing window.        *)
Held(a, margin) ==
    /\ PastCutoff(a, margin)
    /\ ~Released(a)

(* The attempts a newly recorded intent marks superseded.                  *)
Overtaken(a) == {x \in Open(a) : x.at + DedupWindow < now}

Holders == {w \in Workers : job[w].live}
EventLockFree == Holders = {}
AlertLockFree(a) == \A w \in Holders : job[w].alert # a

----------------------------------------------------------------------------
Init ==
    /\ now = 0
    /\ revision = 1
    /\ row = [a \in Alerts |->
                [status |-> "absent", slot |-> 0, sendAt |-> 0,
                 closes |-> NoWindow, nextAttempt |-> 0, failures |-> 0,
                 planRevision |-> 0]]
    /\ attempts = {}
    /\ job = [w \in Workers |-> IdleJob]
    /\ wire = {}
    /\ accepted = [a \in Alerts |-> 0]
    /\ copies = [a \in Alerts |-> 0]
    /\ waived = [a \in Alerts |-> FALSE]
    /\ faults = 0

(* Time stands still for a request that is about to exhaust its timeout.   *)
Tick ==
    /\ now < MaxTime
    /\ \A r \in wire : now < r.by
    /\ now' = now + 1
    /\ UNCHANGED <<revision, row, attempts, job, wire, providerVars, waived,
                   faults>>

Fault ==
    /\ faults < MaxFaults
    /\ faults' = faults + 1

----------------------------------------------------------------------------
(* The organizer.  Both writers wait for every claim to release the event. *)

(* Mutant: the edit does not wait for the claims that read its event.      *)
EditEventUnlocked ==
    /\ revision < MaxRevision
    /\ revision' = revision + 1
    /\ UNCHANGED <<now, row, attempts, job, wire, providerVars, waived, faults>>

(* PATCH /events/:id that changes the intake.                              *)
EditEvent ==
    /\ EventLockFree
    /\ revision < MaxRevision
    /\ revision' = revision + 1
    /\ UNCHANGED <<now, row, attempts, job, wire, providerVars, waived, faults>>

(* The row an upsert leaves for an alert the reviewed plan calls for.      *)
Rescheduled(r, s) ==
    LET fresh == r.status \in {"absent", "cancelled"} \/ r.slot # s.slot IN
    [status |-> IF r.status = "failed" THEN "failed" ELSE "pending",
     slot |-> s.slot,
     sendAt |-> IF fresh THEN Later(s.slot, now) ELSE r.sendAt,
     closes |-> s.closes,
     nextAttempt |-> IF fresh THEN 0 ELSE r.nextAttempt,
     failures |-> IF r.status = "cancelled" THEN 0 ELSE r.failures,
     planRevision |-> revision]

(* A checklist review of a plan of the current revision: it upserts the    *)
(* alerts whose filing window is open, supersedes the unresolved attempts  *)
(* of the rows it revives, and cancels every other waiting row.            *)
Review(wanted, schedule) ==
    LET revived == {a \in wanted : row[a].status = "cancelled"}
    IN
    /\ EventLockFree
    /\ \A a \in wanted :
          schedule[a].closes # NoWindow => now < schedule[a].closes
    /\ row' = [a \in Alerts |->
                 IF a \in wanted
                 THEN IF row[a].status = "sent"
                      THEN row[a]
                      ELSE Rescheduled(row[a], schedule[a])
                 ELSE IF Waiting(a)
                      THEN [row[a] EXCEPT !.status = "cancelled"]
                      ELSE row[a]]
    /\ attempts' = {x \in attempts : x.alert \notin revived}
    /\ waived' = [a \in Alerts |->
                    waived[a] \/ (a \in revived /\ Open(a) # {})]
    /\ UNCHANGED <<now, revision, job, wire, providerVars, faults>>

----------------------------------------------------------------------------
(* sendOne: the claim.  SKIP LOCKED makes a busy event or alert a no-op.   *)

Claimable(w, a) ==
    /\ job[w].pc = "idle"
    /\ AlertLockFree(a)
    /\ Due(a)
    /\ ~Stale(a)
    /\ ~Held(a, ClaimMargin) \/ ShutBy(a, now)

(* Mutant: only alerts that never failed expire.                           *)
ExpirePendingOnly(w, a) ==
    /\ Claimable(w, a)
    /\ row[a].status = "pending"
    /\ ShutBy(a, now)
    /\ row' = [row EXCEPT ![a].status = "cancelled"]
    /\ UNCHANGED <<now, revision, attempts, job, wire, providerVars, waived,
                   faults>>

(* The expiry decision, taken under the lock and committed with it.        *)
Expire(w, a) ==
    /\ Claimable(w, a)
    /\ ShutBy(a, now)
    /\ row' = [row EXCEPT ![a].status = "cancelled"]
    /\ UNCHANGED <<now, revision, attempts, job, wire, providerVars, waived,
                   faults>>

Claim(w, a) ==
    /\ Claimable(w, a)
    /\ ~ShutBy(a, now)
    /\ job' = [job EXCEPT ![w] = [IdleJob EXCEPT !.pc = "claimed",
                                                 !.alert = a, !.live = TRUE]]
    /\ UNCHANGED <<now, revision, row, attempts, wire, providerVars, waived,
                   faults>>

(* The worker's transaction ends, by COMMIT or ROLLBACK.                   *)
Release(w) == job' = [job EXCEPT ![w] = IdleJob]

(* What a finished send writes to the row.                                 *)
MarkSent(a) == row' = [row EXCEPT ![a].status = "sent"]

MarkFailed(a) ==
    LET n == IF row[a].failures < Len(Backoff)
             THEN row[a].failures + 1
             ELSE Len(Backoff)
    IN row' = [row EXCEPT ![a].status = "failed", ![a].failures = n,
                          ![a].nextAttempt = now + Backoff[n]]

(* A simulated or unconfigured sender: no intent, no boundary.             *)
SendLocally(w) ==
    LET a == job[w].alert IN
    /\ job[w].pc = "claimed"
    /\ a \in LocalAlerts
    /\ job[w].live
    /\ MarkSent(a) \/ MarkFailed(a)
    /\ Release(w)
    /\ UNCHANGED <<now, revision, attempts, wire, providerVars, waived, faults>>

----------------------------------------------------------------------------
(* recordAttemptIntent: its own transaction on the writer's connection.    *)

IntentOf(w) == [alert |-> job[w].alert, at |-> now, owner |-> w]

Supersede(a, added) ==
    /\ attempts' = (attempts \ Overtaken(a)) \cup added
    /\ waived' = [waived EXCEPT ![a] = @ \/ Overtaken(a) # {}]

RecordIntent(w) ==
    LET a == job[w].alert IN
    /\ job[w].pc = "claimed"
    /\ a \notin LocalAlerts
    /\ ~Held(a, ClaimMargin)
    /\ Supersede(a, {IntentOf(w)})
    /\ job' = [job EXCEPT ![w].pc = "intended", ![w].at = now]
    /\ UNCHANGED <<now, revision, row, wire, providerVars, faults>>

(* The wait for the writer's connection outlived what the claim reserved.  *)
RefuseIntent(w) ==
    LET a == job[w].alert IN
    /\ job[w].pc = "claimed"
    /\ a \notin LocalAlerts
    /\ Held(a, ClaimMargin)
    /\ Release(w)
    /\ UNCHANGED <<now, revision, row, attempts, wire, providerVars, waived,
                   faults>>

(* The insert is never acknowledged: it did not happen, or it did and the  *)
(* settlement closed it, or it did and the settlement failed as well.      *)
LoseIntent(w) ==
    LET a == job[w].alert IN
    /\ job[w].pc = "claimed"
    /\ a \notin LocalAlerts
    /\ ~Held(a, ClaimMargin)
    /\ Fault
    /\ \/ UNCHANGED <<attempts, waived>>
       \/ Supersede(a, {})
       \/ Supersede(a, {[IntentOf(w) EXCEPT !.owner = Nobody]})
    /\ Release(w)
    /\ UNCHANGED <<now, revision, row, wire, providerVars>>

----------------------------------------------------------------------------
(* What becomes of the worker's attempt.  A proven non-delivery is closed  *)
(* on the writer's connection; a fault there leaves it unresolved.         *)

Close(w) == attempts' = {x \in attempts : x.owner # w}

Orphan(S, w) ==
    {IF x.owner = w THEN [x EXCEPT !.owner = Nobody] ELSE x : x \in S}

LeaveOpen(w) == attempts' = Orphan(attempts, w)

----------------------------------------------------------------------------
(* askTheSendBoundary and the decisions deliverClaimed takes on its answer.*)

(* Mutants: the boundary does not look at unresolved attempts again, or    *)
(* does not reserve the handoff before the end of the last filing day.     *)
VerdictWithoutHold(a) ==
    CASE ShutBy(a, now)                  -> "shut"
      [] ShutBy(a, now + BoundaryMargin) -> "edge"
      [] OTHER                           -> "clear"

VerdictWithoutEdge(a) ==
    CASE ShutBy(a, now)          -> "shut"
      [] Held(a, BoundaryMargin) -> "held"
      [] OTHER                   -> "clear"

BoundaryVerdict(a) ==
    CASE ShutBy(a, now)                  -> "shut"
      [] Held(a, BoundaryMargin)         -> "held"
      [] ShutBy(a, now + BoundaryMargin) -> "edge"
      [] OTHER                           -> "clear"

AskBoundary(w) ==
    /\ job[w].pc = "intended"
    /\ job[w].live
    /\ job' = [job EXCEPT ![w].pc = "asked", ![w].askedAt = now,
                          ![w].closes = row[job[w].alert].closes,
                          ![w].verdict = BoundaryVerdict(job[w].alert),
                          ![w].released = Released(job[w].alert)]
    /\ UNCHANGED <<now, revision, row, attempts, wire, providerVars, waived,
                   faults>>

Day(t) == t \div DayLength

(* The answer is about another day than the one the send would happen on.  *)
CrossedADay(w) ==
    \/ Day(now) # Day(job[w].askedAt)
    \/ Day(now + BoundaryMargin) # Day(job[w].askedAt + BoundaryMargin)

HandoffFitsTheMargin(w) == now <= job[w].askedAt + HandoffBudget

Refuses(w) ==
    CrossedADay(w) \/ job[w].verdict # "clear" \/ ~HandoffFitsTheMargin(w)

(* A refusal before the handoff proves that nothing was sent.  Only an     *)
(* answer of "shut", about today, cancels the alert.                       *)
RefuseAtBoundary(w) ==
    LET j == job[w] IN
    /\ j.pc = "asked"
    /\ Refuses(w)
    /\ Close(w)
    /\ IF j.verdict = "shut" /\ ~CrossedADay(w) /\ j.live
       THEN row' = [row EXCEPT ![j.alert].status = "cancelled"]
       ELSE UNCHANGED row
    /\ Release(w)
    /\ UNCHANGED <<now, revision, wire, providerVars, waived, faults>>

(* The boundary query fails, or the settlement or commit of a refusal      *)
(* does: the transaction rolls back and the row is as due as it was.       *)
FailAtBoundary(w) ==
    /\ \/ job[w].pc = "intended"
       \/ job[w].pc = "asked" /\ Refuses(w)
    /\ \/ /\ Close(w)
          /\ IF job[w].live THEN Fault
             ELSE job[w].pc = "intended" /\ UNCHANGED faults
       \/ LeaveOpen(w) /\ Fault
    /\ Release(w)
    /\ UNCHANGED <<now, revision, row, wire, providerVars, waived>>

(* The call of the sender.  waived notes a handoff made although another   *)
(* unresolved attempt was past the cutoff when the boundary was asked.     *)
HandOff(w) ==
    LET j == job[w] IN
    /\ j.pc = "asked"
    /\ ~Refuses(w)
    /\ wire' = wire \cup {[alert |-> j.alert, at |-> j.at, owner |-> w,
                           by |-> now + ProviderTimeout, closes |-> j.closes]}
    /\ waived' = [waived EXCEPT ![j.alert] = @ \/
           \E x \in Open(j.alert) :
              /\ x.owner # w
              /\ x.at + DedupWindow < j.askedAt + BoundaryMargin]
    /\ job' = [job EXCEPT ![w].pc = "sending", ![w].released = FALSE]
    /\ UNCHANGED <<now, revision, row, attempts, providerVars, faults>>

----------------------------------------------------------------------------
(* The provider (external).                                                *)

Remembers(a) == copies[a] > 0 /\ now <= accepted[a] + DedupWindow

Reply(r, answer) ==
    job' = IF r.owner \in Workers
           THEN [job EXCEPT ![r.owner].reply = answer]
           ELSE job

(* The provider takes the message.  Only a key it does not remember is     *)
(* delivered to the recipient.                                             *)
Take(r) ==
    /\ wire' = wire \ {r}
    /\ Reply(r, "taken")
    /\ IF Remembers(r.alert)
       THEN UNCHANGED providerVars
       ELSE /\ accepted' = [accepted EXCEPT ![r.alert] = now]
            /\ copies' = [copies EXCEPT ![r.alert] = @ + 1]
    /\ UNCHANGED <<now, revision, row, attempts, waived, faults>>

(* The provider rejects it, or the connection provably never carried it.   *)
Refuse(r) ==
    /\ wire' = wire \ {r}
    /\ Reply(r, "refused")
    /\ UNCHANGED <<now, revision, row, attempts, providerVars, waived, faults>>

(* It never arrives and nothing says so.                                   *)
Drop(r) ==
    /\ AnswersGetLost
    /\ wire' = wire \ {r}
    /\ UNCHANGED <<now, revision, row, attempts, job, providerVars, waived,
                   faults>>

----------------------------------------------------------------------------
(* What deliverClaimed does with the answer.                               *)

(* Mutant: what is not a refusal is taken for an acceptance.               *)
RecordSentUnlessRefused(w) ==
    /\ job[w].pc = "sending" /\ job[w].live
    /\ job[w].reply # "refused"
    /\ MarkSent(job[w].alert)
    /\ Close(w)
    /\ wire' = Orphan(wire, w)
    /\ Release(w)
    /\ UNCHANGED <<now, revision, providerVars, waived, faults>>

(* The delivery and its attempt are recorded in the claim's transaction.   *)
RecordSent(w) ==
    /\ job[w].pc = "sending" /\ job[w].live
    /\ job[w].reply = "taken"
    /\ MarkSent(job[w].alert)
    /\ Close(w)
    /\ Release(w)
    /\ UNCHANGED <<now, revision, wire, providerVars, waived, faults>>

RecordRefusal(w) ==
    /\ job[w].pc = "sending" /\ job[w].live
    /\ job[w].reply = "refused"
    /\ MarkFailed(job[w].alert)
    /\ Close(w)
    /\ Release(w)
    /\ UNCHANGED <<now, revision, wire, providerVars, waived, faults>>

(* Mutant: a timeout is taken for an observed outcome.                     *)
RecordUnknownAsObserved(w) ==
    /\ AnswersGetLost
    /\ job[w].pc = "sending" /\ job[w].live
    /\ MarkFailed(job[w].alert)
    /\ Close(w)
    /\ wire' = Orphan(wire, w)
    /\ Release(w)
    /\ UNCHANGED <<now, revision, providerVars, waived, faults>>

(* A timeout or a connection lost after the write: outcomeObserved is      *)
(* false, so the attempt stays unresolved whatever the provider did.       *)
RecordUnknown(w) ==
    /\ AnswersGetLost
    /\ job[w].pc = "sending" /\ job[w].live
    /\ MarkFailed(job[w].alert)
    /\ LeaveOpen(w)
    /\ wire' = Orphan(wire, w)
    /\ Release(w)
    /\ UNCHANGED <<now, revision, providerVars, waived, faults>>

(* The claim's transaction is gone, or fails now.  A refusal was still     *)
(* settled on the other connection, unless that fails too.                 *)
LoseOutcome(w) ==
    /\ job[w].pc = "sending"
    /\ job[w].reply # "none" \/ AnswersGetLost
    /\ IF job[w].live THEN Fault ELSE UNCHANGED faults
    /\ \/ job[w].reply = "refused" /\ Close(w)
       \/ (job[w].reply = "refused" => job[w].live) /\ LeaveOpen(w)
    /\ wire' = Orphan(wire, w)
    /\ Release(w)
    /\ UNCHANGED <<now, revision, row, providerVars, waived>>

(* Mutant: the intent is part of the claim's transaction.                  *)
CrashRollsTheIntentBack(w) ==
    /\ job[w].pc # "idle"
    /\ Fault
    /\ Close(w)
    /\ wire' = Orphan(wire, w)
    /\ Release(w)
    /\ UNCHANGED <<now, revision, row, providerVars, waived>>

(* The process dies.  Its transaction rolls back; its request may land.    *)
Crash(w) ==
    /\ job[w].pc # "idle"
    /\ Fault
    /\ LeaveOpen(w)
    /\ wire' = Orphan(wire, w)
    /\ Release(w)
    /\ UNCHANGED <<now, revision, row, providerVars, waived>>

(* The claim's connection drops while the process runs on: the locks are   *)
(* gone and the worker learns of it at its next statement.                 *)
LoseConnection(w) ==
    /\ job[w].live
    /\ job[w].alert \notin LocalAlerts
    /\ Fault
    /\ job' = [job EXCEPT ![w].live = FALSE]
    /\ UNCHANGED <<now, revision, row, attempts, wire, providerVars, waived>>

----------------------------------------------------------------------------
Organizer ==
    \/ EditEvent
    \/ \E wanted \in SUBSET Alerts : \E schedule \in [wanted -> Schedules] :
          Review(wanted, schedule)

Serve(a) == \E w \in Workers : Expire(w, a) \/ Claim(w, a)

Work(w) ==
    \/ SendLocally(w)
    \/ RecordIntent(w) \/ RefuseIntent(w)
    \/ AskBoundary(w) \/ RefuseAtBoundary(w) \/ HandOff(w)
    \/ RecordSent(w) \/ RecordRefusal(w) \/ RecordUnknown(w)

Fail(w) ==
    \/ LoseIntent(w) \/ FailAtBoundary(w) \/ LoseOutcome(w)
    \/ Crash(w) \/ LoseConnection(w)

Decide(r) == Take(r) \/ Refuse(r) \/ Drop(r)
Provider == \E r \in wire : Decide(r)

Next ==
    \/ Tick
    \/ Organizer
    \/ \E a \in Alerts : Serve(a)
    \/ \E w \in Workers : Work(w) \/ Fail(w)
    \/ Provider

Spec == Init /\ [][Next]_vars

(* Time passes; a worker runs to the end of its send; a request whose      *)
(* timeout has run out has landed or never will; and every scan of the     *)
(* poller works through all the rows that are due, so that none of them is *)
(* passed over for ever in favour of another.                              *)
Fairness ==
    /\ WF_vars(Tick)
    /\ \A a \in Alerts : SF_vars(Serve(a))
    /\ \A w \in Workers : WF_vars(Work(w) \/ FailAtBoundary(w) \/ LoseOutcome(w))
    /\ WF_vars(\E r \in wire : r.by = now /\ Decide(r))

FairSpec == Spec /\ Fairness

----------------------------------------------------------------------------
(* Properties.                                                             *)

(* An organizer gets at most one copy of an alert, through any number of   *)
(* crashes, lost answers, retries and concurrent workers, unless the code  *)
(* knowingly let an alert go out again over an attempt whose outcome was   *)
(* never observed.  This is what the attempt intent, the hold and the two  *)
(* margins are for.                                                        *)
NoUnaccountedDuplicate == \A a \in Alerts : copies[a] > 1 => waived[a]

(* An unresolved attempt is given up only when the hold has reached its    *)
(* limit, when today is the last filing day, when a review revives an      *)
(* alert that an earlier review cancelled, or by a send for which one of   *)
(* the first two held when it asked its boundary, whatever the other sends *)
(* of the alert have recorded, closed or lost since then.                  *)
GivesUpOnlyOnRelease ==
    [][\A a \in Alerts : waived'[a] /\ ~waived[a] =>
          \/ Released(a)
          \/ row[a].status = "cancelled" /\ row'[a].status = "pending"
          \/ \E w \in Workers :
                 /\ job[w].alert = a /\ job[w].pc = "asked" /\ job[w].released
                 /\ job'[w].pc = "sending"]_vars

(* No message reaches the provider once the filing window it counts down   *)
(* to has shut: the boundary reserves the whole handoff, so even a request *)
(* that takes all of its timeout, or whose sender died, lands in time.     *)
NothingLandsAfterShut ==
    \A r \in wire : r.closes # NoWindow => now < r.closes

(* A claim that still holds its locks never hands over an alert that an    *)
(* edit made stale, that a review cancelled, or that is already sent.      *)
HandoffIsCurrent ==
    [][\A r \in wire' \ wire :
          \A w \in Workers : w = r.owner /\ job[w].live =>
             Waiting(r.alert) /\ ~Stale(r.alert)]_vars

(* A row says sent only of a message the provider took.                    *)
SentWasTaken ==
    \A a \in Alerts \ LocalAlerts : row[a].status = "sent" => copies[a] > 0

(* What a crash leaves behind: a message that was delivered while its row  *)
(* does not say so is covered by an unresolved attempt no younger than the *)
(* delivery, so the hold is measured from the right instant.               *)
UnrecordedDeliveryIsCovered ==
    \A a \in Alerts :
        copies[a] > 0 /\ row[a].status # "sent" /\ ~waived[a] =>
            \E x \in Open(a) : x.at <= accepted[a]

(* An alert with a filing date does not wait for ever: it is sent, or it   *)
(* is cancelled when its window shuts, unless an edit leaves its plan      *)
(* stale.  In particular a hold never outlives the window.                 *)
EveryAlertSettles ==
    \A a \in Alerts :
        (Waiting(a) /\ row[a].closes # NoWindow)
            ~> (~Waiting(a) \/ Stale(a) \/ row[a].closes = NoWindow)

(* All of this together is the promise of AlertOutbox: whatever the        *)
(* workers, the organizer, the provider and the faults do, an alert is     *)
(* delivered again only after it was given up, a withdrawn alert is not    *)
(* sent unless a review calls for it again, and what a row says of a       *)
(* delivery is so and stays so.                                            *)
stage ==
    [a \in Alerts |-> IF row[a].status \in {"pending", "failed"}
                      THEN "waiting"
                      ELSE row[a].status]

Promise == INSTANCE AlertOutbox

ImplementsOutbox == Promise!Spec

(* F-203, acceptance criterion 2: a crash between send and mark-sent       *)
(* cannot double-send.                                                     *)
CrashCannotDoubleSend == \A a \in Alerts : copies[a] <= 1
=============================================================================
