----------------------------- MODULE AlertPoller -----------------------------
(***************************************************************************)
(* The poller of alerts.ts: ticks on a timer, a capped scan, a pool of     *)
(* workers over one queue, the retry of rows a writer's lock skipped,      *)
(* follow-up ticks, start and stop; and the test-alert endpoint, whose     *)
(* demo row the poller may take as well.                                   *)
(*                                                                         *)
(* One send (sendOne) is four steps here; AlertDelivery has the steps in   *)
(* full.  Time is relative: ages and waits move together, and each stops   *)
(* at the value past which nothing in the code tells it apart.             *)
(***************************************************************************)
EXTENDS Integers, FiniteSets, SequencesExt

CONSTANTS
    Scheduled,         \* alerts of a reviewed plan, numbered by send_at
    Tests,             \* the rows of the test endpoint's calls, later ones
    EventOf(_),
    Dead,              \* alerts whose destination always refuses
    SEND_CONCURRENCY, MAX_ALERTS_PER_TICK, TICK_BUDGET, RETRY_WINDOW,
    DELIVERY_BOUND, TEST_ALERT_CLAIM_ATTEMPTS,
    ApiConnections,    \* size of the API's pool
    NULL,
    MaxFailures,       \* failure_count stops here
    MaxLocks, MaxFaults, MaxRestarts   \* bounds on the environment

ASSUME PollerAssumption ==
    /\ SEND_CONCURRENCY \in Nat \ {0} /\ MAX_ALERTS_PER_TICK \in Nat \ {0}
    /\ ApiConnections \in Nat \ {0} /\ Scheduled \cup Tests \subseteq Nat
    /\ TICK_BUDGET \in Nat \ {0} /\ DELIVERY_BOUND \in Nat \ {0}

VARIABLES
    rows,      \* alert -> [status, failures, wait until next_attempt_at]
    locked,    \* events a writer holds FOR UPDATE
    poller,    \* the closure's variables and its pending callbacks
    ticks,     \* the ticks begun and not over; the code means one at most
    senders,   \* workers and test calls, and the row each is sending
    spent      \* bounds used

vars == <<rows, locked, poller, ticks, senders, spent>>

Alerts == Scheduled \cup Tests
Ticks == {1, 2}
Workers == Ticks \X (1 .. SEND_CONCURRENCY)
Caller(r) == <<0, r>>
Callers == {Caller(r) : r \in Tests}
Pending == {"pending", "failed"}

IdleTick == [pc |-> "idle", queue |-> <<>>, skipped |-> <<>>, age |-> 0, retry |-> -1,
             reached |-> FALSE, abandoned |-> FALSE, full |-> FALSE]
Off == [pc |-> "off", id |-> NULL, left |-> 0, got |-> NULL, view |-> NULL]

Holding == {"intent", "writing", "sending"}
Sends(s) == senders[s].pc \in Holding
RowHeld(a) == \E s \in DOMAIN senders : Sends(s) /\ senders[s].id = a
EventHeld(e) == \E s \in DOMAIN senders : Sends(s) /\ EventOf(senders[s].id) = e

(* alertPool, and the API's own pool for the endpoint.                     *)
PoolOf(s) == IF s \in Workers THEN Workers ELSE Callers
PoolSize(s) == IF s \in Workers THEN SEND_CONCURRENCY + 1 ELSE ApiConnections
PoolFree(s) == Cardinality({t \in PoolOf(s) : Sends(t)}) < PoolSize(s)

(* Mutant: the intent is written on a connection of the sender's pool.     *)
OwnPoolFree(s) ==
    Cardinality({t \in PoolOf(s) : Sends(t)})
      + Cardinality({t \in PoolOf(s) : senders[t].pc = "writing"}) < PoolSize(s)

(* attemptWriterFor: one writer pool per database, whoever sends.          *)
WriterFree(s) ==
    Cardinality({t \in DOMAIN senders : senders[t].pc = "writing"}) < SEND_CONCURRENCY

(* RETRY_BACKOFF, of the failure count before this failure.                *)
Backoff(failures) == IF failures = 0 THEN 0 ELSE 1

Due(a) == rows[a].status \in Pending /\ rows[a].wait = 0

(* Mutant: the scan is in order of send_at alone.                          *)
BySendTime(a, b) == a < b

(* ORDER BY failure_count, send_at.                                        *)
Before(a, b) ==
    \/ rows[a].failures < rows[b].failures
    \/ rows[a].failures = rows[b].failures /\ a < b

Scanned ==
    LET due == SetToSortSeq({a \in Alerts : Due(a)}, Before)
    IN  SubSeq(due, 1, IF Len(due) < MAX_ALERTS_PER_TICK THEN Len(due)
                       ELSE MAX_ALERTS_PER_TICK)

Spend(what) == spent[what] > 0 /\ spent' = [spent EXCEPT ![what] = @ - 1]

-----------------------------------------------------------------------------
(* run(): one tick at a time, and none once the timer is gone.             *)

(* Mutant: a callback left over starts a tick whatever the timer says.     *)
RunsWithoutTimer(p) == ~p.running

MayRun(p) == p.timer /\ ~p.running

Ran(p) ==
    IF MayRun(p)
    THEN /\ poller' = [p EXCEPT !.running = TRUE]
         /\ \E t \in Ticks : /\ t = 2 => ticks[1].pc # "idle"
                           /\ ticks[t].pc = "idle"
                           /\ ticks' = [ticks EXCEPT ![t] = [IdleTick EXCEPT !.pc = "scan"]]
    ELSE poller' = p /\ UNCHANGED ticks

Start ==
    /\ ~poller.timer
    /\ Ran([poller EXCEPT !.timer = TRUE, !.stopped = FALSE, !.stop = "no"])
    /\ UNCHANGED <<rows, locked, senders, spent>>

(* An interval is thirty follow-up waits long: it falls into one at most.  *)
IntervalFires ==
    /\ MayRun(poller) /\ poller.followUps < 2 /\ Ran(poller)
    /\ UNCHANGED <<rows, locked, senders, spent>>

(* The oldest follow-up goes first; `followUp` names the latest.           *)
FollowUpFires ==
    /\ poller.followUps > 0
    /\ Ran([poller EXCEPT !.followUps = @ - 1,
                          !.latest = @ /\ poller.followUps > 1])
    /\ UNCHANGED <<rows, locked, senders, spent>>

ImmediateFires ==
    /\ poller.immediate > 0
    /\ Ran([poller EXCEPT !.immediate = @ - 1])
    /\ UNCHANGED <<rows, locked, senders, spent>>

Stopped(p) ==
    [p EXCEPT !.stopped = TRUE, !.timer = FALSE, !.chasing = NULL,
              !.followUps = IF p.latest THEN @ - 1 ELSE @, !.latest = FALSE,
              !.stop = "waiting"]

Stop ==
    /\ poller.timer /\ Spend("restarts") /\ poller' = Stopped(poller)
    /\ UNCHANGED <<rows, locked, ticks, senders>>

(* await runningTick: its promise is settled before its handlers have run. *)
StopReturns ==
    /\ poller.stop = "waiting"
    /\ poller.running => \A t \in Ticks : ticks[t].pc \in {"idle", "ended", "failed"}
    /\ poller' = [poller EXCEPT !.stop = "returned"]
    /\ UNCHANGED <<rows, locked, ticks, senders, spent>>

(* A callback of setImmediate runs before any statement is answered.       *)
Scan(t) ==
    /\ ticks[t].pc = "scan" /\ poller.immediate = 0
    /\ ticks' = [ticks EXCEPT ![t].pc = "drain", ![t].queue = Scanned,
                   ![t].full = Len(Scanned) = MAX_ALERTS_PER_TICK]
    /\ senders' = [s \in DOMAIN senders |->
         IF s \in {t} \X (1 .. Len(Scanned)) THEN [Off EXCEPT !.pc = "free"] ELSE senders[s]]
    /\ UNCHANGED <<rows, locked, poller, spent>>

ScanFails(t) ==
    /\ ticks[t].pc = "scan" /\ Spend("faults")
    /\ ticks' = [ticks EXCEPT ![t].pc = "failed"]
    /\ UNCHANGED <<rows, locked, poller, senders>>

Workless(t) == \A w \in {t} \X (1 .. SEND_CONCURRENCY) : senders[w].pc = "off"

(* The drain is over: retry what was skipped, or end the tick.             *)
Drained(t) ==
    /\ ticks[t].pc = "drain" /\ Workless(t)
    /\ LET tick == [ticks[t] EXCEPT !.retry = IF @ < 0 THEN 0 ELSE @]
           again == /\ tick.skipped # <<>> /\ ~poller.stopped
                    /\ tick.retry < RETRY_WINDOW /\ tick.age < TICK_BUDGET
       IN  ticks' = [ticks EXCEPT ![t] =
             IF again THEN [tick EXCEPT !.pc = "wait"]
             ELSE [tick EXCEPT !.pc = "ended", !.abandoned = @ \/ tick.skipped # <<>>]]
    /\ UNCHANGED <<rows, locked, poller, senders, spent>>

RetrySkipped(t) ==
    /\ ticks[t].pc = "wait"
    /\ ticks' = [ticks EXCEPT ![t].pc = "drain", ![t].queue = ticks[t].skipped,
                   ![t].skipped = <<>>]
    /\ senders' = [s \in DOMAIN senders |->
         IF s \in {t} \X (1 .. Len(ticks[t].skipped)) THEN [Off EXCEPT !.pc = "free"]
         ELSE senders[s]]
    /\ UNCHANGED <<rows, locked, poller, spent>>

(* Mutant: the follow-up is set when the chase begins and not again.       *)
FollowedUpOnce(p, t) ==
    LET undone == ticks[t].full \/ ticks[t].abandoned
    IN  IF undone /\ ticks[t].reached
        THEN [p EXCEPT !.chasing = NULL, !.immediate = @ + 1]
        ELSE IF undone /\ p.chasing = NULL
        THEN [p EXCEPT !.chasing = 0, !.followUps = @ + 1, !.latest = TRUE]
        ELSE IF undone /\ p.chasing < DELIVERY_BOUND THEN p
        ELSE [p EXCEPT !.chasing = NULL]

(* The tick's then-handler: what was left undone is gone after.            *)
FollowedUp(p, t) ==
    LET since == IF p.chasing = NULL THEN 0 ELSE p.chasing
        undone == ticks[t].full \/ ticks[t].abandoned
    IN  IF undone /\ ticks[t].reached
        THEN [p EXCEPT !.chasing = NULL, !.immediate = @ + 1]
        ELSE IF undone /\ since < DELIVERY_BOUND
        THEN [p EXCEPT !.chasing = since, !.followUps = @ + 1, !.latest = TRUE]
        ELSE [p EXCEPT !.chasing = NULL]

(* A tick that failed runs none of it: a chase it was part of stays open.  *)
TickSettles(t) ==
    /\ ticks[t].pc \in {"ended", "failed"}
    /\ poller' = [IF ticks[t].pc = "ended" THEN FollowedUp(poller, t) ELSE poller
                    EXCEPT !.running = FALSE, !.failed = ticks[t].pc = "failed"]
    /\ ticks' = [ticks EXCEPT ![t] = IdleTick]
    /\ UNCHANGED <<rows, locked, senders, spent>>

-----------------------------------------------------------------------------
(* sendOne: claim, intent on a second connection, provider, commit.        *)
Claimed(a) ==
    IF EventOf(a) \in locked THEN "skipped"
    ELSE IF Due(a) /\ ~RowHeld(a) THEN "claimed" ELSE "nothing"

TakeNext(w) ==
    LET t == w[1]
        q == ticks[t].queue
    IN  /\ senders[w].pc = "free"
        /\ IF poller.stopped \/ ticks[t].age >= TICK_BUDGET \/ q = <<>>
           THEN /\ ticks' = [ticks EXCEPT ![t].queue = <<>>, ![t].abandoned = @ \/ q # <<>>]
                /\ senders' = [senders EXCEPT ![w] = Off]
           ELSE /\ PoolFree(w)
                /\ ticks' = [ticks EXCEPT ![t].queue = Tail(q),
                       ![t].skipped = IF Claimed(Head(q)) = "skipped"
                                      THEN Append(@, Head(q)) ELSE @]
                /\ senders' = IF Claimed(Head(q)) = "claimed"
                              THEN [senders EXCEPT ![w].pc = "intent", ![w].id = Head(q)]
                              ELSE senders
        /\ UNCHANGED <<rows, locked, poller, spent>>

BeginIntent(s) ==
    /\ senders[s].pc = "intent" /\ WriterFree(s)
    /\ senders' = [senders EXCEPT ![s].pc = "writing"]
    /\ UNCHANGED <<rows, locked, poller, ticks, spent>>

RecordIntent(s) ==
    /\ senders[s].pc = "writing"
    /\ senders' = [senders EXCEPT ![s].pc = "sending"]
    /\ UNCHANGED <<rows, locked, poller, ticks, spent>>

Freed(s, outcome) ==
    IF s \in Workers
    THEN /\ senders' = [senders EXCEPT ![s].pc = "free", ![s].id = NULL]
         /\ ticks' = [ticks EXCEPT ![s[1]].reached = @ \/ outcome = "done",
                                   ![s[1]].abandoned = @ \/ outcome = "threw"]
    ELSE /\ senders' = [senders EXCEPT ![s].pc = IF outcome = "threw" THEN "error" ELSE "view",
                                       ![s].got = outcome]
         /\ UNCHANGED ticks

Failed(row) ==
    [status |-> "failed", wait |-> Backoff(row.failures),
     failures |-> IF row.failures < MaxFailures THEN row.failures + 1 ELSE MaxFailures]

Delivered(s) ==
    LET a == senders[s].id
    IN  /\ senders[s].pc = "sending"
        /\ rows' = [rows EXCEPT ![a] = IF a \in Dead THEN Failed(@) ELSE [@ EXCEPT !.status = "sent"]]
        /\ Freed(s, "done")
        /\ UNCHANGED <<locked, poller, spent>>

Refused(s) ==
    LET a == senders[s].id
    IN  /\ senders[s].pc = "sending" /\ a \notin Dead /\ Spend("faults")
        /\ rows' = [rows EXCEPT ![a] = Failed(@)] /\ Freed(s, "done")
        /\ UNCHANGED <<locked, poller>>

(* The transaction could not record its outcome: the row is as it was.     *)
Threw(s) ==
    /\ Sends(s) /\ Spend("faults") /\ Freed(s, "threw")
    /\ UNCHANGED <<rows, locked, poller>>

-----------------------------------------------------------------------------
(* POST /events/:id/alerts/test.                                           *)
PostTest(r) ==
    /\ senders[Caller(r)].pc = "off"
    /\ rows' = [rows EXCEPT ![r].status = "pending"]
    /\ senders' = [senders EXCEPT ![Caller(r)] =
         [Off EXCEPT !.pc = "try", !.id = r, !.left = TEST_ALERT_CLAIM_ATTEMPTS]]
    /\ UNCHANGED <<locked, poller, ticks, spent>>

TryTest(r) ==
    /\ senders[Caller(r)].pc = "try" /\ PoolFree(Caller(r))
    /\ senders' = [senders EXCEPT ![Caller(r)] =
         IF Claimed(r) = "claimed" THEN [@ EXCEPT !.pc = "intent"]
         ELSE [@ EXCEPT !.pc = "view", !.got = Claimed(r)]]
    /\ UNCHANGED <<rows, locked, poller, ticks, spent>>

(* alertView: the row says what happened, whoever sent it.                 *)
ViewTest(r) ==
    LET s == senders[Caller(r)]
        over == s.got = "done" \/ (s.got = "nothing" /\ rows[r].status = "sent")
    IN  /\ s.pc = "view"
        /\ senders' = [senders EXCEPT ![Caller(r)] =
             IF over \/ s.left = 1
             THEN [@ EXCEPT !.pc = "retire", !.view = rows[r].status]
             ELSE [@ EXCEPT !.pc = "try", !.left = @ - 1]]
        /\ UNCHANGED <<rows, locked, poller, ticks, spent>>

(* retireFailedTestAlert: only a row still failed is cancelled.            *)
Retired(r) ==
    IF senders[Caller(r)].view = "failed" /\ rows[r].status = "failed"
    THEN [rows[r] EXCEPT !.status = "cancelled"] ELSE rows[r]

RetireTest(r) ==
    /\ senders[Caller(r)].pc = "retire"
    /\ senders[Caller(r)].view = "failed" => ~RowHeld(r)
    /\ rows' = [rows EXCEPT ![r] = Retired(r)]
    /\ senders' = [senders EXCEPT ![Caller(r)].pc = "answered",
         ![Caller(r)].view = IF @ = "failed" /\ rows[r].status # "failed" THEN rows[r].status ELSE @]
    /\ UNCHANGED <<locked, poller, ticks, spent>>

-----------------------------------------------------------------------------
(* A writer of the event; and time.                                        *)
LockEvent(e) ==
    /\ e \notin locked /\ ~EventHeld(e) /\ Spend("locks")
    /\ locked' = locked \cup {e}
    /\ UNCHANGED <<rows, poller, ticks, senders>>

UnlockEvent(e) ==
    /\ e \in locked /\ locked' = locked \ {e}
    /\ UNCHANGED <<rows, poller, ticks, senders, spent>>

Aged(n, limit) == IF n < limit THEN n + 1 ELSE n

(* A worker with nothing in its hand takes the next row in the same turn.  *)
TimePasses ==
    /\ \A w \in Workers : senders[w].pc # "free"
    /\ rows' = [a \in Alerts |-> [rows[a] EXCEPT !.wait = IF @ > 0 THEN @ - 1 ELSE 0]]
    /\ ticks' = [t \in Ticks |->
         IF ticks[t].pc \in {"drain", "wait"}
         THEN [ticks[t] EXCEPT !.age = Aged(@, TICK_BUDGET),
                 !.retry = IF @ < 0 THEN @ ELSE Aged(@, RETRY_WINDOW)]
         ELSE ticks[t]]
    /\ poller' = [poller EXCEPT !.chasing = IF @ = NULL THEN NULL ELSE Aged(@, DELIVERY_BOUND)]
    /\ UNCHANGED <<locked, senders, spent>>

-----------------------------------------------------------------------------
Init ==
    /\ rows = [a \in Alerts |->
         [status |-> IF a \in Scheduled THEN "pending" ELSE "none", failures |-> 0, wait |-> 0]]
    /\ locked = {}
    /\ poller = [timer |-> FALSE, stopped |-> FALSE, running |-> FALSE, followUps |-> 0,
                 latest |-> FALSE, immediate |-> 0, chasing |-> NULL, stop |-> "no",
                 failed |-> FALSE]
    /\ ticks = [t \in Ticks |-> IdleTick]
    /\ senders = [s \in Workers \cup Callers |-> Off]
    /\ spent = [locks |-> MaxLocks, faults |-> MaxFaults, restarts |-> MaxRestarts]

TickStep(t) == Scan(t) \/ Drained(t) \/ RetrySkipped(t) \/ TickSettles(t)
SendStep(s) == BeginIntent(s) \/ RecordIntent(s) \/ Delivered(s)
TestStep(r) == TryTest(r) \/ ViewTest(r) \/ RetireTest(r)
Events == {EventOf(a) : a \in Alerts}

Next ==
    \/ Start \/ IntervalFires \/ FollowUpFires \/ ImmediateFires \/ Stop \/ StopReturns
    \/ \E t \in Ticks : TickStep(t) \/ ScanFails(t)
    \/ \E w \in Workers : TakeNext(w)
    \/ \E s \in Workers \cup Callers : SendStep(s) \/ Refused(s) \/ Threw(s)
    \/ \E r \in Tests : PostTest(r) \/ TestStep(r)
    \/ \E e \in Events : LockEvent(e) \/ UnlockEvent(e)
    \/ TimePasses

(* Timers fire, statements and provider calls (which time out) end, and a  *)
(* writer's transaction commits.  Nobody has to start the poller.          *)
TimerFires == IntervalFires \/ FollowUpFires \/ ImmediateFires
PollerGoesOn ==
    \/ \E t \in Ticks : TickStep(t)
    \/ \E w \in Workers : TakeNext(w) \/ SendStep(w)

Fairness ==
    /\ WF_vars(TimerFires) /\ WF_vars(PollerGoesOn) /\ WF_vars(TimePasses)
    /\ \A r \in Tests : WF_vars(TestStep(r) \/ SendStep(Caller(r)))
    /\ \A e \in Events : WF_vars(UnlockEvent(e))

Spec == Init /\ [][Next]_vars
FairSpec == Spec /\ Fairness

-----------------------------------------------------------------------------
Active(t) == ticks[t].pc \notin {"idle", "ended", "failed"}
Answered(r, view) == senders[Caller(r)].pc = "answered" /\ senders[Caller(r)].view = view

TypeOK ==
    /\ \A a \in Alerts :
         /\ rows[a].status \in {"none", "pending", "sent", "failed", "cancelled"}
         /\ rows[a].failures \in 0 .. MaxFailures /\ rows[a].wait \in 0 .. 1
    /\ locked \subseteq Events
    /\ poller.chasing \in {NULL} \cup 0 .. DELIVERY_BOUND
    /\ poller.followUps \in Nat /\ poller.immediate \in 0 .. 1
    /\ \A t \in Ticks : ticks[t].age \in 0 .. TICK_BUDGET /\ Len(ticks[t].queue) <= MAX_ALERTS_PER_TICK
    /\ \A s \in DOMAIN senders : senders[s].id \in Alerts \cup {NULL}

(* When stop() has returned, and until the next start, no tick is at work  *)
(* and no worker has a send in its hand (drainThenExit ends the pool next).*)
StopMeansStopped ==
    poller.stop = "returned" =>
        (\A t \in Ticks : ~Active(t)) /\ (\A w \in Workers : senders[w].pc = "off")

(* While the poller chases skipped work a callback is due that will look   *)
(* for it: it does not go back to waiting out the interval.                *)
TheChaseNeverStalls ==
    (poller.timer /\ ~poller.running /\ poller.chasing # NULL /\ ~poller.failed)
        => poller.followUps + poller.immediate > 0

(* Every test call is answered: its loop is bounded, and the connection it *)
(* needs while it holds one is not waited for in a circle.                 *)
EveryTestIsAnswered ==
    \A r \in Tests :
        senders[Caller(r)].pc = "try" ~> senders[Caller(r)].pc \in {"answered", "error"}

(* An alert that can be delivered is, however many at the head of the scan *)
(* never can, as long as the poller is left running.                       *)
DeliverableIsDelivered ==
    \A a \in Scheduled \ Dead : <>[](poller.timer) => <>(rows[a].status = "sent")
=============================================================================
