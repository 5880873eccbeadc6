----------------------------- MODULE EventPlan -----------------------------
(***************************************************************************)
(* Creating and editing an event, and generating its permit plans          *)
(* (apps/api/src/events.ts, apps/api/src/planning/plan.ts).                *)
(*                                                                         *)
(* A request is one HTTP call, served by some API process; during a        *)
(* rollout the processes run different rulesets.  A retry is a request of  *)
(* its own that carries the same key.  Requests interleave at every        *)
(* statement: a create holds an advisory lock on its key, an edit and a    *)
(* generation hold the event's row lock, all until their transaction ends; *)
(* a generation reads the event before it takes the lock.  Writes become   *)
(* visible when the transaction commits, which is a request's last step,   *)
(* and a request that fails or crashes earlier leaves nothing.             *)
(*                                                                         *)
(* There is at most one event per create key (the unique index of          *)
(* migration 015), so an event is named by its key.  A plan is named by    *)
(* the request that stored it, which draws a random id.                    *)
(***************************************************************************)
EXTENDS RulesetVersion, Sequences

CONSTANTS
    Requests,   \* the HTTP calls
    Intents,    \* what the calls may ask for
    Keys,       \* create idempotency keys
    Bodies,     \* texts of create requests
    Answers,    \* what an intake can say
    IntakeOf,   \* the answers in the text of a create request
    LastDay,    \* the last day on which validateIntake accepts the answers
                \* (0: it never does)
    MaxDay,     \* bound: the last day of the calendar
    MaxClock    \* bound: the readings of the database clock

Intent == [kind : {"create", "edit", "generate", "first"},
           key : Keys,          \* create: its key; otherwise: the event
           given : Keys,        \* first: the key the call presents
           body : Bodies,       \* create: the text it carries
           version : Versions]  \* the ruleset of the process that serves it

ASSUME RequestsAssumption ==
    /\ Intents \subseteq Intent
    /\ IntakeOf \in [Bodies -> Answers]
    /\ LastDay \in [Answers -> Nat]
    /\ MaxDay \in Nat /\ MaxClock \in Nat
    /\ Bodies # {} /\ Answers # {} /\ Intents # {}

VARIABLES
    day,      \* today, in the jurisdiction
    event,    \* the events table, by create key; revision 0: no row
    plans,    \* permit_plans of an event, in the order of their commits
    req,      \* what each request is doing, and how it was answered
    written   \* history: the answers of every revision of an event

vars == <<day, event, plans, req, written>>

Event == [revision : Nat, body : Bodies, answers : Answers]
Plan == [id : Requests,
         at : Nat,               \* generated_at
         revision : Nat \ {0},   \* event_revision
         answers : Answers,      \* intake_snapshot
         version : Versions]     \* ruleset_version
Answer == {"none", "created", "replayed", "mismatch", "invalid", "saved",
           "unchanged", "missing", "wrong_key", "downgrade", "stored",
           "existing", "failed"}
Request == [pc : {"new", "arrived", "loaded", "evaluated", "locked",
                  "checked", "done"},
            intent : Intents,
            revision : Nat,      \* what a generation read before the lock
            answers : Answers,
            answer : Answer,
            plan : Requests]     \* the plan the answer carries

TypeOK ==
    /\ day \in Nat
    /\ event \in [Keys -> Event]
    /\ plans \in [Keys -> Seq(Plan)]
    /\ req \in [Requests -> Request]
    /\ written \in [Keys -> Seq(Answers)]

----------------------------------------------------------------------------
(* Reading the tables.                                                     *)

Exists(k) == event[k].revision # 0

Valid(a) == day <= LastDay[a]

LatestPlan(k) ==
    plans[k][CHOOSE i \in DOMAIN plans[k] :
                \A j \in DOMAIN plans[k] : plans[k][j].at <= plans[k][i].at]

FirstPlan(k) ==
    plans[k][CHOOSE i \in DOMAIN plans[k] :
                \A j \in DOMAIN plans[k] : plans[k][i].at <= plans[k][j].at]

IsPlanStale(k) ==
    plans[k] # <<>> /\ LatestPlan(k).revision < event[k].revision

(* The locks, each held from the statement that takes it to the end of the *)
(* transaction.                                                            *)
InTransaction(r) == req[r].pc \in {"locked", "checked"}

HoldsKey(r) == InTransaction(r) /\ req[r].intent.kind = "create"
HoldsEvent(r) == InTransaction(r) /\ req[r].intent.kind # "create"

(* Mutants: creates of one key, or the writers of one event, do not wait   *)
(* for each other.                                                         *)
KeyLockIgnored(k) == TRUE
EventLockIgnored(k) == TRUE

KeyLockFree(k) == \A r \in Requests : HoldsKey(r) => req[r].intent.key # k
EventLockFree(k) == \A r \in Requests : HoldsEvent(r) => req[r].intent.key # k

(* A request that has been answered is over.                               *)
Reply(r, answer) ==
    req' = [req EXCEPT ![r] = [@ EXCEPT !.pc = "done", !.answer = answer]]
ReplyWithPlan(r, answer, id) ==
    req' = [req EXCEPT ![r] = [@ EXCEPT !.pc = "done", !.answer = answer,
                                        !.plan = id]]
(* After a commit the process may still fail to say so: the commit's own   *)
(* acknowledgement is lost, or it dies.                                    *)
AnswerCommitted(r, answer, id) ==
    ReplyWithPlan(r, answer, id) \/ Reply(r, "failed")
Proceed(r, pc) == req' = [req EXCEPT ![r] = [@ EXCEPT !.pc = pc]]

Submit(r) ==
    /\ req[r].pc = "new"
    /\ \E i \in Intents :
          req' = [req EXCEPT ![r] = [@ EXCEPT !.pc = "arrived", !.intent = i]]
    /\ UNCHANGED <<day, event, plans, written>>

----------------------------------------------------------------------------
(* POST /events.                                                           *)

LockKey(r) ==
    /\ req[r].pc = "arrived" /\ req[r].intent.kind = "create"
    /\ KeyLockFree(req[r].intent.key)
    /\ Proceed(r, "locked")
    /\ UNCHANGED <<day, event, plans, written>>

(* Mutant: a known key is replayed whatever the text.                      *)
BodyIgnored(k, body) == TRUE

BodyMatches(k, body) == event[k].body = body

(* The key decides before validation does: a known key is replayed or      *)
(* refused, whatever today's validation would say of the body.             *)
CheckCreate(r) ==
    LET k == req[r].intent.key
        body == req[r].intent.body
    IN  /\ req[r].pc = "locked" /\ req[r].intent.kind = "create"
        /\ \/ Exists(k) /\ BodyMatches(k, body) /\ Reply(r, "replayed")
           \/ Exists(k) /\ ~BodyMatches(k, body) /\ Reply(r, "mismatch")
           \/ ~Exists(k) /\ ~Valid(IntakeOf[body]) /\ Reply(r, "invalid")
           \/ ~Exists(k) /\ Valid(IntakeOf[body]) /\ Proceed(r, "checked")
        /\ UNCHANGED <<day, event, plans, written>>

NewEvent(body) == [revision |-> 1, body |-> body, answers |-> IntakeOf[body]]

(* INSERT ... ON CONFLICT DO NOTHING, and the commit.  The loser of a      *)
(* conflict answers from the row that won; under the key's lock nobody is  *)
(* ever the loser.                                                         *)
CommitCreate(r) ==
    LET k == req[r].intent.key
        body == req[r].intent.body
    IN  /\ req[r].pc = "checked" /\ req[r].intent.kind = "create"
        /\ event' = IF Exists(k) THEN event
                    ELSE [event EXCEPT ![k] = NewEvent(body)]
        /\ written' = IF Exists(k) THEN written
                      ELSE [written EXCEPT ![k] = <<IntakeOf[body]>>]
        /\ AnswerCommitted(r, IF ~Exists(k) THEN "created"
                              ELSE IF BodyMatches(k, body) THEN "replayed"
                              ELSE "mismatch", req[r].plan)
        /\ UNCHANGED <<day, plans>>

----------------------------------------------------------------------------
(* PATCH /events/:id.                                                      *)

(* SELECT ... FOR UPDATE: the answers it returns stay the row's until the  *)
(* transaction ends.  No row is nothing to lock and nothing to edit.       *)
LockForEdit(r) ==
    LET k == req[r].intent.key
    IN  /\ req[r].pc = "arrived" /\ req[r].intent.kind = "edit"
        /\ IF Exists(k) THEN EventLockFree(k) /\ Proceed(r, "locked")
                        ELSE Reply(r, "missing")
        /\ UNCHANGED <<day, event, plans, written>>

(* Mutant: an edit does not count.                                         *)
RevisionKept(k) == event[k].revision

RevisionAfter(k) == event[k].revision + 1

(* The submission merged into the stored answers may say anything.  A save *)
(* that changes no answer is not an edit.                                  *)
CommitEdit(r) ==
    LET k == req[r].intent.key
    IN  /\ req[r].pc = "locked" /\ req[r].intent.kind = "edit"
        /\ \E a \in Answers :
              \/ /\ ~Valid(a)
                 /\ Reply(r, "invalid")
                 /\ UNCHANGED <<event, written>>
              \/ /\ Valid(a) /\ a = event[k].answers
                 /\ Reply(r, "unchanged")
                 /\ UNCHANGED <<event, written>>
              \/ /\ Valid(a) /\ a # event[k].answers
                 /\ event' = [event EXCEPT ![k] =
                        [@ EXCEPT !.answers = a, !.revision = RevisionAfter(k)]]
                 /\ written' = [written EXCEPT ![k] = Append(@, a)]
                 /\ AnswerCommitted(r, "saved", req[r].plan)
        /\ UNCHANGED <<day, plans>>

----------------------------------------------------------------------------
(* POST /events/:id/plan.                                                  *)

Generates(r) == req[r].intent.kind \in {"generate", "first"}

(* The intake and its revision, read from one row without a lock.          *)
LoadEvent(r) ==
    LET k == req[r].intent.key
    IN  /\ req[r].pc = "arrived" /\ Generates(r)
        /\ \/ ~Exists(k) /\ Reply(r, "missing")
           \/ /\ Exists(k)
              /\ req[r].intent.kind = "first" /\ req[r].intent.given # k
              /\ Reply(r, "wrong_key")
           \/ /\ Exists(k)
              /\ req[r].intent.kind = "first" => req[r].intent.given = k
              /\ req' = [req EXCEPT ![r] =
                            [@ EXCEPT !.pc = "loaded",
                                      !.revision = event[k].revision,
                                      !.answers = event[k].answers]]
        /\ UNCHANGED <<day, event, plans, written>>

(* A call with the create key is answered by the plan there is.            *)
AlreadyPlanned(r) ==
    req[r].intent.kind = "first" /\ plans[req[r].intent.key] # <<>>

ShowFirstPlan(r) ==
    ReplyWithPlan(r, "existing", FirstPlan(req[r].intent.key).id)

EvaluateIntake(r) ==
    /\ req[r].pc = "loaded"
    /\ IF AlreadyPlanned(r) THEN ShowFirstPlan(r) ELSE Proceed(r, "evaluated")
    /\ UNCHANGED <<day, event, plans, written>>

LockForGeneration(r) ==
    /\ req[r].pc = "evaluated"
    /\ EventLockFree(req[r].intent.key)
    /\ Proceed(r, "locked")
    /\ UNCHANGED <<day, event, plans, written>>

(* refuseRulesetDowngrade: a first plan is safe on any ruleset.            *)
Downgrades(r) ==
    LET k == req[r].intent.key
    IN  /\ plans[k] # <<>>
        /\ ~MaySupersede(req[r].intent.version, LatestPlan(k).version)

(* Mutant: the plan that was missing before the lock is not looked for     *)
(* again under it.                                                         *)
NotLookedForAgain(r) == FALSE

PlannedMeanwhile(r) == AlreadyPlanned(r)

CheckUnderLock(r) ==
    /\ req[r].pc = "locked" /\ Generates(r)
    /\ \/ PlannedMeanwhile(r) /\ ShowFirstPlan(r)
       \/ ~PlannedMeanwhile(r) /\ Downgrades(r) /\ Reply(r, "downgrade")
       \/ ~PlannedMeanwhile(r) /\ ~Downgrades(r) /\ Proceed(r, "checked")
    /\ UNCHANGED <<day, event, plans, written>>

(* Mutant: the clock alone orders the plans.                               *)
ClockOnly(k, clock) == clock

(* generated_at: the clock, but past every plan the event has already.     *)
Clamped(k, clock) ==
    IF plans[k] = <<>> THEN clock
    ELSE IF clock > LatestPlan(k).at THEN clock
    ELSE LatestPlan(k).at + 1

NewPlan(r, clock) ==
    [id |-> r, at |-> Clamped(req[r].intent.key, clock),
     revision |-> req[r].revision, answers |-> req[r].answers,
     version |-> req[r].intent.version]

StorePlan(r) ==
    /\ req[r].pc = "checked" /\ Generates(r)
    /\ \E clock \in 0..MaxClock :
          plans' = [plans EXCEPT ![req[r].intent.key] =
                        Append(@, NewPlan(r, clock))]
    /\ AnswerCommitted(r, "stored", r)
    /\ UNCHANGED <<day, event, written>>

----------------------------------------------------------------------------
(* A statement fails, evaluation throws or the process dies: the           *)
(* transaction rolls back and its locks are released.                      *)
Abort(r) ==
    /\ req[r].pc \notin {"new", "done"}
    /\ Reply(r, "failed")
    /\ UNCHANGED <<day, event, plans, written>>

Midnight ==
    /\ day < MaxDay
    /\ day' = day + 1
    /\ UNCHANGED <<event, plans, req, written>>

Init ==
    /\ day = 1
    /\ event = [k \in Keys |->
                  [revision |-> 0, body |-> CHOOSE b \in Bodies : TRUE,
                   answers |-> CHOOSE a \in Answers : TRUE]]
    /\ plans = [k \in Keys |-> <<>>]
    /\ req = [r \in Requests |->
                [pc |-> "new", intent |-> CHOOSE i \in Intents : TRUE,
                 revision |-> 0, answers |-> CHOOSE a \in Answers : TRUE,
                 answer |-> "none", plan |-> r]]
    /\ written = [k \in Keys |-> <<>>]

Create(r) == LockKey(r) \/ CheckCreate(r) \/ CommitCreate(r)
Edit(r) == LockForEdit(r) \/ CommitEdit(r)
Generate(r) == \/ LoadEvent(r) \/ EvaluateIntake(r) \/ LockForGeneration(r)
               \/ CheckUnderLock(r) \/ StorePlan(r)

Next ==
    \/ \E r \in Requests :
          Submit(r) \/ Create(r) \/ Edit(r) \/ Generate(r) \/ Abort(r)
    \/ Midnight

Spec == Init /\ [][Next]_vars
----------------------------------------------------------------------------
(* Properties.                                                             *)

Answered(r, kind) == req[r].pc = "done" /\ req[r].intent.kind = kind

(* A create that was told its answers are invalid may be forgotten by its  *)
(* sender: no other call with the same key and text, running then or later, *)
(* ever turns it into an event.  (The key's lock is taken before the replay *)
(* lookup and before validation, events.ts withLockedCreateKey.)           *)
RejectedStaysOut ==
    \A r \in Requests :
        Answered(r, "create") /\ req[r].answer = "invalid" =>
            LET k == req[r].intent.key
            IN  Exists(k) => event[k].body # req[r].intent.body

Made(r) == Answered(r, "create") /\ req[r].answer = "created"

(* However often a create is repeated, at most one call is told it made    *)
(* the event, and a call that is told its event exists sees the event that *)
(* its own text made (events.ts readCreateReplay).                         *)
CreateHappensOnce ==
    /\ \A r, s \in Requests :
          Made(r) /\ Made(s) /\ req[r].intent.key = req[s].intent.key => r = s
    /\ \A r \in Requests :
          Answered(r, "create") /\ req[r].answer \in {"created", "replayed"} =>
              /\ Exists(req[r].intent.key)
              /\ event[req[r].intent.key].body = req[r].intent.body

(* AD-13: a plan is pinned to the exact intake revision it evaluated, also *)
(* when the event was edited between its read and its insert.              *)
PlanPinsItsIntake ==
    \A k \in Keys : \A i \in DOMAIN plans[k] :
        /\ plans[k][i].revision \in DOMAIN written[k]
        /\ plans[k][i].answers = written[k][plans[k][i].revision]

(* An event that is not shown as stale has a latest plan that answers what *)
(* the event says now, even if a slow generation of an older revision      *)
(* overtook a newer one (events.ts isPlanStale).                           *)
FreshPlanAnswersTheEvent ==
    \A k \in Keys : plans[k] # <<>> /\ ~IsPlanStale(k) =>
        LatestPlan(k).answers = event[k].answers

(* generated_at is the order of the commits, whatever the clock does, so   *)
(* first and latest are well defined (plan.ts insertPlan).                 *)
PlansAreInOrder ==
    \A k \in Keys : \A i, j \in DOMAIN plans[k] :
        i < j => plans[k][i].at < plans[k][j].at

(* No plan ever rests on a ruleset older than, or unrelated to, the one an *)
(* earlier plan of the event pinned, although processes of both versions   *)
(* generate at once (plan.ts refuseRulesetDowngrade, F-201 AC 12).         *)
RulesetNeverGoesBack ==
    \A k \in Keys : \A i, j \in DOMAIN plans[k] :
        i < j => MaySupersede(plans[k][j].version, plans[k][i].version)

(* All the calls that present an event's create key are answered with one  *)
(* and the same plan, the event's first (plan.ts generate).                *)
OneFirstPlan ==
    \A r \in Requests :
        Answered(r, "first") /\ req[r].answer \in {"stored", "existing"} =>
            LET k == req[r].intent.key
            IN  plans[k] # <<>> /\ req[r].plan = FirstPlan(k).id

(* The interleaved requests implement the ledger, in which an event is     *)
(* opened, revised and planned in single steps.                            *)
issued == [k \in Keys |->
              [i \in DOMAIN plans[k] |->
                  [revision |-> plans[k][i].revision,
                   answers |-> plans[k][i].answers,
                   version |-> plans[k][i].version]]]

Ledger == INSTANCE EventLedger WITH history <- written

ImplementsLedger == Ledger!Spec
=============================================================================
