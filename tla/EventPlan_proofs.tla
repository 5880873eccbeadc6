-------------------------- MODULE EventPlan_proofs --------------------------
(***************************************************************************)
(* Proofs about EventPlan, for any requests, keys, intakes and rulesets.   *)
(* The inductive invariant IInv adds to the properties what the locks      *)
(* exclude (LockInv), what a request in flight may rely on (StageInv,      *)
(* ReadInv, CreateInv, CheckedInv) and what the rows mean (HistoryInv).    *)
(***************************************************************************)
EXTENDS EventPlan, TLAPS, SequenceTheorems

(* Which statements a kind of request can have reached.                    *)
StageInv ==
    \A r \in Requests :
        /\ req[r].pc \in {"loaded", "evaluated"} => Generates(r)
        /\ req[r].pc = "checked" => req[r].intent.kind # "edit"
        /\ req[r].pc = "locked" /\ req[r].intent.kind = "edit" =>
              Exists(req[r].intent.key)

LockInv ==
    /\ \A r, s \in Requests :
          HoldsKey(r) /\ HoldsKey(s) /\ req[r].intent.key = req[s].intent.key
              => r = s
    /\ \A r, s \in Requests :
          HoldsEvent(r) /\ HoldsEvent(s) /\ req[r].intent.key = req[s].intent.key
              => r = s

(* The row is the last entry of its history.                               *)
HistoryInv ==
    \A k \in Keys :
        /\ event[k].revision = Len(written[k])
        /\ Exists(k) => event[k].answers = written[k][event[k].revision]

(* What a generation read is some revision of the event.                   *)
ReadInv ==
    \A r \in Requests :
        Generates(r) /\ req[r].pc \in {"loaded", "evaluated", "locked", "checked"} =>
            /\ req[r].revision \in DOMAIN written[req[r].intent.key]
            /\ req[r].answers = written[req[r].intent.key][req[r].revision]

CreateInv ==
    \A r \in Requests :
        req[r].intent.kind = "create" /\ req[r].pc = "checked" =>
            ~Exists(req[r].intent.key)

(* A rejected text stays invalid, and nobody is about to insert it.        *)
Rejected(r) == Answered(r, "create") /\ req[r].answer = "invalid"

RejectInv ==
    \A r \in Requests : Rejected(r) =>
        /\ ~Valid(IntakeOf[req[r].intent.body])
        /\ Exists(req[r].intent.key) =>
              event[req[r].intent.key].body # req[r].intent.body
        /\ \A s \in Requests :
              req[s].intent.kind = "create" /\ req[s].pc = "checked"
              /\ req[s].intent.key = req[r].intent.key =>
                  req[s].intent.body # req[r].intent.body

(* What a generation found under the lock still holds when it inserts.     *)
CheckedInv ==
    \A r \in Requests : Generates(r) /\ req[r].pc = "checked" =>
        ~Downgrades(r) /\ ~AlreadyPlanned(r)

IInv ==
    /\ TypeOK /\ StageInv /\ LockInv
    /\ HistoryInv /\ ReadInv /\ PlanPinsItsIntake
    /\ CreateInv /\ RejectInv /\ CreateHappensOnce
    /\ PlansAreInOrder /\ CheckedInv /\ RulesetNeverGoesBack /\ OneFirstPlan

----------------------------------------------------------------------------
(* Versions.                                                               *)

LEMMA SupersedesIsAnOrder ==
    ASSUME NEW u \in Versions, NEW v \in Versions, NEW w \in Versions,
           MaySupersede(u, v), MaySupersede(v, w)
    PROVE  MaySupersede(u, w)
<1> DEFINE V == [jurisdiction : Jurisdictions, major : Nat, minor : Nat]
<1>1. ASSUME NEW x \in Versions, NEW y \in Versions
      PROVE  MaySupersede(x, y) <=>
                 /\ Comparable(x, y)
                 /\ x = y \/ Later(x, y)
  <2>1. CASE ~Comparable(x, y)
    BY <2>1 DEF MaySupersede, compareToPinned
  <2>2. CASE Comparable(x, y) /\ x = y
    <3>1. Parsed[x] \in V
      BY <2>2, VersionsAssumption DEF Comparable
    <3>2. ~Later(x, y)
      BY <2>2, <3>1 DEF Later
    <3> QED BY <2>2, <3>2 DEF MaySupersede, compareToPinned
  <2>3. CASE Comparable(x, y) /\ x # y
    <3>1. Parsed[x] \in V /\ Parsed[y] \in V
      BY <2>3, VersionsAssumption DEF Comparable
    <3>2. ~(Later(x, y) /\ Later(y, x))
      BY <3>1 DEF Later
    <3> QED BY <2>3, <3>2 DEF MaySupersede, compareToPinned
  <2> QED BY <2>1, <2>2, <2>3
<1>2. /\ Comparable(u, v) /\ Comparable(v, w)
      /\ u = v \/ Later(u, v)
      /\ v = w \/ Later(v, w)
  BY <1>1
<1>3. Parsed[u] \in V /\ Parsed[v] \in V /\ Parsed[w] \in V
  BY <1>2, VersionsAssumption DEF Comparable
<1>4. Comparable(u, w)
  BY <1>2 DEF Comparable
<1>5. u = w \/ Later(u, w)
  BY <1>2, <1>3 DEF Later
<1> QED BY <1>1, <1>4, <1>5

----------------------------------------------------------------------------
(* What the ways to move a request do to req.                              *)

Others(r) == \A s \in Requests : s # r => req'[s] = req[s]

LEMMA ReplyMoves ==
    ASSUME TypeOK, NEW r \in Requests, NEW a \in Answer, Reply(r, a)
    PROVE  /\ req' \in [Requests -> Request] /\ Others(r)
           /\ req'[r].pc = "done" /\ req'[r].answer = a
           /\ req'[r].intent = req[r].intent /\ req'[r].plan = req[r].plan
<1> DEFINE next == [req[r] EXCEPT !.pc = "done", !.answer = a]
<1>0. req[r] \in Request
  BY DEF TypeOK
<1>1. /\ next \in Request /\ next.pc = "done" /\ next.answer = a
      /\ next.intent = req[r].intent /\ next.plan = req[r].plan
  BY <1>0 DEF Request
<1>2. req' = [req EXCEPT ![r] = next]
  BY DEF Reply, TypeOK
<1> HIDE DEF next
<1> QED BY <1>1, <1>2 DEF TypeOK, Others

LEMMA ReplyWithPlanMoves ==
    ASSUME TypeOK, NEW r \in Requests, NEW a \in Answer, NEW p \in Requests,
           ReplyWithPlan(r, a, p)
    PROVE  /\ req' \in [Requests -> Request] /\ Others(r)
           /\ req'[r].pc = "done" /\ req'[r].answer = a
           /\ req'[r].intent = req[r].intent /\ req'[r].plan = p
<1> DEFINE next == [req[r] EXCEPT !.pc = "done", !.answer = a, !.plan = p]
<1>0. req[r] \in Request
  BY DEF TypeOK
<1>1. /\ next \in Request /\ next.pc = "done" /\ next.answer = a
      /\ next.intent = req[r].intent /\ next.plan = p
  BY <1>0 DEF Request
<1>2. req' = [req EXCEPT ![r] = next]
  BY DEF ReplyWithPlan, TypeOK
<1> HIDE DEF next
<1> QED BY <1>1, <1>2 DEF TypeOK, Others

LEMMA AnswerCommittedMoves ==
    ASSUME TypeOK, NEW r \in Requests, NEW a \in Answer, NEW p \in Requests,
           AnswerCommitted(r, a, p)
    PROVE  /\ req' \in [Requests -> Request] /\ Others(r)
           /\ req'[r].pc = "done" /\ req'[r].intent = req[r].intent
           /\ \/ req'[r].answer = a /\ req'[r].plan = p
              \/ req'[r].answer = "failed"
<1>1. "failed" \in Answer
  BY DEF Answer
<1> QED BY <1>1, ReplyMoves, ReplyWithPlanMoves DEF AnswerCommitted

LEMMA ProceedMoves ==
    ASSUME TypeOK, NEW r \in Requests,
           NEW pc \in {"evaluated", "locked", "checked"}, Proceed(r, pc)
    PROVE  /\ req' \in [Requests -> Request] /\ Others(r)
           /\ req'[r].pc = pc /\ req'[r].intent = req[r].intent
           /\ req'[r].revision = req[r].revision
           /\ req'[r].answers = req[r].answers
<1> DEFINE next == [req[r] EXCEPT !.pc = pc]
<1>0. req[r] \in Request
  BY DEF TypeOK
<1>1. /\ next \in Request /\ next.pc = pc /\ next.intent = req[r].intent
      /\ next.revision = req[r].revision /\ next.answers = req[r].answers
  BY <1>0 DEF Request
<1>2. req' = [req EXCEPT ![r] = next]
  BY DEF Proceed, TypeOK
<1> HIDE DEF next
<1> QED BY <1>1, <1>2 DEF TypeOK, Others

LEMMA IntentType ==
    ASSUME TypeOK, NEW r \in Requests
    PROVE  /\ req[r] \in Request
           /\ req[r].intent \in Intents
           /\ req[r].intent \in Intent
           /\ req[r].intent.key \in Keys
           /\ req[r].intent.body \in Bodies
           /\ req[r].intent.version \in Versions
           /\ IntakeOf[req[r].intent.body] \in Answers
           /\ req[r].plan \in Requests
BY RequestsAssumption DEF TypeOK, Request, Intent

(* The ends of a list of plans whose stamps are in order.                  *)
LEMMA OrderedEnds ==
    ASSUME NEW s \in Seq(Plan), s # <<>>,
           \A i, j \in DOMAIN s : i < j => s[i].at < s[j].at
    PROVE  /\ Len(s) \in Nat \ {0} /\ DOMAIN s = 1 .. Len(s)
           /\ s[1] \in Plan /\ s[Len(s)] \in Plan
           /\ (CHOOSE i \in DOMAIN s :
                 \A j \in DOMAIN s : s[j].at <= s[i].at) = Len(s)
           /\ (CHOOSE i \in DOMAIN s :
                 \A j \in DOMAIN s : s[i].at <= s[j].at) = 1
<1> DEFINE n == Len(s)
<1>1. n \in Nat \ {0}
  BY EmptySeq
<1>2. DOMAIN s = 1 .. n
  BY LenProperties
<1>2a. \A i \in 1 .. n : s[i] \in Plan
  BY ElementOfSeq
<1>2b. \A i, j \in 1 .. n : i < j => s[i].at < s[j].at
  BY <1>2
<1> HIDE DEF n
<1>3. \A i \in 1 .. n : s[i] \in Plan /\ s[i].at \in Nat
  <2> \A p \in Plan : p.at \in Nat
    BY DEF Plan
  <2> QED BY <1>2a
<1>4. \A i \in 1 .. n :
         (\A j \in 1 .. n : s[j].at <= s[i].at) <=> i = n
  BY <1>1, <1>2b, <1>3
<1>5. \A i \in 1 .. n :
         (\A j \in 1 .. n : s[i].at <= s[j].at) <=> i = 1
  BY <1>1, <1>2b, <1>3
<1>6. 1 \in 1 .. n /\ n \in 1 .. n
  BY <1>1
<1>7. (CHOOSE i \in 1 .. n : \A j \in 1 .. n : s[j].at <= s[i].at) = n
  BY <1>4, <1>6
<1>8. (CHOOSE i \in 1 .. n : \A j \in 1 .. n : s[i].at <= s[j].at) = 1
  BY <1>5, <1>6
<1> QED BY <1>1, <1>2, <1>3, <1>6, <1>7, <1>8 DEF n

LEMMA FirstAndLatest ==
    ASSUME TypeOK, PlansAreInOrder, NEW k \in Keys, plans[k] # <<>>
    PROVE  /\ Len(plans[k]) \in Nat \ {0}
           /\ LatestPlan(k) = plans[k][Len(plans[k])]
           /\ FirstPlan(k) = plans[k][1]
           /\ LatestPlan(k) \in Plan /\ FirstPlan(k) \in Plan
<1>1. /\ plans[k] \in Seq(Plan)
      /\ \A i, j \in DOMAIN plans[k] : i < j => plans[k][i].at < plans[k][j].at
  BY DEF TypeOK, PlansAreInOrder
<1> QED BY <1>1, OrderedEnds DEF LatestPlan, FirstPlan

----------------------------------------------------------------------------
(* The steps that touch no table, by what they do to their request.        *)

Keeps(r) == /\ req' \in [Requests -> Request] /\ Others(r)
            /\ req'[r].intent = req[r].intent
KeepsRead(r) == /\ req'[r].revision = req[r].revision
                /\ req'[r].answers = req[r].answers

Arrives(r) == /\ req[r].pc = "new" /\ req'[r].pc = "arrived"
              /\ req' \in [Requests -> Request] /\ Others(r)
TakesKey(r) ==
    /\ Keeps(r) /\ req[r].pc = "arrived" /\ req'[r].pc = "locked"
    /\ req[r].intent.kind = "create" /\ KeyLockFree(req[r].intent.key)
PassesCreate(r) ==
    /\ Keeps(r) /\ req[r].pc = "locked" /\ req'[r].pc = "checked"
    /\ req[r].intent.kind = "create"
    /\ ~Exists(req[r].intent.key) /\ Valid(IntakeOf[req[r].intent.body])
EndsCreate(r) ==
    /\ Keeps(r) /\ req[r].pc = "locked" /\ req'[r].pc = "done"
    /\ req[r].intent.kind = "create"
    /\ \/ /\ req'[r].answer = "replayed" /\ Exists(req[r].intent.key)
          /\ BodyMatches(req[r].intent.key, req[r].intent.body)
       \/ req'[r].answer = "mismatch"
       \/ /\ req'[r].answer = "invalid" /\ ~Exists(req[r].intent.key)
          /\ ~Valid(IntakeOf[req[r].intent.body])
TakesEvent(r) ==
    /\ Keeps(r) /\ KeepsRead(r) /\ req'[r].pc = "locked"
    /\ \/ /\ req[r].pc = "arrived" /\ req[r].intent.kind = "edit"
          /\ Exists(req[r].intent.key)
       \/ req[r].pc = "evaluated"
    /\ EventLockFree(req[r].intent.key)
Reads(r) ==
    /\ Keeps(r) /\ req[r].pc = "arrived" /\ req'[r].pc = "loaded"
    /\ Generates(r) /\ Exists(req[r].intent.key)
    /\ req'[r].revision = event[req[r].intent.key].revision
    /\ req'[r].answers = event[req[r].intent.key].answers
Evaluates(r) ==
    /\ Keeps(r) /\ KeepsRead(r)
    /\ req[r].pc = "loaded" /\ req'[r].pc = "evaluated"
PassesCheck(r) ==
    /\ Keeps(r) /\ KeepsRead(r)
    /\ req[r].pc = "locked" /\ req'[r].pc = "checked" /\ Generates(r)
    /\ ~AlreadyPlanned(r) /\ ~Downgrades(r)
ShowsFirst(r) ==
    /\ Keeps(r) /\ req'[r].pc = "done" /\ AlreadyPlanned(r)
    /\ req'[r].answer = "existing"
    /\ req'[r].plan = FirstPlan(req[r].intent.key).id
EndsWithNothing(r) ==
    /\ Keeps(r) /\ req'[r].pc = "done"
    /\ \/ req'[r].answer \in {"missing", "wrong_key", "downgrade", "failed"}
       \/ /\ req[r].intent.kind = "edit"
          /\ req'[r].answer \in {"invalid", "unchanged"}

QuietMove(r) ==
    \/ Arrives(r) \/ TakesKey(r) \/ PassesCreate(r) \/ EndsCreate(r)
    \/ TakesEvent(r) \/ Reads(r) \/ Evaluates(r) \/ PassesCheck(r)
    \/ ShowsFirst(r) \/ EndsWithNothing(r)

Quiet(r) ==
    \/ Submit(r) \/ LockKey(r) \/ CheckCreate(r) \/ LockForEdit(r)
    \/ LoadEvent(r) \/ EvaluateIntake(r) \/ LockForGeneration(r)
    \/ CheckUnderLock(r) \/ Abort(r)

LEMMA AnswersExist ==
    {"none", "created", "replayed", "mismatch", "invalid", "saved",
     "unchanged", "missing", "wrong_key", "downgrade", "stored", "existing",
     "failed"} \subseteq Answer
BY DEF Answer

LEMMA ShownPlanExists ==
    ASSUME TypeOK, PlansAreInOrder, NEW r \in Requests, AlreadyPlanned(r)
    PROVE  FirstPlan(req[r].intent.key).id \in Requests
<1>1. req[r].intent.key \in Keys
  BY IntentType
<1>2. FirstPlan(req[r].intent.key) \in Plan
  BY <1>1, FirstAndLatest DEF AlreadyPlanned
<1> QED BY <1>2 DEF Plan

LEMMA QuietSteps ==
    ASSUME TypeOK, PlansAreInOrder, NEW r \in Requests, Quiet(r)
    PROVE  UNCHANGED <<day, event, plans, written>> /\ QuietMove(r)
<1> USE AnswersExist
<1>0. /\ req[r] \in Request /\ req[r].intent.key \in Keys
      /\ event[req[r].intent.key] \in Event
  BY IntentType DEF TypeOK
<1>1. CASE Submit(r)
  <2>1. PICK i \in Intents :
           req' = [req EXCEPT ![r] = [@ EXCEPT !.pc = "arrived", !.intent = i]]
    BY ZenonT(40), <1>1 DEF Submit
  <2> DEFINE next == [req[r] EXCEPT !.pc = "arrived", !.intent = i]
  <2>2. next \in Request /\ next.pc = "arrived"
    BY <1>0 DEF Request
  <2>3. req' = [req EXCEPT ![r] = next]
    BY <2>1 DEF TypeOK
  <2> HIDE DEF next
  <2>4. Arrives(r)
    BY <1>1, <2>2, <2>3 DEF TypeOK, Others, Submit, Arrives
  <2> QED BY <1>1, <2>4 DEF Submit, QuietMove
<1>2. CASE LockKey(r)
  <2>1. TakesKey(r)
    BY <1>2, ProceedMoves DEF LockKey, TakesKey, Keeps
  <2> QED BY <1>2, <2>1 DEF LockKey, QuietMove
<1>3. CASE CheckCreate(r)
  <2> DEFINE k == req[r].intent.key
             body == req[r].intent.body
  <2>1. CASE \E a \in {"replayed", "mismatch", "invalid"} : Reply(r, a)
    <3>1. EndsCreate(r)
      <4>1. PICK a \in {"replayed", "mismatch", "invalid"} : Reply(r, a)
        BY <2>1
      <4>2. Keeps(r) /\ req'[r].pc = "done" /\ req'[r].answer = a
        BY <4>1, ReplyMoves DEF Keeps
      <4>3. \A b \in Answer : Reply(r, b) => req'[r].answer = b
        BY ReplyMoves
      <4>4. ~Proceed(r, "checked")
        BY <4>2, ProceedMoves
      <4> QED BY <1>3, <4>2, <4>3, <4>4 DEF CheckCreate, EndsCreate
    <3> QED BY <1>3, <3>1 DEF CheckCreate, QuietMove
  <2>2. CASE ~Exists(k) /\ Valid(IntakeOf[body]) /\ Proceed(r, "checked")
    <3>1. PassesCreate(r)
      BY <1>3, <2>2, ProceedMoves DEF CheckCreate, PassesCreate, Keeps
    <3> QED BY <1>3, <3>1 DEF CheckCreate, QuietMove
  <2> QED BY <1>3, <2>1, <2>2 DEF CheckCreate
<1>4. CASE LockForEdit(r)
  <2>1. CASE Exists(req[r].intent.key)
    <3>1. TakesEvent(r)
      BY <1>4, <2>1, ProceedMoves DEF LockForEdit, TakesEvent, Keeps, KeepsRead
    <3> QED BY <1>4, <3>1 DEF LockForEdit, QuietMove
  <2>2. CASE ~Exists(req[r].intent.key)
    <3>1. EndsWithNothing(r)
      BY <1>4, <2>2, ReplyMoves DEF LockForEdit, EndsWithNothing, Keeps
    <3> QED BY <1>4, <3>1 DEF LockForEdit, QuietMove
  <2> QED BY <2>1, <2>2
<1>5. CASE LoadEvent(r)
  <2> DEFINE k == req[r].intent.key
             next == [req[r] EXCEPT !.pc = "loaded",
                                    !.revision = event[k].revision,
                                    !.answers = event[k].answers]
  <2>1. CASE Reply(r, "missing") \/ Reply(r, "wrong_key")
    <3>1. EndsWithNothing(r)
      BY <2>1, ReplyMoves DEF EndsWithNothing, Keeps
    <3> QED BY <1>5, <3>1 DEF LoadEvent, QuietMove
  <2>2. CASE Exists(k) /\ req' = [req EXCEPT ![r] = next]
    <3>0. event[k].revision \in Nat /\ event[k].answers \in Answers
      BY <1>0 DEF Event
    <3>1. /\ next \in Request /\ next.pc = "loaded"
          /\ next.intent = req[r].intent
          /\ next.revision = event[k].revision
          /\ next.answers = event[k].answers
      BY <1>0, <3>0 DEF Request
    <3> HIDE DEF next
    <3>2. Reads(r)
      BY <1>5, <2>2, <3>1 DEF TypeOK, LoadEvent, Reads, Keeps, Others
    <3> QED BY <1>5, <3>2 DEF LoadEvent, QuietMove
  <2> QED BY <1>5, <2>1, <2>2 DEF LoadEvent, TypeOK
<1>6. CASE EvaluateIntake(r)
  <2>1. CASE AlreadyPlanned(r)
    <3>1. ShowsFirst(r)
      BY <1>6, <2>1, ReplyWithPlanMoves, ShownPlanExists
         DEF EvaluateIntake, ShowFirstPlan, ShowsFirst, Keeps
    <3> QED BY <1>6, <3>1 DEF EvaluateIntake, QuietMove
  <2>2. CASE ~AlreadyPlanned(r)
    <3>1. Evaluates(r)
      BY <1>6, <2>2, ProceedMoves DEF EvaluateIntake, Evaluates, Keeps, KeepsRead
    <3> QED BY <1>6, <3>1 DEF EvaluateIntake, QuietMove
  <2> QED BY <2>1, <2>2
<1>7. CASE LockForGeneration(r)
  <2>1. TakesEvent(r)
    BY <1>7, ProceedMoves DEF LockForGeneration, TakesEvent, Keeps, KeepsRead
  <2> QED BY <1>7, <2>1 DEF LockForGeneration, QuietMove
<1>8. CASE CheckUnderLock(r)
  <2>1. CASE PlannedMeanwhile(r) /\ ShowFirstPlan(r)
    <3>1. ShowsFirst(r)
      BY <2>1, ReplyWithPlanMoves, ShownPlanExists
         DEF PlannedMeanwhile, ShowFirstPlan, ShowsFirst, Keeps
    <3> QED BY <1>8, <3>1 DEF CheckUnderLock, QuietMove
  <2>2. CASE Reply(r, "downgrade")
    <3>1. EndsWithNothing(r)
      BY <2>2, ReplyMoves DEF EndsWithNothing, Keeps
    <3> QED BY <1>8, <3>1 DEF CheckUnderLock, QuietMove
  <2>3. CASE ~PlannedMeanwhile(r) /\ ~Downgrades(r) /\ Proceed(r, "checked")
    <3>1. PassesCheck(r)
      BY <1>8, <2>3, ProceedMoves
         DEF CheckUnderLock, PlannedMeanwhile, PassesCheck, Keeps, KeepsRead
    <3> QED BY <1>8, <3>1 DEF CheckUnderLock, QuietMove
  <2> QED BY <1>8, <2>1, <2>2, <2>3 DEF CheckUnderLock
<1>9. CASE Abort(r)
  <2>1. EndsWithNothing(r)
    BY <1>9, ReplyMoves DEF Abort, EndsWithNothing, Keeps
  <2> QED BY <1>9, <2>1 DEF Abort, QuietMove
<1> QED BY <1>1, <1>2, <1>3, <1>4, <1>5, <1>6, <1>7, <1>8, <1>9 DEF Quiet

----------------------------------------------------------------------------
(* The steps that commit a write.                                          *)

CreatesEvent(r) ==
    LET k == req[r].intent.key
        body == req[r].intent.body
    IN  /\ Keeps(r) /\ req[r].pc = "checked" /\ req'[r].pc = "done"
        /\ req[r].intent.kind = "create" /\ ~Exists(k)
        /\ req'[r].answer \in {"created", "failed"}
        /\ event' = [event EXCEPT ![k] = NewEvent(body)]
        /\ written' = [written EXCEPT ![k] = <<IntakeOf[body]>>]
        /\ UNCHANGED <<day, plans>>

Edits(r, a) ==
    LET k == req[r].intent.key
    IN  /\ Keeps(r) /\ req[r].pc = "locked" /\ req'[r].pc = "done"
        /\ req[r].intent.kind = "edit" /\ Exists(k)
        /\ req'[r].answer \in {"saved", "failed"}
        /\ a # event[k].answers
        /\ event' = [event EXCEPT ![k] =
                        [@ EXCEPT !.answers = a, !.revision = RevisionAfter(k)]]
        /\ written' = [written EXCEPT ![k] = Append(@, a)]
        /\ UNCHANGED <<day, plans>>

Stores(r, p) ==
    LET k == req[r].intent.key
    IN  /\ Keeps(r) /\ req[r].pc = "checked" /\ req'[r].pc = "done"
        /\ Generates(r)
        /\ \/ req'[r].answer = "stored" /\ req'[r].plan = r
           \/ req'[r].answer = "failed"
        /\ p.id = r /\ p.revision = req[r].revision
        /\ p.answers = req[r].answers /\ p.version = req[r].intent.version
        /\ \A i \in DOMAIN plans[k] : plans[k][i].at < p.at
        /\ plans' = [plans EXCEPT ![k] = Append(@, p)]
        /\ UNCHANGED <<day, event, written>>

LEMMA CommitCreateSteps ==
    ASSUME IInv, NEW r \in Requests, CommitCreate(r)
    PROVE  CreatesEvent(r)
<1> USE AnswersExist
<1> DEFINE k == req[r].intent.key
           body == req[r].intent.body
<1>1. TypeOK /\ ~Exists(k) /\ r \in Requests
  BY DEF IInv, CreateInv, CommitCreate
<1>2. AnswerCommitted(r, "created", req[r].plan)
  BY <1>1 DEF CommitCreate
<1>3. /\ Keeps(r) /\ req'[r].pc = "done"
      /\ req'[r].answer \in {"created", "failed"}
  BY <1>1, <1>2, IntentType, AnswerCommittedMoves DEF Keeps
<1> QED BY <1>1, <1>3 DEF CommitCreate, CreatesEvent

LEMMA CommitEditSteps ==
    ASSUME IInv, NEW r \in Requests, CommitEdit(r)
    PROVE  \/ UNCHANGED <<day, event, plans, written>> /\ QuietMove(r)
           \/ \E a \in Answers : Edits(r, a)
<1> USE AnswersExist
<1> DEFINE k == req[r].intent.key
<1>1. TypeOK /\ Exists(k)
  BY DEF IInv, StageInv, CommitEdit
<1>2. ASSUME Reply(r, "invalid") \/ Reply(r, "unchanged"),
             UNCHANGED <<event, written>>
      PROVE  UNCHANGED <<day, event, plans, written>> /\ QuietMove(r)
  <2>1. EndsWithNothing(r)
    BY <1>1, <1>2, ReplyMoves DEF CommitEdit, EndsWithNothing, Keeps
  <2> QED BY <1>2, <2>1 DEF CommitEdit, QuietMove
<1>3. ASSUME NEW a \in Answers, a # event[k].answers,
             event' = [event EXCEPT ![k] =
                          [@ EXCEPT !.answers = a, !.revision = RevisionAfter(k)]],
             written' = [written EXCEPT ![k] = Append(@, a)],
             AnswerCommitted(r, "saved", req[r].plan)
      PROVE  Edits(r, a)
  <2>1. /\ Keeps(r) /\ req'[r].pc = "done"
        /\ req'[r].answer \in {"saved", "failed"}
    BY <1>1, <1>3, IntentType, AnswerCommittedMoves DEF Keeps
  <2> QED BY ZenonT(40), <1>1, <1>3, <2>1 DEF CommitEdit, Edits
<1> QED BY ZenonT(40), <1>2, <1>3 DEF CommitEdit

LEMMA StorePlanSteps ==
    ASSUME IInv, NEW r \in Requests, StorePlan(r)
    PROVE  \E p \in Plan : Stores(r, p)
<1> USE AnswersExist
<1> DEFINE k == req[r].intent.key
<1>0. TypeOK /\ PlansAreInOrder /\ ReadInv
  BY DEF IInv
<1>1. /\ req[r].pc = "checked" /\ Generates(r)
      /\ UNCHANGED <<day, event, written>>
      /\ AnswerCommitted(r, "stored", r)
  BY DEF StorePlan
<1>2. PICK clock \in 0 .. MaxClock :
         plans' = [plans EXCEPT ![k] = Append(@, NewPlan(r, clock))]
  BY DEF StorePlan
<1>3. clock \in Nat
  BY RequestsAssumption
<1>4. k \in Keys /\ req[r].intent.version \in Versions
  BY <1>0, IntentType
<1>5. req[r].revision \in Nat \ {0} /\ req[r].answers \in Answers
  <2>1. req[r].revision \in DOMAIN written[k] /\ req[r] \in Request
    BY <1>0, <1>1 DEF ReadInv, TypeOK
  <2>2. written[k] \in Seq(Answers)
    BY <1>0, <1>4 DEF TypeOK
  <2>3. DOMAIN written[k] = 1 .. Len(written[k]) /\ Len(written[k]) \in Nat
    BY <2>2
  <2> QED BY <2>1, <2>3 DEF Request
<1>6. /\ Clamped(k, clock) \in Nat
      /\ \A i \in DOMAIN plans[k] : plans[k][i].at < Clamped(k, clock)
  <2>1. CASE plans[k] = <<>>
    BY SMTT(30), <1>3, <2>1 DEF Clamped
  <2>2. CASE plans[k] # <<>>
    <3> DEFINE n == Len(plans[k])
    <3>1. /\ n \in Nat \ {0} /\ LatestPlan(k) = plans[k][n]
          /\ LatestPlan(k).at \in Nat
      BY <1>0, <1>4, <2>2, FirstAndLatest DEF Plan
    <3>2. plans[k] \in Seq(Plan)
      BY <1>0, <1>4 DEF TypeOK
    <3>3. \A i \in DOMAIN plans[k] : plans[k][i].at \in Nat
      <4>1. \A i \in DOMAIN plans[k] : plans[k][i] \in Plan
        BY <3>2
      <4> QED BY <4>1 DEF Plan
    <3>4. DOMAIN plans[k] = 1 .. n
      BY <3>2
    <3>5. \A i \in DOMAIN plans[k] : plans[k][i].at <= LatestPlan(k).at
      <4>1. \A i \in 1 .. n : i < n => plans[k][i].at < plans[k][n].at
        <5> HIDE DEF k, n
        <5> QED BY <1>0, <1>4, <3>1, <3>4 DEF PlansAreInOrder
      <4>2. \A i \in 1 .. n : plans[k][i].at <= plans[k][n].at
        <5> \A i \in 1 .. n : plans[k][i].at \in Nat
          BY <3>3, <3>4
        <5> HIDE DEF k, n
        <5> QED BY <3>1, <4>1
      <4> QED BY <3>1, <3>4, <4>2
    <3>6. Clamped(k, clock) \in Nat /\ Clamped(k, clock) > LatestPlan(k).at
      BY <1>3, <2>2, <3>1 DEF Clamped
    <3> DEFINE last == LatestPlan(k).at
               stamp == Clamped(k, clock)
    <3>7. \A i \in DOMAIN plans[k] : plans[k][i].at < stamp
      <4> SUFFICES ASSUME NEW i \in DOMAIN plans[k]
                   PROVE  plans[k][i].at < stamp
        OBVIOUS
      <4> DEFINE at == plans[k][i].at
      <4>1. at \in Nat /\ last \in Nat /\ stamp \in Nat
            /\ at <= last /\ last < stamp
        BY <3>1, <3>3, <3>5, <3>6
      <4> HIDE DEF at, last, stamp
      <4>2. at < stamp
        BY <4>1
      <4> QED BY <4>2 DEF at
    <3> QED BY <3>6, <3>7
  <2> QED BY <2>1, <2>2
<1> DEFINE p == NewPlan(r, clock)
<1>7. /\ p \in Plan /\ p.id = r /\ p.revision = req[r].revision
      /\ p.answers = req[r].answers /\ p.version = req[r].intent.version
      /\ p.at = Clamped(k, clock)
  BY <1>4, <1>5, <1>6 DEF NewPlan, Plan
<1>8. /\ Keeps(r) /\ req'[r].pc = "done"
      /\ \/ req'[r].answer = "stored" /\ req'[r].plan = r
         \/ req'[r].answer = "failed"
  BY <1>0, <1>1, AnswerCommittedMoves DEF Keeps
<1> HIDE DEF p
<1>9. Stores(r, p)
  BY <1>1, <1>2, <1>6, <1>7, <1>8 DEF Stores, p
<1> QED BY <1>7, <1>9

(* Every step, by what it does.                                            *)
LEMMA StepCases ==
    ASSUME IInv, [Next]_vars
    PROVE  \/ UNCHANGED <<event, plans, written, req>> /\ day' \in {day, day + 1}
           \/ \E r \in Requests :
                 UNCHANGED <<day, event, plans, written>> /\ QuietMove(r)
           \/ \E r \in Requests : CreatesEvent(r)
           \/ \E r \in Requests, a \in Answers : Edits(r, a)
           \/ \E r \in Requests, p \in Plan : Stores(r, p)
<1>1. CASE UNCHANGED vars
  BY <1>1 DEF vars
<1>2. CASE Midnight
  BY <1>2 DEF Midnight
<1>3. ASSUME NEW r \in Requests, Quiet(r)
      PROVE  UNCHANGED <<day, event, plans, written>> /\ QuietMove(r)
  BY <1>3, QuietSteps DEF IInv
<1>4. ASSUME NEW r \in Requests,
             Submit(r) \/ Create(r) \/ Edit(r) \/ Generate(r) \/ Abort(r)
      PROVE  Quiet(r) \/ CommitCreate(r) \/ CommitEdit(r) \/ StorePlan(r)
  BY <1>4 DEF Create, Edit, Generate, Quiet
<1> QED BY <1>1, <1>2, <1>3, <1>4, CommitCreateSteps, CommitEditSteps,
           StorePlanSteps DEF Next

(* The tables after each of the three writes.                              *)

LEMMA CreatedEvent ==
    ASSUME TypeOK, NEW r \in Requests, CreatesEvent(r)
    PROVE  LET k == req[r].intent.key
           IN  /\ event' \in [Keys -> Event]
               /\ written' \in [Keys -> Seq(Answers)]
               /\ event'[k].revision = 1
               /\ event'[k].body = req[r].intent.body
               /\ event'[k].answers = IntakeOf[req[r].intent.body]
               /\ written'[k] = <<IntakeOf[req[r].intent.body]>>
               /\ \A j \in Keys : j # k => /\ event'[j] = event[j]
                                           /\ written'[j] = written[j]
<1> DEFINE k == req[r].intent.key
           body == req[r].intent.body
           next == NewEvent(body)
<1>1. k \in Keys /\ body \in Bodies /\ IntakeOf[body] \in Answers
  BY IntentType
<1>2. /\ next \in Event /\ next.revision = 1 /\ next.body = body
      /\ next.answers = IntakeOf[body]
  BY <1>1 DEF NewEvent, Event
<1>3. /\ event' = [event EXCEPT ![k] = next]
      /\ written' = [written EXCEPT ![k] = <<IntakeOf[body]>>]
  BY DEF CreatesEvent
<1> HIDE DEF next
<1>4. <<IntakeOf[body]>> \in Seq(Answers)
  BY <1>1
<1> QED BY <1>1, <1>2, <1>3, <1>4 DEF TypeOK

LEMMA EditedEvent ==
    ASSUME TypeOK, NEW r \in Requests, NEW a \in Answers, Edits(r, a)
    PROVE  LET k == req[r].intent.key
           IN  /\ event' \in [Keys -> Event]
               /\ written' \in [Keys -> Seq(Answers)]
               /\ event'[k].revision = event[k].revision + 1
               /\ event'[k].body = event[k].body
               /\ event'[k].answers = a
               /\ Len(written'[k]) = Len(written[k]) + 1
               /\ written'[k][Len(written[k]) + 1] = a
               /\ \A i \in 1 .. Len(written[k]) : written'[k][i] = written[k][i]
               /\ \A j \in Keys : j # k => /\ event'[j] = event[j]
                                           /\ written'[j] = written[j]
<1> DEFINE k == req[r].intent.key
           next == [event[k] EXCEPT !.answers = a, !.revision = RevisionAfter(k)]
<1>1. k \in Keys /\ event[k] \in Event /\ written[k] \in Seq(Answers)
  BY IntentType DEF TypeOK
<1>2. event[k].revision \in Nat
  BY <1>1 DEF Event
<1>3. /\ next \in Event /\ next.revision = event[k].revision + 1
      /\ next.body = event[k].body /\ next.answers = a
  <2>1. RevisionAfter(k) = event[k].revision + 1 /\ RevisionAfter(k) \in Nat
    BY <1>2 DEF RevisionAfter
  <2> QED BY <1>1, <2>1 DEF Event
<1>4. /\ event' = [event EXCEPT ![k] = next]
      /\ written' = [written EXCEPT ![k] = Append(written[k], a)]
  BY <1>1 DEF Edits, TypeOK
<1> HIDE DEF next
<1>5. /\ Append(written[k], a) \in Seq(Answers)
      /\ Len(Append(written[k], a)) = Len(written[k]) + 1
      /\ \A i \in 1 .. Len(written[k]) : Append(written[k], a)[i] = written[k][i]
      /\ Append(written[k], a)[Len(written[k]) + 1] = a
  BY <1>1, AppendProperties
<1> QED BY <1>1, <1>3, <1>4, <1>5 DEF TypeOK

LEMMA StoredPlan ==
    ASSUME TypeOK, NEW r \in Requests, NEW p \in Plan, Stores(r, p)
    PROVE  LET k == req[r].intent.key
           IN  /\ plans' \in [Keys -> Seq(Plan)]
               /\ plans'[k] # <<>>
               /\ Len(plans'[k]) = Len(plans[k]) + 1
               /\ DOMAIN plans'[k] = 1 .. Len(plans[k]) + 1
               /\ DOMAIN plans[k] = 1 .. Len(plans[k]) /\ Len(plans[k]) \in Nat
               /\ plans'[k][Len(plans[k]) + 1] = p
               /\ \A i \in 1 .. Len(plans[k]) : plans'[k][i] = plans[k][i]
               /\ \A j \in Keys : j # k => plans'[j] = plans[j]
<1> DEFINE k == req[r].intent.key
<1>1. k \in Keys /\ plans[k] \in Seq(Plan)
  BY IntentType DEF TypeOK
<1>2. plans' = [plans EXCEPT ![k] = Append(plans[k], p)]
  BY <1>1 DEF Stores, TypeOK
<1>3. /\ Append(plans[k], p) \in Seq(Plan) /\ Append(plans[k], p) # <<>>
      /\ Len(Append(plans[k], p)) = Len(plans[k]) + 1
      /\ \A i \in 1 .. Len(plans[k]) : Append(plans[k], p)[i] = plans[k][i]
      /\ Append(plans[k], p)[Len(plans[k]) + 1] = p
  <2>1. ASSUME NEW s \in Seq(Plan)
        PROVE  /\ Append(s, p) \in Seq(Plan) /\ Append(s, p) # <<>>
               /\ Len(Append(s, p)) = Len(s) + 1
               /\ \A i \in 1 .. Len(s) : Append(s, p)[i] = s[i]
               /\ Append(s, p)[Len(s) + 1] = p
    BY AppendProperties
  <2> QED BY <1>1, <2>1
<1>4. DOMAIN Append(plans[k], p) = 1 .. Len(plans[k]) + 1
  BY <1>3
<1>5. DOMAIN plans[k] = 1 .. Len(plans[k]) /\ Len(plans[k]) \in Nat
  BY <1>1
<1> QED BY <1>1, <1>2, <1>3, <1>4, <1>5 DEF TypeOK

----------------------------------------------------------------------------
(* The conjuncts of the invariant, one lemma each.                         *)

LEMMA TypeStep ==
    ASSUME IInv, [Next]_vars PROVE TypeOK'
<1>0. TypeOK
  BY DEF IInv
<1>1. CASE UNCHANGED <<event, plans, written, req>> /\ day' \in {day, day + 1}
  BY <1>0, <1>1 DEF TypeOK
<1>2. ASSUME NEW r \in Requests, UNCHANGED <<day, event, plans, written>>,
             QuietMove(r)
      PROVE  TypeOK'
  <2>1. req' \in [Requests -> Request]
    BY <1>2 DEF QuietMove, Arrives, TakesKey, PassesCreate, EndsCreate,
                TakesEvent, Reads, Evaluates, PassesCheck, ShowsFirst,
                EndsWithNothing, Keeps
  <2> QED BY <1>0, <1>2, <2>1 DEF TypeOK
<1>3. ASSUME NEW r \in Requests, CreatesEvent(r) PROVE TypeOK'
  BY ZenonT(40), <1>0, <1>3, CreatedEvent DEF TypeOK, CreatesEvent, Keeps
<1>4. ASSUME NEW r \in Requests, NEW a \in Answers, Edits(r, a) PROVE TypeOK'
  BY ZenonT(40), <1>0, <1>4, EditedEvent DEF TypeOK, Edits, Keeps
<1>5. ASSUME NEW r \in Requests, NEW p \in Plan, Stores(r, p) PROVE TypeOK'
  BY <1>0, <1>5, StoredPlan DEF TypeOK, Stores, Keeps
<1> QED BY <1>1, <1>2, <1>3, <1>4, <1>5, StepCases

LEMMA StageStep ==
    ASSUME IInv, [Next]_vars PROVE StageInv'
<1> USE DEF StageInv, Generates, Exists
<1>0. TypeOK /\ StageInv
  BY DEF IInv
<1>1. CASE UNCHANGED <<event, plans, written, req>> /\ day' \in {day, day + 1}
  BY <1>0, <1>1
<1>2. ASSUME NEW r \in Requests, UNCHANGED <<day, event, plans, written>>,
             QuietMove(r)
      PROVE  StageInv'
  BY <1>0, <1>2 DEF QuietMove, Arrives, TakesKey, PassesCreate, EndsCreate,
                TakesEvent, Reads, Evaluates, PassesCheck, ShowsFirst,
                EndsWithNothing, Keeps, Others
<1>3. ASSUME NEW r \in Requests, CreatesEvent(r) PROVE StageInv'
  <2>1. \A k \in Keys : Exists(k) => Exists(k)'
    BY <1>0, <1>3, CreatedEvent
  <2> QED BY <1>0, <1>3, <2>1, IntentType DEF CreatesEvent, Keeps, Others
<1>4. ASSUME NEW r \in Requests, NEW a \in Answers, Edits(r, a) PROVE StageInv'
  <2>1. \A k \in Keys : event[k].revision \in Nat
    BY <1>0 DEF TypeOK, Event
  <2>2. \A k \in Keys : Exists(k) => Exists(k)'
    BY <1>0, <1>4, <2>1, EditedEvent, IntentType
  <2> QED BY <1>0, <1>4, <2>2, IntentType DEF Edits, Keeps, Others
<1>5. ASSUME NEW r \in Requests, NEW p \in Plan, Stores(r, p) PROVE StageInv'
  BY <1>0, <1>5 DEF Stores, Keeps, Others
<1> QED BY <1>1, <1>2, <1>3, <1>4, <1>5, StepCases

LEMMA LockStep ==
    ASSUME IInv, [Next]_vars PROVE LockInv'
<1> USE DEF LockInv, HoldsKey, HoldsEvent, InTransaction
<1>0. TypeOK /\ StageInv /\ LockInv
  BY DEF IInv
<1>1. CASE UNCHANGED <<event, plans, written, req>> /\ day' \in {day, day + 1}
  BY <1>0, <1>1
<1>2. ASSUME NEW r \in Requests, UNCHANGED <<day, event, plans, written>>,
             QuietMove(r)
      PROVE  LockInv'
  <2>1. CASE TakesKey(r)
    BY <1>0, <2>1 DEF TakesKey, KeyLockFree, Keeps, Others
  <2>2. CASE TakesEvent(r)
    <3>1. req[r].intent.kind # "create"
      BY <1>0, <2>2 DEF StageInv, Generates, TakesEvent
    <3> QED BY <1>0, <2>2, <3>1 DEF TakesEvent, EventLockFree, Keeps, Others
  <2>3. CASE ~TakesKey(r) /\ ~TakesEvent(r)
    BY <1>0, <1>2, <2>3
       DEF QuietMove, Arrives, PassesCreate, EndsCreate, Reads, Evaluates,
           PassesCheck, ShowsFirst, EndsWithNothing, Keeps, Others
  <2> QED BY <2>1, <2>2, <2>3
<1>3. ASSUME NEW r \in Requests, CreatesEvent(r) PROVE LockInv'
  BY <1>0, <1>3 DEF CreatesEvent, Keeps, Others
<1>4. ASSUME NEW r \in Requests, NEW a \in Answers, Edits(r, a) PROVE LockInv'
  BY <1>0, <1>4 DEF Edits, Keeps, Others
<1>5. ASSUME NEW r \in Requests, NEW p \in Plan, Stores(r, p) PROVE LockInv'
  BY <1>0, <1>5 DEF Stores, Keeps, Others
<1> QED BY <1>1, <1>2, <1>3, <1>4, <1>5, StepCases

LEMMA HistoryStep ==
    ASSUME IInv, [Next]_vars PROVE HistoryInv'
<1> USE DEF HistoryInv, Exists
<1>0. TypeOK /\ HistoryInv
  BY DEF IInv
<1>1. ASSUME UNCHANGED <<event, written>> PROVE HistoryInv'
  BY <1>0, <1>1
<1>2. ASSUME NEW r \in Requests, CreatesEvent(r) PROVE HistoryInv'
  <2> DEFINE k == req[r].intent.key
             a == IntakeOf[req[r].intent.body]
  <2>1. /\ k \in Keys /\ event'[k].revision = 1 /\ event'[k].answers = a
        /\ written'[k] = <<a>>
        /\ \A j \in Keys : j # k => event'[j] = event[j] /\ written'[j] = written[j]
    BY <1>0, <1>2, CreatedEvent, IntentType
  <2> HIDE DEF k, a
  <2>2. Len(written'[k]) = 1 /\ written'[k][1] = a
    BY <2>1
  <2> QED BY <1>0, <2>1, <2>2
<1>3. ASSUME NEW r \in Requests, NEW a \in Answers, Edits(r, a)
      PROVE  HistoryInv'
  <2> DEFINE k == req[r].intent.key
  <2>1. /\ k \in Keys /\ event'[k].revision = event[k].revision + 1
        /\ event'[k].answers = a
        /\ Len(written'[k]) = Len(written[k]) + 1
        /\ written'[k][Len(written[k]) + 1] = a
        /\ \A j \in Keys : j # k => event'[j] = event[j] /\ written'[j] = written[j]
    BY <1>0, <1>3, EditedEvent, IntentType
  <2> HIDE DEF k
  <2>2. event[k].revision = Len(written[k])
    BY <1>0, <2>1
  <2> QED BY <1>0, <2>1, <2>2
<1>4. ASSUME NEW r \in Requests, NEW p \in Plan, Stores(r, p) PROVE HistoryInv'
  BY <1>1, <1>4 DEF Stores
<1> QED BY <1>1, <1>2, <1>3, <1>4, StepCases

(* A revision once written stays.                                          *)
LEMMA HistoryGrows ==
    ASSUME IInv, [Next]_vars, NEW k \in Keys, NEW n \in DOMAIN written[k]
    PROVE  n \in DOMAIN written'[k] /\ written'[k][n] = written[k][n]
<1>0. TypeOK /\ HistoryInv
  BY DEF IInv
<1>1. /\ written[k] \in Seq(Answers) /\ Len(written[k]) \in Nat
      /\ DOMAIN written[k] = 1 .. Len(written[k])
  BY <1>0 DEF TypeOK
<1>2. ASSUME NEW r \in Requests, CreatesEvent(r)
      PROVE  written'[k] = written[k]
  <2>1. CASE req[r].intent.key = k
    <3>1. Len(written[k]) = 0
      BY <1>0, <1>2, <2>1 DEF HistoryInv, CreatesEvent, Exists
    <3> QED BY <1>1, <3>1
  <2>2. CASE req[r].intent.key # k
    BY <1>0, <1>2, <2>2, CreatedEvent
  <2> QED BY <2>1, <2>2
<1>3. ASSUME NEW r \in Requests, NEW a \in Answers, Edits(r, a)
      PROVE  n \in DOMAIN written'[k] /\ written'[k][n] = written[k][n]
  <2>1. CASE req[r].intent.key = k
    <3>1. /\ written'[k] \in Seq(Answers)
          /\ Len(written'[k]) = Len(written[k]) + 1
          /\ \A i \in 1 .. Len(written[k]) : written'[k][i] = written[k][i]
      BY <1>0, <1>3, <2>1, EditedEvent
    <3>2. DOMAIN written'[k] = 1 .. Len(written[k]) + 1
      BY <3>1
    <3> QED BY <1>1, <3>1, <3>2
  <2>2. CASE req[r].intent.key # k
    BY <1>0, <1>3, <2>2, EditedEvent
  <2> QED BY <2>1, <2>2
<1>4. ASSUME NEW r \in Requests, NEW p \in Plan, Stores(r, p)
      PROVE  written' = written
  BY <1>4 DEF Stores
<1> QED BY <1>2, <1>3, <1>4, StepCases

LEMMA ReadStep ==
    ASSUME IInv, [Next]_vars PROVE ReadInv'
<1> DEFINE InHand(r) == Generates(r) /\ req[r].pc \in
                            {"loaded", "evaluated", "locked", "checked"}
           Known(r) == /\ req[r].revision \in DOMAIN written[req[r].intent.key]
                       /\ req[r].answers =
                              written[req[r].intent.key][req[r].revision]
<1>0. TypeOK /\ StageInv /\ HistoryInv
  BY DEF IInv
<1>1. \A r \in Requests : InHand(r) => Known(r)
  BY DEF IInv, ReadInv
<1>2. ASSUME NEW r \in Requests, req'[r].intent = req[r].intent, KeepsRead(r),
             Known(r)
      PROVE  Known(r)'
  BY <1>0, <1>2, HistoryGrows, IntentType DEF KeepsRead
<1>3. ASSUME NEW r \in Requests, req'[r] = req[r], InHand(r)'
      PROVE  Known(r)'
  BY <1>1, <1>2, <1>3 DEF Generates, KeepsRead
<1>4. ASSUME NEW r \in Requests, UNCHANGED <<day, event, plans, written>>,
             QuietMove(r), InHand(r)'
      PROVE  Known(r)'
  <2>1. CASE Reads(r)
    <3> DEFINE k == req[r].intent.key
    <3>1. /\ k \in Keys /\ Exists(k) /\ written' = written
          /\ req'[r].intent = req[r].intent
          /\ req'[r].revision = event[k].revision
          /\ req'[r].answers = event[k].answers
      BY <1>0, <1>4, <2>1, IntentType DEF Reads, Keeps
    <3>2. /\ event[k].revision = Len(written[k]) /\ event[k].revision # 0
          /\ event[k].answers = written[k][event[k].revision]
      BY <1>0, <3>1 DEF HistoryInv, Exists
    <3>3. Len(written[k]) \in Nat /\ DOMAIN written[k] = 1 .. Len(written[k])
      BY <1>0, <3>1 DEF TypeOK
    <3>4. event[k].revision \in DOMAIN written[k]
      BY <3>2, <3>3
    <3> QED BY <3>1, <3>2, <3>4
  <2>2. CASE TakesEvent(r) \/ Evaluates(r) \/ PassesCheck(r)
    <3>1. InHand(r) /\ KeepsRead(r) /\ req'[r].intent = req[r].intent
      BY <1>0, <1>4, <2>2
         DEF StageInv, TakesEvent, Evaluates, PassesCheck, Keeps, Generates
    <3> QED BY <1>1, <1>2, <3>1
  <2>3. CASE ~Reads(r) /\ ~TakesEvent(r) /\ ~Evaluates(r) /\ ~PassesCheck(r)
    BY <1>4, <2>3
       DEF QuietMove, Arrives, TakesKey, PassesCreate, EndsCreate, ShowsFirst,
           EndsWithNothing, Keeps, Generates
  <2> QED BY <2>1, <2>2, <2>3
<1>5. ASSUME NEW r \in Requests, QuietMove(r) PROVE Others(r)
  BY <1>5 DEF QuietMove, Arrives, TakesKey, PassesCreate, EndsCreate,
              TakesEvent, Reads, Evaluates, PassesCheck, ShowsFirst,
              EndsWithNothing, Keeps
<1>6. ASSUME NEW r \in Requests, Others(r), req'[r].pc = "done",
             NEW s \in Requests, InHand(s)'
      PROVE  Known(s)'
  BY <1>3, <1>6 DEF Others
<1>7. \A r \in Requests : InHand(r)' => Known(r)'
  <2> SUFFICES ASSUME NEW s \in Requests, InHand(s)' PROVE Known(s)'
    OBVIOUS
  <2>1. CASE UNCHANGED req
    BY <1>3, <2>1
  <2>2. ASSUME NEW r \in Requests, UNCHANGED <<day, event, plans, written>>,
               QuietMove(r)
        PROVE  Known(s)'
    BY <1>3, <1>4, <1>5, <2>2 DEF Others
  <2>3. ASSUME NEW r \in Requests,
               \/ CreatesEvent(r)
               \/ \E a \in Answers : Edits(r, a)
               \/ \E p \in Plan : Stores(r, p)
        PROVE  Known(s)'
    BY ZenonT(40), <1>6, <2>3 DEF CreatesEvent, Edits, Stores, Keeps
  <2> QED BY <2>1, <2>2, <2>3, StepCases
<1> QED BY <1>7 DEF ReadInv

LEMMA PinStep ==
    ASSUME IInv, [Next]_vars PROVE PlanPinsItsIntake'
<1>0. TypeOK /\ PlanPinsItsIntake /\ ReadInv
  BY DEF IInv
<1> SUFFICES ASSUME NEW k \in Keys, NEW i \in DOMAIN plans'[k]
             PROVE  /\ plans'[k][i].revision \in DOMAIN written'[k]
                    /\ plans'[k][i].answers =
                           written'[k][plans'[k][i].revision]
  BY DEF PlanPinsItsIntake
<1>1. ASSUME i \in DOMAIN plans[k], plans'[k][i] = plans[k][i]
      PROVE  /\ plans'[k][i].revision \in DOMAIN written'[k]
             /\ plans'[k][i].answers = written'[k][plans'[k][i].revision]
  BY <1>0, <1>1, HistoryGrows DEF PlanPinsItsIntake
<1>2. CASE UNCHANGED plans
  BY <1>1, <1>2
<1>3. ASSUME NEW r \in Requests, NEW p \in Plan, Stores(r, p)
      PROVE  /\ plans'[k][i].revision \in DOMAIN written'[k]
             /\ plans'[k][i].answers = written'[k][plans'[k][i].revision]
  <2>1. CASE req[r].intent.key # k
    BY <1>0, <1>1, <1>3, <2>1, StoredPlan
  <2>2. CASE req[r].intent.key = k /\ i \in 1 .. Len(plans[k])
    BY <1>0, <1>1, <1>3, <2>2, StoredPlan
  <2>3. CASE req[r].intent.key = k /\ i = Len(plans[k]) + 1
    <3>1. plans'[k][i] = p
      BY <1>0, <1>3, <2>3, StoredPlan
    <3>2. p.revision \in DOMAIN written[k] /\ p.answers = written[k][p.revision]
      BY <1>0, <1>3, <2>3 DEF Stores, ReadInv
    <3> QED BY <3>1, <3>2, HistoryGrows
  <2>4. req[r].intent.key = k =>
            i \in 1 .. Len(plans[k]) \/ i = Len(plans[k]) + 1
    <3>1. ASSUME req[r].intent.key = k
          PROVE  i \in 1 .. Len(plans[k]) + 1 /\ Len(plans[k]) \in Nat
      BY <1>0, <1>3, <3>1, StoredPlan
    <3> QED BY <3>1
  <2> QED BY <2>1, <2>2, <2>3, <2>4
<1> QED BY ZenonT(40), <1>2, <1>3, StepCases DEF CreatesEvent, Edits

(* An event, once there, stays, and keeps the text that made it.           *)
LEMMA EventsStay ==
    ASSUME IInv, [Next]_vars, NEW k \in Keys, Exists(k)
    PROVE  Exists(k)' /\ event'[k].body = event[k].body
<1>0. TypeOK /\ event[k].revision \in Nat
  BY DEF IInv, TypeOK, Event
<1>1. ASSUME NEW r \in Requests, CreatesEvent(r)
      PROVE  event'[k] = event[k]
  BY <1>0, <1>1, CreatedEvent DEF CreatesEvent
<1>2. ASSUME NEW r \in Requests, NEW a \in Answers, Edits(r, a)
      PROVE  Exists(k)' /\ event'[k].body = event[k].body
  <2>1. CASE req[r].intent.key = k
    BY <1>0, <1>2, <2>1, EditedEvent DEF Exists
  <2>2. CASE req[r].intent.key # k
    BY <1>0, <1>2, <2>2, EditedEvent DEF Exists
  <2> QED BY <2>1, <2>2
<1> QED BY <1>1, <1>2, StepCases DEF Exists, Stores

(* ... and a new one is the work of a create that held its key.            *)
LEMMA NewEvents ==
    ASSUME IInv, [Next]_vars, NEW k \in Keys, ~Exists(k), Exists(k)'
    PROVE  \E r \in Requests :
              /\ CreatesEvent(r) /\ req[r].intent.key = k
              /\ event'[k].body = req[r].intent.body
<1>0. TypeOK
  BY DEF IInv
<1>1. ASSUME NEW r \in Requests, NEW a \in Answers, Edits(r, a)
      PROVE  FALSE
  <2>1. req[r].intent.key # k
    BY <1>1 DEF Edits
  <2> QED BY <1>0, <1>1, <2>1, EditedEvent DEF Exists
<1>2. ASSUME NEW r \in Requests, CreatesEvent(r)
      PROVE  req[r].intent.key = k /\ event'[k].body = req[r].intent.body
  BY <1>0, <1>2, CreatedEvent DEF Exists
<1> QED BY <1>1, <1>2, StepCases DEF Exists, Stores

(* Only a create that the database was asked about becomes checked.        *)
LEMMA CheckedCreates ==
    ASSUME IInv, [Next]_vars, NEW s \in Requests,
           req'[s].intent.kind = "create", req'[s].pc = "checked"
    PROVE  /\ req'[s].intent = req[s].intent
           /\ req[s].pc \in {"locked", "checked"}
           /\ req[s].pc = "locked" =>
                 /\ UNCHANGED <<day, event, plans, written>>
                 /\ Valid(IntakeOf[req[s].intent.body])
                 /\ ~Exists(req[s].intent.key)
<1>1. ASSUME NEW r \in Requests, Others(r), req'[r].pc = "done"
      PROVE  req'[s] = req[s]
  BY <1>1 DEF Others
<1>2. ASSUME NEW r \in Requests, UNCHANGED <<day, event, plans, written>>,
             QuietMove(r)
      PROVE  \/ req'[s] = req[s]
             \/ /\ PassesCreate(s)
                /\ UNCHANGED <<day, event, plans, written>>
  BY <1>2 DEF QuietMove, Arrives, TakesKey, PassesCreate, EndsCreate,
              TakesEvent, Reads, Evaluates, PassesCheck, ShowsFirst,
              EndsWithNothing, Keeps, Others, Generates
<1>3. \/ req'[s] = req[s]
      \/ PassesCreate(s) /\ UNCHANGED <<day, event, plans, written>>
  BY ZenonT(40), <1>1, <1>2, StepCases DEF CreatesEvent, Edits, Stores, Keeps
<1> QED BY <1>3 DEF PassesCreate, Keeps

LEMMA CreateStep ==
    ASSUME IInv, [Next]_vars PROVE CreateInv'
<1>0. TypeOK /\ CreateInv /\ LockInv
  BY DEF IInv
<1> SUFFICES ASSUME NEW s \in Requests, req'[s].intent.kind = "create",
                    req'[s].pc = "checked", Exists(req[s].intent.key)'
             PROVE  FALSE
  BY DEF CreateInv
<1> DEFINE k == req[s].intent.key
<1>1. /\ req'[s].intent = req[s].intent /\ k \in Keys
      /\ req[s].pc \in {"locked", "checked"} /\ Exists(k)'
  BY <1>0, CheckedCreates, IntentType
<1>2. ~Exists(k)
  BY <1>0, <1>1, CheckedCreates DEF CreateInv
<1>3. PICK r \in Requests : CreatesEvent(r) /\ req[r].intent.key = k
  BY <1>1, <1>2, NewEvents
<1>4. r = s
  BY <1>0, <1>1, <1>3 DEF LockInv, HoldsKey, InTransaction, CreatesEvent
<1> QED BY <1>3, <1>4 DEF CreatesEvent

LEMMA RejectStep ==
    ASSUME IInv, [Next]_vars PROVE RejectInv'
<1>0. TypeOK /\ RejectInv /\ LockInv
  BY DEF IInv
<1> SUFFICES ASSUME NEW r \in Requests, Rejected(r)'
             PROVE  /\ ~Valid(IntakeOf[req[r].intent.body])'
                    /\ Exists(req[r].intent.key)' =>
                          event'[req'[r].intent.key].body # req'[r].intent.body
                    /\ \A s \in Requests :
                          req'[s].intent.kind = "create" /\ req'[s].pc = "checked"
                          /\ req'[s].intent.key = req'[r].intent.key =>
                              req'[s].intent.body # req'[r].intent.body
  BY DEF RejectInv
<1> DEFINE k == req[r].intent.key
           body == req[r].intent.body
<1>1. day \in Nat /\ day' \in {day, day + 1}
  BY ZenonT(40), <1>0, StepCases DEF TypeOK, CreatesEvent, Edits, Stores
(* It was rejected before, or is now, holding the key's lock.              *)
<1>2. /\ req'[r].intent = req[r].intent
      /\ \/ Rejected(r)
         \/ /\ HoldsKey(r) /\ ~Exists(k) /\ ~Valid(IntakeOf[body])
            /\ UNCHANGED <<day, event, plans, written>>
  <2>1. ASSUME NEW q \in Requests, UNCHANGED <<day, event, plans, written>>,
               QuietMove(q)
        PROVE  req'[r] = req[r] \/ EndsCreate(r)
    BY <2>1 DEF QuietMove, Arrives, TakesKey, PassesCreate, EndsCreate,
                TakesEvent, Reads, Evaluates, PassesCheck, ShowsFirst,
                EndsWithNothing, Keeps, Others, Rejected, Answered
  <2>2. ASSUME NEW q \in Requests,
               \/ CreatesEvent(q)
               \/ \E a \in Answers : Edits(q, a)
               \/ \E p \in Plan : Stores(q, p)
        PROVE  req'[r] = req[r]
    BY ZenonT(40), <2>2 DEF CreatesEvent, Edits, Stores, Keeps, Others, Rejected, Answered
  <2>3. CASE req'[r] = req[r]
    BY <2>3 DEF Rejected, Answered
  <2>4. CASE EndsCreate(r) /\ UNCHANGED <<day, event, plans, written>>
    BY <2>4 DEF EndsCreate, Keeps, Rejected, Answered, HoldsKey, InTransaction
  <2> QED BY <2>1, <2>2, <2>3, <2>4, StepCases
<1>3. k \in Keys /\ IntakeOf[body] \in Answers /\ body \in Bodies
  BY <1>0, IntentType
<1>4. ~Valid(IntakeOf[body]) /\ (Exists(k) => event[k].body # body)
  BY <1>0, <1>2 DEF RejectInv
<1>5. LastDay[IntakeOf[body]] \in Nat
  BY <1>3, RequestsAssumption
<1>6. ~Valid(IntakeOf[body])'
  BY <1>1, <1>2, <1>4, <1>5 DEF Valid
(* Nobody who holds the key is about to insert the text.                   *)
<1>7. ASSUME NEW s \in Requests, req[s].intent.kind = "create",
             req[s].pc = "checked", req[s].intent.key = k
      PROVE  req[s].intent.body # body
  <2>1. CASE Rejected(r)
    BY <1>0, <1>7, <2>1 DEF RejectInv
  <2>2. CASE HoldsKey(r) /\ UNCHANGED <<day, event, plans, written>>
    <3>1. s = r
      BY <1>0, <1>7, <2>2 DEF LockInv, HoldsKey, InTransaction
    <3>2. req'[r].pc = "done" /\ req[r].pc = "checked"
      BY <1>7, <3>1 DEF Rejected, Answered
    <3>3. ASSUME NEW q \in Requests, QuietMove(q)
          PROVE  ~(req'[r].pc = "done" /\ req'[r].answer = "invalid")
      BY <1>2, <1>7, <3>1, <3>2, <3>3
         DEF QuietMove, Arrives, TakesKey, PassesCreate, EndsCreate,
             TakesEvent, Reads, Evaluates, PassesCheck, ShowsFirst,
             EndsWithNothing, Keeps, Others
    <3>4. ASSUME NEW q \in Requests,
                 \/ CreatesEvent(q)
                 \/ \E a \in Answers : Edits(q, a)
                 \/ \E p \in Plan : Stores(q, p)
          PROVE  ~(req'[r].pc = "done" /\ req'[r].answer = "invalid")
      BY ZenonT(40), <3>2, <3>4 DEF CreatesEvent, Edits, Stores, Keeps, Others
    <3> QED BY <3>2, <3>3, <3>4, StepCases DEF Rejected, Answered
  <2> QED BY <1>2, <2>1, <2>2
<1>8. Exists(k)' => event'[k].body # body
  <2>1. CASE Exists(k)
    BY <1>2, <1>3, <1>4, <2>1, EventsStay
  <2>2. CASE ~Exists(k) /\ Exists(k)'
    <3>1. PICK q \in Requests :
             /\ CreatesEvent(q) /\ req[q].intent.key = k
             /\ event'[k].body = req[q].intent.body
      BY <1>2, <1>3, <2>2, NewEvents
    <3> QED BY <1>2, <1>7, <3>1 DEF CreatesEvent
  <2> QED BY <2>1, <2>2
<1>9. ASSUME NEW s \in Requests, req'[s].intent.kind = "create",
             req'[s].pc = "checked", req'[s].intent.key = k
      PROVE  req'[s].intent.body # body
  BY <1>4, <1>7, <1>9, CheckedCreates
<1> QED BY <1>2, <1>6, <1>8, <1>9

LEMMA OnceStep ==
    ASSUME IInv, [Next]_vars PROVE CreateHappensOnce'
<1>0. TypeOK /\ CreateHappensOnce
  BY DEF IInv
<1> DEFINE Told(r) == /\ Answered(r, "create")
                      /\ req[r].answer \in {"created", "replayed"}
           Seen(r) == /\ Exists(req[r].intent.key)
                      /\ event[req[r].intent.key].body = req[r].intent.body
<1>1. \A r \in Requests : Told(r) => Seen(r)
  BY <1>0 DEF CreateHappensOnce
(* A create that is told so now either made the event or found it.         *)
<1>2. ASSUME NEW r \in Requests, Told(r)'
      PROVE  /\ req'[r].intent = req[r].intent
             /\ \/ req'[r] = req[r] /\ Told(r)
                \/ req'[r].answer = "replayed" /\ Seen(r)
                \/ CreatesEvent(r)
  <2>1. ASSUME NEW q \in Requests, UNCHANGED <<day, event, plans, written>>,
               QuietMove(q)
        PROVE  req'[r] = req[r] \/ EndsCreate(r)
    BY <1>2, <2>1
       DEF QuietMove, Arrives, TakesKey, PassesCreate, EndsCreate,
           TakesEvent, Reads, Evaluates, PassesCheck, ShowsFirst,
           EndsWithNothing, Keeps, Others, Answered
  <2>2. ASSUME NEW q \in Requests,
               \/ CreatesEvent(q)
               \/ \E a \in Answers : Edits(q, a)
               \/ \E p \in Plan : Stores(q, p)
        PROVE  req'[r] = req[r] \/ CreatesEvent(r)
    BY ZenonT(40), <1>2, <2>2 DEF CreatesEvent, Edits, Stores, Keeps, Others, Answered
  <2>3. CASE req'[r] = req[r]
    BY <1>2, <2>3 DEF Answered
  <2>4. CASE EndsCreate(r)
    BY <1>2, <2>4 DEF EndsCreate, BodyMatches, Keeps, Answered
  <2>5. CASE CreatesEvent(r)
    BY <2>5 DEF CreatesEvent, Keeps
  <2> QED BY <2>1, <2>2, <2>3, <2>4, <2>5, StepCases
<1>3. ASSUME NEW r \in Requests, Told(r)'
      PROVE  Seen(r)'
  <2>1. CASE CreatesEvent(r)
    BY <1>0, <1>2, <1>3, <2>1, CreatedEvent, IntentType DEF Exists
  <2>2. CASE Seen(r)
    BY <1>0, <1>2, <1>3, <2>2, EventsStay, IntentType
  <2> QED BY <1>1, <1>2, <1>3, <2>1, <2>2
<1>4. ASSUME NEW r \in Requests, NEW s \in Requests, Made(r)', Made(s)',
             req'[r].intent.key = req'[s].intent.key
      PROVE  r = s
  <2>1. ASSUME NEW q \in Requests, Made(q)'
        PROVE  /\ req'[q].intent = req[q].intent
               /\ (Made(q) /\ Seen(q)) \/ CreatesEvent(q)
    <3>1. Told(q)'
      BY <2>1 DEF Made
    <3> QED BY <1>1, <1>2, <2>1, <3>1 DEF Made
  <2>2. CASE Made(r) /\ Made(s)
    BY <1>0, <1>4, <2>1, <2>2 DEF CreateHappensOnce
  <2>3. CASE CreatesEvent(r) /\ CreatesEvent(s)
    BY <2>3 DEF CreatesEvent, Keeps, Others
  <2>4. ASSUME NEW q \in Requests, NEW t \in Requests, CreatesEvent(q),
               Seen(t), req[q].intent.key = req[t].intent.key
        PROVE  FALSE
    BY <2>4 DEF CreatesEvent
  <2> QED BY <1>4, <2>1, <2>2, <2>3, <2>4
<1> QED BY <1>3, <1>4 DEF CreateHappensOnce

----------------------------------------------------------------------------
(* The order of the plans and what follows from it.                        *)

LEMMA OrderStep ==
    ASSUME IInv, [Next]_vars PROVE PlansAreInOrder'
<1>0. TypeOK /\ PlansAreInOrder
  BY DEF IInv
<1>1. CASE UNCHANGED plans
  BY <1>0, <1>1 DEF PlansAreInOrder
<1>2. ASSUME NEW r \in Requests, NEW p \in Plan, Stores(r, p)
      PROVE  PlansAreInOrder'
  <2> DEFINE k == req[r].intent.key
             n == Len(plans[k])
  <2> SUFFICES ASSUME NEW j \in Keys, NEW x \in DOMAIN plans'[j],
                      NEW y \in DOMAIN plans'[j], x < y
               PROVE  plans'[j][x].at < plans'[j][y].at
    BY DEF PlansAreInOrder
  <2>1. CASE j # k
    BY <1>0, <1>2, <2>1, StoredPlan DEF PlansAreInOrder
  <2>2. CASE j = k
    <3>1. /\ n \in Nat /\ DOMAIN plans[k] = 1 .. n
          /\ DOMAIN plans'[k] = 1 .. n + 1 /\ plans'[k][n + 1] = p
          /\ \A i \in 1 .. n : plans'[k][i] = plans[k][i]
      BY <1>0, <1>2, StoredPlan
    <3>2. \A i \in 1 .. n : plans[k][i].at < p.at
      <4> \A i \in DOMAIN plans[k] : plans[k][i].at < p.at
        BY <1>2 DEF Stores
      <4> QED BY <3>1
    <3>3. \A i, l \in 1 .. n : i < l => plans[k][i].at < plans[k][l].at
      <4> k \in Keys
        BY <1>0, IntentType
      <4> HIDE DEF k, n
      <4> QED BY <1>0, <3>1 DEF PlansAreInOrder
    <3>4. x \in 1 .. n + 1 /\ y \in 1 .. n + 1 /\ x < y
      BY <2>2, <3>1
    <3>5. plans'[k][x].at < plans'[k][y].at
      <4> HIDE DEF k, n
      <4>1. x \in 1 .. n /\ (y \in 1 .. n \/ y = n + 1)
        BY <3>1, <3>4
      <4> QED BY <3>1, <3>2, <3>3, <3>4, <4>1
    <3> QED BY <2>2, <3>5
  <2> QED BY <2>1, <2>2
<1> QED BY ZenonT(40), <1>1, <1>2, StepCases DEF CreatesEvent, Edits

LEMMA VersionStep ==
    ASSUME IInv, [Next]_vars PROVE RulesetNeverGoesBack'
<1>0. TypeOK /\ PlansAreInOrder /\ RulesetNeverGoesBack /\ CheckedInv
  BY DEF IInv
<1>1. CASE UNCHANGED plans
  BY <1>0, <1>1 DEF RulesetNeverGoesBack
<1>2. ASSUME NEW r \in Requests, NEW p \in Plan, Stores(r, p)
      PROVE  RulesetNeverGoesBack'
  <2> DEFINE k == req[r].intent.key
             n == Len(plans[k])
  <2> SUFFICES ASSUME NEW j \in Keys, NEW x \in DOMAIN plans'[j],
                      NEW y \in DOMAIN plans'[j], x < y
               PROVE  MaySupersede(plans'[j][y].version, plans'[j][x].version)
    BY DEF RulesetNeverGoesBack
  <2>1. CASE j # k
    BY <1>0, <1>2, <2>1, StoredPlan DEF RulesetNeverGoesBack
  <2>2. CASE j = k
    <3>1. /\ n \in Nat /\ DOMAIN plans[k] = 1 .. n
          /\ DOMAIN plans'[k] = 1 .. n + 1 /\ plans'[k][n + 1] = p
          /\ \A i \in 1 .. n : plans'[k][i] = plans[k][i]
      BY <1>0, <1>2, StoredPlan
    <3>2. CASE y \in 1 .. n
      <4>1. x \in 1 .. n /\ k \in Keys
        BY <1>0, <2>2, <3>1, <3>2, IntentType
      <4>2. MaySupersede(plans[k][y].version, plans[k][x].version)
        BY <1>0, <3>1, <3>2, <4>1 DEF RulesetNeverGoesBack
      <4> QED BY <2>2, <3>1, <3>2, <4>1, <4>2
    <3>3. CASE y = n + 1
      <4>1. x \in 1 .. n /\ plans[k] # <<>> /\ k \in Keys
        BY <1>0, <2>2, <3>1, <3>3, IntentType
      <4>2. LatestPlan(k) = plans[k][n]
        BY <1>0, <4>1, FirstAndLatest
      <4>3. MaySupersede(p.version, plans[k][n].version)
        BY <1>0, <1>2, <4>1, <4>2 DEF Stores, CheckedInv, Downgrades
      <4>4. /\ p.version \in Versions
            /\ \A i \in 1 .. n : plans[k][i].version \in Versions
        <5>1. \A q \in Plan : q.version \in Versions
          BY DEF Plan
        <5>2. \A i \in 1 .. n : plans[k][i] \in Plan
          BY <1>0, <3>1, <4>1 DEF TypeOK
        <5> QED BY <5>1, <5>2
      <4>5. CASE x = n
        BY ZenonT(40), <2>2, <3>1, <3>3, <4>1, <4>3, <4>5
      <4>6. CASE x < n
        <5>1. MaySupersede(plans[k][n].version, plans[k][x].version)
          BY <1>0, <3>1, <4>1, <4>6 DEF RulesetNeverGoesBack
        <5>2. n \in 1 .. n
          BY <3>1, <4>1
        <5>3. MaySupersede(p.version, plans[k][x].version)
          BY ZenonT(40), <4>1, <4>3, <4>4, <5>1, <5>2, SupersedesIsAnOrder
        <5> QED BY <2>2, <3>1, <3>3, <4>1, <5>3
      <4> QED BY <3>1, <4>1, <4>5, <4>6
    <3> QED BY SMTT(30), <2>2, <3>1, <3>2, <3>3
  <2> QED BY <2>1, <2>2
<1> QED BY ZenonT(40), <1>1, <1>2, StepCases DEF CreatesEvent, Edits

LEMMA CheckedStep ==
    ASSUME IInv, [Next]_vars PROVE CheckedInv'
<1>0. TypeOK /\ CheckedInv /\ LockInv
  BY DEF IInv
<1> SUFFICES ASSUME NEW s \in Requests, Generates(s)', req'[s].pc = "checked"
             PROVE  ~Downgrades(s)' /\ ~AlreadyPlanned(s)'
  BY DEF CheckedInv
<1> DEFINE k == req[s].intent.key
(* It passed the check now, or was past it and nobody else could write.    *)
<1>1. \/ req'[s] = req[s]
      \/ PassesCheck(s) /\ UNCHANGED plans
  <2>1. ASSUME NEW q \in Requests, UNCHANGED <<day, event, plans, written>>,
               QuietMove(q)
        PROVE  req'[s] = req[s] \/ PassesCheck(s)
    BY <2>1 DEF QuietMove, Arrives, TakesKey, PassesCreate, EndsCreate,
                TakesEvent, Reads, Evaluates, PassesCheck, ShowsFirst,
                EndsWithNothing, Keeps, Others, Generates
  <2>2. ASSUME NEW q \in Requests,
               \/ CreatesEvent(q)
               \/ \E a \in Answers : Edits(q, a)
               \/ \E p \in Plan : Stores(q, p)
        PROVE  req'[s] = req[s]
    BY ZenonT(40), <2>2 DEF CreatesEvent, Edits, Stores, Keeps, Others
  <2> QED BY <2>1, <2>2, StepCases
<1>2. req'[s].intent = req[s].intent /\ k \in Keys /\ Generates(s)
  BY <1>0, <1>1, IntentType DEF PassesCheck, Keeps, Generates
<1>3. plans'[k] = plans[k]
  <2>1. ASSUME NEW r \in Requests, NEW p \in Plan, Stores(r, p),
               req'[s] = req[s]
        PROVE  plans'[k] = plans[k]
    <3>1. r # s
      BY <2>1 DEF Stores
    <3>2. req[r].intent.key # k
      BY <1>0, <1>2, <2>1, <3>1
         DEF LockInv, HoldsEvent, InTransaction, Stores, Generates
    <3> QED BY <1>0, <1>2, <2>1, <3>2, StoredPlan
  <2>2. ASSUME UNCHANGED plans PROVE plans'[k] = plans[k]
    BY <2>2
  <2> QED BY ZenonT(40), <1>1, <2>1, <2>2, StepCases DEF CreatesEvent, Edits
<1>4. ~Downgrades(s) /\ ~AlreadyPlanned(s)
  BY <1>0, <1>1, <1>2 DEF CheckedInv, PassesCheck
<1> QED BY ZenonT(40), <1>2, <1>3, <1>4 DEF Downgrades, AlreadyPlanned, LatestPlan

LEMMA NextFirst ==
    ASSUME TypeOK', PlansAreInOrder', NEW k \in Keys, plans'[k] # <<>>
    PROVE  FirstPlan(k)' = plans'[k][1]
<1>1. /\ plans'[k] \in Seq(Plan)
      /\ \A i, j \in DOMAIN plans'[k] : i < j => plans'[k][i].at < plans'[k][j].at
  BY DEF TypeOK, PlansAreInOrder
<1> QED BY <1>1, OrderedEnds DEF FirstPlan

LEMMA FirstStep ==
    ASSUME IInv, [Next]_vars PROVE OneFirstPlan'
<1>0. TypeOK /\ PlansAreInOrder /\ OneFirstPlan /\ CheckedInv /\ TypeOK'
      /\ PlansAreInOrder'
  BY TypeStep, OrderStep DEF IInv
<1> DEFINE Shown(s) == /\ Answered(s, "first")
                       /\ req[s].answer \in {"stored", "existing"}
(* A plan that is the first stays the first.                               *)
<1>1. ASSUME NEW k \in Keys, plans[k] # <<>>
      PROVE  plans'[k] # <<>> /\ FirstPlan(k)' = FirstPlan(k)
  <2>1. ASSUME UNCHANGED plans
        PROVE  plans'[k] # <<>> /\ FirstPlan(k)' = FirstPlan(k)
    BY <1>1, <2>1 DEF FirstPlan
  <2>2. ASSUME NEW r \in Requests, NEW p \in Plan, Stores(r, p)
        PROVE  plans'[k] # <<>> /\ FirstPlan(k)' = FirstPlan(k)
    <3>1. CASE req[r].intent.key # k
      <4>1. plans'[k] = plans[k]
        BY <1>0, <2>2, <3>1, StoredPlan
      <4> QED BY <1>1, <4>1 DEF FirstPlan
    <3>2. CASE req[r].intent.key = k
      <4>1. Len(plans[k]) \in Nat \ {0} /\ FirstPlan(k) = plans[k][1]
        BY <1>0, <1>1, FirstAndLatest
      <4>2. plans'[k] # <<>> /\ plans'[k][1] = plans[k][1]
        BY <1>0, <2>2, <3>2, <4>1, StoredPlan
      <4>3. FirstPlan(k)' = plans'[k][1]
        BY <1>0, <4>2, NextFirst
      <4> QED BY <4>1, <4>2, <4>3
    <3> QED BY <3>1, <3>2
  <2> QED BY ZenonT(40), <2>1, <2>2, StepCases DEF CreatesEvent, Edits
<1> SUFFICES ASSUME NEW s \in Requests, Shown(s)'
             PROVE  /\ plans'[req'[s].intent.key] # <<>>
                    /\ req'[s].plan = FirstPlan(req[s].intent.key)'.id
  BY DEF OneFirstPlan
<1> DEFINE k == req[s].intent.key
<1>2. \/ req'[s] = req[s]
      \/ ShowsFirst(s) /\ UNCHANGED plans
      \/ \E p \in Plan : Stores(s, p)
  <2>1. ASSUME NEW q \in Requests, UNCHANGED <<day, event, plans, written>>,
               QuietMove(q)
        PROVE  req'[s] = req[s] \/ ShowsFirst(s)
    BY <2>1 DEF QuietMove, Arrives, TakesKey, PassesCreate, EndsCreate,
                TakesEvent, Reads, Evaluates, PassesCheck, ShowsFirst,
                EndsWithNothing, Keeps, Others, Answered
  <2>2. ASSUME NEW q \in Requests,
               \/ CreatesEvent(q)
               \/ \E a \in Answers : Edits(q, a)
               \/ \E p \in Plan : Stores(q, p)
        PROVE  req'[s] = req[s] \/ \E p \in Plan : Stores(s, p)
    BY ZenonT(40), <2>2 DEF CreatesEvent, Edits, Stores, Keeps, Others, Answered
  <2> QED BY <2>1, <2>2, StepCases
<1>3. k \in Keys
  BY <1>0, IntentType
<1>4. CASE req'[s] = req[s]
  <2>1. plans[k] # <<>> /\ req[s].plan = FirstPlan(k).id
    BY <1>0, <1>4 DEF OneFirstPlan, Answered
  <2> QED BY <1>1, <1>3, <1>4, <2>1
<1>5. CASE ShowsFirst(s) /\ UNCHANGED plans
  <2>1. plans[k] # <<>> /\ req'[s].plan = FirstPlan(k).id
        /\ req'[s].intent = req[s].intent
    BY <1>5 DEF ShowsFirst, AlreadyPlanned, Keeps
  <2> QED BY <1>1, <1>3, <2>1
<1>6. ASSUME NEW p \in Plan, Stores(s, p)
      PROVE  plans'[k] # <<>> /\ req'[s].plan = FirstPlan(k)'.id
             /\ req'[s].intent = req[s].intent
  <2>1. /\ req'[s].intent = req[s].intent /\ req[s].intent.kind = "first"
        /\ req'[s].plan = s /\ p.id = s
    BY <1>6 DEF Stores, Keeps, Answered
  <2>2. plans[k] = <<>>
    BY <1>0, <1>6, <2>1 DEF CheckedInv, AlreadyPlanned, Stores
  <2>3. Len(plans[k]) = 0
    BY <2>2
  <2>4. plans'[k] # <<>> /\ plans'[k][1] = p
    BY <1>0, <1>6, <2>3, StoredPlan
  <2>5. FirstPlan(k)' = plans'[k][1]
    BY <1>0, <1>3, <2>1, <2>4, NextFirst
  <2> QED BY <2>1, <2>4, <2>5
<1> QED BY <1>2, <1>4, <1>5, <1>6

----------------------------------------------------------------------------
(* The theorems.                                                           *)

LEMMA InitInv == Init => IInv
<1> SUFFICES ASSUME Init PROVE IInv
  OBVIOUS
<1>1. /\ (CHOOSE b \in Bodies : TRUE) \in Bodies
      /\ (CHOOSE a \in Answers : TRUE) \in Answers
      /\ (CHOOSE i \in Intents : TRUE) \in Intents
  BY RequestsAssumption
<1>2. /\ \A k \in Keys : plans[k] = <<>> /\ written[k] = <<>> /\ ~Exists(k)
      /\ \A k \in Keys : event[k].revision = 0
      /\ \A r \in Requests : req[r].pc = "new"
  BY DEF Init, Exists
<1>3. TypeOK
  <2>1. event \in [Keys -> Event]
    BY <1>1 DEF Init, Event
  <2>2. req \in [Requests -> Request]
    BY <1>1 DEF Init, Request, Answer
  <2>3. plans \in [Keys -> Seq(Plan)] /\ written \in [Keys -> Seq(Answers)]
    BY DEF Init
  <2> QED BY <2>1, <2>2, <2>3 DEF TypeOK, Init
<1>4. StageInv /\ LockInv /\ ReadInv /\ CreateInv /\ CheckedInv
  BY <1>2 DEF StageInv, LockInv, HoldsKey, HoldsEvent, InTransaction, ReadInv,
              CreateInv, CheckedInv
<1>5. HistoryInv
  BY <1>2 DEF HistoryInv
<1>6. PlanPinsItsIntake /\ PlansAreInOrder /\ RulesetNeverGoesBack
  <2> \A k \in Keys : DOMAIN plans[k] = {}
    BY <1>2
  <2> QED BY DEF PlanPinsItsIntake, PlansAreInOrder, RulesetNeverGoesBack
<1>7. RejectInv /\ CreateHappensOnce /\ OneFirstPlan
  BY <1>2 DEF RejectInv, Rejected, CreateHappensOnce, Made, OneFirstPlan, Answered
<1> QED BY <1>3, <1>4, <1>5, <1>6, <1>7 DEF IInv

LEMMA NextInv == IInv /\ [Next]_vars => IInv'
<1> SUFFICES ASSUME IInv, [Next]_vars PROVE IInv'
  OBVIOUS
<1> QED BY TypeStep, StageStep, LockStep, HistoryStep, ReadStep, PinStep,
           CreateStep, RejectStep, OnceStep, OrderStep, CheckedStep,
           VersionStep, FirstStep DEF IInv

LEMMA Invariance == Spec => []IInv
BY InitInv, NextInv, PTL DEF Spec

(* The tables, the requests and the history keep their types.              *)
THEOREM TypesHold == Spec => []TypeOK
<1> IInv => TypeOK
  BY DEF IInv
<1> QED BY Invariance, PTL

(* A create that was rejected stays out: the sender may drop the key.      *)
THEOREM RejectionIsFinal == Spec => []RejectedStaysOut
<1> IInv => RejectedStaysOut
  BY DEF IInv, RejectInv, Rejected, RejectedStaysOut
<1> QED BY Invariance, PTL

(* Of all the calls with one key at most one creates the event.            *)
THEOREM CreatedOnce == Spec => []CreateHappensOnce
<1> IInv => CreateHappensOnce
  BY DEF IInv
<1> QED BY Invariance, PTL

(* Every stored plan holds the answers of the revision it names.           *)
THEOREM PlansPinTheirIntake == Spec => []PlanPinsItsIntake
<1> IInv => PlanPinsItsIntake
  BY DEF IInv
<1> QED BY Invariance, PTL

(* A plan not shown as stale answers the event as it stands.               *)
THEOREM FreshPlansAreCurrent == Spec => []FreshPlanAnswersTheEvent
<1> SUFFICES ASSUME IInv PROVE FreshPlanAnswersTheEvent
  BY Invariance, PTL
<1>0. TypeOK /\ PlansAreInOrder /\ PlanPinsItsIntake /\ HistoryInv
  BY DEF IInv
<1> SUFFICES ASSUME NEW k \in Keys, plans[k] # <<>>, ~IsPlanStale(k)
             PROVE  LatestPlan(k).answers = event[k].answers
  BY DEF FreshPlanAnswersTheEvent
<1> DEFINE p == LatestPlan(k)
           n == Len(plans[k])
<1>1. n \in Nat \ {0} /\ p = plans[k][n] /\ p \in Plan
  BY <1>0, FirstAndLatest
<1>2. n \in DOMAIN plans[k]
  BY <1>0, <1>1 DEF TypeOK
<1>3. /\ p.revision \in DOMAIN written[k]
      /\ p.answers = written[k][p.revision]
  BY <1>0, <1>1, <1>2 DEF PlanPinsItsIntake
<1>4. /\ event[k].revision = Len(written[k]) /\ Len(written[k]) \in Nat
      /\ DOMAIN written[k] = 1 .. Len(written[k])
  BY <1>0 DEF HistoryInv, TypeOK
<1>5. ~(p.revision < event[k].revision)
  BY DEF IsPlanStale
<1>6. p.revision = event[k].revision /\ event[k].revision # 0
  <2> HIDE DEF p
  <2> QED BY <1>3, <1>4, <1>5
<1>7. event[k].answers = written[k][event[k].revision]
  BY <1>0, <1>6 DEF HistoryInv, Exists
<1> QED BY <1>3, <1>6, <1>7

(* The stamps of an event's plans follow the order of their commits.       *)
THEOREM PlansAreTotallyOrdered == Spec => []PlansAreInOrder
<1> IInv => PlansAreInOrder
  BY DEF IInv
<1> QED BY Invariance, PTL

(* No plan rests on an older or unrelated ruleset than an earlier one.     *)
THEOREM RulesetsGoForward == Spec => []RulesetNeverGoesBack
<1> IInv => RulesetNeverGoesBack
  BY DEF IInv
<1> QED BY Invariance, PTL

(* Every call that presents the create key is shown the same first plan.   *)
THEOREM FirstPlanIsShared == Spec => []OneFirstPlan
<1> IInv => OneFirstPlan
  BY DEF IInv
<1> QED BY Invariance, PTL

----------------------------------------------------------------------------
(* The ledger.                                                             *)

PinOf(p) == [revision |-> p.revision, answers |-> p.answers,
             version |-> p.version]
Pins(s) == [i \in DOMAIN s |-> PinOf(s[i])]

LEMMA PinsOfAppend ==
    ASSUME NEW s \in Seq(Plan), NEW p \in Plan
    PROVE  Pins(Append(s, p)) = Append(Pins(s), PinOf(p))
<1> DEFINE t == Append(s, p)
           n == Len(s)
           Pinned == {PinOf(q) : q \in Plan}
<1>1. /\ n \in Nat /\ DOMAIN s = 1 .. n /\ DOMAIN t = 1 .. n + 1
      /\ t[n + 1] = p /\ \A i \in 1 .. n : t[i] = s[i] /\ s[i] \in Plan
  BY AppendProperties, LenProperties, ElementOfSeq
<1>2. Pins(s) \in Seq(Pinned) /\ Len(Pins(s)) = n
  <2>1. Pins(s) \in [1 .. n -> Pinned]
    BY <1>1 DEF Pins
  <2> HIDE DEF Pinned, n
  <2>2. Pins(s) \in Seq(Pinned) /\ DOMAIN Pins(s) = 1 .. n
    BY <1>1, <2>1, SeqDef
  <2> QED BY <1>1, <2>2, LenProperties
<1>3. PinOf(p) \in Pinned
  OBVIOUS
<1> DEFINE u == Append(Pins(s), PinOf(p))
<1> HIDE DEF Pinned
<1>4. /\ DOMAIN u = 1 .. n + 1 /\ u[n + 1] = PinOf(p)
      /\ \A i \in 1 .. n : u[i] = Pins(s)[i]
      /\ u = [i \in 1 .. n + 1 |-> u[i]]
  <2>1. u \in Seq(Pinned) /\ Len(u) = n + 1 /\ u[n + 1] = PinOf(p)
        /\ \A i \in 1 .. n : u[i] = Pins(s)[i]
    BY <1>2, <1>3, AppendProperties
  <2>2. DOMAIN u = 1 .. n + 1 /\ u \in [1 .. n + 1 -> Pinned]
    BY <2>1, LenProperties
  <2>3. u = [i \in DOMAIN u |-> u[i]]
    BY <2>2
  <2> QED BY <2>1, <2>2, <2>3
<1>5. \A i \in 1 .. n : Pins(s)[i] = PinOf(s[i])
  BY <1>1 DEF Pins
<1>6. \A i \in 1 .. n + 1 : u[i] = PinOf(t[i])
  <2> HIDE DEF u, t, n
  <2> SUFFICES ASSUME NEW i \in 1 .. n + 1 PROVE u[i] = PinOf(t[i])
    OBVIOUS
  <2>1. CASE i = n + 1
    BY <1>1, <1>4, <2>1
  <2>2. CASE i \in 1 .. n
    BY <1>1, <1>4, <1>5, <2>2
  <2> QED BY <1>1, <2>1, <2>2
<1> HIDE DEF t, u, n
<1>7. Pins(t) = [i \in 1 .. n + 1 |-> u[i]]
  BY <1>1, <1>6 DEF Pins
<1> QED BY <1>4, <1>7 DEF t, u

LEMMA IssuedIsPins == issued = [k \in Keys |-> Pins(plans[k])]
BY DEF issued, Pins, PinOf

LEMMA NextIssuedIsPins == issued' = [k \in Keys |-> Pins(plans'[k])]
BY DEF issued, Pins, PinOf

LEMMA SameOrder ==
    ASSUME NEW v, NEW w
    PROVE  Ledger!MaySupersede(v, w) <=> MaySupersede(v, w)
BY DEF Ledger!MaySupersede, Ledger!compareToPinned, Ledger!Comparable,
       Ledger!Later, MaySupersede, compareToPinned, Comparable, Later

LEMMA CreateOpens ==
    ASSUME IInv, NEW r \in Requests, CreatesEvent(r)
    PROVE  Ledger!Open(req[r].intent.key)
<1> DEFINE k == req[r].intent.key
<1>0. TypeOK /\ HistoryInv
  BY DEF IInv
<1>1. k \in Keys /\ IntakeOf[req[r].intent.body] \in Answers
  BY <1>0, IntentType
<1>2. written[k] = <<>>
  <2>1. written[k] \in Seq(Answers) /\ Len(written[k]) = 0
    BY <1>0, <1>1 DEF CreatesEvent, Exists, HistoryInv, TypeOK
  <2> QED BY <2>1, EmptySeq
<1>3. UNCHANGED issued
  BY SMTT(30) DEF CreatesEvent, issued
<1> QED BY <1>1, <1>2, <1>3 DEF CreatesEvent, Ledger!Open

LEMMA EditRevises ==
    ASSUME IInv, NEW r \in Requests, NEW a \in Answers, Edits(r, a)
    PROVE  Ledger!Revise(req[r].intent.key)
<1> DEFINE k == req[r].intent.key
<1>0. TypeOK /\ HistoryInv
  BY DEF IInv
<1>1. k \in Keys
  BY <1>0, IntentType
<1>2. /\ event[k].revision # 0 /\ event[k].revision = Len(written[k])
      /\ event[k].answers = written[k][event[k].revision]
  BY <1>0, <1>1 DEF Edits, HistoryInv, Exists
<1>3. written[k] # <<>> /\ a # written[k][Len(written[k])]
  BY <1>2 DEF Edits
<1>4. UNCHANGED issued
  BY DEF Edits, issued
<1> QED BY <1>3, <1>4 DEF Edits, Ledger!Revise

LEMMA StoreIssues ==
    ASSUME IInv, NEW r \in Requests, NEW p \in Plan, Stores(r, p)
    PROVE  Ledger!Issue(req[r].intent.key)
<1> DEFINE k == req[r].intent.key
           n == p.revision
           v == p.version
<1>0. TypeOK /\ ReadInv /\ CheckedInv /\ PlansAreInOrder
  BY DEF IInv
<1>1. k \in Keys /\ v \in Versions
  BY <1>0, IntentType DEF Stores
<1>2. n \in DOMAIN written[k] /\ p.answers = written[k][n]
  BY <1>0 DEF Stores, ReadInv
<1>3. issued' = [issued EXCEPT ![k] = Append(@, PinOf(p))]
  <2>1. plans' = [plans EXCEPT ![k] = Append(@, p)]
    BY DEF Stores
  <2>2. plans \in [Keys -> Seq(Plan)] /\ plans[k] \in Seq(Plan)
    BY <1>0, <1>1 DEF TypeOK
  <2>3. Pins(plans'[k]) = Append(Pins(plans[k]), PinOf(p))
    BY <1>1, <2>1, <2>2, PinsOfAppend
  <2>4. \A j \in Keys : j # k => plans'[j] = plans[j]
    BY <2>1, <2>2
  <2> HIDE DEF k
  <2> QED BY <1>1, <2>3, <2>4, IssuedIsPins, NextIssuedIsPins
<1>4. PinOf(p) = [revision |-> n, answers |-> written[k][n], version |-> v]
  BY SMTT(30), <1>2 DEF PinOf
<1>5. issued[k] # <<>> => MaySupersede(v, issued[k][Len(issued[k])].version)
  <2> SUFFICES ASSUME issued[k] # <<>>
               PROVE  MaySupersede(v, issued[k][Len(issued[k])].version)
    OBVIOUS
  <2> DEFINE m == Len(plans[k])
  <2>1. /\ m \in Nat /\ DOMAIN plans[k] = 1 .. m
        /\ issued[k] = [i \in 1 .. m |-> PinOf(plans[k][i])]
    BY <1>0, <1>1, StoredPlan, IssuedIsPins DEF Pins
  <2>2. Len(issued[k]) = m /\ m # 0
    <3> HIDE DEF m, k
    <3> QED BY <2>1
  <2>3. plans[k] # <<>> /\ m \in 1 .. m
    BY <2>1, <2>2
  <2>4. LatestPlan(k) = plans[k][m]
    BY <1>0, <1>1, <2>3, FirstAndLatest
  <2>5. MaySupersede(v, plans[k][m].version)
    BY <1>0, <2>3, <2>4 DEF Stores, CheckedInv, Downgrades
  <2>6. issued[k][m].version = plans[k][m].version
    <3>1. PinOf(plans[k][m]).version = plans[k][m].version
      BY DEF PinOf
    <3> HIDE DEF m, k
    <3> QED BY <2>1, <2>3, <3>1
  <2> QED BY <2>2, <2>5, <2>6
<1>6. UNCHANGED written
  BY DEF Stores
<1> HIDE DEF n, v
<1>7. Ledger!Issue(k)
  <2> DEFINE pin == [revision |-> n, answers |-> written[k][n], version |-> v]
  <2>1. issued[k] # <<>> =>
           Ledger!MaySupersede(v, issued[k][Len(issued[k])].version)
    BY <1>5, SameOrder
  <2>2. issued' = [issued EXCEPT ![k] = Append(@, pin)]
    BY <1>3, <1>4
  <2> HIDE DEF k
  <2> QED BY <1>1, <1>2, <1>6, <2>1, <2>2 DEF Ledger!Issue
<1> QED BY <1>7

(* Whatever the requests interleave, the tables change as the ledger says: *)
(* every commit is one step of it, every other step changes nothing of it. *)
THEOREM RequestsImplementTheLedger == Spec => ImplementsLedger
<1>1. Init => Ledger!Init
  BY DEF Init, Ledger!Init, issued
<1>2. IInv /\ [Next]_vars => [Ledger!Next]_<<written, issued>>
  <2> SUFFICES ASSUME IInv, [Next]_vars
               PROVE  [Ledger!Next]_<<written, issued>>
    OBVIOUS
  <2>0. \A r \in Requests : req[r].intent.key \in Keys
    BY IntentType DEF IInv
  <2>1. ASSUME UNCHANGED <<plans, written>>
        PROVE  UNCHANGED <<written, issued>>
    BY <2>1 DEF issued
  <2>2. ASSUME NEW r \in Requests, CreatesEvent(r) PROVE Ledger!Next
    BY <2>0, <2>2, CreateOpens DEF Ledger!Next
  <2>3. ASSUME NEW r \in Requests, NEW a \in Answers, Edits(r, a)
        PROVE  Ledger!Next
    BY <2>0, <2>3, EditRevises DEF Ledger!Next
  <2>4. ASSUME NEW r \in Requests, NEW p \in Plan, Stores(r, p)
        PROVE  Ledger!Next
    BY <2>0, <2>4, StoreIssues DEF Ledger!Next
  <2> QED BY <2>1, <2>2, <2>3, <2>4, StepCases
<1> QED BY <1>1, <1>2, Invariance, PTL DEF Spec, ImplementsLedger, Ledger!Spec
=============================================================================
