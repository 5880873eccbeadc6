------------------------ MODULE CreateRecovery_proofs ------------------------
(***************************************************************************)
(* Proofs about CreateRecovery for any answers, number of visits, keys,    *)
(* changes and faults: no create is forgotten as long as no save outlives  *)
(* the next create of its tab, and the plan page never opens over answers  *)
(* that were typed meanwhile, whatever outlives what.                      *)
(***************************************************************************)
EXTENDS CreateRecovery, FiniteSetTheorems, TLAPS

RecoverySpec == RecoveryInit /\ [][RecoveryNext]_recoveryVars

KeyOrNone == Keys \cup {0}
Records == {NoPending} \cup [key : Keys, text : Texts, created : BOOLEAN]
VisitType ==
    [page : {"none", "new", "edit", "plan"}, of : KeyOrNone,
     step : {"gone", "shown", "saving", "planning", "checking", "loading",
             "missing", "ready", "unavailable", "generating", "rereading"},
     pending : Records, blocked : BOOLEAN, saved : KeyOrNone,
     current : Texts, typed : Texts, submitted : Texts, retry : BOOLEAN,
     creating : BOOLEAN, stored : Texts, canDiscard : BOOLEAN,
     answer : {NoCall, "ok", "invalid", "missing", "lost"},
     given : KeyOrNone, unknown : BOOLEAN]
CallType ==
    [from : Visits \cup {0}, kind : {"create", "edit", "plan", "read", "tidy"},
     key : Keys, given : KeyOrNone, text : Texts]

TypeInv ==
    /\ storage \in Records
    /\ visit \in [Visits -> VisitType]
    /\ now \in Visits
    /\ minted \in Nat
    /\ wire \subseteq CallType
    /\ event \in [Keys -> Texts]
    /\ planned \subseteq Keys
    /\ discarded \subseteq KeyOrNone
    /\ expired \in BOOLEAN

(* A save that creates an event, or repeats a create.                      *)
Creating(v) == Saving(v) /\ visit[v].creating

(* A call that is waited for belongs to the step of its visit, and is the  *)
(* only one; an edit is of an event there is.                              *)
StepsOf(kind) ==
    CASE kind \in {"create", "edit"} -> {"saving"}
      [] kind = "plan"               -> {"planning", "generating"}
      [] kind = "read"               -> {"checking", "loading", "rereading"}
      [] OTHER                       -> {}

CallInv ==
    /\ \A c \in wire : c.from # 0 =>
          /\ visit[c.from].answer = NoCall
          /\ visit[c.from].of = c.key
          /\ visit[c.from].step \in StepsOf(c.kind)
          /\ c.kind = "create" => visit[c.from].creating
          /\ c.kind = "edit" => ~visit[c.from].creating
    /\ \A c, d \in wire : c.from = d.from /\ c.from # 0 => c = d
    /\ \A c \in wire : c.kind = "edit" => event[c.key] # Blank

(* What an answer says is still so when it is used.                        *)
AnswerOf(v) ==
    /\ visit[v].answer = "ok"
       /\ visit[v].step \in {"checking", "generating", "rereading"} =>
          visit[v].of \in planned
    /\ visit[v].step = "saving" /\ visit[v].creating =>
          /\ visit[v].answer = "ok" => event[visit[v].of] # Blank
          /\ visit[v].answer = "invalid" =>
                event[visit[v].of] = Blank /\ Rejected(visit[v].submitted)

AnswerInv == \A v \in Visits : AnswerOf(v)

(* What a form knows of the create it is about, and a plan page of its     *)
(* event.                                                                  *)
PlanSteps == {"loading", "missing", "generating", "rereading"}

FormOf(v) ==
    /\ v > now => visit[v] = Away
    /\ visit[v].step \in PlanSteps => visit[v].of # 0
    /\ visit[v].step \in {"planning", "checking"} =>
          visit[v].creating /\ (v = now => visit[v].saved # 0)
    /\ visit[v].step = "saving" /\ ~visit[v].creating => visit[v].saved # 0
    /\ visit[v].step = "saving" /\ visit[v].retry => visit[v].creating
    /\ visit[v].blocked => ~visit[v].canDiscard /\ ~Saving(v)
    /\ Creating(v) =>
          /\ visit[v].of # 0
          /\ IF visit[v].pending = NoPending THEN visit[v].of \in discarded
             ELSE visit[v].pending.key = visit[v].of
    /\ visit[v].saved # 0 =>
          /\ event[visit[v].saved] # Blank
          /\ ~visit[v].canDiscard
          /\ Creating(v) => visit[v].of = visit[v].saved
          /\ visit[v].pending # NoPending =>
                visit[v].pending.key = visit[v].saved

FormInv == \A v \in Visits : FormOf(v)

(* The tab is about one create at a time: the saves that still run, the    *)
(* recovery and the form on screen have the same key.                      *)
OneKeyInv ==
    /\ \A v, w \in Visits : Creating(v) /\ Creating(w) => visit[v].of = visit[w].of
    /\ \A v \in Visits : Creating(v) =>
          /\ visit[now].pending # NoPending => visit[now].pending.key = visit[v].of
          /\ storage # NoPending => storage.key = visit[v].of
    /\ storage # NoPending /\ visit[now].pending # NoPending =>
          visit[now].pending.key = storage.key

(* A key goes with one text wherever it is kept or sent.                   *)
Says(k, t) ==
    \/ storage.key = k /\ storage.text = t
    \/ \E v \in Visits : visit[v].pending.key = k /\ visit[v].pending.text = t
    \/ \E v \in Visits :
          Creating(v) /\ visit[v].of = k /\ visit[v].submitted = t
    \/ \E c \in wire : c.kind = "create" /\ c.key = k /\ c.text = t

TextInv ==
    \A k \in Keys : \A t, u \in Texts :
        Says(k, t) => k <= minted /\ (Says(k, u) => t = u)

(* An event without a plan that there is, or that a call or a retry would  *)
(* still make.                                                             *)
Owed(k) ==
    /\ k \notin planned \cup discarded
    /\ \/ event[k] # Blank
       \/ \E c \in wire : c.kind = "create" /\ c.key = k /\ ~Rejected(c.text)
       \/ visit[now].pending.key = k /\ ~Rejected(visit[now].pending.text)

OwedInv == \A k \in Keys : Owed(k) => storage.key = k

(* A form that may mint a key stands where nothing is owed.                *)
FreshForm ==
    OnForm /\ Form.step = "shown" /\ ~Form.blocked /\ Form.saved = 0
           /\ Form.pending = NoPending
FreshInv == FreshForm => \A k \in Keys : ~Owed(k)

IInv == TypeInv /\ CallInv /\ AnswerInv /\ FormInv /\ TextInv

(* These need that no save outlives the next create.                       *)
OneCreate == OneKeyInv /\ OwedInv /\ FreshInv

(* What was typed last, as the form follows it while a save runs.          *)
TypedInv ==
    Saving(now) =>
        \/ visit[now].typed = visit[now].current
        \/ /\ visit[now].step \in {"planning", "checking"}
           /\ visit[now].typed = visit[now].submitted
           /\ visit[now].current = visit[now].stored

----------------------------------------------------------------------------
(* Types, and what a page does when it hears of its call.                  *)

LEMMA Basics ==
    /\ Blank \in Texts /\ 0 \notin Keys /\ Keys \subseteq Nat
    /\ NoPending \in Records /\ NoPending.key = 0 /\ NoPending.text = Blank
    /\ \A p \in Records : p.key \in KeyOrNone /\ p.text \in Texts
                          /\ (p.key = 0 <=> p = NoPending)
    /\ MaxVisits \in Nat /\ MaxKeys \in Nat
    /\ Visits \subseteq Nat /\ 1 \in Visits /\ 0 \notin Visits
<1>1. /\ Blank \in Texts /\ MaxVisits \in Nat /\ MaxKeys \in Nat
      /\ MaxVisits > 0
  BY RecoveryAssumption
<1> QED BY <1>1 DEF Keys, Visits, KeyOrNone, Records, NoPending

LEMMA AwayFields ==
    /\ Away \in VisitType
    /\ Away.page = "none" /\ Away.step = "gone" /\ Away.pending = NoPending
    /\ Away.of = 0 /\ Away.saved = 0 /\ Away.answer = NoCall
    /\ ~Away.blocked /\ ~Away.canDiscard /\ ~Away.creating
BY Basics DEF Away, VisitType, KeyOrNone, Records, NoPending, NoCall

LEMMA HeardFields ==
    ASSUME TypeInv, NEW v \in Visits, NEW form \in VisitType, Heard(v, form)
    PROVE  /\ visit' \in [Visits -> VisitType]
           /\ \A w \in Visits \ {v} : visit'[w] = visit[w]
           /\ form.step = "gone" => visit'[v] = Away
           /\ form.step # "gone" =>
                 /\ visit'[v].page = form.page /\ visit'[v].step = form.step
                 /\ visit'[v].pending = form.pending
                 /\ visit'[v].blocked = form.blocked
                 /\ visit'[v].saved = form.saved
                 /\ visit'[v].current = form.current
                 /\ visit'[v].canDiscard = form.canDiscard
                 /\ visit'[v].answer = NoCall
           /\ form.step = "shown" =>
                 visit'[v].of = form.saved /\ ~visit'[v].creating
           /\ form.step \notin {"gone", "shown"} =>
                 /\ visit'[v].of = form.of
                 /\ visit'[v].submitted = form.submitted
                 /\ visit'[v].typed = form.typed
                 /\ visit'[v].stored = form.stored
                 /\ visit'[v].creating = form.creating
<1> DEFINE shown == [form EXCEPT !.answer = NoCall, !.of = form.saved,
                             !.submitted = Blank, !.typed = Blank,
                             !.stored = Blank, !.retry = FALSE,
                             !.creating = FALSE]
           going == [form EXCEPT !.answer = NoCall]
           new == CASE form.step = "gone" -> Away
                    [] form.step = "shown" -> shown
                    [] OTHER -> going
<1>1. visit' = [visit EXCEPT ![v] = new]
  BY DEF Heard
<1>2. visit'[v] = new /\ \A w \in Visits \ {v} : visit'[w] = visit[w]
  BY <1>1 DEF TypeInv
<1>3. /\ shown \in VisitType /\ shown.page = form.page /\ shown.step = form.step
      /\ shown.pending = form.pending /\ shown.blocked = form.blocked
      /\ shown.saved = form.saved /\ shown.current = form.current
      /\ shown.canDiscard = form.canDiscard /\ shown.answer = NoCall
      /\ shown.of = form.saved /\ ~shown.creating
  BY Basics, ZenonT(40) DEF VisitType, NoCall
<1>4. /\ going \in VisitType /\ going.page = form.page /\ going.step = form.step
      /\ going.pending = form.pending /\ going.blocked = form.blocked
      /\ going.saved = form.saved /\ going.current = form.current
      /\ going.canDiscard = form.canDiscard /\ going.answer = NoCall
      /\ going.of = form.of /\ going.submitted = form.submitted
      /\ going.typed = form.typed /\ going.stored = form.stored
      /\ going.creating = form.creating
  BY DEF VisitType, NoCall
<1> HIDE DEF shown, going
<1>5. new \in VisitType
  BY <1>3, <1>4, AwayFields
<1>6. visit' \in [Visits -> VisitType]
  BY <1>1, <1>5 DEF TypeInv
<1>7. CASE form.step = "gone"
  BY <1>2, <1>6, <1>7
<1>8. CASE form.step = "shown"
  BY <1>2, <1>3, <1>6, <1>8
<1>9. CASE form.step \notin {"gone", "shown"}
  BY <1>2, <1>4, <1>6, <1>9
<1> QED BY <1>7, <1>8, <1>9

(* Storing a record changes nothing else, and clearing one is of its event.*)
LEMMA StoredRecord ==
    ASSUME TypeInv, NEW p \in Records, NEW ok, Stores(p, ok)
    PROVE  storage' \in {p, storage} /\ storage' \in Records
                /\ (ok => storage' = p) /\ (~ok => storage' = storage)
BY DEF Stores, TypeInv

LEMMA ClearedRecord ==
    ASSUME TypeInv, NEW k \in Keys, NEW ok, ClearPendingCreateForEvent(k, ok)
    PROVE  /\ storage' \in Records
           /\ storage' = storage \/ (storage' = NoPending /\ storage.key = k)
<1>1. CASE IsPendingCreateForEvent(storage, k)
  BY <1>1, Basics, StoredRecord
     DEF ClearPendingCreateForEvent, IsPendingCreateForEvent
<1>2. CASE ~IsPendingCreateForEvent(storage, k)
  BY <1>2 DEF ClearPendingCreateForEvent, TypeInv
<1> QED BY <1>1, <1>2

(* The steps in which a page goes on after an answer, or for want of one.  *)
Response(v) ==
    \/ SaveLost(v) \/ Edited(v) \/ PlanAsked(v) \/ PlanNotSeen(v)
    \/ PlanLoaded(v) \/ GenerateLost(v)
    \/ \E ok \in BOOLEAN :
          SaveRejected(v, ok) \/ Created(v, ok) \/ PlanSeen(v, ok)
          \/ Generated(v, ok) \/ Reread(v, ok)

SameRecord(p, q) == p.key = q.key /\ p.text = q.text

Refused(v) ==
    visit[v].step = "saving" /\ visit[v].answer = "invalid" /\ visit[v].creating
EndsWithout(v) == visit[v].step = "checking" \/ Refused(v)
KeepsPending(v) == visit'[v].pending = NoPending => visit[v].pending = NoPending

(* What they have in common: a save goes on with its key, its text and     *)
(* what is pending, or it ends; ...                                        *)
GoesOn(v) ==
    /\ UNCHANGED <<now, minted, event, planned, discarded, expired>>
    /\ visit' \in [Visits -> VisitType]
    /\ \A w \in Visits \ {v} : visit'[w] = visit[w]
    /\ visit[v].step # "shown" /\ visit[v].answer # NoCall
    /\ visit'[v].answer = NoCall /\ visit'[v].step # "saving"
    /\ visit'[v].step = "shown" => Saving(v) /\ (EndsWithout(v) \/ KeepsPending(v))
    /\ visit'[v].pending = NoPending
          \/ SameRecord(visit'[v].pending, visit[v].pending)
    /\ Creating(v)' =>
          /\ Creating(v) /\ visit'[v].of = visit[v].of
          /\ visit'[v].submitted = visit[v].submitted
          /\ SameRecord(visit'[v].pending, visit[v].pending)

(* ... it makes at most the call of its next step ...                      *)
SendsAtMost(v) ==
    \/ wire' = wire
    \/ \E c \in CallType : /\ wire' = wire \cup {c}
                           /\ c.from = v /\ c.key = visit'[v].of
                           /\ c.kind \in {"plan", "read"}
                           /\ visit'[v].step \in StepsOf(c.kind)

(* ... and stores at most that its event exists, or that a create is over, *)
(* because it was refused or because there is a plan.                      *)
StoresAtMost(v) ==
    /\ storage' \in Records
    /\ \/ storage' = storage
       \/ storage' = NoPending /\ storage.key \in planned
       \/ storage' = NoPending /\ Refused(v)
       \/ Creating(v) /\ SameRecord(storage', visit[v].pending)
          /\ visit[v].pending # NoPending

(* What the form remembers of the event it made, or may discard.           *)
RemembersAtMost(v) ==
    /\ visit'[v].blocked => visit[v].blocked
    /\ visit'[v].step \in PlanSteps =>
          visit[v].step \in PlanSteps /\ visit'[v].of = visit[v].of
    /\ Saving(v)' => Saving(v)
    /\ visit'[v].step \in {"planning", "checking"} =>
          visit'[v].creating /\ (v = now => visit'[v].saved # 0)
    /\ visit'[v].canDiscard =>
          \/ visit[v].canDiscard
          \/ /\ visit[v].step = "saving" /\ visit[v].answer = "invalid"
             /\ visit[v].retry
    /\ \/ visit'[v] = Away
       \/ visit'[v].saved = visit[v].saved
       \/ /\ visit[v].step = "saving" /\ visit[v].creating
          /\ visit[v].answer = "ok"
          /\ visit'[v].saved = visit[v].of /\ ~visit'[v].canDiscard

ResponseShape(v) ==
    GoesOn(v) /\ SendsAtMost(v) /\ StoresAtMost(v) /\ RemembersAtMost(v)

(* A page that is left, ...                                                *)
LEMMA GoneShape ==
    ASSUME TypeInv, NEW v \in Visits, NEW form \in VisitType, Heard(v, form),
           form.step = "gone",
           UNCHANGED <<now, minted, event, planned, discarded, expired>>,
           visit[v].step # "shown", visit[v].answer # NoCall
    PROVE  GoesOn(v) /\ RemembersAtMost(v)
BY HeardFields, AwayFields
   DEF GoesOn, RemembersAtMost, Creating, Saving, PlanSteps

(* ... one that is idle again, ...                                         *)
LEMMA ShownShape ==
    ASSUME TypeInv, NEW v \in Visits, NEW form \in VisitType, Heard(v, form),
           form.step \in {"shown", "missing", "ready", "unavailable", "rereading"},
           UNCHANGED <<now, minted, event, planned, discarded, expired>>,
           visit[v].step # "shown", visit[v].answer # NoCall,
           form.pending = NoPending \/ SameRecord(form.pending, visit[v].pending),
           form.blocked = visit[v].blocked,
           form.saved = visit[v].saved,
           form.canDiscard => visit[v].canDiscard \/
              (visit[v].step = "saving" /\ visit[v].answer = "invalid"
                 /\ visit[v].retry),
           form.step = "shown" => Saving(v) /\
              (EndsWithout(v) \/ form.pending = visit[v].pending),
           form.step \in PlanSteps =>
              visit[v].step \in PlanSteps /\ form.of = visit[v].of
    PROVE  GoesOn(v) /\ RemembersAtMost(v)
<1>1. /\ visit'[v].step = form.step /\ visit'[v].pending = form.pending
      /\ visit'[v].blocked = form.blocked /\ visit'[v].saved = form.saved
      /\ visit'[v].canDiscard = form.canDiscard /\ visit'[v].answer = NoCall
      /\ form.step \in PlanSteps => visit'[v].of = form.of
      /\ visit' \in [Visits -> VisitType]
      /\ \A w \in Visits \ {v} : visit'[w] = visit[w]
  BY HeardFields DEF PlanSteps
<1> QED BY <1>1 DEF GoesOn, RemembersAtMost, Creating, Saving, KeepsPending,
                    PlanSteps

(* ... and one whose save goes on.                                         *)
LEMMA OnwardShape ==
    ASSUME TypeInv, NEW v \in Visits, NEW form \in VisitType, Heard(v, form),
           form.step \in {"planning", "checking"},
           UNCHANGED <<now, minted, event, planned, discarded, expired>>,
           visit[v].answer # NoCall, Creating(v), form.creating,
           SameRecord(form.pending, visit[v].pending),
           form.of = visit[v].of, form.submitted = visit[v].submitted,
           form.blocked = visit[v].blocked,
           v = now => form.saved # 0,
           form.canDiscard => visit[v].canDiscard,
           \/ form.saved = visit[v].saved
           \/ /\ visit[v].step = "saving" /\ visit[v].answer = "ok"
              /\ form.saved = visit[v].of /\ ~form.canDiscard
    PROVE  GoesOn(v) /\ RemembersAtMost(v)
<1>1. /\ visit'[v].step = form.step /\ visit'[v].pending = form.pending
      /\ visit'[v].blocked = form.blocked /\ visit'[v].saved = form.saved
      /\ visit'[v].canDiscard = form.canDiscard /\ visit'[v].answer = NoCall
      /\ visit'[v].of = form.of /\ visit'[v].submitted = form.submitted
      /\ visit'[v].creating = form.creating
      /\ visit' \in [Visits -> VisitType]
      /\ \A w \in Visits \ {v} : visit'[w] = visit[w]
  BY HeardFields, ZenonT(40) DEF PlanSteps
<1> QED BY <1>1 DEF GoesOn, RemembersAtMost, Creating, Saving, PlanSteps

LEMMA SaveLostShape ==
    ASSUME IInv, NEW v \in Visits, SaveLost(v)
    PROVE  ResponseShape(v)
<1> DEFINE form == [visit[v] EXCEPT !.step = Idle(v)]
<1>0. TypeInv /\ visit[v] \in VisitType
  BY DEF IInv, TypeInv
<1>1. /\ form \in VisitType /\ form.step \in {"shown", "gone"}
      /\ form.pending = visit[v].pending /\ form.blocked = visit[v].blocked
      /\ form.saved = visit[v].saved /\ form.canDiscard = visit[v].canDiscard
  BY <1>0 DEF VisitType, Idle
<1>2. /\ Heard(v, form) /\ visit[v].step = "saving" /\ visit[v].answer = "lost"
      /\ UNCHANGED <<storage, now, minted, wire, event, planned, discarded, expired>>
  BY DEF SaveLost, Answered
<1> HIDE DEF form
<1>3. GoesOn(v) /\ RemembersAtMost(v)
  BY <1>0, <1>1, <1>2, GoneShape, ShownShape
     DEF NoCall, SameRecord, Saving, PlanSteps
<1> QED BY <1>0, <1>2, <1>3
         DEF ResponseShape, SendsAtMost, StoresAtMost, TypeInv

LEMMA SaveRejectedShape ==
    ASSUME IInv, NEW v \in Visits, NEW ok \in BOOLEAN, SaveRejected(v, ok)
    PROVE  ResponseShape(v)
<1> DEFINE over == visit[v].creating /\ ~visit[v].retry
           form == [visit[v] EXCEPT
                      !.step = Idle(v),
                      !.canDiscard = @ \/ (Mounted(v) /\ visit[v].retry),
                      !.pending = IF over THEN NoPending ELSE @]
<1>0. TypeInv /\ visit[v] \in VisitType
  BY DEF IInv, TypeInv
<1>1. /\ form \in VisitType /\ form.step \in {"shown", "gone"}
      /\ form.pending \in {NoPending, visit[v].pending}
      /\ form.blocked = visit[v].blocked
      /\ form.saved = visit[v].saved
      /\ form.canDiscard => visit[v].canDiscard \/ visit[v].retry
      /\ visit[v].creating \/ form.pending = visit[v].pending
  BY <1>0, Basics, ZenonT(40) DEF VisitType, Idle
<1>2. /\ Heard(v, form) /\ visit[v].step = "saving" /\ visit[v].answer = "invalid"
      /\ UNCHANGED <<now, minted, wire, event, planned, discarded, expired>>
  BY DEF SaveRejected, Answered
<1> HIDE DEF form
<1>3. GoesOn(v) /\ RemembersAtMost(v)
  BY <1>0, <1>1, <1>2, GoneShape, ShownShape
     DEF NoCall, SameRecord, Saving, EndsWithout, Refused, PlanSteps
<1>4. \/ storage' = storage
      \/ visit[v].creating /\ storage' = NoPending
  BY <1>0, Basics, StoredRecord DEF SaveRejected
<1>5. storage' \in Records
  BY <1>0, <1>4, Basics DEF TypeInv
<1> QED BY <1>2, <1>3, <1>4, <1>5
         DEF ResponseShape, SendsAtMost, StoresAtMost, Refused

LEMMA CreatedShape ==
    ASSUME IInv, NEW v \in Visits, NEW ok \in BOOLEAN, Created(v, ok)
    PROVE  ResponseShape(v)
<1> DEFINE p == visit[v].pending
           kept == IF p = NoPending THEN p ELSE [p EXCEPT !.created = TRUE]
           form == [Saved(v, event[visit[v].of]) EXCEPT
                        !.pending = kept,
                        !.step = IF ok THEN "planning" ELSE Idle(v)]
           call == Call(v, "plan", visit[v].of, p.key, Blank)
<1>0. TypeInv /\ visit[v] \in VisitType /\ p \in Records
  BY DEF IInv, TypeInv, VisitType
<1>1. /\ Heard(v, form) /\ visit[v].step = "saving" /\ visit[v].answer = "ok"
      /\ visit[v].creating
      /\ UNCHANGED <<now, minted, event, planned, discarded, expired>>
  BY DEF Created, Answered
<1>2. Creating(v) /\ visit[v].of \in Keys
  <2>1. Creating(v)
    BY <1>1 DEF Creating, Saving
  <2> QED BY <1>0, <2>1 DEF IInv, FormInv, FormOf, VisitType, KeyOrNone
<1>3. /\ kept \in Records /\ SameRecord(kept, p)
      /\ p # NoPending => kept # NoPending
  BY <1>0, Basics DEF Records, SameRecord
<1>4. event[visit[v].of] \in Texts
  BY <1>0, <1>2 DEF TypeInv
<1>5. /\ form \in VisitType
      /\ form.step = (IF ok THEN "planning" ELSE Idle(v))
      /\ form.pending = kept /\ form.blocked = visit[v].blocked
      /\ form.creating = visit[v].creating /\ form.of = visit[v].of
      /\ form.submitted = visit[v].submitted
      /\ IF Mounted(v) THEN form.saved = visit[v].of /\ ~form.canDiscard
         ELSE form.saved = visit[v].saved /\ (form.canDiscard => visit[v].canDiscard)
  <2> DEFINE saved == Saved(v, event[visit[v].of])
  <2>1. /\ saved \in VisitType
        /\ saved.blocked = visit[v].blocked
        /\ saved.creating = visit[v].creating /\ saved.of = visit[v].of
        /\ saved.submitted = visit[v].submitted
        /\ IF Mounted(v) THEN saved.saved = visit[v].of /\ ~saved.canDiscard
           ELSE saved.saved = visit[v].saved
                /\ (saved.canDiscard => visit[v].canDiscard)
    BY <1>0, <1>2, <1>4, ZenonT(40) DEF Saved, VisitType, ReconcileAnswers
  <2>2. form = [saved EXCEPT !.pending = kept,
                             !.step = IF ok THEN "planning" ELSE Idle(v)]
    OBVIOUS
  <2> HIDE DEF saved, kept, form
  <2> QED BY <1>3, <2>1, <2>2, ZenonT(40) DEF VisitType, Idle
<1>6. /\ call \in CallType
      /\ call.from = v /\ call.key = visit[v].of /\ call.kind = "plan"
  BY <1>0, <1>2, Basics DEF Call, CallType, KeyOrNone
<1>7. IF ok THEN wire' = wire \cup {call} ELSE wire' = wire
  BY DEF Created, Send
<1>8. storage' \in Records /\
      (\/ storage' = storage
       \/ p # NoPending /\ SameRecord(storage', p))
  <2>1. CASE p = NoPending
    BY <1>0, <2>1 DEF Created, TypeInv
  <2>2. CASE p # NoPending
    <3>1. Stores(kept, ok)
      BY <2>2 DEF Created
    <3> QED BY <1>0, <1>3, <2>2, <3>1, StoredRecord
  <2> QED BY <2>1, <2>2
<1> HIDE DEF form, call, kept
<1>9. CASE ok
  <2>1. v = now => form.saved # 0
    BY <1>2, <1>5, Basics DEF Mounted
  <2>2. GoesOn(v) /\ RemembersAtMost(v)
    BY <1>0, <1>1, <1>2, <1>3, <1>5, <1>9, <2>1, OnwardShape DEF NoCall
  <2>3. visit'[v].of = visit[v].of /\ visit'[v].step = "planning"
    BY <1>0, <1>1, <1>5, <1>9, HeardFields
  <2> QED BY <1>2, <1>6, <1>7, <1>8, <1>9, <2>2, <2>3
           DEF ResponseShape, SendsAtMost, StoresAtMost, StepsOf
<1>10. CASE ~ok /\ ~Mounted(v)
  <2>1. form.step = "gone"
    BY <1>5, <1>10 DEF Idle
  <2> QED BY <1>0, <1>1, <1>2, <1>5, <1>7, <1>8, <1>10, <2>1, GoneShape
           DEF ResponseShape, SendsAtMost, StoresAtMost, NoCall
<1>11. CASE ~ok /\ Mounted(v)
  <2>1. /\ form.step = "shown" /\ form.saved = visit[v].of /\ ~form.canDiscard
    BY <1>5, <1>11 DEF Idle
  <2>2. /\ visit'[v].step = "shown" /\ visit'[v].pending = kept
        /\ visit'[v].blocked = form.blocked /\ visit'[v].saved = form.saved
        /\ visit'[v].canDiscard = form.canDiscard /\ visit'[v].answer = NoCall
        /\ visit' \in [Visits -> VisitType]
        /\ \A w \in Visits \ {v} : visit'[w] = visit[w]
    BY <1>0, <1>1, <1>5, <2>1, HeardFields
  <2>3. GoesOn(v) /\ RemembersAtMost(v)
    BY <1>1, <1>3, <1>5, <2>1, <2>2
       DEF GoesOn, RemembersAtMost, Creating, Saving, NoCall, KeepsPending,
           SameRecord, PlanSteps
  <2> QED BY <1>2, <1>7, <1>8, <1>11, <2>3
           DEF ResponseShape, SendsAtMost, StoresAtMost
<1> QED BY <1>9, <1>10, <1>11

LEMMA EditedShape ==
    ASSUME IInv, NEW v \in Visits, Edited(v)
    PROVE  ResponseShape(v)
<1> DEFINE form == [visit[v] EXCEPT !.step = "gone"]
<1>0. TypeInv /\ form \in VisitType /\ form.step = "gone"
  BY DEF IInv, TypeInv, VisitType
<1>2. /\ Heard(v, form) /\ visit[v].step = "saving" /\ visit[v].answer = "ok"
      /\ UNCHANGED <<storage, now, minted, wire, event, planned, discarded, expired>>
  BY DEF Edited, Answered
<1> HIDE DEF form
<1> QED BY <1>0, <1>2, GoneShape
         DEF ResponseShape, SendsAtMost, StoresAtMost, TypeInv, NoCall

LEMMA PlanAskedShape ==
    ASSUME IInv, NEW v \in Visits, PlanAsked(v)
    PROVE  ResponseShape(v)
<1> DEFINE form == [visit[v] EXCEPT !.step = "checking"]
           call == Call(v, "read", visit[v].of, 0, Blank)
<1>0. TypeInv /\ visit[v] \in VisitType
  BY DEF IInv, TypeInv
<1>1. /\ form \in VisitType /\ form.step = "checking"
      /\ form.pending = visit[v].pending /\ form.blocked = visit[v].blocked
      /\ form.saved = visit[v].saved /\ form.canDiscard = visit[v].canDiscard
      /\ form.of = visit[v].of /\ form.submitted = visit[v].submitted
      /\ form.creating = visit[v].creating
  BY <1>0 DEF VisitType
<1>2. /\ Heard(v, form) /\ visit[v].step = "planning" /\ visit[v].answer # NoCall
      /\ UNCHANGED <<storage, now, minted, event, planned, discarded, expired>>
      /\ wire' = wire \cup {call}
  BY DEF PlanAsked, Send
<1>3. /\ Creating(v) /\ visit[v].creating /\ visit[v].of \in Keys
      /\ v = now => visit[v].saved # 0
  <2>1. visit[v].creating /\ (v = now => visit[v].saved # 0)
    BY <1>2 DEF IInv, FormInv, FormOf
  <2>2. Creating(v)
    BY <1>2, <2>1 DEF Creating, Saving
  <2> QED BY <1>0, <2>1, <2>2 DEF IInv, FormInv, FormOf, VisitType, KeyOrNone
<1>4. /\ call \in CallType
      /\ call.from = v /\ call.key = visit[v].of /\ call.kind = "read"
  BY <1>3, Basics DEF Call, CallType, KeyOrNone
<1> HIDE DEF form, call
<1>5. GoesOn(v) /\ RemembersAtMost(v)
  BY <1>0, <1>1, <1>2, <1>3, OnwardShape DEF SameRecord
<1>6. visit'[v].of = visit[v].of /\ visit'[v].step = "checking"
  BY <1>0, <1>1, <1>2, HeardFields
<1> QED BY <1>0, <1>2, <1>4, <1>5, <1>6
         DEF ResponseShape, SendsAtMost, StoresAtMost, StepsOf, TypeInv

LEMMA PlanNotSeenShape ==
    ASSUME IInv, NEW v \in Visits, PlanNotSeen(v)
    PROVE  ResponseShape(v)
<1> DEFINE form == [visit[v] EXCEPT !.step = Idle(v)]
<1>0. TypeInv /\ visit[v] \in VisitType
  BY DEF IInv, TypeInv
<1>1. /\ form \in VisitType /\ form.step \in {"shown", "gone"}
      /\ form.pending = visit[v].pending /\ form.blocked = visit[v].blocked
      /\ form.saved = visit[v].saved /\ form.canDiscard = visit[v].canDiscard
  BY <1>0 DEF VisitType, Idle
<1>2. /\ Heard(v, form) /\ visit[v].step = "checking" /\ visit[v].answer # NoCall
      /\ UNCHANGED <<storage, now, minted, wire, event, planned, discarded, expired>>
  BY DEF PlanNotSeen, NoCall
<1> HIDE DEF form
<1>3. GoesOn(v) /\ RemembersAtMost(v)
  BY <1>0, <1>1, <1>2, GoneShape, ShownShape
     DEF SameRecord, Saving, EndsWithout, PlanSteps
<1> QED BY <1>0, <1>2, <1>3
         DEF ResponseShape, SendsAtMost, StoresAtMost, TypeInv

LEMMA PlanSeenShape ==
    ASSUME IInv, NEW v \in Visits, NEW ok \in BOOLEAN, PlanSeen(v, ok)
    PROVE  ResponseShape(v)
<1> DEFINE step == IF ok /\ visit[v].current = visit[v].stored
                   THEN "gone" ELSE Idle(v)
           form == [visit[v] EXCEPT
                        !.pending = IF ok THEN NoPending ELSE @,
                        !.step = step]
<1>0. TypeInv /\ visit[v] \in VisitType
  BY DEF IInv, TypeInv
<1>1. /\ form \in VisitType /\ form.step \in {"shown", "gone"}
      /\ form.pending \in {NoPending, visit[v].pending}
      /\ form.blocked = visit[v].blocked
      /\ form.saved = visit[v].saved /\ form.canDiscard = visit[v].canDiscard
  BY <1>0, Basics, ZenonT(40) DEF VisitType, Idle
<1>2. /\ Heard(v, form) /\ visit[v].step = "checking" /\ visit[v].answer = "ok"
      /\ ClearPendingCreateForEvent(visit[v].of, ok)
      /\ UNCHANGED <<now, minted, wire, event, planned, discarded, expired>>
  BY DEF PlanSeen, Answered
<1> HIDE DEF form
<1>3. GoesOn(v) /\ RemembersAtMost(v)
  BY <1>0, <1>1, <1>2, GoneShape, ShownShape
     DEF SameRecord, Saving, EndsWithout, NoCall, PlanSteps
<1>4. visit[v].of \in planned /\ visit[v].of \in Keys
  BY <1>2 DEF IInv, AnswerInv, AnswerOf, TypeInv
<1> QED BY <1>0, <1>2, <1>3, <1>4, ClearedRecord
         DEF ResponseShape, SendsAtMost, StoresAtMost

LEMMA PlanLoadedShape ==
    ASSUME IInv, NEW v \in Visits, PlanLoaded(v)
    PROVE  ResponseShape(v)
<1> DEFINE step == CASE visit[v].answer = "missing" -> "missing"
                     [] visit[v].answer = "ok" -> "ready"
                     [] OTHER -> "unavailable"
           form == [visit[v] EXCEPT !.step = step]
<1>0. TypeInv /\ visit[v] \in VisitType
  BY DEF IInv, TypeInv
<1>1. /\ form \in VisitType
      /\ form.step \in {"missing", "ready", "unavailable"}
      /\ form.of = visit[v].of
      /\ form.pending = visit[v].pending /\ form.blocked = visit[v].blocked
      /\ form.saved = visit[v].saved /\ form.canDiscard = visit[v].canDiscard
  BY <1>0 DEF VisitType
<1>2. /\ Heard(v, form) /\ visit[v].step = "loading" /\ visit[v].answer # NoCall
      /\ UNCHANGED <<storage, now, minted, wire, event, planned, discarded, expired>>
  BY DEF PlanLoaded
<1> HIDE DEF form
<1>3. GoesOn(v) /\ RemembersAtMost(v)
  BY <1>0, <1>1, <1>2, ShownShape DEF SameRecord, PlanSteps
<1> QED BY <1>0, <1>2, <1>3
         DEF ResponseShape, SendsAtMost, StoresAtMost, TypeInv

LEMMA GeneratedShape ==
    ASSUME IInv, NEW v \in Visits, NEW ok \in BOOLEAN, Generated(v, ok)
    PROVE  ResponseShape(v)
<1> DEFINE form == [visit[v] EXCEPT !.step = "ready"]
<1>0. TypeInv /\ visit[v] \in VisitType
  BY DEF IInv, TypeInv
<1>1. /\ form \in VisitType /\ form.step = "ready"
      /\ form.pending = visit[v].pending /\ form.blocked = visit[v].blocked
      /\ form.saved = visit[v].saved /\ form.canDiscard = visit[v].canDiscard
  BY <1>0 DEF VisitType
<1>2. /\ Heard(v, form) /\ visit[v].step = "generating" /\ visit[v].answer = "ok"
      /\ ClearPendingCreateForEvent(visit[v].of, ok)
      /\ UNCHANGED <<now, minted, wire, event, planned, discarded, expired>>
  BY DEF Generated, Answered
<1> HIDE DEF form
<1>3. GoesOn(v) /\ RemembersAtMost(v)
  BY <1>0, <1>1, <1>2, ShownShape
     DEF SameRecord, NoCall, PlanSteps
<1>4. visit[v].of \in planned /\ visit[v].of \in Keys
  BY <1>2 DEF IInv, AnswerInv, AnswerOf, TypeInv
<1> QED BY <1>0, <1>2, <1>3, <1>4, ClearedRecord
         DEF ResponseShape, SendsAtMost, StoresAtMost

LEMMA GenerateLostShape ==
    ASSUME IInv, NEW v \in Visits, GenerateLost(v)
    PROVE  ResponseShape(v)
<1>0. TypeInv /\ visit[v] \in VisitType
  BY DEF IInv, TypeInv
<1>1. ASSUME NEW s \in {"missing", "rereading"}
      PROVE  LET form == [visit[v] EXCEPT !.step = s] IN
             /\ form \in VisitType /\ form.step = s /\ form.of = visit[v].of
             /\ form.pending = visit[v].pending /\ form.blocked = visit[v].blocked
             /\ form.saved = visit[v].saved /\ form.canDiscard = visit[v].canDiscard
  BY <1>0 DEF VisitType
<1>2. /\ visit[v].step = "generating" /\ visit[v].answer # NoCall
      /\ UNCHANGED <<storage, now, minted, event, planned, discarded, expired>>
  BY DEF GenerateLost, Answered, NoCall
<1>3. CASE Heard(v, [visit[v] EXCEPT !.step = "missing"]) /\ wire' = wire
  <2>1. GoesOn(v) /\ RemembersAtMost(v)
    BY <1>0, <1>1, <1>2, <1>3, ShownShape DEF SameRecord, PlanSteps
  <2> QED BY <1>0, <1>2, <1>3, <2>1
           DEF ResponseShape, SendsAtMost, StoresAtMost, TypeInv
<1>4. CASE /\ Heard(v, [visit[v] EXCEPT !.step = "rereading"])
           /\ wire' = wire \cup {Call(v, "read", visit[v].of, 0, Blank)}
           /\ visit[v].of \in planned
  <2> DEFINE form == [visit[v] EXCEPT !.step = "rereading"]
             call == Call(v, "read", visit[v].of, 0, Blank)
  <2>1. /\ form \in VisitType /\ form.step = "rereading" /\ form.of = visit[v].of
        /\ form.pending = visit[v].pending /\ form.blocked = visit[v].blocked
        /\ form.saved = visit[v].saved /\ form.canDiscard = visit[v].canDiscard
    BY <1>1
  <2>2. call \in CallType /\ call.from = v /\ call.key = visit[v].of
        /\ call.kind = "read"
    BY <1>0, <1>4, Basics DEF Call, CallType, KeyOrNone, TypeInv
  <2>3. Heard(v, form) /\ wire' = wire \cup {call}
    BY <1>4
  <2> HIDE DEF form, call
  <2>4. GoesOn(v) /\ RemembersAtMost(v)
    BY <1>0, <1>2, <2>1, <2>3, ShownShape DEF SameRecord, PlanSteps
  <2>5. visit'[v].of = visit[v].of /\ visit'[v].step = "rereading"
    BY <1>0, <2>1, <2>3, HeardFields
  <2> QED BY <1>0, <1>2, <2>2, <2>3, <2>4, <2>5
           DEF ResponseShape, SendsAtMost, StoresAtMost, StepsOf, TypeInv
<1> QED BY <1>3, <1>4 DEF GenerateLost, Send

LEMMA RereadShape ==
    ASSUME IInv, NEW v \in Visits, NEW ok \in BOOLEAN, Reread(v, ok)
    PROVE  ResponseShape(v)
<1> DEFINE seen == visit[v].answer = "ok"
           form == [visit[v] EXCEPT
                        !.step = IF seen THEN "ready" ELSE "missing",
                        !.unknown = ~seen /\ visit[v].given = 0]
<1>0. TypeInv /\ visit[v] \in VisitType
  BY DEF IInv, TypeInv
<1>1. /\ form \in VisitType /\ form.step \in {"ready", "missing"}
      /\ form.of = visit[v].of
      /\ form.pending = visit[v].pending /\ form.blocked = visit[v].blocked
      /\ form.saved = visit[v].saved /\ form.canDiscard = visit[v].canDiscard
  BY <1>0, ZenonT(40) DEF VisitType
<1>2. /\ Heard(v, form) /\ visit[v].step = "rereading" /\ visit[v].answer # NoCall
      /\ IF seen THEN ClearPendingCreateForEvent(visit[v].of, ok)
         ELSE UNCHANGED storage
      /\ UNCHANGED <<now, minted, wire, event, planned, discarded, expired>>
  BY DEF Reread
<1> HIDE DEF form
<1>3. GoesOn(v) /\ RemembersAtMost(v)
  BY <1>0, <1>1, <1>2, ShownShape DEF SameRecord, PlanSteps
<1>4. seen => visit[v].of \in planned /\ visit[v].of \in Keys
  BY <1>2 DEF IInv, AnswerInv, AnswerOf, TypeInv
<1>5. storage \in Records
  BY <1>0 DEF TypeInv
<1> QED BY <1>0, <1>2, <1>3, <1>4, <1>5, ClearedRecord
         DEF ResponseShape, SendsAtMost, StoresAtMost

LEMMA Responses ==
    ASSUME IInv, NEW v \in Visits, Response(v)
    PROVE  ResponseShape(v)
BY SaveLostShape, SaveRejectedShape, CreatedShape, EditedShape, PlanAskedShape,
   PlanNotSeenShape, PlanSeenShape, PlanLoadedShape, GeneratedShape,
   GenerateLostShape, RereadShape DEF Response

----------------------------------------------------------------------------
(* The steps that go on after an answer keep the invariant.                *)

(* A save that the API refused has made nothing and never will.            *)
LEMMA RefusedIsNotOwed ==
    ASSUME IInv, NEW v \in Visits, Refused(v)
    PROVE  visit[v].of \in Keys /\ ~Owed(visit[v].of)
<1> DEFINE k == visit[v].of
<1>1. Creating(v)
  BY DEF Refused, Creating, Saving
<1>2. k \in Keys /\ visit[v].submitted \in Texts
  BY <1>1 DEF IInv, TypeInv, FormInv, FormOf, VisitType, KeyOrNone
<1>3. event[k] = Blank /\ Rejected(visit[v].submitted)
  BY DEF IInv, AnswerInv, AnswerOf, Refused
<1>4. Says(k, visit[v].submitted)
  BY <1>1 DEF Says
<1>5. \A c \in wire : c.kind = "create" /\ c.key = k => c.text = visit[v].submitted
  <2> SUFFICES ASSUME NEW c \in wire, c.kind = "create", c.key = k
               PROVE  c.text = visit[v].submitted
    OBVIOUS
  <2>1. Says(k, c.text) /\ c.text \in Texts
    BY DEF Says, IInv, TypeInv, CallType
  <2> QED BY <1>2, <1>4, <2>1 DEF IInv, TextInv
<1>6. visit[now].pending.key = k => visit[now].pending.text = visit[v].submitted
  <2> SUFFICES ASSUME visit[now].pending.key = k
               PROVE  visit[now].pending.text = visit[v].submitted
    OBVIOUS
  <2>1. Says(k, visit[now].pending.text) /\ visit[now].pending.text \in Texts
    BY Basics DEF Says, IInv, TypeInv, VisitType
  <2> QED BY <1>2, <1>4, <2>1 DEF IInv, TextInv
<1> HIDE DEF k
<1>7. ~Owed(k)
  BY <1>3, <1>5, <1>6 DEF Owed
<1> QED BY <1>2, <1>7 DEF k

LEMMA ResponseKeeps == ASSUME IInv, NEW v \in Visits, Response(v) PROVE IInv' /\ (OneCreate => OneCreate')
<1>0. ResponseShape(v)
  BY Responses
<1>a. /\ UNCHANGED <<now, minted, event, planned, discarded, expired>>
      /\ visit' \in [Visits -> VisitType]
      /\ \A w \in Visits \ {v} : visit'[w] = visit[w]
      /\ visit[v].step # "shown" /\ visit[v].answer # NoCall
      /\ visit'[v].answer = NoCall /\ visit'[v].step # "saving"
      /\ visit'[v].step = "shown" =>
            Saving(v) /\ (EndsWithout(v) \/ KeepsPending(v))
      /\ visit'[v].pending = NoPending
            \/ SameRecord(visit'[v].pending, visit[v].pending)
      /\ Creating(v)' =>
            /\ Creating(v) /\ visit'[v].of = visit[v].of
            /\ visit'[v].submitted = visit[v].submitted
            /\ SameRecord(visit'[v].pending, visit[v].pending)
  BY <1>0 DEF ResponseShape, GoesOn
<1>b. \A w \in Visits \ {v} : Saving(w)' = Saving(w) /\ Creating(w)' = Creating(w)
  BY <1>a DEF Saving, Creating
<1>c. /\ \A w \in Visits : visit[w].pending \in Records /\ visit'[w].pending \in Records
      /\ storage \in Records /\ storage' \in Records
      /\ now \in Visits
  BY <1>0, <1>a DEF IInv, TypeInv, VisitType, ResponseShape, StoresAtMost
<1>1. TypeInv'
  <2>1. wire' \subseteq CallType
    BY <1>0 DEF ResponseShape, SendsAtMost, IInv, TypeInv
  <2> QED BY <1>a, <1>c, <2>1 DEF IInv, TypeInv
<1>2. CallInv'
  <2>1. \A c \in wire : c.from # 0 => c.from \in Visits \ {v}
    BY <1>a, Basics DEF IInv, TypeInv, CallType, CallInv
  <2>2. CASE wire' = wire
    BY <1>a, <2>1, <2>2 DEF IInv, CallInv
  <2>3. ASSUME NEW call \in CallType, wire' = wire \cup {call}, call.from = v,
               call.key = visit'[v].of, call.kind \in {"plan", "read"},
               visit'[v].step \in StepsOf(call.kind)
        PROVE  CallInv'
    BY <1>a, <2>1, <2>3 DEF IInv, CallInv
  <2> QED BY <1>0, <2>2, <2>3 DEF ResponseShape, SendsAtMost
<1>3. AnswerInv'
  BY <1>a DEF IInv, AnswerInv, AnswerOf, Rejected, NoCall
<1>4. FormInv'
  <2>1. ASSUME NEW w \in Visits \ {v}
        PROVE  /\ visit'[w] = visit[w] /\ now' = now
               /\ Creating(w)' = Creating(w) /\ Saving(w)' = Saving(w)
               /\ UNCHANGED <<event, discarded>>
    BY <1>a, <1>b
  <2>2. /\ v <= now
        /\ visit'[v].step \in PlanSteps => visit'[v].of # 0
        /\ visit'[v].blocked => visit[v].blocked
        /\ Saving(v)' => Saving(v)
        /\ visit'[v].step \in {"planning", "checking"} =>
              visit'[v].creating /\ (v = now => visit'[v].saved # 0)
        /\ visit'[v].canDiscard =>
              \/ visit[v].canDiscard
              \/ /\ visit[v].step = "saving" /\ visit[v].answer = "invalid"
                 /\ visit[v].retry
        /\ \/ visit'[v] = Away
           \/ visit'[v].saved = visit[v].saved
           \/ /\ visit[v].step = "saving" /\ visit[v].creating
              /\ visit[v].answer = "ok"
              /\ visit'[v].saved = visit[v].of /\ ~visit'[v].canDiscard
    <3>1. ~(v > now)
      BY <1>a, AwayFields DEF IInv, FormInv, FormOf
    <3>2. v \in Nat /\ now \in Nat
      BY Basics, <1>c
    <3>3. visit'[v].step \in PlanSteps => visit'[v].of # 0
      BY <1>0 DEF ResponseShape, RemembersAtMost, IInv, FormInv, FormOf
    <3> QED BY <1>0, <3>1, <3>2, <3>3 DEF ResponseShape, RemembersAtMost
  <2>3. visit'[v].blocked => ~visit'[v].canDiscard /\ ~Saving(v)'
    BY <2>2 DEF IInv, FormInv, FormOf, Saving
  <2>4. Creating(v)' =>
          /\ visit'[v].of # 0
          /\ IF visit'[v].pending = NoPending THEN visit'[v].of \in discarded'
             ELSE visit'[v].pending.key = visit'[v].of
    BY <1>a, <1>c, Basics DEF IInv, FormInv, FormOf, SameRecord
  <2>5. visit'[v].saved # 0 =>
          /\ event'[visit'[v].saved] # Blank
          /\ ~visit'[v].canDiscard
          /\ Creating(v)' => visit'[v].of = visit'[v].saved
          /\ visit'[v].pending # NoPending =>
                visit'[v].pending.key = visit'[v].saved
    <3> SUFFICES ASSUME visit'[v].saved # 0
                 PROVE  /\ event[visit'[v].saved] # Blank
                        /\ ~visit'[v].canDiscard
                        /\ Creating(v)' => visit[v].of = visit'[v].saved
                        /\ visit'[v].pending # NoPending =>
                              /\ visit[v].pending # NoPending
                              /\ visit[v].pending.key = visit'[v].saved
      BY <1>a, <1>c, Basics DEF SameRecord
    <3>0. visit'[v].pending # NoPending => visit[v].pending # NoPending
      BY <1>a, <1>c, Basics DEF SameRecord
    <3>1. CASE visit'[v].saved = visit[v].saved
      <4>1. visit[v].retry /\ visit[v].step = "saving" =>
               Creating(v) /\ visit[v].creating
        BY DEF IInv, FormInv, FormOf, Creating, Saving
      <4>2. ~visit'[v].canDiscard
        BY <2>2, <3>1, <4>1 DEF IInv, FormInv, FormOf, AnswerInv, AnswerOf
      <4> QED BY <1>a, <3>0, <3>1, <4>2 DEF IInv, FormInv, FormOf
    <3>2. CASE /\ visit[v].step = "saving" /\ visit[v].creating
               /\ visit[v].answer = "ok"
               /\ visit'[v].saved = visit[v].of /\ ~visit'[v].canDiscard
      <4>1. Creating(v)
        BY <3>2 DEF Creating, Saving
      <4> QED BY <3>0, <3>2, <4>1 DEF IInv, FormInv, FormOf, AnswerInv, AnswerOf
    <3> QED BY <2>2, <3>1, <3>2, AwayFields
  <2>6. /\ visit'[v].step = "saving" => FALSE
        /\ v > now' => FALSE
    BY <1>a, <2>2, <1>c, Basics
  <2>7. ASSUME NEW w \in Visits \ {v}
        PROVE  FormOf(w)'
    BY <2>1 DEF IInv, FormInv, FormOf
  <2>8. FormOf(v)'
    <3>1. now' = now
      BY <1>a
    <3> QED BY <2>2, <2>3, <2>4, <2>5, <2>6, <3>1 DEF FormOf
  <2> QED BY <2>7, <2>8 DEF FormInv
<1>5. OneCreate => OneKeyInv'
  <2>1. \A w \in Visits : Creating(w)' => Creating(w) /\ visit'[w].of = visit[w].of
    BY <1>a, <1>b
  <2>2. visit'[now].pending # NoPending =>
          visit[now].pending # NoPending /\ visit'[now].pending.key = visit[now].pending.key
    BY <1>a, <1>c, Basics DEF SameRecord
  <2>3. \/ storage' = storage \/ storage' = NoPending
        \/ Creating(v) /\ storage'.key = visit[v].of
    <3>1. Creating(v) /\ visit[v].pending # NoPending => visit[v].pending.key = visit[v].of
      BY DEF IInv, FormInv, FormOf
    <3> QED BY <1>0, <3>1 DEF ResponseShape, StoresAtMost, SameRecord
  <2> QED BY <1>a, <2>1, <2>2, <2>3 DEF OneCreate, OneKeyInv
<1>6. ASSUME NEW k \in Keys, NEW t \in Texts, Says(k, t)'
      PROVE  Says(k, t)
  <2>1. CASE storage'.key = k /\ storage'.text = t
    BY <1>0, <2>1, Basics DEF ResponseShape, StoresAtMost, SameRecord, Says
  <2>2. ASSUME NEW w \in Visits, visit'[w].pending.key = k, visit'[w].pending.text = t
        PROVE  Says(k, t)
    BY <1>a, <2>2, Basics DEF SameRecord, Says
  <2>3. ASSUME NEW w \in Visits, Creating(w)', visit'[w].of = k, visit'[w].submitted = t
        PROVE  Says(k, t)
    BY <1>a, <1>b, <2>3 DEF Says
  <2>4. ASSUME NEW c \in wire', c.kind = "create", c.key = k, c.text = t
        PROVE  Says(k, t)
    BY <1>0, <2>4 DEF ResponseShape, SendsAtMost, Says
  <2> QED BY <1>6, <2>1, <2>2, <2>3, <2>4 DEF Says
<1>7. TextInv'
  BY <1>6, <1>a DEF IInv, TextInv
<1>8. ASSUME NEW k \in Keys, Owed(k)'
      PROVE  Owed(k)
  <2>1. ASSUME NEW c \in wire', c.kind = "create"
        PROVE  c \in wire
    BY <1>0, <2>1 DEF ResponseShape, SendsAtMost
  <2>2. visit'[now].pending.key = k => visit'[now].pending.text = visit[now].pending.text
                                       /\ visit[now].pending.key = k
    BY <1>a, <1>c, Basics DEF SameRecord
  <2>3. \A t : Rejected(t)' = Rejected(t)
    BY <1>a DEF Rejected
  <2> QED BY <1>8, <1>a, <2>1, <2>2, <2>3 DEF Owed
<1>9. OneCreate => OwedInv'
  <2> SUFFICES ASSUME OneCreate, NEW k \in Keys, Owed(k)'
               PROVE  storage'.key = k
    BY DEF OwedInv
  <2>1. Owed(k) /\ storage.key = k /\ storage # NoPending
    BY <1>8, Basics DEF OneCreate, OwedInv
  <2>2. CASE storage' = NoPending /\ storage.key \in planned
    BY <2>1, <2>2 DEF Owed
  <2>3. CASE Refused(v)
    <3>1. Creating(v)
      BY <2>3 DEF Refused, Creating, Saving
    <3>2. visit[v].of = k
      BY <2>1, <3>1 DEF OneCreate, OneKeyInv
    <3> QED BY <2>1, <2>3, <3>2, RefusedIsNotOwed
  <2>4. CASE Creating(v) /\ SameRecord(storage', visit[v].pending)
             /\ visit[v].pending # NoPending
    BY <2>1, <2>4 DEF OneCreate, IInv, OneKeyInv, FormInv, FormOf, SameRecord
  <2> QED BY <1>0, <2>1, <2>2, <2>3, <2>4 DEF ResponseShape, StoresAtMost
<1>10. OneCreate => FreshInv'
  <2> SUFFICES ASSUME OneCreate, FreshForm', NEW k \in Keys, Owed(k)'
               PROVE  FALSE
    BY DEF FreshInv
  <2>1. Owed(k) /\ storage.key = k /\ storage # NoPending
    BY <1>8, Basics DEF OneCreate, OwedInv
  <2>2. CASE v # now
    <3>1. FreshForm
      BY <1>a, <1>c, <2>2 DEF FreshForm, OnForm, Form
    <3> QED BY <2>1, <3>1 DEF OneCreate, FreshInv
  <2>3. CASE v = now
    <3>1. /\ visit'[v].step = "shown" /\ visit'[v].saved = 0
          /\ visit'[v].pending = NoPending
      BY <1>a, <2>3 DEF FreshForm, Form
    <3>2. Saving(v) /\ (EndsWithout(v) \/ visit[v].pending = NoPending)
      BY <1>a, <3>1 DEF KeepsPending
    <3>3. visit[v].saved = 0 \/ (visit[v].step = "saving" /\ visit[v].creating)
      BY <1>0, <3>1, AwayFields DEF ResponseShape, RemembersAtMost
    <3>4. visit[v].step = "saving" /\ visit[v].creating
      BY <2>3, <3>2, <3>3 DEF IInv, FormInv, FormOf, Saving
    <3>5. Creating(v)
      BY <3>4 DEF Creating, Saving
    <3>6. visit[v].of = k
      BY <2>1, <3>5 DEF OneCreate, OneKeyInv
    <3>7. CASE Refused(v)
      BY <2>1, <3>6, <3>7, RefusedIsNotOwed
    <3>8. CASE visit[v].pending = NoPending
      BY <2>1, <3>5, <3>6, <3>8 DEF IInv, FormInv, FormOf, Owed
    <3> QED BY <3>2, <3>4, <3>7, <3>8 DEF EndsWithout
  <2> QED BY <2>2, <2>3
<1> QED BY <1>1, <1>2, <1>3, <1>4, <1>5, <1>7, <1>9, <1>10 DEF IInv, OneCreate

----------------------------------------------------------------------------
(* The API, and the clock.                                                 *)

(* Of a visit, only its answer changes.                                    *)
SameVisit(v) ==
    /\ visit'[v].page = visit[v].page /\ visit'[v].of = visit[v].of
    /\ visit'[v].step = visit[v].step /\ visit'[v].pending = visit[v].pending
    /\ visit'[v].blocked = visit[v].blocked /\ visit'[v].saved = visit[v].saved
    /\ visit'[v].submitted = visit[v].submitted
    /\ visit'[v].retry = visit[v].retry
    /\ visit'[v].creating = visit[v].creating
    /\ visit'[v].canDiscard = visit[v].canDiscard

(* Nor does what is on screen, was typed or came back.                     *)
SameAnswers(v) ==
    /\ visit'[v].current = visit[v].current
    /\ visit'[v].typed = visit[v].typed
    /\ visit'[v].stored = visit[v].stored

LEMMA AnswerArrives ==
    ASSUME TypeInv, NEW v \in Visits,
           NEW a \in {NoCall, "ok", "invalid", "missing", "lost"},
           visit' = [visit EXCEPT ![v].answer = a]
    PROVE  /\ visit' \in [Visits -> VisitType]
           /\ \A w \in Visits : SameVisit(w) /\ SameAnswers(w)
           /\ visit'[v].answer = a
           /\ \A w \in Visits \ {v} : visit'[w] = visit[w]
<1>1. visit[v] \in VisitType
  BY DEF TypeInv
<1>2. visit' = [visit EXCEPT ![v] = [visit[v] EXCEPT !.answer = a]]
  BY DEF TypeInv
<1> QED BY <1>1, <1>2 DEF TypeInv, VisitType, SameVisit, SameAnswers

(* The calls of wire' are those of wire, some of them given up.            *)
NoNewCall ==
    \A c \in wire' : \E d \in wire :
        /\ c.kind = d.kind /\ c.key = d.key /\ c.text = d.text
        /\ c.from = 0 \/ c = d

(* An event comes to be by a create that was under way, and is not undone. *)
NoNewEvent ==
    \A k \in Keys :
        \/ event'[k] = event[k]
        \/ event[k] # Blank /\ event'[k] # Blank
        \/ /\ event[k] = Blank /\ event'[k] # Blank
           /\ \E c \in wire : c.kind = "create" /\ c.key = k /\ ~Rejected(c.text)

LEMMA RejectedStays ==
    ASSUME TypeInv, expired => expired', NEW t, Rejected(t)
    PROVE  Rejected(t)'
BY DEF Rejected

(* What was refused is not made behind the form's back.                    *)
LEMMA AnswerStays ==
    ASSUME IInv, NEW v \in Visits, SameVisit(v),
           visit'[v].answer = visit[v].answer,
           NoNewEvent, planned \subseteq planned', expired => expired'
    PROVE  AnswerOf(v)'
<1>1. AnswerOf(v) /\ TypeInv
  BY DEF IInv, AnswerInv
<1>2. ASSUME visit[v].step = "saving", visit[v].creating
      PROVE  visit[v].of \in Keys
  <2>1. Creating(v)
    BY <1>2 DEF Creating, Saving
  <2> QED BY <1>1, <2>1 DEF IInv, FormInv, FormOf, TypeInv, VisitType, KeyOrNone
<1>3. ASSUME Refused(v)
      PROVE  event'[visit[v].of] = Blank /\ Rejected(visit[v].submitted)'
  <2>1. /\ event[visit[v].of] = Blank /\ Rejected(visit[v].submitted)
        /\ visit[v].of \in Keys
    BY <1>1, <1>2, <1>3 DEF AnswerOf, Refused
  <2>2. ASSUME NEW c \in wire, c.kind = "create", c.key = visit[v].of
        PROVE  Rejected(c.text)
    <3>1. Creating(v)
      BY <1>3 DEF Refused, Creating, Saving
    <3>2. Says(visit[v].of, c.text) /\ Says(visit[v].of, visit[v].submitted)
      BY <2>2, <3>1 DEF Says
    <3>3. c.text \in Texts /\ visit[v].submitted \in Texts
      BY <1>1 DEF TypeInv, CallType, VisitType
    <3>4. c.text = visit[v].submitted
      BY <2>1, <3>2, <3>3 DEF IInv, TextInv
    <3> QED BY <2>1, <3>4
  <2>3. Rejected(visit[v].submitted)'
    BY <1>1, <2>1, RejectedStays DEF SameVisit, Rejected
  <2> QED BY <2>1, <2>2, <2>3 DEF NoNewEvent
<1>4. visit[v].of \in Keys /\ event[visit[v].of] # Blank => event'[visit[v].of] # Blank
  BY DEF NoNewEvent
<1> QED BY <1>1, <1>2, <1>3, <1>4 DEF AnswerOf, Refused, SameVisit

LEMMA ApiKeeps ==
    ASSUME IInv, UNCHANGED <<now, minted, discarded>>,
           visit' \in [Visits -> VisitType], \A v \in Visits : SameVisit(v),
           \A v \in Visits : visit'[v] = visit[v] \/ visit[v] # Away,
           wire' \subseteq CallType, NoNewCall,
           event' \in [Keys -> Texts], NoNewEvent,
           planned \subseteq planned', planned' \subseteq Keys,
           expired' \in BOOLEAN, expired => expired',
           storage' = storage \/ (storage' = NoPending /\ storage.key \in planned),
           CallInv', AnswerInv'
    PROVE  IInv' /\ (OneCreate => OneCreate')
<1>0. /\ TypeInv /\ now \in Visits
      /\ \A v \in Visits : Saving(v)' = Saving(v) /\ Creating(v)' = Creating(v)
  BY DEF IInv, TypeInv, SameVisit, Saving, Creating
<1>1. TypeInv'
  BY <1>0, Basics DEF TypeInv
<1>2. ASSUME NEW v \in Visits
      PROVE  FormOf(v)'
  <2>1. FormOf(v) /\ SameVisit(v)
    BY DEF IInv, FormInv
  <2>2. v > now' => visit'[v] = Away
    BY <2>1 DEF FormOf
  <2>3. visit[v].saved # 0 => event'[visit[v].saved] # Blank
    <3>1. visit[v].saved # 0 => visit[v].saved \in Keys
      BY <1>0 DEF TypeInv, VisitType, KeyOrNone
    <3> QED BY <2>1, <3>1 DEF FormOf, NoNewEvent
  <2> QED BY <1>0, <2>1, <2>2, <2>3 DEF FormOf, SameVisit
<1>3. OneCreate => OneKeyInv'
  BY <1>0 DEF OneCreate, OneKeyInv, SameVisit
<1>4. ASSUME NEW k \in Keys, NEW t \in Texts, Says(k, t)'
      PROVE  Says(k, t)
  <2>1. CASE storage'.key = k /\ storage'.text = t
    BY <2>1, Basics DEF Says
  <2>2. ASSUME NEW w \in Visits, visit'[w].pending.key = k, visit'[w].pending.text = t
        PROVE  Says(k, t)
    BY <2>2 DEF SameVisit, Says
  <2>3. ASSUME NEW w \in Visits, Creating(w)', visit'[w].of = k, visit'[w].submitted = t
        PROVE  Says(k, t)
    BY <1>0, <2>3 DEF SameVisit, Says
  <2>4. ASSUME NEW c \in wire', c.kind = "create", c.key = k, c.text = t
        PROVE  Says(k, t)
    BY <2>4 DEF NoNewCall, Says
  <2> QED BY <1>4, <2>1, <2>2, <2>3, <2>4 DEF Says
<1>5. TextInv'
  BY <1>4 DEF IInv, TextInv
<1>6. ASSUME NEW k \in Keys, Owed(k)'
      PROVE  Owed(k)
  <2>1. \A t : ~Rejected(t)' => ~Rejected(t)
    BY <1>0, RejectedStays
  <2>2. k \notin planned \cup discarded
    BY <1>6 DEF Owed
  <2>3. CASE event'[k] # Blank
    BY <2>2, <2>3 DEF NoNewEvent, Owed
  <2>4. ASSUME NEW c \in wire', c.kind = "create", c.key = k, ~Rejected(c.text)'
        PROVE  Owed(k)
    BY <2>1, <2>2, <2>4 DEF NoNewCall, Owed
  <2>5. CASE (visit[now].pending.key = k /\ ~Rejected(visit[now].pending.text))'
    <3>1. visit'[now'].pending = visit[now].pending
      BY <1>0 DEF SameVisit
    <3> QED BY <2>2, <2>5, <3>1 DEF Owed, Rejected
  <2> QED BY <1>6, <2>3, <2>4, <2>5 DEF Owed
<1>7. OneCreate => OwedInv'
  <2> SUFFICES ASSUME OneCreate, NEW k \in Keys, Owed(k)'
               PROVE  storage'.key = k
    BY DEF OwedInv
  <2>1. Owed(k) /\ storage.key = k
    BY <1>6 DEF OneCreate, OwedInv
  <2> QED BY <2>1 DEF Owed
<1>8. OneCreate => FreshInv'
  <2>1. FreshForm' => FreshForm
    BY <1>0 DEF FreshForm, OnForm, Form, SameVisit
  <2> QED BY <1>6, <2>1 DEF OneCreate, FreshInv
<1> QED BY <1>1, <1>2, <1>3, <1>5, <1>7, <1>8 DEF IInv, FormInv, OneCreate

LEMMA HearShape ==
    ASSUME IInv, NEW c \in wire, NEW a \in {"ok", "invalid", "missing"}, Hear(c, a)
    PROVE  /\ visit' \in [Visits -> VisitType]
           /\ \A v \in Visits : SameVisit(v) /\ SameAnswers(v)
           /\ \A v \in Visits :
                 \/ visit'[v] = visit[v]
                 \/ /\ v = c.from /\ visit'[v].answer = a
                    /\ visit[v].step \in StepsOf(c.kind)
           /\ \A d \in wire' : d.from # 0 => visit'[d.from] = visit[d.from]
           /\ wire' \subseteq wire /\ NoNewCall
           /\ UNCHANGED <<storage, now, minted, discarded, expired>>
<1>0. TypeInv /\ CallInv /\ c \in CallType
  BY DEF IInv, TypeInv
<1>1. /\ wire' = wire \ {c}
      /\ UNCHANGED <<storage, now, minted, discarded, expired>>
  BY DEF Hear
<1>2. NoNewCall
  BY <1>1 DEF NoNewCall
<1>3. CASE c.from = 0
  <2>1. visit' = visit
    BY <1>3 DEF Hear
  <2> QED BY <1>0, <1>1, <1>2, <2>1 DEF SameVisit, SameAnswers, TypeInv
<1>4. CASE c.from # 0
  <2>1. c.from \in Visits /\ visit' = [visit EXCEPT ![c.from].answer = a]
    BY <1>0, <1>4 DEF Hear, CallType
  <2>2. /\ visit' \in [Visits -> VisitType]
        /\ \A v \in Visits : SameVisit(v) /\ SameAnswers(v)
        /\ visit'[c.from].answer = a
        /\ \A v \in Visits \ {c.from} : visit'[v] = visit[v]
    BY <1>0, <2>1, AnswerArrives
  <2>3. visit[c.from].step \in StepsOf(c.kind)
    BY <1>0, <1>4 DEF CallInv
  <2>4. ASSUME NEW d \in wire', d.from # 0
        PROVE  visit'[d.from] = visit[d.from]
    <3>1. d \in wire /\ d # c
      BY <1>1
    <3>2. d.from # c.from /\ d.from \in Visits
      BY <1>0, <1>4, <2>4, <3>1 DEF CallInv, TypeInv, CallType
    <3> QED BY <2>2, <3>2
  <2> QED BY <1>1, <1>2, <2>2, <2>3, <2>4
<1> QED BY <1>3, <1>4

(* An answer that the state bears out keeps the invariant.                 *)
LEMMA HearKeeps ==
    ASSUME IInv, NEW c \in wire, NEW a \in {"ok", "invalid", "missing"}, Hear(c, a),
           event' \in [Keys -> Texts], NoNewEvent,
           planned \subseteq planned', planned' \subseteq Keys,
           c.from \in Visits => AnswerOf(c.from)'
    PROVE  IInv' /\ (OneCreate => OneCreate')
<1>0. TypeInv /\ c \in CallType
  BY DEF IInv, TypeInv
<1>1. /\ visit' \in [Visits -> VisitType]
      /\ \A v \in Visits : SameVisit(v)
      /\ \A v \in Visits :
            \/ visit'[v] = visit[v]
            \/ /\ v = c.from /\ visit'[v].answer = a
               /\ visit[v].step \in StepsOf(c.kind)
      /\ \A d \in wire' : d.from # 0 => visit'[d.from] = visit[d.from]
      /\ wire' \subseteq wire /\ NoNewCall
      /\ UNCHANGED <<storage, now, minted, discarded, expired>>
  BY HearShape
<1>2. CallInv'
  <2>1. ASSUME NEW d \in wire', d.kind = "edit"
        PROVE  event'[d.key] # Blank
    BY <1>0, <1>1, <2>1 DEF NoNewEvent, IInv, CallInv, TypeInv, CallType
  <2>2. ASSUME NEW d \in wire', d.from # 0
        PROVE  /\ visit'[d.from].answer = NoCall
               /\ visit'[d.from].of = d.key
               /\ visit'[d.from].step \in StepsOf(d.kind)
               /\ d.kind = "create" => visit'[d.from].creating
               /\ d.kind = "edit" => ~visit'[d.from].creating
    BY <1>1, <2>2 DEF IInv, CallInv
  <2>3. \A d, e \in wire' : d.from = e.from /\ d.from # 0 => d = e
    BY <1>1 DEF IInv, CallInv
  <2> QED BY <2>1, <2>2, <2>3 DEF CallInv
<1>3. AnswerInv'
  <2>1. ASSUME NEW v \in Visits, visit'[v] = visit[v]
        PROVE  AnswerOf(v)'
    BY <1>1, <2>1, AnswerStays
  <2> QED BY <1>1, <2>1 DEF AnswerInv
<1>4. \A v \in Visits : visit'[v] = visit[v] \/ visit[v] # Away
  BY <1>1, AwayFields DEF StepsOf
<1>5. wire' \subseteq CallType /\ expired' \in BOOLEAN
  BY <1>0, <1>1 DEF TypeInv
<1> QED BY <1>1, <1>2, <1>3, <1>4, <1>5, ApiKeeps

LEMMA ServeKeeps == ASSUME IInv, NEW c \in wire, Serve(c) PROVE IInv' /\ (OneCreate => OneCreate')
<1>0. /\ TypeInv /\ c \in CallType /\ c.key \in Keys /\ c.text \in Texts
      /\ event \in [Keys -> Texts] /\ planned \subseteq Keys
  BY DEF IInv, TypeInv, CallType
<1>1. ASSUME c.from \in Visits
      PROVE  /\ visit[c.from].of = c.key
             /\ visit[c.from].step \in StepsOf(c.kind)
             /\ c.kind = "create" => visit[c.from].creating
             /\ c.kind = "edit" => ~visit[c.from].creating
  BY <1>1, Basics DEF IInv, CallInv
<1>2. ASSUME NEW a \in {"ok", "invalid", "missing"}, Hear(c, a), c.from \in Visits
      PROVE  SameVisit(c.from) /\ UNCHANGED expired
             /\ (visit'[c.from].answer \in {a, visit[c.from].answer})
  BY <1>2, HearShape
(* The answer reaches a visit at a step its kind of call goes with.        *)
<1>3. CASE ServeCreate(c)
  <2>0. ASSUME c.from \in Visits
        PROVE  visit[c.from].submitted = c.text
    <3>1. Creating(c.from) /\ visit[c.from].of = c.key
      BY <1>1, <1>3, <2>0 DEF Creating, Saving, StepsOf, ServeCreate
    <3>2. Says(c.key, c.text) /\ Says(c.key, visit[c.from].submitted)
      BY <1>3, <2>0, <3>1 DEF Says, ServeCreate
    <3>3. visit[c.from].submitted \in Texts
      BY <1>0, <2>0 DEF TypeInv, VisitType
    <3> QED BY <1>0, <3>2, <3>3 DEF IInv, TextInv
  <2>1. c.from \in Visits => visit[c.from].step = "saving"
    BY <1>1, <1>3 DEF StepsOf, ServeCreate
  <2>2. c.from \in Visits => visit[c.from].answer = NoCall
    BY Basics DEF IInv, CallInv
  <2>3. CASE event[c.key] # Blank /\ Hear(c, "ok") /\ UNCHANGED <<event, planned>>
    <3>1. NoNewEvent
      BY <2>3 DEF NoNewEvent
    <3>2. c.from \in Visits => AnswerOf(c.from)'
      BY <1>1, <1>2, <2>1, <2>2, <2>3 DEF AnswerOf, SameVisit, NoCall
    <3> QED BY <1>0, <2>3, <3>1, <3>2, HearKeeps
  <2>4. CASE event[c.key] = Blank /\ Rejected(c.text) /\ Hear(c, "invalid")
             /\ UNCHANGED <<event, planned>>
    <3>1. NoNewEvent
      BY <2>4 DEF NoNewEvent
    <3>2. ASSUME c.from \in Visits
          PROVE  AnswerOf(c.from)'
      <4>1. Rejected(visit[c.from].submitted)'
        BY <1>2, <2>0, <2>4, <3>2 DEF SameVisit, Rejected
      <4> QED BY <1>1, <1>2, <2>1, <2>2, <2>4, <3>2, <4>1
              DEF AnswerOf, SameVisit, NoCall
    <3> QED BY <1>0, <2>4, <3>1, <3>2, HearKeeps
  <2>5. CASE /\ event[c.key] = Blank /\ ~Rejected(c.text) /\ Hear(c, "ok")
             /\ event' = [event EXCEPT ![c.key] = c.text] /\ UNCHANGED planned
    <3>0. c.text # Blank /\ event'[c.key] = c.text
      BY <1>0, <2>5 DEF Rejected
    <3>1. event' \in [Keys -> Texts] /\ NoNewEvent
      BY <1>0, <1>3, <2>5, <3>0 DEF NoNewEvent, ServeCreate
    <3>2. c.from \in Visits => AnswerOf(c.from)'
      BY <1>1, <1>2, <2>1, <2>2, <2>5, <3>0 DEF AnswerOf, SameVisit, NoCall
    <3> QED BY <1>0, <2>5, <3>1, <3>2, HearKeeps
  <2> QED BY <1>3, <2>3, <2>4, <2>5 DEF ServeCreate
<1>4. CASE ServeEdit(c)
  <2>1. c.from \in Visits =>
          visit[c.from].step = "saving" /\ ~visit[c.from].creating
    BY <1>1, <1>4 DEF StepsOf, ServeEdit
  <2>2. ASSUME NEW a \in {"ok", "invalid"}, Hear(c, a), c.from \in Visits
        PROVE  AnswerOf(c.from)'
    BY <1>2, <2>1, <2>2 DEF AnswerOf, SameVisit
  <2>3. CASE Hear(c, "invalid") /\ UNCHANGED <<event, planned>>
    <3>1. NoNewEvent
      BY <2>3 DEF NoNewEvent
    <3> QED BY <1>0, <2>2, <2>3, <3>1, HearKeeps
  <2>4. CASE /\ ~Rejected(c.text) /\ Hear(c, "ok")
             /\ event' = [event EXCEPT ![c.key] = c.text] /\ UNCHANGED planned
    <3>0. c.text # Blank /\ event[c.key] # Blank
      BY <1>4, <2>4 DEF Rejected, IInv, CallInv, ServeEdit
    <3>1. event' \in [Keys -> Texts] /\ NoNewEvent
      BY <1>0, <2>4, <3>0 DEF NoNewEvent
    <3> QED BY <1>0, <2>2, <2>4, <3>1, HearKeeps
  <2> QED BY <1>4, <2>3, <2>4 DEF ServeEdit
<1>5. CASE ServePlan(c)
  <2>1. /\ Hear(c, "ok") /\ UNCHANGED event
        /\ planned' = planned \cup {c.key}
    BY <1>5 DEF ServePlan
  <2>2. c.from \in Visits => visit[c.from].step \in {"planning", "generating"}
    BY <1>1, <1>5 DEF StepsOf, ServePlan
  <2>3. NoNewEvent
    BY <2>1 DEF NoNewEvent
  <2>4. c.from \in Visits => AnswerOf(c.from)'
    BY <1>1, <1>2, <2>1, <2>2 DEF AnswerOf, SameVisit
  <2> QED BY <1>0, <2>1, <2>3, <2>4, HearKeeps
<1>6. CASE ServeRead(c)
  <2>1. /\ UNCHANGED <<event, planned>>
        /\ \/ c.key \in planned /\ Hear(c, "ok")
           \/ c.key \notin planned /\ Hear(c, "missing")
    BY <1>6 DEF ServeRead
  <2>2. c.from \in Visits =>
          /\ visit[c.from].step \in {"checking", "loading", "rereading"}
          /\ visit[c.from].answer = NoCall
    BY <1>1, <1>6, Basics DEF StepsOf, ServeRead, IInv, CallInv
  <2>3. NoNewEvent
    BY <2>1 DEF NoNewEvent
  <2>4. CASE c.key \in planned /\ Hear(c, "ok")
    <3>1. c.from \in Visits => AnswerOf(c.from)'
      BY <1>1, <1>2, <2>1, <2>2, <2>4 DEF AnswerOf, SameVisit
    <3> QED BY <1>0, <2>1, <2>3, <2>4, <3>1, HearKeeps
  <2>5. CASE Hear(c, "missing")
    <3>1. c.from \in Visits => AnswerOf(c.from)'
      BY <1>1, <1>2, <2>1, <2>2, <2>5 DEF AnswerOf, SameVisit, NoCall
    <3> QED BY <1>0, <2>1, <2>3, <2>5, <3>1, HearKeeps
  <2> QED BY <2>1, <2>4, <2>5
<1> QED BY <1>3, <1>4, <1>5, <1>6 DEF Serve

LEMMA TidyKeeps ==
    ASSUME IInv, NEW c \in wire, NEW ok \in BOOLEAN, Tidy(c, ok)
    PROVE  IInv' /\ (OneCreate => OneCreate')
<1>0. TypeInv /\ c \in CallType /\ c.key \in Keys
  BY DEF IInv, TypeInv, CallType
<1>1. /\ wire' = wire \ {c}
      /\ UNCHANGED <<visit, now, minted, event, planned, discarded, expired>>
  BY DEF Tidy
<1>2. storage' = storage \/ (storage' = NoPending /\ storage.key \in planned)
  BY <1>0, ClearedRecord DEF Tidy
<1>3. CallInv' /\ AnswerInv' /\ NoNewCall /\ NoNewEvent
  BY <1>1 DEF IInv, CallInv, AnswerInv, AnswerOf, Rejected, NoNewCall, NoNewEvent
<1>4. \A v \in Visits : SameVisit(v)
  BY <1>1 DEF SameVisit
<1>5. /\ wire' \subseteq CallType /\ expired' \in BOOLEAN
      /\ visit' \in [Visits -> VisitType] /\ event' \in [Keys -> Texts]
      /\ planned' \subseteq Keys
  BY <1>0, <1>1 DEF TypeInv
<1> QED BY <1>1, <1>2, <1>3, <1>4, <1>5, ApiKeeps

LEMMA DatePassesKeeps == ASSUME IInv, DatePasses PROVE IInv' /\ (OneCreate => OneCreate')
<1>1. /\ UNCHANGED <<storage, visit, now, minted, wire, event, planned, discarded>>
      /\ expired' = TRUE
  BY DEF DatePasses
<1>2. \A v \in Visits : SameVisit(v)
  BY <1>1 DEF SameVisit
<1>3. NoNewCall /\ NoNewEvent
  BY <1>1 DEF NoNewCall, NoNewEvent
<1>4. CallInv'
  BY <1>1 DEF IInv, CallInv
<1>5. AnswerInv'
  <2>1. \A v \in Visits : visit'[v].answer = visit[v].answer
    BY <1>1
  <2> QED BY <1>1, <1>2, <1>3, <2>1, AnswerStays DEF AnswerInv
<1>6. /\ wire' \subseteq CallType /\ expired' \in BOOLEAN
      /\ visit' \in [Visits -> VisitType] /\ event' \in [Keys -> Texts]
      /\ planned' \subseteq Keys
  BY <1>1 DEF IInv, TypeInv
<1> QED BY <1>1, <1>2, <1>3, <1>4, <1>5, <1>6, ApiKeeps

(* Giving a visit's calls up leaves the others' as they are.               *)
LEMMA GivenUpCalls ==
    ASSUME TypeInv, NEW v \in Visits
    PROVE  /\ GivenUp(v) \subseteq CallType
           /\ \A c \in GivenUp(v) :
                 /\ c.from # v
                 /\ \E d \in wire :
                       /\ c.kind = d.kind /\ c.key = d.key /\ c.text = d.text
                       /\ c.from = 0 \/ c = d
<1>1. ASSUME NEW d \in wire
      PROVE  LET c == [d EXCEPT !.from = 0] IN
             /\ c \in CallType /\ c.from = 0
             /\ c.kind = d.kind /\ c.key = d.key /\ c.text = d.text
  BY DEF TypeInv, CallType
<1>2. ASSUME NEW c \in GivenUp(v)
      PROVE  \/ c \in wire /\ c.from # v
             \/ \E d \in wire : c = [d EXCEPT !.from = 0]
  BY <1>2 DEF GivenUp
<1>3. ASSUME NEW c \in GivenUp(v)
      PROVE  /\ c \in CallType /\ c.from # v
             /\ \E d \in wire :
                   /\ c.kind = d.kind /\ c.key = d.key /\ c.text = d.text
                   /\ c.from = 0 \/ c = d
  <2>1. CASE c \in wire /\ c.from # v
    BY <2>1 DEF TypeInv
  <2>2. ASSUME NEW d \in wire, c = [d EXCEPT !.from = 0]
        PROVE  /\ c \in CallType /\ c.from = 0
               /\ c.kind = d.kind /\ c.key = d.key /\ c.text = d.text
    BY <1>1, <2>2
  <2> QED BY <1>2, <1>3, <2>1, <2>2, Basics
<1> QED BY <1>3

LEMMA GivenUpKeepsCalls ==
    ASSUME IInv, NEW v \in Visits, wire' = GivenUp(v),
           \A w \in Visits \ {v} : visit'[w] = visit[w], UNCHANGED event
    PROVE  CallInv' /\ NoNewCall /\ wire' \subseteq CallType
<1>1. \A c \in wire' : /\ c.from # v
                       /\ \E d \in wire :
                             /\ c.kind = d.kind /\ c.key = d.key /\ c.text = d.text
                             /\ c.from = 0 \/ c = d
  BY GivenUpCalls DEF IInv
<1>2. ASSUME NEW c \in wire', c.from # 0
      PROVE  c \in wire /\ c.from \in Visits \ {v}
  BY <1>1, <1>2 DEF IInv, TypeInv, CallType
<1>3. \A c \in wire' : c.kind = "edit" => event'[c.key] # Blank
  BY <1>1 DEF IInv, CallInv
<1>4. NoNewCall
  BY <1>1 DEF NoNewCall
<1> QED BY <1>2, <1>3, <1>4, GivenUpCalls DEF IInv, CallInv

LEMMA UnheardKeeps == ASSUME IInv, NEW v \in Visits, Unheard(v) PROVE IInv' /\ (OneCreate => OneCreate')
<1>0. TypeInv
  BY DEF IInv
<1>1. /\ wire' = GivenUp(v) /\ visit' = [visit EXCEPT ![v].answer = "lost"]
      /\ visit[v].step # "gone"
      /\ UNCHANGED <<storage, now, minted, event, planned, discarded, expired>>
  BY DEF Unheard
<1>2. /\ visit' \in [Visits -> VisitType]
      /\ \A w \in Visits : SameVisit(w)
      /\ visit'[v].answer = "lost"
      /\ \A w \in Visits \ {v} : visit'[w] = visit[w]
  BY <1>0, <1>1, AnswerArrives
<1>3. CallInv' /\ NoNewCall /\ wire' \subseteq CallType
  BY <1>1, <1>2, GivenUpKeepsCalls
<1>4. AnswerInv'
  BY <1>1, <1>2 DEF IInv, AnswerInv, AnswerOf, Rejected
<1>5. NoNewEvent
  BY <1>1 DEF NoNewEvent
<1>6. /\ expired' \in BOOLEAN /\ event' \in [Keys -> Texts] /\ planned' \subseteq Keys
  BY <1>0, <1>1 DEF TypeInv
<1>7. \A w \in Visits : visit'[w] = visit[w] \/ visit[w] # Away
  BY <1>1, <1>2, AwayFields
<1> QED BY <1>1, <1>2, <1>3, <1>4, <1>5, <1>6, <1>7, ApiKeeps

----------------------------------------------------------------------------
(* Moving between the pages: a save goes on after its page was left, and   *)
(* the next page knows at most the recovery there is.                      *)

LEMMA ArriveShape ==
    ASSUME TypeInv, NEW page, NEW k, NEW new \in VisitType, Arrive(page, k, new)
    PROVE  /\ now \in Nat /\ now' = now + 1 /\ now' \in Visits /\ now' # now
           /\ visit' \in [Visits -> VisitType]
           /\ visit'[now'] = new
           /\ visit'[now] = (IF Saving(now) THEN visit[now] ELSE Away)
           /\ \A w \in Visits \ {now, now'} : visit'[w] = visit[w]
           /\ UNCHANGED <<storage, minted, discarded, event, planned, expired>>
<1>1. /\ now \in Nat /\ now' = now + 1 /\ now' \in Visits /\ now' # now
      /\ now \in Visits
      /\ UNCHANGED <<storage, minted, discarded, event, planned, expired>>
  BY Basics DEF Arrive, TypeInv, Visits
<1>2. Leave \in VisitType
  BY <1>1, AwayFields DEF Leave, TypeInv
<1>3. visit' = [visit EXCEPT ![now] = Leave, ![now'] = new]
  BY <1>1 DEF Arrive
<1>4. /\ visit' \in [Visits -> VisitType]
      /\ visit'[now'] = new /\ visit'[now] = Leave
      /\ \A w \in Visits \ {now, now'} : visit'[w] = visit[w]
  BY <1>1, <1>2, <1>3 DEF TypeInv
<1> QED BY <1>1, <1>4 DEF Leave

LEMMA ArriveKeeps ==
    ASSUME IInv, NEW page, NEW k, NEW new \in VisitType, Arrive(page, k, new),
           new.step \in {"shown", "loading"}, new.answer = NoCall,
           ~new.canDiscard, new.step = "loading" => new.of # 0,
           new.pending \in {NoPending, storage},
           new.saved # 0 => event[new.saved] # Blank /\ new.pending = NoPending,
           new.step = "shown" /\ new.page \in {"new", "edit"} /\ ~new.blocked
              /\ new.saved = 0 /\ new.pending = NoPending => storage = NoPending,
           NEW reads \in SUBSET CallType, wire' = StillAwaited \cup reads,
           \A c \in reads :
              /\ c.kind \in {"read", "tidy"}
              /\ c.from # 0 => /\ c.from = now + 1 /\ c.kind = "read"
                               /\ c.key = new.of /\ new.step = "loading",
           \A c, d \in reads : c.from # 0 /\ d.from # 0 => c = d
    PROVE  IInv' /\ (OneCreate => OneCreate')
<1>0. TypeInv
  BY DEF IInv
<1>a. /\ now \in Nat /\ now' = now + 1 /\ now' \in Visits /\ now' # now
      /\ now \in Visits
      /\ visit' \in [Visits -> VisitType]
      /\ visit'[now'] = new
      /\ visit'[now] = (IF Saving(now) THEN visit[now] ELSE Away)
      /\ \A w \in Visits \ {now, now'} : visit'[w] = visit[w]
      /\ UNCHANGED <<storage, minted, discarded, event, planned, expired>>
  BY <1>0, ArriveShape DEF TypeInv
<1>n. PICK n \in Visits : n = now'
  BY <1>a
<1>b. visit[n] = Away
  BY <1>a, <1>n DEF IInv, FormInv, FormOf
<1>c. \A w \in Visits \ {n} :
         \/ visit'[w] = visit[w]
         \/ w = now /\ ~Saving(w) /\ visit'[w] = Away
  BY <1>a, <1>n
<1>d. /\ new.step # "saving" /\ ~Saving(n)' /\ ~Creating(n)'
      /\ \A w \in Visits : Creating(w)' =>
            Creating(w) /\ w # n /\ visit'[w] = visit[w]
  <2>1. ~Saving(n)' /\ ~Creating(n)'
    BY <1>a, <1>n DEF Creating, Saving
  <2>2. ASSUME NEW w \in Visits \ {n}, Creating(w)'
        PROVE  Creating(w) /\ visit'[w] = visit[w]
    BY <1>c, <2>2, AwayFields DEF Creating, Saving
  <2> QED BY <2>1, <2>2
<1>e. ASSUME NEW c \in StillAwaited
      PROVE  /\ c \in CallType
             /\ c.from # 0 => /\ c \in wire /\ c.from \in Visits \ {n}
                              /\ visit'[c.from] = visit[c.from]
             /\ \E d \in wire : /\ c.kind = d.kind /\ c.key = d.key
                                /\ c.text = d.text
  <2>1. c \in wire \/ (~Saving(now) /\ c \in GivenUp(now))
    BY DEF StillAwaited
  <2>2. /\ c \in CallType
        /\ c.from # 0 => c \in wire /\ (Saving(now) \/ c.from # now)
        /\ \E d \in wire : /\ c.kind = d.kind /\ c.key = d.key
                           /\ c.text = d.text
    <3>1. CASE Saving(now)
      BY <1>0, <2>1, <3>1 DEF TypeInv
    <3>2. CASE ~Saving(now)
      <4>1. c \in GivenUp(now)
        BY <3>2 DEF StillAwaited
      <4> QED BY <1>0, <1>a, <4>1, GivenUpCalls
    <3> QED BY <3>1, <3>2
  <2>3. c.from # 0 => c.from \in Visits /\ c.from # n
    BY <1>b, <2>2, AwayFields DEF IInv, CallInv, CallType, StepsOf
  <2> QED BY <1>c, <1>a, <1>n, <2>2, <2>3
<1>f. ASSUME NEW c \in wire', c.kind \in {"create", "edit"}
      PROVE  \E d \in wire : /\ c.kind = d.kind /\ c.key = d.key
                             /\ c.text = d.text
  BY <1>e, <1>f
<1>g. storage \in Records /\ new.pending \in Records
  BY <1>0, Basics DEF TypeInv
<1>1. TypeInv'
  <2>1. wire' \subseteq CallType
    BY <1>e
  <2> QED BY <1>0, <1>a, <2>1 DEF TypeInv
<1>2. CallInv'
  <2>1. ASSUME NEW c \in wire', c.from # 0
        PROVE  /\ visit'[c.from].answer = NoCall
               /\ visit'[c.from].of = c.key
               /\ visit'[c.from].step \in StepsOf(c.kind)
               /\ c.kind = "create" => visit'[c.from].creating
               /\ c.kind = "edit" => ~visit'[c.from].creating
    <3>1. CASE c \in StillAwaited
      BY <1>e, <2>1, <3>1 DEF IInv, CallInv
    <3>2. CASE c \in reads
      BY <1>a, <2>1, <3>2 DEF StepsOf
    <3> QED BY <3>1, <3>2
  <2>2. ASSUME NEW c \in wire', NEW d \in wire', c.from = d.from, c.from # 0
        PROVE  c = d
    <3>1. CASE c \in StillAwaited /\ d \in StillAwaited
      BY <1>e, <2>2, <3>1 DEF IInv, CallInv
    <3>2. CASE c \in reads /\ d \in reads
      BY <2>2, <3>2
    <3>3. ASSUME NEW r \in reads, r.from # 0
          PROVE  r.from = n
      BY <1>a, <1>n, <3>3
    <3>4. ASSUME NEW s \in StillAwaited, s.from # 0
          PROVE  s.from # n
      BY <1>e, <3>4
    <3> QED BY <2>2, <3>1, <3>2, <3>3, <3>4
  <2>3. ASSUME NEW c \in wire', c.kind = "edit"
        PROVE  event'[c.key] # Blank
    BY <1>a, <1>f, <2>3 DEF IInv, CallInv
  <2> QED BY <2>1, <2>2, <2>3 DEF CallInv
<1>3. AnswerInv'
  <2>1. AnswerOf(n)'
    BY <1>a, <1>n, <1>d DEF AnswerOf, NoCall
  <2>2. ASSUME NEW w \in Visits, visit'[w] = visit[w]
        PROVE  AnswerOf(w)'
    BY <1>a, <2>2 DEF IInv, AnswerInv, AnswerOf, Rejected
  <2>3. ASSUME NEW w \in Visits, visit'[w] = Away
        PROVE  AnswerOf(w)'
    BY <2>3, AwayFields DEF AnswerOf, NoCall
  <2> QED BY <1>c, <2>1, <2>2, <2>3 DEF AnswerInv
<1>4. FormInv'
  <2>1. FormOf(n)'
    <3>1. ~(n > now') /\ new.step \notin {"planning", "checking", "saving"}
      BY <1>a, <1>n
    <3>2. new.step \in PlanSteps => new.of # 0
      BY DEF PlanSteps
    <3> QED BY <1>a, <1>n, <1>d, <3>1, <3>2 DEF FormOf
  <2>2. ASSUME NEW w \in Visits \ {n}, visit'[w] = visit[w]
        PROVE  FormOf(w)'
    <3>1. w > now' => w > now
      BY <1>a, Basics
    <3>2. Saving(w)' = Saving(w) /\ Creating(w)' = Creating(w)
      BY <2>2 DEF Saving, Creating
    <3> QED BY <1>a, <2>2, <3>1, <3>2 DEF IInv, FormInv, FormOf
  <2>3. ASSUME NEW w \in Visits, visit'[w] = Away
        PROVE  FormOf(w)'
    BY <2>3, AwayFields DEF FormOf, Creating, Saving, PlanSteps
  <2> QED BY <1>c, <2>1, <2>2, <2>3 DEF FormInv
<1>5. OneCreate => OneKeyInv'
  <2>1. /\ visit'[now'].pending = new.pending /\ UNCHANGED storage
    BY <1>a
  <2> QED BY <1>d, <2>1 DEF OneCreate, OneKeyInv
<1>6. ASSUME NEW j \in Keys, NEW t \in Texts, Says(j, t)'
      PROVE  Says(j, t)
  <2>1. CASE storage'.key = j /\ storage'.text = t
    BY <1>a, <2>1 DEF Says
  <2>2. ASSUME NEW w \in Visits, visit'[w].pending.key = j, visit'[w].pending.text = t
        PROVE  Says(j, t)
    <3>1. \/ visit'[w] = visit[w]
          \/ visit'[w].pending \in {NoPending, storage}
      BY <1>a, <1>n, <1>c, AwayFields
    <3> QED BY <2>2, <3>1, Basics DEF Says
  <2>3. ASSUME NEW w \in Visits, Creating(w)', visit'[w].of = j, visit'[w].submitted = t
        PROVE  Says(j, t)
    BY <1>d, <2>3 DEF Says
  <2>4. ASSUME NEW c \in wire', c.kind = "create", c.key = j, c.text = t
        PROVE  Says(j, t)
    BY <1>f, <2>4 DEF Says
  <2> QED BY <1>6, <2>1, <2>2, <2>3, <2>4 DEF Says
<1>7. TextInv'
  BY <1>a, <1>6 DEF IInv, TextInv
<1>8. ASSUME OneCreate, NEW j \in Keys, Owed(j)'
      PROVE  storage.key = j
  <2>1. \A t : Rejected(t)' = Rejected(t)
    BY <1>a DEF Rejected
  <2>2. j \notin planned \cup discarded
    BY <1>8, <1>a DEF Owed
  <2>3. CASE event'[j] # Blank
    BY <1>8, <1>a, <2>2, <2>3 DEF Owed, OneCreate, OwedInv
  <2>4. ASSUME NEW c \in wire', c.kind = "create", c.key = j, ~Rejected(c.text)'
        PROVE  storage.key = j
    <3>1. Owed(j)
      BY <1>f, <2>1, <2>2, <2>4 DEF Owed
    <3> QED BY <1>8, <3>1 DEF OneCreate, OwedInv
  <2>5. CASE visit'[now'].pending.key = j
    BY <1>a, <2>5, Basics
  <2> QED BY <1>8, <2>3, <2>4, <2>5 DEF Owed
<1>9. OneCreate => OwedInv'
  BY <1>8, <1>a DEF OwedInv
<1>10. OneCreate => FreshInv'
  <2> SUFFICES ASSUME OneCreate, FreshForm', NEW j \in Keys, Owed(j)'
               PROVE  FALSE
    BY DEF FreshInv
  <2>1. storage = NoPending
    BY <1>a DEF FreshForm, OnForm, Form
  <2> QED BY <1>8, <2>1, Basics
<1> QED BY <1>1, <1>2, <1>3, <1>4, <1>5, <1>7, <1>9, <1>10 DEF IInv, OneCreate

LEMMA OpenNewKeeps ==
    ASSUME IInv, NEW readable \in BOOLEAN, OpenNew(readable)
    PROVE  IInv' /\ (OneCreate => OneCreate')
<1> DEFINE p == IF readable THEN storage ELSE NoPending
           t == IF readable THEN storage.text ELSE Blank
           new == [Away EXCEPT !.page = "new", !.step = "shown",
                       !.blocked = ~readable, !.pending = p, !.current = t]
           reads == {}
<1>1. p \in Records /\ p \in {NoPending, storage} /\ t \in Texts
      /\ (readable => p = storage)
  BY Basics DEF IInv, TypeInv
<1>2. Arrive("new", 0, new) /\ wire' = StillAwaited \cup reads
  BY DEF OpenNew
<1> HIDE DEF p, t
<1>3. /\ new \in VisitType /\ new.step = "shown" /\ new.answer = NoCall
      /\ ~new.canDiscard /\ new.saved = 0 /\ new.blocked = ~readable
      /\ new.pending = p
  BY <1>1, AwayFields, ZenonT(40) DEF VisitType
<1>4. /\ reads \in SUBSET CallType
      /\ \A c \in reads : FALSE
  OBVIOUS
<1> HIDE DEF new, reads
<1> QED BY <1>1, <1>2, <1>3, <1>4, ArriveKeeps

LEMMA OpenEditKeeps == ASSUME IInv, NEW k \in Keys, OpenEdit(k) PROVE IInv' /\ (OneCreate => OneCreate')
<1> DEFINE new == [Away EXCEPT !.page = "edit", !.of = k, !.step = "shown",
                       !.saved = k, !.current = event[k]]
           reads == {Call(0, "tidy", k, 0, Blank)}
<1>1. /\ new \in VisitType /\ new.step = "shown" /\ new.answer = NoCall
      /\ ~new.canDiscard /\ new.saved = k /\ new.pending = NoPending
  BY AwayFields, Basics, ZenonT(40) DEF VisitType, KeyOrNone, IInv, TypeInv
<1>2. /\ reads \in SUBSET CallType
      /\ \A c \in reads : c.kind = "tidy" /\ c.from = 0
  BY Basics DEF Call, CallType, KeyOrNone
<1>3. Arrive("edit", k, new) /\ wire' = StillAwaited \cup reads
      /\ event[k] # Blank
  BY DEF OpenEdit
<1>4. k # 0
  BY Basics
<1> HIDE DEF new, reads
<1> QED BY <1>1, <1>2, <1>3, <1>4, ArriveKeeps

LEMMA OpenPlanKeeps == ASSUME IInv, NEW k \in Keys, OpenPlan(k) PROVE IInv' /\ (OneCreate => OneCreate')
<1> DEFINE new == [Away EXCEPT !.page = "plan", !.of = k, !.step = "loading"]
           read == Call(now + 1, "read", k, 0, Blank)
           tidy == Call(0, "tidy", k, 0, Blank)
           reads == {read, tidy}
<1>1. /\ new \in VisitType /\ new.step = "loading" /\ new.answer = NoCall
      /\ ~new.canDiscard /\ new.saved = 0 /\ new.pending = NoPending
      /\ new.of = k
  BY AwayFields, Basics DEF VisitType, KeyOrNone, IInv, TypeInv
<1>2. tidy \in CallType /\ tidy.kind = "tidy" /\ tidy.from = 0
  BY Basics DEF Call, CallType, KeyOrNone
<1>3. Arrive("plan", k, new) /\ wire' = StillAwaited \cup reads
  BY DEF OpenPlan
<1>4. now + 1 \in Visits
  BY <1>3, Basics DEF Arrive, IInv, TypeInv, Visits
<1>5. read \in CallType /\ read.kind = "read" /\ read.from = now + 1
      /\ read.key = k
  BY <1>4, Basics DEF Call, CallType, KeyOrNone
<1> HIDE DEF new, read, tidy
<1>6. /\ reads \in SUBSET CallType
      /\ \A c \in reads :
            /\ c.kind \in {"read", "tidy"}
            /\ c.from # 0 => /\ c.from = now + 1 /\ c.kind = "read"
                             /\ c.key = new.of /\ new.step = "loading"
      /\ \A c, d \in reads : c.from # 0 /\ d.from # 0 => c = d
  BY <1>1, <1>2, <1>5
<1>7. k # 0
  BY Basics
<1> HIDE DEF reads
<1> QED BY <1>1, <1>3, <1>6, <1>7, ArriveKeeps

----------------------------------------------------------------------------
(* The form on screen.                                                     *)

LEMMA TypeKeeps == ASSUME IInv, NEW t \in Texts, Type(t) PROVE IInv' /\ (OneCreate => OneCreate')
<1>0. TypeInv /\ now \in Visits /\ visit[now] \in VisitType
  BY DEF IInv, TypeInv
<1>1. /\ UNCHANGED <<storage, now, minted, wire, event, planned, discarded, expired>>
      /\ visit[now].page \in {"new", "edit"}
      /\ visit' = [visit EXCEPT ![now].current = t,
                                ![now].typed = IF Saving(now) THEN t ELSE Blank]
  BY DEF Type, OnForm, Form
<1>2. visit[now] # Away
  BY <1>1, AwayFields
<1> DEFINE p == IF Saving(now) THEN t ELSE Blank
<1>3. p \in Texts
  BY Basics
<1>4. visit' = [visit EXCEPT ![now] = [visit[now] EXCEPT !.current = t, !.typed = p]]
  BY <1>0, <1>1 DEF TypeInv
<1> HIDE DEF p
<1>5. /\ visit' \in [Visits -> VisitType]
      /\ \A v \in Visits : SameVisit(v) /\ visit'[v].answer = visit[v].answer
      /\ \A v \in Visits : visit'[v] = visit[v] \/ visit[v] # Away
  BY <1>0, <1>2, <1>3, <1>4 DEF TypeInv, VisitType, SameVisit
<1>6. NoNewCall /\ NoNewEvent
  BY <1>1 DEF NoNewCall, NoNewEvent
<1>7. CallInv'
  <2>1. \A c \in wire : c.from # 0 => c.from \in Visits
    BY <1>0 DEF TypeInv, CallType
  <2> QED BY <1>1, <1>5, <2>1 DEF IInv, CallInv, SameVisit
<1>8. AnswerInv'
  BY <1>1, <1>5, <1>6, AnswerStays DEF AnswerInv
<1>9. /\ wire' \subseteq CallType /\ expired' \in BOOLEAN
      /\ event' \in [Keys -> Texts] /\ planned' \subseteq Keys
  BY <1>0, <1>1 DEF TypeInv
<1> QED BY <1>1, <1>5, <1>6, <1>7, <1>8, <1>9, ApiKeeps

(* A save begins: it is the form's one call, and the form waits for it.    *)
Begins(k, text, creating) ==
    /\ UNCHANGED <<now, event, planned, discarded, expired>>
    /\ visit' \in [Visits -> VisitType]
    /\ \A w \in Visits \ {now} : visit'[w] = visit[w]
    /\ visit[now].step = "shown" /\ visit'[now].step = "saving"
    /\ visit'[now].of = k /\ visit'[now].submitted = text
    /\ visit'[now].answer = NoCall /\ visit'[now].creating = creating
    /\ visit'[now].retry => creating
    /\ ~visit'[now].blocked
    /\ visit'[now].saved = visit[now].saved
    /\ visit'[now].canDiscard = visit[now].canDiscard
    /\ \E c \in CallType :
          /\ c.from = now /\ c.key = k /\ c.text = text
          /\ c.kind = IF creating THEN "create" ELSE "edit"
          /\ wire' = wire \cup {c}

LEMMA SubmittedShape ==
    ASSUME TypeInv, NEW k \in Keys, NEW text \in Texts,
           NEW retry \in BOOLEAN, NEW creating \in BOOLEAN, retry => creating,
           NEW p \in Records,
           Form.step = "shown", ~Form.blocked,
           UNCHANGED <<now, event, planned, discarded, expired>>,
           visit' = [visit EXCEPT ![now] =
               [Submitted(visit[now], k, text, retry, creating) EXCEPT !.pending = p]],
           Send(Call(now, IF creating THEN "create" ELSE "edit", k, 0, text))
    PROVE  Begins(k, text, creating) /\ visit'[now].pending = p
<1> DEFINE form == [Submitted(visit[now], k, text, retry, creating)
                       EXCEPT !.pending = p]
           call == Call(now, IF creating THEN "create" ELSE "edit", k, 0, text)
<1>1. now \in Visits /\ visit[now] \in VisitType
  BY DEF TypeInv
<1>2. /\ form \in VisitType /\ form.step = "saving" /\ form.of = k
      /\ form.submitted = text /\ form.answer = NoCall
      /\ form.creating = creating /\ form.retry = retry
      /\ form.blocked = visit[now].blocked /\ form.saved = visit[now].saved
      /\ form.canDiscard = visit[now].canDiscard /\ form.pending = p
  <2> DEFINE sent == Submitted(visit[now], k, text, retry, creating)
  <2>1. /\ sent \in VisitType /\ sent.step = "saving" /\ sent.of = k
        /\ sent.submitted = text /\ sent.answer = NoCall
        /\ sent.creating = creating /\ sent.retry = retry
        /\ sent.blocked = visit[now].blocked /\ sent.saved = visit[now].saved
        /\ sent.canDiscard = visit[now].canDiscard
    BY <1>1, ZenonT(40) DEF Submitted, VisitType, KeyOrNone, NoCall
  <2>2. form = [sent EXCEPT !.pending = p]
    OBVIOUS
  <2> HIDE DEF sent, form
  <2> QED BY <2>1, <2>2 DEF VisitType
<1>3. /\ call \in CallType /\ call.from = now /\ call.key = k
      /\ call.text = text /\ call.kind = IF creating THEN "create" ELSE "edit"
  BY <1>1, Basics DEF Call, CallType, KeyOrNone
<1>4. visit' = [visit EXCEPT ![now] = form] /\ wire' = wire \cup {call}
  BY DEF Send
<1> HIDE DEF form, call
<1>5. /\ visit' \in [Visits -> VisitType] /\ visit'[now] = form
      /\ \A w \in Visits \ {now} : visit'[w] = visit[w]
  BY <1>1, <1>2, <1>4 DEF TypeInv
<1> QED BY <1>1, <1>2, <1>3, <1>4, <1>5 DEF Begins, Form

LEMMA BeginsKeeps ==
    ASSUME IInv, NEW k \in Keys, NEW text \in Texts, NEW creating \in BOOLEAN,
           Begins(k, text, creating), ~creating => event[k] # Blank,
           storage' \in Records, minted' \in Nat
    PROVE  /\ TypeInv' /\ CallInv' /\ AnswerInv' /\ FreshInv'
           /\ \A w \in Visits \ {now} : FormOf(w)'
           /\ \A w \in Visits \ {now} : Creating(w)' = Creating(w)
           /\ Creating(now)' = creating /\ ~Creating(now)
           /\ \A c \in wire' :
                 \/ c \in wire
                 \/ c.key = k /\ c.text = text /\ (c.kind = "create" => creating)
<1>a. /\ UNCHANGED <<now, event, planned, discarded, expired>>
      /\ visit' \in [Visits -> VisitType]
      /\ \A w \in Visits \ {now} : visit'[w] = visit[w]
      /\ visit[now].step = "shown" /\ visit'[now].step = "saving"
      /\ visit'[now].of = k /\ visit'[now].answer = NoCall
      /\ visit'[now].creating = creating
  BY DEF Begins
<1>b. PICK call \in CallType :
         /\ call.from = now /\ call.key = k /\ call.text = text
         /\ call.kind = IF creating THEN "create" ELSE "edit"
         /\ wire' = wire \cup {call}
  BY DEF Begins
<1>c. TypeInv /\ now \in Visits /\ CallInv
  BY DEF IInv, TypeInv
<1>1. TypeInv'
  BY <1>a, <1>b, <1>c DEF TypeInv
<1>2. \A c \in wire : c.from # 0 => c.from \in Visits \ {now}
  BY <1>a, <1>c DEF TypeInv, CallType, CallInv, StepsOf
<1>3. CallInv'
  <2>1. ASSUME NEW c \in wire', c.from # 0
        PROVE  /\ visit'[c.from].answer = NoCall
               /\ visit'[c.from].of = c.key
               /\ visit'[c.from].step \in StepsOf(c.kind)
               /\ c.kind = "create" => visit'[c.from].creating
               /\ c.kind = "edit" => ~visit'[c.from].creating
    <3>1. CASE c \in wire
      BY <1>a, <1>c, <1>2, <2>1, <3>1 DEF CallInv
    <3>2. CASE c = call
      BY <1>a, <1>b, <3>2 DEF StepsOf
    <3> QED BY <1>b, <2>1, <3>1, <3>2
  <2>2. \A c, d \in wire' : c.from = d.from /\ c.from # 0 => c = d
    BY <1>b, <1>c, <1>2 DEF CallInv
  <2>3. \A c \in wire' : c.kind = "edit" => event'[c.key] # Blank
    BY <1>a, <1>b, <1>c DEF CallInv
  <2> QED BY <2>1, <2>2, <2>3 DEF CallInv
<1>4. AnswerInv'
  <2>1. ASSUME NEW w \in Visits \ {now} PROVE AnswerOf(w)'
    BY <1>a DEF IInv, AnswerInv, AnswerOf, Rejected
  <2> QED BY <1>a, <1>c, <2>1 DEF AnswerInv, AnswerOf, NoCall
<1>5. FreshInv'
  BY <1>a DEF FreshInv, FreshForm, Form
<1>6. ASSUME NEW w \in Visits \ {now}
      PROVE  FormOf(w)' /\ Creating(w)' = Creating(w)
  <2>1. Saving(w)' = Saving(w) /\ Creating(w)' = Creating(w)
    BY <1>a DEF Saving, Creating
  <2> QED BY <1>a, <2>1 DEF IInv, FormInv, FormOf
<1>7. Creating(now)' = creating /\ ~Creating(now)
  BY <1>a DEF Creating, Saving
<1>8. \A c \in wire' :
         \/ c \in wire
         \/ c.key = k /\ c.text = text /\ (c.kind = "create" => creating)
  BY <1>b
<1> QED BY <1>1, <1>3, <1>4, <1>5, <1>6, <1>7, <1>8

LEMMA SaveAgainKeeps == ASSUME IInv, SaveAgain PROVE IInv' /\ (OneCreate => OneCreate')
<1> DEFINE k == visit[now].pending.key
           text == visit[now].pending.text
<1>0. TypeInv /\ now \in Visits /\ visit[now] \in VisitType
  BY DEF IInv, TypeInv
<1>1. /\ Form.step = "shown" /\ ~Form.blocked /\ visit[now].pending # NoPending
      /\ UNCHANGED <<storage, now, minted, event, planned, discarded, expired>>
      /\ visit' = [visit EXCEPT ![now] = Submitted(visit[now], k, text, TRUE, TRUE)]
      /\ Send(Call(now, "create", k, 0, text))
  BY <1>0 DEF SaveAgain, Form, RetryOf, TypeInv
<1>2. k \in Keys /\ text \in Texts /\ visit[now].pending \in Records
  BY <1>0, <1>1, Basics DEF VisitType, KeyOrNone
<1>3. Says(k, text)
  BY <1>0 DEF Says
<1>p. visit' = [visit EXCEPT ![now] =
         [Submitted(visit[now], k, text, TRUE, TRUE) EXCEPT !.pending = visit[now].pending]]
  <2>1. Submitted(visit[now], k, text, TRUE, TRUE) =
           [Submitted(visit[now], k, text, TRUE, TRUE) EXCEPT !.pending = visit[now].pending]
    BY <1>0 DEF Submitted, VisitType
  <2> QED BY <1>1, <2>1
<1>4. Begins(k, text, TRUE) /\ visit'[now].pending = visit[now].pending
  <2> HIDE DEF k, text
  <2> QED BY <1>0, <1>1, <1>2, <1>p, SubmittedShape
<1> HIDE DEF k, text
<1>5. /\ TypeInv' /\ CallInv' /\ AnswerInv' /\ FreshInv'
      /\ \A w \in Visits \ {now} : FormOf(w)'
      /\ \A w \in Visits \ {now} : Creating(w)' = Creating(w)
      /\ Creating(now)' = TRUE /\ ~Creating(now)
      /\ \A c \in wire' :
            \/ c \in wire
            \/ c.key = k /\ c.text = text
  <2>1. storage' \in Records /\ minted' \in Nat
    BY <1>0, <1>1 DEF TypeInv
  <2> QED BY <1>2, <1>4, <2>1, BeginsKeeps
<1>a. /\ visit'[now].of = k /\ visit'[now].submitted = text
      /\ visit'[now].step = "saving"
      /\ visit'[now].creating /\ ~visit'[now].blocked
      /\ visit'[now].saved = visit[now].saved
      /\ visit'[now].canDiscard = visit[now].canDiscard
      /\ visit'[now].pending = visit[now].pending
      /\ \A w \in Visits \ {now} : visit'[w] = visit[w]
      /\ UNCHANGED <<storage, now, minted, event, planned, discarded, expired>>
  BY <1>1, <1>4 DEF Begins
<1>6. FormInv'
  <2>1. FormOf(now)'
    <3>1. ~(now > now)
      BY <1>0, Basics
    <3>2. k # 0 /\ visit[now].pending.key = k
      BY <1>2, Basics DEF k
    <3> QED BY <1>0, <1>1, <1>a, <3>1, <3>2, ZenonT(40)
            DEF FormOf, IInv, FormInv, Creating, Saving, PlanSteps
  <2> QED BY <1>5, <1>a, <2>1 DEF FormInv
<1>7. OneCreate => OneKeyInv'
  <2> SUFFICES ASSUME OneCreate PROVE OneKeyInv'
    OBVIOUS
  <2>1. ASSUME NEW w \in Visits, Creating(w)'
        PROVE  visit'[w].of = k /\ (storage # NoPending => storage.key = k)
    <3>1. CASE w = now
      BY <1>1, <1>a, <3>1 DEF OneCreate, OneKeyInv, k
    <3>2. CASE w # now
      <4>1. Creating(w) /\ visit'[w] = visit[w]
        BY <1>5, <1>a, <2>1, <3>2
      <4> QED BY <1>1, <4>1 DEF OneCreate, OneKeyInv, k
    <3> QED BY <3>1, <3>2
  <2>2. visit'[now'].pending.key = k
    BY <1>a DEF k
  <2>3. storage' # NoPending => storage'.key = k
    BY <1>1, <1>a DEF OneCreate, OneKeyInv, k
  <2> QED BY <1>a, <2>1, <2>2, <2>3 DEF OneKeyInv
<1>8. ASSUME NEW j \in Keys, NEW t \in Texts, Says(j, t)'
      PROVE  Says(j, t)
  <2>1. CASE storage'.key = j /\ storage'.text = t
    BY <1>a, <2>1 DEF Says
  <2>2. ASSUME NEW w \in Visits, visit'[w].pending.key = j, visit'[w].pending.text = t
        PROVE  Says(j, t)
    BY <1>a, <2>2 DEF Says
  <2>3. ASSUME NEW w \in Visits, Creating(w)', visit'[w].of = j, visit'[w].submitted = t
        PROVE  Says(j, t)
    <3>1. CASE w = now
      BY <1>3, <1>a, <2>3, <3>1
    <3>2. CASE w # now
      BY <1>5, <1>a, <2>3, <3>2 DEF Says
    <3> QED BY <3>1, <3>2
  <2>4. ASSUME NEW c \in wire', c.kind = "create", c.key = j, c.text = t
        PROVE  Says(j, t)
    <3> QED BY <1>3, <1>5, <2>4 DEF Says
  <2> QED BY <1>8, <2>1, <2>2, <2>3, <2>4 DEF Says
<1>9. TextInv'
  BY <1>a, <1>8 DEF IInv, TextInv
<1>10. ASSUME NEW j \in Keys, Owed(j)'
       PROVE  Owed(j)
  <2>1. \A t : Rejected(t)' = Rejected(t)
    BY <1>a DEF Rejected
  <2>2. ASSUME NEW c \in wire', c.kind = "create", c.key = j, ~Rejected(c.text)
        PROVE  Owed(j)
    BY <1>5, <1>10, <1>a, <2>1, <2>2 DEF Owed, k, text
  <2> QED BY <1>10, <1>a, <2>1, <2>2 DEF Owed
<1>11. OneCreate => OwedInv'
  BY <1>a, <1>10 DEF OneCreate, OwedInv
<1> QED BY <1>5, <1>6, <1>7, <1>9, <1>11 DEF IInv, OneCreate

LEMMA SaveEditKeeps == ASSUME IInv, SaveEdit PROVE IInv' /\ (OneCreate => OneCreate')
<1> DEFINE k == visit[now].saved
           text == visit[now].current
<1>0. TypeInv /\ now \in Visits /\ visit[now] \in VisitType
  BY DEF IInv, TypeInv
<1>1. /\ Form.step = "shown" /\ ~Form.blocked
      /\ visit[now].saved # 0 /\ visit[now].pending = NoPending
      /\ UNCHANGED <<storage, now, minted, event, planned, discarded, expired>>
      /\ visit' = [visit EXCEPT ![now] = Submitted(visit[now], k, text, FALSE, FALSE)]
      /\ Send(Call(now, "edit", k, 0, text))
  BY <1>0 DEF SaveEdit, Form, TypeInv
<1>2. k \in Keys /\ text \in Texts /\ event[k] # Blank
  BY <1>0, <1>1 DEF VisitType, KeyOrNone, IInv, FormInv, FormOf
<1>p. visit' = [visit EXCEPT ![now] =
         [Submitted(visit[now], k, text, FALSE, FALSE) EXCEPT !.pending = NoPending]]
  <2>1. Submitted(visit[now], k, text, FALSE, FALSE) =
           [Submitted(visit[now], k, text, FALSE, FALSE) EXCEPT !.pending = NoPending]
    BY <1>0, <1>1 DEF Submitted, VisitType
  <2> QED BY <1>1, <2>1
<1> HIDE DEF k, text
<1>s. Send(Call(now, IF FALSE THEN "create" ELSE "edit", k, 0, text))
  BY <1>1
<1>4. Begins(k, text, FALSE) /\ visit'[now].pending = NoPending
  <2>1. NoPending \in Records
    BY Basics
  <2> QED BY <1>0, <1>1, <1>2, <1>p, <1>s, <2>1, SubmittedShape
<1>5. /\ TypeInv' /\ CallInv' /\ AnswerInv' /\ FreshInv'
      /\ \A w \in Visits \ {now} : FormOf(w)'
      /\ \A w \in Visits \ {now} : Creating(w)' = Creating(w)
      /\ ~Creating(now)' /\ ~Creating(now)
      /\ \A c \in wire' : c \in wire \/ c.kind # "create"
  BY <1>0, <1>1, <1>2, <1>4, BeginsKeeps DEF TypeInv
<1>a. /\ visit'[now].step = "saving"
      /\ ~visit'[now].creating /\ ~visit'[now].retry /\ ~visit'[now].blocked
      /\ visit'[now].saved = visit[now].saved
      /\ visit'[now].canDiscard = visit[now].canDiscard
      /\ visit'[now].pending = visit[now].pending
      /\ \A w \in Visits \ {now} : visit'[w] = visit[w]
      /\ UNCHANGED <<storage, now, minted, event, planned, discarded, expired>>
  BY <1>1, <1>4 DEF Begins
<1>6. FormInv'
  <2>1. FormOf(now)'
    <3>1. ~(now > now)
      BY <1>0, Basics
    <3>2. ~Creating(now)' /\ now' = now
      BY <1>5, <1>a
    <3>3. ~visit[now].canDiscard /\ event[visit[now].saved] # Blank
      BY <1>0, <1>1 DEF IInv, FormInv, FormOf
    <3>4. visit'[now].step \notin PlanSteps
      BY <1>a DEF PlanSteps
    <3> QED BY <1>1, <1>a, <3>1, <3>2, <3>3, <3>4 DEF FormOf
  <2> QED BY <1>5, <1>a, <2>1 DEF FormInv
<1>b. \A w \in Visits : Creating(w)' => Creating(w) /\ visit'[w] = visit[w]
  <2>1. \A w \in Visits : Creating(w)' => w # now
    <3> SUFFICES ASSUME NEW w \in Visits, Creating(w)', w = now
                 PROVE  FALSE
      OBVIOUS
    <3> QED BY <1>a DEF Creating
  <2> QED BY <1>5, <1>a, <2>1
<1>7. OneCreate => OneKeyInv'
  BY <1>a, <1>b DEF OneCreate, OneKeyInv
<1>8. ASSUME NEW j \in Keys, NEW t \in Texts, Says(j, t)'
      PROVE  Says(j, t)
  <2>1. CASE storage'.key = j /\ storage'.text = t
    BY <1>a, <2>1 DEF Says
  <2>2. ASSUME NEW w \in Visits, visit'[w].pending.key = j, visit'[w].pending.text = t
        PROVE  Says(j, t)
    BY <1>a, <2>2 DEF Says
  <2>3. ASSUME NEW w \in Visits, Creating(w)', visit'[w].of = j, visit'[w].submitted = t
        PROVE  Says(j, t)
    BY <1>b, <2>3 DEF Says
  <2>4. ASSUME NEW c \in wire', c.kind = "create", c.key = j, c.text = t
        PROVE  Says(j, t)
    BY <1>5, <2>4 DEF Says
  <2> QED BY <1>8, <2>1, <2>2, <2>3, <2>4 DEF Says
<1>9. TextInv'
  BY <1>a, <1>8 DEF IInv, TextInv
<1>10. ASSUME NEW j \in Keys, Owed(j)'
       PROVE  Owed(j)
  <2>1. \A t : Rejected(t)' = Rejected(t)
    BY <1>a DEF Rejected
  <2> QED BY <1>5, <1>10, <1>a, <2>1 DEF Owed
<1>11. OneCreate => OwedInv'
  BY <1>a, <1>10 DEF OneCreate, OwedInv
<1> QED BY <1>5, <1>6, <1>7, <1>9, <1>11 DEF IInv, OneCreate

(* A key that was just minted is nowhere yet.                              *)
LEMMA FreshKey ==
    ASSUME IInv, minted < MaxKeys
    PROVE  /\ minted + 1 \in Keys
           /\ \A t \in Texts : ~Says(minted + 1, t)
<1>1. minted \in Nat /\ MaxKeys \in Nat
  BY Basics DEF IInv, TypeInv
<1>2. minted + 1 \in Keys /\ ~(minted + 1 <= minted)
  BY <1>1 DEF Keys
<1> QED BY <1>2 DEF IInv, TextInv

LEMMA MintedKeeps ==
    ASSUME IInv, minted' = minted + 1,
           UNCHANGED <<storage, visit, now, wire, event, planned, discarded, expired>>
    PROVE  IInv' /\ (OneCreate => OneCreate')
<1>1. minted \in Nat /\ Keys \subseteq Nat
  BY Basics DEF IInv, TypeInv
<1>2. TypeInv' /\ CallInv' /\ AnswerInv'
  BY <1>1 DEF IInv, TypeInv, CallInv, AnswerInv, AnswerOf, Rejected
<1>3. FormInv' /\ (OneCreate => OneKeyInv')
  BY DEF IInv, OneCreate, FormInv, FormOf, OneKeyInv, Creating, Saving
<1>4. \A k \in Keys : \A t \in Texts : Says(k, t)' = Says(k, t)
  BY DEF Says, Creating, Saving
<1>5. TextInv'
  <2>1. \A k \in Keys : k <= minted => k <= minted'
    BY <1>1
  <2> QED BY <1>4, <2>1 DEF IInv, TextInv
<1>6. \A k \in Keys : Owed(k)' = Owed(k)
  BY DEF Owed, Rejected
<1>7. OneCreate => OwedInv' /\ FreshInv'
  BY <1>6 DEF OneCreate, OwedInv, FreshInv, FreshForm, OnForm, Form
<1> QED BY <1>2, <1>3, <1>5, <1>7 DEF IInv, OneCreate

(* With no other save under way, the tab turns to the new key: nothing     *)
(* else was owed.                                                          *)
LEMMA SaveNewKeeps ==
    ASSUME IInv, NEW ok \in BOOLEAN, SaveNew(ok)
    PROVE  IInv' /\ (OneCreate /\ LateAnswers = FALSE => OneCreate')
<1> DEFINE k == minted + 1
           text == visit[now].current
           p == [key |-> k, text |-> text, created |-> FALSE]
<1>0. TypeInv /\ now \in Visits /\ visit[now] \in VisitType
  BY DEF IInv, TypeInv
<1>1. /\ FreshForm /\ Form.step = "shown" /\ ~Form.blocked
      /\ visit[now].saved = 0 /\ visit[now].pending = NoPending
      /\ minted < MaxKeys /\ minted' = k
      /\ LateAnswers = FALSE => \A v \in Visits : Saving(v) => v = now
      /\ Stores(p, ok)
      /\ UNCHANGED <<now, event, planned, discarded, expired>>
  BY DEF SaveNew, FreshForm, Form, MayCreate
<1>2. CASE ~ok
  <2>1. storage' = storage /\ UNCHANGED <<visit, wire>>
    BY <1>2 DEF SaveNew, Stores
  <2> QED BY <1>1, <2>1, MintedKeeps
<1>3. CASE ok
  <2>1. /\ storage' = p
        /\ visit' = [visit EXCEPT ![now] =
              [Submitted(visit[now], k, text, FALSE, TRUE) EXCEPT !.pending = p]]
        /\ Send(Call(now, IF TRUE THEN "create" ELSE "edit", k, 0, text))
    BY <1>0, <1>3 DEF SaveNew, Stores, Form, TypeInv
  <2>2. k \in Keys /\ text \in Texts /\ k # 0 /\ \A t \in Texts : ~Says(k, t)
    BY <1>0, <1>1, FreshKey, Basics DEF VisitType
  <2>3. p \in Records /\ p.key = k /\ p.text = text /\ p # NoPending
    BY <2>2, Basics DEF Records
  <2>m. minted' \in Nat
    BY <1>1, <2>2, Basics
  <2>n. \A j \in Keys : j <= minted => j <= minted'
    BY <1>0, <1>1, Basics DEF TypeInv
  <2>o. k <= minted'
    <3>1. k \in Nat
      BY <2>2, Basics
    <3> QED BY <1>1, <3>1
  <2> HIDE DEF k, text, p
  <2>4. Begins(k, text, TRUE) /\ visit'[now].pending = p
    BY <1>0, <1>1, <2>1, <2>2, <2>3, SubmittedShape
  <2>5. /\ TypeInv' /\ CallInv' /\ AnswerInv' /\ FreshInv'
        /\ \A w \in Visits \ {now} : FormOf(w)'
        /\ \A w \in Visits \ {now} : Creating(w)' = Creating(w)
        /\ \A c \in wire' :
              \/ c \in wire
              \/ c.key = k /\ c.text = text
    <3>1. storage' \in Records /\ k \in Keys /\ text \in Texts
      BY <2>1, <2>2, <2>3
    <3> QED BY <2>4, <2>m, <3>1, BeginsKeeps
  <2>a. /\ visit'[now].of = k /\ visit'[now].submitted = text
        /\ visit'[now].step = "saving"
        /\ visit'[now].creating /\ ~visit'[now].blocked
        /\ visit'[now].saved = 0
        /\ visit'[now].canDiscard = visit[now].canDiscard
        /\ visit'[now].pending = p
        /\ \A w \in Visits \ {now} : visit'[w] = visit[w]
        /\ UNCHANGED <<now, event, planned, discarded, expired>>
    BY <1>1, <2>4 DEF Begins
  <2>b. ASSUME LateAnswers = FALSE, NEW w \in Visits, Creating(w)'
        PROVE  w = now
    BY <1>1, <2>5, <2>b DEF Creating
  <2>6. FormInv'
    <3>1. FormOf(now)'
      <4>1. ~(now > now) /\ visit'[now].step \notin PlanSteps
        BY <1>0, <2>a, Basics DEF PlanSteps
      <4>2. visit'[now'].of = k /\ visit'[now'].pending = p /\ now' = now
        BY <2>a
      <4> QED BY <2>a, <2>2, <2>3, <4>1, <4>2 DEF FormOf
    <3> QED BY <2>5, <2>a, <3>1 DEF FormInv
  <2>7. ASSUME LateAnswers = FALSE PROVE OneKeyInv'
    <3>1. /\ visit'[now'].pending.key = k /\ storage'.key = k
          /\ \A w \in Visits : Creating(w)' => visit'[w].of = k
      BY <2>1, <2>3, <2>7, <2>a, <2>b
    <3> QED BY <3>1 DEF OneKeyInv
  <2>8. ASSUME NEW j \in Keys, NEW t \in Texts, Says(j, t)'
        PROVE  (j = k /\ t = text) \/ Says(j, t)
    <3>1. CASE storage'.key = j /\ storage'.text = t
      BY <2>1, <2>3, <3>1
    <3>2. ASSUME NEW w \in Visits, visit'[w].pending.key = j, visit'[w].pending.text = t
          PROVE  (j = k /\ t = text) \/ Says(j, t)
      BY <2>3, <2>a, <3>2 DEF Says
    <3>3. ASSUME NEW w \in Visits, Creating(w)', visit'[w].of = j, visit'[w].submitted = t
          PROVE  (j = k /\ t = text) \/ Says(j, t)
      <4>1. CASE w = now
        BY <2>a, <3>3, <4>1
      <4>2. CASE w # now
        BY <2>5, <2>a, <3>3, <4>2 DEF Says
      <4> QED BY <4>1, <4>2
    <3>4. ASSUME NEW c \in wire', c.kind = "create", c.key = j, c.text = t
          PROVE  (j = k /\ t = text) \/ Says(j, t)
      BY <2>5, <3>4 DEF Says
    <3> QED BY <2>8, <3>1, <3>2, <3>3, <3>4 DEF Says
  <2>9. TextInv'
    <3> SUFFICES ASSUME NEW j \in Keys, NEW t \in Texts, NEW u \in Texts,
                        Says(j, t)'
                 PROVE  j <= minted' /\ (Says(j, u)' => t = u)
      BY DEF TextInv
    <3>1. CASE j = k
      <4>1. t = text /\ (Says(j, u)' => u = text)
        BY <2>2, <2>8, <3>1
      <4> QED BY <2>o, <3>1, <4>1
    <3>2. CASE j # k
      <4>1. Says(j, t) /\ (Says(j, u)' => Says(j, u))
        BY <2>8, <3>2
      <4> QED BY <2>n, <4>1 DEF IInv, TextInv
    <3> QED BY <3>1, <3>2
  <2>10. OneCreate => OwedInv'
    <3> SUFFICES ASSUME OneCreate, NEW j \in Keys, Owed(j)', j # k
                 PROVE  FALSE
      BY <2>1, <2>3 DEF OwedInv
    <3>1. ~(visit'[now'].pending.key = j)
      BY <2>3, <2>a
    <3>2. \A t : Rejected(t)' = Rejected(t)
      BY <2>a DEF Rejected
    <3>3. Owed(j)
      BY <2>5, <2>a, <3>1, <3>2 DEF Owed
    <3> QED BY <1>1, <3>3 DEF OneCreate, FreshInv
  <2> QED BY <2>5, <2>6, <2>7, <2>9, <2>10 DEF IInv, OneCreate
<1> QED BY <1>2, <1>3

(* What the recovery stood for is what the organizer discards.             *)
LEMMA DiscardKeeps ==
    ASSUME IInv, NEW ok \in BOOLEAN, DiscardCreateRecovery(ok)
    PROVE  IInv' /\ (OneCreate => OneCreate')
<1>0. TypeInv /\ now \in Visits /\ visit[now] \in VisitType
  BY DEF IInv, TypeInv
<1>1. /\ OnForm /\ Form.step \in {"shown", "saving"} /\ visit[now].canDiscard
      /\ Stores(NoPending, ok)
      /\ UNCHANGED <<now, minted, wire, event, planned, expired>>
  BY DEF DiscardCreateRecovery, Form
<1>2. CASE ~ok
  <2>1. UNCHANGED <<storage, visit, discarded>>
    BY <1>2 DEF DiscardCreateRecovery, Stores
  <2>2. NoNewCall /\ NoNewEvent /\ \A v \in Visits : SameVisit(v)
    BY <1>1, <2>1 DEF NoNewCall, NoNewEvent, SameVisit
  <2>3. CallInv' /\ AnswerInv'
    BY <1>1, <2>1 DEF IInv, CallInv, AnswerInv, AnswerOf, Rejected
  <2>4. /\ visit' \in [Visits -> VisitType] /\ wire' \subseteq CallType
        /\ event' \in [Keys -> Texts] /\ planned' \subseteq Keys
        /\ expired' \in BOOLEAN
    BY <1>0, <1>1, <2>1 DEF TypeInv
  <2> QED BY <1>1, <2>1, <2>2, <2>3, <2>4, ApiKeeps
<1>3. CASE ok
  <2> DEFINE p == visit[now].pending
             form == [visit[now] EXCEPT !.pending = NoPending, !.canDiscard = FALSE]
  <2>1. /\ storage' = NoPending /\ discarded' = discarded \cup {p.key}
        /\ visit' = [visit EXCEPT ![now] = form]
    BY <1>0, <1>3 DEF DiscardCreateRecovery, Stores, Form, TypeInv
  <2>2. /\ form \in VisitType /\ form.pending = NoPending /\ ~form.canDiscard
        /\ form.page = visit[now].page /\ form.of = visit[now].of
        /\ form.step = visit[now].step /\ form.saved = visit[now].saved
        /\ form.blocked = visit[now].blocked /\ form.retry = visit[now].retry
        /\ form.submitted = visit[now].submitted
        /\ form.creating = visit[now].creating /\ form.answer = visit[now].answer
    BY <1>0, Basics DEF VisitType
  <2>3. p \in Records /\ p.key \in KeyOrNone
    BY <1>0, Basics DEF VisitType
  <2> HIDE DEF form
  <2>a. /\ visit' \in [Visits -> VisitType] /\ visit'[now] = form
        /\ \A w \in Visits \ {now} : visit'[w] = visit[w]
        /\ \A w \in Visits : /\ visit'[w].of = visit[w].of
                             /\ visit'[w].step = visit[w].step
                             /\ visit'[w].saved = visit[w].saved
                             /\ visit'[w].answer = visit[w].answer
                             /\ visit'[w].creating = visit[w].creating
                             /\ visit'[w].submitted = visit[w].submitted
    BY <1>0, <2>1, <2>2 DEF TypeInv
  <2>b. \A w \in Visits : Saving(w)' = Saving(w) /\ Creating(w)' = Creating(w)
    BY <2>a DEF Saving, Creating
  <2>4. TypeInv'
    BY <1>0, <1>1, <2>1, <2>3, <2>a, Basics DEF TypeInv
  <2>5. CallInv'
    <3>1. \A c \in wire : c.from # 0 => c.from \in Visits
      BY <1>0 DEF TypeInv, CallType
    <3> QED BY <1>1, <2>a, <3>1 DEF IInv, CallInv
  <2>6. AnswerInv'
    BY <1>1, <2>a DEF IInv, AnswerInv, AnswerOf, Rejected
  <2>7. visit[now].saved = 0 /\ ~visit[now].blocked
    BY <1>0, <1>1 DEF IInv, FormInv, FormOf
  <2>8. FormInv'
    <3>1. FormOf(now)'
      <4>1. /\ visit[now].step \notin PlanSteps
            /\ visit[now].step \notin {"planning", "checking"}
            /\ ~(now > now)
        BY <1>0, <1>1, Basics DEF Form, PlanSteps
      <4>2. Creating(now) => visit[now].of # 0 /\ visit[now].of \in discarded'
        BY <1>0, <2>1 DEF IInv, FormInv, FormOf
      <4>3. visit[now].step = "saving" =>
               visit[now].creating
        BY <1>0, <2>7 DEF IInv, FormInv, FormOf
      <4>4. Creating(now)' = Creating(now) /\ now' = now /\ visit'[now'] = form
        BY <1>0, <1>1, <2>a, <2>b
      <4> QED BY <2>2, <2>7, <4>1, <4>2, <4>3, <4>4 DEF FormOf
    <3>2. ASSUME NEW w \in Visits \ {now}
          PROVE  FormOf(w)'
      <4>1. /\ visit'[w] = visit[w] /\ now' = now /\ event' = event
            /\ Saving(w)' = Saving(w) /\ Creating(w)' = Creating(w)
            /\ discarded \subseteq discarded'
        BY <1>1, <2>1, <2>a, <2>b
      <4> QED BY <4>1 DEF IInv, FormInv, FormOf
    <3> QED BY <1>1, <3>1, <3>2 DEF FormInv
  <2>9. OneCreate => OneKeyInv'
    <3>1. visit'[now'].pending = NoPending
      BY <1>1, <2>2, <2>a
    <3> QED BY <2>1, <2>a, <2>b, <3>1 DEF OneCreate, OneKeyInv
  <2>10. TextInv'
    <3>1. ASSUME NEW j \in Keys, NEW t \in Texts, Says(j, t)'
          PROVE  Says(j, t)
      <4>1. ~(storage'.key = j /\ storage'.text = t)
        BY <2>1, Basics
      <4>2. ASSUME NEW w \in Visits, visit'[w].pending.key = j, visit'[w].pending.text = t
            PROVE  Says(j, t)
        BY <2>2, <2>a, <4>2, Basics DEF Says
      <4>3. ASSUME NEW w \in Visits, Creating(w)', visit'[w].of = j, visit'[w].submitted = t
            PROVE  Says(j, t)
        BY <2>a, <2>b, <4>3 DEF Says
      <4>4. ASSUME NEW c \in wire', c.kind = "create", c.key = j, c.text = t
            PROVE  Says(j, t)
        BY <1>1, <4>4 DEF Says
      <4> QED BY <3>1, <4>1, <4>2, <4>3, <4>4 DEF Says
    <3> QED BY <1>1, <3>1 DEF IInv, TextInv
  <2>11. ASSUME OneCreate, NEW j \in Keys, Owed(j)'
         PROVE  FALSE
    <3>1. \A t : Rejected(t)' = Rejected(t)
      BY <1>1 DEF Rejected
    <3>2. Owed(j) /\ j \notin discarded'
      <4>1. visit'[now'].pending.key # j
        BY <1>1, <2>2, <2>a, Basics
      <4> QED BY <1>1, <2>1, <2>11, <3>1, <4>1 DEF Owed
    <3>3. storage.key = j /\ storage # NoPending
      BY <2>11, <3>2, Basics DEF OneCreate, OwedInv
    <3>4. p = NoPending
      BY <2>1, <2>11, <3>2, <3>3 DEF OneCreate, OneKeyInv
    <3>5. CASE Form.step = "shown"
      <4>1. FreshForm
        BY <1>1, <2>7, <3>4, <3>5 DEF FreshForm, Form
      <4> QED BY <2>11, <3>2, <4>1 DEF OneCreate, FreshInv
    <3>6. CASE Form.step = "saving"
      <4>1. Creating(now)
        BY <1>0, <2>7, <3>6 DEF Creating, Saving, Form, IInv, FormInv, FormOf
      <4>2. visit[now].of = j /\ visit[now].of \in discarded
        BY <1>0, <2>11, <3>3, <3>4, <4>1
           DEF OneCreate, IInv, OneKeyInv, FormInv, FormOf
      <4> QED BY <3>2, <4>2 DEF Owed
    <3> QED BY <1>1, <3>5, <3>6
  <2>12. OneCreate => OwedInv' /\ FreshInv'
    BY <2>11 DEF OwedInv, FreshInv
  <2> QED BY <2>4, <2>5, <2>6, <2>8, <2>9, <2>10, <2>12 DEF IInv, OneCreate
<1> QED BY <1>2, <1>3

(* The plan page asks for the first plan.                                  *)
LEMMA GenerateKeeps == ASSUME IInv, Generate PROVE IInv' /\ (OneCreate => OneCreate')
<1> DEFINE k == visit[now].of
           given == InitialCreateKey(k)
           form == [visit[now] EXCEPT !.step = "generating", !.given = given,
                                      !.answer = NoCall]
           call == Call(now, "plan", k, given, Blank)
<1>0. TypeInv /\ now \in Visits /\ visit[now] \in VisitType
  BY DEF IInv, TypeInv
<1>1. /\ visit[now].step = "missing"
      /\ UNCHANGED <<storage, now, minted, event, planned, discarded, expired>>
      /\ visit' = [visit EXCEPT ![now] = form] /\ wire' = wire \cup {call}
  BY <1>0 DEF Generate, Form, Send, TypeInv
<1>2. k \in Keys
  BY <1>0, <1>1 DEF IInv, FormInv, FormOf, PlanSteps, VisitType, KeyOrNone
<1>3. given \in KeyOrNone
  BY <1>0, Basics DEF InitialCreateKey, KeyOrNone, TypeInv
<1> HIDE DEF given
<1>4. /\ form \in VisitType /\ form.step = "generating" /\ form.answer = NoCall
      /\ form.of = k /\ form.pending = visit[now].pending
      /\ form.page = visit[now].page /\ form.blocked = visit[now].blocked
      /\ form.saved = visit[now].saved /\ form.canDiscard = visit[now].canDiscard
  BY <1>0, <1>3 DEF VisitType, NoCall
<1>5. /\ call \in CallType /\ call.from = now /\ call.kind = "plan"
      /\ call.key = k
  BY <1>0, <1>2, <1>3, Basics DEF Call, CallType
<1> HIDE DEF form, call
<1>a. /\ visit' \in [Visits -> VisitType] /\ visit'[now] = form
      /\ \A w \in Visits \ {now} : visit'[w] = visit[w]
      /\ \A w \in Visits : visit'[w].pending = visit[w].pending
  BY <1>0, <1>1, <1>4 DEF TypeInv
<1>b. /\ ~Creating(now)' /\ ~Creating(now) /\ ~Saving(now)'
      /\ \A w \in Visits : Creating(w)' => Creating(w) /\ visit'[w] = visit[w]
  <2>1. ~Creating(now)' /\ ~Creating(now) /\ ~Saving(now)'
    BY <1>1, <1>4, <1>a DEF Creating, Saving
  <2>2. ASSUME NEW w \in Visits, Creating(w)'
        PROVE  Creating(w) /\ visit'[w] = visit[w]
    BY <1>1, <1>4, <1>a, <2>2 DEF Creating, Saving
  <2> QED BY <2>1, <2>2
<1>c. \A c \in wire : c.from # 0 => c.from \in Visits \ {now}
  <2>1. visit[now].step \notin StepsOf("create") \cup StepsOf("edit")
           \cup StepsOf("plan") \cup StepsOf("read") \cup StepsOf("tidy")
    BY <1>1 DEF StepsOf
  <2> QED BY <1>0, <2>1 DEF IInv, TypeInv, CallType, CallInv
<1>6. TypeInv'
  BY <1>0, <1>1, <1>5, <1>a DEF TypeInv
<1>7. CallInv'
  <2>1. ASSUME NEW c \in wire', c.from # 0
        PROVE  /\ visit'[c.from].answer = NoCall
               /\ visit'[c.from].of = c.key
               /\ visit'[c.from].step \in StepsOf(c.kind)
               /\ c.kind = "create" => visit'[c.from].creating
               /\ c.kind = "edit" => ~visit'[c.from].creating
    <3>1. CASE c \in wire
      BY <1>a, <1>c, <2>1, <3>1 DEF IInv, CallInv
    <3>2. CASE c = call
      BY <1>4, <1>5, <1>a, <3>2 DEF StepsOf
    <3> QED BY <1>1, <2>1, <3>1, <3>2
  <2>2. \A c, d \in wire' : c.from = d.from /\ c.from # 0 => c = d
    BY <1>1, <1>5, <1>c DEF IInv, CallInv
  <2>3. \A c \in wire' : c.kind = "edit" => event'[c.key] # Blank
    BY <1>1, <1>5 DEF IInv, CallInv
  <2> QED BY <2>1, <2>2, <2>3 DEF CallInv
<1>8. AnswerInv'
  <2>1. ASSUME NEW w \in Visits \ {now} PROVE AnswerOf(w)'
    BY <1>1, <1>a DEF IInv, AnswerInv, AnswerOf, Rejected
  <2> QED BY <1>0, <1>1, <1>4, <1>a, <2>1 DEF AnswerInv, AnswerOf, NoCall
<1>9. FormInv'
  <2>1. FormOf(now)'
    <3>1. k # 0 /\ ~(now > now)
      BY <1>0, <1>2, Basics
    <3>2. visit'[now'] = form /\ now' = now /\ event' = event
      BY <1>1, <1>a
    <3>3. form.step \notin {"saving", "planning", "checking"}
      BY <1>4
    <3> HIDE DEF k
    <3> QED BY <1>0, <1>4, <1>b, <3>1, <3>2, <3>3 DEF FormOf, IInv, FormInv
  <2>2. ASSUME NEW w \in Visits \ {now} PROVE FormOf(w)'
    <3>1. Saving(w)' = Saving(w) /\ Creating(w)' = Creating(w)
      BY <1>a DEF Creating, Saving
    <3> QED BY <1>1, <1>a, <3>1 DEF FormOf, IInv, FormInv
  <2> QED BY <1>1, <2>1, <2>2 DEF FormInv
<1>10. OneCreate => OneKeyInv'
  BY <1>1, <1>0, <1>a, <1>b DEF OneCreate, OneKeyInv
<1>11. ASSUME NEW j \in Keys, NEW t \in Texts, Says(j, t)'
       PROVE  Says(j, t)
  <2>1. CASE storage'.key = j /\ storage'.text = t
    BY <1>1, <2>1 DEF Says
  <2>2. ASSUME NEW w \in Visits, visit'[w].pending.key = j, visit'[w].pending.text = t
        PROVE  Says(j, t)
    BY <1>a, <2>2 DEF Says
  <2>3. ASSUME NEW w \in Visits, Creating(w)', visit'[w].of = j, visit'[w].submitted = t
        PROVE  Says(j, t)
    BY <1>b, <2>3 DEF Says
  <2>4. ASSUME NEW c \in wire', c.kind = "create", c.key = j, c.text = t
        PROVE  Says(j, t)
    BY <1>1, <1>5, <2>4 DEF Says
  <2> QED BY <1>11, <2>1, <2>2, <2>3, <2>4 DEF Says
<1>12. TextInv'
  BY <1>1, <1>11 DEF IInv, TextInv
<1>13. ASSUME NEW j \in Keys, Owed(j)'
       PROVE  Owed(j)
  <2>1. \A t : Rejected(t)' = Rejected(t)
    BY <1>1 DEF Rejected
  <2>2. ASSUME NEW c \in wire', c.kind = "create"
        PROVE  c \in wire
    BY <1>1, <1>5, <2>2
  <2> QED BY <1>0, <1>1, <1>13, <1>a, <2>1, <2>2 DEF Owed
<1>14. OneCreate => OwedInv' /\ FreshInv'
  <2>1. ~FreshForm'
    BY <1>1, <1>4, <1>a DEF FreshForm, Form
  <2> QED BY <1>1, <1>13, <2>1 DEF OneCreate, OwedInv, FreshInv
<1> QED BY <1>6, <1>7, <1>8, <1>9, <1>10, <1>12, <1>14 DEF IInv, OneCreate

----------------------------------------------------------------------------
(* No create is forgotten.                                                 *)

LEMMA KnownKeys ==
    /\ Known \subseteq Keys /\ Cardinality(Known) \in Nat
    /\ \A k \in Known : k <= Cardinality(Known)
<1>1. PICK n \in 0..MaxKeys : Known = 1..n
  BY RecoveryAssumption
<1>2. n \in Nat /\ MaxKeys \in Nat
  BY <1>1, Basics
<1>3. Cardinality(1..n) = n
  BY <1>2, FS_Interval
<1> QED BY <1>1, <1>2, <1>3 DEF Keys

LEMMA InitHolds == RecoveryInit => IInv /\ OneCreate
<1> SUFFICES ASSUME RecoveryInit PROVE IInv /\ OneCreate
  OBVIOUS
<1> DEFINE first == [Away EXCEPT !.page = "new", !.step = "shown"]
<1>1. /\ storage = NoPending /\ now = 1 /\ minted = Cardinality(Known)
      /\ wire = {} /\ discarded = {} /\ planned = Known /\ expired = FALSE
      /\ visit = [v \in Visits |-> IF v = 1 THEN first ELSE Away]
  BY DEF RecoveryInit
<1>2. PICK t \in Texts : event = [k \in Keys |-> IF k \in Known THEN t ELSE Blank]
  BY DEF RecoveryInit
<1>3. /\ first \in VisitType /\ first.step = "shown" /\ first.pending = NoPending
      /\ first.saved = 0 /\ first.answer = NoCall /\ ~first.canDiscard
      /\ ~first.creating
  BY AwayFields DEF VisitType
<1> HIDE DEF first
<1>4. ASSUME NEW v \in Visits
      PROVE  /\ visit[v] \in VisitType /\ visit[v].step \in {"shown", "gone"}
             /\ visit[v].pending = NoPending /\ visit[v].saved = 0
             /\ visit[v].answer = NoCall /\ ~visit[v].canDiscard
             /\ ~visit[v].creating
             /\ v > now => visit[v] = Away
  BY <1>1, <1>3, AwayFields, Basics
<1>5. now \in Visits /\ minted \in Nat /\ planned \subseteq Keys
  BY <1>1, KnownKeys, Basics
<1>6. TypeInv
  <2>1. event \in [Keys -> Texts]
    BY <1>2, Basics
  <2>2. visit \in [Visits -> VisitType]
    BY <1>1, <1>4
  <2> QED BY <1>1, <1>5, <2>1, <2>2, Basics DEF TypeInv
<1>7. \A v \in Visits : ~Saving(v) /\ ~Creating(v)
  BY <1>4 DEF Saving, Creating
<1>8. CallInv /\ AnswerInv
  BY <1>1, <1>4 DEF CallInv, AnswerInv, AnswerOf, NoCall
<1>9. FormInv
  BY <1>4, <1>7 DEF FormInv, FormOf, PlanSteps
<1>10. OneKeyInv /\ TextInv
  <2>1. \A k \in Keys : \A u : ~Says(k, u)
    BY <1>1, <1>4, <1>7, Basics DEF Says
  <2> QED BY <1>1, <1>7, <2>1 DEF OneKeyInv, TextInv
<1>11. \A k \in Keys : ~Owed(k)
  BY <1>1, <1>2, <1>4, <1>5, Basics DEF Owed
<1> QED BY <1>6, <1>8, <1>9, <1>10, <1>11 DEF IInv, OneCreate, OwedInv, FreshInv

LEMMA StepKeeps ==
    ASSUME IInv, [RecoveryNext]_recoveryVars
    PROVE  IInv' /\ (OneCreate /\ LateAnswers = FALSE => OneCreate')
<1>1. CASE UNCHANGED recoveryVars
  <2>1. UNCHANGED <<storage, visit, now, minted, wire, event, planned,
                    discarded, expired>>
    BY <1>1 DEF recoveryVars
  <2>2. NoNewCall /\ NoNewEvent /\ \A v \in Visits : SameVisit(v)
    BY <2>1 DEF NoNewCall, NoNewEvent, SameVisit
  <2>3. CallInv' /\ AnswerInv'
    BY <2>1 DEF IInv, CallInv, AnswerInv, AnswerOf, Rejected
  <2>4. /\ visit' \in [Visits -> VisitType] /\ wire' \subseteq CallType
        /\ event' \in [Keys -> Texts] /\ planned' \subseteq Keys
        /\ expired' \in BOOLEAN
    BY <2>1 DEF IInv, TypeInv
  <2> QED BY <2>1, <2>2, <2>3, <2>4, ApiKeeps
<1>2. CASE RecoveryNext
  <2>1. CASE \E c \in wire : Serve(c)
    BY <2>1, ServeKeeps
  <2>2. CASE DatePasses
    BY <2>2, DatePassesKeeps
  <2>3. CASE \E v \in Visits : Unheard(v)
    BY <2>3, UnheardKeeps
  <2>4. CASE \E v \in Visits : Response(v)
    BY <2>4, ResponseKeeps
  <2>5. CASE \E ok \in BOOLEAN : OpenNew(ok)
    BY <2>5, OpenNewKeeps
  <2>6. CASE \E ok \in BOOLEAN : SaveNew(ok)
    BY <2>6, SaveNewKeeps
  <2>7. CASE \E ok \in BOOLEAN : DiscardCreateRecovery(ok)
    BY <2>7, DiscardKeeps
  <2>8. CASE \E ok \in BOOLEAN : \E c \in wire : Tidy(c, ok)
    BY <2>8, TidyKeeps
  <2>9. CASE \E k \in Keys : OpenEdit(k)
    BY <2>9, OpenEditKeeps
  <2>10. CASE \E k \in Keys : OpenPlan(k)
    BY <2>10, OpenPlanKeeps
  <2>11. CASE \E t \in Texts : Type(t)
    BY <2>11, TypeKeeps
  <2>12. CASE SaveAgain
    BY <2>12, SaveAgainKeeps
  <2>13. CASE SaveEdit
    BY <2>13, SaveEditKeeps
  <2>14. CASE Generate
    BY <2>14, GenerateKeeps
  <2>15. \/ \E c \in wire : Serve(c)
         \/ DatePasses \/ SaveAgain \/ SaveEdit \/ Generate
         \/ \E v \in Visits : Unheard(v) \/ Response(v)
         \/ \E ok \in BOOLEAN :
               \/ OpenNew(ok) \/ SaveNew(ok) \/ DiscardCreateRecovery(ok)
               \/ \E c \in wire : Tidy(c, ok)
         \/ \E k \in Keys : OpenEdit(k) \/ OpenPlan(k)
         \/ \E t \in Texts : Type(t)
    BY <1>2, Zenon DEF RecoveryNext, Response
  <2> QED BY <2>1, <2>2, <2>3, <2>4, <2>5, <2>6, <2>7, <2>8, <2>9, <2>10,
             <2>11, <2>12, <2>13, <2>14, <2>15
<1> QED BY <1>1, <1>2

(* As long as no save of the tab outlives its next create, an event whose  *)
(* plan was never made is still in the tab's recovery, unless the          *)
(* organizer discarded it: intake-form.tsx save, events-api.ts             *)
(* storePendingCreate and clearPendingCreateForEvent.                      *)
THEOREM NoCreateGetsLost ==
    ASSUME LateAnswers = FALSE
    PROVE  RecoverySpec => []NoCreateIsForgotten
<1>1. RecoveryInit => IInv /\ OneCreate
  BY InitHolds
<1>2. IInv /\ OneCreate /\ [RecoveryNext]_recoveryVars => IInv' /\ OneCreate'
  BY StepKeeps
<1>3. OneCreate => NoCreateIsForgotten
  BY DEF OneCreate, OwedInv, Owed, NoCreateIsForgotten
<1> QED BY <1>1, <1>2, <1>3, PTL DEF RecoverySpec

----------------------------------------------------------------------------
(* The page opens over nothing that was typed.                             *)

OpensNow == now' = now /\ visit[now].step = "checking" /\ visit'[now].step = "gone"
TypedIsKept == visit[now].typed \in {visit[now].submitted, visit[now].stored}

(* A step that changes none of the answers of the form on screen.          *)
LEMMA TypedStays ==
    ASSUME TypeInv, TypedInv, now' = now, SameVisit(now), SameAnswers(now)
    PROVE  TypedInv' /\ ~OpensNow
BY DEF TypedInv, SameVisit, SameAnswers, Saving, OpensNow

(* A save or a read of the page on screen that ends.                       *)
LEMMA EndedIsTyped ==
    ASSUME TypeInv, TypedInv, now' = now, NEW form \in VisitType, Heard(now, form),
           form.step \notin {"saving", "planning", "checking"},
           form.step = "gone" /\ visit[now].step = "checking" => TypedIsKept
    PROVE  TypedInv' /\ (OpensNow => TypedIsKept)
<1>1. now \in Visits
  BY DEF TypeInv
<1>2. /\ form.step = "gone" => visit'[now].step = "gone"
      /\ form.step # "gone" => visit'[now].step = form.step
  BY <1>1, HeardFields, AwayFields
<1>3. ~Saving(now)'
  BY <1>2 DEF Saving
<1> QED BY <1>2, <1>3 DEF TypedInv, OpensNow

LEMMA CreatedIsTyped ==
    ASSUME IInv, TypedInv, NEW ok \in BOOLEAN, Created(now, ok)
    PROVE  TypedInv' /\ (OpensNow => TypedIsKept)
<1> DEFINE p == visit[now].pending
           kept == IF p = NoPending THEN p ELSE [p EXCEPT !.created = TRUE]
           stored == event[visit[now].of]
           saved == Saved(now, stored)
           form == [saved EXCEPT !.pending = kept,
                                 !.step = IF ok THEN "planning" ELSE Idle(now)]
<1>0. /\ TypeInv /\ now \in Visits /\ visit[now] \in VisitType /\ p \in Records
      /\ now' = now /\ visit[now].step = "saving" /\ visit[now].creating
      /\ Heard(now, form)
  BY DEF Created, Answered, IInv, TypeInv, VisitType
<1>1. visit[now].of \in Keys
  <2>1. Creating(now)
    BY <1>0 DEF Creating, Saving
  <2> QED BY <1>0, <2>1 DEF IInv, FormInv, FormOf, VisitType, KeyOrNone
<1>2. stored \in Texts /\ kept \in Records
  BY <1>0, <1>1, Basics DEF TypeInv, Records
<1>3. /\ saved \in VisitType /\ saved.typed = visit[now].typed
      /\ saved.submitted = visit[now].submitted /\ saved.stored = stored
      /\ saved.current = IF visit[now].current = visit[now].submitted
                         THEN stored ELSE visit[now].current
  <2> HIDE DEF stored
  <2> QED BY <1>0, <1>1, <1>2, ZenonT(40)
          DEF Saved, VisitType, ReconcileAnswers, Mounted, KeyOrNone
<1> HIDE DEF saved, kept, stored
<1>4. /\ form \in VisitType /\ form.typed = saved.typed
      /\ form.submitted = saved.submitted /\ form.stored = saved.stored
      /\ form.current = saved.current
      /\ form.step = IF ok THEN "planning" ELSE "shown"
  BY <1>2, <1>3 DEF VisitType, Idle, Mounted
<1> HIDE DEF form
<1>5. CASE ~ok
  BY <1>0, <1>4, <1>5, EndedIsTyped
<1>6. CASE ok
  <2>1. /\ visit'[now].step = "planning" /\ visit'[now].typed = visit[now].typed
        /\ visit'[now].submitted = visit[now].submitted
        /\ visit'[now].stored = stored
        /\ visit'[now].current = IF visit[now].current = visit[now].submitted
                                 THEN stored ELSE visit[now].current
    BY <1>0, <1>3, <1>4, <1>6, HeardFields
  <2>2. visit[now].typed = visit[now].current
    BY <1>0 DEF TypedInv, Saving
  <2> QED BY <1>0, <2>1, <2>2 DEF TypedInv, OpensNow
<1> QED BY <1>5, <1>6

LEMMA PlanAskedIsTyped ==
    ASSUME IInv, TypedInv, PlanAsked(now)
    PROVE  TypedInv' /\ (OpensNow => TypedIsKept)
<1> DEFINE form == [visit[now] EXCEPT !.step = "checking"]
<1>0. /\ TypeInv /\ now \in Visits /\ visit[now] \in VisitType
      /\ now' = now /\ visit[now].step = "planning" /\ Heard(now, form)
  BY DEF PlanAsked, IInv, TypeInv
<1>1. /\ form \in VisitType /\ form.typed = visit[now].typed
      /\ form.submitted = visit[now].submitted /\ form.stored = visit[now].stored
      /\ form.current = visit[now].current /\ form.step = "checking"
  BY <1>0 DEF VisitType
<1> HIDE DEF form
<1>2. /\ visit'[now].step = "checking" /\ visit'[now].typed = visit[now].typed
      /\ visit'[now].submitted = visit[now].submitted
      /\ visit'[now].stored = visit[now].stored
      /\ visit'[now].current = visit[now].current
  BY <1>0, <1>1, HeardFields
<1> QED BY <1>0, <1>2 DEF TypedInv, OpensNow, Saving

LEMMA ResponseIsTyped ==
    ASSUME IInv, TypedInv, NEW v \in Visits, Response(v)
    PROVE  TypedInv' /\ (OpensNow => TypedIsKept)
<1>0. /\ TypeInv /\ now \in Visits /\ visit[now] \in VisitType /\ now' = now
      /\ \A w \in Visits \ {v} : visit'[w] = visit[w]
  BY Responses DEF IInv, TypeInv, ResponseShape, GoesOn
<1>1. CASE v # now
  <2>1. SameVisit(now) /\ SameAnswers(now)
    BY <1>0, <1>1 DEF SameVisit, SameAnswers
  <2> QED BY <1>0, <2>1, TypedStays
<1>2. CASE v = now
  <2>1. ASSUME NEW s \in {"shown", "gone", "missing", "ready", "unavailable",
                          "rereading"},
               Heard(now, [visit[now] EXCEPT !.step = s]),
               s = "gone" => visit[now].step # "checking"
        PROVE  TypedInv' /\ (OpensNow => TypedIsKept)
    <3> DEFINE form == [visit[now] EXCEPT !.step = s]
    <3>1. form \in VisitType /\ form.step = s
      BY <1>0 DEF VisitType
    <3> HIDE DEF form
    <3>2. Heard(now, form)
      BY <2>1 DEF form
    <3> QED BY <1>0, <2>1, <3>1, <3>2, EndedIsTyped
  <2>2. CASE SaveLost(now) \/ PlanNotSeen(now)
    BY <2>1, <2>2 DEF SaveLost, PlanNotSeen, Idle, Mounted
  <2>3. CASE Edited(now)
    BY <2>1, <2>3 DEF Edited, Answered
  <2>4. CASE PlanLoaded(now)
    BY <2>1, <2>4 DEF PlanLoaded
  <2>5. CASE GenerateLost(now)
    BY <2>1, <2>5 DEF GenerateLost
  <2>6. ASSUME NEW ok \in BOOLEAN, Generated(now, ok)
        PROVE  TypedInv' /\ (OpensNow => TypedIsKept)
    BY <2>1, <2>6 DEF Generated
  <2>7. ASSUME NEW ok \in BOOLEAN, Reread(now, ok)
        PROVE  TypedInv' /\ (OpensNow => TypedIsKept)
    <3> DEFINE form == [visit[now] EXCEPT
                          !.step = IF visit[now].answer = "ok" THEN "ready" ELSE "missing",
                          !.unknown = ~(visit[now].answer = "ok") /\ visit[now].given = 0]
    <3>1. form \in VisitType /\ form.step \in {"ready", "missing"}
      BY <1>0, ZenonT(40) DEF VisitType
    <3>2. Heard(now, form)
      BY <2>7 DEF Reread
    <3> HIDE DEF form
    <3> QED BY <1>0, <3>1, <3>2, EndedIsTyped
  <2>8. ASSUME NEW ok \in BOOLEAN, SaveRejected(now, ok)
        PROVE  TypedInv' /\ (OpensNow => TypedIsKept)
    <3> DEFINE over == visit[now].creating /\ ~visit[now].retry
               form == [visit[now] EXCEPT
                          !.step = Idle(now),
                          !.canDiscard = @ \/ (Mounted(now) /\ visit[now].retry),
                          !.pending = IF over THEN NoPending ELSE @]
    <3>1. form \in VisitType /\ form.step = "shown"
      BY <1>0, Basics, ZenonT(40) DEF VisitType, Idle, Mounted
    <3>2. Heard(now, form)
      BY <2>8 DEF SaveRejected
    <3> HIDE DEF form
    <3> QED BY <1>0, <3>1, <3>2, EndedIsTyped
  <2>9. ASSUME NEW ok \in BOOLEAN, PlanSeen(now, ok)
        PROVE  TypedInv' /\ (OpensNow => TypedIsKept)
    <3> DEFINE form == [visit[now] EXCEPT
                          !.pending = IF ok THEN NoPending ELSE @,
                          !.step = IF ok /\ visit[now].current = visit[now].stored
                                   THEN "gone" ELSE Idle(now)]
    <3>1. /\ form \in VisitType /\ form.step \in {"gone", "shown"}
          /\ form.step = "gone" => visit[now].current = visit[now].stored
      BY <1>0, Basics DEF VisitType, Idle, Mounted
    <3>2. Heard(now, form) /\ visit[now].step = "checking"
      BY <2>9 DEF PlanSeen, Answered
    <3> HIDE DEF form
    <3>3. form.step = "gone" => TypedIsKept
      BY <3>1, <3>2 DEF TypedInv, Saving, TypedIsKept
    <3> QED BY <1>0, <3>1, <3>2, <3>3, EndedIsTyped
  <2>10. CASE PlanAsked(now)
    BY <2>10, PlanAskedIsTyped
  <2>11. ASSUME NEW ok \in BOOLEAN, Created(now, ok)
         PROVE  TypedInv' /\ (OpensNow => TypedIsKept)
    BY <2>11, CreatedIsTyped
  <2> QED BY <1>2, <2>2, <2>3, <2>4, <2>5, <2>6, <2>7, <2>8, <2>9, <2>10, <2>11
          DEF Response
<1> QED BY <1>1, <1>2

(* A page that was just opened waits for no save.                          *)
LEMMA ArriveIsTyped ==
    ASSUME TypeInv, NEW page, NEW k, NEW new, Arrive(page, k, new),
           new.step \in {"shown", "loading"}
    PROVE  TypedInv' /\ (OpensNow => TypedIsKept)
<1>1. /\ now \in Nat /\ now' = now + 1 /\ now' \in Visits
      /\ visit'[now'] = new
  BY Basics DEF Arrive, TypeInv, Visits
<1>2. ~OpensNow
  BY <1>1 DEF OpensNow
<1>3. visit'[now'].step \notin {"saving", "planning", "checking"}
  BY <1>1
<1> QED BY <1>2, <1>3 DEF TypedInv, Saving

LEMMA StepIsTyped ==
    ASSUME IInv, TypedInv, [RecoveryNext]_recoveryVars
    PROVE  TypedInv' /\ (OpensNow => TypedIsKept)
<1>0. TypeInv /\ now \in Visits /\ visit[now] \in VisitType
  BY DEF IInv, TypeInv
<1>1. ASSUME UNCHANGED <<visit, now>>
      PROVE  TypedInv' /\ ~OpensNow
  BY <1>0, <1>1, TypedStays DEF SameVisit, SameAnswers
<1>2. ASSUME NEW k \in Keys, OpenEdit(k) \/ OpenPlan(k)
      PROVE  TypedInv' /\ (OpensNow => TypedIsKept)
  <2>1. CASE OpenEdit(k)
    <3>1. Arrive("edit", k, [Away EXCEPT !.page = "edit", !.of = k, !.step = "shown",
                                         !.saved = k, !.current = event[k]])
      BY <2>1 DEF OpenEdit
    <3>2. [Away EXCEPT !.page = "edit", !.of = k, !.step = "shown",
                       !.saved = k, !.current = event[k]].step = "shown"
      BY DEF Away
    <3> QED BY <1>0, <3>1, <3>2, ArriveIsTyped
  <2>2. CASE OpenPlan(k)
    <3>1. Arrive("plan", k, [Away EXCEPT !.page = "plan", !.of = k, !.step = "loading"])
      BY <2>2 DEF OpenPlan
    <3>2. [Away EXCEPT !.page = "plan", !.of = k, !.step = "loading"].step = "loading"
      BY DEF Away
    <3> QED BY <1>0, <3>1, <3>2, ArriveIsTyped
  <2> QED BY <1>2, <2>1, <2>2
<1>3. ASSUME NEW ok \in BOOLEAN, OpenNew(ok)
      PROVE  TypedInv' /\ (OpensNow => TypedIsKept)
  <2> DEFINE new == [Away EXCEPT !.page = "new", !.step = "shown",
                       !.blocked = ~ok,
                       !.pending = IF ok THEN storage ELSE NoPending,
                       !.current = IF ok THEN storage.text ELSE Blank]
  <2>1. Arrive("new", 0, new)
    BY <1>3 DEF OpenNew
  <2>2. new.step = "shown"
    BY DEF Away
  <2> HIDE DEF new
  <2> QED BY <1>0, <2>1, <2>2, ArriveIsTyped
<1>4. ASSUME NEW text \in Texts, NEW retry, NEW creating, NEW k, NEW p,
             Form.step = "shown", now' = now,
             \/ visit' = [visit EXCEPT ![now] =
                   Submitted(visit[now], k, text, retry, creating)]
             \/ visit' = [visit EXCEPT ![now] =
                   [Submitted(visit[now], k, text, retry, creating)
                      EXCEPT !.pending = p]]
      PROVE  TypedInv' /\ ~OpensNow
  <2>1. /\ visit'[now].step = "saving"
        /\ visit'[now].typed = visit[now].current
        /\ visit'[now].current = visit[now].current
    <3> DEFINE sent == Submitted(visit[now], k, text, retry, creating)
               held == [sent EXCEPT !.pending = p]
    <3>1. /\ sent.step = "saving" /\ sent.typed = visit[now].current
          /\ sent.current = visit[now].current
          /\ held.step = sent.step /\ held.typed = sent.typed
          /\ held.current = sent.current
      BY <1>0 DEF Submitted, VisitType
    <3>2. visit'[now] \in {sent, held}
      BY <1>0, <1>4 DEF TypeInv
    <3> HIDE DEF sent, held
    <3> QED BY <3>1, <3>2
  <2> QED BY <1>4, <2>1 DEF TypedInv, OpensNow
<1>5. ASSUME NEW t \in Texts, Type(t)
      PROVE  TypedInv' /\ ~OpensNow
  <2>1. /\ now' = now /\ visit'[now].step = visit[now].step
        /\ visit'[now].current = t
        /\ Saving(now) => visit'[now].typed = t
    BY <1>0, <1>5 DEF Type, TypeInv, VisitType
  <2> QED BY <2>1 DEF TypedInv, Saving, OpensNow
<1>6. ASSUME NEW ok \in BOOLEAN, DiscardCreateRecovery(ok)
      PROVE  TypedInv' /\ ~OpensNow
  <2>1. CASE ok
    <3>1. visit' = [visit EXCEPT ![now].pending = NoPending, ![now].canDiscard = FALSE]
          /\ now' = now
      BY <1>6, <2>1 DEF DiscardCreateRecovery
    <3>2. /\ visit'[now].step = visit[now].step
          /\ visit'[now].current = visit[now].current
          /\ visit'[now].typed = visit[now].typed
          /\ visit'[now].submitted = visit[now].submitted
          /\ visit'[now].stored = visit[now].stored
      BY <1>0, <3>1 DEF TypeInv, VisitType
    <3> QED BY <3>1, <3>2 DEF TypedInv, Saving, OpensNow
  <2>2. CASE ~ok
    BY <1>1, <1>6, <2>2 DEF DiscardCreateRecovery
  <2> QED BY <2>1, <2>2
<1>7. ASSUME Generate
      PROVE  TypedInv' /\ ~OpensNow
  <2>1. visit[now].step = "missing" /\ visit'[now].step = "generating" /\ now' = now
    BY <1>0, <1>7 DEF Generate, Form, TypeInv, VisitType
  <2> QED BY <2>1 DEF TypedInv, Saving, OpensNow
<1>8. ASSUME NEW c \in wire, Serve(c)
      PROVE  TypedInv' /\ ~OpensNow
  <2>1. PICK a \in {"ok", "invalid", "missing"} : Hear(c, a)
    BY <1>8 DEF Serve, ServeCreate, ServeEdit, ServePlan, ServeRead
  <2>2. SameVisit(now) /\ SameAnswers(now) /\ now' = now
    BY <1>0, <2>1, HearShape
  <2> QED BY <1>0, <2>2, TypedStays
<1>9. ASSUME NEW v \in Visits, Unheard(v)
      PROVE  TypedInv' /\ ~OpensNow
  <2>1. visit' = [visit EXCEPT ![v].answer = "lost"] /\ now' = now
    BY <1>9 DEF Unheard
  <2>2. SameVisit(now) /\ SameAnswers(now)
    BY <1>0, <2>1, AnswerArrives
  <2> QED BY <1>0, <2>1, <2>2, TypedStays
<1>10. ASSUME NEW ok \in BOOLEAN, SaveNew(ok)
       PROVE  TypedInv' /\ ~OpensNow
  <2> DEFINE p == [key |-> minted + 1, text |-> Form.current, created |-> FALSE]
  <2>1. Form.step = "shown" /\ now' = now /\ Form.current \in Texts
    BY <1>0, <1>10 DEF SaveNew, Form, VisitType
  <2>2. CASE ok
    <3>1. visit' = [visit EXCEPT ![now] =
              [Submitted(visit[now], p.key, p.text, FALSE, TRUE) EXCEPT !.pending = p]]
      BY <1>0, <1>10, <2>2 DEF SaveNew, TypeInv
    <3>2. p.text \in Texts
      BY <2>1
    <3> HIDE DEF p
    <3> QED BY <1>4, <2>1, <3>1, <3>2
  <2>3. CASE ~ok
    BY <1>1, <1>10, <2>3 DEF SaveNew
  <2> QED BY <2>2, <2>3
<1>11. ASSUME SaveAgain \/ SaveEdit
       PROVE  TypedInv' /\ ~OpensNow
  <2>1. CASE SaveAgain
    <3>1. /\ Form.step = "shown" /\ now' = now
          /\ visit' = [visit EXCEPT ![now] =
                Submitted(visit[now], visit[now].pending.key,
                          visit[now].pending.text, TRUE, TRUE)]
      BY <1>0, <2>1 DEF SaveAgain, RetryOf, TypeInv
    <3>2. visit[now].pending.text \in Texts
      BY <1>0, Basics DEF VisitType
    <3> QED BY <1>4, <3>1, <3>2
  <2>2. CASE SaveEdit
    <3>1. /\ Form.step = "shown" /\ now' = now
          /\ visit' = [visit EXCEPT ![now] =
                Submitted(visit[now], visit[now].saved, visit[now].current,
                          FALSE, FALSE)]
      BY <1>0, <2>2 DEF SaveEdit, TypeInv
    <3>2. visit[now].current \in Texts
      BY <1>0 DEF VisitType
    <3> QED BY <1>4, <3>1, <3>2
  <2> QED BY <1>11, <2>1, <2>2
<1>12. ASSUME \/ UNCHANGED recoveryVars \/ DatePasses
              \/ \E ok \in BOOLEAN : \E c \in wire : Tidy(c, ok)
       PROVE  TypedInv' /\ ~OpensNow
  BY <1>1, <1>12 DEF recoveryVars, DatePasses, Tidy
<1>13. \/ UNCHANGED recoveryVars
       \/ \E c \in wire : Serve(c)
       \/ DatePasses \/ SaveAgain \/ SaveEdit \/ Generate
       \/ \E v \in Visits : Unheard(v) \/ Response(v)
       \/ \E ok \in BOOLEAN :
             \/ OpenNew(ok) \/ SaveNew(ok) \/ DiscardCreateRecovery(ok)
             \/ \E c \in wire : Tidy(c, ok)
       \/ \E k \in Keys : OpenEdit(k) \/ OpenPlan(k)
       \/ \E t \in Texts : Type(t)
  BY Zenon DEF RecoveryNext, Response
<1> QED BY <1>2, <1>3, <1>5, <1>6, <1>7, <1>8, <1>9, <1>10, <1>11, <1>12, <1>13,
           ResponseIsTyped

(* Whatever outlives what, the plan page opens after a create only when    *)
(* what was typed last since the click is what was sent or what came back: *)
(* intake-form.tsx reconcileAnswers and its changedWhileSaving.            *)
THEOREM NothingTypedIsOverwritten == RecoverySpec => OpensOverWhatWasTyped
<1>1. RecoveryInit => IInv /\ TypedInv
  <2> SUFFICES ASSUME RecoveryInit PROVE IInv /\ TypedInv
    OBVIOUS
  <2>1. ~Saving(now)
    BY AwayFields, Basics DEF RecoveryInit, Saving, Away
  <2> QED BY <2>1, InitHolds DEF TypedInv
<1>2. IInv /\ TypedInv /\ [RecoveryNext]_recoveryVars => IInv' /\ TypedInv'
  BY StepKeeps, StepIsTyped
<1>3. IInv /\ TypedInv /\ [RecoveryNext]_recoveryVars =>
         [\A v \in Visits : OpensOver(v) =>
             visit[v].typed \in {visit[v].submitted, visit[v].stored}]_recoveryVars
  <2> SUFFICES ASSUME IInv, TypedInv, [RecoveryNext]_recoveryVars,
                      NEW v \in Visits, OpensOver(v)
               PROVE  visit[v].typed \in {visit[v].submitted, visit[v].stored}
    OBVIOUS
  <2>1. OpensNow /\ v = now
    BY DEF OpensOver, OpensNow
  <2> QED BY <2>1, StepIsTyped DEF TypedIsKept
<1> QED BY <1>1, <1>2, <1>3, PTL DEF RecoverySpec, OpensOverWhatWasTyped
=============================================================================
