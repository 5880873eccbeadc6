--------------------------- MODULE CreateRecovery ---------------------------
(***************************************************************************)
(* Creating an event from one browser tab: the intake form, the plan page  *)
(* and the recovery record they keep in the tab's session storage          *)
(* (intake-form.tsx, plan-view.tsx, events-api.ts, plan-api.ts).           *)
(*                                                                         *)
(* A form mints a key, stores it with what it is about to send, creates    *)
(* the event and has its first plan generated, each in a call that may go  *)
(* unanswered.  Leaving a page does not end its save: what a visit began   *)
(* goes on after the next visit is on screen.  The API is what EventPlan   *)
(* promises of it: a key makes at most one event, with the text it first   *)
(* came with, and a call with the key makes at most one plan.  (Such a     *)
(* call is never refused: the plan that could refuse it answers it.)       *)
(***************************************************************************)
EXTENDS Naturals, FiniteSets

CONSTANTS
    Texts,       \* what the form's answers can say, as a whole
    Blank,       \* answers that lack a required one
    Perishable,  \* answers whose date may pass
    Known,       \* keys of the events the organizer has already, planned
    LateAnswers, \* may a save outlive the next create of the same tab?
    MaxVisits, MaxKeys, MaxChanges, MaxFaults   \* bounds

ASSUME RecoveryAssumption ==
    /\ Blank \in Texts /\ Perishable \subseteq Texts
    /\ LateAnswers \in BOOLEAN
    /\ \E n \in 0..MaxKeys : Known = 1..n
    /\ {MaxVisits, MaxKeys, MaxChanges, MaxFaults} \subseteq Nat
    /\ MaxVisits > 0

VARIABLES
    storage,   \* the tab's recovery record
    visit,     \* the visits to a page, in order
    now,       \* the one on screen
    minted,    \* the keys minted so far
    wire,      \* calls the API has not handled
    event,     \* by create key: what the event says, Blank for no event
    planned,   \* the events that have a plan
    discarded, \* the keys whose recovery the organizer discarded
    expired,   \* has the date of the perishable answers passed?
    changes,   \* how often the organizer changed the answers
    faults

recoveryVars == <<storage, visit, now, minted, wire, event, planned,
                  discarded, expired, changes, faults>>

Keys == 1..MaxKeys
Visits == 1..MaxVisits

(* A recovery record: key 0 is none.  What was sent and what was on screen *)
(* at the click say the same.                                              *)
NoPending == [key |-> 0, text |-> Blank, created |-> FALSE]

NoCall == "none"
Away == [page |-> "none", of |-> 0, step |-> "gone", pending |-> NoPending,
         blocked |-> FALSE, saved |-> 0, current |-> Blank, typed |-> Blank,
         submitted |-> Blank, retry |-> FALSE, creating |-> FALSE,
         stored |-> Blank, canDiscard |-> FALSE, answer |-> NoCall,
         given |-> 0, unknown |-> FALSE]

Call(v, kind, key, given, text) ==
    [from |-> v, kind |-> kind, key |-> key, given |-> given, text |-> text]

Mounted(v) == v = now
(* A save that has ended: its page is idle, or it was left meanwhile.      *)
Idle(v) == IF Mounted(v) THEN "shown" ELSE "gone"
Saving(v) == visit[v].step \in {"saving", "planning", "checking"}

Send(c) == wire' = wire \cup {c}

(* storePendingCreate: setItem and removeItem may throw, and say so.       *)
Stores(p, ok) ==
    /\ storage' = IF ok THEN p ELSE storage
    /\ ok \/ faults < MaxFaults
    /\ faults' = IF ok THEN faults ELSE faults + 1

(* Mutant: whatever recovery there is is cleared.                          *)
IsPendingCreateForAny(p, k) == TRUE

IsPendingCreateForEvent(p, k) == p.created /\ p.key = k

(* clearPendingCreateForEvent.                                             *)
ClearPendingCreateForEvent(k, ok) ==
    IF IsPendingCreateForEvent(storage, k)
    THEN Stores(NoPending, ok)
    ELSE ok /\ UNCHANGED <<storage, faults>>

----------------------------------------------------------------------------
(* The API.                                                                *)

Rejected(text) == text = Blank \/ (expired /\ text \in Perishable)

(* What the API's answer to c is, and nobody reads it once the caller gave *)
(* the call up.                                                            *)
Hear(c, answer) ==
    /\ wire' = wire \ {c}
    /\ visit' = IF c.from = 0 THEN visit
                ELSE [visit EXCEPT ![c.from].answer = answer]
    /\ UNCHANGED <<storage, now, minted, discarded, expired, faults, changes>>

ServeCreate(c) ==
    /\ c \in wire /\ c.kind = "create"
    /\ \/ /\ event[c.key] # Blank
          /\ Hear(c, "ok")
          /\ UNCHANGED <<event, planned>>
       \/ /\ event[c.key] = Blank /\ Rejected(c.text)
          /\ Hear(c, "invalid")
          /\ UNCHANGED <<event, planned>>
       \/ /\ event[c.key] = Blank /\ ~Rejected(c.text)
          /\ event' = [event EXCEPT ![c.key] = c.text]
          /\ Hear(c, "ok")
          /\ UNCHANGED planned

ServeEdit(c) ==
    /\ c \in wire /\ c.kind = "edit"
    /\ \/ Rejected(c.text) /\ Hear(c, "invalid") /\ UNCHANGED event
       \/ /\ ~Rejected(c.text)
          /\ event' = [event EXCEPT ![c.key] = c.text]
          /\ Hear(c, "ok")
    /\ UNCHANGED planned

ServePlan(c) ==
    /\ c \in wire /\ c.kind = "plan"
    /\ planned' = planned \cup {c.key}
    /\ Hear(c, "ok")
    /\ UNCHANGED event

ServeRead(c) ==
    /\ c \in wire /\ c.kind = "read"
    /\ Hear(c, IF c.key \in planned THEN "ok" ELSE "missing")
    /\ UNCHANGED <<event, planned>>

(* A page's plan read need not be waited for: it only clears the recovery  *)
(* of an event whose plan it has seen.                                     *)
Tidy(c, ok) ==
    /\ c \in wire /\ c.kind = "tidy"
    /\ wire' = wire \ {c}
    /\ IF c.key \in planned THEN ClearPendingCreateForEvent(c.key, ok)
       ELSE ok /\ UNCHANGED <<storage, faults>>
    /\ UNCHANGED <<visit, now, minted, event, planned, discarded, expired, changes>>

DatePasses ==
    /\ ~expired
    /\ expired' = TRUE
    /\ UNCHANGED <<storage, visit, now, minted, wire, event, planned,
                   discarded, faults, changes>>

(* The calls when v waits for none: a read nobody waits for does nothing.  *)
GivenUp(v) ==
    {c \in wire : c.from # v} \cup
    {[c EXCEPT !.from = 0] : c \in {d \in wire : d.from = v /\ d.kind # "read"}}

(* fetch rejects, or the answer cannot be used: the API may have handled   *)
(* the call, may be at it, or may still get it.                            *)
Unheard(v) ==
    /\ visit[v].step \in {"saving", "planning", "checking", "loading",
                          "generating", "rereading"}
    /\ visit[v].answer # "lost"
    /\ faults < MaxFaults
    /\ faults' = faults + 1
    /\ wire' = GivenUp(v)
    /\ visit' = [visit EXCEPT ![v].answer = "lost"]
    /\ UNCHANGED <<storage, now, minted, event, planned, discarded, expired, changes>>

----------------------------------------------------------------------------
(* Moving between the pages.                                               *)

Leave == IF Saving(now) THEN visit[now] ELSE Away

StillAwaited == IF Saving(now) THEN wire ELSE GivenUp(now)

Arrive(page, k, v) ==
    /\ now < MaxVisits
    /\ now' = now + 1
    /\ visit' = [visit EXCEPT ![now] = Leave, ![now + 1] = v]
    /\ UNCHANGED <<storage, minted, discarded, faults, event, planned, expired, changes>>

(* The form for a new event restores the recovery there is, or, when it    *)
(* cannot be read, refuses to save.                                        *)
OpenNew(readable) ==
    /\ readable \/ faults < MaxFaults
    /\ Arrive("new", 0,
          [Away EXCEPT !.page = "new", !.step = "shown",
                       !.blocked = ~readable,
                       !.pending = IF readable THEN storage ELSE NoPending,
                       !.current = IF readable THEN storage.text ELSE Blank])
    /\ wire' = StillAwaited

(* The form of an event loads it, and reads its plan to clear the recovery *)
(* of the create that made it.                                             *)
OpenEdit(k) ==
    /\ event[k] # Blank
    /\ Arrive("edit", k,
          [Away EXCEPT !.page = "edit", !.of = k, !.step = "shown",
                       !.saved = k, !.current = event[k]])
    /\ wire' = StillAwaited \cup {Call(0, "tidy", k, 0, Blank)}

(* The plan page reads the plan, to show it and to clear the recovery.     *)
OpenPlan(k) ==
    /\ event[k] # Blank
    /\ Arrive("plan", k,
          [Away EXCEPT !.page = "plan", !.of = k, !.step = "loading"])
    /\ wire' = StillAwaited \cup {Call(now + 1, "read", k, 0, Blank),
                          Call(0, "tidy", k, 0, Blank)}

----------------------------------------------------------------------------
(* The form.                                                               *)

Form == visit[now]
OnForm == Form.page \in {"new", "edit"}

(* The controls stay open while a save runs.                               *)
Type(t) ==
    /\ OnForm /\ t \notin {Form.current, Blank}
    /\ changes < MaxChanges
    /\ changes' = changes + 1
    /\ visit' = [visit EXCEPT ![now].current = t,
                              ![now].typed = IF Saving(now) THEN t ELSE Blank]
    /\ UNCHANGED <<storage, now, minted, wire, event, planned, discarded,
                   expired, faults>>

Submitted(form, k, text, retry, creating) ==
    [form EXCEPT !.step = "saving", !.of = k,
                 !.submitted = text, !.typed = form.current,
                 !.retry = retry, !.creating = creating, !.answer = NoCall]

MayCreate ==
    LateAnswers \/ \A v \in Visits : Saving(v) => v = now

(* A first attempt mints the key and stores it before it is sent; when it  *)
(* cannot be stored, nothing is sent.                                      *)
SaveNew(ok) ==
    LET p == [key |-> minted + 1, text |-> Form.current, created |-> FALSE]
    IN  /\ OnForm /\ Form.step = "shown" /\ ~Form.blocked
        /\ Form.saved = 0 /\ Form.pending = NoPending
        /\ Form.current # Blank
        /\ minted < MaxKeys /\ MayCreate
        /\ minted' = minted + 1
        /\ Stores(p, ok)
        /\ IF ok
           THEN /\ visit' = [visit EXCEPT ![now] =
                       [Submitted(@, p.key, p.text, FALSE, TRUE) EXCEPT !.pending = p]]
                /\ Send(Call(now, "create", p.key, 0, p.text))
           ELSE UNCHANGED <<visit, wire>>
        /\ UNCHANGED <<now, discarded, event, planned, expired, changes>>

RetryOf(form) == form.pending

(* While a create is pending, saving repeats it, whatever is on screen.    *)
SaveAgain ==
    /\ OnForm /\ Form.step = "shown" /\ ~Form.blocked
    /\ Form.pending # NoPending
    /\ visit' = [visit EXCEPT ![now] =
                    Submitted(@, RetryOf(@).key, RetryOf(@).text, TRUE, TRUE)]
    /\ Send(Call(now, "create", RetryOf(Form).key, 0, RetryOf(Form).text))
    /\ UNCHANGED <<storage, now, minted, discarded, faults, event, planned,
                   expired, changes>>

SaveEdit ==
    /\ OnForm /\ Form.step = "shown" /\ ~Form.blocked
    /\ Form.saved # 0 /\ Form.pending = NoPending
    /\ Form.current # Blank
    /\ visit' = [visit EXCEPT ![now] = Submitted(@, @.saved, @.current, FALSE, FALSE)]
    /\ Send(Call(now, "edit", Form.saved, 0, Form.current))
    /\ UNCHANGED <<storage, now, minted, discarded, faults, event, planned,
                   expired, changes>>

Answered(v, step, answer) ==
    visit[v].step = step /\ visit[v].answer = answer

(* What a save kept to itself ends with it, and a page that was left has   *)
(* nothing.                                                                *)
Heard(v, form) ==
    visit' = [visit EXCEPT ![v] =
        CASE form.step = "gone" -> Away
          [] form.step = "shown" ->
                [form EXCEPT !.answer = NoCall, !.of = form.saved,
                             !.submitted = Blank, !.typed = Blank,
                             !.stored = Blank, !.retry = FALSE,
                             !.creating = FALSE]
          [] OTHER -> [form EXCEPT !.answer = NoCall]]

(* No answer to use: what is pending stays pending.                        *)
SaveLost(v) ==
    /\ Answered(v, "saving", "lost")
    /\ Heard(v, [visit[v] EXCEPT !.step = Idle(v)])
    /\ UNCHANGED <<storage, now, minted, wire, discarded, faults, event,
                   planned, expired, changes>>

(* A first attempt that is rejected is over: nothing came before it.  A    *)
(* rejected retry says nothing of the attempt before it, so its recovery   *)
(* is kept until the organizer discards it.                                *)
SaveRejected(v, ok) ==
    LET over == visit[v].creating /\ ~visit[v].retry
    IN  /\ Answered(v, "saving", "invalid")
        /\ Heard(v, [visit[v] EXCEPT
                        !.step = Idle(v),
                        !.canDiscard = @ \/ (Mounted(v) /\ visit[v].retry),
                        !.pending = IF over THEN NoPending ELSE @])
        /\ IF over THEN Stores(NoPending, ok)
                   ELSE ok /\ UNCHANGED <<storage, faults>>
        /\ UNCHANGED <<now, minted, wire, discarded, event, planned, expired, changes>>

(* Mutant: the stored row replaces what is on screen.                      *)
StoredOnly(current, submitted, stored) == stored

ReconcileAnswers(current, submitted, stored) ==
    IF current = submitted THEN stored ELSE current

Saved(v, stored) ==
    [visit[v] EXCEPT
        !.stored = stored,
        !.canDiscard = @ /\ ~Mounted(v),
        !.saved = IF Mounted(v) THEN visit[v].of ELSE @,
        !.current = IF Mounted(v)
                    THEN ReconcileAnswers(@, visit[v].submitted, stored) ELSE @]

(* The event exists: the recovery, unless discarded meanwhile, learns it,  *)
(* and the first plan is asked for under its key.                          *)
Created(v, ok) ==
    LET p == visit[v].pending
        kept == IF p = NoPending THEN p ELSE [p EXCEPT !.created = TRUE]
    IN  /\ Answered(v, "saving", "ok") /\ visit[v].creating
        /\ IF p = NoPending THEN ok /\ UNCHANGED <<storage, faults>>
                            ELSE Stores(kept, ok)
        /\ Heard(v, [Saved(v, event[visit[v].of]) EXCEPT
                        !.pending = kept,
                        !.step = IF ok THEN "planning" ELSE Idle(v)])
        /\ IF ok THEN Send(Call(v, "plan", visit[v].of, p.key, Blank))
                 ELSE UNCHANGED wire
        /\ UNCHANGED <<now, minted, discarded, event, planned, expired, changes>>

(* An edit opens the event's page, whatever was typed while it ran.        *)
Edited(v) ==
    /\ Answered(v, "saving", "ok") /\ ~visit[v].creating
    /\ Heard(v, [visit[v] EXCEPT !.step = "gone"])
    /\ UNCHANGED <<storage, now, minted, wire, discarded, faults, event,
                   planned, expired, changes>>

(* Answered or not, the plan is looked for.                                *)
PlanAsked(v) ==
    /\ visit[v].step = "planning" /\ visit[v].answer # NoCall
    /\ Heard(v, [visit[v] EXCEPT !.step = "checking"])
    /\ Send(Call(v, "read", visit[v].of, 0, Blank))
    /\ UNCHANGED <<storage, now, minted, discarded, faults, event, planned,
                   expired, changes>>

(* Not found is not known: the recovery stays for the next save.           *)
PlanNotSeen(v) ==
    /\ visit[v].step = "checking" /\ visit[v].answer \in {"missing", "lost"}
    /\ Heard(v, [visit[v] EXCEPT !.step = Idle(v)])
    /\ UNCHANGED <<storage, now, minted, wire, discarded, faults, event,
                   planned, expired, changes>>

(* The plan is stored: the create is over, and its page opens unless       *)
(* answers typed meanwhile are still to be saved.                          *)
PlanSeen(v, ok) ==
    LET form == visit[v]
    IN  /\ Answered(v, "checking", "ok")
        /\ ClearPendingCreateForEvent(form.of, ok)
        /\ Heard(v, [form EXCEPT
                        !.pending = IF ok THEN NoPending ELSE @,
                        !.step = IF ok /\ form.current = form.stored
                                 THEN "gone" ELSE Idle(v)])
        /\ UNCHANGED <<now, minted, wire, discarded, event, planned, expired, changes>>

(* Offered once a retry was rejected.                                      *)
DiscardCreateRecovery(ok) ==
    /\ OnForm /\ Form.step \in {"shown", "saving"} /\ Form.canDiscard
    /\ Stores(NoPending, ok)
    /\ IF ok
       THEN /\ visit' = [visit EXCEPT ![now].pending = NoPending,
                                     ![now].canDiscard = FALSE]
            /\ discarded' = discarded \cup {Form.pending.key}
       ELSE UNCHANGED <<visit, discarded>>
    /\ UNCHANGED <<now, minted, wire, event, planned, expired, changes>>

----------------------------------------------------------------------------
(* The plan page of an event, as far as it makes the first plan.           *)

PlanLoaded(v) ==
    /\ visit[v].step = "loading" /\ visit[v].answer # NoCall
    /\ Heard(v, [visit[v] EXCEPT
                    !.step = CASE visit[v].answer = "missing" -> "missing"
                               [] visit[v].answer = "ok" -> "ready"
                               [] OTHER -> "unavailable"])
    /\ UNCHANGED <<storage, now, minted, wire, discarded, faults, event,
                   planned, expired, changes>>

InitialCreateKey(k) ==
    IF IsPendingCreateForEvent(storage, k) THEN storage.key ELSE 0

(* generate: with the create key when the recovery is this event's.        *)
Generate ==
    LET k == Form.of
    IN  /\ Form.step = "missing" /\ ~Form.unknown
        /\ visit' = [visit EXCEPT ![now].step = "generating",
                                  ![now].given = InitialCreateKey(k),
                                  ![now].answer = NoCall]
        /\ Send(Call(now, "plan", k, InitialCreateKey(k), Blank))
        /\ UNCHANGED <<storage, now, minted, discarded, faults, event,
                       planned, expired, changes>>

Generated(v, ok) ==
    /\ Answered(v, "generating", "ok")
    /\ ClearPendingCreateForEvent(visit[v].of, ok)
    /\ Heard(v, [visit[v] EXCEPT !.step = "ready"])
    /\ UNCHANGED <<now, minted, wire, discarded, event, planned, expired, changes>>

(* No answer: generating is offered again.  An answer that cannot be read  *)
(* is followed by a read of the plan.                                      *)
GenerateLost(v) ==
    /\ Answered(v, "generating", "lost")
    /\ \/ /\ Heard(v, [visit[v] EXCEPT !.step = "missing"])
          /\ UNCHANGED wire
       \/ /\ Heard(v, [visit[v] EXCEPT !.step = "rereading"])
          /\ Send(Call(v, "read", visit[v].of, 0, Blank))
          /\ visit[v].of \in planned
    /\ UNCHANGED <<storage, now, minted, discarded, faults, event, planned,
                   expired, changes>>

(* Stored, and not seen: withdrawn for good, unless the key makes it safe. *)
Reread(v, ok) ==
    LET seen == visit[v].answer = "ok"
    IN  /\ visit[v].step = "rereading" /\ visit[v].answer # NoCall
        /\ Heard(v, [visit[v] EXCEPT
                        !.step = IF seen THEN "ready" ELSE "missing",
                        !.unknown = ~seen /\ visit[v].given = 0])
        /\ IF seen THEN ClearPendingCreateForEvent(visit[v].of, ok)
                   ELSE ok /\ UNCHANGED <<storage, faults>>
        /\ UNCHANGED <<now, minted, wire, discarded, event, planned, expired, changes>>

----------------------------------------------------------------------------
RecoveryInit ==
    /\ storage = NoPending
    /\ visit = [v \in Visits |->
                  IF v = 1 THEN [Away EXCEPT !.page = "new", !.step = "shown"]
                  ELSE Away]
    /\ now = 1 /\ minted = Cardinality(Known)
    /\ wire = {} /\ discarded = {}
    /\ \E t \in Texts \ {Blank} :
          event = [k \in Keys |-> IF k \in Known THEN t ELSE Blank]
    /\ planned = Known /\ expired = FALSE
    /\ changes = 0 /\ faults = 0

Serve(c) ==
    ServeCreate(c) \/ ServeEdit(c) \/ ServePlan(c) \/ ServeRead(c)

RecoveryNext ==
    \/ \E c \in wire : Serve(c)
    \/ DatePasses
    \/ \E v \in Visits : Unheard(v) \/ SaveLost(v) \/ Edited(v) \/ PlanAsked(v)
                         \/ PlanNotSeen(v) \/ PlanLoaded(v) \/ GenerateLost(v)
    \/ \E ok \in BOOLEAN :
          \/ OpenNew(ok) \/ SaveNew(ok) \/ DiscardCreateRecovery(ok)
          \/ \E c \in wire : Tidy(c, ok)
          \/ \E v \in Visits : SaveRejected(v, ok) \/ Created(v, ok)
                               \/ PlanSeen(v, ok) \/ Generated(v, ok)
                               \/ Reread(v, ok)
    \/ \E k \in Keys : OpenEdit(k) \/ OpenPlan(k)
    \/ \E t \in Texts : Type(t)
    \/ SaveAgain \/ SaveEdit \/ Generate

----------------------------------------------------------------------------
(* Properties.                                                             *)

(* An event without a plan is still in the tab's recovery, unless the      *)
(* organizer discarded it: reloading the form, whenever, finishes that     *)
(* create and starts no other.  Answers that arrive after their page was   *)
(* left, other events' plan pages and failing storage included             *)
(* (intake-form.tsx save, events-api.ts clearPendingCreateForEvent).       *)
NoCreateIsForgotten ==
    \A k \in Keys : event[k] # Blank /\ k \notin planned \cup discarded =>
        storage.key = k

(* The plan page opens after a create only when the event says what was    *)
(* typed last since the click, however long the save took (intake-form.tsx *)
(* reconcileAnswers, changedWhileSaving).                                  *)
OpensOver(v) ==
    /\ v = now /\ visit[v].step = "checking" /\ visit'[v].step = "gone"
    /\ now' = now
OpensOverWhatWasTyped ==
    [][\A v \in Visits : OpensOver(v) =>
          visit[v].typed \in {visit[v].submitted, visit[v].stored}]_recoveryVars
=============================================================================
