----------------------------- MODULE StaleNotice -----------------------------
(***************************************************************************)
(* The notice on an event's page that its plan is out of date, and the     *)
(* button that regenerates it (plan-stale-notice.tsx over regeneratePlan   *)
(* and loadEvent of events-api.ts).                                        *)
(*                                                                         *)
(* The component is handed one event after another.  A read belongs to the *)
(* event it was begun for and ends with its page; a regeneration goes on,  *)
(* and its outcome is compared with the event described when it arrives.   *)
(* A lost POST may still be handled, however late.                         *)
(***************************************************************************)
EXTENDS Naturals, FiniteSets, Sequences

CONSTANTS
    Events,
    Attempts,   \* clicks on the button
    MaxRevision, MaxMoves, MaxLost   \* bounds

ASSUME NoticeAssumption ==
    IsFiniteSet(Events) /\ {MaxRevision, MaxMoves, MaxLost} \subseteq Nat

VARIABLES
    described,  \* the event the component was last handed
    moves,
    notice,     \* what it shows: stale, regenerating, failure, withheld, cleared
    loading,    \* is its first read under way, and what was answered
    attempt,    \* the regenerations, by click
    revision,   \* the API: the revision of each event
    plans,      \* and the revisions its plans were made for, oldest first
    lost

noticeVars == <<described, moves, notice, loading, attempt, revision, plans, lost>>

Nothing == [stale |-> FALSE, regenerating |-> FALSE, failure |-> FALSE,
            withheld |-> FALSE, cleared |-> 0]

LatestPlanned(e) == plans[e][Len(plans[e])]

(* GET /events/:id, as the notice reads it: the revision, and whether the  *)
(* latest plan was made for an older one.                                  *)
EventRead(e) == [revision |-> revision[e], stale |-> LatestPlanned(e) < revision[e]]
NoRead == [revision |-> 0, stale |-> FALSE]

(* confirmedCurrentRevision: 0 when the read confirms nothing.             *)
ConfirmedCurrentRevision(read) == IF read.stale THEN 0 ELSE read.revision

----------------------------------------------------------------------------
(* The event is handed over and read.                                      *)

(* Everything shown is dropped with the event it was about.                *)
Describe(e) ==
    /\ e # described /\ moves < MaxMoves
    /\ moves' = moves + 1
    /\ described' = e
    /\ notice' = Nothing
    /\ loading' = [step |-> "sent", read |-> NoRead]
    /\ UNCHANGED <<attempt, revision, plans, lost>>

ServeLoad ==
    /\ loading.step = "sent"
    /\ loading' = [step |-> "answered", read |-> EventRead(described)]
    /\ UNCHANGED <<described, moves, notice, attempt, revision, plans, lost>>

LoadFails ==
    /\ loading.step \in {"sent", "answered"} /\ lost < MaxLost
    /\ lost' = lost + 1
    /\ loading' = [step |-> "done", read |-> NoRead]
    /\ UNCHANGED <<described, moves, notice, attempt, revision, plans>>

Loaded ==
    /\ loading.step = "answered"
    /\ loading' = [step |-> "done", read |-> NoRead]
    /\ notice' = IF loading.read.stale THEN [notice EXCEPT !.stale = TRUE]
                 ELSE notice
    /\ UNCHANGED <<described, moves, attempt, revision, plans, lost>>

----------------------------------------------------------------------------
(* The API.                                                                *)

Edit(e) ==
    /\ revision[e] < MaxRevision
    /\ revision' = [revision EXCEPT ![e] = @ + 1]
    /\ UNCHANGED <<described, moves, notice, loading, attempt, plans, lost>>

Handle(a, post, answer) ==
    attempt' = [attempt EXCEPT ![a].post = post,
                               ![a].answer = IF @ = "lost" THEN @ ELSE answer]

(* The event is read, evaluated, and its plan stored: an edit in between   *)
(* leaves a plan of the earlier revision.                                  *)
ServePin(a) ==
    /\ attempt[a].post = "sent"
    /\ attempt' = [attempt EXCEPT ![a].post = "read",
                                  ![a].pinned = revision[attempt[a].of]]
    /\ UNCHANGED <<described, moves, notice, loading, revision, plans, lost>>

ServeStore(a) ==
    /\ attempt[a].post = "read"
    /\ plans' = [plans EXCEPT ![attempt[a].of] = Append(@, attempt[a].pinned)]
    /\ Handle(a, "handled", "ok")
    /\ UNCHANGED <<described, moves, notice, loading, revision, lost>>

(* The API runs an older ruleset than the plan's: nothing is stored.       *)
ServeRefusal(a) ==
    /\ attempt[a].post = "read"
    /\ Handle(a, "handled", "refused")
    /\ UNCHANGED <<described, moves, notice, loading, revision, plans, lost>>

(* The answer is lost, or the call fails before, or while, it is handled.  *)
Lose(a) ==
    /\ attempt[a].step = "posting" /\ attempt[a].answer # "lost"
    /\ lost < MaxLost
    /\ lost' = lost + 1
    /\ \/ attempt' = [attempt EXCEPT ![a].answer = "lost"]
       \/ /\ attempt[a].post \in {"sent", "read"}
          /\ attempt' = [attempt EXCEPT ![a].answer = "lost",
                                        ![a].post = "handled"]
    /\ UNCHANGED <<described, moves, notice, loading, revision, plans>>

----------------------------------------------------------------------------
(* The button.                                                             *)

(* Mutant: an outcome is taken for the event on screen, whichever it is.   *)
AlwaysDescribed(a) == TRUE

StillDescribed(a) == attempt[a].of = described

Step(a, step, shown) ==
    /\ attempt' = [attempt EXCEPT ![a].step =
                      IF StillDescribed(a) THEN step ELSE "done"]
    /\ notice' = IF StillDescribed(a) THEN shown ELSE notice

Regenerate(a) ==
    /\ notice.stale /\ ~notice.withheld /\ ~notice.regenerating
    /\ attempt[a].step = "none"
    /\ notice' = [notice EXCEPT !.regenerating = TRUE, !.failure = FALSE]
    /\ attempt' = [attempt EXCEPT ![a] =
          [@ EXCEPT !.of = described, !.step = "posting", !.post = "sent"]]
    /\ UNCHANGED <<described, moves, loading, revision, plans, lost>>

(* A refusal stored nothing and would be repeated.                         *)
Refused(a) ==
    /\ attempt[a].step = "posting" /\ attempt[a].answer = "refused"
    /\ Step(a, "done", [notice EXCEPT !.regenerating = FALSE, !.withheld = TRUE])
    /\ UNCHANGED <<described, moves, loading, revision, plans, lost>>

(* Stored or not known: the event is read again, for it may have been      *)
(* edited meanwhile.                                                       *)
Recheck(a) ==
    /\ attempt[a].step = "posting" /\ attempt[a].answer \in {"ok", "lost"}
    /\ Step(a, "rereading", notice)
    /\ UNCHANGED <<described, moves, loading, revision, plans, lost>>

ServeReread(a) ==
    /\ attempt[a].step = "rereading"
    /\ attempt' = [attempt EXCEPT ![a].step = "reread",
                                  ![a].read = EventRead(attempt[a].of)]
    /\ UNCHANGED <<described, moves, notice, loading, revision, plans, lost>>

(* Still out of date: the edit came later, or nothing landed; the button   *)
(* stays, with what is known.                                              *)
RereadStale(a) ==
    /\ attempt[a].step = "reread" /\ attempt[a].read.stale
    /\ Step(a, "done", [notice EXCEPT !.regenerating = FALSE, !.failure = TRUE])
    /\ UNCHANGED <<described, moves, loading, revision, plans, lost>>

RereadCurrent(a) ==
    LET confirmed == ConfirmedCurrentRevision(attempt[a].read)
    IN  /\ attempt[a].step = "reread" /\ confirmed # 0
        /\ Step(a, "done", [notice EXCEPT !.regenerating = FALSE,
                                          !.stale = FALSE, !.cleared = confirmed])
        /\ UNCHANGED <<described, moves, loading, revision, plans, lost>>

(* The event cannot be read: a second click could store a second plan.     *)
RereadFails(a) ==
    /\ attempt[a].step \in {"rereading", "reread"} /\ lost < MaxLost
    /\ lost' = lost + 1
    /\ Step(a, "done", [notice EXCEPT !.regenerating = FALSE, !.withheld = TRUE])
    /\ UNCHANGED <<described, moves, loading, revision, plans>>

----------------------------------------------------------------------------
NoticeInit ==
    /\ described \in Events /\ moves = 0
    /\ notice = Nothing
    /\ loading = [step |-> "sent", read |-> NoRead]
    /\ attempt = [a \in Attempts |->
          [of |-> CHOOSE e \in Events : TRUE, step |-> "none", post |-> "none",
           pinned |-> 0, answer |-> "none", read |-> NoRead]]
    /\ revision = [e \in Events |-> 2]
    /\ plans = [e \in Events |-> <<1>>]
    /\ lost = 0

Attempted(a) ==
    \/ Regenerate(a) \/ Refused(a) \/ Recheck(a) \/ RereadStale(a)
    \/ RereadCurrent(a) \/ RereadFails(a) \/ Lose(a)
    \/ ServePin(a) \/ ServeStore(a) \/ ServeRefusal(a) \/ ServeReread(a)

NoticeNext ==
    \/ ServeLoad \/ LoadFails \/ Loaded
    \/ \E e \in Events : Describe(e) \/ Edit(e)
    \/ \E a \in Attempts : Attempted(a)

----------------------------------------------------------------------------
(* When the notice says the plan is current for a revision, this very      *)
(* event has a plan made for exactly that revision, whatever other         *)
(* event's regeneration was under way, lost or late when the page changed  *)
(* (plan-stale-notice.tsx regenerate, stillDescribed).                     *)
ClearedPlanExists ==
    notice.cleared # 0 =>
        \E i \in DOMAIN plans[described] :
            plans[described][i] = notice.cleared
=============================================================================
