---------------------------- MODULE ChecklistPage ----------------------------
(***************************************************************************)
(* The checklist page: writes to several rows at a time, each followed by  *)
(* a re-read of the whole checklist, and reviews of the plan on screen     *)
(* (checklist-view.tsx, checklist-item.tsx, checklist-api.ts).             *)
(*                                                                         *)
(* A re-read takes the next epoch when it is sent; one that lands after a  *)
(* later one is dropped.  What a page began goes on after it is left.  The *)
(* checklist itself is external here (module Checklist): the writes it     *)
(* holds and the plan it follows.                                          *)
(***************************************************************************)
EXTENDS Naturals, FiniteSets

CONSTANTS
    Pages,     \* the events whose page may be opened
    Calls,     \* the organizer's operations, each at most once
    Rows,      \* the rows of the checklist, and Button for its review
    Button,
    Revisits,  \* may a page be opened again while its calls are running?
    MaxPlans, MaxTurns, MaxFailures   \* bounds

ASSUME PageAssumption ==
    /\ IsFiniteSet(Pages) /\ Button \in Rows /\ Revisits \in BOOLEAN
    /\ {MaxPlans, MaxTurns, MaxFailures} \subseteq Nat

VARIABLES
    showing,   \* the event whose page is on screen
    opened,    \* the pages opened so far
    turns,     \* how many pages were opened
    screen,    \* what is on it
    opening,   \* the first read: under way with what it saw, or done
    writeEpoch, appliedEpoch,
    call,      \* the organizer's operations
    timers,    \* delayed re-reads not yet begun
    stored,    \* per event: the calls whose write the API has
    plan,      \* per event: its latest plan
    failures

pageVars == <<showing, opened, turns, screen, opening, writeEpoch, appliedEpoch,
              call, timers, stored, plan, failures>>

NoScreen == [status |-> "loading", of |-> "none", holds |-> {}, plan |-> 0]

(* GET /events/:id/checklist.                                              *)
ReadOf(e) == [status |-> "ready", of |-> e, holds |-> stored[e], plan |-> plan[e]]

Unused == [step |-> "new", of |-> "none", turn |-> 0, row |-> "none",
           epoch |-> 0, read |-> NoScreen, displayed |-> 0]

(* A row, and the review button, wait for their own operation.             *)
Busy(row) ==
    \E c \in Calls : /\ call[c].row = row /\ call[c].turn = turns
                     /\ call[c].step \notin {"new", "quiet", "failed", "dropped"}

----------------------------------------------------------------------------
(* The page of an event is opened, and read.                               *)

(* Epochs start anew, whatever is still under way; delayed re-reads of the *)
(* page that is left are cancelled.                                        *)
Open(e) ==
    /\ e # showing /\ turns < MaxTurns
    /\ Revisits \/ e \notin opened
    /\ showing' = e
    /\ opened' = opened \cup {e}
    /\ turns' = turns + 1
    /\ screen' = NoScreen
    /\ opening' = [step |-> "sent", read |-> NoScreen]
    /\ writeEpoch' = 0 /\ appliedEpoch' = 0
    /\ timers' = 0
    /\ UNCHANGED <<call, stored, plan, failures>>

ServeOpening ==
    /\ opening.step = "sent"
    /\ opening' = [step |-> "read", read |-> ReadOf(showing)]
    /\ UNCHANGED <<showing, opened, turns, screen, writeEpoch, appliedEpoch,
                   call, timers, stored, plan, failures>>

Opened ==
    /\ opening.step = "read"
    /\ opening' = [step |-> "done", read |-> NoScreen]
    /\ screen' = opening.read
    /\ UNCHANGED <<showing, opened, turns, writeEpoch, appliedEpoch, call,
                   timers, stored, plan, failures>>

OpeningFails ==
    /\ opening.step # "done" /\ failures < MaxFailures
    /\ failures' = failures + 1
    /\ opening' = [step |-> "done", read |-> NoScreen]
    /\ screen' = [NoScreen EXCEPT !.status = "failed"]
    /\ UNCHANGED <<showing, opened, turns, writeEpoch, appliedEpoch, call,
                   timers, stored, plan>>

(* The plan is generated again, elsewhere.                                 *)
Replan(e) ==
    /\ plan[e] < MaxPlans
    /\ plan' = [plan EXCEPT ![e] = @ + 1]
    /\ UNCHANGED <<showing, opened, turns, screen, opening, writeEpoch,
                   appliedEpoch, call, timers, stored, failures>>

----------------------------------------------------------------------------
(* Writing: a status, notes, a document, or a review of the plan.          *)

Begin(c, row) ==
    /\ call[c].step = "new"
    /\ screen.status = "ready" /\ ~Busy(row)
    /\ call' = [call EXCEPT ![c] =
          [@ EXCEPT !.step = "writing", !.of = showing, !.turn = turns,
                    !.row = row, !.displayed = screen.plan]]
    /\ UNCHANGED <<showing, opened, turns, screen, opening, writeEpoch,
                   appliedEpoch, timers, stored, plan, failures>>

IsReview(c) == call[c].row = Button
Superseded(c) == IsReview(c) /\ call[c].displayed # plan[call[c].of]

(* A review of another plan than the latest records nothing.               *)
ServeWrite(c) ==
    /\ call[c].step = "writing"
    /\ IF Superseded(c)
       THEN call' = [call EXCEPT ![c].step = "superseded"] /\ UNCHANGED stored
       ELSE /\ stored' = [stored EXCEPT ![call[c].of] = @ \cup {c}]
            /\ call' = [call EXCEPT ![c].step = "written"]
    /\ UNCHANGED <<showing, opened, turns, screen, opening, writeEpoch,
                   appliedEpoch, timers, plan, failures>>

(* A write that fails, or whose answer is lost, is reported on its row and *)
(* not followed by a re-read.                                              *)
WriteFails(c) ==
    /\ call[c].step \in {"writing", "written"} /\ failures < MaxFailures
    /\ failures' = failures + 1
    /\ call' = [call EXCEPT ![c].step = "dropped"]
    /\ UNCHANGED <<showing, opened, turns, screen, opening, writeEpoch,
                   appliedEpoch, timers, stored, plan>>

Active(c) == call[c].of = showing

(* A review whose page was left does not read; any other write does.  A    *)
(* review with a contact also reads later, for the alerts it scheduled.    *)
Reload(c) ==
    /\ call[c].step \in {"written", "superseded"}
    /\ IF IsReview(c) /\ ~Active(c)
       THEN /\ call' = [call EXCEPT ![c].step = "dropped"]
            /\ UNCHANGED writeEpoch
       ELSE /\ writeEpoch' = writeEpoch + 1
            /\ call' = [call EXCEPT ![c].step = "reading",
                                    ![c].epoch = writeEpoch + 1]
    /\ \/ UNCHANGED timers
       \/ IsReview(c) /\ Active(c) /\ call[c].step = "written" /\ timers' = 1
    /\ UNCHANGED <<showing, opened, turns, screen, opening, appliedEpoch,
                   stored, plan, failures>>

(* A delayed re-read, as an operation of its own without a write.          *)
DelayedReload(c) ==
    /\ call[c].step = "new" /\ timers > 0
    /\ timers' = timers - 1
    /\ writeEpoch' = writeEpoch + 1
    /\ call' = [call EXCEPT ![c] =
          [@ EXCEPT !.step = "reading", !.of = showing, !.turn = turns,
                    !.epoch = writeEpoch + 1]]
    /\ UNCHANGED <<showing, opened, turns, screen, opening, appliedEpoch,
                   stored, plan, failures>>

ServeReload(c) ==
    /\ call[c].step = "reading"
    /\ call' = [call EXCEPT ![c].step = "read", ![c].read = ReadOf(call[c].of)]
    /\ UNCHANGED <<showing, opened, turns, screen, opening, writeEpoch,
                   appliedEpoch, timers, stored, plan, failures>>

(* Mutant: an older re-read may land after a newer one.                    *)
AnyEpoch(c) == Active(c)
Applies(c) == Active(c) /\ call[c].epoch >= appliedEpoch

(* A re-read that is dropped says nothing.                                 *)
Reloaded(c) ==
    /\ call[c].step = "read"
    /\ IF Applies(c)
       THEN screen' = call[c].read /\ appliedEpoch' = call[c].epoch
       ELSE UNCHANGED <<screen, appliedEpoch>>
    /\ call' = [call EXCEPT ![c].step = "quiet", ![c].read = NoScreen]
    /\ UNCHANGED <<showing, opened, turns, opening, writeEpoch, timers,
                   stored, plan, failures>>

(* A failed re-read is said, unless it was a delayed one, and takes its    *)
(* epoch in any case: an older answer that comes after it is dropped.      *)
ReloadFails(c) ==
    /\ call[c].step \in {"reading", "read"} /\ failures < MaxFailures
    /\ failures' = failures + 1
    /\ appliedEpoch' = IF Applies(c) THEN call[c].epoch ELSE appliedEpoch
    /\ call' = [call EXCEPT ![c].step = IF Applies(c) THEN "failed" ELSE "quiet",
                            ![c].read = NoScreen]
    /\ UNCHANGED <<showing, opened, turns, screen, opening, writeEpoch, timers,
                   stored, plan>>

----------------------------------------------------------------------------
PageInit ==
    /\ showing \in Pages /\ opened = {showing} /\ turns = 1
    /\ screen = NoScreen
    /\ opening = [step |-> "sent", read |-> NoScreen]
    /\ writeEpoch = 0 /\ appliedEpoch = 0 /\ timers = 0
    /\ call = [c \in Calls |-> Unused]
    /\ stored = [e \in Pages |-> {}] /\ plan = [e \in Pages |-> 1]
    /\ failures = 0

PageNext ==
    \/ ServeOpening \/ Opened \/ OpeningFails
    \/ \E e \in Pages : Open(e) \/ Replan(e)
    \/ \E c \in Calls :
          \/ \E row \in Rows : Begin(c, row)
          \/ ServeWrite(c) \/ WriteFails(c) \/ Reload(c) \/ DelayedReload(c)
          \/ ServeReload(c) \/ Reloaded(c) \/ ReloadFails(c)

----------------------------------------------------------------------------
(* Properties.                                                             *)

FailedAfter(epoch) ==
    \E c \in Calls : /\ call[c].turn = turns /\ call[c].step = "failed"
                     /\ call[c].epoch > epoch

(* A write that ended without a word is on the screen, on this event's     *)
(* page, whatever other re-reads were under way and in whichever order     *)
(* they landed, or else a later re-read has failed (checklist-view.tsx     *)
(* reload).                                                                *)
WhatWasSavedIsShown ==
    \A c \in Calls :
        /\ call[c].step = "quiet" /\ call[c].turn = turns
        /\ c \in stored[showing]
        => \/ screen.of = showing /\ c \in screen.holds
           \/ FailedAfter(call[c].epoch)

=============================================================================
