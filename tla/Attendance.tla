----------------------------- MODULE Attendance -----------------------------
(***************************************************************************)
(* One event's public page, guest list and door                            *)
(* (apps/api/src/attendance: public-page.ts, rsvps.ts, checkins.ts).       *)
(*                                                                         *)
(* A request is one HTTP call.  RSVPs, cancellations and publications take *)
(* the event's row lock with their first statement and hold it until they  *)
(* commit, so what such a transaction reads stands until its end.  A       *)
(* check-in is three statements on a bare pool: read the event, match the  *)
(* contact with an RSVP, upsert the check-in.  Its foreign keys may make   *)
(* the upsert wait for that lock; what it writes does not depend on it.    *)
(*                                                                         *)
(* A guest is an email address, one row per event (the unique index of     *)
(* migration 001); a check-in is named by its contact, an email address or *)
(* the digits of a phone number.  Editing the event and generating plans   *)
(* (module EventPlan) are steps of its environment here: both commit       *)
(* under the same lock.                                                    *)
(***************************************************************************)
EXTENDS Integers, FiniteSets

CONSTANTS
    Requests,   \* the HTTP calls
    Intents,    \* what the calls may ask for
    Guests,     \* email addresses
    Phones,     \* phone numbers
    NoPhone,
    Capacities, \* what an edit may set the capacity to
    NoLimit,    \* the null capacity
    NoRow,      \* nobody has checked in under a contact
    WalkIn,     \* the check-in is linked to no RSVP
    GuestLists, \* the guest lists the behaviours start from
    MaxDay      \* bound: the last day of the calendar

Contacts == Guests \cup Phones
Days == 1..MaxDay

Intent == [kind : {"rsvp", "cancel", "publish", "unpublish", "checkin"},
           guest : Guests,                  \* rsvp, cancel
           phone : Phones \cup {NoPhone},   \* rsvp
           contact : Contacts]              \* checkin

Rsvp == [status : {"none", "confirmed", "cancelled"},
         phone : Phones \cup {NoPhone},
         since : Nat]     \* created_at: the start of its transaction

ASSUME AttendanceAssumption ==
    /\ Intents \subseteq Intent /\ Intents # {}
    /\ IsFiniteSet(Guests) /\ IsFiniteSet(Requests)
    /\ Guests \cap Phones = {} /\ NoPhone \notin Contacts
    /\ Capacities \subseteq (Nat \ {0}) \cup {NoLimit} /\ NoLimit \notin Nat
    /\ {NoRow, WalkIn} \cap Guests = {} /\ NoRow # WalkIn
    /\ GuestLists \subseteq [Guests -> Rsvp]
    /\ MaxDay \in Nat \ {0}

VARIABLES
    day,      \* today, in the jurisdiction
    event,    \* the event's row
    plan,     \* what its latest permit plan says of publication
    rsvp,     \* the rsvps table, by email address
    checkin,  \* the checkins table, by contact: rsvp_id
    req       \* what each request is doing, and how it was answered

vars == <<day, event, plan, rsvp, checkin, req>>

Event == [capacity : Capacities, date : Days, published : BOOLEAN]
Answer == {"none", "seated", "full", "closed", "passed", "cancelled",
           "missing", "published", "no_plan", "blocked", "unpublished",
           "admitted", "ended", "failed"}
Request == [pc : {"new", "arrived", "begun", "locked", "checked", "open",
                  "matched", "done"},
            intent : Intents,
            today : Days,                     \* today() on arrival
            since : Nat,                      \* BEGIN; 0: no transaction
            confirmed : Nat,                  \* the count before an insert
            match : Guests \cup {WalkIn},     \* a check-in's RSVP
            answer : Answer,
            count : Nat]                      \* confirmed_count it reports

TypeOK ==
    /\ day \in Days
    /\ event \in Event
    /\ plan \in {"none", "clear", "blocked"}
    /\ rsvp \in [Guests -> Rsvp]
    /\ checkin \in [Contacts -> Guests \cup {WalkIn, NoRow}]
    /\ req \in [Requests -> Request]

----------------------------------------------------------------------------
(* Reading the tables.                                                     *)

Taken == {g \in Guests : rsvp[g].status = "confirmed"}
Confirmed == Cardinality(Taken)

(* A null capacity never refuses; one lowered below the count does.        *)
isFull == event.capacity # NoLimit /\ Confirmed >= event.capacity

(* Mutant: an email address also matches the phone a guest left out.       *)
MatchingNoPhone(c) ==
    {g \in Guests : /\ rsvp[g].status # "none"
                    /\ g = c \/ rsvp[g].phone \in {c, NoPhone}}

(* The RSVPs a contact matches; cancelled rows stay matchable.             *)
Matching(c) ==
    {g \in Guests : /\ rsvp[g].status # "none"
                    /\ g = c \/ rsvp[g].phone = c}

(* The oldest matching RSVP; either of two of one age.                     *)
findMatchingRsvp(c) ==
    IF Matching(c) = {} THEN {WalkIn}
    ELSE {g \in Matching(c) : \A h \in Matching(c) : rsvp[g].since <= rsvp[h].since}

(* Mutant: RSVPs and cancellations of one event do not wait for each other. *)
LockIgnored == TRUE

HoldsLock(r) == req[r].pc \in {"locked", "checked"}
LockFree == \A r \in Requests : ~HoldsLock(r)

(* A request that has been answered is over.                               *)
Reply(r, answer) ==
    req' = [req EXCEPT ![r] = [@ EXCEPT !.pc = "done", !.answer = answer]]
ReplyWithCount(r, answer, count) ==
    req' = [req EXCEPT ![r] = [@ EXCEPT !.pc = "done", !.answer = answer,
                                        !.count = count]]
Proceed(r, pc) == req' = [req EXCEPT ![r] = [@ EXCEPT !.pc = pc]]

Submit(r) ==
    /\ req[r].pc = "new"
    /\ \E i \in Intents :
          req' = [req EXCEPT ![r] =
                     [@ EXCEPT !.pc = "arrived", !.intent = i, !.today = day]]
    /\ UNCHANGED <<day, event, plan, rsvp, checkin>>

----------------------------------------------------------------------------
(* The transactions on the event's row: RSVP, cancellation, publication.   *)

Transacts(r) == req[r].intent.kind \in {"rsvp", "cancel", "publish"}

(* BEGIN fixes the created_at of a row inserted later, before the wait for *)
(* the lock.                                                               *)
Begin(r) ==
    /\ req[r].pc = "arrived" /\ Transacts(r)
    /\ req' = [req EXCEPT ![r] =
                  [@ EXCEPT !.pc = "begun",
                            !.since = 1 + Cardinality(
                               {s \in Requests : req[s].since # 0})]]
    /\ UNCHANGED <<day, event, plan, rsvp, checkin>>

lockEvent(r) ==
    /\ req[r].pc = "begun" /\ LockFree
    /\ Proceed(r, "locked")
    /\ UNCHANGED <<day, event, plan, rsvp, checkin>>

(* A guest with a seat keeps it, also above a lowered capacity.            *)
NeedsSeat(g) == rsvp[g].status # "confirmed"

(* Mutant: an RSVP does not look at the plan.                              *)
PageOpenIfPublished == event.published

PageOpen == event.published /\ plan # "blocked"

CheckRsvp(r) ==
    LET Passed == event.date < req[r].today
        Refused == NeedsSeat(req[r].intent.guest) /\ isFull
    IN  /\ req[r].pc = "locked" /\ req[r].intent.kind = "rsvp"
        /\ \/ ~PageOpen /\ Reply(r, "closed")
           \/ PageOpen /\ Passed /\ Reply(r, "passed")
           \/ PageOpen /\ ~Passed /\ Refused /\ Reply(r, "full")
           \/ /\ PageOpen /\ ~Passed /\ ~Refused
              /\ req' = [req EXCEPT ![r] = [@ EXCEPT !.pc = "checked",
                                            !.confirmed = Confirmed]]
        /\ UNCHANGED <<day, event, plan, rsvp, checkin>>

(* A first RSVP is inserted and reports one more than it counted; any      *)
(* other is updated and counts again.                                      *)
CommitRsvp(r) ==
    LET g == req[r].intent.guest
        new == rsvp[g].status = "none"
    IN  /\ req[r].pc = "checked" /\ req[r].intent.kind = "rsvp"
        /\ rsvp' = [rsvp EXCEPT ![g] =
                       [status |-> "confirmed", phone |-> req[r].intent.phone,
                        since |-> IF new THEN req[r].since ELSE @.since]]
        /\ \/ ReplyWithCount(r, "seated",
                  IF new THEN req[r].confirmed + 1 ELSE Confirmed')
           \/ Reply(r, "failed")
        /\ UNCHANGED <<day, event, plan, checkin>>

(* Mutant: the count a cancellation reports is taken before its update.    *)
CancelCountedFirst(r) ==
    LET g == req[r].intent.guest
    IN  /\ req[r].pc = "locked" /\ req[r].intent.kind = "cancel"
        /\ \/ /\ rsvp[g].status = "none"
              /\ Reply(r, "missing") /\ UNCHANGED rsvp
           \/ /\ rsvp[g].status # "none"
              /\ rsvp' = [rsvp EXCEPT ![g].status = "cancelled"]
              /\ ReplyWithCount(r, "cancelled", Confirmed)
        /\ UNCHANGED <<day, event, plan, checkin>>

CommitCancel(r) ==
    LET g == req[r].intent.guest
    IN  /\ req[r].pc = "locked" /\ req[r].intent.kind = "cancel"
        /\ \/ /\ rsvp[g].status = "none"
              /\ Reply(r, "missing") /\ UNCHANGED rsvp
           \/ /\ rsvp[g].status # "none"
              /\ rsvp' = [rsvp EXCEPT ![g].status = "cancelled"]
              /\ \/ ReplyWithCount(r, "cancelled", Confirmed')
                 \/ Reply(r, "failed")
        /\ UNCHANGED <<day, event, plan, checkin>>

(* Mutant: any event may be published.                                     *)
CheckNothing(r) ==
    /\ req[r].pc = "locked" /\ req[r].intent.kind = "publish"
    /\ Proceed(r, "checked")
    /\ UNCHANGED <<day, event, plan, rsvp, checkin>>

(* Mutant: a refusal is neither rolled back nor answered.                  *)
RefusalForgotten(r) ==
    /\ req[r].pc = "locked" /\ req[r].intent.kind = "publish"
    /\ plan = "clear" /\ Proceed(r, "checked")
    /\ UNCHANGED <<day, event, plan, rsvp, checkin>>

CheckPublish(r) ==
    /\ req[r].pc = "locked" /\ req[r].intent.kind = "publish"
    /\ \/ plan = "none" /\ Reply(r, "no_plan")
       \/ plan = "blocked" /\ Reply(r, "blocked")
       \/ plan = "clear" /\ Proceed(r, "checked")
    /\ UNCHANGED <<day, event, plan, rsvp, checkin>>

CommitPublish(r) ==
    /\ req[r].pc = "checked" /\ req[r].intent.kind = "publish"
    /\ event' = [event EXCEPT !.published = TRUE]
    /\ Reply(r, "published") \/ Reply(r, "failed")
    /\ UNCHANGED <<day, plan, rsvp, checkin>>

(* Unpublishing is one UPDATE, which waits for the row.                    *)
Unpublish(r) ==
    /\ req[r].pc = "arrived" /\ req[r].intent.kind = "unpublish"
    /\ LockFree
    /\ event' = [event EXCEPT !.published = FALSE]
    /\ Reply(r, "unpublished") \/ Reply(r, "failed")
    /\ UNCHANGED <<day, plan, rsvp, checkin>>

----------------------------------------------------------------------------
(* POST /events/:id/checkins: no transaction, a statement per step.        *)

readCheckinEvent(r) ==
    /\ req[r].pc = "arrived" /\ req[r].intent.kind = "checkin"
    /\ \/ event.date < req[r].today /\ Reply(r, "ended")
       \/ event.date >= req[r].today /\ Proceed(r, "open")
    /\ UNCHANGED <<day, event, plan, rsvp, checkin>>

Match(r) ==
    /\ req[r].pc = "open"
    /\ \E g \in findMatchingRsvp(req[r].intent.contact) :
          req' = [req EXCEPT ![r] = [@ EXCEPT !.pc = "matched", !.match = g]]
    /\ UNCHANGED <<day, event, plan, rsvp, checkin>>

(* A contact's second check-in overwrites its first, link included.        *)
Upsert(r) ==
    /\ req[r].pc = "matched"
    /\ checkin' = [checkin EXCEPT ![req[r].intent.contact] = req[r].match]
    /\ Reply(r, "admitted") \/ Reply(r, "failed")
    /\ UNCHANGED <<day, event, plan, rsvp>>

----------------------------------------------------------------------------
(* A statement fails or the process dies before the commit.                *)
Abort(r) ==
    /\ req[r].pc \notin {"new", "done"}
    /\ Reply(r, "failed")
    /\ UNCHANGED <<day, event, plan, rsvp, checkin>>

EditEvent ==
    /\ LockFree
    /\ \E c \in Capacities, d \in Days :
          event' = [event EXCEPT !.capacity = c, !.date = d]
    /\ UNCHANGED <<day, plan, rsvp, checkin, req>>

GeneratePlan ==
    /\ LockFree
    /\ plan' \in {"clear", "blocked"}
    /\ UNCHANGED <<day, event, rsvp, checkin, req>>

Midnight ==
    /\ day < MaxDay
    /\ day' = day + 1
    /\ UNCHANGED <<event, plan, rsvp, checkin, req>>

Init ==
    /\ day = 1
    /\ event \in Event
    /\ plan \in {"none", "clear", "blocked"}
    /\ event.published => plan # "none"
    /\ rsvp \in GuestLists
    /\ plan = "none" => \A g \in Guests : rsvp[g].status = "none"
    /\ checkin = [c \in Contacts |-> NoRow]
    /\ req = [r \in Requests |->
                 [pc |-> "new", intent |-> CHOOSE i \in Intents : TRUE,
                  today |-> 1, since |-> 0, confirmed |-> 0,
                  match |-> WalkIn, answer |-> "none", count |-> 0]]

createRsvp(r) == CheckRsvp(r) \/ CommitRsvp(r)
Publish(r) == CheckPublish(r) \/ CommitPublish(r)
recordCheckin(r) == readCheckinEvent(r) \/ Match(r) \/ Upsert(r)

(* What the process that serves a request does next.                       *)
Serve(r) ==
    \/ Begin(r) \/ lockEvent(r)
    \/ createRsvp(r) \/ CommitCancel(r) \/ Publish(r) \/ Unpublish(r)
    \/ recordCheckin(r)

Next ==
    \/ \E r \in Requests : Submit(r) \/ Serve(r) \/ Abort(r)
    \/ EditEvent \/ GeneratePlan \/ Midnight

Spec == Init /\ [][Next]_vars

(* A process goes on with the request it serves.                           *)
FairSpec == Spec /\ \A r \in Requests : WF_vars(Serve(r))
----------------------------------------------------------------------------
(* Properties.                                                             *)

(* A seat is given only while the capacity in force at that moment allows  *)
(* it, although guests RSVP, cancel and come back at once and the organizer *)
(* raises and lowers the capacity between them (rsvps.ts createRsvp).      *)
NeverOverbooked ==
    [][~(Taken' \subseteq Taken) =>
          event'.capacity = NoLimit \/ Confirmed' <= event'.capacity]_vars

(* A seat is given only while the page is published and its latest plan is *)
(* not blocked, and to a call that arrived by the event's date, although   *)
(* the page may be withdrawn, replanned or rescheduled while the call      *)
(* waits (rsvps.ts createRsvp, F-301 AC 8).                                *)
SeatsOnlyWhileOpen ==
    [][\A g \in Taken' \ Taken :
          /\ event'.published /\ plan' # "blocked"
          /\ \E r \in Requests : /\ req[r].pc = "checked"
                                 /\ req[r].intent.guest = g
                                 /\ req[r].today <= event'.date]_vars

(* The count a guest or the organizer is shown is the count after their    *)
(* own change, whoever else changes the list (rsvps.ts confirmed_count).   *)
ReportedCountsAreTrue ==
    [][\A r \in Requests :
          req[r].answer = "none" /\ req'[r].answer \in {"seated", "cancelled"}
             => req'[r].count = Confirmed']_vars

(* A page becomes public only over a stored plan, and only while the       *)
(* latest one is not blocked (public-page.ts, F-301 AC 7 and 8).           *)
PublishedOverAClearPlan ==
    [][event'.published /\ ~event.published => plan' = "clear"]_vars

(* The transactions on the event's row and the door's three statements,    *)
(* interleaved, failing and answered as they may be, are the guest list of *)
(* module GuestList: each call takes effect at one instant or not at all,  *)
(* under the capacity, publication and plan of that instant (rsvps.ts,     *)
(* public-page.ts, checkins.ts).                                           *)
List == INSTANCE GuestList
            WITH capacity <- event.capacity, published <- event.published,
                 status <- [g \in Guests |-> rsvp[g].status], link <- checkin

ImplementsGuestList == List!Spec

(* An email address is linked to its own RSVP or to none, and whatever a   *)
(* check-in is linked to is on the guest list (checkins.ts, F-401 AC 4).   *)
LinksAreGuests ==
    \A c \in Contacts : checkin[c] \in Guests =>
        /\ rsvp[checkin[c]].status # "none"
        /\ c \in Guests => checkin[c] = c

(* Every call is answered: nothing waits for the event's row for ever      *)
(* (withTransaction always commits or rolls back).                         *)
EveryCallIsAnswered ==
    \A r \in Requests : req[r].pc = "arrived" ~> req[r].pc = "done"

(* A check-in that was linked to the guest list stays linked while an RSVP *)
(* matches its contact (F-401 AC 3 and 4: a duplicate submission updates,  *)
(* and a matching contact links).                                          *)
LinkIsNotLost ==
    [][\A c \in Contacts :
          checkin[c] \in Guests /\ Matching(c) # {} => checkin'[c] \in Guests]_vars
=============================================================================
