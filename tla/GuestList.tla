----------------------------- MODULE GuestList -----------------------------
(***************************************************************************)
(* What an event's guest list promises, with no request, lock, calendar or *)
(* failure in sight: every call takes effect at one instant, under the     *)
(* capacity, publication and plan of that instant, or not at all.          *)
(***************************************************************************)
EXTENDS Integers, FiniteSets

CONSTANTS Guests, Contacts, Capacities, NoLimit, NoRow, WalkIn

VARIABLES
    capacity,   \* of the event, NoLimit if it has none
    published,  \* is its page public?
    plan,       \* what the latest permit plan says of publication
    status,     \* of each guest's RSVP
    link        \* whom a contact that checked in was recognized as

Seated == {g \in Guests : status[g] = "confirmed"}

Init ==
    /\ capacity \in Capacities
    /\ published \in BOOLEAN
    /\ plan \in {"none", "clear", "blocked"}
    /\ published => plan # "none"
    /\ status \in [Guests -> {"none", "confirmed", "cancelled"}]
    /\ link = [c \in Contacts |-> NoRow]

(* A guest who has a seat keeps it, also above a lowered capacity.         *)
TakeSeat(g) ==
    /\ published /\ plan # "blocked"
    /\ g \in Seated \/ capacity = NoLimit \/ Cardinality(Seated) < capacity
    /\ status' = [status EXCEPT ![g] = "confirmed"]
    /\ UNCHANGED <<capacity, published, plan, link>>

GiveBack(g) ==
    /\ status[g] # "none"
    /\ status' = [status EXCEPT ![g] = "cancelled"]
    /\ UNCHANGED <<capacity, published, plan, link>>

Publish ==
    /\ plan = "clear"
    /\ published' = TRUE
    /\ UNCHANGED <<capacity, plan, status, link>>

Unpublish ==
    /\ published' = FALSE
    /\ UNCHANGED <<capacity, plan, status, link>>

(* A contact is recognized as somebody on the list, an email address only  *)
(* as itself, or it walks in.                                              *)
CheckIn(c) ==
    /\ \E g \in {h \in Guests : status[h] # "none"} \cup {WalkIn} :
          /\ c \in Guests => g \in {c, WalkIn}
          /\ link' = [link EXCEPT ![c] = g]
    /\ UNCHANGED <<capacity, published, plan, status>>

Resize ==
    /\ capacity' \in Capacities
    /\ UNCHANGED <<published, plan, status, link>>

Replan ==
    /\ plan' \in {"clear", "blocked"}
    /\ UNCHANGED <<capacity, published, status, link>>

Next ==
    \/ \E g \in Guests : TakeSeat(g) \/ GiveBack(g)
    \/ \E c \in Contacts : CheckIn(c)
    \/ Publish \/ Unpublish \/ Resize \/ Replan

Spec == Init /\ [][Next]_<<capacity, published, plan, status, link>>
=============================================================================
