---------------------------- MODULE MCAttendance ----------------------------
(* Small instances of Attendance for TLC.                                  *)
EXTENDS Attendance, TLC

CONSTANTS r1, r2, r3, g1, g2, p

Call(kind, guest, phone, contact) ==
    [kind |-> kind, guest |-> guest, phone |-> phone, contact |-> contact]

Organizing == {Call(k, g1, NoPhone, g1) : k \in {"cancel", "publish", "unpublish"}}

DoorCalls ==
    {Call("rsvp", g1, p, g1), Call("rsvp", g2, p, g1),
     Call("rsvp", g1, NoPhone, g1), Call("publish", g1, NoPhone, g1)}
        \cup {Call("checkin", g1, NoPhone, c) : c \in Contacts}

Guest(status, phone) == [status |-> status, phone |-> phone, since |-> 0]

NoGuests == {[g \in Guests |-> Guest("none", NoPhone)]}

LinkCalls == {Call("rsvp", g1, p, g1), Call("checkin", g1, NoPhone, p)}

AllCalls == Organizing \cup DoorCalls \cup {Call("rsvp", g2, NoPhone, g2)}

(* Nobody has answered yet; one guest holds a seat, the other gave it back. *)
TwoLists ==
    NoGuests \cup {(g1 :> Guest("confirmed", NoPhone)) @@ (g2 :> Guest("cancelled", NoPhone))}

RequestSymmetry == Permutations(Requests)
=============================================================================
