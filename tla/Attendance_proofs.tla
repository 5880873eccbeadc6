------------------------- MODULE Attendance_proofs -------------------------
(***************************************************************************)
(* Proofs about Attendance, for any requests, guests, phones, capacities   *)
(* and calendar.  The inductive invariant IInv says that one transaction   *)
(* at a time holds the event's row (LockInv), that what a transaction      *)
(* checked under the lock stands until it commits (Granted), and that what *)
(* a check-in matched is still on the guest list (Linkable).               *)
(***************************************************************************)
EXTENDS Attendance, TLAPS, FiniteSetTheorems

LockInv == \A r, s \in Requests : HoldsLock(r) /\ HoldsLock(s) => r = s

(* What a transaction about to write has found.                            *)
Granted(r) ==
    req[r].pc = "checked" =>
        /\ req[r].intent.kind = "rsvp" =>
              /\ PageOpen /\ req[r].today <= event.date
              /\ ~(NeedsSeat(req[r].intent.guest) /\ isFull)
              /\ req[r].confirmed = Confirmed
        /\ req[r].intent.kind = "publish" => plan = "clear"

Linkable(c, g) == rsvp[g].status # "none" /\ (c \in Guests => c = g)

Matched(r) ==
    req[r].pc = "matched" /\ req[r].match # WalkIn =>
        Linkable(req[r].intent.contact, req[r].match)

IInv ==
    /\ TypeOK /\ LockInv /\ LinksAreGuests
    /\ \A r \in Requests : Granted(r) /\ Matched(r)

----------------------------------------------------------------------------
(* What the ways to move a request do to req.                              *)

Others(r) == \A s \in Requests : s # r => req'[s] = req[s]

(* r moves, and what it asked for and arrived with stays.                  *)
Moves(r) ==
    /\ req' \in [Requests -> Request] /\ Others(r)
    /\ req'[r].intent = req[r].intent /\ req'[r].today = req[r].today

LEMMA ReplyMoves ==
    ASSUME TypeOK, NEW r \in Requests, NEW a \in Answer, Reply(r, a)
    PROVE  Moves(r) /\ req'[r].pc = "done" /\ req'[r].answer = a
<1> DEFINE next == [req[r] EXCEPT !.pc = "done", !.answer = a]
<1>1. req[r] \in Request
  BY DEF TypeOK
<1>2. /\ next \in Request /\ next.pc = "done" /\ next.answer = a
      /\ next.intent = req[r].intent /\ next.today = req[r].today
  BY <1>1 DEF Request
<1>3. req' = [req EXCEPT ![r] = next]
  BY DEF Reply, TypeOK
<1> HIDE DEF next
<1> QED BY <1>2, <1>3 DEF TypeOK, Others, Moves

LEMMA ReplyWithCountMoves ==
    ASSUME TypeOK, NEW r \in Requests, NEW a \in Answer, NEW n \in Nat,
           ReplyWithCount(r, a, n)
    PROVE  /\ Moves(r) /\ req'[r].pc = "done" /\ req'[r].answer = a
           /\ req'[r].count = n
<1> DEFINE next == [req[r] EXCEPT !.pc = "done", !.answer = a, !.count = n]
<1>1. req[r] \in Request
  BY DEF TypeOK
<1>2. /\ next \in Request /\ next.pc = "done" /\ next.answer = a
      /\ next.count = n
      /\ next.intent = req[r].intent /\ next.today = req[r].today
  BY <1>1 DEF Request
<1>3. req' = [req EXCEPT ![r] = next]
  BY DEF ReplyWithCount, TypeOK
<1> HIDE DEF next
<1> QED BY <1>2, <1>3 DEF TypeOK, Others, Moves

LEMMA ProceedMoves ==
    ASSUME TypeOK, NEW r \in Requests,
           NEW pc \in {"locked", "checked", "open"}, Proceed(r, pc)
    PROVE  /\ Moves(r) /\ req'[r].pc = pc /\ req'[r].answer = req[r].answer
<1> DEFINE next == [req[r] EXCEPT !.pc = pc]
<1>1. req[r] \in Request
  BY DEF TypeOK
<1>2. /\ next \in Request /\ next.pc = pc /\ next.answer = req[r].answer
      /\ next.intent = req[r].intent /\ next.today = req[r].today
  BY <1>1 DEF Request
<1>3. req' = [req EXCEPT ![r] = next]
  BY DEF Proceed, TypeOK
<1> HIDE DEF next
<1> QED BY <1>2, <1>3 DEF TypeOK, Others, Moves

LEMMA TakenIsFinite ==
    ASSUME TypeOK
    PROVE  IsFiniteSet(Taken) /\ Confirmed \in Nat
<1>1. Taken \in SUBSET Guests
  BY DEF Taken
<1>2. IsFiniteSet(Taken)
  BY <1>1, FS_Subset, AttendanceAssumption
<1> QED BY <1>2, FS_CardinalityType DEF Confirmed

----------------------------------------------------------------------------
(* The two ways in which a step preserves IInv: it moves one request and   *)
(* leaves the tables alone, or it writes and leaves the row unlocked.      *)

LEMMA RequestStep ==
    ASSUME IInv, NEW r \in Requests,
           UNCHANGED <<day, event, plan, rsvp, checkin>>,
           req' \in [Requests -> Request], Others(r),
           HoldsLock(r)' => HoldsLock(r) \/ LockFree,
           Granted(r)', Matched(r)'
    PROVE  IInv'
<1>1. TypeOK'
  BY DEF IInv, TypeOK
<1>2. LockInv'
  BY DEF IInv, LockInv, HoldsLock, LockFree, Others
<1>3. LinksAreGuests'
  BY DEF IInv, LinksAreGuests
<1>4. ASSUME NEW s \in Requests PROVE Granted(s)' /\ Matched(s)'
  <2>1. CASE s = r
    BY <2>1
  <2>2. CASE s # r
    <3>1. req'[s] = req[s] /\ Granted(s) /\ Matched(s)
      BY <2>2 DEF IInv, Others
    <3>2. Granted(s)'
      BY <3>1 DEF Granted, PageOpen, NeedsSeat, isFull, Confirmed, Taken
    <3>3. Matched(s)'
      BY <3>1 DEF Matched, Linkable
    <3> QED BY <3>2, <3>3
  <2> QED BY <2>1, <2>2
<1> QED BY <1>1, <1>2, <1>3, <1>4 DEF IInv

LEMMA TableStep ==
    ASSUME IInv, TypeOK', LockFree', LinksAreGuests',
           \A s \in Requests : Matched(s)'
    PROVE  IInv'
<1>1. LockInv'
  BY DEF LockInv, LockFree
<1>2. \A s \in Requests : Granted(s)'
  BY DEF Granted, LockFree, HoldsLock
<1> QED BY <1>1, <1>2 DEF IInv

(* The transaction that ends was the only one.                             *)
LEMMA LockReleased ==
    ASSUME LockInv, NEW r \in Requests, HoldsLock(r) \/ LockFree,
           Others(r), req'[r].pc = "done"
    PROVE  LockFree'
BY DEF LockInv, HoldsLock, LockFree, Others

(* Rows of the guest list are never deleted, so links stay.                *)
LEMMA MatchesStay ==
    ASSUME IInv, NEW r \in Requests, Others(r), req'[r].pc = "done",
           \A g \in Guests : rsvp[g].status # "none" => rsvp'[g].status # "none"
    PROVE  \A s \in Requests : Matched(s)'
<1> SUFFICES ASSUME NEW s \in Requests, req'[s].pc = "matched",
                    req'[s].match # WalkIn
             PROVE  Linkable(req[s].intent.contact, req[s].match)'
  BY DEF Matched
<1>1. s # r
  OBVIOUS
<1>2. req'[s] = req[s]
  BY <1>1 DEF Others
<1>3. Linkable(req[s].intent.contact, req[s].match)
  BY <1>2 DEF IInv, Matched
<1>4. req[s] \in Request
  BY DEF IInv, TypeOK
<1>5. req[s].match \in Guests
  BY <1>2, <1>4 DEF Request
<1> QED BY <1>2, <1>3, <1>5 DEF Linkable

LEMMA LinksStay ==
    ASSUME LinksAreGuests, UNCHANGED checkin,
           \A g \in Guests : rsvp[g].status # "none" => rsvp'[g].status # "none"
    PROVE  LinksAreGuests'
BY DEF LinksAreGuests

----------------------------------------------------------------------------
(* The requests' steps.                                                    *)

(* A request that is answered without a write.                             *)
LEMMA RefusalKeepsIInv ==
    ASSUME IInv, NEW r \in Requests, NEW a \in Answer, Reply(r, a),
           UNCHANGED <<day, event, plan, rsvp, checkin>>
    PROVE  IInv'
<1>1. Moves(r) /\ req'[r].pc = "done"
  BY ReplyMoves DEF IInv
<1>2. ~HoldsLock(r)' /\ Granted(r)' /\ Matched(r)'
  BY <1>1 DEF HoldsLock, Granted, Matched
<1> QED BY <1>1, <1>2, RequestStep DEF Moves

LEMMA SubmitKeepsIInv ==
    ASSUME IInv, NEW r \in Requests, Submit(r)
    PROVE  IInv'
<1>1. PICK i \in Intents :
         req' = [req EXCEPT ![r] =
                   [@ EXCEPT !.pc = "arrived", !.intent = i, !.today = day]]
  BY DEF Submit
<1>2. req[r] \in Request /\ day \in Days /\ req \in [Requests -> Request]
  BY DEF IInv, TypeOK
<1>3. /\ req' \in [Requests -> Request] /\ Others(r)
      /\ req'[r].pc = "arrived"
  BY <1>1, <1>2 DEF Request, Others
<1>4. ~HoldsLock(r)' /\ Granted(r)' /\ Matched(r)'
  BY <1>3 DEF HoldsLock, Granted, Matched
<1> QED BY <1>3, <1>4, RequestStep DEF Submit

LEMMA BeginKeepsIInv ==
    ASSUME IInv, NEW r \in Requests, Begin(r)
    PROVE  IInv'
<1> DEFINE begun == {s \in Requests : req[s].since # 0}
           n == 1 + Cardinality(begun)
<1>1. begun \in SUBSET Requests /\ IsFiniteSet(Requests)
  BY AttendanceAssumption
<1>2. IsFiniteSet(begun)
  BY <1>1, FS_Subset
<1>3. Cardinality(begun) \in Nat
  BY <1>2, FS_CardinalityType
<1>4. n \in Nat
  BY <1>3
<1>5. req' = [req EXCEPT ![r] = [@ EXCEPT !.pc = "begun", !.since = n]]
  BY DEF Begin
<1> HIDE DEF n
<1>6. req[r] \in Request /\ req \in [Requests -> Request]
  BY DEF IInv, TypeOK
<1>7. /\ req' \in [Requests -> Request] /\ Others(r)
      /\ req'[r].pc = "begun"
  BY <1>4, <1>5, <1>6 DEF Request, Others
<1>8. ~HoldsLock(r)' /\ Granted(r)' /\ Matched(r)'
  BY <1>7 DEF HoldsLock, Granted, Matched
<1> QED BY <1>7, <1>8, RequestStep DEF Begin

LEMMA LockEventKeepsIInv ==
    ASSUME IInv, NEW r \in Requests, lockEvent(r)
    PROVE  IInv'
<1>1. Moves(r) /\ req'[r].pc = "locked"
  BY ProceedMoves DEF IInv, lockEvent
<1>2. LockFree /\ Granted(r)' /\ Matched(r)'
  BY <1>1 DEF lockEvent, Granted, Matched
<1> QED BY <1>1, <1>2, RequestStep DEF lockEvent, Moves

LEMMA CheckRsvpKeepsIInv ==
    ASSUME IInv, NEW r \in Requests, CheckRsvp(r)
    PROVE  IInv'
<1> USE DEF CheckRsvp
<1>1. CASE Reply(r, "closed") \/ Reply(r, "passed") \/ Reply(r, "full")
  BY <1>1, RefusalKeepsIInv DEF Answer
<1>2. CASE /\ PageOpen /\ ~(event.date < req[r].today)
           /\ ~(NeedsSeat(req[r].intent.guest) /\ isFull)
           /\ req' = [req EXCEPT ![r] = [@ EXCEPT !.pc = "checked",
                                         !.confirmed = Confirmed]]
  <2>1. req[r] \in Request /\ req \in [Requests -> Request]
    BY DEF IInv, TypeOK
  <2>2. Confirmed \in Nat
    BY TakenIsFinite DEF IInv
  <2>3. /\ req' \in [Requests -> Request] /\ Others(r)
        /\ req'[r].pc = "checked" /\ req'[r].confirmed = Confirmed
        /\ req'[r].intent = req[r].intent /\ req'[r].today = req[r].today
    BY <1>2, <2>1, <2>2 DEF Request, Others
  <2>4. req[r].today <= event.date
    BY <1>2, <2>1 DEF IInv, TypeOK, Event, Request, Days
  <2>5. UNCHANGED <<PageOpen, event, isFull, Confirmed>>
    BY DEF PageOpen, isFull, Confirmed, Taken
  <2>6. NeedsSeat(req[r].intent.guest)' <=> NeedsSeat(req[r].intent.guest)
    BY <2>3 DEF NeedsSeat
  <2>7. Granted(r)'
    BY <1>2, <2>3, <2>4, <2>5, <2>6 DEF Granted
  <2>8. HoldsLock(r) /\ Matched(r)'
    BY <2>3 DEF HoldsLock, Matched
  <2> QED BY <2>3, <2>7, <2>8, RequestStep
<1> QED BY <1>1, <1>2

LEMMA CheckPublishKeepsIInv ==
    ASSUME IInv, NEW r \in Requests, CheckPublish(r)
    PROVE  IInv'
<1> USE DEF CheckPublish
<1>1. CASE Reply(r, "no_plan") \/ Reply(r, "blocked")
  BY <1>1, RefusalKeepsIInv DEF Answer
<1>2. CASE plan = "clear" /\ Proceed(r, "checked")
  <2>1. Moves(r) /\ req'[r].pc = "checked"
    BY <1>2, ProceedMoves DEF IInv
  <2>2. Granted(r)' /\ Matched(r)' /\ HoldsLock(r)
    BY <1>2, <2>1 DEF Granted, Matched, HoldsLock, Moves
  <2> QED BY <2>1, <2>2, RequestStep DEF Moves
<1> QED BY <1>1, <1>2

LEMMA ReadCheckinEventKeepsIInv ==
    ASSUME IInv, NEW r \in Requests, readCheckinEvent(r)
    PROVE  IInv'
<1> USE DEF readCheckinEvent
<1>1. CASE Reply(r, "ended")
  BY <1>1, RefusalKeepsIInv DEF Answer
<1>2. CASE Proceed(r, "open")
  <2>1. Moves(r) /\ req'[r].pc = "open"
    BY <1>2, ProceedMoves DEF IInv
  <2>2. ~HoldsLock(r)' /\ Granted(r)' /\ Matched(r)'
    BY <2>1 DEF HoldsLock, Granted, Matched
  <2> QED BY <2>1, <2>2, RequestStep DEF Moves
<1> QED BY <1>1, <1>2

LEMMA MatchesAreLinkable ==
    ASSUME TypeOK, NEW c \in Contacts, NEW g \in findMatchingRsvp(c)
    PROVE  g = WalkIn \/ (g \in Guests /\ Linkable(c, g))
<1>1. CASE Matching(c) = {}
  BY <1>1 DEF findMatchingRsvp
<1>2. CASE Matching(c) # {}
  <2>1. /\ g \in Guests /\ rsvp[g].status # "none"
        /\ g = c \/ rsvp[g].phone = c
    BY <1>2 DEF findMatchingRsvp, Matching
  <2>2. rsvp[g].phone \in Phones \cup {NoPhone}
    BY <2>1 DEF TypeOK, Rsvp
  <2>3. c \in Guests => c = g
    BY <2>1, <2>2, AttendanceAssumption DEF Contacts
  <2> QED BY <2>1, <2>3 DEF Linkable
<1> QED BY <1>1, <1>2

LEMMA MatchKeepsIInv ==
    ASSUME IInv, NEW r \in Requests, Match(r)
    PROVE  IInv'
<1>1. PICK g \in findMatchingRsvp(req[r].intent.contact) :
         req' = [req EXCEPT ![r] = [@ EXCEPT !.pc = "matched", !.match = g]]
  BY DEF Match
<1>2. req[r] \in Request /\ req \in [Requests -> Request] /\ TypeOK
  BY DEF IInv, TypeOK
<1>3. req[r].intent.contact \in Contacts
  BY <1>2, AttendanceAssumption DEF Request, Intent
<1>4. g = WalkIn \/ (g \in Guests /\ Linkable(req[r].intent.contact, g))
  BY <1>2, <1>3, MatchesAreLinkable
<1>5. /\ req' \in [Requests -> Request] /\ Others(r)
      /\ req'[r].pc = "matched" /\ req'[r].match = g
      /\ req'[r].intent = req[r].intent
  BY <1>1, <1>2, <1>4 DEF Request, Others
<1>6. Matched(r)'
  BY <1>4, <1>5 DEF Match, Matched, Linkable
<1>7. ~HoldsLock(r)' /\ Granted(r)'
  BY <1>5 DEF HoldsLock, Granted
<1> QED BY <1>5, <1>6, <1>7, RequestStep DEF Match

(* Other guests keep what they have when g's row is written.               *)
LEMMA CommitRsvpKeepsIInv ==
    ASSUME IInv, NEW r \in Requests, CommitRsvp(r)
    PROVE  TypeOK' /\ IInv'
<1> USE DEF CommitRsvp
<1> DEFINE g == req[r].intent.guest
           new == rsvp[g].status = "none"
           row == [status |-> "confirmed", phone |-> req[r].intent.phone,
                   since |-> IF new THEN req[r].since ELSE rsvp[g].since]
           n == IF new THEN req[r].confirmed + 1 ELSE Confirmed'
<1>1. /\ req[r] \in Request /\ req[r].intent \in Intent /\ TypeOK
      /\ rsvp \in [Guests -> Rsvp]
  BY AttendanceAssumption DEF IInv, TypeOK, Request
<1>2. g \in Guests /\ rsvp[g] \in Rsvp
  BY <1>1 DEF Intent
<1>3. row \in Rsvp
  BY <1>1, <1>2 DEF Intent, Rsvp, Request
<1>4. rsvp' = [rsvp EXCEPT ![g] = row]
  OBVIOUS
<1>5. /\ rsvp' \in [Guests -> Rsvp] /\ rsvp'[g] = row
      /\ \A h \in Guests : h # g => rsvp'[h] = rsvp[h]
  BY <1>1, <1>2, <1>3, <1>4
<1>6. Taken' \in SUBSET Guests
  BY DEF Taken
<1>7. Confirmed' \in Nat
  BY <1>6, FS_Subset, FS_CardinalityType, AttendanceAssumption DEF Confirmed
<1>8. n \in Nat
  BY <1>1, <1>7 DEF Request
<1>9. ReplyWithCount(r, "seated", n) \/ Reply(r, "failed")
  OBVIOUS
<1> HIDE DEF n
<1>10. Moves(r) /\ req'[r].pc = "done"
  BY <1>1, <1>8, <1>9, ReplyMoves, ReplyWithCountMoves DEF Answer
<1>11. TypeOK'
  BY <1>1, <1>5, <1>10 DEF TypeOK, Moves
<1>12. \A h \in Guests : rsvp[h].status # "none" => rsvp'[h].status # "none"
  BY <1>2, <1>5
<1>13. LinksAreGuests' /\ \A s \in Requests : Matched(s)'
  BY <1>10, <1>12, LinksStay, MatchesStay DEF IInv, Moves
<1>14. LockFree'
  BY <1>10, LockReleased DEF IInv, HoldsLock, Moves
<1> QED BY <1>11, <1>13, <1>14, TableStep

LEMMA CommitCancelKeepsIInv ==
    ASSUME IInv, NEW r \in Requests, CommitCancel(r)
    PROVE  IInv'
<1> USE DEF CommitCancel
<1> DEFINE g == req[r].intent.guest
<1>1. CASE Reply(r, "missing") /\ UNCHANGED rsvp
  BY <1>1, RefusalKeepsIInv DEF Answer
<1>2. CASE /\ rsvp' = [rsvp EXCEPT ![g].status = "cancelled"]
           /\ ReplyWithCount(r, "cancelled", Confirmed') \/ Reply(r, "failed")
  <2>1. /\ req[r] \in Request /\ req[r].intent \in Intent /\ TypeOK
        /\ rsvp \in [Guests -> Rsvp]
    BY AttendanceAssumption DEF IInv, TypeOK, Request
  <2>2. g \in Guests /\ rsvp[g] \in Rsvp
    BY <2>1 DEF Intent
  <2>3. /\ rsvp' \in [Guests -> Rsvp] /\ rsvp'[g].status = "cancelled"
        /\ \A h \in Guests : h # g => rsvp'[h] = rsvp[h]
    BY <1>2, <2>1, <2>2 DEF Rsvp
  <2>4. Taken' \in SUBSET Guests
    BY DEF Taken
  <2>5. Confirmed' \in Nat
    BY <2>4, FS_Subset, FS_CardinalityType, AttendanceAssumption DEF Confirmed
  <2>6. Moves(r) /\ req'[r].pc = "done"
    BY <1>2, <2>1, <2>5, ReplyMoves, ReplyWithCountMoves DEF Answer
  <2>7. TypeOK'
    BY <2>1, <2>3, <2>6 DEF TypeOK, Moves
  <2>8. \A h \in Guests : rsvp[h].status # "none" => rsvp'[h].status # "none"
    BY <2>2, <2>3
  <2>9. LinksAreGuests' /\ \A s \in Requests : Matched(s)'
    BY <2>6, <2>8, LinksStay, MatchesStay DEF IInv, Moves
  <2>10. LockFree'
    BY <2>6, LockReleased DEF IInv, HoldsLock, Moves
  <2> QED BY <2>7, <2>9, <2>10, TableStep
<1> QED BY <1>1, <1>2

(* A request that ends by writing the event's row.                         *)
LEMMA EventWriteKeepsIInv ==
    ASSUME IInv, NEW r \in Requests, NEW a \in Answer,
           NEW b \in BOOLEAN, HoldsLock(r) \/ LockFree,
           event' = [event EXCEPT !.published = b],
           Reply(r, a) \/ Reply(r, "failed"),
           UNCHANGED <<day, plan, rsvp, checkin>>
    PROVE  IInv'
<1>1. Moves(r) /\ req'[r].pc = "done"
  BY ReplyMoves DEF IInv, Answer
<1>2. event' \in Event
  BY DEF IInv, TypeOK, Event
<1>3. TypeOK'
  BY <1>1, <1>2 DEF IInv, TypeOK, Moves
<1>4. LinksAreGuests' /\ \A s \in Requests : Matched(s)'
  BY <1>1, LinksStay, MatchesStay DEF IInv, Moves
<1>5. LockFree'
  BY <1>1, LockReleased DEF IInv, Moves
<1> QED BY <1>3, <1>4, <1>5, TableStep

LEMMA CommitPublishKeepsIInv ==
    ASSUME IInv, NEW r \in Requests, CommitPublish(r)
    PROVE  IInv'
<1>1. HoldsLock(r)
  BY DEF CommitPublish, HoldsLock
<1> QED BY <1>1, EventWriteKeepsIInv DEF CommitPublish, Answer

LEMMA UnpublishKeepsIInv ==
    ASSUME IInv, NEW r \in Requests, Unpublish(r)
    PROVE  IInv'
BY EventWriteKeepsIInv DEF Unpublish, Answer

LEMMA UpsertKeepsIInv ==
    ASSUME IInv, NEW r \in Requests, Upsert(r)
    PROVE  IInv'
<1> USE DEF Upsert
<1> DEFINE c == req[r].intent.contact
<1>1. /\ req[r] \in Request /\ req[r].intent \in Intent /\ TypeOK
      /\ checkin \in [Contacts -> Guests \cup {WalkIn, NoRow}]
  BY AttendanceAssumption DEF IInv, TypeOK, Request
<1>2. c \in Contacts /\ req[r].match \in Guests \cup {WalkIn}
  BY <1>1 DEF Intent, Request
<1>3. Moves(r) /\ req'[r].pc = "done"
  BY <1>1, ReplyMoves DEF Answer
<1>4. /\ checkin' \in [Contacts -> Guests \cup {WalkIn, NoRow}]
      /\ checkin'[c] = req[r].match
      /\ \A d \in Contacts : d # c => checkin'[d] = checkin[d]
  BY <1>1, <1>2
<1>5. TypeOK'
  BY <1>1, <1>3, <1>4 DEF TypeOK, Moves
<1>6. LinksAreGuests'
  <2> SUFFICES ASSUME NEW d \in Contacts, checkin'[d] \in Guests
               PROVE  Linkable(d, checkin'[d])
    BY DEF LinksAreGuests, Linkable
  <2>1. CASE d = c
    <3>1. Linkable(c, req[r].match)
      BY <1>4, <2>1, AttendanceAssumption DEF IInv, Matched
    <3> QED BY <1>4, <2>1, <3>1
  <2>2. CASE d # c
    BY <1>4, <2>2 DEF IInv, LinksAreGuests, Linkable
  <2> QED BY <2>1, <2>2
<1>7. \A s \in Requests : Matched(s)'
  BY <1>3, MatchesStay DEF Moves
<1>8. ~HoldsLock(r)' /\ LockInv' /\ \A s \in Requests : Granted(s)'
  <2>1. ~HoldsLock(r)' /\ Granted(r)'
    BY <1>3 DEF HoldsLock, Granted
  <2>2. ASSUME NEW s \in Requests, s # r
        PROVE  req'[s] = req[s] /\ Granted(s)'
    <3>1. req'[s] = req[s] /\ Granted(s)
      BY <1>3, <2>2 DEF IInv, Moves, Others
    <3> QED BY <3>1
            DEF Granted, PageOpen, NeedsSeat, isFull, Confirmed, Taken
  <2>3. LockInv'
    BY <2>1, <2>2 DEF IInv, LockInv, HoldsLock
  <2> QED BY <2>1, <2>2, <2>3
<1> QED BY <1>5, <1>6, <1>7, <1>8 DEF IInv

LEMMA AbortKeepsIInv ==
    ASSUME IInv, NEW r \in Requests, Abort(r)
    PROVE  IInv'
BY RefusalKeepsIInv DEF Abort, Answer

(* Steps of the environment move no request, and write what transactions   *)
(* rely on only while there is none.                                       *)
LEMMA EnvironmentKeepsIInv ==
    ASSUME IInv, EditEvent \/ GeneratePlan \/ Midnight
    PROVE  IInv'
<1>1. /\ UNCHANGED <<rsvp, checkin, req>>
      /\ UNCHANGED <<event, plan>> \/ LockFree
  BY DEF EditEvent, GeneratePlan, Midnight
<1>2. TypeOK'
  <2>1. CASE EditEvent
    <3>1. event' \in Event
      BY <2>1 DEF EditEvent, IInv, TypeOK, Event
    <3> QED BY <2>1, <3>1 DEF EditEvent, IInv, TypeOK
  <2>2. CASE GeneratePlan
    BY <2>2 DEF GeneratePlan, IInv, TypeOK
  <2>3. CASE Midnight
    BY <2>3, AttendanceAssumption DEF Midnight, IInv, TypeOK, Days
  <2> QED BY <2>1, <2>2, <2>3
<1>3. LockInv' /\ LinksAreGuests'
  BY <1>1 DEF IInv, LockInv, HoldsLock, LinksAreGuests
<1>4. \A r \in Requests : Matched(r)'
  BY <1>1 DEF IInv, Matched, Linkable
<1>5. \A r \in Requests : Granted(r)'
  <2>1. CASE UNCHANGED <<event, plan>>
    BY <1>1, <2>1
       DEF IInv, Granted, PageOpen, NeedsSeat, isFull, Confirmed, Taken
  <2>2. CASE LockFree
    BY <1>1, <2>2 DEF Granted, LockFree, HoldsLock
  <2> QED BY <1>1, <2>1, <2>2
<1> QED BY <1>2, <1>3, <1>4, <1>5 DEF IInv

----------------------------------------------------------------------------
(* The theorems.                                                           *)

LEMMA InitEstablishesIInv == Init => IInv
<1> SUFFICES ASSUME Init PROVE IInv
  OBVIOUS
<1> USE DEF Init
<1>1. (CHOOSE i \in Intents : TRUE) \in Intents
  BY AttendanceAssumption
<1>2. /\ req \in [Requests -> Request]
      /\ \A r \in Requests : req[r].pc = "new"
  BY <1>1, AttendanceAssumption DEF Request, Answer, Days
<1>3. TypeOK
  BY <1>2, AttendanceAssumption DEF TypeOK, Days
<1>4. LinksAreGuests
  BY AttendanceAssumption DEF LinksAreGuests
<1>5. /\ LockInv
      /\ \A r \in Requests : Granted(r) /\ Matched(r)
  BY <1>2 DEF LockInv, HoldsLock, Granted, Matched
<1> QED BY <1>3, <1>4, <1>5 DEF IInv

LEMMA NextKeepsIInv == IInv /\ [Next]_vars => IInv'
<1> SUFFICES ASSUME IInv, [Next]_vars PROVE IInv'
  OBVIOUS
<1>1. ASSUME NEW r \in Requests, Submit(r) PROVE IInv'
  BY <1>1, SubmitKeepsIInv
<1>2. ASSUME NEW r \in Requests, Begin(r) PROVE IInv'
  BY <1>2, BeginKeepsIInv
<1>3. ASSUME NEW r \in Requests, lockEvent(r) PROVE IInv'
  BY <1>3, LockEventKeepsIInv
<1>4. ASSUME NEW r \in Requests, createRsvp(r) PROVE IInv'
  BY <1>4, CheckRsvpKeepsIInv, CommitRsvpKeepsIInv DEF createRsvp
<1>5. ASSUME NEW r \in Requests, CommitCancel(r) PROVE IInv'
  BY <1>5, CommitCancelKeepsIInv
<1>6. ASSUME NEW r \in Requests, Publish(r) PROVE IInv'
  BY <1>6, CheckPublishKeepsIInv, CommitPublishKeepsIInv DEF Publish
<1>7. ASSUME NEW r \in Requests, Unpublish(r) PROVE IInv'
  BY <1>7, UnpublishKeepsIInv
<1>8. ASSUME NEW r \in Requests, recordCheckin(r) PROVE IInv'
  BY <1>8, ReadCheckinEventKeepsIInv, MatchKeepsIInv, UpsertKeepsIInv
     DEF recordCheckin
<1>9. ASSUME NEW r \in Requests, Abort(r) PROVE IInv'
  BY <1>9, AbortKeepsIInv
<1>10. CASE EditEvent \/ GeneratePlan \/ Midnight
  BY <1>10, EnvironmentKeepsIInv
<1>11. CASE UNCHANGED vars
  <2>1. UNCHANGED <<day, event, plan, rsvp, checkin, req>>
    BY <1>11 DEF vars
  <2>2. TypeOK' /\ LockInv' /\ LinksAreGuests'
    BY <2>1 DEF IInv, TypeOK, LockInv, HoldsLock, LinksAreGuests
  <2>3. \A r \in Requests : Granted(r)' /\ Matched(r)'
    BY <2>1 DEF IInv, Granted, Matched, Linkable, PageOpen, NeedsSeat,
                isFull, Confirmed, Taken
  <2> QED BY <2>2, <2>3 DEF IInv
<1> QED BY <1>1, <1>2, <1>3, <1>4, <1>5, <1>6, <1>7, <1>8, <1>9, <1>10, <1>11
        DEF Next, Serve

LEMMA IInvHolds == Spec => []IInv
BY InitEstablishesIInv, NextKeepsIInv, PTL DEF Spec

(* Tables and requests keep their types.                                   *)
THEOREM TypesHold == Spec => []TypeOK
<1>1. IInv => TypeOK
  BY DEF IInv
<1> QED BY <1>1, IInvHolds, PTL

(* A contact is linked to its own RSVP or to none, and to a row of the     *)
(* guest list (checkins.ts findMatchingRsvp).                              *)
THEOREM LinksHold == Spec => []LinksAreGuests
<1>1. IInv => LinksAreGuests
  BY DEF IInv
<1> QED BY <1>1, IInvHolds, PTL

(* Only the commit of an RSVP gives a seat.                                *)
LEMMA SeatsComeFromRsvps ==
    ASSUME TypeOK, [Next]_vars, ~(Taken' \subseteq Taken)
    PROVE  \E r \in Requests : CommitRsvp(r)
<1>1. rsvp' # rsvp
  BY DEF Taken
<1>2. PICK r \in Requests : CommitRsvp(r) \/ CommitCancel(r)
  BY <1>1 DEF Next, vars, Submit, Serve, Begin, lockEvent, createRsvp,
              CheckRsvp, Publish, CheckPublish, CommitPublish, Unpublish,
              recordCheckin, readCheckinEvent, Match, Upsert, Abort,
              EditEvent, GeneratePlan, Midnight
<1>3. CASE CommitCancel(r)
  <2>1. rsvp' = [rsvp EXCEPT ![req[r].intent.guest].status = "cancelled"]
    BY <1>1, <1>3 DEF CommitCancel
  <2>2. \A g \in Guests : rsvp'[g].status \in {rsvp[g].status, "cancelled"}
    BY <2>1 DEF TypeOK, Rsvp
  <2>3. Taken' \subseteq Taken
    BY <2>2 DEF Taken
  <2> QED BY <2>3
<1> QED BY <1>2, <1>3

(* The seat an RSVP commits, and the count after it.                       *)
LEMMA RsvpTakesItsSeat ==
    ASSUME IInv, NEW r \in Requests, CommitRsvp(r)
    PROVE  LET g == req[r].intent.guest
           IN  /\ g \in Guests /\ Taken' = Taken \cup {g}
               /\ Confirmed \in Nat
               /\ Confirmed' = IF NeedsSeat(g) THEN Confirmed + 1 ELSE Confirmed
<1> DEFINE g == req[r].intent.guest
<1>1. /\ TypeOK /\ rsvp \in [Guests -> Rsvp]
      /\ req[r].intent \in Intent
  BY AttendanceAssumption DEF IInv, TypeOK, Request
<1>2. g \in Guests
  BY <1>1 DEF Intent
<1>3. /\ rsvp'[g].status = "confirmed"
      /\ \A h \in Guests : h # g => rsvp'[h] = rsvp[h]
  BY <1>1, <1>2 DEF CommitRsvp
<1>4. Taken' = Taken \cup {g}
  BY <1>2, <1>3 DEF Taken
<1>5. IsFiniteSet(Taken) /\ Confirmed \in Nat
  BY <1>1, TakenIsFinite
<1>6. g \in Taken <=> ~NeedsSeat(g)
  BY <1>2 DEF Taken, NeedsSeat
<1>7. Cardinality(Taken \cup {g}) =
          IF g \in Taken THEN Cardinality(Taken) ELSE Cardinality(Taken) + 1
  BY <1>5, FS_AddElement
<1>8. Confirmed' = IF NeedsSeat(g) THEN Confirmed + 1 ELSE Confirmed
  BY <1>4, <1>6, <1>7 DEF Confirmed
<1> QED BY <1>2, <1>4, <1>5, <1>8

(* A seat is given only while the capacity then in force allows it         *)
(* (rsvps.ts createRsvp, isFull).                                          *)
THEOREM SeatsStayWithinCapacity == Spec => NeverOverbooked
<1> DEFINE Step == ~(Taken' \subseteq Taken) =>
                      event'.capacity = NoLimit \/ Confirmed' <= event'.capacity
<1>1. IInv /\ [Next]_vars => Step
  <2> SUFFICES ASSUME IInv, [Next]_vars, ~(Taken' \subseteq Taken),
                      event'.capacity # NoLimit
               PROVE  Confirmed' <= event'.capacity
    OBVIOUS
  <2>1. PICK r \in Requests : CommitRsvp(r)
    BY SeatsComeFromRsvps DEF IInv
  <2> DEFINE g == req[r].intent.guest
  <2>2. /\ Taken' = Taken \cup {g} /\ Confirmed \in Nat
        /\ Confirmed' = IF NeedsSeat(g) THEN Confirmed + 1 ELSE Confirmed
        /\ g \in Guests
    BY <2>1, RsvpTakesItsSeat
  <2>3. g \notin Taken
    BY <2>2
  <2>4. NeedsSeat(g)
    BY <2>2, <2>3 DEF Taken, NeedsSeat
  <2>5. ~isFull /\ event' = event
    BY <2>1, <2>4 DEF IInv, Granted, CommitRsvp
  <2>6. event.capacity \in Nat \ {0} /\ ~(Confirmed >= event.capacity)
    BY <2>5, AttendanceAssumption DEF isFull, IInv, TypeOK, Event
  <2>7. Confirmed + 1 <= event.capacity
    BY <2>2, <2>6
  <2> QED BY <2>2, <2>4, <2>5, <2>7
<1>2. IInv /\ [Next]_vars => [Step]_vars
  BY <1>1
<1> HIDE DEF Step
<1>3. Spec => [][Step]_vars
  BY <1>2, IInvHolds, PTL DEF Spec
<1> QED BY <1>3 DEF NeverOverbooked, Step

(* A seat is given only by a call that arrived by the event's date, while  *)
(* the page is published and not blocked (rsvps.ts createRsvp).            *)
THEOREM SeatsNeedAnOpenPage == Spec => SeatsOnlyWhileOpen
<1> DEFINE Step == \A g \in Taken' \ Taken :
                      /\ event'.published /\ plan' # "blocked"
                      /\ \E r \in Requests :
                            /\ req[r].pc = "checked"
                            /\ req[r].intent.guest = g
                            /\ req[r].today <= event'.date
<1>1. IInv /\ [Next]_vars => Step
  <2> SUFFICES ASSUME IInv, [Next]_vars, NEW g \in Taken', g \notin Taken
               PROVE  /\ event'.published /\ plan' # "blocked"
                      /\ \E r \in Requests :
                            /\ req[r].pc = "checked"
                            /\ req[r].intent.guest = g
                            /\ req[r].today <= event'.date
    OBVIOUS
  <2>1. PICK r \in Requests : CommitRsvp(r)
    BY SeatsComeFromRsvps DEF IInv
  <2>2. Taken' = Taken \cup {req[r].intent.guest}
    BY <2>1, RsvpTakesItsSeat
  <2>3. g = req[r].intent.guest
    BY <2>2
  <2>4. /\ PageOpen /\ req[r].today <= event.date /\ req[r].pc = "checked"
        /\ event' = event /\ plan' = plan
    BY <2>1 DEF CommitRsvp, IInv, Granted
  <2> QED BY <2>3, <2>4 DEF PageOpen
<1>2. IInv /\ [Next]_vars => [Step]_vars
  BY <1>1
<1> HIDE DEF Step
<1>3. Spec => [][Step]_vars
  BY <1>2, IInvHolds, PTL DEF Spec
<1> QED BY <1>3 DEF SeatsOnlyWhileOpen, Step

(* No other step answers with a count.                                     *)
LEMMA CountsAreReportedByCommits ==
    ASSUME IInv, [Next]_vars, NEW r \in Requests,
           req[r].answer = "none", req'[r].answer \in {"seated", "cancelled"}
    PROVE  \E s \in Requests : CommitRsvp(s) \/ CommitCancel(s)
<1>0. TypeOK /\ req \in [Requests -> Request]
  BY DEF IInv, TypeOK
<1>1. ASSUME NEW s \in Requests, NEW a \in Answer \ {"seated", "cancelled"},
             Reply(s, a)
      PROVE  FALSE
  <2>1. Moves(s) /\ req'[s].answer = a
    BY <1>0, <1>1, ReplyMoves
  <2> QED BY <2>1 DEF Moves, Others
<1>2. ASSUME NEW s \in Requests, NEW pc \in {"locked", "checked", "open"},
             Proceed(s, pc)
      PROVE  FALSE
  <2>1. Moves(s) /\ req'[s].answer = req[s].answer
    BY <1>0, <1>2, ProceedMoves
  <2> QED BY <2>1 DEF Moves, Others
<1>4. ASSUME NEW s \in Requests, Submit(s) PROVE FALSE
  <2>1. PICK i \in Intents :
           req' = [req EXCEPT ![s] =
                     [@ EXCEPT !.pc = "arrived", !.intent = i, !.today = day]]
    BY <1>4 DEF Submit
  <2>2. req[s] \in Request
    BY <1>0
  <2> QED BY <1>0, <2>1, <2>2 DEF Request
<1>5. ASSUME NEW s \in Requests, Begin(s) PROVE FALSE
  <2> DEFINE n == 1 + Cardinality({t \in Requests : req[t].since # 0})
  <2>1. req' = [req EXCEPT ![s] = [@ EXCEPT !.pc = "begun", !.since = n]]
    BY <1>5 DEF Begin
  <2> HIDE DEF n
  <2>2. req[s] \in Request
    BY <1>0
  <2> QED BY <1>0, <2>1, <2>2 DEF Request
<1>6. ASSUME NEW s \in Requests, lockEvent(s) PROVE FALSE
  BY <1>6, <1>2 DEF lockEvent
<1>7. ASSUME NEW s \in Requests, CheckRsvp(s) PROVE FALSE
  <2>1. CASE Reply(s, "closed") \/ Reply(s, "passed") \/ Reply(s, "full")
    BY <2>1, <1>1 DEF Answer
  <2>2. CASE req' = [req EXCEPT ![s] = [@ EXCEPT !.pc = "checked",
                                        !.confirmed = Confirmed]]
    <3>1. req[s] \in Request
      BY <1>0
    <3> QED BY <1>0, <2>2, <3>1 DEF Request
  <2> QED BY <1>7, <2>1, <2>2 DEF CheckRsvp
<1>8. ASSUME NEW s \in Requests, Publish(s) \/ Unpublish(s) PROVE FALSE
  BY <1>8, <1>1, <1>2
     DEF Publish, CheckPublish, CommitPublish, Unpublish, Answer
<1>9. ASSUME NEW s \in Requests, readCheckinEvent(s) \/ Upsert(s) PROVE FALSE
  BY <1>9, <1>1, <1>2 DEF readCheckinEvent, Upsert, Answer
<1>10. ASSUME NEW s \in Requests, Match(s) PROVE FALSE
  <2>1. PICK g \in findMatchingRsvp(req[s].intent.contact) :
           req' = [req EXCEPT ![s] = [@ EXCEPT !.pc = "matched", !.match = g]]
    BY <1>10 DEF Match
  <2>2. req[s] \in Request
    BY <1>0
  <2> QED BY <1>0, <2>1, <2>2 DEF Request
<1>11. ASSUME NEW s \in Requests, Abort(s) PROVE FALSE
  BY <1>11, <1>1 DEF Abort, Answer
<1>12. CASE UNCHANGED req
  BY <1>12
<1> QED BY <1>4, <1>5, <1>6, <1>7, <1>8, <1>9, <1>10, <1>11, <1>12
        DEF Next, Serve, createRsvp, recordCheckin, EditEvent, GeneratePlan,
            Midnight, vars

(* The count reported with a seat or a cancellation is the count after it, *)
(* also the one an insert computes from what it counted before             *)
(* (rsvps.ts confirmed_count).                                             *)
THEOREM CountsHold == Spec => ReportedCountsAreTrue
<1> DEFINE Step == \A r \in Requests :
                      req[r].answer = "none"
                      /\ req'[r].answer \in {"seated", "cancelled"}
                         => req'[r].count = Confirmed'
<1>1. IInv /\ [Next]_vars => Step
  <2> SUFFICES ASSUME IInv, [Next]_vars, NEW r \in Requests,
                      req[r].answer = "none",
                      req'[r].answer \in {"seated", "cancelled"}
               PROVE  req'[r].count = Confirmed'
    OBVIOUS
  <2>0. TypeOK
    BY DEF IInv
  <2>1. PICK s \in Requests : CommitRsvp(s) \/ CommitCancel(s)
    BY CountsAreReportedByCommits
  <2>2. ASSUME NEW a \in {"missing", "failed"}, Reply(s, a) PROVE FALSE
    <3>1. Moves(s) /\ req'[s].answer = a
      BY <2>0, <2>2, ReplyMoves DEF Answer
    <3> QED BY <3>1 DEF Moves, Others
  <2>3. ASSUME NEW a \in {"seated", "cancelled"}, NEW n \in Nat,
               ReplyWithCount(s, a, n)
        PROVE  req'[r].count = n
    <3>1. Moves(s) /\ req'[s].count = n
      BY <2>0, <2>3, ReplyWithCountMoves DEF Answer
    <3> QED BY <3>1 DEF Moves, Others
  <2>4. Confirmed' \in Nat
    <3>1. Taken' \in SUBSET Guests
      BY DEF Taken
    <3> QED BY <3>1, FS_Subset, FS_CardinalityType, AttendanceAssumption
            DEF Confirmed
  <2>5. CASE CommitCancel(s)
    BY <2>5, <2>2, <2>3, <2>4 DEF CommitCancel
  <2>6. CASE CommitRsvp(s)
    <3> DEFINE g == req[s].intent.guest
               n == IF rsvp[g].status = "none" THEN req[s].confirmed + 1
                    ELSE Confirmed'
    <3>1. /\ Confirmed' = IF NeedsSeat(g) THEN Confirmed + 1 ELSE Confirmed
          /\ Confirmed \in Nat
      BY <2>6, RsvpTakesItsSeat
    <3>2. req[s].confirmed = Confirmed
      BY <2>6 DEF CommitRsvp, IInv, Granted
    <3>3. n = Confirmed'
      BY <3>1, <3>2 DEF NeedsSeat
    <3>4. ReplyWithCount(s, "seated", n) \/ Reply(s, "failed")
      BY <2>6 DEF CommitRsvp
    <3> HIDE DEF n
    <3> QED BY <2>2, <2>3, <2>4, <3>3, <3>4
  <2> QED BY <2>1, <2>5, <2>6
<1>2. IInv /\ [Next]_vars => [Step]_vars
  BY <1>1
<1> HIDE DEF Step
<1>3. Spec => [][Step]_vars
  BY <1>2, IInvHolds, PTL DEF Spec
<1> QED BY <1>3 DEF ReportedCountsAreTrue, Step

(* A page becomes public only over a stored plan that is not blocked       *)
(* (public-page.ts patchOrganizerPublicPage).                              *)
THEOREM PublicationNeedsAClearPlan == Spec => PublishedOverAClearPlan
<1> DEFINE Step == event'.published /\ ~event.published => plan' = "clear"
<1>1. IInv /\ [Next]_vars => Step
  <2> SUFFICES ASSUME IInv, [Next]_vars, event'.published, ~event.published
               PROVE  plan' = "clear"
    OBVIOUS
  <2>1. event \in Event
    BY DEF IInv, TypeOK
  <2>2. event' # event
    OBVIOUS
  <2>3. ~EditEvent
    BY <2>1 DEF EditEvent, Event
  <2>4. \A r \in Requests : ~Unpublish(r)
    BY <2>1 DEF Unpublish, Event
  <2>5. PICK r \in Requests : CommitPublish(r)
    BY <2>2, <2>3, <2>4
       DEF Next, vars, Submit, Serve, Begin, lockEvent, createRsvp, CheckRsvp,
           CommitRsvp, CommitCancel, Publish, CheckPublish, recordCheckin,
           readCheckinEvent, Match, Upsert, Abort, GeneratePlan, Midnight
  <2> QED BY <2>5 DEF CommitPublish, IInv, Granted
<1>2. IInv /\ [Next]_vars => [Step]_vars
  BY <1>1
<1> HIDE DEF Step
<1>3. Spec => [][Step]_vars
  BY <1>2, IInvHolds, PTL DEF Spec
<1> QED BY <1>3 DEF PublishedOverAClearPlan, Step

----------------------------------------------------------------------------
(* Attendance implements GuestList: what a transaction found under the     *)
(* lock (Granted) and what a check-in matched (Matched) still hold when it *)
(* writes, so that the write is a step of the abstract list.               *)

Listed == <<event.capacity, event.published, plan,
            [g \in Guests |-> rsvp[g].status], checkin>>

LEMMA SeatedAreTaken == List!Seated = Taken
BY DEF List!Seated, Taken

LEMMA ListCountsAlike ==
    ASSUME NEW S
    PROVE  List!Cardinality(S) = Cardinality(S)
BY DEF List!Cardinality, Cardinality, List!IsFiniteSet, IsFiniteSet

LEMMA StartsAreListed == Init => List!Init
<1> SUFFICES ASSUME Init PROVE List!Init
  OBVIOUS
<1>1. /\ event.capacity \in Capacities /\ event.published \in BOOLEAN
      /\ plan \in {"none", "clear", "blocked"}
      /\ event.published => plan # "none"
      /\ checkin = [c \in Contacts |-> NoRow]
  BY DEF Init, Event
<1>2. rsvp \in [Guests -> Rsvp]
  BY AttendanceAssumption DEF Init
<1>3. [g \in Guests |-> rsvp[g].status]
         \in [Guests -> {"none", "confirmed", "cancelled"}]
  BY <1>2 DEF Rsvp
<1> QED BY <1>1, <1>3 DEF List!Init

(* An RSVP's write is the seat it was granted.                             *)
LEMMA RsvpsAreListed ==
    ASSUME IInv, NEW r \in Requests, CommitRsvp(r)
    PROVE  List!Next
<1> DEFINE old == [h \in Guests |-> rsvp[h].status]
<1>1. PICK g \in Guests : g = req[r].intent.guest
  BY RsvpTakesItsSeat
<1>2. PageOpen /\ ~(NeedsSeat(g) /\ isFull) /\ UNCHANGED <<event, plan, checkin>>
  BY <1>1 DEF CommitRsvp, IInv, Granted
<1>3. \/ g \in List!Seated \/ event.capacity = NoLimit
      \/ List!Cardinality(List!Seated) < event.capacity
  <2>1. CASE NeedsSeat(g) /\ event.capacity # NoLimit
    <3>1. event.capacity \in Nat \ {0} /\ Confirmed \in Nat
      BY <2>1, RsvpTakesItsSeat, AttendanceAssumption DEF IInv, TypeOK, Event
    <3>2. Cardinality(Taken) < event.capacity
      BY <1>2, <2>1, <3>1 DEF isFull, Confirmed
    <3> QED BY <3>2, SeatedAreTaken, ListCountsAlike
  <2>2. CASE ~NeedsSeat(g)
    BY <2>2, SeatedAreTaken DEF NeedsSeat, Taken
  <2> QED BY <2>1, <2>2
<1>4. old' = [old EXCEPT ![g] = "confirmed"]
  <2>1. rsvp \in [Guests -> Rsvp]
    BY DEF IInv, TypeOK
  <2>2. /\ rsvp'[g].status = "confirmed"
        /\ \A h \in Guests : h # g => rsvp'[h] = rsvp[h]
    BY <1>1, <2>1 DEF CommitRsvp
  <2> QED BY <2>2
<1>5. List!TakeSeat(g)
  BY <1>2, <1>3, <1>4 DEF List!TakeSeat, PageOpen
<1> QED BY <1>5 DEF List!Next

LEMMA CancellationsAreListed ==
    ASSUME IInv, NEW r \in Requests, CommitCancel(r)
    PROVE  List!Next \/ UNCHANGED Listed
<1> DEFINE old == [h \in Guests |-> rsvp[h].status]
<1>1. rsvp \in [Guests -> Rsvp] /\ req[r].intent \in Intent
  BY AttendanceAssumption DEF IInv, TypeOK, Request
<1>2. PICK g \in Guests : g = req[r].intent.guest
  BY <1>1 DEF Intent
<1>3. CASE UNCHANGED rsvp
  BY <1>3 DEF CommitCancel, Listed
<1>4. CASE rsvp[g].status # "none" /\ rsvp' = [rsvp EXCEPT ![g].status = "cancelled"]
  <2>1. /\ rsvp'[g].status = "cancelled"
        /\ \A h \in Guests : h # g => rsvp'[h] = rsvp[h]
    BY <1>1, <1>4 DEF Rsvp
  <2>2. old' = [old EXCEPT ![g] = "cancelled"]
    BY <2>1
  <2>3. List!GiveBack(g)
    BY <1>4, <2>2 DEF List!GiveBack, CommitCancel
  <2> QED BY <2>3 DEF List!Next
<1> QED BY <1>2, <1>3, <1>4 DEF CommitCancel

LEMMA PublicationsAreListed ==
    ASSUME IInv, NEW r \in Requests, Publish(r) \/ Unpublish(r)
    PROVE  List!Next \/ UNCHANGED Listed
<1>1. CASE CheckPublish(r)
  BY <1>1 DEF CheckPublish, Listed
<1>2. event \in Event
  BY DEF IInv, TypeOK
<1>3. CASE CommitPublish(r)
  <2>1. plan = "clear" /\ UNCHANGED <<plan, rsvp, checkin>>
    BY <1>3 DEF CommitPublish, IInv, Granted
  <2>2. event'.published = TRUE /\ event'.capacity = event.capacity
    BY <1>2, <1>3 DEF CommitPublish, Event
  <2>3. List!Publish
    BY <2>1, <2>2 DEF List!Publish
  <2> QED BY <2>3 DEF List!Next
<1>4. CASE Unpublish(r)
  <2>1. event'.published = FALSE /\ event'.capacity = event.capacity
    BY <1>2, <1>4 DEF Unpublish, Event
  <2>2. List!Unpublish
    BY <1>4, <2>1 DEF Unpublish, List!Unpublish
  <2> QED BY <2>2 DEF List!Next
<1> QED BY <1>1, <1>3, <1>4 DEF Publish

(* A check-in's write is the match it made, then still on the list.        *)
LEMMA CheckInsAreListed ==
    ASSUME IInv, NEW r \in Requests, recordCheckin(r)
    PROVE  List!Next \/ UNCHANGED Listed
<1>1. CASE readCheckinEvent(r) \/ Match(r)
  BY <1>1 DEF readCheckinEvent, Match, Listed
<1>2. CASE Upsert(r)
  <2> DEFINE c == req[r].intent.contact
             g == req[r].match
  <2>1. req[r] \in Request
    BY DEF IInv, TypeOK
  <2>2. c \in Contacts /\ g \in Guests \cup {WalkIn}
    BY <2>1, AttendanceAssumption DEF Request, Intent
  <2>3. g # WalkIn => rsvp[g].status # "none" /\ (c \in Guests => c = g)
    BY <1>2 DEF Upsert, IInv, Matched, Linkable
  <2>4. checkin' = [checkin EXCEPT ![c] = g] /\ UNCHANGED <<event, plan, rsvp>>
    BY <1>2 DEF Upsert
  <2> HIDE DEF c, g
  <2>5. List!CheckIn(c)
    BY <2>2, <2>3, <2>4 DEF List!CheckIn
  <2> QED BY <2>2, <2>5 DEF List!Next
<1> QED BY <1>1, <1>2 DEF recordCheckin

LEMMA EnvironmentIsListed ==
    ASSUME IInv, EditEvent \/ GeneratePlan \/ Midnight
    PROVE  List!Next \/ UNCHANGED Listed
<1>1. CASE EditEvent
  <2>1. PICK c \in Capacities, d \in Days :
           event' = [event EXCEPT !.capacity = c, !.date = d]
    BY <1>1 DEF EditEvent
  <2>2. event \in Event
    BY DEF IInv, TypeOK
  <2>3. event'.capacity = c /\ event'.published = event.published
    BY <2>1, <2>2 DEF Event
  <2>4. List!Resize
    BY <1>1, <2>3 DEF EditEvent, List!Resize
  <2> QED BY <2>4 DEF List!Next
<1>2. CASE GeneratePlan
  BY <1>2 DEF GeneratePlan, List!Replan, List!Next
<1>3. CASE Midnight
  BY <1>3 DEF Midnight, Listed
<1> QED BY <1>1, <1>2, <1>3

(* The event's transactions and the door's separate statements, in any     *)
(* order and with any failures, are a guest list on which every call takes *)
(* effect at one instant, under the capacity, publication and plan of that *)
(* instant (rsvps.ts, public-page.ts, checkins.ts).                        *)
THEOREM AttendanceIsAGuestList == Spec => ImplementsGuestList
<1>1. Init => List!Init
  BY StartsAreListed
<1>2. ASSUME IInv, [Next]_vars PROVE List!Next \/ UNCHANGED Listed
  <2>1. ASSUME NEW r \in Requests, Serve(r)
        PROVE  List!Next \/ UNCHANGED Listed
    <3>1. CASE Begin(r) \/ lockEvent(r) \/ CheckRsvp(r)
      BY <3>1 DEF Begin, lockEvent, CheckRsvp, Listed
    <3> QED BY <1>2, <2>1, <3>1, RsvpsAreListed, CancellationsAreListed,
               PublicationsAreListed, CheckInsAreListed DEF Serve, createRsvp
  <2>2. ASSUME NEW r \in Requests, Submit(r) \/ Abort(r)
        PROVE  UNCHANGED Listed
    BY <2>2 DEF Submit, Abort, Listed
  <2>3. CASE UNCHANGED vars
    BY <2>3 DEF vars, Listed
  <2> QED BY <1>2, <2>1, <2>2, <2>3, EnvironmentIsListed DEF Next
<1>3. IInv /\ [Next]_vars => [List!Next]_Listed
  BY <1>2
<1>4. Spec => List!Init /\ [][List!Next]_Listed
  BY <1>1, <1>3, IInvHolds, PTL DEF Spec
<1> QED BY <1>4, PTL DEF ImplementsGuestList, List!Spec, Listed
=============================================================================
