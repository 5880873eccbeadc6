---------------------------- MODULE Pages_proofs ----------------------------
(* Two pages of the web client that show what the API may have changed:    *)
(* what the stale notice claims is so, and the checklist page's epochs are *)
(* enough, for any events, pages, calls, clicks and bounds.  The two share *)
(* no state; each has its invariant and its theorem.                       *)
EXTENDS StaleNotice, ChecklistPage, TLAPS

----------------------------------------------------------------------------
(* The notice of the plan page.                                            *)

NoticeSpec == NoticeInit /\ [][NoticeNext]_noticeVars

Reads == [revision : Nat, stale : BOOLEAN]

Regenerations ==
    [of : Events,
     step : {"none", "posting", "rereading", "reread", "done"},
     post : {"none", "sent", "read", "handled"},
     pinned : Nat,
     answer : {"none", "ok", "refused", "lost"},
     read : Reads]

Notices ==
    [stale : BOOLEAN, regenerating : BOOLEAN, failure : BOOLEAN, withheld : BOOLEAN,
     cleared : Nat]

NoticeTypeInv ==
    /\ described \in Events
    /\ notice \in Notices
    /\ loading \in [step : {"sent", "answered", "done"}, read : Reads]
    /\ attempt \in [Attempts -> Regenerations]
    /\ revision \in [Events -> Nat]
    /\ plans \in [Events -> Seq(Nat)]

PlannedFor(e, n) == \E i \in DOMAIN plans[e] : plans[e][i] = n

(* An event has a plan, and none of a revision it has not had yet.            *)
LedgerInv ==
    \A e \in Events :
        /\ plans[e] # <<>>
        /\ \A i \in DOMAIN plans[e] : plans[e][i] <= revision[e]

PinnedInv ==
    \A a \in Attempts :
        /\ attempt[a].pinned <= revision[attempt[a].of]
        /\ attempt[a].step = "none" => attempt[a].pinned = 0 /\ attempt[a].post = "none"

(* A read that confirms a revision was of an event with a plan made for it.   *)
NoticeReadInv ==
    \A a \in Attempts :
        /\ attempt[a].step = "reread"
        /\ ConfirmedCurrentRevision(attempt[a].read) # 0
        => PlannedFor(attempt[a].of, ConfirmedCurrentRevision(attempt[a].read))

NoticeIInv == NoticeTypeInv /\ LedgerInv /\ PinnedInv /\ NoticeReadInv /\ ClearedPlanExists

LEMMA NoticeInitHolds == ASSUME Events # {} PROVE NoticeInit => NoticeIInv
<1>. SUFFICES ASSUME NoticeInit PROVE NoticeIInv
  OBVIOUS
<1>1. (CHOOSE e \in Events : TRUE) \in Events
  OBVIOUS
<1>2. NoRead \in Reads /\ Nothing \in Notices
  BY DEF NoRead, Reads, Nothing, Notices
<1>3. NoticeTypeInv
  BY <1>1, <1>2 DEF NoticeInit, NoticeTypeInv, Regenerations
<1>. QED BY <1>3 DEF NoticeInit, NoticeIInv, LedgerInv, PinnedInv, NoticeReadInv, ClearedPlanExists, Nothing

(* What the API answers when it is read is confirmed by a plan.               *)
LEMMA CurrentMeansPlanned ==
    ASSUME NoticeIInv, NEW e \in Events, ConfirmedCurrentRevision(EventRead(e)) # 0
    PROVE  PlannedFor(e, ConfirmedCurrentRevision(EventRead(e)))
<1>1. plans[e] \in Seq(Nat) /\ plans[e] # <<>> /\ revision[e] \in Nat
  BY DEF NoticeIInv, NoticeTypeInv, LedgerInv
<1>2. Len(plans[e]) \in DOMAIN plans[e] /\ LatestPlanned(e) \in Nat
  BY <1>1 DEF LatestPlanned
<1>3. LatestPlanned(e) <= revision[e]
  BY <1>2 DEF NoticeIInv, LedgerInv, LatestPlanned
<1>4. EventRead(e).revision = revision[e] /\ EventRead(e).stale = (LatestPlanned(e) < revision[e])
  BY DEF EventRead
<1>5. ~EventRead(e).stale /\ ConfirmedCurrentRevision(EventRead(e)) = revision[e]
  BY <1>4 DEF ConfirmedCurrentRevision
<1>6. LatestPlanned(e) = revision[e]
  <2>1. ~(LatestPlanned(e) < revision[e])
    BY <1>4, <1>5, Zenon
  <2>. QED BY <1>1, <1>2, <1>3, <2>1
<1>. QED BY <1>2, <1>5, <1>6 DEF PlannedFor, LatestPlanned

LEMMA AppendIsAtTheEnd ==
    ASSUME NEW s \in Seq(Nat), NEW n \in Nat
    PROVE  /\ Append(s, n) \in Seq(Nat) /\ Append(s, n) # <<>>
           /\ DOMAIN Append(s, n) = 1..(Len(s) + 1) /\ DOMAIN s = 1..Len(s)
           /\ \A i \in 1..Len(s) : Append(s, n)[i] = s[i]
           /\ Append(s, n)[Len(s) + 1] = n
OBVIOUS

(* Plans are only added.                                                      *)
LEMMA PlansStay ==
    ASSUME NoticeIInv, NEW a \in Attempts, ServeStore(a),
           NEW e \in Events
    PROVE  /\ plans'[e] \in Seq(Nat) /\ plans'[e] # <<>>
           /\ \A i \in DOMAIN plans[e] : i \in DOMAIN plans'[e] /\ plans'[e][i] = plans[e][i]
           /\ \A i \in DOMAIN plans'[e] : plans'[e][i] <= revision[e]
<1>1. /\ attempt[a].pinned \in Nat /\ attempt[a].of \in Events
      /\ plans[e] \in Seq(Nat) /\ revision[e] \in Nat
  BY DEF NoticeIInv, NoticeTypeInv, Regenerations
<1>2. plans'[e] = IF e = attempt[a].of THEN Append(plans[e], attempt[a].pinned) ELSE plans[e]
  BY DEF ServeStore, NoticeIInv, NoticeTypeInv
<1>3. attempt[a].pinned <= revision[attempt[a].of]
  BY DEF NoticeIInv, PinnedInv
<1>4. \A i \in DOMAIN plans[e] : plans[e][i] <= revision[e]
  BY DEF NoticeIInv, LedgerInv
<1>5. CASE e = attempt[a].of
  <2>1. \A i \in 1..(Len(plans[e]) + 1) : i \in 1..Len(plans[e]) \/ i = Len(plans[e]) + 1
    BY <1>1
  <2>2. Len(plans[e]) \in Nat /\ \A i \in 1..Len(plans[e]) : i \in 1..(Len(plans[e]) + 1)
    BY <1>1
  <2>3. plans'[e] = Append(plans[e], attempt[a].pinned)
    BY <1>2, <1>5
  <2>4. \A i \in DOMAIN plans[e] : i \in DOMAIN plans'[e] /\ plans'[e][i] = plans[e][i]
    BY <1>1, <2>2, <2>3, AppendIsAtTheEnd
  <2>5. \A i \in DOMAIN plans'[e] : plans'[e][i] <= revision[e]
    BY <1>1, <1>3, <1>4, <1>5, <2>1, <2>3, AppendIsAtTheEnd
  <2>. QED BY <1>1, <2>3, <2>4, <2>5, AppendIsAtTheEnd
<1>6. CASE e # attempt[a].of
  BY <1>1, <1>2, <1>4, <1>6 DEF NoticeIInv, LedgerInv
<1>. QED BY <1>5, <1>6

LEMMA NextKeepsNoticeIInv == ASSUME NoticeIInv, NoticeNext PROVE NoticeIInv'
<1>. USE DEF NoticeIInv
<1>1. CASE ServeLoad \/ LoadFails \/ Loaded
  <2>1. EventRead(described) \in Reads /\ NoRead \in Reads
    <3>1. plans[described] \in Seq(Nat) /\ plans[described] # <<>> /\ revision[described] \in Nat
      BY DEF NoticeTypeInv, LedgerInv
    <3>2. LatestPlanned(described) \in Nat
      BY <3>1 DEF LatestPlanned
    <3>. QED BY <3>1, <3>2 DEF EventRead, NoRead, Reads
  <2>2. UNCHANGED <<described, attempt, revision, plans>>
    BY <1>1 DEF ServeLoad, LoadFails, Loaded
  <2>3. notice' \in {notice, [notice EXCEPT !.stale = TRUE]}
    BY <1>1 DEF ServeLoad, LoadFails, Loaded
  <2>4. notice' \in Notices /\ notice'.cleared = notice.cleared
    BY <2>3 DEF NoticeTypeInv, Notices
  <2>5. loading' \in [step : {"sent", "answered", "done"}, read : Reads]
    BY <1>1, <2>1 DEF ServeLoad, LoadFails, Loaded
  <2>6. NoticeTypeInv'
    BY <2>2, <2>4, <2>5 DEF NoticeTypeInv
  <2>. QED BY <2>2, <2>4, <2>6 DEF LedgerInv, PinnedInv, NoticeReadInv, ClearedPlanExists, PlannedFor
<1>2. ASSUME NEW e \in Events, Describe(e) PROVE NoticeIInv'
  <2>1. NoRead \in Reads /\ Nothing \in Notices /\ Nothing.cleared = 0
    BY DEF NoRead, Reads, Nothing, Notices
  <2>2. NoticeTypeInv' /\ notice'.cleared = 0 /\ UNCHANGED <<attempt, revision, plans>>
    BY <1>2, <2>1 DEF Describe, NoticeTypeInv
  <2>. QED BY <2>2 DEF LedgerInv, PinnedInv, NoticeReadInv, ClearedPlanExists, PlannedFor
<1>3. ASSUME NEW e \in Events, Edit(e) PROVE NoticeIInv'
  <2>1. NoticeTypeInv' /\ UNCHANGED <<described, notice, attempt, plans>>
    BY <1>3 DEF Edit, NoticeTypeInv
  <2>2. \A f \in Events : revision[f] \in Nat /\ revision'[f] >= revision[f]
    BY <1>3 DEF Edit, NoticeTypeInv
  <2>3. LedgerInv'
    <3>1. \A f \in Events : \A i \in DOMAIN plans[f] : plans[f][i] \in Nat
      BY DEF NoticeTypeInv
    <3>. QED BY <2>1, <2>2, <3>1 DEF LedgerInv, NoticeTypeInv
  <2>4. PinnedInv'
    <3>1. \A a \in Attempts : attempt[a].of \in Events /\ attempt[a].pinned \in Nat
      BY DEF NoticeTypeInv, Regenerations
    <3>. QED BY <2>1, <2>2, <3>1 DEF PinnedInv, NoticeTypeInv
  <2>. QED BY <2>1, <2>3, <2>4 DEF NoticeReadInv, ClearedPlanExists, PlannedFor
<1>4. ASSUME NEW a \in Attempts, Attempted(a) PROVE NoticeIInv'
  <2>0. attempt[a] \in Regenerations /\ attempt[a].of \in Events /\ attempt[a].pinned \in Nat
    BY DEF NoticeTypeInv, Regenerations
  <2>1. CASE Regenerate(a)
    <3>1. [attempt[a] EXCEPT !.of = described, !.step = "posting", !.post = "sent"] \in Regenerations
      BY <2>0 DEF NoticeTypeInv, Regenerations
    <3>2. NoticeTypeInv' /\ notice'.cleared = notice.cleared /\ UNCHANGED <<described, revision, plans>>
      BY <2>1, <3>1 DEF Regenerate, NoticeTypeInv, Notices
    <3>3. attempt[a].pinned = 0 /\ revision[described] \in Nat
      BY <2>1 DEF Regenerate, PinnedInv, NoticeTypeInv
    <3>4. PinnedInv'
      BY <2>1, <3>2, <3>3 DEF Regenerate, PinnedInv, NoticeTypeInv
    <3>5. attempt'[a].step = "posting" /\ \A q \in Attempts \ {a} : attempt'[q] = attempt[q]
      BY <2>0, <2>1 DEF Regenerate, NoticeTypeInv, Regenerations
    <3>6. NoticeReadInv'
      BY <3>2, <3>5 DEF NoticeReadInv, PlannedFor
    <3>. QED BY <3>2, <3>4, <3>6 DEF LedgerInv, ClearedPlanExists, PlannedFor
  <2>2. CASE ServePin(a)
    <3>1. revision[attempt[a].of] \in Nat
      BY <2>0 DEF NoticeTypeInv
    <3>2. [attempt[a] EXCEPT !.post = "read", !.pinned = revision[attempt[a].of]] \in Regenerations
      BY <2>0, <3>1 DEF Regenerations
    <3>3. NoticeTypeInv' /\ UNCHANGED <<described, notice, revision, plans>>
      BY <2>2, <3>2 DEF ServePin, NoticeTypeInv
    <3>4. PinnedInv'
      BY <2>2, <3>1, <3>3 DEF ServePin, PinnedInv, NoticeTypeInv
    <3>5. \A q \in Attempts :
            attempt'[q].of = attempt[q].of /\ attempt'[q].step = attempt[q].step
            /\ attempt'[q].read = attempt[q].read
      BY <2>0, <2>2 DEF ServePin, NoticeTypeInv, Regenerations
    <3>6. NoticeReadInv'
      BY <3>3, <3>5 DEF NoticeReadInv, PlannedFor
    <3>. QED BY <3>3, <3>4, <3>6 DEF LedgerInv, ClearedPlanExists, PlannedFor
  <2>3. CASE ServeStore(a)
    <3>1. UNCHANGED <<described, notice, revision, loading>>
      BY <2>3 DEF ServeStore
    <3>2. \A q \in Attempts :
            /\ attempt'[q] \in Regenerations
            /\ attempt'[q].of = attempt[q].of /\ attempt'[q].pinned = attempt[q].pinned
            /\ attempt'[q].step = attempt[q].step /\ attempt'[q].read = attempt[q].read
            /\ attempt[q].step = "none" => attempt'[q].post = attempt[q].post
      BY <2>0, <2>3 DEF ServeStore, Handle, NoticeTypeInv, Regenerations, PinnedInv
    <3>3. attempt' = [q \in Attempts |-> attempt'[q]] /\ plans' = [e \in Events |-> plans'[e]]
      BY <2>3 DEF ServeStore, Handle, NoticeTypeInv
    <3>4. NoticeTypeInv' /\ LedgerInv'
      BY <2>3, <3>1, <3>2, <3>3, PlansStay DEF NoticeTypeInv, LedgerInv
    <3>5. PinnedInv'
      BY <3>1, <3>2 DEF PinnedInv
    <3>6. \A e \in Events, n \in Nat : PlannedFor(e, n) => PlannedFor(e, n)'
      BY <2>3, PlansStay DEF PlannedFor
    <3>7. NoticeReadInv'
      BY <3>2, <3>6 DEF NoticeReadInv, ConfirmedCurrentRevision, NoticeTypeInv, Regenerations, Reads
    <3>8. ClearedPlanExists'
      BY <3>1, <3>6 DEF ClearedPlanExists, PlannedFor, NoticeTypeInv, Notices
    <3>. QED BY <3>4, <3>5, <3>7, <3>8
  <2>4. CASE ServeRefusal(a) \/ Lose(a)
    <3>1. UNCHANGED <<described, notice, revision, loading, plans>>
      BY <2>4 DEF ServeRefusal, Lose
    <3>2. \A q \in Attempts :
            /\ attempt'[q] \in Regenerations
            /\ attempt'[q].of = attempt[q].of /\ attempt'[q].pinned = attempt[q].pinned
            /\ attempt'[q].step = attempt[q].step /\ attempt'[q].read = attempt[q].read
            /\ attempt[q].step = "none" => attempt'[q].post = attempt[q].post
      <4>1. CASE ServeRefusal(a)
        BY <2>0, <4>1 DEF ServeRefusal, Handle, NoticeTypeInv, Regenerations, PinnedInv
      <4>2. CASE Lose(a)
        <5>1. attempt[a].step = "posting" /\ attempt' \in
                {[attempt EXCEPT ![a].answer = "lost"],
                 [attempt EXCEPT ![a].answer = "lost", ![a].post = "handled"]}
          BY <4>2 DEF Lose
        <5>2. CASE attempt' = [attempt EXCEPT ![a].answer = "lost"]
          BY <2>0, <5>1, <5>2 DEF NoticeTypeInv, Regenerations
        <5>3. CASE attempt' = [attempt EXCEPT ![a].answer = "lost", ![a].post = "handled"]
          BY <2>0, <5>1, <5>3 DEF NoticeTypeInv, Regenerations
        <5>. QED BY <5>1, <5>2, <5>3
      <4>. QED BY <2>4, <4>1, <4>2
    <3>3. attempt' = [q \in Attempts |-> attempt'[q]]
      BY <2>4 DEF ServeRefusal, Lose, Handle, NoticeTypeInv
    <3>4. NoticeTypeInv'
      BY <3>1, <3>2, <3>3 DEF NoticeTypeInv
    <3>5. PinnedInv'
      BY <3>1, <3>2 DEF PinnedInv
    <3>6. NoticeReadInv'
      BY <3>1, <3>2 DEF NoticeReadInv, PlannedFor
    <3>. QED BY <3>1, <3>4, <3>5, <3>6 DEF LedgerInv, ClearedPlanExists, PlannedFor
  <2>5. CASE Refused(a) \/ Recheck(a) \/ RereadStale(a) \/ RereadFails(a) \/ RereadCurrent(a)
    <3>1. UNCHANGED <<described, revision, loading, plans>> /\ attempt[a].step # "none"
      BY <2>5 DEF Refused, Recheck, RereadStale, RereadFails, RereadCurrent
    <3>2. /\ \A q \in Attempts :
               /\ attempt'[q] \in Regenerations
               /\ attempt'[q].of = attempt[q].of /\ attempt'[q].pinned = attempt[q].pinned
               /\ attempt'[q].read = attempt[q].read
               /\ q # a => attempt'[q] = attempt[q]
               /\ attempt'[a].step \in {"done", "rereading"}
          /\ attempt' = [q \in Attempts |-> attempt'[q]]
      <4>1. PICK s \in {"done", "rereading"} : attempt' = [attempt EXCEPT ![a].step = s]
        BY <2>5 DEF Refused, Recheck, RereadStale, RereadFails, RereadCurrent, Step
      <4>2. [attempt[a] EXCEPT !.step = s] \in Regenerations
        BY <2>0 DEF Regenerations
      <4>3. attempt'[a] = [attempt[a] EXCEPT !.step = s]
        BY <4>1 DEF NoticeTypeInv
      <4>4. \A q \in Attempts : q # a => attempt'[q] = attempt[q]
        BY <4>1 DEF NoticeTypeInv
      <4>5. /\ attempt'[a].of = attempt[a].of /\ attempt'[a].pinned = attempt[a].pinned
            /\ attempt'[a].read = attempt[a].read /\ attempt'[a].step = s
        BY <2>0, <4>3 DEF Regenerations
      <4>6. attempt' = [q \in Attempts |-> attempt'[q]]
        BY <4>1 DEF NoticeTypeInv
      <4>7. \A q \in Attempts : attempt[q] \in Regenerations
        BY DEF NoticeTypeInv
      <4>. QED BY <4>2, <4>3, <4>4, <4>5, <4>6, <4>7
    <3>3. notice' \in Notices
      <4>1. ConfirmedCurrentRevision(attempt[a].read) \in Nat
        BY <2>0 DEF ConfirmedCurrentRevision, Regenerations, Reads
      <4>2. notice \in Notices
        BY DEF NoticeTypeInv
      <4>3. notice' \in
              {notice,
               [notice EXCEPT !.regenerating = FALSE, !.withheld = TRUE],
               [notice EXCEPT !.regenerating = FALSE, !.failure = TRUE],
               [notice EXCEPT !.regenerating = FALSE, !.stale = FALSE,
                              !.cleared = ConfirmedCurrentRevision(attempt[a].read)]}
        BY <2>5 DEF Refused, Recheck, RereadStale, RereadFails, RereadCurrent, Step
      <4>. QED BY <4>1, <4>2, <4>3 DEF Notices
    <3>4. /\ NoticeTypeInv' /\ LedgerInv' /\ PinnedInv' /\ NoticeReadInv'
      <4>1. NoticeTypeInv'
        BY <3>1, <3>2, <3>3 DEF NoticeTypeInv
      <4>2. PinnedInv'
        BY <3>1, <3>2 DEF PinnedInv
      <4>3. NoticeReadInv'
        BY <3>1, <3>2 DEF NoticeReadInv, PlannedFor
      <4>. QED BY <3>1, <4>1, <4>2, <4>3 DEF LedgerInv
    <3>5. ClearedPlanExists'
      <4>1. CASE notice'.cleared = notice.cleared
        BY <3>1, <4>1 DEF ClearedPlanExists
      <4>2. CASE notice'.cleared # notice.cleared
        <5>1. /\ attempt[a].step = "reread" /\ attempt[a].of = described
              /\ notice'.cleared = ConfirmedCurrentRevision(attempt[a].read)
              /\ notice'.cleared # 0
          BY <2>5, <4>2 DEF Refused, Recheck, RereadStale, RereadFails, RereadCurrent, Step,
               StillDescribed, NoticeTypeInv, Notices
        <5>. QED BY <3>1, <5>1 DEF NoticeReadInv, ClearedPlanExists, PlannedFor
      <4>. QED BY <4>1, <4>2
    <3>. QED BY <3>4, <3>5
  <2>6. CASE ServeReread(a)
    <3>1. EventRead(attempt[a].of) \in Reads
      <4>1. /\ plans[attempt[a].of] \in Seq(Nat) /\ plans[attempt[a].of] # <<>>
            /\ revision[attempt[a].of] \in Nat
        BY <2>0 DEF NoticeTypeInv, LedgerInv
      <4>2. LatestPlanned(attempt[a].of) \in Nat
        BY <4>1 DEF LatestPlanned
      <4>. QED BY <4>1, <4>2 DEF EventRead, Reads
    <3>2. [attempt[a] EXCEPT !.step = "reread", !.read = EventRead(attempt[a].of)] \in Regenerations
      BY <2>0, <3>1 DEF Regenerations
    <3>3. NoticeTypeInv' /\ UNCHANGED <<described, notice, revision, plans>>
      BY <2>6, <3>2 DEF ServeReread, NoticeTypeInv
    <3>4. \A q \in Attempts :
            /\ attempt'[q].of = attempt[q].of /\ attempt'[q].pinned = attempt[q].pinned
            /\ q # a => attempt'[q] = attempt[q]
      BY <2>0, <2>6 DEF ServeReread, NoticeTypeInv, Regenerations
    <3>5. attempt'[a].step = "reread" /\ attempt'[a].read = EventRead(attempt[a].of)
      BY <2>0, <2>6 DEF ServeReread, NoticeTypeInv, Regenerations
    <3>6. PinnedInv'
      BY <3>3, <3>4, <3>5 DEF PinnedInv
    <3>7. NoticeReadInv'
      BY <2>0, <3>3, <3>4, <3>5, CurrentMeansPlanned DEF NoticeReadInv, PlannedFor
    <3>. QED BY <3>3, <3>6, <3>7 DEF LedgerInv, ClearedPlanExists, PlannedFor
  <2>. QED BY <1>4, <2>1, <2>2, <2>3, <2>4, <2>5, <2>6 DEF Attempted
<1>. QED BY <1>1, <1>2, <1>3, <1>4 DEF NoticeNext

LEMMA StutterKeepsNoticeIInv == ASSUME NoticeIInv, UNCHANGED noticeVars PROVE NoticeIInv'
BY DEF noticeVars, NoticeIInv, NoticeTypeInv, LedgerInv, PinnedInv, NoticeReadInv, ClearedPlanExists, PlannedFor

-----------------------------------------------------------------------------
(* When the notice says that a plan is current for a revision, the event on   *)
(* screen has a plan made for it (plan-stale-notice.tsx regenerate).          *)
THEOREM ClaimsAreBacked ==
    ASSUME Events # {} PROVE NoticeSpec => []ClearedPlanExists
<1>1. NoticeIInv /\ [NoticeNext]_noticeVars => NoticeIInv'
  BY NextKeepsNoticeIInv, StutterKeepsNoticeIInv
<1>2. NoticeIInv => ClearedPlanExists
  BY DEF NoticeIInv
<1>. QED BY NoticeInitHolds, <1>1, <1>2, PTL DEF NoticeSpec

----------------------------------------------------------------------------
(* The checklist page.                                                     *)

PageSpec == PageInit /\ [][PageNext]_pageVars

Places == Pages \cup {"none"}

Screens ==
    [status : {"loading", "ready", "failed"}, of : Places, holds : SUBSET Calls, plan : Nat]

Waiting == {"new", "writing", "written", "superseded", "dropped"}
HasRead == {"reading", "read", "quiet", "failed"}

Operations ==
    [step : Waiting \cup HasRead, of : Places, turn : Nat, row : Rows \cup {"none"},
     epoch : Nat, read : Screens, displayed : Nat]

PageTypeInv ==
    /\ showing \in Pages
    /\ opened \in SUBSET Pages
    /\ turns \in Nat
    /\ screen \in Screens
    /\ opening \in [step : {"sent", "read", "done"}, read : Screens]
    /\ writeEpoch \in Nat /\ appliedEpoch \in Nat /\ timers \in Nat
    /\ call \in [Calls -> Operations]
    /\ stored \in [Pages -> SUBSET Calls]
    /\ plan \in [Pages -> Nat]

(* A call is of the page on screen exactly when it was begun in its turn.     *)
TurnInv ==
    /\ showing \in opened /\ turns > 0
    /\ \A c \in Calls :
        IF call[c].step = "new" THEN call[c].turn = 0
        ELSE /\ call[c].of \in opened
             /\ call[c].turn <= turns /\ (call[c].of = showing <=> call[c].turn = turns)

Here(c) == call[c].turn = turns

(* Nothing is begun on a page that is not read yet.                           *)
OpeningInv ==
    opening.step # "done" =>
        screen.status # "ready" /\ timers = 0 /\ \A c \in Calls : ~Here(c)

(* Every re-read has an epoch of its own, none beyond the counter.            *)
EpochInv ==
    /\ appliedEpoch <= writeEpoch
    /\ \A c \in Calls : (call[c].epoch > 0) <=> (call[c].step \in HasRead)
    /\ \A c \in Calls : Here(c) => call[c].epoch <= writeEpoch
    /\ \A c, d \in Calls :
         Here(c) /\ Here(d) /\ c # d /\ call[c].epoch > 0 => call[c].epoch # call[d].epoch

(* A write is stored once, before its re-read begins.                         *)
StoredInv ==
    \A e \in Pages : \A c \in stored[e] : call[c].step \notin {"new", "writing"}

Saved(c) == Here(c) /\ call[c].epoch > 0 /\ c \in stored[showing]

(* A re-read has seen every write whose own re-read began no later.           *)
PageReadInv ==
    \A d \in Calls : call[d].step = "read" =>
        /\ call[d].read.of = call[d].of
        /\ Here(d) => \A c \in Calls :
              Saved(c) /\ call[c].epoch <= call[d].epoch => c \in call[d].read.holds

(* So has the screen, of the writes up to the epoch it shows.                 *)
Shown(c) == screen.of = showing /\ c \in screen.holds

ScreenInv ==
    \A c \in Calls :
        Saved(c) /\ call[c].epoch <= appliedEpoch /\ call[c].step # "failed"
        => Shown(c) \/ FailedAfter(call[c].epoch)

QuietInv == \A c \in Calls : Here(c) /\ call[c].step = "quiet" => call[c].epoch <= appliedEpoch

PageIInv ==
    PageTypeInv /\ TurnInv /\ OpeningInv /\ EpochInv /\ StoredInv /\ PageReadInv /\ ScreenInv /\ QuietInv

-----------------------------------------------------------------------------
LEMMA ScreensAreTyped ==
    /\ NoScreen \in Screens /\ [NoScreen EXCEPT !.status = "failed"] \in Screens
    /\ NoScreen.status = "loading"
    /\ [NoScreen EXCEPT !.status = "failed"].status = "failed"
    /\ (PageTypeInv => \A e \in Pages : ReadOf(e) \in Screens)
    /\ \A e : ReadOf(e).of = e /\ ReadOf(e).holds = stored[e]
BY DEF NoScreen, Screens, Places, ReadOf, PageTypeInv

LEMMA PageInitHolds == PageInit => PageIInv
<1>. SUFFICES ASSUME PageInit PROVE PageIInv
  OBVIOUS
<1>1. Unused \in Operations
  BY ScreensAreTyped DEF Unused, Operations, Waiting, Places
<1>2. \A c \in Calls : call[c] = Unused
  BY DEF PageInit
<1>3. Unused.step = "new" /\ Unused.turn = 0 /\ Unused.epoch = 0
  BY DEF Unused
<1>4. PageTypeInv
  BY <1>1, ScreensAreTyped DEF PageInit, PageTypeInv
<1>5. TurnInv /\ OpeningInv
  BY <1>2, <1>3, ScreensAreTyped DEF PageInit, TurnInv, OpeningInv, Here
<1>6. EpochInv /\ StoredInv /\ PageReadInv /\ ScreenInv /\ QuietInv
  BY <1>2, <1>3 DEF PageInit, EpochInv, StoredInv, PageReadInv, ScreenInv, QuietInv, Saved, Here,
     HasRead
<1>. QED BY <1>4, <1>5, <1>6 DEF PageIInv

(* The screen's own steps: no call moves.                                     *)
LEMMA ScreenSteps ==
    ASSUME PageIInv, ServeOpening \/ Opened \/ OpeningFails PROVE PageIInv'
<1>. USE DEF PageIInv
<1>1. UNCHANGED <<showing, opened, turns, writeEpoch, appliedEpoch, call, timers, stored, plan>>
  BY DEF ServeOpening, Opened, OpeningFails
<1>2. opening.step # "done" /\ (\A c \in Calls : ~Here(c)) /\ timers = 0
  BY DEF ServeOpening, Opened, OpeningFails, OpeningInv
<1>3. /\ opening' \in [step : {"sent", "read", "done"}, read : Screens]
      /\ screen' \in Screens
      /\ opening'.step # "done" => screen' = screen
  BY ScreensAreTyped DEF ServeOpening, Opened, OpeningFails, PageTypeInv
<1>4. PageTypeInv'
  BY <1>1, <1>3 DEF PageTypeInv
<1>5. TurnInv' /\ EpochInv' /\ StoredInv' /\ QuietInv'
  BY <1>1 DEF TurnInv, EpochInv, StoredInv, QuietInv, Here
<1>6. OpeningInv'
  BY <1>1, <1>2, <1>3 DEF OpeningInv, Here
<1>7. PageReadInv' /\ ScreenInv'
  BY <1>1, <1>2 DEF PageReadInv, ScreenInv, Saved, Here
<1>. QED BY <1>4, <1>5, <1>6, <1>7

LEMMA OpenStep ==
    ASSUME PageIInv, Revisits = FALSE, NEW e \in Pages, Open(e) PROVE PageIInv'
<1>. USE DEF PageIInv
<1>1. /\ showing' = e /\ opened' = opened \cup {e} /\ turns' = turns + 1 /\ e \notin opened
      /\ screen' = NoScreen /\ opening' = [step |-> "sent", read |-> NoScreen]
      /\ writeEpoch' = 0 /\ appliedEpoch' = 0 /\ timers' = 0
      /\ UNCHANGED <<call, stored, plan>>
  BY DEF Open
<1>2. PageTypeInv'
  BY <1>1, ScreensAreTyped DEF PageTypeInv
<1>3. \A c \in Calls : call[c].turn \in Nat /\ call[c].turn <= turns
  BY DEF PageTypeInv, TurnInv, Operations
<1>4. \A c \in Calls : ~Here(c)'
  BY <1>1, <1>3 DEF Here, PageTypeInv
<1>5. TurnInv'
  BY <1>1, <1>3 DEF TurnInv, PageTypeInv
<1>6. OpeningInv'
  BY <1>1, <1>4, ScreensAreTyped DEF OpeningInv
<1>7. EpochInv' /\ StoredInv' /\ QuietInv' /\ ScreenInv'
  BY <1>1, <1>4 DEF EpochInv, StoredInv, QuietInv, ScreenInv, Saved
<1>8. PageReadInv'
  BY <1>1, <1>4 DEF PageReadInv
<1>. QED BY <1>2, <1>5, <1>6, <1>7, <1>8

LEMMA ReplanStep ==
    ASSUME PageIInv, NEW e \in Pages, Replan(e) PROVE PageIInv'
<1>1. PageTypeInv'
  BY DEF Replan, PageIInv, PageTypeInv
<1>2. UNCHANGED <<showing, opened, turns, screen, opening, writeEpoch, appliedEpoch, call,
                  timers, stored>>
  BY DEF Replan
<1>. QED BY <1>1, <1>2 DEF PageIInv, TurnInv, OpeningInv, EpochInv, StoredInv, PageReadInv, ScreenInv,
            QuietInv, Saved, Here, Shown, FailedAfter

-----------------------------------------------------------------------------
(* A call moves, and no other does.                                           *)
Moves(c) ==
    /\ UNCHANGED <<showing, opened, turns, opening, plan>>
    /\ \A q \in Calls \ {c} : call'[q] = call[q]

(* ... before its re-read: it has no epoch yet.                               *)
LEMMA MovesBeforeItsRead ==
    ASSUME PageIInv, PageTypeInv', NEW c \in Calls, Moves(c),
           UNCHANGED <<screen, writeEpoch, appliedEpoch>>, timers' = timers \/ opening.step = "done",
           call[c].step \in Waiting, call'[c].step \in Waiting \ {"new"},
           call'[c].epoch = call[c].epoch,
           \/ call'[c].of = call[c].of /\ call'[c].turn = call[c].turn /\ call[c].step # "new"
           \/ call'[c].of = showing /\ call'[c].turn = turns /\ opening.step = "done",
           \/ UNCHANGED stored
           \/ /\ stored' = [stored EXCEPT ![call[c].of] = @ \cup {c}]
              /\ call'[c].step # "writing",
           call'[c].step = "writing" => call[c].step = "new"
    PROVE  PageIInv'
<1>. USE DEF PageIInv
<1>1. call[c].epoch = 0 /\ call'[c].epoch = 0
  BY DEF EpochInv, Waiting, HasRead, PageTypeInv, Operations
<1>2. TurnInv'
  BY DEF TurnInv, Moves, PageTypeInv
<1>3. OpeningInv'
  BY DEF OpeningInv, Moves, Here
<1>4. EpochInv'
  <2>1. \A q \in Calls : (call'[q].epoch > 0) <=> (call'[q].step \in HasRead)
    BY <1>1 DEF EpochInv, Moves, Waiting, HasRead
  <2>2. \A q \in Calls : Here(q)' => call'[q].epoch <= writeEpoch'
    BY <1>1 DEF EpochInv, Moves, Here, PageTypeInv
  <2>3. \A q, d \in Calls :
           Here(q)' /\ Here(d)' /\ q # d /\ call'[q].epoch > 0 => call'[q].epoch # call'[d].epoch
    BY <1>1 DEF EpochInv, Moves, Here, PageTypeInv, Operations
  <2>. QED BY <2>1, <2>2, <2>3 DEF EpochInv, PageTypeInv
<1>5. StoredInv'
  BY DEF StoredInv, Moves, PageTypeInv
<1>6. \A q \in Calls : Saved(q)' => q # c /\ Saved(q)
  BY <1>1 DEF Saved, Here, Moves, PageTypeInv
<1>7. \A n : FailedAfter(n) => FailedAfter(n)'
  BY DEF FailedAfter, Moves, Waiting, Here
<1>8. PageReadInv' /\ QuietInv'
  BY <1>6 DEF PageReadInv, QuietInv, Moves, Here, Waiting
<1>9. ScreenInv'
  BY <1>6, <1>7 DEF ScreenInv, Moves, Shown
<1>. QED BY <1>2, <1>3, <1>4, <1>5, <1>8, <1>9

(* ... to its re-read, which takes the next epoch.                            *)
LEMMA TakesAnEpoch ==
    ASSUME PageIInv, PageTypeInv', NEW c \in Calls, Moves(c),
           UNCHANGED <<screen, appliedEpoch, stored>>, timers' = timers \/ opening.step = "done",
           writeEpoch' = writeEpoch + 1,
           call[c].step \in Waiting, call'[c].step = "reading",
           call'[c].epoch = writeEpoch + 1,
           \/ call'[c].of = call[c].of /\ call'[c].turn = call[c].turn /\ call[c].step # "new"
           \/ call'[c].of = showing /\ call'[c].turn = turns /\ opening.step = "done"
    PROVE  PageIInv'
<1>. USE DEF PageIInv
<1>0. writeEpoch \in Nat /\ \A q \in Calls : call[q].epoch \in Nat
  BY DEF PageTypeInv, Operations
<1>1. \A q \in Calls \ {c} : Here(q)' => Here(q) /\ call'[q].epoch <= writeEpoch
  BY DEF EpochInv, Moves, Here
<1>2. TurnInv'
  BY DEF TurnInv, Moves, PageTypeInv
<1>3. OpeningInv'
  BY DEF OpeningInv, Moves, Here
<1>4. EpochInv'
  <2>1. \A q \in Calls : (call'[q].epoch > 0) <=> (call'[q].step \in HasRead)
    BY <1>0 DEF EpochInv, Moves, HasRead
  <2>2. \A q \in Calls : Here(q)' => call'[q].epoch <= writeEpoch'
    BY <1>0, <1>1 DEF Moves
  <2>3. \A q, d \in Calls :
           Here(q)' /\ Here(d)' /\ q # d /\ call'[q].epoch > 0 => call'[q].epoch # call'[d].epoch
    <3>1. \A q \in Calls \ {c} : Here(q)' => call'[q].epoch # call'[c].epoch
      BY <1>0, <1>1 DEF Moves
    <3>2. \A q, d \in Calls \ {c} :
             Here(q)' /\ Here(d)' /\ q # d /\ call'[q].epoch > 0 => call'[q].epoch # call'[d].epoch
      BY <1>1 DEF EpochInv, Moves
    <3>. QED BY <3>1, <3>2
  <2>. QED BY <2>1, <2>2, <2>3 DEF EpochInv, PageTypeInv
<1>5. StoredInv'
  BY DEF StoredInv, Moves, PageTypeInv
<1>6. \A q \in Calls : Saved(q)' => q = c \/ Saved(q)
  BY DEF Saved, Here, Moves
<1>7. \A n : FailedAfter(n) => FailedAfter(n)'
  BY DEF FailedAfter, Moves, Waiting, Here
<1>8. PageReadInv'
  <2>1. ASSUME NEW d \in Calls, call'[d].step = "read" PROVE d # c /\ call'[d] = call[d]
    BY <2>1 DEF Moves
  <2>2. \A d \in Calls : call'[d].step = "read" /\ Here(d)' => ~(call'[c].epoch <= call'[d].epoch)
    BY <1>0, <1>1, <2>1
  <2>. QED BY <1>6, <2>1, <2>2 DEF PageReadInv, Moves, Here
<1>9. ScreenInv'
  <2>1. ~(call'[c].epoch <= appliedEpoch') \/ ~Saved(c)'
    <3>1. appliedEpoch <= writeEpoch
      BY DEF EpochInv
    <3>. QED BY <1>0, <3>1 DEF PageTypeInv
  <2>. QED BY <1>6, <1>7, <2>1 DEF ScreenInv, Moves, Shown
<1>10. QuietInv'
  BY DEF QuietInv, Moves, Here
<1>. QED BY <1>2, <1>3, <1>4, <1>5, <1>8, <1>9, <1>10

(* A re-read under way is of a call with an epoch, and stays so.              *)
LEMMA KeepsItsEpoch ==
    ASSUME PageIInv, NEW c \in Calls, Moves(c),
           UNCHANGED <<writeEpoch, timers, stored>>, appliedEpoch' <= writeEpoch,
           call[c].step \in HasRead, call'[c].step \in HasRead,
           call'[c].epoch = call[c].epoch, call'[c].of = call[c].of,
           call'[c].turn = call[c].turn
    PROVE  /\ TurnInv' /\ EpochInv' /\ StoredInv'
           /\ \A q \in Calls : (Here(q)' <=> Here(q)) /\ (Saved(q)' <=> Saved(q))
           /\ \A q \in Calls : call'[q].epoch = call[q].epoch
<1>. USE DEF PageIInv
<1>1. \A q \in Calls : call'[q].epoch = call[q].epoch /\ call'[q].of = call[q].of
                       /\ call'[q].turn = call[q].turn
  BY DEF Moves
<1>2. \A q \in Calls : (Here(q)' <=> Here(q)) /\ (Saved(q)' <=> Saved(q))
  BY <1>1 DEF Here, Saved, Moves
<1>3. TurnInv'
  BY <1>1 DEF TurnInv, Moves, HasRead
<1>4. EpochInv'
  <2>1. \A q \in Calls : (call'[q].epoch > 0) <=> (call'[q].step \in HasRead)
    BY <1>1 DEF EpochInv, Moves
  <2>. QED BY <2>1, <1>1, <1>2 DEF EpochInv
<1>5. StoredInv'
  BY DEF StoredInv, Moves, HasRead, PageTypeInv
<1>. QED BY <1>1, <1>2, <1>3, <1>4, <1>5

(* A call on the page it was begun on, once opened, and on no other.          *)
LEMMA ActiveIsHere ==
    ASSUME PageIInv, NEW c \in Calls, call[c].step # "new"
    PROVE  (Active(c) <=> Here(c)) /\ call[c].of \in Pages
BY DEF PageIInv, TurnInv, PageTypeInv, Active, Here

LEMMA ServeReloadStep ==
    ASSUME PageIInv, NEW c \in Calls, ServeReload(c) PROVE PageIInv'
<1>. USE DEF PageIInv
<1>1. /\ call[c].step = "reading"
      /\ call' = [call EXCEPT ![c] = [@ EXCEPT !.step = "read", !.read = ReadOf(call[c].of)]]
      /\ UNCHANGED <<showing, opened, turns, screen, opening, writeEpoch, appliedEpoch, timers,
                     stored, plan>>
  BY DEF ServeReload
<1>2. call[c] \in Operations
  BY DEF PageTypeInv
<1>3. call[c].of \in Pages /\ (call[c].of = showing <=> Here(c))
  BY <1>1, ActiveIsHere DEF Active
<1>4. [call[c] EXCEPT !.step = "read", !.read = ReadOf(call[c].of)] \in Operations
  BY <1>2, <1>3, ScreensAreTyped DEF Operations, HasRead
<1>5. /\ \A q \in Calls \ {c} : call'[q] = call[q]
      /\ call'[c].step = "read" /\ call'[c].read = ReadOf(call[c].of)
      /\ call'[c].epoch = call[c].epoch /\ call'[c].of = call[c].of
      /\ call'[c].turn = call[c].turn
  BY <1>1, <1>2 DEF PageTypeInv, Operations
<1>6. PageTypeInv'
  BY <1>1, <1>4 DEF PageTypeInv
<1>7. /\ TurnInv' /\ EpochInv' /\ StoredInv'
      /\ \A q \in Calls : (Here(q)' <=> Here(q)) /\ (Saved(q)' <=> Saved(q))
      /\ \A q \in Calls : call'[q].epoch = call[q].epoch
  <2>1. Moves(c) /\ appliedEpoch' <= writeEpoch
    BY <1>1, <1>5 DEF Moves, EpochInv
  <2>. QED BY <1>1, <1>5, <2>1, KeepsItsEpoch DEF HasRead
<1>8. OpeningInv'
  BY <1>1, <1>7 DEF OpeningInv
<1>9. PageReadInv'
  <2>1. /\ call'[c].read.of = call'[c].of
        /\ Here(c) => \A q \in Calls : Saved(q) => q \in call'[c].read.holds
    BY <1>3, <1>5, ScreensAreTyped DEF Saved
  <2>2. \A d \in Calls \ {c} : call'[d].step = "read" =>
          /\ call'[d].read.of = call'[d].of
          /\ Here(d) => \A q \in Calls :
                Saved(q) /\ call[q].epoch <= call[d].epoch => q \in call'[d].read.holds
    BY <1>5 DEF PageReadInv
  <2>. QED BY <2>1, <2>2, <1>7 DEF PageReadInv
<1>10. \A n : FailedAfter(n) => FailedAfter(n)'
  BY <1>1, <1>5 DEF FailedAfter
<1>11. ScreenInv'
  BY <1>1, <1>5, <1>7, <1>10 DEF ScreenInv, Shown
<1>12. QuietInv'
  BY <1>1, <1>5, <1>7 DEF QuietInv
<1>. QED BY <1>6, <1>7, <1>8, <1>9, <1>11, <1>12

LEMMA ReloadedStep ==
    ASSUME PageIInv, NEW c \in Calls, Reloaded(c) PROVE PageIInv'
<1>. USE DEF PageIInv
<1>1. /\ call[c].step = "read"
      /\ call' = [call EXCEPT ![c] = [@ EXCEPT !.step = "quiet", !.read = NoScreen]]
      /\ UNCHANGED <<showing, opened, turns, opening, writeEpoch, timers, stored, plan>>
      /\ IF Applies(c) THEN screen' = call[c].read /\ appliedEpoch' = call[c].epoch
                       ELSE UNCHANGED <<screen, appliedEpoch>>
  BY DEF Reloaded
<1>2. call[c] \in Operations /\ call[c].read \in Screens /\ call[c].epoch \in Nat
  BY DEF PageTypeInv, Operations
<1>3. Active(c) <=> Here(c)
  BY <1>1, ActiveIsHere
<1>4. [call[c] EXCEPT !.step = "quiet", !.read = NoScreen] \in Operations
  BY <1>2, ScreensAreTyped DEF Operations, HasRead
<1>5. /\ \A q \in Calls \ {c} : call'[q] = call[q]
      /\ call'[c].step = "quiet"
      /\ call'[c].epoch = call[c].epoch /\ call'[c].of = call[c].of
      /\ call'[c].turn = call[c].turn
  BY <1>1, <1>2 DEF PageTypeInv, Operations
<1>6. PageTypeInv'
  BY <1>1, <1>2, <1>4 DEF PageTypeInv
<1>7. /\ TurnInv' /\ EpochInv' /\ StoredInv'
      /\ \A q \in Calls : (Here(q)' <=> Here(q)) /\ (Saved(q)' <=> Saved(q))
      /\ \A q \in Calls : call'[q].epoch = call[q].epoch
  <2>1. Moves(c) /\ appliedEpoch' <= writeEpoch
    BY <1>1, <1>3, <1>5 DEF Moves, EpochInv, Applies
  <2>. QED BY <1>1, <1>5, <2>1, KeepsItsEpoch DEF HasRead
<1>8. OpeningInv'
  BY <1>1, <1>3, <1>7 DEF OpeningInv, Applies
<1>9. PageReadInv'
  BY <1>5, <1>7 DEF PageReadInv
<1>10. \A n : FailedAfter(n) => FailedAfter(n)'
  BY <1>1, <1>5 DEF FailedAfter
<1>11. ScreenInv'
  <2>1. CASE Applies(c)
    <3>1. call[c].read.of = showing /\ \A q \in Calls :
            Saved(q) /\ call[q].epoch <= call[c].epoch => q \in call[c].read.holds
      BY <2>1, <1>1, <1>3 DEF PageReadInv, Applies, Active
    <3>. QED BY <2>1, <3>1, <1>1, <1>7 DEF ScreenInv, Shown
  <2>2. CASE ~Applies(c)
    BY <2>2, <1>1, <1>5, <1>7, <1>10 DEF ScreenInv, Shown
  <2>. QED BY <2>1, <2>2
<1>12. QuietInv'
  <2>1. Here(c) => call[c].epoch <= appliedEpoch'
    BY <1>1, <1>2, <1>3 DEF Applies, PageTypeInv
  <2>2. appliedEpoch <= appliedEpoch'
    BY <1>1, <1>2 DEF Applies, PageTypeInv
  <2>3. \A q \in Calls \ {c} : Here(q) /\ call'[q].step = "quiet" => call[q].epoch <= appliedEpoch
    BY <1>5 DEF QuietInv
  <2>4. appliedEpoch' \in Nat /\ appliedEpoch \in Nat /\ \A q \in Calls : call[q].epoch \in Nat
    BY <1>6 DEF PageTypeInv, Operations
  <2>. QED BY <2>1, <2>2, <2>3, <2>4, <1>7 DEF QuietInv
<1>. QED BY <1>6, <1>7, <1>8, <1>9, <1>11, <1>12

LEMMA ReloadFailsStep ==
    ASSUME PageIInv, NEW c \in Calls, ReloadFails(c) PROVE PageIInv'
<1>. USE DEF PageIInv
<1>. DEFINE s == IF Applies(c) THEN "failed" ELSE "quiet"
<1>1. /\ call[c].step \in {"reading", "read"}
      /\ call' = [call EXCEPT ![c] = [@ EXCEPT !.step = s, !.read = NoScreen]]
      /\ appliedEpoch' = IF Applies(c) THEN call[c].epoch ELSE appliedEpoch
      /\ UNCHANGED <<showing, opened, turns, screen, opening, writeEpoch, timers, stored, plan>>
  BY DEF ReloadFails
<1>2. call[c] \in Operations /\ call[c].epoch \in Nat
  BY DEF PageTypeInv, Operations
<1>3. Active(c) <=> Here(c)
  BY <1>1, ActiveIsHere
<1>4. [call[c] EXCEPT !.step = s, !.read = NoScreen] \in Operations
  BY <1>2, ScreensAreTyped DEF Operations, HasRead
<1>5. /\ \A q \in Calls \ {c} : call'[q] = call[q]
      /\ call'[c].step = s
      /\ call'[c].epoch = call[c].epoch /\ call'[c].of = call[c].of
      /\ call'[c].turn = call[c].turn
  BY <1>1, <1>2 DEF PageTypeInv, Operations
<1>6. PageTypeInv'
  BY <1>1, <1>2, <1>4 DEF PageTypeInv
<1>7. /\ TurnInv' /\ EpochInv' /\ StoredInv'
      /\ \A q \in Calls : (Here(q)' <=> Here(q)) /\ (Saved(q)' <=> Saved(q))
      /\ \A q \in Calls : call'[q].epoch = call[q].epoch
  <2>1. Moves(c) /\ appliedEpoch' <= writeEpoch
    BY <1>1, <1>3, <1>5 DEF Moves, EpochInv, Applies
  <2>. QED BY <1>1, <1>5, <2>1, KeepsItsEpoch DEF HasRead
<1>8. OpeningInv'
  BY <1>1, <1>7 DEF OpeningInv
<1>9. PageReadInv'
  BY <1>5, <1>7 DEF PageReadInv
<1>10. \A n : FailedAfter(n) => FailedAfter(n)'
  BY <1>1, <1>5 DEF FailedAfter
<1>11. ScreenInv'
  <2>1. CASE Applies(c)
    <3>1. \A q \in Calls : /\ Saved(q) /\ call[q].epoch <= call[c].epoch
                          /\ call'[q].step # "failed"
            => call[q].epoch < call[c].epoch
      <4>1. call'[c].step = "failed" /\ Here(c) /\ call[c].epoch > 0
        BY <2>1, <1>1, <1>3, <1>5 DEF EpochInv, Applies, HasRead
      <4>2. \A q \in Calls : call[q].epoch \in Nat
        BY DEF PageTypeInv, Operations
      <4>3. \A q \in Calls \ {c} : Saved(q) => call[q].epoch # call[c].epoch
        BY <4>1 DEF EpochInv, Saved
      <4>. QED BY <4>1, <4>2, <4>3, <1>2
    <3>2. \A n \in Nat : n < call[c].epoch => FailedAfter(n)'
      BY <2>1, <1>1, <1>2, <1>3, <1>5 DEF FailedAfter, Applies, Here
    <3>3. \A q \in Calls : call[q].epoch \in Nat
      BY DEF PageTypeInv, Operations
    <3>. QED BY <2>1, <3>1, <3>2, <3>3, <1>1, <1>7 DEF ScreenInv
  <2>2. CASE ~Applies(c)
    BY <2>2, <1>1, <1>5, <1>7, <1>10 DEF ScreenInv, Shown
  <2>. QED BY <2>1, <2>2
<1>12. QuietInv'
  <2>1. Here(c) => call[c].epoch <= appliedEpoch'
    BY <1>1, <1>2, <1>3 DEF Applies, PageTypeInv
  <2>2. appliedEpoch <= appliedEpoch'
    BY <1>1, <1>2 DEF Applies, PageTypeInv
  <2>3. \A q \in Calls \ {c} : Here(q) /\ call'[q].step = "quiet" => call[q].epoch <= appliedEpoch
    BY <1>5 DEF QuietInv
  <2>4. appliedEpoch' \in Nat /\ appliedEpoch \in Nat /\ \A q \in Calls : call[q].epoch \in Nat
    BY <1>6 DEF PageTypeInv, Operations
  <2>. QED BY <2>1, <2>2, <2>3, <2>4, <1>7 DEF QuietInv
<1>. QED BY <1>6, <1>7, <1>8, <1>9, <1>11, <1>12

-----------------------------------------------------------------------------
LEMMA BeginStep ==
    ASSUME PageIInv, NEW c \in Calls, NEW row \in Rows, Begin(c, row) PROVE PageIInv'
<1>. USE DEF PageIInv
<1>. DEFINE begun == [call[c] EXCEPT !.step = "writing", !.of = showing, !.turn = turns,
                                     !.row = row, !.displayed = screen.plan]
<1>1. /\ call[c].step = "new" /\ screen.status = "ready"
      /\ call' = [call EXCEPT ![c] = begun]
      /\ UNCHANGED <<showing, opened, turns, screen, opening, writeEpoch, appliedEpoch, timers,
                     stored, plan>>
  BY DEF Begin
<1>2. call[c] \in Operations /\ screen.plan \in Nat /\ showing \in Places /\ turns \in Nat
  BY DEF PageTypeInv, Screens, Places
<1>3. begun \in Operations
  BY <1>2 DEF Operations, Waiting
<1>4. /\ \A q \in Calls \ {c} : call'[q] = call[q]
      /\ call'[c].step = "writing" /\ call'[c].epoch = call[c].epoch
      /\ call'[c].of = showing /\ call'[c].turn = turns
  BY <1>1, <1>2 DEF PageTypeInv, Operations
<1>5. PageTypeInv'
  BY <1>1, <1>3 DEF PageTypeInv
<1>6. opening.step = "done"
  BY <1>1 DEF OpeningInv
<1>7. Moves(c)
  BY <1>1, <1>4 DEF Moves
<1>. QED BY <1>1, <1>4, <1>5, <1>6, <1>7, MovesBeforeItsRead DEF Waiting

(* A write is answered, fails, or is not read after: only its step changes.   *)
LEMMA WaitingStep ==
    ASSUME PageIInv, NEW c \in Calls, NEW s \in Waiting \ {"new", "writing"},
           call[c].step \in Waiting \ {"new"},
           call' = [call EXCEPT ![c].step = s],
           UNCHANGED <<showing, opened, turns, screen, opening, writeEpoch, appliedEpoch, plan>>,
           timers' = timers,
           \/ UNCHANGED stored
           \/ stored' = [stored EXCEPT ![call[c].of] = @ \cup {c}]
    PROVE  PageIInv'
<1>. USE DEF PageIInv
<1>1. call[c] \in Operations
  BY DEF PageTypeInv
<1>2. [call[c] EXCEPT !.step = s] \in Operations
  BY <1>1 DEF Operations
<1>3. /\ \A q \in Calls \ {c} : call'[q] = call[q]
      /\ call'[c].step = s /\ call'[c].epoch = call[c].epoch
      /\ call'[c].of = call[c].of /\ call'[c].turn = call[c].turn
  BY <1>1 DEF PageTypeInv, Operations
<1>4. call' \in [Calls -> Operations]
  BY <1>2 DEF PageTypeInv
<1>5. stored' \in [Pages -> SUBSET Calls]
  BY ActiveIsHere DEF PageTypeInv
<1>6. PageTypeInv'
  BY <1>4, <1>5 DEF PageTypeInv
<1>7. Moves(c)
  BY <1>3 DEF Moves
<1>. QED BY <1>3, <1>6, <1>7, MovesBeforeItsRead

(* A call takes the next epoch: only its step, epoch and place change.        *)
LEMMA ReloadStep ==
    ASSUME PageIInv, NEW c \in Calls, Reload(c) PROVE PageIInv'
<1>. USE DEF PageIInv
<1>1. call[c] \in Operations /\ writeEpoch \in Nat
  BY DEF PageTypeInv
<1>2. call[c].step \in {"written", "superseded"}
  BY DEF Reload
<1>3. timers' = timers \/ (opening.step = "done" /\ timers' = 1 /\ Active(c))
  <2>1. Active(c) => opening.step = "done"
    BY <1>2, ActiveIsHere DEF OpeningInv
  <2>2. timers' = timers \/ (Active(c) /\ timers' = 1)
    BY Zenon DEF Reload
  <2>. QED BY <2>1, <2>2
<1>4. CASE IsReview(c) /\ ~Active(c)
  <2>1. timers' = timers
    BY <1>3, <1>4
  <2>. QED BY <1>2, <1>4, <2>1, WaitingStep DEF Reload, Waiting
<1>5. CASE ~(IsReview(c) /\ ~Active(c))
  <2>. DEFINE next == writeEpoch + 1
  <2>. DEFINE begun == [call[c] EXCEPT !.step = "reading", !.epoch = next]
  <2>0. next \in Nat
    BY <1>1
  <2>. HIDE DEF next
  <2>1. /\ call' = [call EXCEPT ![c] = begun] /\ writeEpoch' = next
        /\ UNCHANGED <<showing, opened, turns, screen, opening, appliedEpoch, stored, plan>>
    BY <1>5 DEF Reload, next
  <2>2. begun \in Operations
    BY <1>1, <2>0 DEF Operations, HasRead
  <2>3. /\ \A q \in Calls \ {c} : call'[q] = call[q]
        /\ call'[c].step = "reading" /\ call'[c].epoch = next
        /\ call'[c].of = call[c].of /\ call'[c].turn = call[c].turn
    BY <2>1, <1>1 DEF PageTypeInv, Operations
  <2>4. PageTypeInv'
    BY <2>0, <2>1, <2>2, <1>3 DEF PageTypeInv
  <2>5. Moves(c)
    BY <2>1, <2>3 DEF Moves
  <2>. QED BY <1>2, <1>3, <2>1, <2>3, <2>4, <2>5, TakesAnEpoch DEF Waiting, next
<1>. QED BY <1>4, <1>5

LEMMA DelayedReloadStep ==
    ASSUME PageIInv, NEW c \in Calls, DelayedReload(c) PROVE PageIInv'
<1>. USE DEF PageIInv
<1>. DEFINE next == writeEpoch + 1
<1>. DEFINE begun == [call[c] EXCEPT !.step = "reading", !.of = showing, !.turn = turns,
                                     !.epoch = next]
<1>0. next \in Nat
  BY DEF PageTypeInv
<1>. HIDE DEF next
<1>1. /\ call[c].step = "new" /\ timers > 0 /\ timers' = timers - 1
      /\ writeEpoch' = next /\ call' = [call EXCEPT ![c] = begun]
      /\ UNCHANGED <<showing, opened, turns, screen, opening, appliedEpoch, stored, plan>>
  BY DEF DelayedReload, next
<1>2. /\ call[c] \in Operations /\ writeEpoch \in Nat /\ showing \in Places /\ turns \in Nat
      /\ timers \in Nat
  BY DEF PageTypeInv, Places
<1>3. begun \in Operations
  BY <1>0, <1>2 DEF Operations, HasRead
<1>4. /\ \A q \in Calls \ {c} : call'[q] = call[q]
      /\ call'[c].step = "reading" /\ call'[c].epoch = next
      /\ call'[c].of = showing /\ call'[c].turn = turns
  BY <1>1, <1>2 DEF PageTypeInv, Operations
<1>5. PageTypeInv'
  BY <1>0, <1>1, <1>2, <1>3 DEF PageTypeInv
<1>6. opening.step = "done"
  BY <1>1, <1>2 DEF OpeningInv
<1>7. Moves(c)
  BY <1>1, <1>4 DEF Moves
<1>. QED BY <1>1, <1>4, <1>5, <1>6, <1>7, TakesAnEpoch DEF Waiting, next

-----------------------------------------------------------------------------
LEMMA NextKeepsPageIInv ==
    ASSUME Revisits = FALSE, PageIInv, PageNext PROVE PageIInv'
<1>1. CASE ServeOpening \/ Opened \/ OpeningFails
  BY <1>1, ScreenSteps
<1>2. ASSUME NEW e \in Pages, Open(e) \/ Replan(e) PROVE PageIInv'
  BY <1>2, OpenStep, ReplanStep
<1>3. ASSUME NEW c \in Calls, NEW row \in Rows, Begin(c, row) PROVE PageIInv'
  BY <1>3, BeginStep
<1>4. ASSUME NEW c \in Calls, ServeWrite(c) PROVE PageIInv'
  <2>1. CASE Superseded(c)
    BY <2>1, <1>4, WaitingStep DEF ServeWrite, Waiting
  <2>2. CASE ~Superseded(c)
    BY <2>2, <1>4, WaitingStep DEF ServeWrite, Waiting
  <2>. QED BY <2>1, <2>2
<1>5. ASSUME NEW c \in Calls, WriteFails(c) PROVE PageIInv'
  BY <1>5, WaitingStep DEF WriteFails, Waiting
<1>6. ASSUME NEW c \in Calls, Reload(c) \/ DelayedReload(c) PROVE PageIInv'
  BY <1>6, ReloadStep, DelayedReloadStep
<1>7. ASSUME NEW c \in Calls, ServeReload(c) \/ Reloaded(c) \/ ReloadFails(c) PROVE PageIInv'
  BY <1>7, ServeReloadStep, ReloadedStep, ReloadFailsStep
<1>. QED BY <1>1, <1>2, <1>3, <1>4, <1>5, <1>6, <1>7 DEF PageNext

LEMMA StutterKeepsPageIInv ==
    ASSUME PageIInv, UNCHANGED pageVars PROVE PageIInv'
BY DEF pageVars, PageIInv, PageTypeInv, TurnInv, OpeningInv, EpochInv, StoredInv, PageReadInv, ScreenInv,
       QuietInv, Saved, Here, Shown, FailedAfter

(* What an operation that ended without a word wrote is on the screen, or a   *)
(* later re-read has failed and said so, however the re-reads of the page     *)
(* overtake each other (checklist-view.tsx reload), as long as no event's     *)
(* page is opened a second time while calls of its first are running.         *)
THEOREM SavedIsShown ==
    ASSUME Revisits = FALSE PROVE PageSpec => []WhatWasSavedIsShown
<1>1. PageIInv => WhatWasSavedIsShown
  <2>. SUFFICES ASSUME PageIInv, NEW c \in Calls, call[c].step = "quiet", Here(c),
                       c \in stored[showing]
                PROVE  Shown(c) \/ FailedAfter(call[c].epoch)
    BY DEF WhatWasSavedIsShown, Shown, Here
  <2>1. call[c].epoch > 0 /\ call[c].epoch <= appliedEpoch
    BY DEF PageIInv, EpochInv, QuietInv, HasRead
  <2>. QED BY <2>1 DEF PageIInv, ScreenInv, Saved
<1>2. PageIInv /\ [PageNext]_pageVars => PageIInv'
  BY NextKeepsPageIInv, StutterKeepsPageIInv
<1>. QED BY <1>1, <1>2, PageInitHolds, PTL DEF PageSpec
=============================================================================
