----------------------------- MODULE PlanItems -----------------------------
(***************************************************************************)
(* What a stored plan says of one requirement, and how a reader picks the  *)
(* window it shows (apps/api/src/planning/plan.ts, checklist.ts,           *)
(* moved-deadline-notice.ts).                                              *)
(*                                                                         *)
(* A plan item is the row of permit_plan_items with the rendering its plan *)
(* keeps for it.  Days are naturals; None is SQL's null.  A rule is named  *)
(* by its place in the alphabet, so rules is the sorted rule_ids column.   *)
(* Text is a token: two items differ in wording or they do not.            *)
(***************************************************************************)
EXTENDS Naturals, Sequences, FiniteSets, SequencesExt

CONSTANT None

Trackable == {"permit", "insurance"}
FilingDispositions == {"required", "may_be_required"}

(* The identity of a requirement across plans.                             *)
Requirement(item) == <<item.kind, item.rules>>

(* The columns a row and a route of a merged row have in common.           *)
WindowColumns == {"deadline", "applyBy", "openOn", "status", "slack", "fee"}

StoredRoutes(item) ==
    IF item.routes # <<>> THEN item.routes
    ELSE << [c \in WindowColumns \cup {"disposition"} |-> item[c]] @@
            [rule |-> item.rules[1], trigger |-> "true"] >>

(* The route a merged line without a window of its own is filed by.        *)
FilingRoutes(item) ==
    IF item.deadline # None \/ item.applyBy # None
       \/ Len(StoredRoutes(item)) < 2
    THEN <<>>
    ELSE SelectSeq(StoredRoutes(item),
            LAMBDA r : /\ r.disposition \in FilingDispositions
                       /\ r.deadline # None \/ r.applyBy # None)

HasFilingRoute(item) == FilingRoutes(item) # <<>>
FilingRoute(item) == Head(FilingRoutes(item))

(* What the checklist prints of the line: the route's values, its nulls    *)
(* included, or the row's own.                                             *)
Window(item) ==
    LET source == IF HasFilingRoute(item) THEN FilingRoute(item) ELSE item
    IN  [c \in WindowColumns |-> source[c]]

(* permit_plans.items in the order of FILING_ORDER_DATE, nulls last.       *)
FilingDate(item) ==
    IF item.applyBy # None THEN item.applyBy
    ELSE IF HasFilingRoute(item) THEN FilingRoute(item).applyBy ELSE None

FiledBefore(i, j) ==
    LET a == FilingDate(i)
        b == FilingDate(j)
    IN  \/ a # None /\ b = None
        \/ a # None /\ b # None /\ a < b
        \/ a = b /\ i.rules[1] < j.rules[1]

InFilingOrder(items) ==
    [k \in 1 .. Cardinality(items) |->
        CHOOSE item \in items : Cardinality({i \in items : FiledBefore(i, item)}) = k - 1]

-----------------------------------------------------------------------------
(* The notice that a deadline moved between two plans.                     *)

CoarseStatus(s) == IF s \in {"not_calculable", "not_applicable"} THEN s ELSE "dated"

RendersGate(item) ==
    \/ Window(item).openOn # None
    \/ \E i \in DOMAIN item.routes : item.routes[i].openOn # None

StateSide(item) ==
    [status |-> CoarseStatus(Window(item).status),
     deadline |-> Window(item).deadline,
     unknown |-> item.unknown,
     gated |-> RendersGate(item)]

(* Mutant: the row's own date, where a route's is shown.                   *)
DateChangeOfRow(old, new) ==
    IF old.applyBy = new.applyBy THEN "none"
    ELSE IF new.applyBy = None THEN "became_not_calculable" ELSE "both"

DateChange(old, new) ==
    LET was == Window(old).applyBy
        is  == Window(new).applyBy
    IN  CASE was = is -> "none"
          [] was # is /\ was # None /\ is # None -> "both"
          [] was # is /\ is # None /\ was = None -> "now_computed"
          [] was # is /\ is = None /\ Window(new).status = "not_applicable"
                -> "became_not_applicable"
          [] OTHER -> "became_not_calculable"

(* What the row says of the move, "none" on both sides being no notice.    *)
MovedDeadlineNotice(old, new) ==
    [date |-> DateChange(old, new),
     state |-> IF StateSide(old) # StateSide(new) THEN "moved" ELSE "none"]

NoNotice == [date |-> "none", state |-> "none"]
=============================================================================
