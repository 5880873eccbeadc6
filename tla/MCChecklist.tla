---------------------------- MODULE MCChecklist ----------------------------
(* Small instances of Checklist for TLC.                                   *)
EXTENDS Checklist

CONSTANTS t1, t2, home, homeTyped, office

Item(rules, kind, disposition, applyBy, openOn) ==
    [rules |-> rules, kind |-> kind, disposition |-> disposition,
     deadline |-> IF applyBy = None THEN None ELSE "published",
     applyBy |-> applyBy, openOn |-> openOn,
     status |-> IF applyBy = None THEN "not_calculable" ELSE "on_track",
     slack |-> applyBy, fee |-> "fee", unknown |-> {}, routes |-> <<>>,
     mode |-> None, lead |-> None, research |-> FALSE, says |-> {}]

Route(rule, applyBy, openOn) ==
    [rule |-> rule, trigger |-> "true", disposition |-> "required",
     deadline |-> IF applyBy = None THEN None ELSE "published",
     applyBy |-> applyBy, openOn |-> openOn, status |-> "on_track",
     slack |-> applyBy, fee |-> "fee"]

Park == Item(<<1>>, "permit", "required", 0, None)
ParkLater == [Park EXCEPT !.applyBy = 1, !.slack = 1]
ParkNote == Item(<<1>>, "advisory", "required", None, None)
Sound == [Item(<<2>>, "permit", "may_be_required", 1, 0) EXCEPT !.research = TRUE]
SoundKnown == [Sound EXCEPT !.research = FALSE, !.disposition = "required"]
(* Two routes to one permit on a line with no window of its own.           *)
Merged == [Item(<<3, 4>>, "permit", "required", None, None) EXCEPT
             !.routes = <<Route(3, 1, None), Route(4, 0, None)>>,
             !.mode = "all", !.lead = 3]
MergedMoved == [Merged EXCEPT !.routes = <<Route(3, 0, None), Route(4, 0, None)>>]
(* The same line from before plans recorded whose window it has.           *)
Legacy == Item(<<3, 4>>, "permit", "required", 1, None)

Content(items) == [items |-> items, verdict |-> "feasible", minSlack |-> None]

MCContents ==
    {Content({Park, Sound}),
     Content({ParkLater, Merged}),
     [items |-> {ParkNote, SoundKnown, MergedMoved},
      verdict |-> "feasible_at_risk", minSlack |-> 0]}

MCHistories == {<<>>, <<Plan(Content({Legacy}), 1)>>}

MCBindings == {[gated |-> 2, upstream |-> 1, link |-> 5]}

MCCanonical(channel, address) == IF address = homeTyped THEN home ELSE address

MCUpdates ==
    {[email |-> "absent", sms |-> "absent"], [email |-> homeTyped, sms |-> "absent"],
     [email |-> "clear", sms |-> office]}

=============================================================================
