---------------------------- MODULE EventLedger ----------------------------
(***************************************************************************)
(* What the events and plan routes promise, with no request, lock or clock *)
(* in sight.  Every event has a history of answers, one entry per          *)
(* revision, and a list of plans in the order in which they supersede each *)
(* other.  An event is opened once, revised one answer set at a time, and  *)
(* its plans are only ever added to: each pins a revision that exists, the *)
(* answers of exactly that revision, and a ruleset that may supersede the  *)
(* one before it.                                                          *)
(***************************************************************************)
EXTENDS RulesetVersion, Sequences

CONSTANTS
    Keys,     \* one event per create key
    Answers   \* what an intake can say

VARIABLES
    history,  \* the answers of each revision of an event
    issued    \* the plans of an event, in order

Pin == [revision : Nat \ {0}, answers : Answers, version : Versions]

Open(k) ==
    /\ history[k] = <<>>
    /\ \E a \in Answers : history' = [history EXCEPT ![k] = <<a>>]
    /\ UNCHANGED issued

Revise(k) ==
    /\ history[k] # <<>>
    /\ \E a \in Answers :
          /\ a # history[k][Len(history[k])]
          /\ history' = [history EXCEPT ![k] = Append(@, a)]
    /\ UNCHANGED issued

Issue(k) ==
    /\ \E n \in DOMAIN history[k], v \in Versions :
          /\ issued[k] # <<>> =>
                MaySupersede(v, issued[k][Len(issued[k])].version)
          /\ issued' = [issued EXCEPT ![k] =
                Append(@, [revision |-> n, answers |-> history[k][n],
                           version |-> v])]
    /\ UNCHANGED history

Init ==
    /\ history = [k \in Keys |-> <<>>]
    /\ issued = [k \in Keys |-> <<>>]

Next == \E k \in Keys : Open(k) \/ Revise(k) \/ Issue(k)

Spec == Init /\ [][Next]_<<history, issued>>
=============================================================================
