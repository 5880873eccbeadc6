--------------------------- MODULE RulesetVersion ---------------------------
(***************************************************************************)
(* How two ruleset versions stand relative to one another                  *)
(* (packages/engine/src/ruleset-version.ts).  A version is a label; Parsed *)
(* is what the label's one declared shape, nyc.vMAJOR.MINOR, makes of it.  *)
(* Two different labels may parse alike (v2.1 and v2.01), and a label may  *)
(* not parse at all.                                                       *)
(***************************************************************************)
EXTENDS Naturals

CONSTANTS
    Versions,       \* the version labels of the published rulesets
    Jurisdictions,
    Unparsable,     \* what a label of another shape parses to
    Parsed          \* parseRulesetVersion, as a function of the label

ASSUME VersionsAssumption ==
    /\ Unparsable \notin [jurisdiction : Jurisdictions, major : Nat, minor : Nat]
    /\ Parsed \in [Versions -> [jurisdiction : Jurisdictions, major : Nat,
                                minor : Nat] \cup {Unparsable}]

Comparable(live, pinned) ==
    /\ Parsed[live] # Unparsable
    /\ Parsed[pinned] # Unparsable
    /\ Parsed[live].jurisdiction = Parsed[pinned].jurisdiction

(* One version is later than another by its numbers, never by its text.    *)
Later(live, pinned) ==
    \/ Parsed[live].major > Parsed[pinned].major
    \/ /\ Parsed[live].major = Parsed[pinned].major
       /\ Parsed[live].minor > Parsed[pinned].minor

compareToPinned(live, pinned) ==
    CASE ~Comparable(live, pinned)                          -> "different"
      [] Comparable(live, pinned) /\ live = pinned          -> "same"
      [] Comparable(live, pinned) /\ Later(live, pinned)    -> "newer"
      [] Comparable(live, pinned) /\ Later(pinned, live)    -> "older"
      [] OTHER                                              -> "different"

(* A plan of the live ruleset may supersede one that pinned the other.     *)
MaySupersede(live, pinned) == compareToPinned(live, pinned) \in {"same", "newer"}
=============================================================================
