---------------------------- MODULE MCEventPlan ----------------------------
(* Small instances of EventPlan for TLC.                                   *)
EXTENDS EventPlan, TLC

CONSTANTS r1, r2, r3, r4, k1, k2, text1, text1b, text2, a1, a2,
          v2_1, v2_01, v2_2, draft

(* Two spellings of one intake, and a text that says something else.       *)
MCIntakeOf == (text1 :> a1) @@ (text1b :> a1) @@ (text2 :> a2)

(* The first intake is for day 1 and is in the past from day 2 on.         *)
MCLastDay == (a1 :> 1) @@ (a2 :> 2)
(* Labels that are ordered, that parse alike, and one that does not parse. *)
MCParsed ==
    LET nyc(major, minor) ==
            [jurisdiction |-> "nyc", major |-> major, minor |-> minor]
    IN  (v2_1 :> nyc(2, 1)) @@ (v2_01 :> nyc(2, 1)) @@ (v2_2 :> nyc(2, 2))
        @@ (draft :> Unparsable)

Call(kind, key, given, body, version) ==
    [kind |-> kind, key |-> key, given |-> given, body |-> body,
     version |-> version]

CreateCalls ==
    {Call("create", k, k, b, v2_1) : k \in {k1, k2}, b \in {text1, text1b}}
        \cup {Call("create", k1, k1, text2, v2_1),
              Call("edit", k1, k1, text1, v2_1)}

PlanCalls ==
    {Call("create", k1, k1, text1, v2_1), Call("edit", k1, k1, text1, v2_1),
     Call("first", k1, k1, text1, v2_1), Call("first", k1, k1, text1, v2_2),
     Call("first", k1, k2, text1, v2_2)}
        \cup {Call("generate", k1, k1, text1, v) :
                 v \in {v2_1, v2_01, v2_2, draft}}

AllCalls == CreateCalls \cup PlanCalls

RequestSymmetry == Permutations(Requests)
=============================================================================
