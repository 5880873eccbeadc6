SPECIFICATION Spec
CONSTANTS
    r1 = r1
    r2 = r2
    r3 = r3
    r4 = r4
    k1 = k1
    k2 = k2
    text1 = text1
    text1b = text1b
    text2 = text2
    a1 = a1
    a2 = a2
    v2_1 = v2_1
    v2_01 = v2_01
    v2_2 = v2_2
    draft = draft
    Requests = {r1, r2, r3}
    Intents <- AllCalls
    Keys = {k1, k2}
    Bodies = {text1, text1b, text2}
    Answers = {a1, a2}
    IntakeOf <- MCIntakeOf
    LastDay <- MCLastDay
    Versions = {v2_1, v2_01, v2_2, draft}
    Jurisdictions = {"nyc"}
    Unparsable = Unparsable
    Parsed <- MCParsed
    MaxDay = 2
    MaxClock = 1
SYMMETRY RequestSymmetry
INVARIANTS
    RejectedStaysOut
    CreateHappensOnce
    FreshPlanAnswersTheEvent
    PlansAreInOrder
    OneFirstPlan
PROPERTIES
    ImplementsLedger
CHECK_DEADLOCK FALSE
