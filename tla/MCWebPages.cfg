SPECIFICATION MCSpec
CONSTANTS
    c1 = c1
    c2 = c2
    c3 = c3
    Texts = {"blank", "a", "b"}
    Blank = "blank"
    Perishable = {"b"}
    LateAnswers = FALSE
    Known = {1}
    MaxVisits = 2
    MaxKeys = 3
    MaxChanges = 2
    MaxFaults = 2
    Events = {"theirs", "ours"}
    Attempts = {1, 2}
    MaxRevision = 3
    MaxMoves = 2
    MaxLost = 1
    Pages = {"theirs", "ours"}
    Calls = {c1, c2, c3}
    Rows = {"row", "another", "button"}
    Button = "button"
    Revisits = FALSE
    MaxPlans = 2
    MaxTurns = 2
    MaxFailures = 1
SYMMETRY MCSymmetry
INVARIANTS
    
    ClearedPlanExists
    
PROPERTIES
    OpensOverWhatWasTyped
CHECK_DEADLOCK FALSE
