SPECIFICATION MCSpec
CONSTANTS
    t1 = t1
    t2 = t2
    home = home
    homeTyped = homeTyped
    office = office
    Tabs = {t1}
    Contents <- MCContents
    Histories <- MCHistories
    Updates <- MCUpdates
    Canonical <- MCCanonical
    Statuses = {"not_started", "submitted"}
    RemindBefore = {0}
    Bindings <- MCBindings
    None = None
    MaxPlans = 3
    MaxAlerted = 2
    MaxRevision = 2
    MaxDay = 1
    MaxWorked = 1
    r1 = r1
    r2 = r2
    r3 = r3
    item = item
    gone = gone
    uploadKey = uploadKey
    pdf = pdf
    pdf2 = pdf2
    fake = fake
    Requests = {r1, r2, r3}
    Intents <- MCIntents
    Items = {item}
    NoKey = NoKey
    Genuine = {pdf, pdf2}
    Operands <- MCOperands
    LateInserts = FALSE
    MaxFaults = 2
INVARIANTS
    ReviewedPlanIsCovered
    WaitingAlertsAreOfTheReview
    MovedDateIsTold
    
    RowsHaveObjects
    AnswersAreTrue
PROPERTIES
    StruckIsTerminal
    ReviewIsOfTheShownPlan
CHECK_DEADLOCK FALSE
