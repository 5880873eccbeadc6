CONSTANTS
    Null = Null
    Unknown = Unknown
    Garbage = Garbage
    Artifacts <- MCArtifacts
    Calendars <- MCCalendars
    Forms <- MCForms
    RawAnswers <- MCRawAnswers
    FirstDay = 14
    LastDay = 17
SPECIFICATION Spec
INVARIANTS
    StoredAnswersAreAskedAlike
    AcceptedWindowsCanBeDated
    ThePlanPageReadsEveryPlan
PROPERTIES
    DaysOnlyWorsenTheVerdict
    AnnouncedVerdictsComeTrue
CHECK_DEADLOCK FALSE
