SPECIFICATION FairSpec
CONSTANTS
    r1 = r1
    r2 = r2
    r3 = r3
    g1 = g1
    g2 = g2
    p = p
    Requests = {r1, r2}
    Intents <- AllCalls
    Guests = {g1, g2}
    Phones = {p}
    NoPhone = NoPhone
    Capacities = {1}
    NoLimit = NoLimit
    NoRow = NoRow
    WalkIn = WalkIn
    GuestLists <- TwoLists
    MaxDay = 2
INVARIANTS
    LinksAreGuests
PROPERTIES
    
    SeatsOnlyWhileOpen
    ReportedCountsAreTrue
    ImplementsGuestList
    EveryCallIsAnswered
CHECK_DEADLOCK FALSE
