SPECIFICATION Spec
CONSTANTS
    r1 = r1
    r2 = r2
    r3 = r3
    g1 = g1
    g2 = g2
    p = p
    Requests = {r1, r2, r3}
    Intents <- LinkCalls
    Guests = {g1}
    Phones = {p}
    NoPhone = NoPhone
    Capacities = {NoLimit}
    NoLimit = NoLimit
    NoRow = NoRow
    WalkIn = WalkIn
    GuestLists <- NoGuests
    MaxDay = 1
SYMMETRY RequestSymmetry
PROPERTIES
    LinkIsNotLost
CHECK_DEADLOCK FALSE
