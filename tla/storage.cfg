SPECIFICATION FairSpec
CONSTANTS
    Calls = {t1, t2, t3}
    Slots = {s1}
    Clients = {c1, c2}
    Admin = admin
    BookingIds = {b1, b2}
    None = None
INVARIANTS
    TypeOK
    SlotMatchesBookings
    IndexNeverFires
    NoDeadlock
PROPERTIES
    RefusalIsTruthful
    ImplementsLedger
    CallsTerminate
