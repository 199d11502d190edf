SPECIFICATION FairSpec
CONSTANTS
    c1 = c1
    c2 = c2
    u1 = u1
    a1 = a1
    svc = svc
    s1 = s1
    s2 = s2
    Chats = {c1, c2}
    Users = {u1, a1}
    Members <- PrivateChats
    Admins = {a1}
    Handlers = {h1, h2}
    Taps = 1
    Services = {svc}
    Slots = {s1}
    ServiceOf <- OneService
    Start <- Starts
    End <- Ends
    DayLength = 4
    Horizon = 1
    MaxNow = 0
    BookingIds = {b1}
    Admin = admin
    None = None
INVARIANTS
    LoserStaysInDialog
PROPERTIES
    HandlersFinish
