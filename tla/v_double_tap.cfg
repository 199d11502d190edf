SPECIFICATION Spec
CONSTANTS
    c1 = c1
    c2 = c2
    u1 = u1
    a1 = a1
    svc = svc
    s1 = s1
    s2 = s2
    Chats = {c1}
    Users = {u1, a1}
    Members <- GroupChat
    Admins = {a1}
    Handlers = {h1, h2}
    Taps = 2
    Services = {svc}
    Slots = {s1}
    ServiceOf <- OneService
    Start <- Starts
    End <- Ends
    DayLength = 2
    Horizon = 2
    MaxNow = 2
    BookingIds = {b1, b2}
    Admin = admin
    None = None
INVARIANTS
    LoserStaysInDialog
