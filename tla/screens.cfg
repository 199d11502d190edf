SPECIFICATION FairSpec
CONSTANTS
    c1 = c1
    c2 = c2
    u1 = u1
    a1 = a1
    Bookings = {1, 2, 3, 4, 5}
    Start <- Starts
    End <- Ends
    Client <- Owners
    Line <- LineTexts
    Chats = {c1, c2}
    Users = {u1, a1}
    Members <- GroupAndPrivate
    Admins = {a1}
    Services = {1, 2}
    Header <- HeaderText
    Label <- LabelText
    DayLength = 4
    Horizon = 2
    PageSize = 2
    Limit = 6
    Forged <- HandMade
    MaxNow = 2
INVARIANTS
    TypeOK
    MessagesFit
    NothingDropped
    TextAgreesWithButtons
    ButtonsWork
    NoEmptyList
    WalkCoversEveryStart
PROPERTIES
    ListsEnd
