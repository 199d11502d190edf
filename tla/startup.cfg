SPECIFICATION FairSpec
CONSTANTS
    short = short
    long = long
    Blank = Blank
    Word = Word
    Day = 6
    WorkStart = 0
    WorkEnd = 5
    Services = {short, long}
    Duration <- Durations
    SeedDays = 2
    Horizon = 2
    Zones <- RegularZones
    Envs <- SomeEnvs
    Attempts = 2
    MaxNow = 9
INVARIANTS
    TypeOK
    SeededOnce
    AdminsFollowConfig
    EachAdminOnce
    ButtonsAgreeWithLists
    EverySlotHasAButton
PROPERTIES
    StartupEnds
