SPECIFICATION Spec
CONSTANTS
    short = short
    long = long
    Blank = Blank
    Word = Word
    Day = 6
    WorkStart = 2
    WorkEnd = 5
    Services = {short, long}
    Duration <- Durations
    SeedDays = 2
    Horizon = 2
    Zones <- OneChange
    Envs <- AcceptedFrom8
    Attempts = 2
    MaxNow = 9
INVARIANTS
    SlotsInWorkHours
