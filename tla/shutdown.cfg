SPECIFICATION FairSpec
CONSTANTS
    Handlers = {h1, h2, h3}
INVARIANTS
    TypeOK
    StartedWorkIsFinished
PROPERTIES
    SignalEndsProcess
CHECK_DEADLOCK FALSE
