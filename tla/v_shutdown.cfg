SPECIFICATION Spec
CONSTANTS
    Handlers = {h1, h2}
INVARIANTS
    PoolOutlivesHandlers
CHECK_DEADLOCK FALSE
