\* Two turns of one session, cleared at any moment.
CONSTANTS
    Turns = {t1, t2}
    MaxRewrites = 1
    MaxClears = 1
SPECIFICATION Spec
\* Nothing happens once all turns are over and the clears are spent.
CHECK_DEADLOCK FALSE
INVARIANTS
    AnsweredIsKept
    ClearedStaysCleared
    AnswersAreGrounded
PROPERTIES
    TurnsEnd
