\* Two turns and the startup of a worker that may start once more.
CONSTANTS
    Turns = {t1, t2}
    Users = {u1, u2}
    Facts = {f1, f2}
    Startup = startup
    Ttl = 1
    MaxTime = 3
    MaxRestarts = 1
SPECIFICATION WorkerSpec
SYMMETRY Symmetry
\* The turns end and the clock stops.
CHECK_DEADLOCK FALSE
INVARIANTS
    OwnMemoriesOnly
    FirstMemorySeen
    OneKindOfGraph
PROPERTY RecallIsFresh
