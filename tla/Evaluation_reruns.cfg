\* Two evaluations of two traces by two metrics, one after the other or not.
CONSTANTS
    Evaluators = {e1, e2}
    Metrics = {relevancy, toxicity}
    TraceCount = 2
    FetchLimit = 2
    NumRetries = 2
SPECIFICATION Spec
SYMMETRY Symmetry
\* Every command has ended and the day is over.
CHECK_DEADLOCK FALSE
INVARIANTS
    ReportAddsUp
    ScoredOnce
    ExitMeansReport
