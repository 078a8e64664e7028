\* A command that is asked for no report.
CONSTANTS
    Evaluators = {e1}
    Metrics = {relevancy, toxicity}
    TraceCount = 2
    FetchLimit = 2
    NumRetries = 2
SPECIFICATION Spec
\* Every command has ended and the day is over.
CHECK_DEADLOCK FALSE
INVARIANT NoReportIsNoFailure
