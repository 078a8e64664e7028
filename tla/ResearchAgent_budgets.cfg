\* Three searches, and model calls for two: the model budget runs out between
\* any two calls of a longer investigation.
CONSTANTS
    long = long
    short = short
    other = other
    blank = blank
    q1 = q1
    q1Again = q1Again
    q2 = q2
    q3 = q3
    qBlank = qBlank
    Sources <- MCSources
    Size <- MCSize
    Queries <- MCQueries
    Normal <- MCNormal
    BlankQuery = ""
    MaxQuestions = 2
    Coverages <- MCCoverages
    Conflicts <- MCConflicts
    Proposals <- MCProposals
    Reports <- MCReports
    NoProposal = NoProposal
    MaxHits = 2
    Searches = 3
    ModelCalls = 5
    EvidenceCount = 2
    ContextChars = 5
    ChunkChars = 3
SPECIFICATION Spec
\* An investigation ends.
CHECK_DEADLOCK FALSE
INVARIANTS
    BudgetsHold
    ReadyIsEarned
    NothingUnchecked
    FreshQueries
PROPERTIES
    ExcerptsFixed
    Terminates
