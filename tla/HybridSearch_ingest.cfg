\* Two ingestions, a search that runs all along, a restart.
CONSTANTS
    Docs = {d1, d2}
    MaxRestarts = 1
    Filters = {{}, {d1}}
    CandidateK = 2
    TopK = 1
    RrfK = 2
SPECIFICATION HybridSpec
INVARIANTS
    ReadyIsSearchable
    HitsAreWhole
    ReadyIsFound
    BothLegsFirst
PROPERTIES
    OnlyOverlapFailsSearch
    IngestionEnds
