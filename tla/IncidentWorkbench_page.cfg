\* One tab whose token changes hands, two requests in flight, revisions.
CONSTANTS
    Incidents = {i1}
    Owners = {alice, bob}
    Facts = {full, partial}
    CompleteFacts = {full}
    Plans = {p1}
    Grounded = {p1}
    NoIncident = NoIncident
    NoOwner = NoOwner
    NoFacts = NoFacts
    NoPlan = NoPlan
    Requests = {r1, r2}
    NoRequest = NoRequest
    Planners = {"investigating"}
    MaxVersion = 2
    Clients = {c1}
SPECIFICATION WorkbenchSpec
SYMMETRY Symmetry
INVARIANTS
    DecidedAsReviewed
    ScreensAreSnapshots
    RefusedIsNotDecided
