\* Two concurrent requests on one incident, each with either planner.
CONSTANTS
    Incidents = {i1}
    Owners = {alice, bob}
    Facts = {full, partial}
    CompleteFacts = {full}
    Plans = {cited, uncited}
    Grounded = {cited}
    NoIncident = NoIncident
    NoOwner = NoOwner
    NoFacts = NoFacts
    NoPlan = NoPlan
    Requests = {r1, r2}
    NoRequest = NoRequest
    Planners = {"investigating", "proposing"}
    MaxVersion = 2
SPECIFICATION Spec
INVARIANTS
    TicketIffCompleted
    FailsClosed
    AcknowledgedIsDurable
PROPERTIES
    ImplementsWorkflow
    Answered
