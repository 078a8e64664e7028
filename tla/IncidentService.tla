--------------------------- MODULE IncidentService ---------------------------
(***************************************************************************)
(* The incident endpoints of app/core/incidents: routes.py dispatches to   *)
(* service.py (prepare) and store.py (get, save, decide).  Every await is  *)
(* a point where another request may run, so each action below is the code *)
(* between two awaits of one handler.                                      *)
(*                                                                         *)
(* Persistence is one SQLite file.  Readers see the committed tables; one  *)
(* connection at a time holds the write lock (the first UPDATE or INSERT   *)
(* of save takes it, BEGIN IMMEDIATE of decide takes it) and works on its  *)
(* own copy, which a commit publishes and a close or a crash discards.     *)
(***************************************************************************)
EXTENDS IncidentData

CONSTANTS
    Requests,       \* slots for requests in flight
    NoRequest,
    Planners,       \* the planners there are: "investigating" (live), "proposing" (demo)
    MaxVersion      \* bound: callers quote expected versions 1 .. MaxVersion

ASSUME ServiceAssumption ==
    /\ NoRequest \notin Requests
    /\ Planners \subseteq {"investigating", "proposing"}
    /\ MaxVersion \in Nat

VARIABLES
    incidents,      \* committed incidents table
    tickets,        \* committed mock_tickets table
    writer,         \* the request whose connection holds the write lock
    txIncidents,    \* the tables as the writer's open transaction sees them
    txTickets,
    req             \* the requests in flight

tables == <<incidents, tickets>>
transaction == <<writer, txIncidents, txTickets>>
serviceVars == <<incidents, tickets, writer, txIncidents, txTickets, req>>

ResearchStatus == {"ready", "clarify", "conflict", "abstain",
                   "budget_exhausted", "verification_failed", "failed"}

Step == {"idle",
         "read",                         \* GET
         "get", "plan", "save",          \* POST and PUT: prepare
         "begin", "select", "ticket", "update",  \* POST decision: decide
         "commit", "close",              \* leave the transaction
         "done"}                         \* the response is ready

InTransaction == {"select", "ticket", "update", "commit", "close"}

Request == [pc       : Step,
            op       : {"none", "read", "create", "revise", "decide"},
            owner    : Owners \cup {NoOwner},
            id       : Incidents \cup {NoIncident},
            expected : Nat,
            facts    : Facts \cup {NoFacts},
            approve  : BOOLEAN,
            row      : Row,               \* the handler's local record
            code     : {0, 200, 404, 409, 500}]

Received(pc, op, owner, id, expected, facts, approve, row) ==
    [pc |-> pc, op |-> op, owner |-> owner, id |-> id, expected |-> expected,
     facts |-> facts, approve |-> approve, row |-> row, code |-> 0]

\* The same request at another step, with another local record.
At(q, pc, code, row) ==
    [pc |-> pc, op |-> q.op, owner |-> q.owner, id |-> q.id, expected |-> q.expected,
     facts |-> q.facts, approve |-> q.approve, row |-> row, code |-> code]

Idle == Received("idle", "none", NoOwner, NoIncident, 0, NoFacts, FALSE, NoRow)

TypeOK ==
    /\ incidents \in [Incidents -> Row]
    /\ tickets \in [Incidents -> Row]
    /\ writer \in Requests \cup {NoRequest}
    /\ txIncidents \in [Incidents -> Row]
    /\ txTickets \in [Incidents -> Row]
    /\ req \in [Requests -> Request]

Init ==
    /\ incidents = [i \in Incidents |-> NoRow]
    /\ tickets = [i \in Incidents |-> NoRow]
    /\ writer = NoRequest
    /\ txIncidents = incidents
    /\ txTickets = tickets
    /\ req = [r \in Requests |-> Idle]

-----------------------------------------------------------------------------
(***************************************************************************)
(* Requests arrive.                                                        *)
(***************************************************************************)

\* prepare saves at once when a mandatory fact is missing, else it plans.
AfterFacts(facts) == IF facts \in CompleteFacts THEN "plan" ELSE "save"

\* uuid4 never repeats an identifier that is stored or being stored.
Fresh(i) ==
    /\ incidents[i] = NoRow
    /\ \A r \in Requests : req[r].op = "create" => req[r].id # i

Becomes(r, q) == req' = [req EXCEPT ![r] = q]

Move(r, pc, code, row) == Becomes(r, At(req[r], pc, code, row))

Arrive(r, request) ==
    /\ req[r].pc = "idle"
    /\ Becomes(r, request)
    /\ UNCHANGED <<tables, transaction>>

CreateArrives(r, owner, facts) ==
    \E i \in Incidents :
        /\ Fresh(i)
        /\ Arrive(r, Received(AfterFacts(facts), "create", owner, i, 0, facts,
                              FALSE, Blank(owner, 1, facts)))

ReadArrives(r, owner, i) ==
    Arrive(r, Received("read", "read", owner, i, 0, NoFacts, FALSE, NoRow))

ReviseArrives(r, owner, i, expected, facts) ==
    Arrive(r, Received("get", "revise", owner, i, expected, facts, FALSE, NoRow))

DecideArrives(r, owner, i, expected, approve) ==
    Arrive(r, Received("begin", "decide", owner, i, expected, NoFacts, approve, NoRow))

-----------------------------------------------------------------------------
(***************************************************************************)
(* Reads outside any transaction.                                          *)
(***************************************************************************)

Owned(table, i, owner) == table[i] # NoRow /\ table[i].owner = owner

Answer(r, code, row) == Move(r, "done", code, row)

Read(r) ==
    LET q == req[r] IN
    /\ q.pc = "read"
    /\ IF Owned(incidents, q.id, q.owner)
       THEN Answer(r, 200, incidents[q.id])
       ELSE Answer(r, 404, NoRow)
    /\ UNCHANGED <<tables, transaction>>

\* Mutant: the version alone guards a revision.
RevisableWhenDecided(row, expected) == row.version = expected

\* May prepare revise the record it has just read?
Revisable(row, expected) == row.version = expected /\ row.status \notin Final

\* prepare of an existing incident, up to its planner or its save.
ReadForRevision(r) ==
    LET q == req[r]
        stored == incidents[q.id]
    IN
    /\ q.pc = "get"
    /\ CASE ~Owned(incidents, q.id, q.owner) -> Answer(r, 404, NoRow)
         [] Owned(incidents, q.id, q.owner) /\ ~Revisable(stored, q.expected) ->
               Answer(r, 409, NoRow)
         [] OTHER ->
               Move(r, AfterFacts(q.facts), 0,
                    Blank(stored.owner, stored.version + 1, q.facts))
    /\ UNCHANGED <<tables, transaction>>

-----------------------------------------------------------------------------
(***************************************************************************)
(* Planning, outside the transaction and bounded by asyncio.timeout(90).   *)
(***************************************************************************)

Draft(r, status, plan) ==
    LET row == req[r].row IN
    /\ req[r].pc = "plan"
    /\ Move(r, "save", 0, Record(row.owner, row.version, status, row.facts, plan))
    /\ UNCHANGED <<tables, transaction>>

\* Mutant: the planner's own word is taken.
VerifiedByPlanner(status, plan) == status

\* The service trusts no planner: a "ready" result is checked again.
Verified(status, plan) ==
    IF status = "ready" /\ plan \notin Grounded THEN "verification_failed" ELSE status

Investigate(r) ==
    /\ "investigating" \in Planners
    /\ \E reported \in ResearchStatus, plan \in Plans \cup {NoPlan} :
         LET status == Verified(reported, plan) IN
         Draft(r, CASE status = "ready"   -> "awaiting_approval"
                    [] status = "clarify" -> "needs_info"
                    [] OTHER              -> "blocked",
                  IF status = "ready" THEN plan ELSE NoPlan)

RetrieveAndPropose(r) ==
    /\ "proposing" \in Planners
    /\ \/ Draft(r, "blocked", NoPlan)   \* nothing retrieved
       \/ \E plan \in Plans :
            IF plan \in Grounded
            THEN Draft(r, "awaiting_approval", plan)
            ELSE Draft(r, "blocked", NoPlan)

PlanningFails(r) == Draft(r, "blocked", req[r].row.plan)

-----------------------------------------------------------------------------
(***************************************************************************)
(* The write lock.                                                         *)
(***************************************************************************)

\* Give the lock back; the working copy is the committed state again.
Release ==
    /\ writer' = NoRequest
    /\ txIncidents' = incidents'
    /\ txTickets' = tickets'

\* Leave a transaction without committing; the open connection still holds
\* the lock until Close.
Abandon(r, code, row) ==
    /\ Move(r, "close", code, row)
    /\ UNCHANGED <<tables, transaction>>

Close(r) ==
    /\ req[r].pc = "close"
    /\ Answer(r, req[r].code, req[r].row)
    /\ UNCHANGED tables
    /\ Release

\* Mutant: a save waits for the lock without a timeout.
LockTimeoutOfDecisions(r) ==
    /\ req[r].pc = "begin"
    /\ writer # NoRequest
    /\ Answer(r, 500, NoRow)
    /\ UNCHANGED <<tables, transaction>>

\* SQLite's busy timeout: the write lock stayed taken for 5 seconds.
LockTimeout(r) ==
    /\ req[r].pc \in {"save", "begin"}
    /\ writer # NoRequest
    /\ Answer(r, 500, NoRow)
    /\ UNCHANGED <<tables, transaction>>

\* A statement of an open transaction raises.
StatementFails(r) ==
    /\ req[r].pc \in InTransaction \ {"close"}
    /\ Abandon(r, 500, NoRow)

Commit(r) ==
    /\ req[r].pc = "commit"
    /\ incidents' = txIncidents
    /\ tickets' = txTickets
    /\ Answer(r, 200, req[r].row)
    /\ Release

-----------------------------------------------------------------------------
(***************************************************************************)
(* save: INSERT, or compare-and-swap on the version.                       *)
(***************************************************************************)

\* Mutant: the UPDATE without "AND version = ?".
SaveMatchesAnyVersion(q) == q.op = "create" \/ Owned(incidents, q.id, q.owner)

SaveMatches(q) ==
    \/ q.op = "create"
    \/ Owned(incidents, q.id, q.owner) /\ incidents[q.id].version = q.expected

SaveRow(r) ==
    LET q == req[r] IN
    /\ q.pc = "save"
    /\ writer = NoRequest
    /\ writer' = r
    /\ IF SaveMatches(q)
       THEN /\ txIncidents' = [txIncidents EXCEPT ![q.id] = q.row]
            /\ Move(r, "commit", 0, q.row)
       ELSE /\ Move(r, "close", 409, NoRow)
            /\ UNCHANGED txIncidents
    /\ UNCHANGED <<tables, txTickets>>

-----------------------------------------------------------------------------
(***************************************************************************)
(* decide.                                                                 *)
(***************************************************************************)

BeginImmediate(r) ==
    /\ req[r].pc = "begin"
    /\ writer = NoRequest
    /\ writer' = r
    /\ Move(r, "select", 0, NoRow)
    /\ UNCHANGED <<tables, txIncidents, txTickets>>

\* Mutant: the repeated decision is looked for one version too early.
AlreadyDecidedBefore(q, row) == row.status = Verdict(q.approve) /\ row.version = q.expected

\* The same decision again, on the record it produced.
AlreadyDecided(q, row) == row.status = Verdict(q.approve) /\ row.version = q.expected + 1

\* Mutant: the version is not compared.
DecidableAtAnyVersion(q, row) == row.status = "awaiting_approval"

Decidable(q, row) == row.version = q.expected /\ row.status = "awaiting_approval"

SelectForDecision(r) ==
    LET q == req[r]
        row == txIncidents[q.id]
    IN
    /\ q.pc = "select"
    /\ CASE ~Owned(txIncidents, q.id, q.owner) -> Abandon(r, 404, NoRow)
         [] Owned(txIncidents, q.id, q.owner) /\ AlreadyDecided(q, row) ->
               Abandon(r, 200, row)
         [] /\ Owned(txIncidents, q.id, q.owner)
            /\ ~AlreadyDecided(q, row)
            /\ ~Decidable(q, row) -> Abandon(r, 409, NoRow)
         [] OTHER ->
               /\ Move(r, IF q.approve THEN "ticket" ELSE "update", 0,
                       Decided(row, q.approve))
               /\ UNCHANGED <<tables, transaction>>

\* Mutant: the connection is in autocommit mode.
InsertTicketAutocommits(r) ==
    LET q == req[r] IN
    /\ q.pc = "ticket"
    /\ IF txTickets[q.id] = NoRow
       THEN /\ txTickets' = [txTickets EXCEPT ![q.id] = q.row]
            /\ tickets' = txTickets'
            /\ Move(r, "update", 0, q.row)
            /\ UNCHANGED <<incidents, writer, txIncidents>>
       ELSE Abandon(r, 500, NoRow)

\* mock_tickets has incident_id as its primary key.
InsertTicket(r) ==
    LET q == req[r] IN
    /\ q.pc = "ticket"
    /\ IF txTickets[q.id] = NoRow
       THEN /\ txTickets' = [txTickets EXCEPT ![q.id] = q.row]
            /\ Move(r, "update", 0, q.row)
            /\ UNCHANGED <<tables, writer, txIncidents>>
       ELSE Abandon(r, 500, NoRow)

UpdateDecided(r) ==
    /\ req[r].pc = "update"
    /\ txIncidents' = [txIncidents EXCEPT ![req[r].id] = req[r].row]
    /\ Move(r, "commit", 0, req[r].row)
    /\ UNCHANGED <<tables, writer, txTickets>>

-----------------------------------------------------------------------------
\* The response leaves the server, or is dropped with its connection.
Return(r) ==
    /\ req[r].pc = "done"
    /\ Becomes(r, Idle)
    /\ UNCHANGED <<tables, transaction>>

\* The process dies: open transactions roll back when the file is reopened.
Crash ==
    /\ req' = [r \in Requests |-> Idle]
    /\ UNCHANGED tables
    /\ Release

Handle(r) ==
    \/ Read(r)
    \/ ReadForRevision(r)
    \/ Investigate(r)
    \/ RetrieveAndPropose(r)
    \/ PlanningFails(r)
    \/ SaveRow(r)
    \/ BeginImmediate(r)
    \/ LockTimeout(r)
    \/ SelectForDecision(r)
    \/ InsertTicket(r)
    \/ UpdateDecided(r)
    \/ StatementFails(r)
    \/ Commit(r)
    \/ Close(r)

\* Any API client: it may quote any version and any incident.
Call(r) ==
    \E owner \in Owners :
        \/ \E facts \in Facts : CreateArrives(r, owner, facts)
        \/ \E i \in Incidents :
             \/ ReadArrives(r, owner, i)
             \/ \E expected \in 1 .. MaxVersion :
                  \/ \E facts \in Facts : ReviseArrives(r, owner, i, expected, facts)
                  \/ \E approve \in BOOLEAN : DecideArrives(r, owner, i, expected, approve)

Next ==
    \/ \E r \in Requests : Call(r) \/ Handle(r) \/ Return(r)
    \/ Crash

\* The event loop runs every ready handler; the planner returns or is cut off
\* after 90 seconds, and a lock wait ends in the lock or in LockTimeout.
Fairness == \A r \in Requests : WF_serviceVars(Handle(r))

Spec == Init /\ [][Next]_serviceVars /\ Fairness

-----------------------------------------------------------------------------
(***************************************************************************)
(* Properties.                                                             *)
(***************************************************************************)

\* A ticket exists exactly for a completed incident and holds the committed
\* snapshot, whatever crash or failing statement cut the decision short
\* (store.py decide: insert, update and commit are three awaits).
TicketIffCompleted ==
    \A i \in Incidents :
        tickets[i] = IF incidents[i].status = "completed" THEN incidents[i] ELSE NoRow

\* The ticket insert never meets its primary key: the lock and the status
\* check leave only one decision per incident (store.py:74-87).
NoTicketCollision ==
    \A r \in Requests : req[r].pc = "ticket" => txTickets[req[r].id] = NoRow

\* Workflow states fail closed: only a plan that passed the citation check,
\* for complete facts, is ever up for approval or decided, and an incident in
\* any other state carries no plan, however planning ended (service.py:62-118).
FailsClosed ==
    \A i \in Incidents :
        LET row == incidents[i] IN
        IF row.status \in Final \cup {"awaiting_approval"}
        THEN row.plan \in Grounded /\ row.facts \in CompleteFacts
        ELSE row.plan = NoPlan

\* A record sent with a 200 was committed: the stored row is that record or a
\* later version of it, never an earlier or a different one.
AcknowledgedIsDurable ==
    \A r \in Requests :
        LET q == req[r] IN
        q.pc = "done" /\ q.code = 200 =>
            /\ q.row.version <= incidents[q.id].version
            /\ q.row.version = incidents[q.id].version => q.row = incidents[q.id]

\* No answer and no write crosses owners: a 200 carries a row of the caller,
\* and a row never changes hands.
OwnedAnswers ==
    \A r \in Requests :
        req[r].pc = "done" /\ req[r].code = 200 =>
            /\ req[r].row.owner = req[r].owner
            /\ incidents[req[r].id].owner = req[r].owner

\* Every committed change of a row is one operation of the abstract workflow.
Workflow == INSTANCE IncidentWorkflow WITH incidents <- incidents, tickets <- tickets
ImplementsWorkflow == Workflow!Spec

\* A request the server has taken is answered, or dies with the process.
Answered ==
    \A r \in Requests : (req[r].pc # "idle") ~> (req[r].pc \in {"idle", "done"})

=============================================================================
