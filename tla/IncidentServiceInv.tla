------------------------- MODULE IncidentServiceInv -------------------------
(***************************************************************************)
(* The inductive invariant of IncidentService: what every handler may      *)
(* still rely on at each of its awaits.  TLC checks it, and                *)
(* IncidentProofs proves it for every value of the constants.              *)
(***************************************************************************)
EXTENDS IncidentService

\* The write lock is held exactly by the request inside a transaction, and
\* the working copy is the committed state when nobody holds it.
LockInv ==
    /\ \A r \in Requests : req[r].pc \in InTransaction <=> writer = r
    /\ writer = NoRequest => txIncidents = incidents /\ txTickets = tickets

\* Stored rows are absent or owned, versioned and in a workflow state.
StoredRow(row) ==
    row = NoRow \/ (row.version >= 1 /\ row.owner \in Owners /\ row.status # "absent")

RowsInv == \A i \in Incidents : StoredRow(incidents[i])

\* Two creations under way never draw the same identifier.
UniqueInv ==
    \A r, s \in Requests :
        req[r].op = "create" /\ req[s].op = "create" /\ req[r].id = req[s].id => r = s

\* Which handler can be at which step.
StepOK(q) ==
    /\ q.pc = "idle" <=> q.op = "none"
    /\ q.pc # "idle" => q.id \in Incidents /\ q.owner \in Owners
    /\ q.pc = "read" => q.op = "read"
    /\ q.pc = "get" => q.op = "revise"
    /\ q.pc \in {"plan", "save"} => q.op \in {"create", "revise"}
    /\ q.pc \in {"begin", "select", "ticket", "update"} => q.op = "decide"
    /\ q.pc = "commit" => q.op \in {"create", "revise", "decide"}
    /\ q.op = "create" => q.expected = 0
    /\ q.op = "revise" => q.expected >= 1 /\ q.facts \in Facts

\* A preparation under way has drafted the next version of a row that is
\* still open at the version it has read, or has lost to another writer.
PrepareOK(q) ==
    LET stored == incidents[q.id] IN
    q.op \in {"create", "revise"} /\ q.pc \in {"plan", "save", "commit"} =>
        /\ q.facts \in Facts
        /\ q.pc = "plan" => q.facts \in CompleteFacts /\ q.row.plan = NoPlan
        /\ q.row = Record(q.owner, q.expected + 1, q.row.status, q.facts, q.row.plan)
        /\ Workflow!Outcome(q.facts, q.row.status, q.row.plan)
        /\ q.op = "create" => stored = NoRow
        /\ q.op = "revise" => /\ stored.owner = q.owner
                              /\ stored.version >= q.expected
                              /\ stored.version = q.expected => stored.status \notin Final
        /\ q.pc = "commit" => /\ stored.version = q.expected
                              /\ txIncidents = [incidents EXCEPT ![q.id] = q.row]
                              /\ txTickets = tickets

\* A decision under way is about the row that is committed.
DecideOK(q) ==
    LET stored == incidents[q.id] IN
    /\ q.pc = "select" => txIncidents = incidents /\ txTickets = tickets
    /\ q.op = "decide" /\ q.pc \in {"ticket", "update", "commit"} =>
         /\ Owned(incidents, q.id, q.owner)
         /\ Decidable(q, stored)
         /\ q.row = Decided(stored, q.approve)
         /\ q.pc = "ticket" => q.approve
         /\ txIncidents = IF q.pc = "commit"
                          THEN [incidents EXCEPT ![q.id] = q.row]
                          ELSE incidents
         /\ txTickets = IF q.approve /\ q.pc # "ticket"
                        THEN [tickets EXCEPT ![q.id] = q.row]
                        ELSE tickets

\* An answer of 200 carries a committed row of the caller.
AnswerOK(q) ==
    LET stored == incidents[q.id] IN
    q.pc \in {"close", "done"} /\ q.code = 200 =>
        /\ q.row.version \in 1 .. stored.version
        /\ q.row.version = stored.version => q.row = stored
        /\ q.row.owner = q.owner
        /\ stored.owner = q.owner

RequestOK(q) == StepOK(q) /\ PrepareOK(q) /\ DecideOK(q) /\ AnswerOK(q)

RequestsInv == \A r \in Requests : RequestOK(req[r])

IInv ==
    /\ TypeOK
    /\ LockInv
    /\ RowsInv
    /\ UniqueInv
    /\ RequestsInv
    /\ TicketIffCompleted
    /\ FailsClosed

=============================================================================
