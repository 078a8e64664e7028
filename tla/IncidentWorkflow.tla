-------------------------- MODULE IncidentWorkflow --------------------------
(***************************************************************************)
(* What the incident workflow promises, with every operation atomic: an    *)
(* owner registers an incident, revises its facts while it is open, and    *)
(* decides at most once; only a decision to approve creates the ticket,    *)
(* and the ticket carries the very row it was created with.                *)
(***************************************************************************)
EXTENDS IncidentData

VARIABLES
    incidents,  \* the incidents table
    tickets     \* the mock_tickets table: the payload snapshot of each row

vars == <<incidents, tickets>>

TypeOK ==
    /\ incidents \in [Incidents -> Row]
    /\ tickets \in [Incidents -> Row]

Init ==
    /\ incidents = [i \in Incidents |-> NoRow]
    /\ tickets = [i \in Incidents |-> NoRow]

\* What a preparation of these facts may end in: a grounded plan awaits
\* approval, every other outcome carries no plan at all.
Outcome(facts, status, plan) ==
    \/ status = "needs_info" /\ plan = NoPlan
    \/ status = "blocked" /\ plan = NoPlan /\ facts \in CompleteFacts
    \/ status = "awaiting_approval" /\ plan \in Grounded /\ facts \in CompleteFacts

Prepare(i, owner, version) ==
    /\ \E facts \in Facts, status \in Status, plan \in Plans \cup {NoPlan} :
         /\ Outcome(facts, status, plan)
         /\ incidents' = [incidents EXCEPT
                             ![i] = Record(owner, version, status, facts, plan)]
    /\ UNCHANGED tickets

Register(i) ==
    /\ incidents[i] = NoRow
    /\ \E owner \in Owners : Prepare(i, owner, 1)

Revise(i) ==
    /\ incidents[i].status \notin Final \cup {"absent"}
    /\ Prepare(i, incidents[i].owner, incidents[i].version + 1)

Decide(i, approve) ==
    /\ incidents[i].status = "awaiting_approval"
    /\ incidents' = [incidents EXCEPT ![i] = Decided(@, approve)]
    /\ tickets' = IF approve
                  THEN [tickets EXCEPT ![i] = Decided(incidents[i], TRUE)]
                  ELSE tickets

Next ==
    \E i \in Incidents :
        \/ Register(i)
        \/ Revise(i)
        \/ \E approve \in BOOLEAN : Decide(i, approve)

Spec == Init /\ [][Next]_vars

=============================================================================
