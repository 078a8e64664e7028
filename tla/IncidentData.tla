---------------------------- MODULE IncidentData ----------------------------
(***************************************************************************)
(* The persisted shape of an incident (app/core/incidents/schemas.py) and  *)
(* the vocabulary the abstract workflow and the detailed service share.    *)
(* A set of facts, a drafted plan, an owner and an incident id are opaque  *)
(* values; an absent row is a row of version 0, so that versions of absent *)
(* and present rows compare.                                               *)
(***************************************************************************)
EXTENDS Naturals

CONSTANTS
    Incidents,      \* the uuid4 identifiers incidents may draw
    Owners,         \* authenticated principals
    Facts,          \* what an operator may type into the form
    CompleteFacts,  \* facts with equipment, symptom and location filled in
    Plans,          \* proposals a planner may return
    Grounded,       \* proposals that pass the source and quote check
    NoIncident, NoOwner, NoFacts, NoPlan

ASSUME ConstantsAssumption ==
    /\ CompleteFacts \subseteq Facts
    /\ Grounded \subseteq Plans
    /\ NoIncident \notin Incidents
    /\ NoOwner \notin Owners
    /\ NoFacts \notin Facts
    /\ NoPlan \notin Plans

Final == {"completed", "rejected"}

Status == {"absent", "needs_info", "blocked", "awaiting_approval"} \cup Final

\* One row of the incidents table: the owner and version columns and the
\* part of the payload the properties tell apart.  The ticket number, the
\* questions, the evidence and the event log follow from these and the id.
Row == [owner   : Owners \cup {NoOwner},
        version : Nat,
        status  : Status,
        facts   : Facts \cup {NoFacts},
        plan    : Plans \cup {NoPlan}]

NoRow == [owner |-> NoOwner, version |-> 0, status |-> "absent",
          facts |-> NoFacts, plan |-> NoPlan]

Record(owner, version, status, facts, plan) ==
    [owner |-> owner, version |-> version, status |-> status,
     facts |-> facts, plan |-> plan]

\* A record as prepare leaves it before any planner has run.
Blank(owner, version, facts) == Record(owner, version, "needs_info", facts, NoPlan)

Verdict(approve) == IF approve THEN "completed" ELSE "rejected"

\* A decided record: the plan that was awaiting approval, one version later.
Decided(row, approve) ==
    Record(row.owner, row.version + 1, Verdict(approve), row.facts, row.plan)

=============================================================================
