---------------------------- MODULE IncidentProofs ----------------------------
(***************************************************************************)
(* Proofs about IncidentService, and about the operator page on top of it, *)
(* for any number of requests, tabs, incidents, owners, facts and plans.   *)
(***************************************************************************)
EXTENDS IncidentServiceInv, IncidentWorkbench, TLAPS

LEMMA RecordType ==
    ASSUME NEW owner \in Owners, NEW version \in Nat, NEW facts \in Facts,
           NEW status \in Status, NEW plan \in Plans \cup {NoPlan}
    PROVE  Record(owner, version, status, facts, plan) \in Row
  BY DEF Record, Row

LEMMA DecidedRow ==
    ASSUME NEW row \in Row, NEW approve \in BOOLEAN
    PROVE  /\ Verdict(approve) \in Final
           /\ Decided(row, approve) \in Row
           /\ Decided(row, approve).version = row.version + 1
           /\ Decided(row, approve).status = Verdict(approve)
           /\ Decided(row, approve).owner = row.owner
           /\ Decided(row, approve).facts = row.facts
           /\ Decided(row, approve).plan = row.plan
<1>1. Verdict(approve) \in Final /\ Verdict(approve) \in Status
  BY DEF Verdict, Status, Final
<1>. QED
  BY <1>1 DEF Decided, Row, Record

LEMMA NoRowType == NoRow \in Row
  BY DEF NoRow, Row, Status

LEMMA IdleOK == Idle \in Request /\ RequestOK(Idle) /\ RequestOK(Idle)'
  BY NoRowType DEF Idle, Received, Request, Step, RequestOK, StepOK, PrepareOK, DecideOK, AnswerOK

LEMMA InitIInv == Init => IInv
<1> SUFFICES ASSUME Init PROVE IInv
  OBVIOUS
<1>1. TypeOK
  BY NoRowType, IdleOK DEF Init, TypeOK
<1>2. LockInv
  BY ServiceAssumption DEF Init, LockInv, Idle, Received, InTransaction
<1>3. RowsInv /\ UniqueInv /\ TicketIffCompleted /\ FailsClosed
  BY DEF Init, RowsInv, StoredRow, UniqueInv, Idle, Received, TicketIffCompleted, FailsClosed,
         NoRow, Final
<1>4. RequestsInv
  BY IdleOK DEF Init, RequestsInv
<1>. QED
  BY <1>1, <1>2, <1>3, <1>4 DEF IInv

\* A step of one handler that touches no table and no lock keeps the
\* invariant when it leaves its own request in good order.
LEMMA LocalStep ==
    ASSUME IInv, UNCHANGED <<tables, transaction>>,
           NEW r \in Requests, NEW q \in Request,
           Becomes(r, q),
           q.pc \in InTransaction <=> req[r].pc \in InTransaction,
           q.op = "create" =>
              \A s \in Requests \ {r} : req[s].op = "create" => req[s].id # q.id,
           RequestOK(q)
    PROVE  IInv'
<1>1. UNCHANGED <<incidents, tickets, writer, txIncidents, txTickets>>
  BY DEF tables, transaction
<1>2. /\ req \in [Requests -> Request]
      /\ req' \in [Requests -> Request]
      /\ req'[r] = q
      /\ \A s \in Requests \ {r} : req'[s] = req[s]
  BY DEF IInv, TypeOK, Becomes
<1>3. TypeOK'
  BY <1>1, <1>2 DEF IInv, TypeOK
<1>4. LockInv'
  BY <1>1, <1>2 DEF IInv, LockInv
<1>5. UniqueInv'
  BY <1>1, <1>2 DEF IInv, UniqueInv
<1>6. RowsInv' /\ TicketIffCompleted' /\ FailsClosed'
  BY <1>1 DEF IInv, RowsInv, StoredRow, TicketIffCompleted, FailsClosed
<1>7. ASSUME NEW p \in Request, RequestOK(p) PROVE RequestOK(p)'
  BY <1>1, <1>7 DEF RequestOK, StepOK, PrepareOK, DecideOK, AnswerOK, Owned, Decidable
<1>8. RequestsInv'
  <2> SUFFICES ASSUME NEW s \in Requests PROVE RequestOK(req[s])'
    BY DEF RequestsInv
  <2>1. RequestOK(req[s]) \/ s = r
    BY DEF IInv, RequestsInv
  <2>. QED
    BY <1>2, <1>7, <2>1
<1>. QED
  BY <1>3, <1>4, <1>5, <1>6, <1>8 DEF IInv

-----------------------------------------------------------------------------
(***************************************************************************)
(* Arrivals.                                                               *)
(***************************************************************************)

LEMMA CreateArrivesInv ==
    ASSUME IInv, NEW r \in Requests, NEW owner \in Owners, NEW facts \in Facts,
           CreateArrives(r, owner, facts)
    PROVE  IInv'
<1>1. PICK i \in Incidents :
        /\ Fresh(i)
        /\ Arrive(r, Received(AfterFacts(facts), "create", owner, i, 0, facts,
                              FALSE, Blank(owner, 1, facts)))
  BY DEF CreateArrives
<1>. DEFINE q == Received(AfterFacts(facts), "create", owner, i, 0, facts,
                          FALSE, Blank(owner, 1, facts))
<1>2. Blank(owner, 1, facts) \in Row
  BY RecordType DEF Blank, Status
<1>3. (AfterFacts(facts) = "plan" /\ facts \in CompleteFacts) \/ AfterFacts(facts) = "save"
  BY DEF AfterFacts
<1>4. /\ q \in Request
      /\ q.pc = AfterFacts(facts) /\ q.op = "create" /\ q.owner = owner /\ q.id = i
      /\ q.facts = facts /\ q.row = Blank(owner, 1, facts) /\ q.expected = 0
  BY <1>2, <1>3 DEF Request, Step, Received
<1>5. RequestOK(q)
  <2>. HIDE DEF q
  <2>1. StepOK(q)
    BY <1>3, <1>4 DEF StepOK
  <2>2. q.row = Record(owner, 1, "needs_info", facts, NoPlan)
    BY <1>4 DEF Blank
  <2>3. q.row.status = "needs_info" /\ q.row.plan = NoPlan
    BY <2>2 DEF Record
  <2>4. q.row = Record(q.owner, q.expected + 1, q.row.status, q.facts, q.row.plan)
    BY <1>4, <2>2, <2>3
  <2>5. Workflow!Outcome(q.facts, q.row.status, q.row.plan)
    BY <2>3 DEF Workflow!Outcome
  <2>6. PrepareOK(q)
    BY <1>1, <1>3, <1>4, <2>3, <2>4, <2>5 DEF PrepareOK, Fresh
  <2>. QED
    BY <1>3, <1>4, <2>1, <2>6 DEF RequestOK, DecideOK, AnswerOK
<1>6. /\ req[r].pc = "idle"
      /\ UNCHANGED <<tables, transaction>>
      /\ Becomes(r, q)
  BY <1>1 DEF Arrive
<1>7. q.pc \in InTransaction <=> req[r].pc \in InTransaction
  BY <1>3, <1>4, <1>6 DEF InTransaction
<1>8. \A s \in Requests \ {r} : req[s].op = "create" => req[s].id # q.id
  BY <1>1, <1>4 DEF Fresh
<1>. QED
  BY <1>4, <1>5, <1>6, <1>7, <1>8, LocalStep

LEMMA ReadArrivesInv ==
    ASSUME IInv, NEW r \in Requests, NEW owner \in Owners, NEW i \in Incidents,
           ReadArrives(r, owner, i)
    PROVE  IInv'
<1>. DEFINE q == Received("read", "read", owner, i, 0, NoFacts, FALSE, NoRow)
<1>1. /\ req[r].pc = "idle"
      /\ UNCHANGED <<tables, transaction>>
      /\ Becomes(r, q)
  BY DEF ReadArrives, Arrive
<1>2. q \in Request /\ q.pc = "read" /\ q.op = "read" /\ q.owner = owner /\ q.id = i
  BY NoRowType DEF Request, Step, Received
<1>3. RequestOK(q)
  BY <1>2 DEF RequestOK, StepOK, PrepareOK, DecideOK, AnswerOK
<1>4. (q.pc \in InTransaction <=> req[r].pc \in InTransaction) /\ q.op # "create"
  BY <1>1, <1>2 DEF InTransaction
<1>. QED
  BY <1>1, <1>2, <1>3, <1>4, LocalStep

LEMMA ReviseArrivesInv ==
    ASSUME IInv, NEW r \in Requests, NEW owner \in Owners, NEW i \in Incidents,
           NEW expected \in Nat \ {0}, NEW facts \in Facts,
           ReviseArrives(r, owner, i, expected, facts)
    PROVE  IInv'
<1>. DEFINE q == Received("get", "revise", owner, i, expected, facts, FALSE, NoRow)
<1>1. /\ req[r].pc = "idle"
      /\ UNCHANGED <<tables, transaction>>
      /\ Becomes(r, q)
  BY DEF ReviseArrives, Arrive
<1>2. /\ q \in Request /\ q.pc = "get" /\ q.op = "revise" /\ q.owner = owner /\ q.id = i
      /\ q.expected = expected /\ q.facts = facts
  BY NoRowType DEF Request, Step, Received
<1>3. RequestOK(q)
  <2>. HIDE DEF q
  <2>1. expected >= 1
    OBVIOUS
  <2>. QED
    BY <1>2, <2>1 DEF RequestOK, StepOK, PrepareOK, DecideOK, AnswerOK
<1>4. (q.pc \in InTransaction <=> req[r].pc \in InTransaction) /\ q.op # "create"
  BY <1>1, <1>2 DEF InTransaction
<1>. QED
  BY <1>1, <1>2, <1>3, <1>4, LocalStep

LEMMA DecideArrivesInv ==
    ASSUME IInv, NEW r \in Requests, NEW owner \in Owners, NEW i \in Incidents,
           NEW expected \in Nat, NEW approve \in BOOLEAN,
           DecideArrives(r, owner, i, expected, approve)
    PROVE  IInv'
<1>. DEFINE q == Received("begin", "decide", owner, i, expected, NoFacts, approve, NoRow)
<1>1. /\ req[r].pc = "idle"
      /\ UNCHANGED <<tables, transaction>>
      /\ Becomes(r, q)
  BY DEF DecideArrives, Arrive
<1>2. q \in Request /\ q.pc = "begin" /\ q.op = "decide" /\ q.owner = owner /\ q.id = i
  BY NoRowType DEF Request, Step, Received
<1>3. RequestOK(q)
  BY <1>2 DEF RequestOK, StepOK, PrepareOK, DecideOK, AnswerOK
<1>4. (q.pc \in InTransaction <=> req[r].pc \in InTransaction) /\ q.op # "create"
  BY <1>1, <1>2 DEF InTransaction
<1>. QED
  BY <1>1, <1>2, <1>3, <1>4, LocalStep

-----------------------------------------------------------------------------
(***************************************************************************)
(* Steps of one handler that leave the tables and the lock alone.          *)
(***************************************************************************)

LEMMA AtType ==
    ASSUME NEW q \in Request, NEW pc \in Step, NEW code \in {0, 200, 404, 409, 500},
           NEW row \in Row
    PROVE  /\ At(q, pc, code, row) \in Request
           /\ At(q, pc, code, row).pc = pc
           /\ At(q, pc, code, row).op = q.op
           /\ At(q, pc, code, row).owner = q.owner
           /\ At(q, pc, code, row).id = q.id
           /\ At(q, pc, code, row).expected = q.expected
           /\ At(q, pc, code, row).facts = q.facts
           /\ At(q, pc, code, row).approve = q.approve
           /\ At(q, pc, code, row).row = row
           /\ At(q, pc, code, row).code = code
  BY DEF At, Request

\* AtType with the record named once.
LEMMA NextStep ==
    ASSUME NEW q \in Request, NEW pc \in Step, NEW code \in {0, 200, 404, 409, 500},
           NEW row \in Row
    PROVE  \E p \in Request :
              /\ p = At(q, pc, code, row)
              /\ p.pc = pc /\ p.op = q.op /\ p.id = q.id /\ p.owner = q.owner
              /\ p.expected = q.expected /\ p.facts = q.facts /\ p.approve = q.approve
              /\ p.row = row /\ p.code = code
<1>. DEFINE p == At(q, pc, code, row)
<1>1. p \in Request
  BY AtType
<1>2. /\ p.pc = pc /\ p.op = q.op /\ p.id = q.id /\ p.owner = q.owner
      /\ p.expected = q.expected /\ p.facts = q.facts /\ p.approve = q.approve
      /\ p.row = row /\ p.code = code
  BY DEF At
<1>3. p = At(q, pc, code, row)
  OBVIOUS
<1>. HIDE DEF p
<1>. QED
  BY <1>1, <1>2, <1>3

\* LocalStep for a handler's own move.
LEMMA MoveInv ==
    ASSUME IInv, UNCHANGED <<tables, transaction>>, NEW r \in Requests,
           NEW pc \in Step, NEW code \in {0, 200, 404, 409, 500}, NEW row \in Row,
           Move(r, pc, code, row),
           pc \in InTransaction <=> req[r].pc \in InTransaction,
           RequestOK(At(req[r], pc, code, row))
    PROVE  IInv'
<1>1. req[r] \in Request
  BY DEF IInv, TypeOK
<1>2. PICK q \in Request : q = At(req[r], pc, code, row)
  <2>. DEFINE old == req[r]
  <2>1. old \in Request
    BY <1>1
  <2>. HIDE DEF old
  <2>2. At(old, pc, code, row) \in Request
    BY <2>1, AtType
  <2>. QED
    BY <2>2 DEF old
<1>3. q.pc = pc /\ q.op = req[r].op /\ q.id = req[r].id
  BY <1>2 DEF At
<1>4. Becomes(r, q) /\ RequestOK(q)
  BY <1>2 DEF Move
<1>5. \A s \in Requests \ {r} :
         req[r].op = "create" /\ req[s].op = "create" => req[s].id # req[r].id
  BY DEF IInv, UniqueInv
<1>6. q.op = "create" => \A s \in Requests \ {r} : req[s].op = "create" => req[s].id # q.id
  BY <1>3, <1>5
<1>7. q.pc \in InTransaction <=> req[r].pc \in InTransaction
  BY <1>3
<1>. QED
  BY <1>4, <1>6, <1>7, LocalStep

\* An answer outside a transaction, and the way out of a transaction.
LEMMA AnswerInv ==
    ASSUME IInv, UNCHANGED <<tables, transaction>>, NEW r \in Requests,
           NEW pc \in {"done", "close"}, NEW code \in {200, 404, 409, 500}, NEW row \in Row,
           Move(r, pc, code, row),
           req[r].pc \notin {"idle", "done", "close"},
           pc = "close" <=> req[r].pc \in InTransaction,
           code = 200 => /\ row = incidents[req[r].id]
                         /\ Owned(incidents, req[r].id, req[r].owner)
    PROVE  IInv'
<1>. DEFINE q == At(req[r], pc, code, row)
<1>1. req[r] \in Request /\ RequestOK(req[r]) /\ incidents \in [Incidents -> Row]
  BY DEF IInv, TypeOK, RequestsInv
<1>2. /\ q.pc = pc /\ q.op = req[r].op /\ q.owner = req[r].owner /\ q.id = req[r].id
      /\ q.expected = req[r].expected /\ q.facts = req[r].facts
      /\ q.approve = req[r].approve /\ q.row = row /\ q.code = code
      /\ q \in Request
  <2>1. pc \in Step /\ code \in {0, 200, 404, 409, 500}
    BY DEF Step
  <2>. DEFINE old == req[r]
  <2>2. At(old, pc, code, row) \in Request
    <3>1. old \in Request
      BY <1>1
    <3>. HIDE DEF old
    <3>. QED
      BY <2>1, <3>1, AtType
  <2>. QED
    BY <2>2 DEF At
<1>3. Becomes(r, q)
  BY DEF Move
<1>. HIDE DEF q
<1>4. q.id \in Incidents /\ q.owner \in Owners
  BY <1>1, <1>2 DEF RequestOK, StepOK
<1>5. RequestOK(q)
  <2>1. StepOK(q) /\ PrepareOK(q) /\ DecideOK(q)
    BY <1>1, <1>2 DEF RequestOK, StepOK, PrepareOK, DecideOK
  <2>2. AnswerOK(q)
    <3>1. CASE code = 200
      <4>1. StoredRow(incidents[q.id]) /\ incidents[q.id] # NoRow
        BY <1>2, <1>4, <3>1 DEF IInv, RowsInv, Owned
      <4>2. incidents[q.id].version \in Nat /\ incidents[q.id].version >= 1
        BY <1>1, <1>4, <4>1 DEF StoredRow, Row
      <4>. QED
        BY <1>2, <3>1, <4>2 DEF AnswerOK, Owned
    <3>2. CASE code # 200
      BY <1>2, <3>2 DEF AnswerOK
    <3>. QED
      BY <3>1, <3>2
  <2>. QED
    BY <2>1, <2>2 DEF RequestOK
<1>6. q.pc \in InTransaction <=> req[r].pc \in InTransaction
  BY <1>2 DEF InTransaction
<1>7. q.op = "create" => \A s \in Requests \ {r} : req[s].op = "create" => req[s].id # q.id
  <2>1. \A s \in Requests \ {r} :
           req[r].op = "create" /\ req[s].op = "create" => req[s].id # req[r].id
    BY DEF IInv, UniqueInv
  <2>. QED
    BY <1>2, <2>1
<1>. QED
  BY <1>2, <1>3, <1>5, <1>6, <1>7, LocalStep

LEMMA ReadInv == ASSUME IInv, NEW r \in Requests, Read(r) PROVE IInv'
<1>1. /\ req[r].pc = "read" /\ req[r].id \in Incidents
      /\ UNCHANGED <<tables, transaction>>
      /\ incidents[req[r].id] \in Row
  BY DEF Read, IInv, RequestsInv, RequestOK, StepOK, TypeOK
<1>2. req[r].pc \notin InTransaction
  BY <1>1 DEF InTransaction
<1>3. CASE Owned(incidents, req[r].id, req[r].owner)
  <2>1. Answer(r, 200, incidents[req[r].id])
    BY <1>3 DEF Read
  <2>. QED
    BY <1>1, <1>2, <1>3, <2>1, AnswerInv DEF Answer
<1>4. CASE ~Owned(incidents, req[r].id, req[r].owner)
  <2>1. Answer(r, 404, NoRow)
    BY <1>4 DEF Read
  <2>. QED
    BY <1>1, <1>2, <2>1, NoRowType, AnswerInv DEF Answer
<1>. QED
  BY <1>3, <1>4

LEMMA LockTimeoutInv == ASSUME IInv, NEW r \in Requests, LockTimeout(r) PROVE IInv'
<1>1. req[r].pc \notin InTransaction \cup {"idle", "done", "close"}
  BY DEF LockTimeout, InTransaction
<1>. QED
  BY <1>1, NoRowType, AnswerInv DEF LockTimeout, Answer

LEMMA StatementFailsInv == ASSUME IInv, NEW r \in Requests, StatementFails(r) PROVE IInv'
<1>1. req[r].pc \in InTransaction /\ req[r].pc \notin {"idle", "done", "close"}
  BY DEF StatementFails, InTransaction
<1>. QED
  BY <1>1, NoRowType, AnswerInv DEF StatementFails, Abandon

LEMMA ReturnInv == ASSUME IInv, NEW r \in Requests, Return(r) PROVE IInv'
<1>1. req[r].pc \notin InTransaction /\ Idle.pc \notin InTransaction /\ Idle.op # "create"
  BY DEF Return, InTransaction, Idle, Received
<1>. QED
  BY <1>1, IdleOK, LocalStep DEF Return

LEMMA ReadForRevisionInv ==
    ASSUME IInv, NEW r \in Requests, ReadForRevision(r)
    PROVE  IInv'
<1>. DEFINE q == req[r]
            stored == incidents[q.id]
<1>1. /\ q.pc = "get" /\ q.op = "revise" /\ q.id \in Incidents /\ q.owner \in Owners
      /\ q.expected >= 1 /\ q.facts \in Facts
      /\ q \in Request /\ stored \in Row
      /\ UNCHANGED <<tables, transaction>>
  BY DEF ReadForRevision, IInv, RequestsInv, RequestOK, StepOK, TypeOK
<1>2. q.pc \notin InTransaction
  BY <1>1 DEF InTransaction
<1>3. CASE ~Owned(incidents, q.id, q.owner)
  <2>1. Answer(r, 404, NoRow)
    BY <1>3 DEF ReadForRevision
  <2>. QED
    BY <1>1, <1>2, <2>1, NoRowType, AnswerInv DEF Answer
<1>4. CASE Owned(incidents, q.id, q.owner) /\ ~Revisable(stored, q.expected)
  <2>1. Answer(r, 409, NoRow)
    BY <1>4 DEF ReadForRevision
  <2>. QED
    BY <1>1, <1>2, <2>1, NoRowType, AnswerInv DEF Answer
<1>5. CASE Owned(incidents, q.id, q.owner) /\ Revisable(stored, q.expected)
  <2>. DEFINE row == Blank(stored.owner, stored.version + 1, q.facts)
              pc == AfterFacts(q.facts)
              p == At(q, pc, 0, row)
  <2>1. Move(r, pc, 0, row)
    BY <1>5 DEF ReadForRevision
  <2>2. stored.owner = q.owner /\ stored.version = q.expected /\ stored.status \notin Final
    BY <1>5 DEF Owned, Revisable
  <2>3. q.expected + 1 \in Nat /\ q.expected \in Nat
    BY <1>1 DEF Request
  <2>4. row = Record(q.owner, q.expected + 1, "needs_info", q.facts, NoPlan)
    BY <2>2 DEF Blank
  <2>5. row.status = "needs_info" /\ row.plan = NoPlan /\ row \in Row
    <3>1. row.status = "needs_info" /\ row.plan = NoPlan
      BY <2>4 DEF Record
    <3>2. "needs_info" \in Status /\ NoPlan \in Plans \cup {NoPlan}
      BY DEF Status
    <3>3. Record(q.owner, q.expected + 1, "needs_info", q.facts, NoPlan) \in Row
      BY <1>1, <2>3, <3>2, RecordType
    <3>. QED
      BY <2>4, <3>1, <3>3
  <2>6. (pc = "plan" /\ q.facts \in CompleteFacts) \/ pc = "save"
    BY DEF AfterFacts
  <2>7. pc \in Step /\ pc \notin InTransaction
    BY <2>6 DEF Step, InTransaction
  <2>8. /\ p.pc = pc /\ p.op = q.op /\ p.owner = q.owner /\ p.id = q.id
        /\ p.expected = q.expected /\ p.facts = q.facts /\ p.row = row
    <3>1. q \in Request /\ pc \in Step /\ row \in Row
      BY <1>1, <2>5, <2>7
    <3>. HIDE DEF row, pc, q
    <3>. QED
      BY <3>1, AtType
  <2>. HIDE DEF p, q, row, pc
  <2>9. Workflow!Outcome(p.facts, p.row.status, p.row.plan)
    BY <2>5, <2>8 DEF Workflow!Outcome
  <2>10. StepOK(p)
    BY <1>1, <2>6, <2>8 DEF StepOK
  <2>11. PrepareOK(p)
    BY <1>1, <2>2, <2>3, <2>4, <2>5, <2>6, <2>8, <2>9 DEF PrepareOK
  <2>12. RequestOK(p)
    BY <2>6, <2>8, <2>10, <2>11, <1>1 DEF RequestOK, DecideOK, AnswerOK
  <2>. QED
    BY <1>1, <1>2, <2>1, <2>5, <2>7, <2>12, MoveInv DEF p, q, row, pc
<1>. QED
  BY <1>3, <1>4, <1>5

\* Whatever the planner ends in, the drafted row is an outcome the workflow
\* allows for the facts of the request.
LEMMA DraftInv ==
    ASSUME IInv, NEW r \in Requests, NEW status \in Status,
           NEW plan \in Plans \cup {NoPlan}, Draft(r, status, plan),
           req[r].facts \in CompleteFacts => Workflow!Outcome(req[r].facts, status, plan)
    PROVE  IInv'
<1>. DEFINE q == req[r]
            row == Record(q.row.owner, q.row.version, status, q.row.facts, plan)
            p == At(q, "save", 0, row)
<1>1. /\ q.pc = "plan" /\ q \in Request /\ RequestOK(q)
      /\ Move(r, "save", 0, row)
      /\ UNCHANGED <<tables, transaction>>
  BY DEF Draft, IInv, RequestsInv, TypeOK
<1>2. /\ q.op \in {"create", "revise"} /\ q.id \in Incidents /\ q.owner \in Owners
      /\ q.facts \in CompleteFacts /\ q.facts \in Facts
      /\ q.row = Record(q.owner, q.expected + 1, q.row.status, q.facts, q.row.plan)
      /\ q.expected + 1 \in Nat
  BY <1>1 DEF RequestOK, StepOK, PrepareOK, Request
<1>3. q.row.owner = q.owner /\ q.row.version = q.expected + 1 /\ q.row.facts = q.facts
  BY <1>2 DEF Record
<1>4. row = Record(q.owner, q.expected + 1, status, q.facts, plan)
  BY <1>3
<1>5. row.status = status /\ row.plan = plan /\ row \in Row
  BY <1>2, <1>4, RecordType DEF Record
<1>6. /\ p.pc = "save" /\ p.op = q.op /\ p.owner = q.owner /\ p.id = q.id
      /\ p.expected = q.expected /\ p.facts = q.facts /\ p.row = row
  <2>1. "save" \in Step
    BY DEF Step
  <2>. QED
    BY <1>1, <1>5, <2>1, AtType
<1>7. Workflow!Outcome(q.facts, status, plan)
  BY <1>2
<1>. HIDE DEF p, q, row
<1>8. StepOK(p)
  BY <1>1, <1>2, <1>6 DEF RequestOK, StepOK
<1>9. PrepareOK(p)
  BY <1>1, <1>2, <1>4, <1>5, <1>6, <1>7 DEF RequestOK, PrepareOK
<1>10. RequestOK(p)
  BY <1>2, <1>6, <1>8, <1>9 DEF RequestOK, DecideOK, AnswerOK
<1>11. "save" \in Step /\ "save" \notin InTransaction /\ q.pc \notin InTransaction
  BY <1>1 DEF Step, InTransaction
<1>. QED
  BY <1>1, <1>5, <1>10, <1>11, MoveInv DEF p, q, row

LEMMA InvestigateInv == ASSUME IInv, NEW r \in Requests, Investigate(r) PROVE IInv'
<1>1. PICK reported \in ResearchStatus, plan \in Plans \cup {NoPlan} :
        LET status == Verified(reported, plan) IN
        Draft(r, CASE status = "ready"   -> "awaiting_approval"
                   [] status = "clarify" -> "needs_info"
                   [] OTHER              -> "blocked",
                 IF status = "ready" THEN plan ELSE NoPlan)
  BY Zenon DEF Investigate
<1>. DEFINE status == Verified(reported, plan)
<1>2. status = "ready" => plan \in Grounded /\ plan \in Plans
  BY ConstantsAssumption DEF Verified
<1>. HIDE DEF status
<1>3. CASE status = "ready"
  <2>1. Draft(r, "awaiting_approval", plan)
    BY <1>1, <1>3 DEF status
  <2>. QED
    BY <1>2, <1>3, <2>1, DraftInv DEF Status, Workflow!Outcome
<1>4. CASE status = "clarify"
  <2>1. Draft(r, "needs_info", NoPlan)
    BY <1>1, <1>4 DEF status
  <2>. QED
    BY <2>1, DraftInv DEF Status, Workflow!Outcome
<1>5. CASE status \notin {"ready", "clarify"}
  <2>1. Draft(r, "blocked", NoPlan)
    BY <1>1, <1>5 DEF status
  <2>. QED
    BY <2>1, DraftInv DEF Status, Workflow!Outcome
<1>. QED
  BY <1>3, <1>4, <1>5

LEMMA RetrieveAndProposeInv ==
    ASSUME IInv, NEW r \in Requests, RetrieveAndPropose(r)
    PROVE  IInv'
<1>1. Draft(r, "blocked", NoPlan)
      \/ \E plan \in Plans : plan \in Grounded /\ Draft(r, "awaiting_approval", plan)
  BY DEF RetrieveAndPropose
<1>2. CASE Draft(r, "blocked", NoPlan)
  BY <1>2, DraftInv DEF Status, Workflow!Outcome
<1>3. ASSUME NEW plan \in Plans, plan \in Grounded, Draft(r, "awaiting_approval", plan)
      PROVE  IInv'
  BY <1>3, DraftInv DEF Status, Workflow!Outcome
<1>. QED
  BY <1>1, <1>2, <1>3

LEMMA PlanningFailsInv == ASSUME IInv, NEW r \in Requests, PlanningFails(r) PROVE IInv'
<1>1. req[r].pc = "plan" /\ RequestOK(req[r])
  BY DEF PlanningFails, Draft, IInv, RequestsInv
<1>2. req[r].row.plan = NoPlan
  BY <1>1 DEF RequestOK, StepOK, PrepareOK
<1>. QED
  BY <1>2, DraftInv DEF PlanningFails, Status, Workflow!Outcome

LEMMA SelectForDecisionInv ==
    ASSUME IInv, NEW r \in Requests, SelectForDecision(r)
    PROVE  IInv'
<1>. DEFINE q == req[r]
            row == txIncidents[q.id]
<1>1. /\ q.pc = "select" /\ q \in Request /\ RequestOK(q)
      /\ UNCHANGED <<tables, transaction>>
      /\ incidents \in [Incidents -> Row]
  BY DEF SelectForDecision, Abandon, IInv, RequestsInv, TypeOK
<1>2. /\ q.op = "decide" /\ q.id \in Incidents /\ q.owner \in Owners
      /\ q.approve \in BOOLEAN
      /\ txIncidents = incidents /\ txTickets = tickets
  BY <1>1 DEF RequestOK, StepOK, DecideOK, Request
<1>3. q.pc \in InTransaction /\ row \in Row /\ row = incidents[q.id]
  BY <1>1, <1>2 DEF InTransaction
<1>4. CASE ~Owned(txIncidents, q.id, q.owner)
  <2>1. Move(r, "close", 404, NoRow)
    BY <1>4 DEF SelectForDecision, Abandon
  <2>. QED
    BY <1>1, <1>3, <2>1, NoRowType, AnswerInv
<1>5. CASE Owned(txIncidents, q.id, q.owner) /\ AlreadyDecided(q, row)
  <2>1. Move(r, "close", 200, row)
    BY <1>5 DEF SelectForDecision, Abandon
  <2>. QED
    BY <1>1, <1>2, <1>3, <1>5, <2>1, AnswerInv
<1>6. CASE /\ Owned(txIncidents, q.id, q.owner)
           /\ ~AlreadyDecided(q, row)
           /\ ~Decidable(q, row)
  <2>1. Move(r, "close", 409, NoRow)
    BY <1>6 DEF SelectForDecision, Abandon
  <2>. QED
    BY <1>1, <1>3, <2>1, NoRowType, AnswerInv
<1>7. CASE /\ Owned(txIncidents, q.id, q.owner)
           /\ ~AlreadyDecided(q, row)
           /\ Decidable(q, row)
  <2>. DEFINE pc == IF q.approve THEN "ticket" ELSE "update"
              p == At(q, pc, 0, Decided(row, q.approve))
  <2>1. Move(r, pc, 0, Decided(row, q.approve))
    BY <1>7 DEF SelectForDecision
  <2>2. Decided(row, q.approve) \in Row
    BY <1>2, <1>3, DecidedRow
  <2>3. pc \in Step /\ pc \in InTransaction /\ pc \in {"ticket", "update"}
        /\ (pc = "ticket" <=> q.approve)
    BY <1>2 DEF Step, InTransaction
  <2>4. /\ p.pc = pc /\ p.op = q.op /\ p.owner = q.owner /\ p.id = q.id
        /\ p.expected = q.expected /\ p.approve = q.approve
        /\ p.row = Decided(row, q.approve) /\ p.code = 0
    BY <1>1, <2>2, <2>3, AtType
  <2>. HIDE DEF p, q, row, pc
  <2>5. StepOK(p)
    BY <1>2, <2>3, <2>4 DEF StepOK
  <2>6. DecideOK(p)
    BY <1>2, <1>3, <1>7, <2>3, <2>4 DEF DecideOK, Owned, Decidable
  <2>7. RequestOK(p)
    BY <1>2, <2>3, <2>4, <2>5, <2>6 DEF RequestOK, PrepareOK, AnswerOK
  <2>. QED
    BY <1>1, <1>3, <2>1, <2>2, <2>3, <2>7, MoveInv DEF p, q, row, pc
<1>. QED
  BY <1>4, <1>5, <1>6, <1>7

-----------------------------------------------------------------------------
(***************************************************************************)
(* Steps that take, use or give back the write lock.                       *)
(***************************************************************************)

\* A request that is not in a transaction does not notice what another one
\* does to its working copy.
LEMMA OutsideTransaction ==
    ASSUME NEW q \in Request, q.pc \notin InTransaction,
           incidents' = incidents, RequestOK(q)
    PROVE  RequestOK(q)'
<1>1. q.pc \notin {"select", "ticket", "update", "commit"}
  BY DEF InTransaction
<1>. QED
  BY <1>1 DEF RequestOK, StepOK, PrepareOK, DecideOK, AnswerOK

LEMMA LockStep ==
    ASSUME IInv, incidents' = incidents, tickets' = tickets,
           NEW r \in Requests, NEW q \in Request, Becomes(r, q),
           writer \in {NoRequest, r},
           writer' = IF q.pc \in InTransaction THEN r ELSE NoRequest,
           txIncidents' \in [Incidents -> Row], txTickets' \in [Incidents -> Row],
           writer' = NoRequest => txIncidents' = incidents /\ txTickets' = tickets,
           q.op = req[r].op, q.id = req[r].id,
           RequestOK(q)'
    PROVE  IInv'
<1>1. /\ req \in [Requests -> Request]
      /\ req' \in [Requests -> Request]
      /\ req'[r] = q
      /\ \A s \in Requests \ {r} : req'[s] = req[s]
  BY DEF IInv, TypeOK, Becomes
<1>2. TypeOK'
  BY <1>1 DEF IInv, TypeOK
<1>3. \A s \in Requests \ {r} : req[s].pc \notin InTransaction
  BY ServiceAssumption DEF IInv, LockInv
<1>4. LockInv'
  BY <1>1, <1>3, ServiceAssumption DEF LockInv
<1>5. UniqueInv'
  BY <1>1 DEF IInv, UniqueInv
<1>6. RowsInv' /\ TicketIffCompleted' /\ FailsClosed'
  BY DEF IInv, RowsInv, StoredRow, TicketIffCompleted, FailsClosed
<1>7. RequestsInv'
  <2> SUFFICES ASSUME NEW s \in Requests PROVE RequestOK(req[s])'
    BY DEF RequestsInv
  <2>1. CASE s = r
    BY <1>1, <2>1
  <2>2. CASE s # r
    <3>1. RequestOK(req[s]) /\ req[s] \in Request /\ req[s].pc \notin InTransaction
      BY <1>1, <1>3, <2>2 DEF IInv, RequestsInv
    <3>2. \A p \in Request : p.pc \notin InTransaction /\ RequestOK(p) => RequestOK(p)'
      BY OutsideTransaction
    <3>. QED
      BY <1>1, <2>2, <3>1, <3>2
  <2>. QED
    BY <2>1, <2>2
<1>. QED
  BY <1>2, <1>4, <1>5, <1>6, <1>7 DEF IInv

LEMMA BeginImmediateInv == ASSUME IInv, NEW r \in Requests, BeginImmediate(r) PROVE IInv'
<1>1. /\ req[r].pc = "begin" /\ req[r] \in Request /\ RequestOK(req[r])
      /\ writer = NoRequest /\ writer' = r
      /\ incidents' = incidents /\ tickets' = tickets
      /\ txIncidents' = incidents /\ txTickets' = tickets
      /\ incidents \in [Incidents -> Row] /\ tickets \in [Incidents -> Row]
  BY DEF BeginImmediate, IInv, TypeOK, LockInv, RequestsInv, tables
<1>2. "select" \in Step /\ "select" \in InTransaction
  BY DEF Step, InTransaction
<1>3. PICK q \in Request : q = At(req[r], "select", 0, NoRow)
  BY <1>1, <1>2, AtType, NoRowType
<1>4. /\ q.pc = "select" /\ q.op = req[r].op /\ q.id = req[r].id /\ q.owner = req[r].owner
      /\ q.expected = req[r].expected /\ q.facts = req[r].facts
  BY <1>1, <1>2, <1>3, AtType, NoRowType
<1>5. Becomes(r, q)
  BY <1>3 DEF BeginImmediate, Move
<1>6. RequestOK(q)'
  BY <1>1, <1>4 DEF RequestOK, StepOK, PrepareOK, DecideOK, AnswerOK
<1>. QED
  BY <1>1, <1>2, <1>4, <1>5, <1>6, LockStep, ServiceAssumption

LEMMA SaveRowInv == ASSUME IInv, NEW r \in Requests, SaveRow(r) PROVE IInv'
<1>1. /\ req[r].pc = "save" /\ req[r] \in Request /\ RequestOK(req[r])
      /\ writer = NoRequest /\ writer' = r
      /\ incidents' = incidents /\ tickets' = tickets
      /\ txIncidents = incidents /\ txTickets = tickets /\ txTickets' = tickets
      /\ incidents \in [Incidents -> Row] /\ tickets \in [Incidents -> Row]
  BY DEF SaveRow, IInv, TypeOK, LockInv, RequestsInv, tables
<1>2. /\ req[r].op \in {"create", "revise"} /\ req[r].id \in Incidents
      /\ req[r].row \in Row /\ req[r].expected \in Nat
      /\ req[r].op = "create" => req[r].expected = 0
  BY <1>1 DEF RequestOK, StepOK, Request
<1>3. CASE SaveMatches(req[r])
  <2>1. "commit" \in Step /\ "commit" \in InTransaction
    BY DEF Step, InTransaction
  <2>2. PICK q \in Request :
          /\ q = At(req[r], "commit", 0, req[r].row)
          /\ q.pc = "commit" /\ q.op = req[r].op /\ q.id = req[r].id /\ q.owner = req[r].owner
          /\ q.expected = req[r].expected /\ q.facts = req[r].facts /\ q.row = req[r].row
    <3>. DEFINE old == req[r]
                row == old.row
    <3>1. old \in Request /\ row \in Row
      BY <1>1, <1>2
    <3>2. PICK p \in Request :
            /\ p = At(old, "commit", 0, row)
            /\ p.pc = "commit" /\ p.op = old.op /\ p.id = old.id /\ p.owner = old.owner
            /\ p.expected = old.expected /\ p.facts = old.facts /\ p.row = row
      <4>. HIDE DEF old, row
      <4>. QED
        BY <2>1, <3>1, NextStep
    <3>. QED
      BY <3>2
  <2>4. Becomes(r, q)
    BY <1>3, <2>2 DEF SaveRow, Move
  <2>5. txIncidents' = [incidents EXCEPT ![q.id] = q.row]
    BY <1>1, <1>3, <2>2 DEF SaveRow
  <2>6. incidents[q.id].version = q.expected
    BY <1>1, <1>2, <1>3, <2>2 DEF SaveMatches, RequestOK, PrepareOK, NoRow
  <2>7. PrepareOK(q)'
    BY <1>1, <1>2, <2>2, <2>5, <2>6 DEF RequestOK, PrepareOK
  <2>8. RequestOK(q)'
    BY <1>1, <1>2, <2>2, <2>7 DEF RequestOK, StepOK, DecideOK, AnswerOK
  <2>9. txIncidents' \in [Incidents -> Row]
    BY <1>1, <1>2, <2>2, <2>5
  <2>. QED
    BY <1>1, <2>1, <2>2, <2>4, <2>8, <2>9, LockStep, ServiceAssumption
<1>4. CASE ~SaveMatches(req[r])
  <2>1. "close" \in Step /\ "close" \in InTransaction
    BY DEF Step, InTransaction
  <2>2. PICK q \in Request : q = At(req[r], "close", 409, NoRow)
    BY <1>1, <2>1, AtType, NoRowType
  <2>3. /\ q.pc = "close" /\ q.op = req[r].op /\ q.id = req[r].id /\ q.owner = req[r].owner
        /\ q.expected = req[r].expected /\ q.facts = req[r].facts /\ q.code = 409
    BY <1>1, <2>1, <2>2, AtType, NoRowType
  <2>4. Becomes(r, q)
    BY <1>4, <2>2 DEF SaveRow, Move
  <2>5. txIncidents' = incidents
    BY <1>1, <1>4 DEF SaveRow
  <2>6. RequestOK(q)'
    BY <1>1, <1>2, <2>3 DEF RequestOK, StepOK, PrepareOK, DecideOK, AnswerOK
  <2>. QED
    BY <1>1, <2>1, <2>3, <2>4, <2>5, <2>6, LockStep, ServiceAssumption
<1>. QED
  BY <1>3, <1>4

\* A handler that keeps its record while it moves on.
LEMMA KeepStep ==
    ASSUME IInv, NEW r \in Requests, NEW pc \in Step, NEW code \in {0, 200, 404, 409, 500},
           Move(r, pc, code, req[r].row)
    PROVE  \E q \in Request :
              /\ Becomes(r, q)
              /\ q.pc = pc /\ q.op = req[r].op /\ q.id = req[r].id /\ q.owner = req[r].owner
              /\ q.expected = req[r].expected /\ q.facts = req[r].facts
              /\ q.approve = req[r].approve /\ q.row = req[r].row /\ q.code = code
<1>. DEFINE old == req[r]
            row == old.row
<1>1. old \in Request /\ row \in Row
  BY DEF IInv, TypeOK, Request
<1>2. PICK p \in Request :
        /\ p = At(old, pc, code, row)
        /\ p.pc = pc /\ p.op = old.op /\ p.id = old.id /\ p.owner = old.owner
        /\ p.expected = old.expected /\ p.facts = old.facts /\ p.approve = old.approve
        /\ p.row = row /\ p.code = code
  <2>. DEFINE next == At(old, pc, code, row)
  <2>. HIDE DEF old, row
  <2>1. next \in Request
    BY <1>1, AtType
  <2>2. /\ next = At(old, pc, code, row)
        /\ next.pc = pc /\ next.op = old.op /\ next.id = old.id /\ next.owner = old.owner
        /\ next.expected = old.expected /\ next.facts = old.facts
        /\ next.approve = old.approve /\ next.row = row /\ next.code = code
    BY DEF At
  <2>. HIDE DEF next
  <2>. QED
    BY <2>1, <2>2
<1>3. Becomes(r, p)
  BY <1>2 DEF Move
<1>. QED
  BY <1>2, <1>3

LEMMA InsertTicketInv == ASSUME IInv, NEW r \in Requests, InsertTicket(r) PROVE IInv'
<1>1. /\ req[r].pc = "ticket" /\ req[r] \in Request /\ RequestOK(req[r])
      /\ incidents' = incidents /\ tickets' = tickets /\ writer' = writer
      /\ txIncidents' = txIncidents
      /\ incidents \in [Incidents -> Row] /\ tickets \in [Incidents -> Row]
  BY DEF InsertTicket, Abandon, IInv, TypeOK, RequestsInv, tables, transaction
<1>2. /\ req[r].op = "decide" /\ req[r].id \in Incidents /\ req[r].approve
      /\ txIncidents = incidents /\ txTickets = tickets /\ req[r].row \in Row
      /\ Owned(incidents, req[r].id, req[r].owner)
      /\ Decidable(req[r], incidents[req[r].id])
      /\ req[r].row = Decided(incidents[req[r].id], req[r].approve)
  BY <1>1 DEF RequestOK, StepOK, DecideOK, Request
<1>3. writer = r /\ "ticket" \in InTransaction /\ "update" \in InTransaction
  BY <1>1 DEF IInv, LockInv, InTransaction
<1>4. CASE txTickets[req[r].id] = NoRow
  <2>1. Move(r, "update", 0, req[r].row) /\ "update" \in Step
    BY <1>4 DEF InsertTicket, Step
  <2>2. PICK q \in Request :
          /\ Becomes(r, q)
          /\ q.pc = "update" /\ q.op = req[r].op /\ q.id = req[r].id /\ q.owner = req[r].owner
          /\ q.expected = req[r].expected /\ q.facts = req[r].facts
          /\ q.approve = req[r].approve /\ q.row = req[r].row /\ q.code = 0
    BY <2>1, KeepStep
  <2>3. txTickets' = [tickets EXCEPT ![q.id] = q.row]
    BY <1>2, <1>4, <2>2 DEF InsertTicket
  <2>4. DecideOK(q)'
    BY <1>1, <1>2, <2>2, <2>3 DEF DecideOK, Owned, Decidable
  <2>5. RequestOK(q)'
    BY <1>1, <1>2, <2>2, <2>4 DEF RequestOK, StepOK, PrepareOK, AnswerOK
  <2>6. txIncidents' \in [Incidents -> Row] /\ txTickets' \in [Incidents -> Row]
    BY <1>1, <1>2, <2>2, <2>3
  <2>. QED
    BY <1>1, <1>3, <2>2, <2>5, <2>6, LockStep, ServiceAssumption
<1>5. CASE txTickets[req[r].id] # NoRow
  <2>1. Move(r, "close", 500, NoRow) /\ UNCHANGED <<tables, transaction>>
    BY <1>5 DEF InsertTicket, Abandon
  <2>. QED
    BY <1>1, <1>3, <2>1, NoRowType, AnswerInv
<1>. QED
  BY <1>4, <1>5

LEMMA UpdateDecidedInv == ASSUME IInv, NEW r \in Requests, UpdateDecided(r) PROVE IInv'
<1>1. /\ req[r].pc = "update" /\ req[r] \in Request /\ RequestOK(req[r])
      /\ incidents' = incidents /\ tickets' = tickets /\ writer' = writer
      /\ txIncidents' = [txIncidents EXCEPT ![req[r].id] = req[r].row]
      /\ txTickets' = txTickets
      /\ incidents \in [Incidents -> Row] /\ txTickets \in [Incidents -> Row]
  BY DEF UpdateDecided, IInv, TypeOK, RequestsInv, tables
<1>2. /\ req[r].op = "decide" /\ req[r].id \in Incidents /\ req[r].row \in Row
      /\ txIncidents = incidents
      /\ txTickets = IF req[r].approve
                     THEN [tickets EXCEPT ![req[r].id] = req[r].row]
                     ELSE tickets
      /\ Owned(incidents, req[r].id, req[r].owner)
      /\ Decidable(req[r], incidents[req[r].id])
      /\ req[r].row = Decided(incidents[req[r].id], req[r].approve)
  BY <1>1 DEF RequestOK, StepOK, DecideOK, Request
<1>3. writer = r /\ "commit" \in InTransaction /\ "commit" \in Step
  BY <1>1 DEF IInv, LockInv, InTransaction, Step
<1>4. PICK q \in Request :
        /\ Becomes(r, q)
        /\ q.pc = "commit" /\ q.op = req[r].op /\ q.id = req[r].id /\ q.owner = req[r].owner
        /\ q.expected = req[r].expected /\ q.facts = req[r].facts
        /\ q.approve = req[r].approve /\ q.row = req[r].row /\ q.code = 0
  BY <1>3, KeepStep DEF UpdateDecided
<1>5. DecideOK(q)'
  BY <1>1, <1>2, <1>4 DEF DecideOK, Owned, Decidable
<1>6. RequestOK(q)'
  BY <1>1, <1>2, <1>4, <1>5 DEF RequestOK, StepOK, PrepareOK, AnswerOK
<1>7. txIncidents' \in [Incidents -> Row]
  BY <1>1, <1>2
<1>. QED
  BY <1>1, <1>3, <1>4, <1>6, <1>7, LockStep, ServiceAssumption

LEMMA CloseInv == ASSUME IInv, NEW r \in Requests, Close(r) PROVE IInv'
<1>1. /\ req[r].pc = "close" /\ req[r] \in Request /\ RequestOK(req[r])
      /\ incidents' = incidents /\ tickets' = tickets /\ writer' = NoRequest
      /\ txIncidents' = incidents /\ txTickets' = tickets
      /\ incidents \in [Incidents -> Row] /\ tickets \in [Incidents -> Row]
  BY DEF Close, Release, IInv, TypeOK, RequestsInv, tables
<1>2. writer = r /\ "done" \notin InTransaction /\ "done" \in Step
  BY <1>1 DEF IInv, LockInv, InTransaction, Step
<1>3. PICK q \in Request :
        /\ Becomes(r, q)
        /\ q.pc = "done" /\ q.op = req[r].op /\ q.id = req[r].id /\ q.owner = req[r].owner
        /\ q.expected = req[r].expected /\ q.facts = req[r].facts
        /\ q.approve = req[r].approve /\ q.row = req[r].row /\ q.code = req[r].code
  <2>1. Move(r, "done", req[r].code, req[r].row) /\ req[r].code \in {0, 200, 404, 409, 500}
    BY <1>1 DEF Close, Answer, Request
  <2>. QED
    BY <1>2, <2>1, KeepStep
<1>4. RequestOK(q)'
  BY <1>1, <1>3 DEF RequestOK, StepOK, PrepareOK, DecideOK, AnswerOK
<1>. QED
  BY <1>1, <1>2, <1>3, <1>4, LockStep, ServiceAssumption

-----------------------------------------------------------------------------
(***************************************************************************)
(* The commit.                                                             *)
(***************************************************************************)

\* What a commit publishes: the next version of one row, and its ticket when
\* the row is completed by a decision.
LEMMA CommitFacts ==
    ASSUME IInv, NEW r \in Requests, Commit(r)
    PROVE  LET q == req[r]
               stored == incidents[q.id]
           IN
           /\ q \in Request /\ q.id \in Incidents /\ q.row \in Row
           /\ q.op \in {"create", "revise", "decide"}
           /\ incidents' = [incidents EXCEPT ![q.id] = q.row]
           /\ tickets' = IF q.row.status = "completed"
                         THEN [tickets EXCEPT ![q.id] = q.row]
                         ELSE tickets
           /\ q.row.version = stored.version + 1
           /\ q.row.owner = q.owner /\ q.owner \in Owners
           /\ q.row.status # "absent"
           /\ q.op = "create" => stored = NoRow
           /\ q.op # "create" => stored # NoRow /\ stored.owner = q.owner
           /\ stored.status \notin Final
           /\ IF q.row.status \in Final \cup {"awaiting_approval"}
              THEN q.row.plan \in Grounded /\ q.row.facts \in CompleteFacts
              ELSE q.row.plan = NoPlan
<1>. DEFINE q == req[r]
            stored == incidents[q.id]
<1>1. /\ q.pc = "commit" /\ q \in Request /\ RequestOK(q)
      /\ incidents' = txIncidents /\ tickets' = txTickets
      /\ incidents \in [Incidents -> Row]
  BY DEF Commit, IInv, TypeOK, RequestsInv
<1>2. /\ q.id \in Incidents /\ q.owner \in Owners /\ q.row \in Row
      /\ q.op \in {"create", "revise", "decide"} /\ q.expected \in Nat
      /\ q.approve \in BOOLEAN
  BY <1>1 DEF RequestOK, StepOK, Request
<1>3. stored \in Row /\ StoredRow(stored)
      /\ (IF stored.status \in Final \cup {"awaiting_approval"}
          THEN stored.plan \in Grounded /\ stored.facts \in CompleteFacts
          ELSE stored.plan = NoPlan)
  BY <1>1, <1>2 DEF IInv, RowsInv, FailsClosed
<1>4. CASE q.op \in {"create", "revise"}
  <2>1. /\ txIncidents = [incidents EXCEPT ![q.id] = q.row] /\ txTickets = tickets
        /\ q.row = Record(q.owner, q.expected + 1, q.row.status, q.facts, q.row.plan)
        /\ Workflow!Outcome(q.facts, q.row.status, q.row.plan)
        /\ stored.version = q.expected
        /\ q.op = "create" => stored = NoRow
        /\ q.op = "revise" => stored.owner = q.owner /\ stored.status \notin Final
    BY <1>1, <1>4 DEF RequestOK, PrepareOK
  <2>2. q.row.owner = q.owner /\ q.row.version = q.expected + 1 /\ q.row.facts = q.facts
    BY <2>1 DEF Record
  <2>3. q.row.status \in {"needs_info", "blocked", "awaiting_approval"}
        /\ (IF q.row.status = "awaiting_approval"
            THEN q.row.plan \in Grounded /\ q.facts \in CompleteFacts
            ELSE q.row.plan = NoPlan)
    BY <2>1 DEF Workflow!Outcome
  <2>4. q.op = "revise" => stored # NoRow
    BY <1>2, <2>1, ConstantsAssumption DEF NoRow
  <2>5. stored.status \notin Final
    BY <1>4, <2>1 DEF NoRow, Final
  <2>. HIDE DEF q, stored
  <2>6. q.row.version = stored.version + 1
    BY <2>1, <2>2
  <2>. QED
    BY <1>1, <1>2, <1>4, <2>1, <2>2, <2>3, <2>4, <2>5, <2>6 DEF Final, q, stored
<1>5. CASE q.op = "decide"
  <2>1. /\ Owned(incidents, q.id, q.owner)
        /\ Decidable(q, stored)
        /\ q.row = Decided(stored, q.approve)
        /\ txIncidents = [incidents EXCEPT ![q.id] = q.row]
        /\ txTickets = IF q.approve THEN [tickets EXCEPT ![q.id] = q.row] ELSE tickets
    BY <1>1, <1>5 DEF RequestOK, DecideOK
  <2>2. /\ q.row.version = stored.version + 1 /\ q.row.owner = stored.owner
        /\ q.row.status = Verdict(q.approve) /\ q.row.plan = stored.plan
        /\ q.row.facts = stored.facts
    <3>1. \A row \in Row, approve \in BOOLEAN :
            /\ Decided(row, approve).version = row.version + 1
            /\ Decided(row, approve).status = Verdict(approve)
            /\ Decided(row, approve).owner = row.owner
            /\ Decided(row, approve).facts = row.facts
            /\ Decided(row, approve).plan = row.plan
      BY DecidedRow
    <3>. QED
      BY <1>2, <1>3, <2>1, <3>1
  <2>3. stored # NoRow /\ stored.owner = q.owner /\ stored.status = "awaiting_approval"
    BY <2>1 DEF Owned, Decidable
  <2>4. stored.plan \in Grounded /\ stored.facts \in CompleteFacts
    BY <1>3, <2>3
  <2>5. (q.row.status = "completed" <=> q.approve) /\ q.row.status \in Final
    BY <1>2, <2>2 DEF Verdict, Final
  <2>. QED
    BY <1>1, <1>2, <1>5, <2>1, <2>2, <2>3, <2>4, <2>5 DEF Final
<1>. QED
  BY <1>2, <1>4, <1>5

\* A request in flight survives the next version of any row.
LEMMA OtherRequest ==
    ASSUME NEW q \in Request, q.pc \notin InTransaction, RequestOK(q),
           NEW i \in Incidents, NEW row \in Row,
           incidents \in [Incidents -> Row],
           incidents' = [incidents EXCEPT ![i] = row],
           row.version = incidents[i].version + 1,
           incidents[i] = NoRow \/ incidents[i].owner = row.owner,
           q.op = "create" /\ q.pc \in {"plan", "save", "commit"} => q.id # i
    PROVE  RequestOK(q)'
<1>1. q.pc \notin {"select", "ticket", "update", "commit", "close"}
  BY DEF InTransaction
<1>2. StepOK(q)' /\ DecideOK(q)'
  BY <1>1 DEF RequestOK, StepOK, DecideOK
<1>3. CASE q.id # i \/ q.pc = "idle"
  <2>1. q.pc # "idle" => q.id \in Incidents
    BY DEF RequestOK, StepOK
  <2>2. q.pc # "idle" => incidents'[q.id] = incidents[q.id]
    BY <1>3, <2>1
  <2>3. PrepareOK(q)' /\ AnswerOK(q)'
    BY <1>1, <2>2 DEF RequestOK, PrepareOK, AnswerOK
  <2>. QED
    BY <1>2, <2>3 DEF RequestOK
<1>4. CASE q.id = i /\ q.pc # "idle"
  <2>1. /\ incidents'[i] = row /\ incidents[i].version \in Nat /\ q.expected \in Nat
        /\ q.owner \in Owners
        /\ incidents[i] = NoRow => incidents[i].version = 0 /\ incidents[i].owner \notin Owners
    BY <1>4, ConstantsAssumption DEF Row, Request, NoRow, RequestOK, StepOK
  <2>2. PrepareOK(q)'
    <3>1. SUFFICES ASSUME q.op \in {"create", "revise"}, q.pc \in {"plan", "save"}
                   PROVE  PrepareOK(q)'
      BY <1>1 DEF PrepareOK
    <3>2. /\ q.op = "revise"
          /\ incidents[i].owner = q.owner /\ incidents[i].version >= q.expected
      BY <1>4, <3>1 DEF RequestOK, PrepareOK
    <3>3. row.owner = q.owner /\ row.version > q.expected
      BY <2>1, <3>2
    <3>. QED
      BY <1>1, <1>4, <2>1, <3>1, <3>2, <3>3 DEF RequestOK, PrepareOK
  <2>3. AnswerOK(q)'
    <3>1. SUFFICES ASSUME q.pc = "done", q.code = 200
                   PROVE  AnswerOK(q)'
      BY <1>1 DEF AnswerOK
    <3>2. /\ q.row.version \in 1 .. incidents[i].version
          /\ q.row.owner = q.owner /\ incidents[i].owner = q.owner
      BY <1>4, <3>1 DEF RequestOK, AnswerOK
    <3>3. row.owner = q.owner /\ q.row.version \in 1 .. row.version
          /\ q.row.version # row.version
      BY <2>1, <3>2
    <3>. QED
      BY <1>4, <2>1, <3>2, <3>3 DEF AnswerOK
  <2>. QED
    BY <1>2, <2>2, <2>3 DEF RequestOK
<1>. QED
  BY <1>3, <1>4

LEMMA CommitInv == ASSUME IInv, NEW r \in Requests, Commit(r) PROVE IInv'
<1>. DEFINE old == req[r]
            i == old.id
            row == old.row
<1>1. /\ old \in Request /\ i \in Incidents /\ row \in Row
      /\ old.op \in {"create", "revise", "decide"}
      /\ incidents' = [incidents EXCEPT ![i] = row]
      /\ tickets' = IF row.status = "completed"
                    THEN [tickets EXCEPT ![i] = row]
                    ELSE tickets
      /\ row.version = incidents[i].version + 1
      /\ row.owner = old.owner /\ old.owner \in Owners
      /\ row.status # "absent"
      /\ old.op = "create" => incidents[i] = NoRow
      /\ old.op # "create" => incidents[i] # NoRow /\ incidents[i].owner = old.owner
      /\ incidents[i].status \notin Final
      /\ IF row.status \in Final \cup {"awaiting_approval"}
         THEN row.plan \in Grounded /\ row.facts \in CompleteFacts
         ELSE row.plan = NoPlan
  BY CommitFacts
<1>2. /\ old.pc = "commit" /\ RequestOK(old)
      /\ Move(r, "done", 200, row)
      /\ writer' = NoRequest /\ txIncidents' = incidents' /\ txTickets' = tickets'
      /\ incidents \in [Incidents -> Row] /\ tickets \in [Incidents -> Row]
      /\ req \in [Requests -> Request]
  BY DEF Commit, Answer, Release, IInv, TypeOK, RequestsInv
<1>3. incidents[i] \in Row /\ incidents[i].version \in Nat
  BY <1>1, <1>2 DEF Row
<1>4. PICK q \in Request :
        /\ Becomes(r, q)
        /\ q.pc = "done" /\ q.op = old.op /\ q.id = i /\ q.owner = old.owner
        /\ q.expected = old.expected /\ q.facts = old.facts
        /\ q.approve = old.approve /\ q.row = row /\ q.code = 200
  BY <1>2, KeepStep DEF Step
<1>5. req' \in [Requests -> Request] /\ req'[r] = q /\ \A s \in Requests \ {r} : req'[s] = req[s]
  BY <1>2, <1>4 DEF Becomes
<1>6. \A s \in Requests \ {r} : req[s].pc \notin InTransaction
  BY <1>2, ServiceAssumption DEF IInv, LockInv, InTransaction
<1>7. TypeOK'
  BY <1>1, <1>2, <1>5 DEF TypeOK
<1>8. LockInv'
  BY <1>2, <1>4, <1>5, <1>6, ServiceAssumption DEF LockInv, InTransaction
<1>9. RowsInv'
  BY <1>1, <1>2, <1>3 DEF IInv, RowsInv, StoredRow
<1>10. UniqueInv'
  BY <1>4, <1>5 DEF IInv, UniqueInv
<1>11. FailsClosed'
  BY <1>1, <1>2 DEF IInv, FailsClosed
<1>12. TicketIffCompleted'
  BY <1>1, <1>2 DEF IInv, TicketIffCompleted, Final
<1>13. RequestsInv'
  <2> SUFFICES ASSUME NEW s \in Requests PROVE RequestOK(req[s])'
    BY DEF RequestsInv
  <2>1. CASE s = r
    <3>1. incidents'[i] = row
      BY <1>1, <1>2
    <3>2. StepOK(q)' /\ AnswerOK(q)'
      BY <1>1, <1>2, <1>3, <1>4, <3>1 DEF RequestOK, StepOK, AnswerOK
    <3>3. RequestOK(q)'
      BY <1>4, <3>2 DEF RequestOK, PrepareOK, DecideOK
    <3>. QED
      BY <1>5, <2>1, <3>3
  <2>2. CASE s # r
    <3>1. RequestOK(req[s]) /\ req[s] \in Request /\ req[s].pc \notin InTransaction
          /\ req'[s] = req[s]
      BY <1>2, <1>5, <1>6, <2>2 DEF IInv, RequestsInv
    <3>2. req[s].op = "create" /\ req[s].pc \in {"plan", "save", "commit"} => req[s].id # i
      <4>1. CASE old.op = "create"
        BY <2>2, <4>1 DEF IInv, UniqueInv
      <4>2. CASE old.op # "create"
        BY <1>1, <3>1, <4>2 DEF RequestOK, PrepareOK
      <4>. QED
        BY <4>1, <4>2
    <3>3. \A p \in Request :
             /\ p.pc \notin InTransaction /\ RequestOK(p)
             /\ p.op = "create" /\ p.pc \in {"plan", "save", "commit"} => p.id # i
             => RequestOK(p)'
      <4>. HIDE DEF i, row
      <4>. QED
        BY <1>1, <1>2, OtherRequest
    <3>. QED
      BY <3>1, <3>2, <3>3
  <2>. QED
    BY <2>1, <2>2
<1>. QED
  BY <1>7, <1>8, <1>9, <1>10, <1>11, <1>12, <1>13 DEF IInv

LEMMA CrashInv == ASSUME IInv, Crash PROVE IInv'
<1>1. /\ incidents' = incidents /\ tickets' = tickets /\ writer' = NoRequest
      /\ txIncidents' = incidents /\ txTickets' = tickets
      /\ req' = [r \in Requests |-> Idle]
  BY DEF Crash, Release, tables
<1>2. TypeOK'
  BY <1>1, IdleOK DEF IInv, TypeOK
<1>3. LockInv' /\ UniqueInv'
  BY <1>1, ServiceAssumption DEF LockInv, UniqueInv, Idle, Received, InTransaction
<1>4. RowsInv' /\ TicketIffCompleted' /\ FailsClosed'
  BY <1>1 DEF IInv, RowsInv, StoredRow, TicketIffCompleted, FailsClosed
<1>5. RequestsInv'
  BY <1>1, IdleOK DEF RequestsInv
<1>. QED
  BY <1>2, <1>3, <1>4, <1>5 DEF IInv

LEMMA NextInv == IInv /\ [Next]_serviceVars => IInv'
<1> SUFFICES ASSUME IInv, [Next]_serviceVars PROVE IInv'
  OBVIOUS
<1>1. ASSUME NEW r \in Requests, Call(r) PROVE IInv'
  <2>1. PICK owner \in Owners :
          \/ \E facts \in Facts : CreateArrives(r, owner, facts)
          \/ \E i \in Incidents :
               \/ ReadArrives(r, owner, i)
               \/ \E expected \in 1 .. MaxVersion :
                    \/ \E facts \in Facts : ReviseArrives(r, owner, i, expected, facts)
                    \/ \E approve \in BOOLEAN : DecideArrives(r, owner, i, expected, approve)
    BY <1>1 DEF Call
  <2>2. ASSUME NEW facts \in Facts, CreateArrives(r, owner, facts) PROVE IInv'
    BY <2>2, CreateArrivesInv
  <2>3. ASSUME NEW i \in Incidents, ReadArrives(r, owner, i) PROVE IInv'
    BY <2>3, ReadArrivesInv
  <2>4. ASSUME NEW i \in Incidents, NEW expected \in 1 .. MaxVersion, NEW facts \in Facts,
               ReviseArrives(r, owner, i, expected, facts)
        PROVE  IInv'
    <3>1. expected \in Nat \ {0}
      BY ServiceAssumption
    <3>. QED
      BY <2>4, <3>1, ReviseArrivesInv
  <2>5. ASSUME NEW i \in Incidents, NEW expected \in 1 .. MaxVersion, NEW approve \in BOOLEAN,
               DecideArrives(r, owner, i, expected, approve)
        PROVE  IInv'
    <3>1. expected \in Nat
      BY ServiceAssumption
    <3>. QED
      BY <2>5, <3>1, DecideArrivesInv
  <2>. QED
    BY <2>1, <2>2, <2>3, <2>4, <2>5
<1>2. ASSUME NEW r \in Requests, Handle(r) PROVE IInv'
  <2>1. CASE Read(r) BY <2>1, ReadInv
  <2>2. CASE ReadForRevision(r) BY <2>2, ReadForRevisionInv
  <2>3. CASE Investigate(r) BY <2>3, InvestigateInv
  <2>4. CASE RetrieveAndPropose(r) BY <2>4, RetrieveAndProposeInv
  <2>5. CASE PlanningFails(r) BY <2>5, PlanningFailsInv
  <2>6. CASE SaveRow(r) BY <2>6, SaveRowInv
  <2>7. CASE BeginImmediate(r) BY <2>7, BeginImmediateInv
  <2>8. CASE LockTimeout(r) BY <2>8, LockTimeoutInv
  <2>9. CASE SelectForDecision(r) BY <2>9, SelectForDecisionInv
  <2>10. CASE InsertTicket(r) BY <2>10, InsertTicketInv
  <2>11. CASE UpdateDecided(r) BY <2>11, UpdateDecidedInv
  <2>12. CASE StatementFails(r) BY <2>12, StatementFailsInv
  <2>13. CASE Commit(r) BY <2>13, CommitInv
  <2>14. CASE Close(r) BY <2>14, CloseInv
  <2>. QED
    BY <1>2, <2>1, <2>2, <2>3, <2>4, <2>5, <2>6, <2>7, <2>8, <2>9, <2>10, <2>11, <2>12,
       <2>13, <2>14 DEF Handle
<1>3. ASSUME NEW r \in Requests, Return(r) PROVE IInv'
  BY <1>3, ReturnInv
<1>4. CASE Crash
  BY <1>4, CrashInv
<1>5. CASE UNCHANGED serviceVars
  <2>1. UNCHANGED <<incidents, tickets, writer, txIncidents, txTickets, req>>
    BY <1>5 DEF serviceVars
  <2>2. \A q \in Request : RequestOK(q) => RequestOK(q)'
    BY <2>1 DEF RequestOK, StepOK, PrepareOK, DecideOK, AnswerOK, Owned, Decidable
  <2>3. TypeOK' /\ LockInv' /\ RowsInv' /\ UniqueInv' /\ TicketIffCompleted' /\ FailsClosed'
    BY <2>1 DEF IInv, TypeOK, LockInv, RowsInv, StoredRow, UniqueInv, TicketIffCompleted,
                FailsClosed
  <2>4. RequestsInv'
    <3> SUFFICES ASSUME NEW s \in Requests PROVE RequestOK(req[s])'
      BY DEF RequestsInv
    <3>1. req[s] \in Request /\ RequestOK(req[s]) /\ req'[s] = req[s]
      BY <2>1 DEF IInv, TypeOK, RequestsInv
    <3>. QED
      BY <2>2, <3>1
  <2>. QED
    BY <2>3, <2>4 DEF IInv
<1>. QED
  BY <1>1, <1>2, <1>3, <1>4, <1>5 DEF Next

\* The workflow's copies of the shared vocabulary are this module's.
LEMMA SharedData ==
    /\ Workflow!NoRow = NoRow /\ Workflow!Status = Status /\ Workflow!Final = Final
    /\ \A o, v, s, f, p : Workflow!Record(o, v, s, f, p) = Record(o, v, s, f, p)
    /\ \A row, approve : Workflow!Decided(row, approve) = Decided(row, approve)
<1>1. Workflow!NoRow = NoRow
  BY DEF Workflow!NoRow, NoRow
<1>2. Workflow!Status = Status /\ Workflow!Final = Final
  BY DEF Workflow!Status, Status, Workflow!Final, Final
<1>3. \A o, v, s, f, p : Workflow!Record(o, v, s, f, p) = Record(o, v, s, f, p)
  BY DEF Workflow!Record, Record
<1>4. \A row, approve : Workflow!Decided(row, approve) = Decided(row, approve)
  BY <1>3 DEF Workflow!Decided, Decided, Workflow!Verdict, Verdict
<1>. QED
  BY <1>1, <1>2, <1>3, <1>4

\* A commit is one operation of the abstract workflow.
LEMMA CommitRefines ==
    ASSUME IInv, NEW r \in Requests, Commit(r)
    PROVE  Workflow!Next
<1>. DEFINE q == req[r]
            stored == incidents[q.id]
            row == q.row
<1>1. /\ q.pc = "commit" /\ q \in Request /\ RequestOK(q)
      /\ incidents' = txIncidents /\ tickets' = txTickets
  BY DEF Commit, IInv, TypeOK, RequestsInv
<1>2. /\ q.id \in Incidents /\ row \in Row /\ q.owner \in Owners /\ q.expected \in Nat
      /\ q.op \in {"create", "revise", "decide"} /\ q.approve \in BOOLEAN
      /\ q.op = "create" => q.expected = 0
  BY <1>1 DEF RequestOK, StepOK, Request
<1>3. CASE q.op \in {"create", "revise"}
  <2>1. /\ incidents' = [incidents EXCEPT ![q.id] = row] /\ tickets' = tickets
        /\ row = Record(q.owner, q.expected + 1, row.status, q.facts, row.plan)
        /\ Workflow!Outcome(q.facts, row.status, row.plan)
        /\ stored.version = q.expected
        /\ q.op = "create" => stored = NoRow
        /\ q.op = "revise" => stored.owner = q.owner /\ stored.status \notin Final
        /\ q.facts \in Facts
    BY <1>1, <1>3 DEF RequestOK, PrepareOK
  <2>2. row.status \in Status /\ row.plan \in Plans \cup {NoPlan}
    BY <1>2 DEF Row
  <2>3. Workflow!Prepare(q.id, q.owner, q.expected + 1)
    <3>. DEFINE status == row.status
                plan == row.plan
                facts == q.facts
    <3>1. /\ facts \in Facts /\ status \in Workflow!Status /\ plan \in Plans \cup {NoPlan}
          /\ Workflow!Outcome(facts, status, plan)
          /\ tickets' = tickets
      BY <2>1, <2>2, SharedData
    <3>2. Record(q.owner, q.expected + 1, status, facts, plan) =
             Workflow!Record(q.owner, q.expected + 1, status, facts, plan)
      BY SharedData
    <3>3. incidents' = [incidents EXCEPT ![q.id] =
                Workflow!Record(q.owner, q.expected + 1, status, facts, plan)]
      BY <2>1, <3>2
    <3>. HIDE DEF status, plan, facts
    <3>. QED
      BY <3>1, <3>3, Zenon DEF Workflow!Prepare
  <2>4. CASE q.op = "create"
    <3>1. q.expected + 1 = 1
      BY <1>2, <2>4
    <3>. QED
      BY <1>2, <2>1, <2>3, <2>4, <3>1, SharedData DEF Workflow!Next, Workflow!Register
  <2>5. CASE q.op = "revise"
    <3>1. stored.status # "absent"
      BY <1>2, <2>1, <2>5, ConstantsAssumption DEF IInv, RowsInv, StoredRow, NoRow
    <3>. QED
      BY <1>2, <2>1, <2>3, <2>5, <3>1, SharedData DEF Workflow!Next, Workflow!Revise
  <2>. QED
    BY <1>3, <2>4, <2>5
<1>4. CASE q.op = "decide"
  <2>1. /\ stored.status = "awaiting_approval"
        /\ incidents' = [incidents EXCEPT ![q.id] = Decided(stored, q.approve)]
        /\ tickets' = IF q.approve
                      THEN [tickets EXCEPT ![q.id] = Decided(stored, TRUE)]
                      ELSE tickets
    BY <1>1, <1>2, <1>4 DEF RequestOK, DecideOK, Decidable
  <2>2. Workflow!Decide(q.id, q.approve)
    BY <2>1, SharedData DEF Workflow!Decide
  <2>. QED
    BY <1>2, <2>2 DEF Workflow!Next
<1>. QED
  BY <1>2, <1>3, <1>4

-----------------------------------------------------------------------------
(***************************************************************************)
(* The theorems.                                                           *)
(***************************************************************************)

\* Every state the incident service can reach satisfies the inductive invariant.
THEOREM Invariance == Spec => []IInv
<1>. QED
  BY InitIInv, NextInv, PTL DEF Spec

\* The tables, the transaction and the requests keep their types, for any
\* number of concurrent requests (routes.py, service.py, store.py).
THEOREM TypeCorrect == Spec => []TypeOK
<1>1. IInv => TypeOK
  BY DEF IInv
<1>. QED
  BY <1>1, Invariance, PTL

\* A ticket exists exactly for a completed incident and equals its row,
\* through crashes, failing statements and retries (store.py decide).
THEOREM TicketsMatch == Spec => []TicketIffCompleted
<1>1. IInv => TicketIffCompleted
  BY DEF IInv
<1>. QED
  BY <1>1, Invariance, PTL

\* Only a plan that passed the citation check is ever stored, awaiting
\* approval or decided (service.py prepare).
THEOREM FailClosed == Spec => []FailsClosed
<1>1. IInv => FailsClosed
  BY DEF IInv
<1>. QED
  BY <1>1, Invariance, PTL

\* The ticket insert of decide never violates the primary key.
THEOREM NoCollision == Spec => []NoTicketCollision
<1>1. IInv => NoTicketCollision
  <2> SUFFICES ASSUME IInv, NEW r \in Requests, req[r].pc = "ticket"
               PROVE  txTickets[req[r].id] = NoRow
    BY DEF NoTicketCollision
  <2>1. req[r] \in Request /\ RequestOK(req[r]) /\ req[r].id \in Incidents
    BY DEF IInv, TypeOK, RequestsInv, RequestOK, StepOK
  <2>2. txTickets = tickets /\ incidents[req[r].id].status = "awaiting_approval"
    BY <2>1 DEF RequestOK, StepOK, DecideOK, Decidable
  <2>. QED
    BY <2>1, <2>2 DEF IInv, TicketIffCompleted
<1>. QED
  BY <1>1, Invariance, PTL

\* A record answered with 200 is the committed row or an earlier version of it.
THEOREM Durable == Spec => []AcknowledgedIsDurable
<1>1. IInv => AcknowledgedIsDurable
  <2> SUFFICES ASSUME IInv, NEW r \in Requests, req[r].pc = "done", req[r].code = 200
               PROVE  /\ req[r].row.version <= incidents[req[r].id].version
                      /\ req[r].row.version = incidents[req[r].id].version
                            => req[r].row = incidents[req[r].id]
    BY DEF AcknowledgedIsDurable
  <2>1. RequestOK(req[r]) /\ req[r].id \in Incidents /\ incidents \in [Incidents -> Row]
    BY DEF IInv, TypeOK, RequestsInv, RequestOK, StepOK
  <2>2. incidents[req[r].id].version \in Nat
    BY <2>1 DEF Row
  <2>. QED
    BY <2>1, <2>2 DEF RequestOK, AnswerOK
<1>. QED
  BY <1>1, Invariance, PTL

\* No answer of 200 carries the row of another owner.
THEOREM OwnersSeparated == Spec => []OwnedAnswers
<1>1. IInv => OwnedAnswers
  BY DEF IInv, OwnedAnswers, RequestsInv, RequestOK, AnswerOK
<1>. QED
  BY <1>1, Invariance, PTL

LEMMA OtherHandlers ==
    ASSUME NEW r \in Requests, Handle(r), ~Commit(r)
    PROVE  UNCHANGED <<incidents, tickets>>
BY Zenon DEF Handle, Read, ReadForRevision, Investigate, RetrieveAndPropose,
   PlanningFails, Draft, SaveRow, BeginImmediate, LockTimeout, SelectForDecision,
   InsertTicket, UpdateDecided, StatementFails, Abandon, Close, tables

\* The service implements the atomic workflow: every commit is one Register,
\* Revise or Decide, and every other step of every handler is invisible.
THEOREM Refinement == Spec => ImplementsWorkflow
<1>1. Init => Workflow!Init
  BY SharedData DEF Init, Workflow!Init
<1>2. IInv /\ [Next]_serviceVars => [Workflow!Next]_(Workflow!vars)
  <2> SUFFICES ASSUME IInv, [Next]_serviceVars
               PROVE  Workflow!Next \/ UNCHANGED <<incidents, tickets>>
    BY DEF Workflow!vars
  <2>1. ASSUME NEW r \in Requests, Commit(r) PROVE Workflow!Next
    BY <2>1, CommitRefines
  <2>2. ASSUME NEW r \in Requests, Call(r) PROVE UNCHANGED <<incidents, tickets>>
    BY <2>2 DEF Call, CreateArrives, ReadArrives, ReviseArrives, DecideArrives, Arrive, tables
  <2>3. ASSUME NEW r \in Requests, Handle(r), ~Commit(r) PROVE UNCHANGED <<incidents, tickets>>
    BY <2>3, OtherHandlers
  <2>. QED
    BY <2>1, <2>2, <2>3 DEF Next, Return, Crash, serviceVars, tables
<1>. QED
  BY <1>1, <1>2, Invariance, PTL DEF Spec, ImplementsWorkflow, Workflow!Spec

-----------------------------------------------------------------------------
(***************************************************************************)
(* The operator page.  A row only grows, one version at a time, and not    *)
(* once it is decided; so what a tab has shown stays an earlier version of *)
(* the stored row or that row itself.  Behind every decision in flight is  *)
(* a button pressed under such a row.                                      *)
(***************************************************************************)

\* The stored row, or an earlier version of it.
Snapshot(i, row) ==
    /\ row.version \in 1 .. incidents[i].version
    /\ row.version = incidents[i].version => row = incidents[i]

BlankInv == \A c \in Clients : screen[c].id = NoIncident => screen[c].row = NoRow

ClicksInv ==
    \A k \in clicked : Snapshot(k.id, k.row) /\ k.row.status = "awaiting_approval"

\* The button behind a decision in flight.
Pressed(q) ==
    \E k \in clicked : /\ k.id = q.id /\ k.owner = q.owner
                       /\ k.approve = q.approve /\ k.row.version = q.expected

PressedInv == \A r \in Requests : req[r].op = "decide" => Pressed(req[r])

\* A refused decision has lost to another version, and that one is not what
\* it would have made.
Refused(q) ==
    LET stored == incidents[q.id] IN
    q.op = "decide" /\ q.pc \in {"close", "done"} /\ q.code = 409 =>
        /\ stored.version > q.expected
        /\ ~(stored.status = Verdict(q.approve) /\ stored.version = q.expected + 1)

RefusedInv == \A r \in Requests : Refused(req[r])

WInv ==
    /\ IInv /\ WorkbenchTypeOK
    /\ BlankInv /\ ScreensAreSnapshots
    /\ ClicksInv /\ PressedInv /\ RefusedInv
    /\ DecidedAsReviewed

RowsGrow ==
    \A i \in Incidents :
        \/ incidents'[i] = incidents[i]
        \/ /\ incidents'[i].version = incidents[i].version + 1
           /\ incidents[i].status \notin Final

LEMMA CommitGrows ==
    ASSUME IInv, NEW r \in Requests, Commit(r)
    PROVE  RowsGrow
<1> DEFINE q == req[r]
<1>1. /\ q.id \in Incidents
      /\ incidents' = [incidents EXCEPT ![q.id] = q.row]
      /\ q.row.version = incidents[q.id].version + 1
      /\ incidents[q.id].status \notin Final
  BY CommitFacts
<1>2. incidents \in [Incidents -> Row]
  BY DEF IInv, TypeOK
<1> HIDE DEF q
<1> QED BY <1>1, <1>2 DEF RowsGrow

LEMMA HandleGrows ==
    ASSUME IInv, NEW r \in Requests, Handle(r)
    PROVE  RowsGrow
<1>1. CASE Commit(r)
  BY <1>1, CommitGrows
<1>2. CASE ~Commit(r)
  BY <1>2, OtherHandlers DEF RowsGrow
<1> QED BY <1>1, <1>2

LEMMA HandleInv == ASSUME IInv, NEW r \in Requests, Handle(r) PROVE IInv'
BY NextInv DEF Next

\* A handler moves its own request only.
LEMMA HandleMoves ==
    ASSUME NEW r \in Requests, Handle(r)
    PROVE  \E pc, code, row : Move(r, pc, code, row)
<1>1. CASE Read(r)
  BY <1>1 DEF Read, Answer
<1>2. CASE ReadForRevision(r)
  BY <1>2 DEF ReadForRevision, Answer
<1>3. CASE Investigate(r)
  BY <1>3 DEF Investigate, Draft
<1>4. CASE RetrieveAndPropose(r)
  BY <1>4 DEF RetrieveAndPropose, Draft
<1>5. CASE PlanningFails(r)
  BY <1>5 DEF PlanningFails, Draft
<1>6. CASE SaveRow(r)
  BY <1>6 DEF SaveRow
<1>7. CASE BeginImmediate(r)
  BY <1>7 DEF BeginImmediate
<1>8. CASE LockTimeout(r)
  BY <1>8 DEF LockTimeout, Answer
<1>9. CASE SelectForDecision(r)
  BY <1>9 DEF SelectForDecision, Abandon
<1>10. CASE InsertTicket(r)
  BY <1>10 DEF InsertTicket, Abandon
<1>11. CASE UpdateDecided(r)
  BY <1>11 DEF UpdateDecided
<1>12. CASE StatementFails(r)
  BY <1>12 DEF StatementFails, Abandon
<1>13. CASE Commit(r)
  BY <1>13 DEF Commit, Answer
<1>14. CASE Close(r)
  BY <1>14 DEF Close, Answer
<1> QED
  BY <1>1, <1>2, <1>3, <1>4, <1>5, <1>6, <1>7, <1>8, <1>9, <1>10, <1>11, <1>12,
     <1>13, <1>14 DEF Handle

LEMMA HandleFrame ==
    ASSUME IInv, NEW r \in Requests, Handle(r)
    PROVE  /\ \A s \in Requests \ {r} : req'[s] = req[s]
           /\ req'[r].op = req[r].op /\ req'[r].id = req[r].id
           /\ req'[r].owner = req[r].owner /\ req'[r].approve = req[r].approve
           /\ req'[r].expected = req[r].expected
<1>1. PICK pc, code, row : req' = [req EXCEPT ![r] = At(req[r], pc, code, row)]
  BY HandleMoves DEF Move, Becomes
<1>2. req \in [Requests -> Request]
  BY DEF IInv, TypeOK
<1>3. req'[r] = At(req[r], pc, code, row) /\ \A s \in Requests \ {r} : req'[s] = req[s]
  BY <1>1, <1>2
<1> QED BY <1>3 DEF At

\* The 409 of a decision comes from decide's look at the row.
LEMMA RefusedBySelect ==
    ASSUME IInv, NEW r \in Requests, Handle(r), req[r].op = "decide",
           req'[r].pc \in {"close", "done"}, req'[r].code = 409
    PROVE  \/ req[r].pc = "close" /\ req[r].code = 409
           \/ /\ Owned(incidents, req[r].id, req[r].owner)
              /\ ~AlreadyDecided(req[r], incidents[req[r].id])
              /\ ~Decidable(req[r], incidents[req[r].id])
<1>0. req \in [Requests -> Request] /\ RequestOK(req[r]) /\ req[r] \in Request
  BY DEF IInv, TypeOK, RequestsInv
<1>1. req[r].pc \in {"begin", "select", "ticket", "update", "commit", "close", "done"}
  BY <1>0 DEF RequestOK, StepOK, Request, Step
<1>2. ASSUME NEW pc, NEW code, NEW row, Move(r, pc, code, row)
      PROVE  req'[r].pc = pc /\ req'[r].code = code
  BY <1>0, <1>2 DEF Move, Becomes, At
<1>3. ~Read(r) /\ ~ReadForRevision(r) /\ ~SaveRow(r)
  BY <1>1 DEF Read, ReadForRevision, SaveRow
<1>4. ~Investigate(r) /\ ~RetrieveAndPropose(r) /\ ~PlanningFails(r)
  BY <1>1 DEF Investigate, RetrieveAndPropose, PlanningFails, Draft
<1>5. ~BeginImmediate(r) /\ ~UpdateDecided(r)
  BY <1>2 DEF BeginImmediate, UpdateDecided
<1>6. ~LockTimeout(r) /\ ~StatementFails(r) /\ ~Commit(r)
  BY <1>2 DEF LockTimeout, StatementFails, Commit, Answer, Abandon
<1>7. ~InsertTicket(r)
  BY <1>2 DEF InsertTicket, Abandon
<1>8. CASE Close(r)
  BY <1>2, <1>8 DEF Close, Answer
<1>9. CASE SelectForDecision(r)
  <2>1. txIncidents = incidents
    BY <1>0, <1>9 DEF SelectForDecision, RequestOK, DecideOK
  <2> QED BY <1>2, <1>9, <2>1 DEF SelectForDecision, Abandon
<1> QED BY <1>3, <1>4, <1>5, <1>6, <1>7, <1>8, <1>9 DEF Handle

\* What was a snapshot stays one while rows grow.
LEMMA SnapshotKept ==
    ASSUME IInv, RowsGrow, NEW i \in Incidents, NEW row \in Row, Snapshot(i, row)
    PROVE  /\ row.version \in 1 .. incidents'[i].version
           /\ row.version = incidents'[i].version => row = incidents'[i]
<1>1. incidents[i].version \in Nat /\ row.version \in Nat
  BY DEF IInv, TypeOK, Row
<1>2. CASE incidents'[i] = incidents[i]
  BY <1>2 DEF Snapshot
<1>3. CASE incidents'[i].version = incidents[i].version + 1
  BY <1>1, <1>3 DEF Snapshot
<1> QED BY <1>2, <1>3 DEF RowsGrow

LEMMA ScreensKept ==
    ASSUME IInv, WorkbenchTypeOK, ScreensAreSnapshots, BlankInv, RowsGrow,
           screen' \in [Clients -> Screen],
           \A c \in Clients :
               \/ screen'[c] = screen[c]
               \/ screen'[c] = Blankscreen
               \/ screen'[c].id # NoIncident /\ Snapshot(screen'[c].id, screen'[c].row)
    PROVE  ScreensAreSnapshots' /\ BlankInv'
<1>1. ASSUME NEW c \in Clients, screen'[c].id # NoIncident
      PROVE  /\ screen'[c].row.version \in 1 .. incidents'[screen'[c].id].version
             /\ screen'[c].row.version = incidents'[screen'[c].id].version
                   => screen'[c].row = incidents'[screen'[c].id]
  <2>1. PICK i \in Incidents, row \in Row : screen'[c].id = i /\ screen'[c].row = row
    BY <1>1 DEF Screen
  <2>2. Snapshot(i, row)
    BY <1>1, <2>1 DEF ScreensAreSnapshots, Snapshot, Blankscreen
  <2>3. /\ row.version \in 1 .. incidents'[i].version
        /\ row.version = incidents'[i].version => row = incidents'[i]
    BY <2>2, SnapshotKept
  <2> QED BY <2>1, <2>3
<1>2. ASSUME NEW c \in Clients, screen'[c].id = NoIncident PROVE screen'[c].row = NoRow
  BY <1>2 DEF BlankInv, Blankscreen
<1> QED BY <1>1, <1>2 DEF ScreensAreSnapshots, BlankInv

LEMMA ClicksKept ==
    ASSUME IInv, WorkbenchTypeOK, ClicksInv, RowsGrow, clicked' \subseteq Click,
           \A k \in clicked' : \/ k \in clicked
                               \/ /\ Snapshot(k.id, k.row)
                                  /\ k.row.status = "awaiting_approval"
    PROVE  ClicksInv'
<1> SUFFICES ASSUME NEW k \in clicked'
             PROVE  /\ k.row.version \in 1 .. incidents'[k.id].version
                    /\ k.row.version = incidents'[k.id].version => k.row = incidents'[k.id]
                    /\ k.row.status = "awaiting_approval"
  BY DEF ClicksInv, Snapshot
<1>1. PICK i \in Incidents, row \in Row : k.id = i /\ k.row = row
  BY DEF Click
<1>2. Snapshot(i, row) /\ k.row.status = "awaiting_approval"
  BY <1>1 DEF ClicksInv
<1>3. /\ row.version \in 1 .. incidents'[i].version
      /\ row.version = incidents'[i].version => row = incidents'[i]
  BY <1>2, SnapshotKept
<1> QED BY <1>1, <1>2, <1>3

\* Requests and buttons: a request keeps its button, and a refusal stays one.
LEMMA RequestsKept ==
    ASSUME IInv, WorkbenchTypeOK, PressedInv, RefusedInv, RowsGrow,
           clicked \subseteq clicked',
           NEW s \in Requests,
           \/ req'[s] = req[s]
           \/ req'[s].op # "decide"
    PROVE  /\ req'[s].op = "decide" => Pressed(req[s])'
           /\ Refused(req[s])'
<1>1. CASE req'[s] = req[s]
  <2>1. req'[s].op = "decide" => Pressed(req[s])'
    BY <1>1 DEF PressedInv, Pressed
  <2>2. Refused(req[s])'
    <3> DEFINE q == req[s]
    <3> SUFFICES ASSUME q.op = "decide", q.pc \in {"close", "done"}, q.code = 409
                 PROVE  /\ incidents'[q.id].version > q.expected
                        /\ ~(/\ incidents'[q.id].status = Verdict(q.approve)
                             /\ incidents'[q.id].version = q.expected + 1)
      BY <1>1 DEF Refused
    <3>1. q \in Request /\ q.id \in Incidents /\ q.expected \in Nat
      BY DEF IInv, TypeOK, RequestsInv, RequestOK, StepOK, Request
    <3>2. /\ incidents[q.id].version > q.expected
          /\ ~(/\ incidents[q.id].status = Verdict(q.approve)
               /\ incidents[q.id].version = q.expected + 1)
      BY DEF RefusedInv, Refused
    <3>3. incidents[q.id].version \in Nat
      BY <3>1 DEF IInv, TypeOK, Row
    <3> HIDE DEF q
    <3> QED BY <3>1, <3>2, <3>3 DEF RowsGrow
  <2> QED BY <2>1, <2>2
<1>2. CASE req'[s].op # "decide"
  BY <1>2 DEF Refused
<1> QED BY <1>1, <1>2

\* A decided row is what it was: no row grows beyond a decision.
LEMMA DecidedKept ==
    ASSUME IInv, DecidedAsReviewed, clicked \subseteq clicked',
           NEW i \in Incidents, incidents'[i] = incidents[i]
    PROVE  incidents'[i].status \in Final =>
               [id |-> i, owner |-> incidents'[i].owner,
                approve |-> incidents'[i].status = "completed",
                row |-> Undecided(incidents'[i])] \in clicked'
BY DEF DecidedAsReviewed

\* The row a decision was made on is the decided one, undone.
LEMMA UndecidedDecided ==
    ASSUME NEW row \in Row, row.status = "awaiting_approval", NEW approve \in BOOLEAN
    PROVE  Undecided(Decided(row, approve)) = row
<1>1. row = [owner |-> row.owner, version |-> row.version, status |-> row.status,
             facts |-> row.facts, plan |-> row.plan]
  BY DEF Row
<1>2. row.version \in Nat
  BY DEF Row
<1>3. (row.version + 1) - 1 = row.version
  BY <1>2
<1> QED BY <1>1, <1>3 DEF Undecided, Decided, Record

\* A decision commits under the button that asked for it.
LEMMA CommitDecides ==
    ASSUME WInv, NEW r \in Requests, Commit(r), UNCHANGED clicked
    PROVE  DecidedAsReviewed'
<1> DEFINE q == req[r]
           stored == incidents[q.id]
<1>1. /\ q \in Request /\ q.id \in Incidents /\ q.row \in Row
      /\ q.op \in {"create", "revise", "decide"}
      /\ incidents' = [incidents EXCEPT ![q.id] = q.row]
  BY CommitFacts DEF WInv
<1>2. /\ incidents \in [Incidents -> Row] /\ RequestOK(q) /\ q.pc = "commit"
      /\ q.approve \in BOOLEAN /\ q.expected \in Nat
  BY <1>1 DEF WInv, IInv, TypeOK, RequestsInv, Commit, Request
<1>3. ASSUME NEW i \in Incidents \ {q.id}
      PROVE  incidents'[i].status \in Final =>
                 [id |-> i, owner |-> incidents'[i].owner,
                  approve |-> incidents'[i].status = "completed",
                  row |-> Undecided(incidents'[i])] \in clicked'
  BY <1>1, <1>2, DecidedKept DEF WInv
<1>4. CASE q.op \in {"create", "revise"}
  <2>1. Workflow!Outcome(q.facts, q.row.status, q.row.plan)
    BY <1>2, <1>4 DEF RequestOK, PrepareOK
  <2>2. incidents'[q.id].status \notin Final
    BY <1>1, <1>2, <2>1 DEF Workflow!Outcome, Final
  <2> QED BY <1>3, <2>2 DEF DecidedAsReviewed
<1>5. CASE q.op = "decide"
  <2>1. /\ stored.owner = q.owner /\ stored.version = q.expected
        /\ stored.status = "awaiting_approval" /\ q.row = Decided(stored, q.approve)
    BY <1>2, <1>5 DEF RequestOK, DecideOK, Owned, Decidable
  <2>2. PICK k \in clicked : /\ k.id = q.id /\ k.owner = q.owner
                             /\ k.approve = q.approve /\ k.row.version = q.expected
    BY <1>5 DEF WInv, PressedInv, Pressed
  <2>3. k.row = stored
    BY <2>1, <2>2 DEF WInv, ClicksInv, Snapshot
  <2>4. k = [id |-> q.id, owner |-> stored.owner, approve |-> q.approve, row |-> stored]
    BY <2>1, <2>2, <2>3 DEF WInv, WorkbenchTypeOK, Click
  <2>5. incidents'[q.id] = Decided(stored, q.approve)
    BY <1>1, <1>2, <2>1
  <2>6. stored \in Row
    BY <1>1, <1>2
  <2> HIDE DEF q, stored
  <2>7. /\ incidents'[q.id].owner = stored.owner
        /\ incidents'[q.id].status = Verdict(q.approve)
        /\ Undecided(incidents'[q.id]) = stored
    BY <1>2, <2>1, <2>5, <2>6, UndecidedDecided DEF Decided, Record
  <2>8. (incidents'[q.id].status = "completed") = q.approve
    BY <1>2, <2>7 DEF Verdict
  <2>9. [id |-> q.id, owner |-> incidents'[q.id].owner,
         approve |-> incidents'[q.id].status = "completed",
         row |-> Undecided(incidents'[q.id])] \in clicked'
    BY <2>2, <2>4, <2>7, <2>8
  <2> QED BY <1>3, <2>9 DEF DecidedAsReviewed, q
<1> QED BY <1>1, <1>4, <1>5

\* A step that commits nothing leaves every decision as it was.
LEMMA NothingDecided ==
    ASSUME WInv, UNCHANGED incidents, clicked \subseteq clicked'
    PROVE  DecidedAsReviewed' /\ RowsGrow
<1>1. \A i \in Incidents : incidents'[i] = incidents[i]
  OBVIOUS
<1>2. DecidedAsReviewed'
  BY <1>1, DecidedKept DEF WInv, DecidedAsReviewed
<1> QED BY <1>1, <1>2 DEF RowsGrow

\* A request arrives from a tab: the tables, the screens and the logins stay.
LEMMA ArrivalKeeps ==
    ASSUME WInv, IInv', NEW c \in Clients, NEW r \in Requests, NEW q \in Request,
           Arrive(r, q), Send(c, r), clicked \subseteq clicked', clicked' \subseteq Click,
           \A k \in clicked' : \/ k \in clicked
                               \/ /\ Snapshot(k.id, k.row)
                                  /\ k.row.status = "awaiting_approval",
           q.pc \notin {"close", "done"},
           q.op = "decide" => Pressed(q)'
    PROVE  WInv'
<1>1. /\ UNCHANGED <<incidents, screen, login>>
      /\ waiting' = [waiting EXCEPT ![c] = r]
      /\ req' = [req EXCEPT ![r] = q] /\ req \in [Requests -> Request]
  BY DEF Arrive, Becomes, Send, tables, WInv, IInv, TypeOK
<1>2. WorkbenchTypeOK'
  BY <1>1 DEF WInv, WorkbenchTypeOK, IInv
<1>3. DecidedAsReviewed' /\ RowsGrow
  BY <1>1, NothingDecided
<1>4. ScreensAreSnapshots' /\ BlankInv'
  BY <1>1, <1>2, <1>3, ScreensKept DEF WInv, WorkbenchTypeOK
<1>5. ClicksInv'
  BY <1>3, ClicksKept DEF WInv
<1>6. ASSUME NEW s \in Requests
      PROVE  (req'[s].op = "decide" => Pressed(req[s])') /\ Refused(req[s])'
  <2>1. CASE s = r
    <3>1. req'[s] = q
      BY <1>1, <2>1
    <3>2. Refused(req[s])'
      BY <3>1 DEF Refused
    <3>3. Pressed(req[s])' = Pressed(q)'
      BY <3>1 DEF Pressed
    <3> QED BY <3>1, <3>2, <3>3
  <2>2. CASE s # r
    BY <1>1, <1>3, <2>2, RequestsKept DEF WInv
  <2> QED BY <2>1, <2>2
<1> QED BY <1>2, <1>3, <1>4, <1>5, <1>6 DEF WInv, PressedInv, RefusedInv

LEMMA SubmitNewKeeps ==
    ASSUME WInv, NEW c \in Clients, NEW r \in Requests, SubmitNew(c, r)
    PROVE  WInv'
<1>1. PICK facts \in Facts : CreateArrives(r, login[c], facts)
  BY DEF SubmitNew
<1>2. login[c] \in Owners
  BY DEF WInv, WorkbenchTypeOK
<1>3. IInv'
  <2>1. PICK owner \in Owners : owner = login[c]
    BY <1>2
  <2> QED BY <1>1, <2>1, CreateArrivesInv DEF WInv
<1>4. PICK i \in Incidents :
          Arrive(r, Received(AfterFacts(facts), "create", login[c], i, 0, facts,
                             FALSE, Blank(login[c], 1, facts)))
  BY <1>1 DEF CreateArrives
<1>5. PICK q : q = Received(AfterFacts(facts), "create", login[c], i, 0, facts,
                            FALSE, Blank(login[c], 1, facts))
  OBVIOUS
<1>6. q.pc \notin {"close", "done"} /\ q.op = "create" /\ Arrive(r, q)
  BY <1>4, <1>5 DEF Received, AfterFacts
<1>7. q = req'[r]
  BY <1>6 DEF Arrive, Becomes, WInv, IInv, TypeOK
<1>8. q \in Request
  BY <1>3, <1>7 DEF IInv, TypeOK
<1>9. Send(c, r) /\ clicked' = clicked
  BY DEF SubmitNew
<1> QED BY <1>3, <1>6, <1>8, <1>9, ArrivalKeeps DEF WInv, WorkbenchTypeOK

LEMMA SubmitRevisionKeeps ==
    ASSUME WInv, NEW c \in Clients, NEW r \in Requests, SubmitRevision(c, r)
    PROVE  WInv'
<1>a. PICK facts \in Facts :
          ReviseArrives(r, login[c], screen[c].id, screen[c].row.version, facts)
  BY DEF SubmitRevision
<1>b. PICK i, version : i = screen[c].id /\ version = screen[c].row.version
  OBVIOUS
<1>1. ReviseArrives(r, login[c], i, version, facts)
  BY <1>a, <1>b
<1>2. i \in Incidents /\ version \in Nat \ {0}
  BY <1>b DEF SubmitRevision, WInv, WorkbenchTypeOK, Screen, ScreensAreSnapshots,
              IInv, TypeOK, Row
<1>3. PICK owner \in Owners : owner = login[c]
  BY DEF WInv, WorkbenchTypeOK
<1>4. ReviseArrives(r, owner, i, version, facts)
  BY <1>1, <1>3
<1>5. IInv'
  BY <1>2, <1>4, ReviseArrivesInv DEF WInv
<1>6. PICK q : q = Received("get", "revise", owner, i, version, facts, FALSE, NoRow)
  OBVIOUS
<1>7. q.pc \notin {"close", "done"} /\ q.op = "revise" /\ Arrive(r, q)
  BY <1>4, <1>6 DEF Received, ReviseArrives
<1>8. q = req'[r]
  BY <1>7 DEF Arrive, Becomes, WInv, IInv, TypeOK
<1>9. q \in Request
  BY <1>5, <1>8 DEF IInv, TypeOK
<1>10. Send(c, r) /\ clicked' = clicked
  BY DEF SubmitRevision
<1> QED BY <1>5, <1>7, <1>9, <1>10, ArrivalKeeps DEF WInv, WorkbenchTypeOK

LEMMA PressDecisionKeeps ==
    ASSUME WInv, NEW c \in Clients, NEW r \in Requests, NEW approve \in BOOLEAN,
           PressDecision(c, r, approve)
    PROVE  WInv'
<1>1. PICK i, row : i = screen[c].id /\ row = screen[c].row
  OBVIOUS
<1>2. row.status = "awaiting_approval"
  BY <1>1 DEF PressDecision
<1>3. i \in Incidents /\ row \in Row
  BY <1>1, <1>2 DEF WInv, WorkbenchTypeOK, Screen, BlankInv, NoRow
<1>4. Snapshot(i, row)
  BY <1>1, <1>3, ConstantsAssumption DEF WInv, ScreensAreSnapshots, Snapshot
<1>5. PICK owner \in Owners : owner = login[c]
  BY DEF WInv, WorkbenchTypeOK
<1>6. PICK k : k = [id |-> i, owner |-> owner, approve |-> approve, row |-> row]
  OBVIOUS
<1>7. /\ DecideArrives(r, owner, i, row.version, approve) /\ Send(c, r)
      /\ clicked' = clicked \cup {k}
  BY <1>1, <1>5, <1>6 DEF PressDecision
<1>8. row.version \in Nat
  BY <1>3 DEF Row
<1>9. IInv'
  BY <1>3, <1>7, <1>8, DecideArrivesInv DEF WInv
<1>10. PICK q : q = Received("begin", "decide", owner, i, row.version, NoFacts, approve, NoRow)
  OBVIOUS
<1>11. /\ q.pc = "begin" /\ q.op = "decide" /\ Arrive(r, q)
       /\ q.id = i /\ q.owner = owner /\ q.approve = approve /\ q.expected = row.version
  BY <1>7, <1>10 DEF Received, DecideArrives
<1>12. q = req'[r]
  BY <1>11 DEF Arrive, Becomes, WInv, IInv, TypeOK
<1>13. q \in Request
  BY <1>9, <1>12 DEF IInv, TypeOK
<1>14. k \in Click /\ k.id = i /\ k.owner = owner /\ k.approve = approve /\ k.row = row
  BY <1>3, <1>6 DEF Click
<1>15. Pressed(q)'
  BY <1>7, <1>11, <1>14 DEF Pressed
<1>16. clicked \subseteq clicked' /\ clicked' \subseteq Click
  BY <1>7, <1>14 DEF WInv, WorkbenchTypeOK
<1>17. \A l \in clicked' : \/ l \in clicked
                           \/ Snapshot(l.id, l.row) /\ l.row.status = "awaiting_approval"
  BY <1>2, <1>4, <1>7, <1>14
<1> QED BY <1>7, <1>9, <1>11, <1>13, <1>15, <1>16, <1>17, ArrivalKeeps

LEMMA RestoreKeeps ==
    ASSUME WInv, NEW c \in Clients, NEW r \in Requests, Restore(c, r)
    PROVE  WInv'
<1>1. PICK i \in Incidents : ReadArrives(r, login[c], i)
  BY DEF Restore
<1>2. PICK owner \in Owners : owner = login[c]
  BY DEF WInv, WorkbenchTypeOK
<1>3. ReadArrives(r, owner, i)
  BY <1>1, <1>2
<1>4. IInv'
  BY <1>3, ReadArrivesInv DEF WInv
<1>5. PICK q : q = Received("read", "read", owner, i, 0, NoFacts, FALSE, NoRow)
  OBVIOUS
<1>6. q.pc \notin {"close", "done"} /\ q.op = "read" /\ Arrive(r, q)
  BY <1>3, <1>5 DEF Received, ReadArrives
<1>7. q = req'[r]
  BY <1>6 DEF Arrive, Becomes, WInv, IInv, TypeOK
<1>8. q \in Request
  BY <1>4, <1>7 DEF IInv, TypeOK
<1>9. Send(c, r) /\ clicked' = clicked
  BY DEF Restore
<1> QED BY <1>4, <1>6, <1>8, <1>9, ArrivalKeeps DEF WInv, WorkbenchTypeOK

\* A handler's step: rows grow, its own request moves on.
LEMMA ServerStepKeeps ==
    ASSUME WInv, NEW r \in Requests, ServerStep(r)
    PROVE  WInv'
<1>1. Handle(r) /\ UNCHANGED <<screen, waiting, login, clicked>>
  BY DEF ServerStep, clientVars
<1>2. IInv' /\ RowsGrow
  BY <1>1, HandleInv, HandleGrows DEF WInv
<1>3. WorkbenchTypeOK'
  BY <1>1, <1>2 DEF WInv, WorkbenchTypeOK, IInv
<1>4. DecidedAsReviewed'
  <2>1. CASE Commit(r)
    BY <1>1, <2>1, CommitDecides
  <2>2. CASE ~Commit(r)
    BY <1>1, <2>2, OtherHandlers, NothingDecided
  <2> QED BY <2>1, <2>2
<1>5. ScreensAreSnapshots' /\ BlankInv'
  BY <1>1, <1>2, <1>3, ScreensKept DEF WInv, WorkbenchTypeOK
<1>6. ClicksInv'
  BY <1>1, <1>2, ClicksKept DEF WInv, WorkbenchTypeOK
<1>7. ASSUME NEW s \in Requests \ {r}
      PROVE  (req'[s].op = "decide" => Pressed(req[s])') /\ Refused(req[s])'
  BY <1>1, <1>2, HandleFrame, RequestsKept DEF WInv
<1>8. req'[r].op = "decide" => Pressed(req[r])'
  BY <1>1, HandleFrame DEF WInv, PressedInv, Pressed
<1>9. Refused(req[r])'
  <2> DEFINE q == req[r]
             stored == incidents[q.id]
  <2> SUFFICES ASSUME req'[r].op = "decide", req'[r].pc \in {"close", "done"},
                      req'[r].code = 409
               PROVE  /\ incidents'[q.id].version > q.expected
                      /\ ~(/\ incidents'[q.id].status = Verdict(q.approve)
                           /\ incidents'[q.id].version = q.expected + 1)
    BY <1>1, HandleFrame DEF Refused, WInv
  <2>1. /\ q \in Request /\ q.id \in Incidents /\ q.expected \in Nat /\ q.op = "decide"
        /\ stored.version \in Nat
    BY <1>1, HandleFrame DEF WInv, IInv, TypeOK, RequestsInv, RequestOK, StepOK, Request, Row
  <2>2. CASE q.pc = "close" /\ q.code = 409
    <3>1. /\ stored.version > q.expected
          /\ ~(stored.status = Verdict(q.approve) /\ stored.version = q.expected + 1)
      BY <2>1, <2>2 DEF WInv, RefusedInv, Refused
    <3> HIDE DEF q
    <3> QED BY <1>2, <2>1, <3>1 DEF RowsGrow
  <2>3. CASE ~(q.pc = "close" /\ q.code = 409)
    <3>1. ~AlreadyDecided(q, stored) /\ ~Decidable(q, stored)
      BY <1>1, <2>1, <2>3, RefusedBySelect DEF WInv
    <3>2. PICK k \in clicked : k.id = q.id /\ k.row.version = q.expected
      BY <2>1 DEF WInv, PressedInv, Pressed
    <3>3. /\ k.row.version \in 1 .. stored.version
          /\ k.row.version = stored.version => k.row = stored
          /\ k.row.status = "awaiting_approval"
      BY <3>2 DEF WInv, ClicksInv, Snapshot
    <3>4. stored.version > q.expected
      BY <2>1, <3>1, <3>2, <3>3 DEF Decidable
    <3> HIDE DEF q
    <3> QED BY <1>2, <2>1, <3>1, <3>4 DEF RowsGrow, AlreadyDecided
  <2> QED BY <2>2, <2>3
<1> QED
  BY <1>2, <1>3, <1>4, <1>5, <1>6, <1>7, <1>8, <1>9 DEF WInv, PressedInv, RefusedInv

\* What is not on the server: the tables stay, requests stay or end.
LEMMA TabStepKeeps ==
    ASSUME WInv, IInv', UNCHANGED <<incidents, clicked>>, WorkbenchTypeOK',
           \A c \in Clients :
               \/ screen'[c] = screen[c]
               \/ screen'[c] = Blankscreen
               \/ screen'[c].id # NoIncident /\ Snapshot(screen'[c].id, screen'[c].row),
           \A s \in Requests : req'[s] = req[s] \/ req'[s] = Idle
    PROVE  WInv'
<1>1. DecidedAsReviewed' /\ RowsGrow
  BY NothingDecided
<1>2. ScreensAreSnapshots' /\ BlankInv'
  BY <1>1, ScreensKept DEF WInv, WorkbenchTypeOK
<1>3. ClicksInv'
  BY <1>1, ClicksKept DEF WInv, WorkbenchTypeOK
<1>4. Idle.op = "none"
  BY DEF Idle, Received
<1>5. ASSUME NEW s \in Requests
      PROVE  (req'[s].op = "decide" => Pressed(req[s])') /\ Refused(req[s])'
  <2>1. req'[s] = req[s] \/ req'[s].op # "decide"
    BY <1>4
  <2> QED BY <1>1, <2>1, RequestsKept DEF WInv
<1> QED BY <1>1, <1>2, <1>3, <1>5 DEF WInv, PressedInv, RefusedInv

LEMMA ReturnFrame ==
    ASSUME WInv, NEW r \in Requests, Return(r)
    PROVE  /\ IInv' /\ UNCHANGED incidents
           /\ \A s \in Requests : req'[s] = req[s] \/ req'[s] = Idle
BY ReturnInv DEF Return, Becomes, tables, WInv, IInv, TypeOK

\* A tab renders an answer: what a 200 carries is a committed row.
LEMMA ReceiveKeeps ==
    ASSUME WInv, NEW c \in Clients, NEW r \in Requests, Receive(c, r)
    PROVE  WInv'
<1>1. IInv' /\ UNCHANGED incidents /\ \A s \in Requests : req'[s] = req[s] \/ req'[s] = Idle
  BY ReturnFrame DEF Receive
<1>2. /\ req[r] \in Request /\ RequestOK(req[r]) /\ req[r].pc = "done"
      /\ req[r].id \in Incidents /\ req[r].row \in Row
  BY DEF Receive, Return, WInv, IInv, TypeOK, RequestsInv, RequestOK, StepOK, Request
<1>3. PICK i \in Incidents, row \in Row : i = req[r].id /\ row = req[r].row
  BY <1>2
<1>4. req[r].code = 200 => Snapshot(i, row)
  BY <1>2, <1>3 DEF RequestOK, AnswerOK, Snapshot
<1>5. PICK shown : shown = [id |-> i, row |-> row]
  OBVIOUS
<1>6. shown \in Screen /\ shown.id = i /\ shown.row = row /\ i # NoIncident
  BY <1>3, <1>5, ConstantsAssumption DEF Screen
<1>7. screen \in [Clients -> Screen]
  BY DEF WInv, WorkbenchTypeOK
<1>8. /\ waiting' = [waiting EXCEPT ![c] = NoRequest]
      /\ screen' = IF req[r].code = 200 THEN [screen EXCEPT ![c] = shown] ELSE screen
      /\ UNCHANGED <<login, clicked>>
  BY <1>3, <1>5 DEF Receive
<1>9. /\ screen' \in [Clients -> Screen]
      /\ \A d \in Clients : \/ screen'[d] = screen[d]
                            \/ screen'[d] = shown /\ req[r].code = 200
  BY <1>6, <1>7, <1>8
<1>10. WorkbenchTypeOK'
  BY <1>1, <1>8, <1>9 DEF WInv, WorkbenchTypeOK, IInv
<1>11. \A d \in Clients :
           \/ screen'[d] = screen[d]
           \/ screen'[d].id # NoIncident /\ Snapshot(screen'[d].id, screen'[d].row)
  BY <1>4, <1>6, <1>9
<1> QED BY <1>1, <1>8, <1>10, <1>11, TabStepKeeps

LEMMA WorkbenchStep == WInv /\ [WorkbenchNext]_vars => WInv'
<1> SUFFICES ASSUME WInv, [WorkbenchNext]_vars PROVE WInv'
  OBVIOUS
<1>0. IInv /\ WorkbenchTypeOK
  BY DEF WInv
<1>1. ASSUME NEW r \in Requests, DropAnswer(r) PROVE WInv'
  <2>1. IInv' /\ UNCHANGED incidents /\ \A s \in Requests : req'[s] = req[s] \/ req'[s] = Idle
    BY <1>1, ReturnFrame DEF DropAnswer
  <2>2. UNCHANGED <<screen, waiting, login, clicked>>
    BY <1>1 DEF DropAnswer, clientVars
  <2>3. WorkbenchTypeOK'
    BY <1>0, <2>1, <2>2 DEF WorkbenchTypeOK, IInv
  <2> QED BY <2>1, <2>2, <2>3, TabStepKeeps
<1>2. ASSUME NEW r \in Requests, ServerStep(r) PROVE WInv'
  BY <1>2, ServerStepKeeps
<1>3. ASSUME NEW r \in Requests, NEW c \in Clients,
             \/ SubmitNew(c, r) \/ SubmitRevision(c, r) \/ Restore(c, r) \/ Receive(c, r)
             \/ \E approve \in BOOLEAN : PressDecision(c, r, approve)
      PROVE  WInv'
  BY <1>3, SubmitNewKeeps, SubmitRevisionKeeps, RestoreKeeps, ReceiveKeeps, PressDecisionKeeps
<1>4. ASSUME UNCHANGED serviceVars, UNCHANGED clicked, WorkbenchTypeOK',
             \A c \in Clients : screen'[c] = screen[c] \/ screen'[c] = Blankscreen
      PROVE  WInv'
  <2>1. IInv'
    BY <1>0, <1>4, NextInv
  <2>2. UNCHANGED <<incidents, req>>
    BY <1>4 DEF serviceVars
  <2> QED BY <1>4, <2>1, <2>2, TabStepKeeps
<1>5. ASSUME UNCHANGED serviceVars PROVE TypeOK'
  BY <1>0, <1>5, NextInv DEF IInv
<1>6. ASSUME NEW c \in Clients, SwitchLogin(c) PROVE WInv'
  <2>1. PICK owner \in Owners : login' = [login EXCEPT ![c] = owner]
    BY <1>6 DEF SwitchLogin
  <2>2. UNCHANGED <<serviceVars, screen, waiting, clicked>>
    BY <1>6 DEF SwitchLogin
  <2>3. WorkbenchTypeOK'
    BY <1>0, <1>5, <2>1, <2>2 DEF WorkbenchTypeOK
  <2> QED BY <1>4, <2>2, <2>3
<1>7. ASSUME NEW c \in Clients, Reload(c) PROVE WInv'
  <2>1. /\ screen' = [screen EXCEPT ![c] = Blankscreen]
        /\ waiting' = [waiting EXCEPT ![c] = NoRequest]
        /\ UNCHANGED <<serviceVars, login, clicked>>
    BY <1>7 DEF Reload
  <2>2. Blankscreen \in Screen
    BY NoRowType DEF Blankscreen, Screen
  <2>3. WorkbenchTypeOK'
    BY <1>0, <1>5, <2>1, <2>2 DEF WorkbenchTypeOK
  <2>4. \A d \in Clients : screen'[d] = screen[d] \/ screen'[d] = Blankscreen
    BY <1>0, <2>1 DEF WorkbenchTypeOK
  <2> QED BY <1>4, <2>1, <2>3, <2>4
<1>8. ASSUME NEW c \in Clients, ConnectionLost(c) PROVE WInv'
  <2>1. /\ waiting' = [waiting EXCEPT ![c] = NoRequest]
        /\ UNCHANGED <<serviceVars, screen, login, clicked>>
    BY <1>8 DEF ConnectionLost
  <2>2. WorkbenchTypeOK'
    BY <1>0, <1>5, <2>1 DEF WorkbenchTypeOK
  <2> QED BY <1>4, <2>1, <2>2
<1>9. CASE ServerCrash
  <2>1. /\ IInv' /\ UNCHANGED incidents
        /\ \A s \in Requests : req'[s] = Idle
    BY <1>0, <1>9, CrashInv DEF ServerCrash, Crash, tables
  <2>2. /\ waiting' = [c \in Clients |-> NoRequest]
        /\ UNCHANGED <<screen, login, clicked>>
    BY <1>9 DEF ServerCrash
  <2>3. WorkbenchTypeOK'
    BY <1>0, <2>1, <2>2 DEF WorkbenchTypeOK, IInv
  <2> QED BY <2>1, <2>2, <2>3, TabStepKeeps
<1>10. CASE UNCHANGED vars
  <2>1. UNCHANGED <<serviceVars, screen, waiting, login, clicked>>
    BY <1>10 DEF vars, clientVars
  <2>2. WorkbenchTypeOK'
    BY <1>0, <1>5, <2>1 DEF WorkbenchTypeOK
  <2> QED BY <1>4, <2>1, <2>2
<1> QED
  BY <1>1, <1>2, <1>3, <1>6, <1>7, <1>8, <1>9, <1>10 DEF WorkbenchNext

LEMMA WorkbenchInitInv == WorkbenchInit => WInv
<1> SUFFICES ASSUME WorkbenchInit PROVE WInv
  OBVIOUS
<1>1. Init /\ IInv
  BY InitIInv DEF WorkbenchInit
<1>2. Blankscreen \in Screen /\ Blankscreen.id = NoIncident /\ Blankscreen.row = NoRow
  BY NoRowType DEF Blankscreen, Screen
<1>3. /\ \A c \in Clients : screen[c] = Blankscreen /\ screen \in [Clients -> Screen]
      /\ clicked = {} /\ login \in [Clients -> Owners]
      /\ waiting \in [Clients -> Requests \cup {NoRequest}]
  BY <1>2 DEF WorkbenchInit
<1>4. WorkbenchTypeOK
  BY <1>1, <1>2, <1>3 DEF WorkbenchInit, WorkbenchTypeOK, IInv
<1>5. \A r \in Requests : req[r] = Idle /\ Idle.op = "none"
  BY <1>1 DEF Init, Idle, Received
<1>6. PressedInv /\ RefusedInv
  BY <1>5 DEF PressedInv, RefusedInv, Refused
<1>7. \A i \in Incidents : incidents[i].status = "absent"
  BY <1>1 DEF Init, NoRow
<1>8. DecidedAsReviewed
  BY <1>7 DEF DecidedAsReviewed, Final
<1> QED
  BY <1>1, <1>2, <1>3, <1>4, <1>6, <1>8
  DEF WInv, BlankInv, ScreensAreSnapshots, ClicksInv

-----------------------------------------------------------------------------
(***************************************************************************)
(* Theorems about the page on top of the service.                          *)
(***************************************************************************)

\* WInv holds in every state of any number of tabs, logins and requests.
THEOREM WorkbenchInvariance == WorkbenchSpec => []WInv
<1>. QED
  BY WorkbenchInitInv, WorkbenchStep, PTL DEF WorkbenchSpec

\* Tabs, logins, pressed buttons and the service below keep their types.
THEOREM WorkbenchTypeCorrect == WorkbenchSpec => []WorkbenchTypeOK
<1>1. WInv => WorkbenchTypeOK
  BY DEF WInv
<1>. QED
  BY <1>1, WorkbenchInvariance, PTL

\* Behind every decided incident is a button its owner pressed under exactly
\* the row that was decided (routes.py:68).
THEOREM DecisionsReviewed == WorkbenchSpec => []DecidedAsReviewed
<1>1. WInv => DecidedAsReviewed
  BY DEF WInv
<1>. QED
  BY <1>1, WorkbenchInvariance, PTL

\* A tab shows the stored row or an earlier version of it (store.py:59-60).
THEOREM ScreensTrue == WorkbenchSpec => []ScreensAreSnapshots
<1>1. WInv => ScreensAreSnapshots
  BY DEF WInv
<1>. QED
  BY <1>1, WorkbenchInvariance, PTL

\* A decision refused with 409 did not happen (store.py:63).
THEOREM RefusalsHold == WorkbenchSpec => []RefusedIsNotDecided
<1>1. WInv => RefusedIsNotDecided
  BY DEF WInv, RefusedInv, Refused, RefusedIsNotDecided
<1>. QED
  BY <1>1, WorkbenchInvariance, PTL

\* The page adds no way to change an incident: with tabs, reloads and broken
\* connections the stored rows still follow the atomic workflow.
THEOREM PageImplementsWorkflow == WorkbenchSpec => ImplementsWorkflow
<1>1. WorkbenchInit => Workflow!Init
  BY SharedData DEF WorkbenchInit, Init, Workflow!Init
<1>2. WInv /\ [WorkbenchNext]_vars => [Workflow!Next]_(Workflow!vars)
  <2> SUFFICES ASSUME WInv, [WorkbenchNext]_vars
               PROVE  Workflow!Next \/ UNCHANGED <<incidents, tickets>>
    BY DEF Workflow!vars
  <2>1. ASSUME NEW r \in Requests, Handle(r)
        PROVE  Workflow!Next \/ UNCHANGED <<incidents, tickets>>
    BY <2>1, CommitRefines, OtherHandlers DEF WInv
  <2>2. ASSUME NEW r \in Requests, Return(r) PROVE UNCHANGED <<incidents, tickets>>
    BY <2>2 DEF Return, tables
  <2>3. ASSUME NEW r \in Requests, NEW c \in Clients,
               \/ SubmitNew(c, r) \/ SubmitRevision(c, r) \/ Restore(c, r)
               \/ \E approve \in BOOLEAN : PressDecision(c, r, approve)
        PROVE  UNCHANGED <<incidents, tickets>>
    BY <2>3 DEF SubmitNew, SubmitRevision, Restore, PressDecision,
                CreateArrives, ReadArrives, ReviseArrives, DecideArrives, Arrive, tables
  <2>4. ASSUME NEW c \in Clients, SwitchLogin(c) \/ Reload(c) \/ ConnectionLost(c)
        PROVE  UNCHANGED <<incidents, tickets>>
    BY <2>4 DEF SwitchLogin, Reload, ConnectionLost, serviceVars, tables
  <2>5. CASE ServerCrash
    BY <2>5 DEF ServerCrash, Crash, tables
  <2>6. CASE UNCHANGED vars
    BY <2>6 DEF vars, serviceVars, tables
  <2>. QED
    BY <2>1, <2>2, <2>3, <2>4, <2>5, <2>6 DEF WorkbenchNext, ServerStep, DropAnswer, Receive
<1>. QED
  BY <1>1, <1>2, WorkbenchInvariance, PTL DEF WorkbenchSpec, ImplementsWorkflow, Workflow!Spec

=============================================================================
