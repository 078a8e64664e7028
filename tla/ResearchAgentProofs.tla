------------------------- MODULE ResearchAgentProofs -------------------------
(***************************************************************************)
(* Proofs about ResearchAgent for every budget, every finite set of chunks *)
(* and every answer the model and the search may give.                     *)
(***************************************************************************)
EXTENDS ResearchAgent, FiniteSetTheorems, TLAPS

\* How many model calls an investigation has made at each step.
CallsInv ==
    /\ pc = "start" => modelCalls = 0 /\ searchCalls = 0
    /\ pc = "plan" => modelCalls = 1 /\ searchCalls = 0
    /\ pc \in {"search", "merge"} => modelCalls = searchCalls
    /\ pc = "assess" => modelCalls = searchCalls + 1
    /\ pc = "propose" => modelCalls = searchCalls + 2
    /\ pc = "verify" => modelCalls = searchCalls + 3

\* Until it is done an investigation has concluded nothing.
OpenInv == pc # "done" => status = "abstain"

Covered ==
    \A i \in 0 .. questions - 1 :
        \E k \in DOMAIN coverage :
            /\ coverage[k].index = i
            /\ coverage[k].ids # {} /\ coverage[k].ids \subseteq Evidence

\* What has been accepted on the way to the verdict.
GatesInv ==
    /\ pc \in {"propose", "verify"} => Covered
    /\ pc = "verify" => draft \in Proposals /\ Grounded(draft)

Safety == BudgetsHold /\ ReadyIsEarned /\ NothingUnchecked

RInv ==
    /\ TypeOK
    /\ BudgetsHold
    /\ FreshQueries /\ IsFiniteSet(queries)
    /\ CallsInv
    /\ OpenInv
    /\ NothingUnchecked
    /\ GatesInv
    /\ ReadyIsEarned

-----------------------------------------------------------------------------
(***************************************************************************)
(* Facts about the operators.                                              *)
(***************************************************************************)

LEMMA InitRInv == Init => RInv
<1> SUFFICES ASSUME Init PROVE RInv
  OBVIOUS
<1>1. TypeOK
  BY ResearchAssumption DEF Init, TypeOK, ResearchStatus
<1>2. Evidence = {} /\ queries = {}
  BY DEF Init, Evidence
<1>3. BudgetsHold
  BY <1>2, ResearchAssumption, BudgetAssumption, FS_EmptySet DEF Init, BudgetsHold
<1>4. FreshQueries /\ IsFiniteSet(queries)
  BY <1>2, FS_EmptySet DEF Init, FreshQueries
<1>5. CallsInv /\ OpenInv /\ NothingUnchecked /\ GatesInv /\ ReadyIsEarned
  BY DEF Init, CallsInv, OpenInv, NothingUnchecked, GatesInv, ReadyIsEarned
<1>. QED
  BY <1>1, <1>3, <1>4, <1>5 DEF RInv

\* Another fresh query counts for one search.
LEMMA FreshQuery ==
    ASSUME FreshQueries, IsFiniteSet(queries), NEW query \in Queries,
           ~Stalled(query), queries' = queries \cup {query},
           searchCalls' = searchCalls + 1
    PROVE  FreshQueries' /\ IsFiniteSet(queries')
<1>1. query \notin queries
  BY DEF Stalled
<1>2. IsFiniteSet(queries') /\ Cardinality(queries') = Cardinality(queries) + 1
  BY <1>1, FS_AddElement
<1>. QED
  BY <1>2 DEF FreshQueries, Stalled

\* An investigation that stops without a verdict keeps what it has.
LEMMA StopInv ==
    ASSUME RInv, pc # "done", NEW outcome \in ResearchStatus \ {"ready", "conflict"},
           Stop(outcome), proposal' = NoProposal, conflicts' = {},
           UNCHANGED <<questions, queries, hits, calls, evidence>>,
           coverage' \in Seq(CoverageEntry), draft' \in Proposals \cup {NoProposal},
           verification' \in Seq(Verdict)
    PROVE  RInv'
<1>1. UNCHANGED <<searchCalls, modelCalls, kept, used>> /\ Evidence' = Evidence
  BY DEF calls, evidence, Evidence
<1>2. TypeOK'
  BY <1>1 DEF RInv, TypeOK, Stop
<1>3. BudgetsHold' /\ FreshQueries' /\ IsFiniteSet(queries')
  BY <1>1 DEF RInv, BudgetsHold, FreshQueries
<1>4. CallsInv' /\ OpenInv' /\ NothingUnchecked' /\ GatesInv' /\ ReadyIsEarned'
  BY DEF Stop, CallsInv, OpenInv, NothingUnchecked, GatesInv, ReadyIsEarned
<1>. QED
  BY <1>2, <1>3, <1>4 DEF RInv

\* The search loop is entered or left.
LEMMA TryQueryInv ==
    ASSUME RInv, NEW query \in Queries, TryQuery(query),
           \/ pc = "plan" /\ questions' \in 0 .. MaxQuestions
           \/ pc = "assess" /\ questions' = questions,
           UNCHANGED <<hits, coverage, draft, evidence, findings>>
    PROVE  RInv'
<1>1. /\ UNCHANGED <<hits, coverage, draft, kept, used, proposal, conflicts, verification>>
      /\ Evidence' = Evidence
  BY DEF evidence, findings, Evidence
<1>2. status = "abstain" /\ proposal = NoProposal /\ conflicts = {}
  BY DEF RInv, OpenInv, NothingUnchecked
<1>3. TypeOK'
  BY <1>1 DEF RInv, TypeOK, TryQuery, Stop, Awaiting, calls, ResearchStatus
<1>4. FreshQueries' /\ IsFiniteSet(queries')
  <2>1. CASE UNCHANGED <<queries, calls>>
    BY <2>1 DEF RInv, FreshQueries, calls
  <2>2. CASE ~Stalled(query) /\ queries' = queries \cup {query} /\ searchCalls' = searchCalls + 1
    BY <2>2, FreshQuery DEF RInv
  <2>. QED
    BY <2>1, <2>2 DEF TryQuery
<1>5. BudgetsHold'
  BY <1>1, BudgetAssumption DEF RInv, TypeOK, BudgetsHold, TryQuery, calls
<1>6. CallsInv' /\ OpenInv'
  BY <1>2, BudgetAssumption DEF RInv, TypeOK, CallsInv, OpenInv, TryQuery, Stop, calls
<1>7. NothingUnchecked' /\ GatesInv' /\ ReadyIsEarned'
  BY <1>1, <1>2 DEF NothingUnchecked, GatesInv, ReadyIsEarned, TryQuery, Stop
<1>. QED
  BY <1>3, <1>4, <1>5, <1>6, <1>7 DEF RInv

-----------------------------------------------------------------------------
(***************************************************************************)
(* The actions.                                                            *)
(***************************************************************************)

LEMMA BeginInv == RInv /\ Begin => RInv'
<1> SUFFICES ASSUME RInv, Begin PROVE RInv'
  OBVIOUS
<1>1. pc = "start" /\ modelCalls = 0 /\ searchCalls = 0 /\ modelCalls < ModelCalls
  BY BudgetAssumption DEF Begin, RInv, CallsInv
<1>2. /\ modelCalls' = 1 /\ pc' = "plan" /\ status' = status /\ searchCalls' = 0
      /\ UNCHANGED <<questions, queries, hits, coverage, draft, kept, used,
                     proposal, conflicts, verification>>
  BY <1>1, BudgetAssumption DEF Begin, TakeSlot, locals, evidence, findings
<1>3. Evidence' = Evidence
  BY <1>2 DEF Evidence
<1>4. TypeOK' /\ BudgetsHold' /\ FreshQueries' /\ IsFiniteSet(queries')
  BY <1>1, <1>2, <1>3, BudgetAssumption
     DEF RInv, TypeOK, Awaiting, BudgetsHold, FreshQueries
<1>5. CallsInv' /\ OpenInv' /\ NothingUnchecked' /\ GatesInv' /\ ReadyIsEarned'
  BY <1>1, <1>2 DEF RInv, CallsInv, OpenInv, NothingUnchecked, GatesInv, ReadyIsEarned
<1>. QED
  BY <1>4, <1>5 DEF RInv

LEMMA PlanInv == RInv /\ Plan => RInv'
<1> SUFFICES ASSUME RInv, Plan PROVE RInv'
  OBVIOUS
<1>1. PICK query \in Queries : TryQuery(query)
  BY DEF Plan
<1>2. questions' \in 0 .. MaxQuestions /\ pc = "plan"
      /\ UNCHANGED <<hits, coverage, draft, evidence, findings>>
  BY ResearchAssumption DEF Plan
<1>. QED
  BY <1>1, <1>2, TryQueryInv

LEMMA FoundType == Found \subseteq Seq(Sources)
  BY DEF Found

LEMMA SearchInv == ASSUME RInv, NEW found \in Found, Search(found) PROVE RInv'
<1>1. /\ pc = "search" /\ pc' = "merge" /\ hits' \in Seq(Sources)
      /\ UNCHANGED <<status, questions, queries, coverage, draft, searchCalls, modelCalls,
                     kept, used, proposal, conflicts, verification>>
  BY FoundType DEF Search, calls, evidence, findings
<1>2. Evidence' = Evidence
  BY <1>1 DEF Evidence
<1>3. TypeOK' /\ BudgetsHold' /\ FreshQueries' /\ IsFiniteSet(queries')
  BY <1>1, <1>2 DEF RInv, TypeOK, BudgetsHold, FreshQueries
<1>4. CallsInv' /\ OpenInv' /\ NothingUnchecked' /\ GatesInv' /\ ReadyIsEarned'
  BY <1>1 DEF RInv, CallsInv, OpenInv, NothingUnchecked, GatesInv, ReadyIsEarned
<1>. QED
  BY <1>3, <1>4 DEF RInv

\* A new excerpt takes at least one character and no more than is left.
LEMMA ClipBounds ==
    ASSUME NEW hit \in Sources, Size[hit] # 0, used \in Nat, used < ContextChars
    PROVE  /\ Clip(hit) \in Nat \ {0}
           /\ Clip(hit) <= Size[hit] /\ Clip(hit) <= ChunkChars
           /\ used + Clip(hit) <= ContextChars
<1>1. Size[hit] \in Nat \ {0} /\ ChunkChars \in Nat \ {0}
      /\ ContextChars - used \in Nat \ {0}
  BY ResearchAssumption, BudgetAssumption
<1>. DEFINE size == Size[hit]
            left == ContextChars - used
<1>2. size \in Nat \ {0} /\ left \in Nat \ {0} /\ Clip(hit) = Smaller(size, Smaller(ChunkChars, left))
  BY <1>1 DEF Clip
<1>3. /\ Clip(hit) \in Nat \ {0} /\ Clip(hit) <= size
      /\ Clip(hit) <= ChunkChars /\ Clip(hit) <= left
  <2>. HIDE DEF size, left
  <2>. QED
    BY <1>1, <1>2 DEF Smaller
<1>4. used + Clip(hit) <= ContextChars
  <2>. DEFINE clip == Clip(hit)
  <2>1. clip \in Nat /\ clip <= ContextChars - used
    BY <1>3
  <2>. HIDE DEF clip
  <2>2. used + clip <= ContextChars
    BY <2>1, BudgetAssumption
  <2>. QED
    BY <2>2 DEF clip
<1>. QED
  BY <1>3, <1>4

LEMMA MergeHitInv == RInv /\ MergeHit => RInv'
<1> SUFFICES ASSUME RInv, MergeHit PROVE RInv'
  OBVIOUS
<1>. DEFINE hit == Head(hits)
<1>1. /\ pc = "merge" /\ hits # <<>> /\ hits \in Seq(Sources)
      /\ UNCHANGED <<pc, status, questions, queries, coverage, draft, searchCalls, modelCalls,
                     proposal, conflicts, verification>>
  BY DEF MergeHit, calls, findings, RInv, TypeOK
<1>2. hit \in Sources /\ Tail(hits) \in Seq(Sources) /\ <<>> \in Seq(Sources)
  BY <1>1
<1>3. kept \in [Sources -> Nat] /\ used \in Nat /\ IsFiniteSet(Evidence)
  BY ResearchAssumption, FS_Subset DEF RInv, TypeOK, Evidence
<1>4. CASE UNCHANGED evidence /\ hits' \in {Tail(hits), <<>>}
  <2>1. kept' = kept /\ used' = used /\ Evidence' = Evidence
    BY <1>4 DEF evidence, Evidence
  <2>2. TypeOK' /\ BudgetsHold' /\ FreshQueries' /\ IsFiniteSet(queries')
    BY <1>1, <1>2, <1>4, <2>1 DEF RInv, TypeOK, BudgetsHold, FreshQueries
  <2>3. CallsInv' /\ OpenInv' /\ NothingUnchecked' /\ GatesInv' /\ ReadyIsEarned'
    BY <1>1 DEF RInv, CallsInv, OpenInv, NothingUnchecked, GatesInv, ReadyIsEarned
  <2>. QED
    BY <2>2, <2>3 DEF RInv
<1>5. CASE /\ hit \notin Evidence /\ Size[hit] # 0
           /\ used < ContextChars /\ Cardinality(Evidence) < EvidenceCount
           /\ kept' = [kept EXCEPT ![hit] = Clip(hit)]
           /\ used' = used + Clip(hit)
           /\ hits' = Tail(hits)
  <2>. DEFINE clip == Clip(hit)
  <2>1. /\ clip \in Nat \ {0} /\ clip <= Size[hit] /\ clip <= ChunkChars
        /\ used + clip <= ContextChars
    <3>. HIDE DEF hit
    <3>. QED
      BY <1>2, <1>3, <1>5, ClipBounds
  <2>. HIDE DEF clip, hit
  <2>2. kept' = [kept EXCEPT ![hit] = clip] /\ used' = used + clip
    BY <1>5 DEF clip
  <2>3. Evidence' = Evidence \cup {hit}
    BY <1>2, <1>3, <2>1, <2>2 DEF Evidence
  <2>4. Cardinality(Evidence') = Cardinality(Evidence) + 1
    BY <1>3, <1>5, <2>3, FS_AddElement
  <2>5. TypeOK'
    BY <1>1, <1>2, <1>3, <1>5, <2>1, <2>2 DEF RInv, TypeOK
  <2>6. BudgetsHold'
    <3>1. Cardinality(Evidence') <= EvidenceCount
      <4>1. Cardinality(Evidence) \in Nat
        BY <1>3, FS_CardinalityType
      <4>. QED
        BY <1>5, <2>4, <4>1, BudgetAssumption
    <3>2. \A s \in Sources : kept'[s] <= ChunkChars /\ kept'[s] <= Size[s]
      BY <1>3, <2>1, <2>2 DEF RInv, BudgetsHold
    <3>. QED
      BY <1>1, <2>1, <2>2, <3>1, <3>2 DEF RInv, BudgetsHold
  <2>7. FreshQueries' /\ IsFiniteSet(queries')
    BY <1>1 DEF RInv, FreshQueries
  <2>8. CallsInv' /\ OpenInv' /\ NothingUnchecked' /\ GatesInv' /\ ReadyIsEarned'
    BY <1>1 DEF RInv, CallsInv, OpenInv, NothingUnchecked, GatesInv, ReadyIsEarned
  <2>. QED
    BY <2>5, <2>6, <2>7, <2>8 DEF RInv
<1>. QED
  BY <1>4, <1>5 DEF MergeHit

LEMMA MergedInv == RInv /\ Merged => RInv'
<1> SUFFICES ASSUME RInv, Merged PROVE RInv'
  OBVIOUS
<1>1. /\ pc = "merge" /\ TakeSlot("assess")
      /\ UNCHANGED <<questions, queries, hits, coverage, draft, kept, used,
                     proposal, conflicts, verification>>
  BY DEF Merged, locals, evidence, findings
<1>2. Evidence' = Evidence
  BY <1>1 DEF Evidence
<1>3. CASE modelCalls >= ModelCalls
  <2>1. Stop("budget_exhausted") /\ UNCHANGED calls
    BY <1>1, <1>3, BudgetAssumption DEF TakeSlot, RInv, TypeOK
  <2>. QED
    BY <1>1, <2>1, StopInv DEF RInv, TypeOK, OpenInv, NothingUnchecked, ResearchStatus, evidence
<1>4. CASE modelCalls < ModelCalls
  <2>1. /\ modelCalls' = modelCalls + 1 /\ pc' = "assess"
        /\ status' = status /\ searchCalls' = searchCalls
    BY <1>1, <1>4, BudgetAssumption DEF TakeSlot, RInv, TypeOK
  <2>2. TypeOK' /\ BudgetsHold' /\ FreshQueries' /\ IsFiniteSet(queries')
    BY <1>1, <1>2, <1>4, <2>1, BudgetAssumption
       DEF RInv, TypeOK, Awaiting, BudgetsHold, FreshQueries
  <2>3. CallsInv' /\ OpenInv' /\ NothingUnchecked' /\ GatesInv' /\ ReadyIsEarned'
    BY <1>1, <2>1 DEF RInv, CallsInv, OpenInv, NothingUnchecked, GatesInv, ReadyIsEarned
  <2>. QED
    BY <2>2, <2>3 DEF RInv
<1>. QED
  BY <1>3, <1>4, BudgetAssumption DEF RInv, TypeOK

LEMMA SearchAgainInv ==
    ASSUME RInv, NEW query \in Queries, SearchAgain(query)
    PROVE  RInv'
  BY TryQueryInv DEF SearchAgain

LEMMA AbandonedInv ==
    ASSUME RInv, \/ \E asks \in BOOLEAN : Clarify(asks)
                 \/ Abstain
                 \/ TimeOut
                 \/ BackendFails
    PROVE  RInv'
<1>1. /\ pc # "done"
      /\ UNCHANGED <<questions, queries, hits, coverage, draft, calls, evidence,
                     conflicts, verification>>
      /\ proposal' = NoProposal
  BY DEF Clarify, Abstain, TimeOut, BackendFails, Awaiting, locals, findings,
         RInv, OpenInv, NothingUnchecked
<1>2. PICK outcome \in ResearchStatus \ {"ready", "conflict"} : Stop(outcome)
  BY DEF Clarify, Abstain, TimeOut, BackendFails, ResearchStatus
<1>3. conflicts' = {}
  BY <1>1 DEF RInv, OpenInv, NothingUnchecked
<1>4. coverage' \in Seq(CoverageEntry) /\ draft' \in Proposals \cup {NoProposal}
      /\ verification' \in Seq(Verdict)
  BY <1>1 DEF RInv, TypeOK
<1>. QED
  BY <1>1, <1>2, <1>3, <1>4, StopInv

LEMMA ReportConflictInv ==
    ASSUME RInv, NEW claimed \in SUBSET Conflicts, ReportConflict(claimed)
    PROVE  RInv'
<1>1. /\ pc = "assess"
      /\ UNCHANGED <<questions, queries, hits, coverage, draft, calls, evidence,
                     proposal, verification>>
      /\ proposal = NoProposal /\ status = "abstain"
  BY DEF ReportConflict, locals, RInv, OpenInv, NothingUnchecked
<1>2. CASE Stop("verification_failed") /\ conflicts' = {}
  BY <1>1, <1>2, StopInv DEF RInv, TypeOK, ResearchStatus
<1>3. CASE Stop("conflict") /\ conflicts' = claimed /\ claimed # {}
  <2>1. UNCHANGED <<searchCalls, modelCalls, kept, used>> /\ Evidence' = Evidence
    BY <1>1 DEF calls, evidence, Evidence
  <2>2. TypeOK' /\ BudgetsHold' /\ FreshQueries' /\ IsFiniteSet(queries')
    BY <1>1, <1>3, <2>1 DEF RInv, TypeOK, Stop, ResearchStatus, BudgetsHold, FreshQueries
  <2>3. CallsInv' /\ OpenInv' /\ NothingUnchecked' /\ GatesInv' /\ ReadyIsEarned'
    BY <1>1, <1>3 DEF Stop, CallsInv, OpenInv, NothingUnchecked, GatesInv, ReadyIsEarned
  <2>. QED
    BY <2>2, <2>3 DEF RInv
<1>. QED
  BY <1>2, <1>3 DEF ReportConflict

\* A complete coverage covers every question of the plan.
LEMMA CompleteCovers ==
    ASSUME NEW entries \in Coverages, Complete(entries), coverage' = entries,
           questions' = questions, Evidence' = Evidence
    PROVE  Covered'
<1>1. entries \in Seq(CoverageEntry)
  BY ResearchAssumption
<1>2. SUFFICES ASSUME NEW i \in 0 .. questions - 1
               PROVE  \E k \in DOMAIN entries :
                         /\ entries[k].index = i
                         /\ entries[k].ids # {} /\ entries[k].ids \subseteq Evidence
  BY DEF Covered
<1>3. i \in {entries[k].index : k \in DOMAIN entries}
  BY <1>2 DEF Complete
<1>4. PICK k \in DOMAIN entries : entries[k].index = i
  BY <1>3
<1>5. entries[k] \in CoverageEntry
  BY <1>1, <1>4
<1>6. entries[k].ids # {}
  BY <1>5 DEF CoverageEntry
<1>7. entries[k].ids \subseteq Evidence
  BY <1>4 DEF Complete
<1>. QED
  BY <1>4, <1>6, <1>7

LEMMA AnswerInv ==
    ASSUME RInv, NEW entries \in Coverages, NEW disputed \in BOOLEAN,
           Answer(entries, disputed)
    PROVE  RInv'
<1>1. /\ pc = "assess" /\ coverage' = entries /\ coverage' \in Seq(CoverageEntry)
      /\ UNCHANGED <<questions, queries, hits, draft, kept, used,
                     proposal, conflicts, verification>>
      /\ status = "abstain" /\ proposal = NoProposal /\ conflicts = {}
      /\ draft \in Proposals \cup {NoProposal} /\ verification \in Seq(Verdict)
  BY ResearchAssumption
     DEF Answer, evidence, findings, RInv, TypeOK, OpenInv, NothingUnchecked
<1>2. Evidence' = Evidence
  BY <1>1 DEF Evidence
<1>3. CASE \/ ~(Complete(entries) /\ ~disputed /\ Evidence # {})
           \/ modelCalls >= ModelCalls
  <2>1. PICK outcome \in {"verification_failed", "budget_exhausted"} :
            Stop(outcome) /\ UNCHANGED calls
    BY <1>3, BudgetAssumption DEF Answer, TakeSlot, RInv, TypeOK
  <2>2. outcome \in ResearchStatus \ {"ready", "conflict"}
    BY <2>1 DEF ResearchStatus
  <2>3. UNCHANGED evidence
    BY <1>1 DEF evidence
  <2>. QED
    BY <1>1, <2>1, <2>2, <2>3, StopInv
<1>4. CASE Complete(entries) /\ ~disputed /\ Evidence # {} /\ modelCalls < ModelCalls
  <2>1. /\ modelCalls' = modelCalls + 1 /\ pc' = "propose"
        /\ status' = status /\ searchCalls' = searchCalls
    BY <1>4, BudgetAssumption DEF Answer, TakeSlot, RInv, TypeOK
  <2>2. TypeOK' /\ BudgetsHold' /\ FreshQueries' /\ IsFiniteSet(queries')
    BY <1>1, <1>2, <1>4, <2>1, BudgetAssumption
       DEF RInv, TypeOK, Awaiting, BudgetsHold, FreshQueries
  <2>3. Covered'
    BY <1>1, <1>2, <1>4, CompleteCovers
  <2>4. CallsInv'
    BY <1>1, <2>1 DEF RInv, TypeOK, CallsInv
  <2>5. OpenInv' /\ NothingUnchecked' /\ ReadyIsEarned'
    BY <1>1, <2>1 DEF OpenInv, NothingUnchecked, ReadyIsEarned
  <2>6. GatesInv'
    BY <2>1, <2>3 DEF GatesInv
  <2>. QED
    BY <2>2, <2>4, <2>5, <2>6 DEF RInv
<1>. QED
  BY <1>3, <1>4, BudgetAssumption DEF RInv, TypeOK

LEMMA ProposeInv == ASSUME RInv, NEW p \in Proposals, Propose(p) PROVE RInv'
<1>1. /\ pc = "propose" /\ draft' = p
      /\ UNCHANGED <<questions, queries, hits, coverage, kept, used,
                     proposal, conflicts, verification>>
      /\ status = "abstain" /\ proposal = NoProposal /\ conflicts = {}
      /\ coverage \in Seq(CoverageEntry) /\ verification \in Seq(Verdict)
  BY DEF Propose, evidence, findings, RInv, TypeOK, OpenInv, NothingUnchecked
<1>2. Evidence' = Evidence
  BY <1>1 DEF Evidence
<1>3. CASE ~Grounded(p) \/ modelCalls >= ModelCalls
  <2>1. PICK outcome \in {"verification_failed", "budget_exhausted"} :
            Stop(outcome) /\ UNCHANGED calls
    BY <1>3, BudgetAssumption DEF Propose, TakeSlot, RInv, TypeOK
  <2>2. outcome \in ResearchStatus \ {"ready", "conflict"}
    BY <2>1 DEF ResearchStatus
  <2>3. UNCHANGED evidence
    BY <1>1 DEF evidence
  <2>. QED
    BY <1>1, <2>1, <2>2, <2>3, StopInv
<1>4. CASE Grounded(p) /\ modelCalls < ModelCalls
  <2>1. /\ modelCalls' = modelCalls + 1 /\ pc' = "verify"
        /\ status' = status /\ searchCalls' = searchCalls
    BY <1>4, BudgetAssumption DEF Propose, TakeSlot, RInv, TypeOK
  <2>2. TypeOK' /\ BudgetsHold' /\ FreshQueries' /\ IsFiniteSet(queries')
    BY <1>1, <1>2, <1>4, <2>1, BudgetAssumption
       DEF RInv, TypeOK, Awaiting, BudgetsHold, FreshQueries
  <2>3. Covered' /\ Grounded(draft)'
    BY <1>1, <1>2, <1>4 DEF RInv, GatesInv, Covered, Grounded, Quoted
  <2>4. CallsInv'
    BY <1>1, <2>1 DEF RInv, TypeOK, CallsInv
  <2>5. OpenInv' /\ NothingUnchecked' /\ ReadyIsEarned'
    BY <1>1, <2>1 DEF OpenInv, NothingUnchecked, ReadyIsEarned
  <2>6. draft' \in Proposals
    BY <1>1
  <2>7. GatesInv'
    BY <2>1, <2>3, <2>6 DEF GatesInv
  <2>. QED
    BY <2>2, <2>4, <2>5, <2>7 DEF RInv
<1>. QED
  BY <1>3, <1>4, BudgetAssumption DEF RInv, TypeOK

\* A report of one positive verdict per step judges every step.
LEMMA SupportedJudges ==
    ASSUME NEW report \in Reports, NEW p \in Proposals, Supported(report, p)
    PROVE  /\ \A k \in DOMAIN p.steps :
                 \E j \in DOMAIN report : report[j].index = k - 1 /\ report[j].supported
           /\ \A j \in DOMAIN report : report[j].supported
<1>1. p.steps \in Seq(Quotation) /\ Len(p.steps) \in Nat /\ DOMAIN p.steps = 1 .. Len(p.steps)
  BY ResearchAssumption DEF Proposal
<1>2. SUFFICES ASSUME NEW k \in 1 .. Len(p.steps)
               PROVE  \E j \in DOMAIN report : report[j].index = k - 1
  BY <1>1 DEF Supported
<1>3. k - 1 \in 0 .. Len(p.steps) - 1
  BY <1>1
<1>. QED
  BY <1>3 DEF Supported

LEMMA VerifyInv == ASSUME RInv, NEW report \in Reports, Verify(report) PROVE RInv'
<1>1. /\ pc = "verify" /\ verification' = report /\ report \in Seq(Verdict)
      /\ UNCHANGED <<questions, queries, hits, coverage, draft, searchCalls, modelCalls,
                     kept, used, conflicts>>
      /\ proposal = NoProposal /\ conflicts = {} /\ modelCalls = searchCalls + 3
      /\ draft \in Proposals /\ Grounded(draft) /\ Covered
  BY ResearchAssumption
     DEF Verify, locals, calls, evidence, RInv, OpenInv, NothingUnchecked, CallsInv, GatesInv
<1>2. Evidence' = Evidence
  BY <1>1 DEF Evidence
<1>3. CASE ~Supported(report, draft)
  <2>1. Stop("verification_failed") /\ proposal' = NoProposal /\ UNCHANGED <<calls, evidence>>
    BY <1>1, <1>3 DEF Verify, calls, evidence
  <2>. QED
    BY <1>1, <2>1, StopInv DEF RInv, TypeOK, ResearchStatus
<1>4. CASE Supported(report, draft)
  <2>1. pc' = "done" /\ status' = "ready" /\ proposal' = draft /\ draft # NoProposal
    BY <1>1, <1>4, ResearchAssumption DEF Verify, Stop
  <2>2. TypeOK' /\ BudgetsHold' /\ FreshQueries' /\ IsFiniteSet(queries')
    BY <1>1, <1>2, <2>1 DEF RInv, TypeOK, ResearchStatus, BudgetsHold, FreshQueries
  <2>3. CallsInv' /\ OpenInv' /\ NothingUnchecked' /\ GatesInv'
    BY <1>1, <2>1 DEF CallsInv, OpenInv, NothingUnchecked, GatesInv
  <2>4. ReadyIsEarned'
    <3>1. draft \in Proposal /\ draft.steps \in Seq(Quotation) /\ Len(draft.steps) > 0
      BY <1>1, ResearchAssumption DEF Proposal, Grounded
    <3>2. \A k \in DOMAIN draft.steps :
             /\ Quoted(draft.steps[k])'
             /\ \E j \in DOMAIN report : report[j].index = k - 1 /\ report[j].supported
      BY <1>1, <1>4, SupportedJudges DEF Grounded, Quoted
    <3>3. \A j \in DOMAIN report : report[j].supported
      BY <1>4 DEF Supported
    <3>4. Covered'
      BY <1>1, <1>2 DEF Covered
    <3>. QED
      BY <1>1, <2>1, <3>1, <3>2, <3>3, <3>4 DEF ReadyIsEarned, Covered, Grounded
  <2>. QED
    BY <2>2, <2>3, <2>4 DEF RInv
<1>. QED
  BY <1>3, <1>4

LEMMA NextRInv == RInv /\ [Next]_vars => RInv'
<1> SUFFICES ASSUME RInv, [Next]_vars PROVE RInv'
  OBVIOUS
<1>1. CASE Next
  <2>1. CASE Begin \/ Plan \/ MergeHit \/ Merged
    BY <2>1, BeginInv, PlanInv, MergeHitInv, MergedInv
  <2>2. CASE \E found \in Found : Search(found)
    BY <2>2, SearchInv
  <2>3. CASE \E query \in Queries : SearchAgain(query)
    BY <2>3, SearchAgainInv
  <2>4. CASE (\E asks \in BOOLEAN : Clarify(asks)) \/ Abstain \/ TimeOut \/ BackendFails
    BY <2>4, AbandonedInv
  <2>5. CASE \E claimed \in SUBSET Conflicts : ReportConflict(claimed)
    BY <2>5, ReportConflictInv
  <2>6. CASE \E entries \in Coverages, disputed \in BOOLEAN : Answer(entries, disputed)
    BY <2>6, AnswerInv
  <2>7. CASE \E p \in Proposals : Propose(p)
    BY <2>7, ProposeInv
  <2>8. CASE \E report \in Reports : Verify(report)
    BY <2>8, VerifyInv
  <2>. QED
    BY <1>1, <2>1, <2>2, <2>3, <2>4, <2>5, <2>6, <2>7, <2>8 DEF Next
<1>2. CASE UNCHANGED vars
  <2>1. /\ UNCHANGED <<pc, status, questions, queries, hits, coverage, draft, searchCalls,
                       modelCalls, kept, used, proposal, conflicts, verification>>
        /\ Evidence' = Evidence
    BY <1>2 DEF vars, locals, calls, evidence, findings, Evidence
  <2>2. TypeOK' /\ BudgetsHold' /\ FreshQueries' /\ IsFiniteSet(queries') /\ CallsInv' /\ OpenInv'
    BY <2>1 DEF RInv, TypeOK, BudgetsHold, FreshQueries, CallsInv, OpenInv
  <2>3. NothingUnchecked' /\ GatesInv' /\ ReadyIsEarned'
    BY <2>1 DEF RInv, NothingUnchecked, GatesInv, Covered, Grounded, Quoted, ReadyIsEarned
  <2>. QED
    BY <2>2, <2>3 DEF RInv
<1>. QED
  BY <1>1, <1>2

-----------------------------------------------------------------------------
(***************************************************************************)
(* The theorems.                                                           *)
(***************************************************************************)

\* RInv is an invariant of every investigation.
THEOREM InvestigationInvariance == Spec => []RInv
<1>. QED
  BY InitRInv, NextRInv, PTL DEF Spec

\* The state of an investigation keeps its types whatever the model answers.
THEOREM InvestigationTypeCorrect == Spec => []TypeOK
<1>1. RInv => TypeOK
  BY DEF RInv
<1>. QED
  BY <1>1, InvestigationInvariance, PTL

\* No budget is ever exceeded, whatever the budgets are (research.py:52-61).
THEOREM WithinBudgets == Spec => []BudgetsHold
<1>1. RInv => BudgetsHold
  BY DEF RInv
<1>. QED
  BY <1>1, InvestigationInvariance, PTL

\* A ready result passed coverage, citation and support checks on the very
\* evidence it carries (research.py:209-239).
THEOREM ReadyPassedEveryGate == Spec => []ReadyIsEarned
<1>1. RInv => ReadyIsEarned
  BY DEF RInv
<1>. QED
  BY <1>1, InvestigationInvariance, PTL

\* Timeouts, failures and rejections leave no proposal and no conflicts, and
\* a ready result has paid exactly three calls beyond its searches.
THEOREM NoUncheckedResult == Spec => []NothingUnchecked
<1>1. RInv => NothingUnchecked
  BY DEF RInv
<1>. QED
  BY <1>1, InvestigationInvariance, PTL

\* A model budget of three more than the searches is never exhausted.
THEOREM ModelBudgetSuffices == Spec => []SlotsSuffice
<1>1. RInv => SlotsSuffice
  BY BudgetAssumption DEF RInv, TypeOK, BudgetsHold, CallsInv, SlotsSuffice
<1>. QED
  BY <1>1, InvestigationInvariance, PTL

\* No search is repeated and every search counts (research.py:163-170).
THEOREM QueriesFresh == Spec => []FreshQueries
<1>1. RInv => FreshQueries
  BY DEF RInv
<1>. QED
  BY <1>1, InvestigationInvariance, PTL

\* A collected excerpt never changes, and what was verified is what is
\* returned (research.py:141-154).
THEOREM ExcerptsNeverChange == Spec => ExcerptsFixed
<1>1. RInv /\ [Next]_vars =>
         [/\ \A s \in Evidence : kept'[s] = kept[s]
          /\ pc \in {"propose", "verify", "done"} => kept' = kept]_vars
  <2> SUFFICES ASSUME RInv, Next
               PROVE  /\ \A s \in Evidence : kept'[s] = kept[s]
                      /\ pc \in {"propose", "verify", "done"} => kept' = kept
    OBVIOUS
  <2>1. CASE MergeHit
    <3>1. pc = "merge" /\ kept \in [Sources -> Nat]
      BY <2>1 DEF MergeHit, RInv, TypeOK
    <3>. QED
      BY <2>1, <3>1 DEF MergeHit, evidence, Evidence
  <2>2. CASE ~MergeHit
    <3>1. UNCHANGED evidence
      BY <2>2 DEF Next, Begin, Plan, Search, Merged, SearchAgain, Clarify, ReportConflict,
         Abstain, Answer, Propose, Verify, TimeOut, BackendFails
    <3>. QED
      BY <3>1 DEF evidence
  <2>. QED
    BY <2>1, <2>2
<1>. QED
  BY <1>1, InvestigationInvariance, PTL DEF Spec, ExcerptsFixed

=============================================================================
