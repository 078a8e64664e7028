---------------------------- MODULE ResearchAgent ----------------------------
(***************************************************************************)
(* One investigation of app/core/incidents/research.py.  The model chooses *)
(* what to search and when to stop; the controller modelled here checks    *)
(* every answer of the model before it counts.  Whatever the backend may   *)
(* return is a member of a constant set; nothing is assumed of it.         *)
(*                                                                         *)
(* An excerpt is named by its source, the hash of file, page and content;  *)
(* kept says how many characters of a source were collected.  A quotation  *)
(* names a source and the offset at which the quoted text ends in it, 0    *)
(* for a blank quotation, beyond the source's size for an invented one.    *)
(***************************************************************************)
EXTENDS Integers, Sequences, FiniteSets

CONSTANTS
    Sources, Size,                  \* chunks and their lengths (0: blank)
    Queries, Normal, BlankQuery,    \* raw queries, their normal forms, the empty one
    MaxQuestions, Coverages, Conflicts, Proposals, Reports, \* model output
    NoProposal,
    MaxHits,                        \* bound on the chunks one search returns
    Searches, ModelCalls, EvidenceCount, ContextChars, ChunkChars

Quotation == [id : Sources, end : Nat]
CoverageEntry == [index : Nat, ids : (SUBSET Sources) \ {{}}]
Conflict == [left : Quotation, right : Quotation]
Proposal == [sufficient : BOOLEAN, steps : Seq(Quotation)]
Verdict == [index : Nat, supported : BOOLEAN]

ASSUME ResearchAssumption ==
    /\ IsFiniteSet(Sources)
    /\ Size \in [Sources -> Nat]
    /\ MaxQuestions \in Nat
    /\ Coverages \subseteq Seq(CoverageEntry)
    /\ Conflicts \subseteq Conflict
    /\ Proposals \subseteq Proposal
    /\ Reports \subseteq Seq(Verdict)
    /\ NoProposal \notin Proposals
    /\ MaxHits \in Nat

\* ResearchBudget refuses anything else.
ASSUME BudgetAssumption ==
    /\ Searches \in Nat \ {0}
    /\ ModelCalls \in Nat \ {0}
    /\ EvidenceCount \in Nat \ {0}
    /\ ContextChars \in Nat \ {0}
    /\ ChunkChars \in Nat \ {0}

VARIABLES
    pc,
    questions,      \* how many questions the plan has
    queries,        \* the queries searched so far
    hits,           \* retrieved chunks still to be merged
    coverage,       \* of the accepted assessment
    draft,          \* the proposal being verified
    \* the fields of ResearchResult
    status, searchCalls, modelCalls, kept, used, proposal, conflicts, verification

locals == <<questions, queries, hits, coverage, draft>>
calls == <<searchCalls, modelCalls>>
evidence == <<kept, used>>
findings == <<proposal, conflicts, verification>>
vars == <<pc, status, locals, calls, evidence, findings>>

ResearchStatus == {"ready", "clarify", "conflict", "abstain",
                   "budget_exhausted", "verification_failed", "failed"}

Awaiting == {"plan", "search", "assess", "propose", "verify"}

TypeOK ==
    /\ pc \in {"start", "merge", "done"} \cup Awaiting
    /\ questions \in 0 .. MaxQuestions
    /\ queries \subseteq Queries
    /\ hits \in Seq(Sources)
    /\ coverage \in Seq(CoverageEntry)
    /\ draft \in Proposals \cup {NoProposal}
    /\ status \in ResearchStatus
    /\ searchCalls \in Nat
    /\ modelCalls \in Nat
    /\ kept \in [Sources -> Nat]
    /\ used \in Nat
    /\ proposal \in Proposals \cup {NoProposal}
    /\ conflicts \subseteq Conflicts
    /\ verification \in Seq(Verdict)

Init ==
    /\ pc = "start" /\ status = "abstain"
    /\ questions = 0 /\ queries = {} /\ hits = <<>> /\ coverage = <<>>
    /\ draft = NoProposal
    /\ searchCalls = 0 /\ modelCalls = 0
    /\ kept = [s \in Sources |-> 0] /\ used = 0
    /\ proposal = NoProposal /\ conflicts = {} /\ verification = <<>>

Evidence == {s \in Sources : kept[s] > 0}

-----------------------------------------------------------------------------
(***************************************************************************)
(* The checks of the controller.                                           *)
(***************************************************************************)

\* The quoted text is not blank and occurs in the collected excerpt.
Quoted(quotation) == quotation.end \in 1 .. kept[quotation.id]

\* proposal_error finds nothing.
Grounded(p) ==
    /\ p.sufficient
    /\ p.steps # <<>>
    /\ \A k \in DOMAIN p.steps : Quoted(p.steps[k])

Complete(entries) ==
    /\ Len(entries) = questions
    /\ {entries[k].index : k \in DOMAIN entries} = 0 .. questions - 1
    /\ \A k \in DOMAIN entries : entries[k].ids \subseteq Evidence

\* Mutant: a repeated verdict stands in for a missing one.
SupportedByCount(report, p) ==
    /\ Len(report) = Len(p.steps)
    /\ \A k \in DOMAIN report : report[k].supported

\* supported_proposal: one verdict per step, none missing, none negative.
Supported(report, p) ==
    /\ Len(report) = Len(p.steps)
    /\ {report[k].index : k \in DOMAIN report} = 0 .. Len(p.steps) - 1
    /\ \A k \in DOMAIN report : report[k].supported

Contradiction(c) ==
    /\ c.left.id # c.right.id
    /\ Quoted(c.left)
    /\ Quoted(c.right)

-----------------------------------------------------------------------------
Stop(outcome) ==
    /\ pc' = "done"
    /\ status' = outcome

\* _model_slot before the call that step awaits.
TakeSlot(step) ==
    \/ /\ modelCalls < ModelCalls
       /\ modelCalls' = modelCalls + 1
       /\ pc' = step
       /\ UNCHANGED <<status, searchCalls>>
    \/ /\ modelCalls >= ModelCalls
       /\ Stop("budget_exhausted")
       /\ UNCHANGED calls

\* Mutant: queries are compared letter by letter.
StalledVerbatim(query) == Normal[query] = BlankQuery \/ query \in queries

\* Searched before, up to case, blanks and punctuation.
Stalled(query) ==
    \/ Normal[query] = BlankQuery
    \/ Normal[query] \in {Normal[q] : q \in queries}

\* The head of the search loop.
TryQuery(query) ==
    \/ /\ searchCalls >= Searches
       /\ Stop("budget_exhausted")
       /\ UNCHANGED <<queries, calls>>
    \/ /\ searchCalls < Searches
       /\ Stalled(query)
       /\ Stop("abstain")
       /\ UNCHANGED <<queries, calls>>
    \/ /\ searchCalls < Searches
       /\ ~Stalled(query)
       /\ queries' = queries \cup {query}
       /\ searchCalls' = searchCalls + 1
       /\ pc' = "search"
       /\ UNCHANGED <<status, modelCalls>>

Begin ==
    /\ pc = "start"
    /\ TakeSlot("plan")
    /\ UNCHANGED <<locals, evidence, findings>>

Plan ==
    /\ pc = "plan"
    /\ questions' \in 1 .. MaxQuestions
    /\ \E query \in Queries : TryQuery(query)
    /\ UNCHANGED <<hits, coverage, draft, evidence, findings>>

\* The search returns any chunks in any order, repeated ones included.
Search(found) ==
    /\ pc = "search"
    /\ pc' = "merge"
    /\ hits' = found
    /\ UNCHANGED <<status, questions, queries, coverage, draft, calls, evidence, findings>>

Smaller(a, b) == IF a < b THEN a ELSE b

\* Mutant: an excerpt is cut to its own limit, not to what is left.
ClipToChunk(hit) == Smaller(Size[hit], ChunkChars)

Clip(hit) == Smaller(Size[hit], Smaller(ChunkChars, ContextChars - used))

\* Mutant: an excerpt that is known is merged again.
MergeHitAgain ==
    /\ pc = "merge"
    /\ hits # <<>>
    /\ LET hit == Head(hits) IN
       IF Size[hit] = 0
       THEN hits' = Tail(hits) /\ UNCHANGED evidence
       ELSE IF used >= ContextChars \/ Cardinality(Evidence) >= EvidenceCount
       THEN hits' = <<>> /\ UNCHANGED evidence
       ELSE /\ kept' = [kept EXCEPT ![hit] = Clip(hit)]
            /\ used' = used + Clip(hit)
            /\ hits' = Tail(hits)
    /\ UNCHANGED <<pc, status, questions, queries, coverage, draft, calls, findings>>

\* Mutant: an excerpt that is known stops the loop from moving on.
MergeHitStuck ==
    /\ pc = "merge"
    /\ hits # <<>>
    /\ LET hit == Head(hits) IN
       IF hit \in Evidence
       THEN UNCHANGED <<hits, evidence>>
       ELSE /\ kept' = [kept EXCEPT ![hit] = Clip(hit)]
            /\ used' = used + Clip(hit)
            /\ hits' = Tail(hits)
    /\ UNCHANGED <<pc, status, questions, queries, coverage, draft, calls, findings>>

\* One turn of the loop of _merge, which never awaits.
MergeHit ==
    /\ pc = "merge"
    /\ hits # <<>>
    /\ LET hit == Head(hits) IN
       \/ /\ hit \in Evidence \/ Size[hit] = 0
          /\ hits' = Tail(hits)
          /\ UNCHANGED evidence
       \/ /\ hit \notin Evidence /\ Size[hit] # 0
          /\ used >= ContextChars \/ Cardinality(Evidence) >= EvidenceCount
          /\ hits' = <<>>
          /\ UNCHANGED evidence
       \/ /\ hit \notin Evidence /\ Size[hit] # 0
          /\ used < ContextChars /\ Cardinality(Evidence) < EvidenceCount
          /\ kept' = [kept EXCEPT ![hit] = Clip(hit)]
          /\ used' = used + Clip(hit)
          /\ hits' = Tail(hits)
    /\ UNCHANGED <<pc, status, questions, queries, coverage, draft, calls, findings>>

Merged ==
    /\ pc = "merge"
    /\ hits = <<>>
    /\ TakeSlot("assess")
    /\ UNCHANGED <<locals, evidence, findings>>

-----------------------------------------------------------------------------
(***************************************************************************)
(* The actions an assessment may choose.                                   *)
(***************************************************************************)

SearchAgain(query) ==
    /\ pc = "assess"
    /\ TryQuery(query)
    /\ UNCHANGED <<questions, hits, coverage, draft, evidence, findings>>

\* asks: is any of the questions it returns not blank?
Clarify(asks) ==
    /\ pc = "assess"
    /\ Stop(IF asks THEN "clarify" ELSE "abstain")
    /\ UNCHANGED <<locals, calls, evidence, findings>>

ReportConflict(claimed) ==
    /\ pc = "assess"
    /\ IF claimed # {} /\ \A c \in claimed : Contradiction(c)
       THEN Stop("conflict") /\ conflicts' = claimed
       ELSE Stop("verification_failed") /\ conflicts' = {}
    /\ UNCHANGED <<locals, calls, evidence, proposal, verification>>

Abstain ==
    /\ pc = "assess"
    /\ Stop("abstain")
    /\ UNCHANGED <<locals, calls, evidence, findings>>

\* disputed: does the assessment also list conflicts?
Answer(entries, disputed) ==
    /\ pc = "assess"
    /\ coverage' = entries
    /\ IF Complete(entries) /\ ~disputed /\ Evidence # {}
       THEN TakeSlot("propose")
       ELSE Stop("verification_failed") /\ UNCHANGED calls
    /\ UNCHANGED <<questions, queries, hits, draft, evidence, findings>>

-----------------------------------------------------------------------------
\* Mutant: the draft is put into the result before it is verified.
ProposeEarly(p) ==
    /\ pc = "propose"
    /\ draft' = p
    /\ proposal' = p
    /\ IF Grounded(p)
       THEN TakeSlot("verify")
       ELSE Stop("verification_failed") /\ UNCHANGED calls
    /\ UNCHANGED <<questions, queries, hits, coverage, evidence, conflicts, verification>>

Propose(p) ==
    /\ pc = "propose"
    /\ draft' = p
    /\ IF Grounded(p)
       THEN TakeSlot("verify")
       ELSE Stop("verification_failed") /\ UNCHANGED calls
    /\ UNCHANGED <<questions, queries, hits, coverage, evidence, findings>>

Verify(report) ==
    /\ pc = "verify"
    /\ verification' = report
    /\ IF Supported(report, draft)
       THEN Stop("ready") /\ proposal' = draft
       ELSE Stop("verification_failed") /\ UNCHANGED proposal
    /\ UNCHANGED <<locals, calls, evidence, conflicts>>

\* asyncio.timeout, or a TimeoutError of the backend itself.
TimeOut ==
    /\ pc \in Awaiting
    /\ Stop("budget_exhausted")
    /\ proposal' = NoProposal
    /\ UNCHANGED <<locals, calls, evidence, conflicts, verification>>

BackendFails ==
    /\ pc \in Awaiting
    /\ Stop("failed")
    /\ proposal' = NoProposal
    /\ UNCHANGED <<locals, calls, evidence, conflicts, verification>>

Found == UNION {[1 .. n -> Sources] : n \in 0 .. MaxHits}

Next ==
    \/ Begin
    \/ Plan
    \/ \E found \in Found : Search(found)
    \/ MergeHit
    \/ Merged
    \/ \E query \in Queries : SearchAgain(query)
    \/ \E asks \in BOOLEAN : Clarify(asks)
    \/ \E claimed \in SUBSET Conflicts : ReportConflict(claimed)
    \/ Abstain
    \/ \E entries \in Coverages, disputed \in BOOLEAN : Answer(entries, disputed)
    \/ \E p \in Proposals : Propose(p)
    \/ \E report \in Reports : Verify(report)
    \/ TimeOut
    \/ BackendFails

\* A call of the backend returns, raises, or is cut off by the time budget.
Spec == Init /\ [][Next]_vars /\ WF_vars(Next)

-----------------------------------------------------------------------------
(***************************************************************************)
(* Properties.                                                             *)
(***************************************************************************)

\* No investigation exceeds a budget, over all of its searches and merges
\* (research.py:52-61, 133-154).
BudgetsHold ==
    /\ searchCalls <= Searches
    /\ modelCalls <= ModelCalls
    /\ Cardinality(Evidence) <= EvidenceCount
    /\ used <= ContextChars
    /\ \A s \in Sources : kept[s] <= ChunkChars /\ kept[s] <= Size[s]

\* A ready result passed every gate on the evidence it carries: each question
\* of the plan is covered, each step quotes a collected excerpt, each step
\* has a verdict and no verdict is negative (research.py:209-239).
ReadyIsEarned ==
    status = "ready" =>
        /\ proposal # NoProposal
        /\ proposal.sufficient /\ Len(proposal.steps) > 0
        /\ \A i \in 0 .. questions - 1 :
             \E k \in DOMAIN coverage :
                 /\ coverage[k].index = i
                 /\ coverage[k].ids # {} /\ coverage[k].ids \subseteq Evidence
        /\ \A k \in DOMAIN proposal.steps :
             /\ Quoted(proposal.steps[k])
             /\ \E j \in DOMAIN verification :
                  verification[j].index = k - 1 /\ verification[j].supported
        /\ \A j \in DOMAIN verification : verification[j].supported

\* Nothing that has not passed its gate is in the result, however the
\* investigation ended, and a ready one has paid for its plan, for judging
\* every search, for its draft and its verification (research.py:121-129,
\* 203-204, 237).
NothingUnchecked ==
    /\ proposal # NoProposal <=> status = "ready"
    /\ conflicts # {} <=> status = "conflict"
    /\ status = "ready" => modelCalls = searchCalls + 3

\* The default budgets fit together: three model calls beyond the searches
\* are enough for every investigation to reach its verdict, so such a budget
\* is never exhausted by model calls (research.py:56-57).
SlotsSuffice ==
    Searches + 3 <= ModelCalls =>
        (pc \in {"start", "merge", "assess", "propose"} => modelCalls < ModelCalls)

\* No search repeats an earlier one up to case, blanks and punctuation, and
\* each counts (research.py:163-170).
FreshQueries ==
    /\ \A p, q \in queries : Normal[p] = Normal[q] => p = q
    /\ \A q \in queries : Normal[q] # BlankQuery
    /\ Cardinality(queries) = searchCalls

\* What a model call was shown is what the result carries: an excerpt, once
\* collected, never changes, and none is added once an answer was accepted
\* (docs/incident-design.md:48).
ExcerptsFixed ==
    [][/\ \A s \in Evidence : kept'[s] = kept[s]
       /\ pc \in {"propose", "verify", "done"} => kept' = kept]_vars

\* Every investigation ends (research.py:114-131).
Terminates == <>(pc = "done")

=============================================================================
