---------------------------- MODULE HybridSearch ----------------------------
(***************************************************************************)
(* search_sop (app/core/rag/retrieval.py, app/core/rag/fusion.py): the     *)
(* vector leg asks the store, the keyword leg then asks the index of       *)
(* DocumentIngestion, and the two rankings are fused by reciprocal rank.   *)
(* Ingestions go on in between and underneath.  Which documents share a    *)
(* term with the query, and how each leg orders what it finds, is open.    *)
(***************************************************************************)
EXTENDS DocumentIngestion, SequencesExt

CONSTANTS
    Filters,            \* the filters callers pass; {} is none
    CandidateK,         \* RAG_CANDIDATE_K: what a leg finds at most
    TopK,               \* RAG_TOP_K: what is retrieved at most
    RrfK                \* RAG_RRF_K

ASSUME RetrievalAssumption ==
    /\ IsFiniteSet(Docs)
    /\ Filters \subseteq SUBSET Docs
    /\ {CandidateK, TopK, RrfK} \subseteq Nat \ {0}

VARIABLES
    phase,              \* "none", "vector" and "keyword" are done, "over"
    document_ids,       \* the filter
    vector_ranking, bm25_ranking,
    retrieved,
    owed                \* history: the ready documents that match

hybrid == <<phase, document_ids, vector_ranking, bm25_ranking, retrieved, owed>>
allVars == <<vars, hybrid>>

HybridInit ==
    /\ Init
    /\ phase = "none" /\ document_ids = {}
    /\ vector_ranking = <<>> /\ bm25_ranking = <<>> /\ retrieved = <<>>
    /\ owed = {}

Admitted(d) == document_ids = {} \/ d \in document_ids

\* Every order in which at most n of the documents can be found.
Rankings(found, n) ==
    {ranking \in SeqOf(found, n) : IsInjective(ranking)}

-----------------------------------------------------------------------------
(***************************************************************************)
(* The two legs.                                                           *)
(***************************************************************************)

\* Chroma applies the filter; hits beyond RAG_SCORE_THRESHOLD are dropped.
VectorSearch ==
    /\ phase \in {"none", "over"}
    /\ \E wanted \in Filters :
          /\ document_ids' = wanted
          /\ \E ranking \in Rankings({d \in Listed(store) : wanted = {} \/ d \in wanted},
                                     CandidateK) : vector_ranking' = ranking
          /\ owed' = {d \in Docs : status[d] = "ready" /\ ~stale
                                     /\ (wanted = {} \/ d \in wanted)}
    /\ phase' = "vector" /\ bm25_ranking' = <<>> /\ retrieved' = <<>>
    /\ UNCHANGED vars

\* top_n scores the chunks of the index there is by now and keeps the best
\* CandidateK of those that share a term with the query, of all documents.
KeywordSearch ==
    /\ phase = "vector"
    /\ \E matching \in SUBSET Docs :
          LET scored == {i \in DOMAIN bm25 : bm25[i] \in matching} IN
          /\ \E best \in SUBSET scored :
                /\ Cardinality(best) = IF Cardinality(scored) < CandidateK
                                       THEN Cardinality(scored) ELSE CandidateK
                /\ NextHit(best)
          /\ owed' = IF Cardinality(matching) <= CandidateK
                     THEN owed \cap matching ELSE {}
    /\ phase' = "keyword"
    /\ UNCHANGED <<status, store, index, pc, locals, restarts, history,
                   document_ids, vector_ranking, bm25_ranking, retrieved>>

\* A hit of a document that is not wanted is dropped here.
FilterHit ==
    /\ phase = "keyword" /\ TakeHit
    /\ \E id \in hit.id, metadata \in hit.metadata :
          bm25_ranking' = IF Admitted(metadata) THEN Append(bm25_ranking, id)
                          ELSE bm25_ranking
    /\ UNCHANGED <<phase, document_ids, vector_ranking, retrieved, owed>>

LookUp ==
    /\ phase = "keyword"
    /\ LookUpId \/ LookUpText \/ LookUpMetadata
    /\ UNCHANGED hybrid

-----------------------------------------------------------------------------
(***************************************************************************)
(* reciprocal_rank_fusion: fractions stay fractions.                       *)
(***************************************************************************)

Position(ranking, id) == CHOOSE rank \in DOMAIN ranking : ranking[rank] = id

Share(ranking, id) ==
    IF id \in Listed(ranking)
    THEN [num |-> 1, den |-> RrfK + Position(ranking, id)]
    ELSE [num |-> 0, den |-> 1]

\* Mutant: a ranking overwrites what the one before it gave.
FusedLast(id) ==
    LET keyword == Share(bm25_ranking, id) IN
    IF keyword.num = 1 THEN keyword ELSE Share(vector_ranking, id)

Fused(id) ==
    LET v == Share(vector_ranking, id)
        w == Share(bm25_ranking, id)
    IN [num |-> v.num * w.den + w.num * v.den, den |-> v.den * w.den]

Higher(a, b) == Fused(a).num * Fused(b).den > Fused(b).num * Fused(a).den

\* Where the dict has a key: keyword hits that are new follow the vector hits.
Place(id) ==
    IF id \in Listed(vector_ranking) THEN Position(vector_ranking, id)
    ELSE Len(vector_ranking) + Position(bm25_ranking, id)

\* sorted() keeps the order of the dict between equal scores.
Precedes(a, b) == Higher(a, b) \/ (~Higher(b, a) /\ Place(a) < Place(b))

Candidates == Listed(vector_ranking) \cup Listed(bm25_ranking)

\* The one sequence of all candidates in which each precedes the later ones.
Sorted ==
    {ranking \in [1 .. Cardinality(Candidates) -> Candidates] :
        /\ Listed(ranking) = Candidates
        /\ \A j, k \in DOMAIN ranking : j < k => Precedes(ranking[j], ranking[k])}

\* Mutant: keyword hits count only when the vector leg finds nothing.
RankedIdsVectorFirst == IF vector_ranking # <<>> THEN {vector_ranking} ELSE Sorted

RankedIds == IF bm25_ranking # <<>> THEN Sorted ELSE {vector_ranking}

Fuse ==
    /\ phase = "keyword" /\ searchPc = "idle"
    /\ \E ranked_ids \in RankedIds :
          retrieved' = SubSeq(ranked_ids, 1,
                              IF Len(ranked_ids) < TopK THEN Len(ranked_ids) ELSE TopK)
    /\ phase' = "over"
    /\ UNCHANGED <<vars, document_ids, vector_ranking, bm25_ranking, owed>>

\* Either leg may raise, the keyword leg by its IndexError.
SearchRaises ==
    /\ phase = "vector" \/ (phase = "keyword" /\ searchPc = "failed")
    /\ phase' = "none" /\ searchPc' = "idle"
    /\ document_ids' = {} /\ owed' = {}
    /\ vector_ranking' = <<>> /\ bm25_ranking' = <<>> /\ retrieved' = <<>>
    /\ UNCHANGED <<status, store, index, pc, locals, todo, hit, restarts, history>>

RestartSearch ==
    /\ Restart
    /\ phase' = "none" /\ document_ids' = {} /\ owed' = {}
    /\ vector_ranking' = <<>> /\ bm25_ranking' = <<>> /\ retrieved' = <<>>

HybridNext ==
    \/ \E d \in Docs : (Upload(d) \/ Ingest(d)) /\ UNCHANGED hybrid
    \/ VectorSearch \/ KeywordSearch \/ LookUp \/ FilterHit \/ Fuse \/ SearchRaises
    \/ RestartSearch

HybridSpec ==
    HybridInit /\ [][HybridNext]_allVars /\ \A d \in Docs : WF_vars(Ingest(d))

-----------------------------------------------------------------------------
(***************************************************************************)
(* Properties.                                                             *)
(***************************************************************************)

\* What was in the index when the search began, is admitted and matches a term
\* of the query, is retrieved or outranked by TopK others, whatever is ingested,
\* rebuilt and overtaken meanwhile, unless more match than a leg may find
\* (retrieval.py:29-77).
ReadyIsFound ==
    phase = "over" =>
        \A d \in owed :
            \/ d \in Listed(retrieved)
            \/ Len(retrieved) = TopK /\ \A id \in Listed(retrieved) : ~Higher(d, id)

\* What both legs found comes before what one of them found, at any RrfK as
\* large as the rankings may be long (fusion.py:1-8).
BothLegsFirst ==
    phase = "over" /\ CandidateK <= RrfK =>
        \A d \in Listed(vector_ranking) \cap Listed(bm25_ranking) :
            d \in Listed(retrieved) \/
            Listed(retrieved) \subseteq Listed(vector_ranking) \cap Listed(bm25_ranking)

=============================================================================
