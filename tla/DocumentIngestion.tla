-------------------------- MODULE DocumentIngestion --------------------------
(***************************************************************************)
(* Uploads, their background ingestion, and the keyword index that every   *)
(* ingestion rebuilds in a thread of its own while searches read it in     *)
(* theirs (app/services/document_service.py, app/core/rag/bm25_index.py).  *)
(* A thread may be preempted between any two statements of BM25Index.      *)
(*                                                                         *)
(* A document stands for its chunks, which one call adds to the vector     *)
(* store; the store lists them in the order they were added.  A corpus is  *)
(* the sequence of documents a list of the index was made from; <<>> is    *)
(* the index that was never built.                                         *)
(***************************************************************************)
EXTENDS Integers, Sequences, FiniteSets

CONSTANTS Docs, MaxRestarts

ASSUME IngestionAssumption == MaxRestarts \in Nat

Corpus == {<<>>} \cup UNION {[1 .. n -> Docs] : n \in 1 .. Cardinality(Docs)}

VARIABLES
    status,         \* of the rows of table document
    store,          \* the vector store, in order of insertion
    ids, texts, metadatas, bm25,    \* the fields of BM25Index
    pc, result, tokenized,          \* of each ingestion
    searchPc, todo, hit,            \* a search in the index
    restarts,
    \* history: does a rebuild run alone, and may the index lag behind
    alone, stale

index == <<ids, texts, metadatas, bm25>>
locals == <<result, tokenized>>
search == <<searchPc, todo, hit>>
history == <<alone, stale>>
vars == <<status, store, index, pc, locals, search, restarts, history>>

Rebuilding == {"ids", "texts", "metadatas", "read", "bm25"}

DocumentStatus == {"none", "processing", "ready", "failed"}

\* What a search has looked up so far at an index; {} is nothing yet.
Found(at, id, text, metadata) ==
    [at |-> at, id |-> id, text |-> text, metadata |-> metadata]

NoHit == Found(0, {}, {}, {})
Hit == [at : Nat, id : SUBSET Docs, text : SUBSET Docs, metadata : SUBSET Docs]

TypeOK ==
    /\ status \in [Docs -> DocumentStatus]
    /\ {store, ids, texts, metadatas, bm25} \subseteq Corpus
    /\ pc \in [Docs -> {"none", "write", "parse", "add", "fetch", "ready", "fail", "done"}
                         \cup Rebuilding]
    /\ result \in [Docs -> Corpus] /\ tokenized \in [Docs -> Corpus]
    /\ searchPc \in {"idle", "id", "text", "metadata", "hit", "failed"}
    /\ todo \subseteq 1 .. Cardinality(Docs)
    /\ hit \in Hit
    /\ restarts \in 0 .. MaxRestarts
    /\ alone \in [Docs -> BOOLEAN] /\ stale \in BOOLEAN

Init ==
    /\ status = [d \in Docs |-> "none"] /\ store = <<>>
    /\ ids = <<>> /\ texts = <<>> /\ metadatas = <<>> /\ bm25 = <<>>
    /\ pc = [d \in Docs |-> "none"]
    /\ result = [d \in Docs |-> <<>>] /\ tokenized = [d \in Docs |-> <<>>]
    /\ searchPc = "idle" /\ todo = {} /\ hit = NoHit
    /\ restarts = 0
    /\ alone = [d \in Docs |-> FALSE] /\ stale = FALSE

Listed(corpus) == {corpus[k] : k \in DOMAIN corpus}

GoTo(d, label) == pc' = [pc EXCEPT ![d] = label]

-----------------------------------------------------------------------------
(***************************************************************************)
(* upload and the stages of _ingest.                                       *)
(***************************************************************************)

Upload(d) ==
    /\ pc[d] = "none"
    /\ GoTo(d, "write")
    /\ UNCHANGED <<status, store, index, locals, search, restarts, history>>

\* The row is created, the ingestion spawned and the answer given in one go.
CreateDocument(d) ==
    /\ pc[d] = "write"
    /\ status' = [status EXCEPT ![d] = "processing"]
    /\ GoTo(d, "parse")
    /\ UNCHANGED <<store, index, locals, search, restarts, history>>

UploadFails(d) ==
    /\ pc[d] = "write"
    /\ GoTo(d, "done")
    /\ UNCHANGED <<status, store, index, locals, search, restarts, history>>

Parse(d) ==
    /\ pc[d] = "parse"
    /\ GoTo(d, "add")
    /\ UNCHANGED <<status, store, index, locals, search, restarts, history>>

AddDocuments(d) ==
    /\ pc[d] = "add"
    /\ store' = Append(store, d)
    /\ GoTo(d, "fetch")
    /\ UNCHANGED <<status, index, locals, search, restarts, history>>

\* Mutant: the exception is logged and forgotten.
StageFailsQuietly(d) ==
    /\ pc[d] \in {"parse", "add", "fetch", "read", "bm25"}
    /\ GoTo(d, "ready")
    /\ result' = [result EXCEPT ![d] = <<>>]
    /\ tokenized' = [tokenized EXCEPT ![d] = <<>>]
    /\ alone' = [alone EXCEPT ![d] = FALSE]
    /\ UNCHANGED <<status, store, index, search, restarts, stale>>

\* Mutant: a failed stage starts the ingestion over.
StageFailsRetry(d) ==
    /\ pc[d] \in {"parse", "add"}
    /\ GoTo(d, "parse")
    /\ UNCHANGED <<status, store, index, locals, search, restarts, history>>

\* Any stage of _ingest may raise; the fields a rebuild has set stay set.
StageFails(d) ==
    /\ pc[d] \in {"parse", "add", "fetch", "read", "bm25"}
    /\ GoTo(d, "fail")
    /\ result' = [result EXCEPT ![d] = <<>>]
    /\ tokenized' = [tokenized EXCEPT ![d] = <<>>]
    /\ alone' = [alone EXCEPT ![d] = FALSE]
    /\ UNCHANGED <<status, store, index, search, restarts, stale>>

\* The status update may fail before its commit, or after it.
MarkReady(d) ==
    /\ pc[d] = "ready"
    /\ \/ status' = [status EXCEPT ![d] = "ready"] /\ GoTo(d, "done")
       \/ status' = [status EXCEPT ![d] = "ready"] /\ GoTo(d, "fail")
       \/ UNCHANGED status /\ GoTo(d, "fail")
    /\ UNCHANGED <<store, index, locals, search, restarts, history>>

MarkFailed(d) ==
    /\ pc[d] = "fail"
    /\ \/ status' = [status EXCEPT ![d] = "failed"]
       \/ UNCHANGED status
    /\ GoTo(d, "done")
    /\ UNCHANGED <<store, index, locals, search, restarts, history>>

-----------------------------------------------------------------------------
(***************************************************************************)
(* BM25Index.rebuild.                                                      *)
(***************************************************************************)

Active == {d \in Docs : pc[d] \in Rebuilding}

\* Mutant: the store lists the newest chunks first.
FetchNewestFirst(d) ==
    /\ pc[d] = "fetch"
    /\ result' = [result EXCEPT ![d] =
                    [k \in DOMAIN store |-> store[Len(store) + 1 - k]]]
    /\ alone' = [e \in Docs |-> e = d /\ Active = {}]
    /\ stale' = (stale \/ Active # {})
    /\ GoTo(d, "ids")
    /\ UNCHANGED <<status, store, index, tokenized, search, restarts>>

\* Mutant: the scores are replaced before the lists.
FetchScoresFirst(d) ==
    /\ pc[d] = "fetch"
    /\ result' = [result EXCEPT ![d] = store]
    /\ bm25' = store
    /\ alone' = [e \in Docs |-> e = d /\ Active = {}]
    /\ stale' = (stale \/ Active # {})
    /\ GoTo(d, "ids")
    /\ UNCHANGED <<status, store, ids, texts, metadatas, tokenized, search, restarts>>

Fetch(d) ==
    /\ pc[d] = "fetch"
    /\ result' = [result EXCEPT ![d] = store]
    /\ alone' = [e \in Docs |-> e = d /\ Active = {}]
    /\ stale' = (stale \/ Active # {})
    /\ GoTo(d, "ids")
    /\ UNCHANGED <<status, store, index, tokenized, search, restarts>>

SetIds(d) ==
    /\ pc[d] = "ids"
    /\ ids' = result[d]
    /\ GoTo(d, "texts")
    /\ UNCHANGED <<status, store, texts, metadatas, bm25, locals, search, restarts, history>>

SetTexts(d) ==
    /\ pc[d] = "texts"
    /\ texts' = result[d]
    /\ GoTo(d, "metadatas")
    /\ UNCHANGED <<status, store, ids, metadatas, bm25, locals, search, restarts, history>>

\* The last use of result.
SetMetadatas(d) ==
    /\ pc[d] = "metadatas"
    /\ metadatas' = result[d]
    /\ result' = [result EXCEPT ![d] = <<>>]
    /\ GoTo(d, "read")
    /\ UNCHANGED <<status, store, ids, texts, bm25, tokenized, search, restarts, history>>

\* The comprehension reads the field, not the list this thread has put there.
ReadTexts(d) ==
    /\ pc[d] = "read"
    /\ IF texts = <<>>
       THEN bm25' = <<>> /\ GoTo(d, "ready") /\ UNCHANGED tokenized
       ELSE tokenized' = [tokenized EXCEPT ![d] = texts] /\ GoTo(d, "bm25") /\ UNCHANGED bm25
    /\ UNCHANGED <<status, store, ids, texts, metadatas, result, search, restarts, history>>

SetBm25(d) ==
    /\ pc[d] = "bm25"
    /\ bm25' = tokenized[d]
    /\ tokenized' = [tokenized EXCEPT ![d] = <<>>]
    /\ stale' = (stale /\ ~alone[d])
    /\ alone' = [alone EXCEPT ![d] = FALSE]
    /\ GoTo(d, "ready")
    /\ UNCHANGED <<status, store, ids, texts, metadatas, result, search, restarts>>

-----------------------------------------------------------------------------
(***************************************************************************)
(* BM25Index.top_n: scores first, then three lookups for each index whose  *)
(* score is not zero; a search may score any set of them.                  *)
(***************************************************************************)

NextHit(rest) ==
    \/ rest = {} /\ searchPc' = "idle" /\ todo' = {} /\ hit' = NoHit
    \/ \E i \in rest : /\ searchPc' = "id"
                       /\ todo' = rest \ {i}
                       /\ hit' = Found(i, {}, {}, {})

IndexError == searchPc' = "failed" /\ todo' = {} /\ hit' = NoHit

Rank ==
    /\ searchPc \in {"idle", "failed"}
    /\ \E scored \in SUBSET DOMAIN bm25 : NextHit(scored)
    /\ UNCHANGED <<status, store, index, pc, locals, restarts, history>>

LookUpId ==
    /\ searchPc = "id"
    /\ \/ /\ hit.at \in DOMAIN ids
          /\ hit' = Found(hit.at, {ids[hit.at]}, {}, {})
          /\ searchPc' = "text" /\ UNCHANGED todo
       \/ hit.at \notin DOMAIN ids /\ IndexError
    /\ UNCHANGED <<status, store, index, pc, locals, restarts, history>>

LookUpText ==
    /\ searchPc = "text"
    /\ \/ /\ hit.at \in DOMAIN texts
          /\ hit' = Found(hit.at, hit.id, {texts[hit.at]}, {})
          /\ searchPc' = "metadata" /\ UNCHANGED todo
       \/ hit.at \notin DOMAIN texts /\ IndexError
    /\ UNCHANGED <<status, store, index, pc, locals, restarts, history>>

LookUpMetadata ==
    /\ searchPc = "metadata"
    /\ \/ /\ hit.at \in DOMAIN metadatas
          /\ hit' = Found(hit.at, hit.id, hit.text, {metadatas[hit.at]})
          /\ searchPc' = "hit" /\ UNCHANGED todo
       \/ hit.at \notin DOMAIN metadatas /\ IndexError
    /\ UNCHANGED <<status, store, index, pc, locals, restarts, history>>

\* The hit is complete: on to the next one, or return.
TakeHit ==
    /\ searchPc = "hit"
    /\ NextHit(todo)
    /\ UNCHANGED <<status, store, index, pc, locals, restarts, history>>

-----------------------------------------------------------------------------
\* Ingestions and searches die with the process; lifespan rebuilds the index
\* before requests are served and carries on without it when that fails.
Restart ==
    /\ restarts < MaxRestarts
    /\ restarts' = restarts + 1
    /\ pc' = [d \in Docs |-> IF pc[d] = "none" THEN "none" ELSE "done"]
    /\ result' = [d \in Docs |-> <<>>] /\ tokenized' = [d \in Docs |-> <<>>]
    /\ searchPc' = "idle" /\ todo' = {} /\ hit' = NoHit
    /\ alone' = [d \in Docs |-> FALSE]
    /\ \/ /\ ids' = store /\ texts' = store /\ metadatas' = store /\ bm25' = store
          /\ stale' = FALSE
       \/ /\ ids' = <<>> /\ texts' = <<>> /\ metadatas' = <<>> /\ bm25' = <<>>
          /\ stale' = TRUE
    /\ UNCHANGED <<status, store>>

Rebuild(d) ==
    \/ Fetch(d) \/ SetIds(d) \/ SetTexts(d) \/ SetMetadatas(d)
    \/ ReadTexts(d) \/ SetBm25(d)

\* One turn of an ingestion, good or bad.
Ingest(d) ==
    \/ CreateDocument(d) \/ UploadFails(d)
    \/ Parse(d) \/ AddDocuments(d)
    \/ Rebuild(d)
    \/ StageFails(d)
    \/ MarkReady(d) \/ MarkFailed(d)

Search == Rank \/ LookUpId \/ LookUpText \/ LookUpMetadata \/ TakeHit

Next ==
    \/ \E d \in Docs : Upload(d) \/ Ingest(d)
    \/ Search
    \/ Restart

\* The event loop and the thread pool run every task they were given.
Spec == Init /\ [][Next]_vars /\ \A d \in Docs : WF_vars(Ingest(d))

-----------------------------------------------------------------------------
(***************************************************************************)
(* Properties.                                                             *)
(***************************************************************************)

\* A ready document is in the vector store and, unless rebuilds have
\* overlapped or the index of a restart could not be built, in the index too,
\* whatever else is being ingested (document_service.py:79-85).
ReadyIsSearchable ==
    \A d \in Docs : status[d] = "ready" =>
        d \in Listed(store) /\ (stale \/ d \in Listed(bm25))

\* A hit never mixes two chunks, even when the lists are replaced between the
\* lookups: lists of different rebuilds agree where both have an entry
\* (bm25_index.py:44-46, 68-72).
HitsAreWhole ==
    searchPc = "hit" => hit.id = hit.text /\ hit.text = hit.metadata

\* The scores are replaced last, so a search finds an entry for each of them
\* in every list, unless rebuilds overlapped (bm25_index.py:44-53, 66-71).
OnlyOverlapFailsSearch ==
    [][searchPc # "failed" /\ searchPc' = "failed" => stale]_vars

\* Every ingestion comes to its end (document_service.py:52-89).
IngestionEnds ==
    \A d \in Docs : pc[d] \notin {"none", "done"} ~> pc[d] = "done"

\* "In-memory BM25 index over every chunk currently in the vector store"
\* (bm25_index.py:26), once no ingestion is under way and none has failed.
IndexIsWhole ==
    (\A d \in Docs : status[d] = "ready" \/ pc[d] = "none") /\ restarts = 0
        => Listed(bm25) = Listed(store)

=============================================================================
