------------------------- MODULE HybridSearchProofs -------------------------
(***************************************************************************)
(* Proofs about DocumentIngestion and HybridSearch, for every set of       *)
(* documents and any number of restarts.                                   *)
(***************************************************************************)
EXTENDS HybridSearch, FiniteSetTheorems, TLAPS

-----------------------------------------------------------------------------
(***************************************************************************)
(* Corpora.                                                                *)
(***************************************************************************)

\* Does the corpus list what the store listed first?
PrefixOf(corpus, whole) ==
    /\ corpus \in Seq(Docs)
    /\ Len(corpus) <= Len(whole)
    /\ \A k \in 1 .. Len(corpus) : corpus[k] = whole[k]

LEMMA EmptyPrefix ==
    ASSUME NEW whole \in Seq(Docs) PROVE PrefixOf(<<>>, whole)
BY DEF PrefixOf

LEMMA SelfPrefix ==
    ASSUME NEW whole \in Seq(Docs) PROVE PrefixOf(whole, whole)
BY DEF PrefixOf

LEMMA PrefixGrows ==
    ASSUME NEW whole \in Seq(Docs), NEW d \in Docs, NEW corpus, PrefixOf(corpus, whole)
    PROVE  PrefixOf(corpus, Append(whole, d))
BY DEF PrefixOf

\* What a corpus lists at an index, its store lists there.
LEMMA PrefixAt ==
    ASSUME NEW whole \in Seq(Docs), NEW corpus, PrefixOf(corpus, whole),
           NEW k \in DOMAIN corpus
    PROVE  k \in DOMAIN whole /\ corpus[k] = whole[k]
BY DEF PrefixOf

LEMMA ListedEmpty == Listed(<<>>) = {}
BY DEF Listed

LEMMA ListedAppend ==
    ASSUME NEW whole \in Seq(Docs), NEW d \in Docs
    PROVE  Listed(Append(whole, d)) = Listed(whole) \cup {d}
<1>1. /\ DOMAIN Append(whole, d) = 1 .. Len(whole) + 1
      /\ DOMAIN whole = 1 .. Len(whole)
      /\ Len(whole) \in Nat
  OBVIOUS
<1>2. /\ \A k \in 1 .. Len(whole) : Append(whole, d)[k] = whole[k]
      /\ Append(whole, d)[Len(whole) + 1] = d
  OBVIOUS
<1> QED BY <1>1, <1>2 DEF Listed

-----------------------------------------------------------------------------
(***************************************************************************)
(* The inductive invariant of the ingestion.                               *)
(***************************************************************************)

Step == {"none", "write", "parse", "add", "fetch", "ready", "fail", "done"} \cup Rebuilding

TInv ==
    /\ status \in [Docs -> DocumentStatus]
    /\ store \in Seq(Docs)
    /\ pc \in [Docs -> Step]
    /\ result \in [Docs -> Seq(Docs)] /\ tokenized \in [Docs -> Seq(Docs)]
    /\ alone \in [Docs -> BOOLEAN] /\ stale \in BOOLEAN

\* Every list there is was the store's once, and the store only grows.
PInv ==
    /\ PrefixOf(ids, store) /\ PrefixOf(texts, store)
    /\ PrefixOf(metadatas, store) /\ PrefixOf(bm25, store)
    /\ \A d \in Docs : PrefixOf(result[d], store) /\ PrefixOf(tokenized[d], store)

\* What a search has looked up is what the store lists there.
SInv ==
    /\ searchPc \in {"idle", "failed"} => todo = {} /\ hit = NoHit
    /\ searchPc \in {"text", "metadata", "hit"} =>
          hit.at \in DOMAIN store /\ hit.id = {store[hit.at]}
    /\ searchPc \in {"metadata", "hit"} => hit.text = {store[hit.at]}
    /\ searchPc = "hit" => hit.metadata = {store[hit.at]}

StoredInv ==
    \A d \in Docs :
        status[d] = "ready" \/ pc[d] \in {"fetch", "ready"} \cup Rebuilding =>
            d \in Listed(store)

\* The documents a search should find.
Settled == {d \in Docs : status[d] = "ready" \/ pc[d] = "ready"}

\* A rebuild that is alone has the field of its own, and what it has read
\* and stored lists every settled document and its own; one that is not
\* alone leaves the index stale.
AloneInv ==
    \A d \in Docs :
        /\ pc[d] \in Rebuilding => alone[d] \/ stale
        /\ alone[d] =>
              /\ pc[d] \in Rebuilding
              /\ \A e \in Docs : pc[e] \in Rebuilding => e = d

CarriedInv ==
    \A d \in Docs : alone[d] =>
        /\ pc[d] \in {"ids", "texts", "metadatas"} =>
              Settled \cup {d} \subseteq Listed(result[d])
        /\ pc[d] \in {"metadatas", "read"} => Settled \cup {d} \subseteq Listed(texts)
        /\ pc[d] = "bm25" => Settled \cup {d} \subseteq Listed(tokenized[d])

IndexedInv == ~stale => Settled \subseteq Listed(bm25)

RInv == StoredInv /\ AloneInv /\ CarriedInv /\ IndexedInv

\* The indices a search may still look up, now or once it has ranked.
Reached ==
    DOMAIN bm25 \cup todo
        \cup (IF searchPc \in {"id", "text", "metadata"} THEN {hit.at} ELSE {})

\* The lists of an index that is not stale reach as far as its scores, and so
\* do the lists a lonely rebuild is putting in their place.
ReachInv ==
    /\ Reached \subseteq DOMAIN store
    /\ ~stale => /\ Reached \subseteq DOMAIN ids
                 /\ Reached \subseteq DOMAIN texts
                 /\ Reached \subseteq DOMAIN metadatas
    /\ \A d \in Docs : alone[d] =>
          /\ pc[d] \in {"ids", "texts", "metadatas"} => Reached \subseteq DOMAIN result[d]
          /\ pc[d] \in {"texts", "metadatas"} => ids = result[d]
          /\ pc[d] = "metadatas" => texts = result[d]
          /\ pc[d] \in {"read", "bm25"} =>
                ids = texts /\ metadatas = texts /\ Reached \subseteq DOMAIN texts
          /\ pc[d] = "bm25" => tokenized[d] = texts

IngestionInv == TInv /\ PInv /\ SInv /\ RInv /\ ReachInv

LEMMA IngestionInitial == Init => IngestionInv
<1> SUFFICES ASSUME Init PROVE IngestionInv
  OBVIOUS
<1>1. TInv
  <2>1. <<>> \in Seq(Docs)
    OBVIOUS
  <2> QED BY <2>1 DEF Init, TInv, Step, DocumentStatus
<1>2. PInv
  BY EmptyPrefix, <1>1 DEF Init, PInv, TInv
<1>3. SInv
  BY DEF Init, SInv
<1>4. RInv
  BY DEF Init, RInv, StoredInv, AloneInv, CarriedInv, IndexedInv, Settled, Rebuilding
<1>5. ReachInv
  BY DEF Init, ReachInv, Reached
<1> QED BY <1>1, <1>2, <1>3, <1>4, <1>5 DEF IngestionInv

-----------------------------------------------------------------------------
(***************************************************************************)
(* One lemma per kind of step.                                             *)
(***************************************************************************)

\* A search gets no further by them, and no lonely rebuild moves.
LEMMA ReachKept ==
    ASSUME ReachInv,
           Reached' \subseteq Reached,
           DOMAIN store \subseteq DOMAIN store',
           UNCHANGED <<ids, texts, metadatas, stale>>,
           \A d \in Docs : alone'[d] =>
               /\ alone[d] /\ pc'[d] = pc[d]
               /\ result'[d] = result[d] /\ tokenized'[d] = tokenized[d]
    PROVE  ReachInv'
BY DEF ReachInv

\* Steps that move one ingestion where no rebuild is, and nothing else.
LEMMA QuietMove ==
    ASSUME IngestionInv, NEW d \in Docs, NEW label \in Step \ Rebuilding,
           GoTo(d, label),
           pc[d] \notin Rebuilding,
           label \in {"fetch", "ready"} => pc[d] \in {"fetch", "ready"},
           label = "ready" => pc[d] = "ready",
           status' \in [Docs -> DocumentStatus],
           \A e \in Docs : status'[e] = "ready" => e \in Settled,
           UNCHANGED <<store, index, locals, search, history>>
    PROVE  IngestionInv'
<1>1. /\ pc' \in [Docs -> Step]
      /\ \A e \in Docs : pc'[e] = IF e = d THEN label ELSE pc[e]
  BY DEF IngestionInv, TInv, GoTo
<1>2. TInv'
  BY <1>1 DEF IngestionInv, TInv, locals, history
<1>3. PInv' /\ SInv'
  BY DEF IngestionInv, PInv, SInv, index, locals, search
<1>4. Settled' \subseteq Settled
  BY <1>1 DEF Settled
<1>5. StoredInv'
  BY <1>1, <1>4 DEF IngestionInv, RInv, StoredInv, Settled, Step
<1>6. AloneInv'
  BY <1>1 DEF IngestionInv, RInv, AloneInv, history
<1>7. CarriedInv'
  BY <1>1, <1>4 DEF IngestionInv, RInv, CarriedInv, AloneInv, history, locals, index, Rebuilding
<1>8. IndexedInv'
  BY <1>4 DEF IngestionInv, RInv, IndexedInv, history, index
<1>9. ReachInv'
  <2>1. Reached' \subseteq Reached
    BY DEF Reached, index, search
  <2>2. \A e \in Docs : alone'[e] => alone[e] /\ pc'[e] = pc[e]
    BY <1>1 DEF IngestionInv, RInv, AloneInv, history
  <2> QED BY <2>1, <2>2, ReachKept DEF IngestionInv, index, locals, history
<1> QED BY <1>2, <1>3, <1>5, <1>6, <1>7, <1>8, <1>9 DEF IngestionInv, RInv

LEMMA StageSteps ==
    ASSUME IngestionInv, NEW d \in Docs,
           \/ Upload(d) \/ CreateDocument(d) \/ UploadFails(d) \/ Parse(d)
           \/ MarkReady(d) \/ MarkFailed(d)
    PROVE  IngestionInv'
<1>1. status \in [Docs -> DocumentStatus] /\ pc[d] \in Step
  BY DEF IngestionInv, TInv
<1>2. CASE Upload(d)
  BY <1>1, <1>2, QuietMove DEF Upload, Step, Rebuilding, Settled
<1>3. CASE CreateDocument(d)
  BY <1>1, <1>3, QuietMove DEF CreateDocument, Step, Rebuilding, Settled, DocumentStatus
<1>4. CASE UploadFails(d)
  BY <1>1, <1>4, QuietMove DEF UploadFails, Step, Rebuilding, Settled
<1>5. CASE Parse(d)
  BY <1>1, <1>5, QuietMove DEF Parse, Step, Rebuilding, Settled
<1>6. CASE MarkReady(d)
  <2>1. /\ pc[d] = "ready" /\ pc[d] \notin Rebuilding
        /\ {"done", "fail"} \subseteq Step \ Rebuilding
        /\ status' \in [Docs -> DocumentStatus]
        /\ \A e \in Docs : status'[e] = "ready" => e \in Settled
    BY <1>1, <1>6 DEF MarkReady, Step, Rebuilding, Settled, DocumentStatus
  <2>2. PICK label \in {"done", "fail"} : GoTo(d, label)
    BY <1>6 DEF MarkReady
  <2> QED BY <1>6, <2>1, <2>2, QuietMove DEF MarkReady
<1>7. CASE MarkFailed(d)
  BY <1>1, <1>7, QuietMove DEF MarkFailed, Step, Rebuilding, Settled, DocumentStatus
<1> QED BY <1>2, <1>3, <1>4, <1>5, <1>6, <1>7

LEMMA AddStep ==
    ASSUME IngestionInv, NEW d \in Docs, AddDocuments(d)
    PROVE  IngestionInv'
<1>1. /\ store' \in Seq(Docs) /\ Listed(store') = Listed(store) \cup {d}
      /\ \A k \in DOMAIN store : k \in DOMAIN store' /\ store'[k] = store[k]
  BY ListedAppend DEF AddDocuments, IngestionInv, TInv
<1>2. /\ pc' \in [Docs -> Step]
      /\ \A e \in Docs : pc'[e] = IF e = d THEN "fetch" ELSE pc[e]
      /\ pc[d] = "add"
  BY DEF IngestionInv, TInv, AddDocuments, GoTo, Step
<1>3. TInv'
  BY <1>1, <1>2 DEF AddDocuments, IngestionInv, TInv, locals, history
<1>4. \A corpus : PrefixOf(corpus, store) => PrefixOf(corpus, store')
  BY PrefixGrows DEF AddDocuments, IngestionInv, TInv
<1>5. PInv'
  BY <1>4 DEF AddDocuments, IngestionInv, PInv, index, locals
<1>6. SInv'
  BY <1>1 DEF AddDocuments, IngestionInv, SInv, search
<1>7. Settled' = Settled
  BY <1>2 DEF AddDocuments, Settled
<1>8. StoredInv'
  BY <1>1, <1>2 DEF AddDocuments, IngestionInv, RInv, StoredInv
<1>9. AloneInv'
  BY <1>2 DEF AddDocuments, IngestionInv, RInv, AloneInv, history, Rebuilding
<1>10. CarriedInv' /\ IndexedInv'
  BY <1>2, <1>7 DEF AddDocuments, IngestionInv, RInv, AloneInv, CarriedInv, IndexedInv,
     history, locals, index, Rebuilding
<1>11. ReachInv'
  <2>1. Reached' \subseteq Reached
    BY DEF AddDocuments, Reached, index, search
  <2>2. \A e \in Docs : alone'[e] => alone[e] /\ pc'[e] = pc[e]
    BY <1>2 DEF AddDocuments, IngestionInv, RInv, AloneInv, history, Rebuilding
  <2>3. DOMAIN store \subseteq DOMAIN store'
    BY <1>1
  <2> QED BY <2>1, <2>2, <2>3, ReachKept DEF AddDocuments, IngestionInv, index, locals, history
<1> QED BY <1>3, <1>5, <1>6, <1>8, <1>9, <1>10, <1>11 DEF IngestionInv, RInv

LEMMA FailStep ==
    ASSUME IngestionInv, NEW d \in Docs, StageFails(d)
    PROVE  IngestionInv'
<1>1. /\ pc' \in [Docs -> Step]
      /\ \A e \in Docs : pc'[e] = IF e = d THEN "fail" ELSE pc[e]
      /\ pc[d] # "ready"
  BY DEF IngestionInv, TInv, StageFails, GoTo, Step
<1>2. <<>> \in Seq(Docs)
  OBVIOUS
<1>3. /\ result' \in [Docs -> Seq(Docs)] /\ tokenized' \in [Docs -> Seq(Docs)]
      /\ alone' \in [Docs -> BOOLEAN]
      /\ \A e \in Docs : /\ result'[e] = IF e = d THEN <<>> ELSE result[e]
                         /\ tokenized'[e] = IF e = d THEN <<>> ELSE tokenized[e]
                         /\ alone'[e] = IF e = d THEN FALSE ELSE alone[e]
  BY <1>2 DEF IngestionInv, TInv, StageFails
<1>4. TInv'
  BY <1>1, <1>3 DEF IngestionInv, TInv, StageFails
<1>5. PInv' /\ SInv'
  BY <1>3, EmptyPrefix DEF IngestionInv, TInv, PInv, SInv, StageFails, index, search
<1>6. Settled' = Settled
  BY <1>1 DEF StageFails, Settled
<1>7. StoredInv'
  BY <1>1 DEF StageFails, IngestionInv, RInv, StoredInv, Rebuilding
<1>8. AloneInv'
  BY <1>1, <1>3 DEF StageFails, IngestionInv, RInv, AloneInv, Rebuilding
<1>9. CarriedInv'
  BY <1>1, <1>3, <1>6 DEF StageFails, IngestionInv, RInv, CarriedInv, index
<1>10. IndexedInv'
  BY <1>6 DEF StageFails, IngestionInv, RInv, IndexedInv, index
<1>11. ReachInv'
  <2>1. Reached' \subseteq Reached
    BY DEF StageFails, Reached, index, search
  <2>2. UNCHANGED <<store, ids, texts, metadatas, stale>>
    BY DEF StageFails, index
  <2> QED BY <1>1, <1>3, <2>1, <2>2, ReachKept DEF IngestionInv
<1> QED BY <1>4, <1>5, <1>7, <1>8, <1>9, <1>10, <1>11 DEF IngestionInv, RInv

LEMMA FetchStep ==
    ASSUME IngestionInv, NEW d \in Docs, Fetch(d)
    PROVE  IngestionInv'
<1>1. /\ pc' \in [Docs -> Step]
      /\ \A e \in Docs : pc'[e] = IF e = d THEN "ids" ELSE pc[e]
      /\ pc[d] = "fetch"
  BY DEF IngestionInv, TInv, Fetch, GoTo, Step, Rebuilding
<1>2. /\ result' \in [Docs -> Seq(Docs)]
      /\ \A e \in Docs : result'[e] = IF e = d THEN store ELSE result[e]
      /\ alone' \in [Docs -> BOOLEAN]
      /\ \A e \in Docs : alone'[e] <=> e = d /\ Active = {}
      /\ stale' = (stale \/ Active # {})
  BY DEF IngestionInv, TInv, Fetch
<1>3. TInv'
  BY <1>1, <1>2 DEF IngestionInv, TInv, Fetch
<1>4. PInv' /\ SInv'
  BY <1>2, SelfPrefix DEF IngestionInv, TInv, PInv, SInv, Fetch, index, search
<1>5. Settled' = Settled
  BY <1>1 DEF Fetch, Settled
<1>6. Settled \cup {d} \subseteq Listed(store)
  BY <1>1 DEF IngestionInv, RInv, StoredInv, Settled
<1>7. StoredInv'
  BY <1>1 DEF Fetch, IngestionInv, RInv, StoredInv, Rebuilding
<1>8. AloneInv'
  BY <1>1, <1>2 DEF Fetch, IngestionInv, RInv, AloneInv, Active, Rebuilding
<1>9. CarriedInv'
  BY <1>1, <1>2, <1>5, <1>6 DEF CarriedInv
<1>10. IndexedInv'
  BY <1>2, <1>5 DEF Fetch, IngestionInv, RInv, IndexedInv, index
<1>11. ReachInv'
  <2>1. Reached' = Reached
    BY DEF Fetch, Reached, index, search
  <2>2. UNCHANGED <<store, ids, texts, metadatas>>
    BY DEF Fetch, index
  <2>3. \A e \in Docs : alone'[e] => pc'[e] = "ids" /\ result'[e] = store
    BY <1>1, <1>2
  <2> QED BY <1>2, <2>1, <2>2, <2>3 DEF IngestionInv, ReachInv
<1> QED BY <1>3, <1>4, <1>7, <1>8, <1>9, <1>10, <1>11 DEF IngestionInv, RInv

\* The three lists, one after the other.
LEMMA ListSteps ==
    ASSUME IngestionInv, NEW d \in Docs, SetIds(d) \/ SetTexts(d) \/ SetMetadatas(d)
    PROVE  IngestionInv'
<1>1. PICK here \in Rebuilding, there \in Rebuilding :
         /\ pc[d] = here /\ GoTo(d, there)
         /\ \/ here = "ids" /\ there = "texts"
            \/ here = "texts" /\ there = "metadatas"
            \/ here = "metadatas" /\ there = "read"
  BY DEF SetIds, SetTexts, SetMetadatas, Rebuilding
<1>2. /\ pc' \in [Docs -> Step]
      /\ \A e \in Docs : pc'[e] = IF e = d THEN there ELSE pc[e]
  BY <1>1 DEF IngestionInv, TInv, GoTo, Step
<1>3. <<>> \in Seq(Docs)
  OBVIOUS
<1>4. /\ result' \in [Docs -> Seq(Docs)]
      /\ \A e \in Docs : e # d => result'[e] = result[e]
      /\ there # "read" => result'[d] = result[d]
      /\ result'[d] \in {result[d], <<>>}
      /\ texts' = IF here = "texts" THEN result[d] ELSE texts
  BY <1>1, <1>3 DEF IngestionInv, TInv, SetIds, SetTexts, SetMetadatas, locals
<1>5. UNCHANGED <<status, store, bm25, tokenized, search, history>>
  BY DEF SetIds, SetTexts, SetMetadatas, locals
<1>6. TInv'
  BY <1>2, <1>4, <1>5 DEF IngestionInv, TInv, history
<1>7. PInv'
  <2>1. PrefixOf(result[d], store)
    BY DEF IngestionInv, PInv
  <2>2. PrefixOf(ids', store') /\ PrefixOf(texts', store') /\ PrefixOf(metadatas', store')
    BY <2>1, <1>5 DEF SetIds, SetTexts, SetMetadatas, IngestionInv, PInv
  <2>3. PrefixOf(result'[d], store')
    BY <2>1, <1>4, <1>5, EmptyPrefix DEF IngestionInv, TInv
  <2> QED BY <1>4, <1>5, <2>2, <2>3 DEF IngestionInv, PInv
<1>8. SInv'
  BY <1>5 DEF IngestionInv, SInv, search
<1>9. Settled' = Settled
  BY <1>1, <1>2, <1>5 DEF Settled, Rebuilding
<1>10. StoredInv'
  BY <1>1, <1>2, <1>5 DEF IngestionInv, RInv, StoredInv
<1>11. AloneInv'
  BY <1>1, <1>2, <1>5 DEF IngestionInv, RInv, AloneInv, history
<1>12. CarriedInv'
  <2> SUFFICES ASSUME NEW e \in Docs, alone[e]
               PROVE  /\ pc'[e] \in {"ids", "texts", "metadatas"} =>
                           Settled \cup {e} \subseteq Listed(result'[e])
                      /\ pc'[e] \in {"metadatas", "read"} =>
                           Settled \cup {e} \subseteq Listed(texts')
                      /\ pc'[e] = "bm25" => Settled \cup {e} \subseteq Listed(tokenized[e])
    BY <1>5, <1>9 DEF CarriedInv, history
  <2>1. e = d
    BY <1>1 DEF IngestionInv, RInv, AloneInv
  <2> QED BY <1>1, <1>2, <1>4, <2>1 DEF IngestionInv, RInv, CarriedInv
<1>13. IndexedInv'
  BY <1>5, <1>9 DEF IngestionInv, RInv, IndexedInv, history
<1>14. ReachInv'
  <2>1. Reached' = Reached
    BY <1>5 DEF Reached, search
  <2>2. \A e \in Docs : alone[e] => e = d
    BY <1>1 DEF IngestionInv, RInv, AloneInv
  <2>3. alone[d] \/ stale
    BY <1>1 DEF IngestionInv, RInv, AloneInv
  <2>4. CASE ~alone[d]
    BY <1>5, <2>1, <2>2, <2>3, <2>4 DEF IngestionInv, ReachInv, history
  <2>5. CASE alone[d]
    <3>1. Reached \subseteq DOMAIN result[d]
      BY <1>1, <2>5 DEF IngestionInv, ReachInv
    <3>2. CASE SetIds(d)
      BY <1>1, <1>2, <1>4, <1>5, <2>1, <2>2, <2>5, <3>1, <3>2
         DEF SetIds, IngestionInv, ReachInv, history, locals
    <3>3. CASE SetTexts(d)
      BY <1>1, <1>2, <1>4, <1>5, <2>1, <2>2, <2>5, <3>1, <3>3
         DEF SetTexts, IngestionInv, ReachInv, history, locals
    <3>4. CASE SetMetadatas(d)
      BY <1>1, <1>2, <1>4, <1>5, <2>1, <2>2, <2>5, <3>1, <3>4
         DEF SetMetadatas, IngestionInv, ReachInv, history, locals
    <3> QED BY <3>2, <3>3, <3>4
  <2> QED BY <2>4, <2>5
<1> QED BY <1>6, <1>7, <1>8, <1>10, <1>11, <1>12, <1>13, <1>14 DEF IngestionInv, RInv

LEMMA ReadStep ==
    ASSUME IngestionInv, NEW d \in Docs, ReadTexts(d)
    PROVE  IngestionInv'
<1>1. pc[d] = "read" /\ PrefixOf(texts, store) /\ texts \in Seq(Docs)
  BY DEF ReadTexts, IngestionInv, PInv, PrefixOf
<1>2. CASE texts = <<>>
  <2>1. ~alone[d] /\ stale
    BY <1>1, <1>2, ListedEmpty DEF IngestionInv, RInv, AloneInv, CarriedInv, Rebuilding
  <2>2. /\ pc' \in [Docs -> Step]
        /\ \A e \in Docs : pc'[e] = IF e = d THEN "ready" ELSE pc[e]
        /\ bm25' = <<>>
        /\ UNCHANGED <<status, store, ids, texts, metadatas, result, tokenized, search,
                       history>>
    BY <1>2 DEF ReadTexts, IngestionInv, TInv, GoTo, Step
  <2>3. \A e \in Docs : ~alone[e]
    BY <1>1, <2>1 DEF IngestionInv, RInv, AloneInv, Rebuilding
  <2>4. TInv'
    BY <2>2 DEF IngestionInv, TInv, history
  <2>5. PInv' /\ SInv'
    BY <2>2, EmptyPrefix DEF IngestionInv, TInv, PInv, SInv, search
  <2>6. StoredInv'
    BY <1>1, <2>2 DEF IngestionInv, RInv, StoredInv, Rebuilding
  <2>7. AloneInv' /\ CarriedInv' /\ IndexedInv'
    BY <2>1, <2>2, <2>3 DEF AloneInv, CarriedInv, IndexedInv, history
  <2>8. ReachInv'
    <3>1. Reached' \subseteq Reached
      BY <2>2 DEF Reached, search
    <3> QED BY <2>1, <2>2, <2>3, <3>1 DEF IngestionInv, ReachInv, history
  <2> QED BY <2>4, <2>5, <2>6, <2>7, <2>8 DEF IngestionInv, RInv
<1>3. CASE texts # <<>>
  <2>1. /\ pc' \in [Docs -> Step]
        /\ \A e \in Docs : pc'[e] = IF e = d THEN "bm25" ELSE pc[e]
        /\ tokenized' \in [Docs -> Seq(Docs)]
        /\ \A e \in Docs : tokenized'[e] = IF e = d THEN texts ELSE tokenized[e]
        /\ UNCHANGED <<status, store, ids, texts, metadatas, bm25, result, search, history>>
    BY <1>1, <1>3 DEF ReadTexts, IngestionInv, TInv, GoTo, Step, Rebuilding
  <2>2. TInv'
    BY <2>1 DEF IngestionInv, TInv, history
  <2>3. PInv' /\ SInv'
    BY <1>1, <2>1 DEF IngestionInv, PInv, SInv, search
  <2>4. Settled' = Settled
    BY <1>1, <2>1 DEF Settled
  <2>5. StoredInv'
    BY <1>1, <2>1 DEF IngestionInv, RInv, StoredInv, Rebuilding
  <2>6. AloneInv'
    BY <1>1, <2>1 DEF IngestionInv, RInv, AloneInv, history, Rebuilding
  <2>7. CarriedInv'
    BY <1>1, <2>1, <2>4 DEF IngestionInv, RInv, CarriedInv, history
  <2>8. IndexedInv'
    BY <2>1, <2>4 DEF IngestionInv, RInv, IndexedInv, history
  <2>9. ReachInv'
    <3>1. Reached' = Reached
      BY <2>1 DEF Reached, search
    <3> QED BY <1>1, <2>1, <3>1 DEF IngestionInv, ReachInv, history
  <2> QED BY <2>2, <2>3, <2>5, <2>6, <2>7, <2>8, <2>9 DEF IngestionInv, RInv
<1> QED BY <1>2, <1>3

\* The scores are set: an index that is not stale was built alone.
LEMMA ScoreStep ==
    ASSUME IngestionInv, NEW d \in Docs, SetBm25(d)
    PROVE  IngestionInv'
<1>1. /\ pc' \in [Docs -> Step]
      /\ \A e \in Docs : pc'[e] = IF e = d THEN "ready" ELSE pc[e]
      /\ pc[d] = "bm25"
  BY DEF IngestionInv, TInv, SetBm25, GoTo, Step
<1>2. <<>> \in Seq(Docs)
  OBVIOUS
<1>3. /\ tokenized' \in [Docs -> Seq(Docs)]
      /\ \A e \in Docs : tokenized'[e] = IF e = d THEN <<>> ELSE tokenized[e]
      /\ alone' \in [Docs -> BOOLEAN]
      /\ \A e \in Docs : alone'[e] <=> e # d /\ alone[e]
      /\ stale' = (stale /\ ~alone[d])
      /\ bm25' = tokenized[d]
  BY <1>2 DEF IngestionInv, TInv, SetBm25
<1>4. TInv'
  BY <1>1, <1>3 DEF IngestionInv, TInv, SetBm25
<1>5. PInv' /\ SInv'
  BY <1>3, EmptyPrefix DEF IngestionInv, TInv, PInv, SInv, SetBm25, search
<1>6. Settled' = Settled \cup {d}
  BY <1>1 DEF SetBm25, Settled
<1>7. StoredInv'
  BY <1>1 DEF SetBm25, IngestionInv, RInv, StoredInv, Rebuilding
<1>8. alone[d] \/ stale
  BY <1>1 DEF IngestionInv, RInv, AloneInv, Rebuilding
<1>9. \A e \in Docs : ~alone'[e]
  BY <1>1, <1>3 DEF IngestionInv, RInv, AloneInv, Rebuilding
<1>10. AloneInv'
  <2>1. CASE alone[d]
    BY <1>1, <1>9, <2>1 DEF IngestionInv, RInv, AloneInv, Rebuilding
  <2>2. CASE ~alone[d]
    BY <1>3, <1>8, <1>9, <2>2 DEF AloneInv
  <2> QED BY <2>1, <2>2
<1>11. CarriedInv'
  BY <1>9 DEF CarriedInv
<1>12. IndexedInv'
  <2>1. CASE alone[d]
    BY <1>1, <1>3, <1>6, <2>1 DEF IngestionInv, RInv, CarriedInv, IndexedInv
  <2>2. CASE ~alone[d]
    BY <1>3, <1>8, <2>2 DEF IndexedInv
  <2> QED BY <2>1, <2>2
<1>13. ReachInv'
  <2>1. Reached' \subseteq Reached \cup DOMAIN tokenized[d]
    BY <1>3 DEF SetBm25, Reached, search
  <2>2. DOMAIN tokenized[d] \subseteq DOMAIN store
    BY PrefixAt DEF IngestionInv, TInv, PInv
  <2>3. Reached \subseteq DOMAIN store /\ UNCHANGED <<store, ids, texts, metadatas>>
    BY DEF SetBm25, IngestionInv, ReachInv
  <2>4. CASE alone[d]
    <3>1. /\ ids = texts /\ metadatas = texts /\ tokenized[d] = texts
          /\ Reached \subseteq DOMAIN texts
      BY <1>1, <2>4 DEF IngestionInv, ReachInv
    <3> QED BY <1>9, <2>1, <2>2, <2>3, <3>1 DEF ReachInv
  <2>5. CASE ~alone[d]
    BY <1>3, <1>8, <1>9, <2>1, <2>2, <2>3, <2>5 DEF ReachInv
  <2> QED BY <2>4, <2>5
<1> QED BY <1>4, <1>5, <1>7, <1>10, <1>11, <1>12, <1>13 DEF IngestionInv, RInv

\* What no step of a search touches.
LEMMA SearchKeeps ==
    ASSUME IngestionInv, UNCHANGED <<status, store, index, pc, locals, history>>, SInv',
           Reached' \subseteq Reached
    PROVE  IngestionInv'
<1>1. TInv' /\ PInv'
  BY DEF IngestionInv, TInv, PInv, index, locals, history
<1>2. Settled' = Settled
  BY DEF Settled
<1>3. RInv'
  BY <1>2 DEF IngestionInv, RInv, StoredInv, AloneInv, CarriedInv, IndexedInv, index,
     locals, history
<1>4. ReachInv'
  BY ReachKept DEF IngestionInv, index, locals, history
<1> QED BY <1>1, <1>3, <1>4 DEF IngestionInv

LEMMA HitStep ==
    ASSUME NEW rest, NextHit(rest), rest \subseteq DOMAIN bm25 \cup todo, UNCHANGED bm25
    PROVE  SInv' /\ Reached' \subseteq Reached
BY DEF NextHit, SInv, Reached, Found, NoHit

\* A lookup that fails gives the search up.
LEMMA FailedLookUp ==
    ASSUME IndexError, UNCHANGED bm25
    PROVE  SInv' /\ Reached' \subseteq Reached
BY DEF IndexError, SInv, Reached

LEMMA SearchSteps ==
    ASSUME IngestionInv, Search
    PROVE  IngestionInv'
<1>1. CASE Rank \/ TakeHit
  BY <1>1, HitStep, SearchKeeps DEF Rank, TakeHit, index
<1>2. CASE LookUpId
  <2>1. CASE searchPc' = "failed"
    BY <1>2, <2>1, FailedLookUp, SearchKeeps DEF LookUpId, index
  <2>2. CASE searchPc' # "failed"
    <3>1. hit.at \in DOMAIN store /\ ids[hit.at] = store[hit.at]
      BY <1>2, <2>2, PrefixAt DEF LookUpId, IndexError, IngestionInv, TInv, PInv
    <3>2. SInv' /\ Reached' \subseteq Reached
      BY <1>2, <2>2, <3>1 DEF LookUpId, IndexError, Reached, index, SInv, Found
    <3> QED BY <1>2, <3>2, SearchKeeps DEF LookUpId
  <2> QED BY <2>1, <2>2
<1>3. CASE LookUpText
  <2>1. CASE searchPc' = "failed"
    BY <1>3, <2>1, FailedLookUp, SearchKeeps DEF LookUpText, index
  <2>2. CASE searchPc' # "failed"
    <3>1. texts[hit.at] = store[hit.at]
      BY <1>3, <2>2, PrefixAt DEF LookUpText, IndexError, IngestionInv, TInv, PInv
    <3>2. SInv' /\ Reached' \subseteq Reached
      BY <1>3, <2>2, <3>1 DEF LookUpText, IndexError, Reached, index, IngestionInv, SInv, Found
    <3> QED BY <1>3, <3>2, SearchKeeps DEF LookUpText
  <2> QED BY <2>1, <2>2
<1>4. CASE LookUpMetadata
  <2>1. CASE searchPc' = "failed"
    BY <1>4, <2>1, FailedLookUp, SearchKeeps DEF LookUpMetadata, index
  <2>2. CASE searchPc' # "failed"
    <3>1. metadatas[hit.at] = store[hit.at]
      BY <1>4, <2>2, PrefixAt DEF LookUpMetadata, IndexError, IngestionInv, TInv, PInv
    <3>2. SInv' /\ Reached' \subseteq Reached
      BY <1>4, <2>2, <3>1 DEF LookUpMetadata, IndexError, Reached, index, IngestionInv, SInv, Found
    <3> QED BY <1>4, <3>2, SearchKeeps DEF LookUpMetadata
  <2> QED BY <2>1, <2>2
<1> QED BY <1>1, <1>2, <1>3, <1>4 DEF Search

LEMMA RestartStep ==
    ASSUME IngestionInv, Restart
    PROVE  IngestionInv'
<1>1. /\ pc' \in [Docs -> Step]
      /\ \A d \in Docs : pc'[d] \in {"none", "done"}
      /\ UNCHANGED <<status, store>>
  BY DEF Restart, Step
<1>2. <<>> \in Seq(Docs)
  OBVIOUS
<1>3. TInv'
  BY <1>1, <1>2 DEF Restart, IngestionInv, TInv
<1>4. PInv' /\ SInv'
  BY <1>1, EmptyPrefix, SelfPrefix DEF Restart, IngestionInv, TInv, PInv, SInv
<1>5. Settled' \subseteq Settled
  BY <1>1 DEF Settled
<1>6. Settled \subseteq Listed(store)
  BY DEF IngestionInv, RInv, StoredInv, Settled
<1>7. StoredInv' /\ AloneInv' /\ CarriedInv'
  BY <1>1 DEF Restart, IngestionInv, RInv, StoredInv, AloneInv, CarriedInv, Rebuilding
<1>8. IndexedInv'
  BY <1>1, <1>5, <1>6 DEF Restart, IndexedInv
<1>9. ReachInv'
  BY <1>1 DEF Restart, ReachInv, Reached
<1> QED BY <1>3, <1>4, <1>7, <1>8, <1>9 DEF IngestionInv, RInv

LEMMA IngestionStep ==
    ASSUME IngestionInv, [Next]_vars
    PROVE  IngestionInv'
<1>1. CASE \E d \in Docs : Upload(d) \/ Ingest(d)
  BY <1>1, StageSteps, AddStep, FailStep, FetchStep, ListSteps, ReadStep, ScoreStep
     DEF Ingest, Rebuild
<1>2. CASE UNCHANGED vars
  <2>1. SInv' /\ Reached' = Reached
    BY <1>2 DEF IngestionInv, SInv, Reached, vars, search, index
  <2> QED BY <1>2, <2>1, SearchKeeps DEF vars
<1> QED BY <1>1, <1>2, SearchSteps, RestartStep DEF Next

-----------------------------------------------------------------------------
(***************************************************************************)
(* Theorems of the ingestion.                                              *)
(***************************************************************************)

\* Rebuilds that are alone carry every settled document, every list is a
\* prefix of the store (bm25_index.py:35-54, document_service.py:52-89).
THEOREM IngestionInvariance == Spec => []IngestionInv
BY IngestionInitial, IngestionStep, PTL DEF Spec

LEMMA Searchable == IngestionInv => ReadyIsSearchable
BY DEF IngestionInv, RInv, StoredInv, IndexedInv, Settled, ReadyIsSearchable

LEMMA Whole == IngestionInv => HitsAreWhole
BY DEF IngestionInv, SInv, HitsAreWhole

\* A ready document is in the store and, unless rebuilds have overlapped or
\* the startup could not build the index, in the index (document_service.py:79-85).
THEOREM ReadySearchable == Spec => []ReadyIsSearchable
BY IngestionInvariance, Searchable, PTL

\* A hit never mixes two chunks, however many rebuilds replace the lists
\* between its lookups (bm25_index.py:68-72).
THEOREM HitsWhole == Spec => []HitsAreWhole
BY IngestionInvariance, Whole, PTL

\* A search runs past a list's end only when rebuilds have overlapped
\* (bm25_index.py:44-53, 66-71).
THEOREM OverlapFailsSearch == Spec => OnlyOverlapFailsSearch
<1>1. ASSUME IngestionInv, [Next]_vars
      PROVE  searchPc # "failed" /\ searchPc' = "failed" => stale
  <2> SUFFICES ASSUME searchPc # "failed", searchPc' = "failed", ~stale PROVE FALSE
    OBVIOUS
  <2>1. \/ LookUpId /\ hit.at \notin DOMAIN ids
        \/ LookUpText /\ hit.at \notin DOMAIN texts
        \/ LookUpMetadata /\ hit.at \notin DOMAIN metadatas
    BY <1>1 DEF Next, vars, search, Search, Upload, Ingest, Rebuild, CreateDocument,
       UploadFails, Parse, AddDocuments, StageFails, MarkReady, MarkFailed, Fetch, SetIds,
       SetTexts, SetMetadatas, ReadTexts, SetBm25, Rank, TakeHit, NextHit, Restart,
       LookUpId, LookUpText, LookUpMetadata
  <2> QED BY <1>1, <2>1 DEF IngestionInv, ReachInv, Reached, LookUpId, LookUpText,
             LookUpMetadata
<1> QED BY <1>1, IngestionInvariance, PTL DEF Spec, OnlyOverlapFailsSearch

-----------------------------------------------------------------------------
(***************************************************************************)
(* The hybrid search is one of the searches DocumentIngestion allows.      *)
(***************************************************************************)

\* Between two searches, and until the keyword leg starts, none reads the index.
QuietInv ==
    /\ phase \in {"none", "vector", "keyword", "over"}
    /\ phase # "keyword" => searchPc = "idle"

LEMMA HybridStep ==
    ASSUME IngestionInv, QuietInv, [HybridNext]_allVars
    PROVE  [Next]_vars /\ QuietInv'
<1>1. CASE \E d \in Docs : (Upload(d) \/ Ingest(d)) /\ UNCHANGED hybrid
  <2>1. UNCHANGED search
    BY <1>1 DEF Ingest, Rebuild, Upload, CreateDocument, UploadFails, Parse, AddDocuments,
       StageFails, MarkReady, MarkFailed, Fetch, SetIds, SetTexts, SetMetadatas,
       ReadTexts, SetBm25
  <2> QED BY <1>1, <2>1 DEF Next, QuietInv, hybrid, search
<1>2. CASE VectorSearch
  BY <1>2 DEF VectorSearch, QuietInv, vars, search
<1>3. CASE KeywordSearch
  <2>1. Rank
    BY <1>3 DEF KeywordSearch, QuietInv, Rank
  <2> QED BY <1>3, <2>1 DEF KeywordSearch, QuietInv, Next, Search
<1>4. CASE LookUp
  BY <1>4 DEF LookUp, QuietInv, Next, Search, hybrid
<1>5. CASE FilterHit
  BY <1>5 DEF FilterHit, QuietInv, Next, Search
<1>6. CASE Fuse
  BY <1>6 DEF Fuse, QuietInv, vars, search
<1>7. CASE SearchRaises
  <2>1. todo = {} /\ hit = NoHit
    BY <1>7 DEF SearchRaises, IngestionInv, SInv, QuietInv
  <2>2. CASE searchPc = "idle"
    BY <1>7, <2>1, <2>2 DEF SearchRaises, QuietInv, vars, search
  <2>3. CASE searchPc = "failed"
    <3>1. NextHit({})
      BY <1>7, <2>1 DEF SearchRaises, NextHit
    <3>2. Rank
      BY <1>7, <2>3, <3>1 DEF SearchRaises, Rank
    <3> QED BY <1>7, <3>2 DEF SearchRaises, QuietInv, Next, Search
  <2> QED BY <1>7, <2>2, <2>3 DEF SearchRaises, QuietInv
<1>8. CASE RestartSearch
  BY <1>8 DEF RestartSearch, Restart, QuietInv, Next
<1>9. CASE UNCHANGED allVars
  BY <1>9 DEF allVars, hybrid, vars, search, QuietInv
<1> QED BY <1>1, <1>2, <1>3, <1>4, <1>5, <1>6, <1>7, <1>8, <1>9 DEF HybridNext

\* Both legs together only do to the index what DocumentIngestion allows a
\* search, so all that is proved of it holds under search_sop
\* (retrieval.py:24-76).
THEOREM ImplementsIngestion == HybridSpec => Spec
<1>1. HybridInit => Init /\ IngestionInv /\ QuietInv
  BY IngestionInitial DEF HybridInit, Init, QuietInv
<1>2. IngestionInv /\ QuietInv /\ [HybridNext]_allVars
        => [Next]_vars /\ IngestionInv' /\ QuietInv'
  BY HybridStep, IngestionStep
<1> QED BY <1>1, <1>2, PTL DEF HybridSpec, Spec

-----------------------------------------------------------------------------
(***************************************************************************)
(* The inductive invariant of the hybrid search.                           *)
(***************************************************************************)

\* A document is stored once.
UniqueInv ==
    /\ IsInjective(store)
    /\ \A d \in Docs : pc[d] \in {"none", "write", "parse", "add"} => d \notin Listed(store)

\* No rebuild there is or will be can take this document out of the index.
Everywhere(d) ==
    /\ d \in Listed(store) /\ d \in Listed(bm25)
    /\ \A e \in Docs :
          /\ pc[e] \in {"ids", "texts", "metadatas"} => d \in Listed(result[e])
          /\ pc[e] \in {"metadatas", "read"} => d \in Listed(texts)
          /\ pc[e] = "bm25" => d \in Listed(tokenized[e])

KeptInv == phase = "vector" => \A d \in owed : Everywhere(d)

OwedInv == owed \subseteq Docs /\ \A d \in owed : Admitted(d)

EarlyInv == phase = "vector" => bm25_ranking = <<>>

InHand == searchPc \in {"id", "text", "metadata", "hit"}

\* What is owed has been found or is still to be looked up.
FoundInv ==
    phase = "keyword" =>
        \A d \in owed :
            \/ d \in Listed(bm25_ranking)
            \/ \E i \in todo : store[i] = d
            \/ InHand /\ store[hit.at] = d
            \/ searchPc = "failed"

\* Neither ranking is longer than CandidateK, nor will be.
BoundInv ==
    /\ vector_ranking \in Seq(Docs) /\ Len(vector_ranking) <= CandidateK
    /\ bm25_ranking \in Seq(Docs) /\ IsFiniteSet(todo)
    /\ Len(bm25_ranking) + Cardinality(todo) + (IF InHand THEN 1 ELSE 0) <= CandidateK

HybridInv ==
    /\ UniqueInv /\ KeptInv /\ OwedInv /\ EarlyInv /\ FoundInv /\ BoundInv
    /\ ReadyIsFound /\ BothLegsFirst

-----------------------------------------------------------------------------
(***************************************************************************)
(* What ingestions do underneath a search.                                 *)
(***************************************************************************)

\* An index that is not stale has every ready document for good.
LEMMA ReadyEverywhere ==
    ASSUME IngestionInv, ~stale, NEW d \in Docs, status[d] = "ready"
    PROVE  Everywhere(d)
<1>1. d \in Settled
  BY DEF Settled
<1>2. \A e \in Docs : pc[e] \in Rebuilding => alone[e]
  BY DEF IngestionInv, RInv, AloneInv
<1> QED BY <1>1, <1>2 DEF Everywhere, Rebuilding, IngestionInv, RInv, StoredInv,
           CarriedInv, IndexedInv

\* The store only grows, each document is added once, and what is everywhere
\* stays so.
LEMMA IngestUnderneath ==
    ASSUME IngestionInv, UniqueInv, NEW d \in Docs, Upload(d) \/ Ingest(d)
    PROVE  /\ UniqueInv' /\ UNCHANGED search
           /\ \A k \in DOMAIN store : k \in DOMAIN store' /\ store'[k] = store[k]
           /\ \A e \in Docs : Everywhere(e) => Everywhere(e)'
<1> DEFINE Goal == /\ UniqueInv' /\ UNCHANGED search
                   /\ \A k \in DOMAIN store : k \in DOMAIN store' /\ store'[k] = store[k]
                   /\ \A e \in Docs : Everywhere(e) => Everywhere(e)'
<1>0. /\ pc \in [Docs -> Step] /\ result \in [Docs -> Seq(Docs)]
      /\ tokenized \in [Docs -> Seq(Docs)] /\ store \in Seq(Docs)
  BY DEF IngestionInv, TInv
<1>1. ASSUME NEW label, GoTo(d, label),
             label \in {"none", "write", "parse", "add"} =>
                 pc[d] \in {"none", "write", "parse", "add"},
             label \in {"ids", "texts", "metadatas", "read", "bm25"} => FALSE,
             UNCHANGED <<store, texts, bm25, search>>,
             \A e \in Docs : e # d => result'[e] = result[e] /\ tokenized'[e] = tokenized[e]
      PROVE  Goal
  <2>1. \A e \in Docs : pc'[e] = IF e = d THEN label ELSE pc[e]
    BY <1>0, <1>1 DEF GoTo
  <2>2. UniqueInv'
    BY <1>1, <2>1 DEF UniqueInv
  <2> QED BY <1>1, <2>1, <2>2 DEF Everywhere
<1>2. CASE \/ Upload(d) \/ CreateDocument(d) \/ UploadFails(d) \/ Parse(d)
           \/ MarkReady(d) \/ MarkFailed(d)
  <2>1. UNCHANGED <<store, texts, bm25, result, tokenized, search>>
    BY <1>2 DEF Upload, CreateDocument, UploadFails, Parse, MarkReady, MarkFailed,
       index, locals
  <2>2. PICK label \in {"write", "parse", "add", "done", "fail"} :
           /\ GoTo(d, label)
           /\ label \in {"write", "parse", "add"} => pc[d] \in {"none", "write", "parse", "add"}
    BY <1>2 DEF Upload, CreateDocument, UploadFails, Parse, MarkReady, MarkFailed
  <2> QED BY <1>1, <2>1, <2>2
<1>3. CASE StageFails(d)
  <2>1. UNCHANGED <<store, texts, bm25, search>> /\ GoTo(d, "fail")
    BY <1>3 DEF StageFails, index
  <2>2. \A e \in Docs : e # d => result'[e] = result[e] /\ tokenized'[e] = tokenized[e]
    BY <1>0, <1>3 DEF StageFails
  <2> QED BY <1>1, <2>1, <2>2
<1>4. CASE AddDocuments(d)
  <2>1. /\ pc[d] = "add" /\ store' = Append(store, d)
        /\ UNCHANGED <<texts, bm25, result, tokenized, search>>
        /\ \A e \in Docs : pc'[e] = IF e = d THEN "fetch" ELSE pc[e]
    BY <1>0, <1>4 DEF AddDocuments, GoTo, index, locals
  <2>2. /\ DOMAIN store' = 1 .. Len(store) + 1 /\ DOMAIN store = 1 .. Len(store)
        /\ store'[Len(store) + 1] = d
        /\ \A k \in 1 .. Len(store) : store'[k] = store[k]
        /\ Len(store) \in Nat
    BY <1>0, <2>1
  <2>3. Listed(store') = Listed(store) \cup {d}
    BY <1>0, <2>1, ListedAppend
  <2>4. d \notin Listed(store)
    BY <2>1 DEF UniqueInv
  <2>5. \A k \in 1 .. Len(store) : store[k] # d
    BY <2>2, <2>4 DEF Listed
  <2>6. IsInjective(store')
    BY <2>2, <2>5 DEF UniqueInv, IsInjective
  <2>7. UniqueInv'
    BY <2>1, <2>3, <2>6 DEF UniqueInv
  <2>8. \A e \in Docs : Everywhere(e) => Everywhere(e)'
    BY <2>1, <2>3 DEF Everywhere
  <2> QED BY <2>1, <2>2, <2>7, <2>8
<1>5. ASSUME Rebuild(d) PROVE UniqueInv' /\ UNCHANGED <<search, store>>
  <2>1. UNCHANGED <<search, store>>
    BY <1>5 DEF Rebuild, Fetch, SetIds, SetTexts, SetMetadatas, ReadTexts, SetBm25
  <2>2. PICK label \in Rebuilding \cup {"ready"} :
           pc[d] \in Rebuilding \cup {"fetch"} /\ GoTo(d, label)
    BY <1>5 DEF Rebuild, Fetch, SetIds, SetTexts, SetMetadatas, ReadTexts, SetBm25, Rebuilding
  <2>3. \A e \in Docs : pc'[e] = IF e = d THEN label ELSE pc[e]
    BY <1>0, <2>2 DEF GoTo
  <2> QED BY <2>1, <2>2, <2>3 DEF UniqueInv, Rebuilding
<1>6. ASSUME Rebuild(d), NEW e \in Docs, Everywhere(e) PROVE Everywhere(e)'
  <2>1. CASE Fetch(d)
    <3>1. /\ result' = [result EXCEPT ![d] = store] /\ pc' = [pc EXCEPT ![d] = "ids"]
          /\ UNCHANGED <<store, texts, bm25, tokenized>>
      BY <2>1 DEF Fetch, GoTo, index
    <3> QED BY <1>0, <1>6, <3>1 DEF Everywhere
  <2>2. CASE SetIds(d)
    <3>1. /\ pc[d] = "ids" /\ pc' = [pc EXCEPT ![d] = "texts"]
          /\ UNCHANGED <<store, texts, bm25, result, tokenized>>
      BY <2>2 DEF SetIds, GoTo, locals
    <3> QED BY <1>0, <1>6, <3>1 DEF Everywhere
  <2>3. CASE SetTexts(d)
    <3>1. /\ pc[d] = "texts" /\ pc' = [pc EXCEPT ![d] = "metadatas"] /\ texts' = result[d]
          /\ UNCHANGED <<store, bm25, result, tokenized>>
      BY <2>3 DEF SetTexts, GoTo, locals
    <3> QED BY <1>0, <1>6, <3>1 DEF Everywhere
  <2>4. CASE SetMetadatas(d)
    <3>1. /\ pc[d] = "metadatas" /\ pc' = [pc EXCEPT ![d] = "read"]
          /\ result' = [result EXCEPT ![d] = <<>>]
          /\ UNCHANGED <<store, texts, bm25, tokenized>>
      BY <2>4 DEF SetMetadatas, GoTo
    <3> QED BY <1>0, <1>6, <3>1 DEF Everywhere
  <2>5. CASE ReadTexts(d)
    <3>1. pc[d] = "read" /\ UNCHANGED <<store, texts, result>>
      BY <2>5 DEF ReadTexts
    <3>2. texts # <<>>
      BY <1>6, <3>1, ListedEmpty DEF Everywhere
    <3>3. /\ tokenized' = [tokenized EXCEPT ![d] = texts] /\ UNCHANGED bm25
          /\ pc' = [pc EXCEPT ![d] = "bm25"]
      BY <2>5, <3>2 DEF ReadTexts, GoTo
    <3> QED BY <1>0, <1>6, <3>1, <3>3 DEF Everywhere
  <2>6. CASE SetBm25(d)
    <3>1. /\ pc[d] = "bm25" /\ pc' = [pc EXCEPT ![d] = "ready"] /\ bm25' = tokenized[d]
          /\ tokenized' = [tokenized EXCEPT ![d] = <<>>]
          /\ UNCHANGED <<store, texts, result>>
      BY <2>6 DEF SetBm25, GoTo
    <3> QED BY <1>0, <1>6, <3>1 DEF Everywhere
  <2> QED BY <1>6, <2>1, <2>2, <2>3, <2>4, <2>5, <2>6 DEF Rebuild
<1>7. CASE Rebuild(d)
  BY <1>5, <1>6, <1>7
<1> QED BY <1>2, <1>3, <1>4, <1>7 DEF Ingest

LEMMA BackgroundStep ==
    ASSUME IngestionInv, QuietInv, HybridInv,
           NEW d \in Docs, Upload(d) \/ Ingest(d), UNCHANGED hybrid
    PROVE  HybridInv'
<1>1. /\ UniqueInv' /\ UNCHANGED <<searchPc, todo, hit>>
      /\ \A k \in DOMAIN store : store'[k] = store[k]
      /\ \A e \in Docs : Everywhere(e) => Everywhere(e)'
  BY IngestUnderneath DEF HybridInv, search
<1>2. UNCHANGED <<phase, document_ids, vector_ranking, bm25_ranking, retrieved, owed>>
  BY DEF hybrid
<1>3. KeptInv' /\ OwedInv' /\ EarlyInv'
  BY <1>1, <1>2 DEF HybridInv, KeptInv, OwedInv, Admitted, EarlyInv
<1>4. /\ todo \subseteq DOMAIN store
      /\ InHand => hit.at \in DOMAIN store
  BY DEF IngestionInv, ReachInv, Reached, SInv, InHand
<1>5. FoundInv'
  BY <1>1, <1>2, <1>4 DEF HybridInv, FoundInv, InHand
<1>6. BoundInv'
  BY <1>1, <1>2 DEF HybridInv, BoundInv, InHand
<1>7. ReadyIsFound' /\ BothLegsFirst'
  BY <1>2 DEF HybridInv, ReadyIsFound, BothLegsFirst, Higher, Fused, Share, Position
<1> QED BY <1>1, <1>3, <1>5, <1>6, <1>7 DEF HybridInv

-----------------------------------------------------------------------------
(***************************************************************************)
(* The steps of a search.                                                  *)
(***************************************************************************)

\* Before anything is found.
LEMMA EmptyBound ==
    ASSUME NEW ranking \in Seq(Docs), Len(ranking) <= CandidateK,
           vector_ranking' = ranking, bm25_ranking' = <<>>,
           todo' = {}, searchPc' \in {"idle", "failed"}
    PROVE  BoundInv'
<1>1. IsFiniteSet({}) /\ Cardinality({}) = 0
  BY FS_EmptySet
<1>2. <<>> \in Seq(Docs) /\ Len(<<>>) = 0
  OBVIOUS
<1> QED BY <1>1, <1>2, RetrievalAssumption DEF BoundInv, InHand

LEMMA RankingType ==
    ASSUME NEW found \in SUBSET Docs, NEW ranking \in Rankings(found, CandidateK)
    PROVE  ranking \in Seq(Docs) /\ Len(ranking) <= CandidateK
<1>1. PICK m \in 0 .. CandidateK : ranking \in [1 .. m -> found]
  BY DEF Rankings, SeqOf
<1>2. ranking \in Seq(found) /\ Len(ranking) = m
  BY <1>1, RetrievalAssumption
<1> QED BY <1>1, <1>2, RetrievalAssumption

LEMMA VectorStep ==
    ASSUME IngestionInv, QuietInv, HybridInv, VectorSearch
    PROVE  HybridInv'
<1>1. UNCHANGED <<status, store, texts, bm25, pc, result, tokenized, searchPc, todo, hit>>
  BY DEF VectorSearch, vars, index, locals, search
<1>2. searchPc = "idle" /\ todo = {}
  BY DEF VectorSearch, IngestionInv, SInv, QuietInv
<1>3. PICK wanted \in Filters :
         /\ document_ids' = wanted
         /\ \E ranking \in Rankings({d \in Listed(store) : wanted = {} \/ d \in wanted},
                                    CandidateK) : vector_ranking' = ranking
         /\ owed' = {d \in Docs : status[d] = "ready" /\ ~stale
                                    /\ (wanted = {} \/ d \in wanted)}
  BY DEF VectorSearch
<1>4. phase' = "vector" /\ bm25_ranking' = <<>>
  BY DEF VectorSearch
<1>5. UniqueInv'
  BY <1>1 DEF HybridInv, UniqueInv
<1>6. \A d \in owed' : Everywhere(d)
  BY <1>3, ReadyEverywhere
<1>7. KeptInv'
  BY <1>1, <1>6 DEF KeptInv, Everywhere
<1>8. OwedInv'
  BY <1>3 DEF OwedInv, Admitted
<1>9. FoundInv' /\ EarlyInv'
  BY <1>4 DEF FoundInv, EarlyInv
<1>10. BoundInv'
  <2>1. {d \in Listed(store) : wanted = {} \/ d \in wanted} \in SUBSET Docs
    BY DEF IngestionInv, TInv, Listed
  <2>2. PICK ranking \in Seq(Docs) : vector_ranking' = ranking /\ Len(ranking) <= CandidateK
    BY <1>3, <2>1, RankingType
  <2> QED BY <1>1, <1>2, <1>4, <2>2, EmptyBound
<1>11. ReadyIsFound' /\ BothLegsFirst'
  BY <1>4 DEF ReadyIsFound, BothLegsFirst
<1> QED BY <1>5, <1>7, <1>8, <1>9, <1>10, <1>11 DEF HybridInv

\* Fewer chunks are scored than documents match.
LEMMA ScoredBound ==
    ASSUME IngestionInv, UniqueInv, NEW matching \in SUBSET Docs
    PROVE  LET scored == {i \in DOMAIN bm25 : bm25[i] \in matching}
           IN  IsFiniteSet(scored) /\ Cardinality(scored) <= Cardinality(matching)
<1> DEFINE scored == {i \in DOMAIN bm25 : bm25[i] \in matching}
           f == [i \in scored |-> bm25[i]]
<1>1. IsFiniteSet(matching)
  BY FS_Subset, RetrievalAssumption
<1>2. f \in [scored -> matching]
  OBVIOUS
<1>3. \A i \in scored : i \in DOMAIN store /\ bm25[i] = store[i]
  BY PrefixAt DEF IngestionInv, TInv, PInv
<1>4. \A i, j \in scored : f[i] = f[j] => i = j
  BY <1>3 DEF UniqueInv, IsInjective
<1>5. f \in Injection(scored, matching)
  BY <1>2, <1>4 DEF Injection, IsInjective
<1> HIDE DEF f, scored
<1>6. IsFiniteSet(scored) /\ Cardinality(scored) <= Cardinality(matching)
  BY <1>1, <1>5, FS_Injection
<1> QED BY <1>6 DEF scored

\* NextHit takes one of the rest in hand.
LEMMA NextHitTakes ==
    ASSUME NEW rest, IsFiniteSet(rest), NextHit(rest)
    PROVE  /\ IsFiniteSet(todo') /\ todo' \subseteq rest
           /\ Cardinality(todo') + (IF InHand' THEN 1 ELSE 0) = Cardinality(rest)
           /\ \A i \in rest : i \in todo' \/ (InHand' /\ hit'.at = i)
<1>1. CASE rest = {} /\ searchPc' = "idle" /\ todo' = {}
  BY <1>1, FS_EmptySet DEF InHand
<1>2. ASSUME NEW i \in rest, searchPc' = "id", todo' = rest \ {i},
             hit' = Found(i, {}, {}, {})
      PROVE  /\ IsFiniteSet(todo') /\ todo' \subseteq rest
             /\ Cardinality(todo') + (IF InHand' THEN 1 ELSE 0) = Cardinality(rest)
             /\ \A j \in rest : j \in todo' \/ (InHand' /\ hit'.at = j)
  <2>1. IsFiniteSet(todo') /\ Cardinality(todo') = Cardinality(rest) - 1
    BY <1>2, FS_RemoveElement
  <2>2. Cardinality(rest) \in Nat
    BY FS_CardinalityType
  <2>3. InHand' /\ hit'.at = i
    BY <1>2 DEF InHand, Found
  <2>4. (IF InHand' THEN 1 ELSE 0) = 1
    BY <2>3
  <2>5. Cardinality(todo') + 1 = Cardinality(rest)
    BY <2>1, <2>2
  <2>6. \A j \in rest : j \in todo' \/ (InHand' /\ hit'.at = j)
    BY <1>2, <2>3
  <2> QED BY <1>2, <2>1, <2>4, <2>5, <2>6
<1> QED BY <1>1, <1>2 DEF NextHit

LEMMA KeywordStep ==
    ASSUME IngestionInv, QuietInv, HybridInv, KeywordSearch
    PROVE  HybridInv'
<1>1. /\ UNCHANGED <<store, pc, document_ids, vector_ranking, bm25_ranking>>
      /\ phase = "vector" /\ phase' = "keyword"
  BY DEF KeywordSearch
<1>2. PICK matching \in SUBSET Docs :
         /\ LET scored == {i \in DOMAIN bm25 : bm25[i] \in matching} IN
            \E best \in SUBSET scored :
               /\ Cardinality(best) = IF Cardinality(scored) < CandidateK
                                      THEN Cardinality(scored) ELSE CandidateK
               /\ NextHit(best)
         /\ owed' = IF Cardinality(matching) <= CandidateK
                    THEN owed \cap matching ELSE {}
  BY DEF KeywordSearch
<1> DEFINE scored == {i \in DOMAIN bm25 : bm25[i] \in matching}
<1>3. PICK best \in SUBSET scored :
         /\ Cardinality(best) = IF Cardinality(scored) < CandidateK
                                THEN Cardinality(scored) ELSE CandidateK
         /\ NextHit(best)
  BY <1>2
<1>4. owed' = IF Cardinality(matching) <= CandidateK THEN owed \cap matching ELSE {}
  BY <1>2
<1>5. IsFiniteSet(scored) /\ Cardinality(scored) <= Cardinality(matching)
  BY ScoredBound DEF HybridInv
<1>6. IsFiniteSet(best) /\ best \in SUBSET scored
  BY <1>5, FS_Subset
<1>7. /\ Cardinality(best) \in Nat /\ Cardinality(scored) \in Nat
      /\ Cardinality(matching) \in Nat
  BY <1>5, <1>6, FS_CardinalityType, FS_Subset, RetrievalAssumption
<1>8. \A i \in scored : i \in DOMAIN store /\ bm25[i] = store[i] /\ bm25[i] \in matching
  BY PrefixAt DEF IngestionInv, TInv, PInv
<1>9. \A d \in owed \cap matching : \E i \in scored : bm25[i] = d
  BY <1>1 DEF HybridInv, KeptInv, Everywhere, Listed
<1> HIDE DEF scored
<1>10. /\ IsFiniteSet(todo')
       /\ Cardinality(todo') + (IF InHand' THEN 1 ELSE 0) = Cardinality(best)
       /\ \A i \in best : i \in todo' \/ (InHand' /\ hit'.at = i)
  BY <1>6, <1>3, NextHitTakes
<1>11. FoundInv'
  <2> SUFFICES ASSUME NEW d \in owed'
               PROVE  (\E i \in todo' : store'[i] = d) \/ (InHand' /\ store'[hit'.at] = d)
    BY DEF FoundInv
  <2>1. Cardinality(matching) <= CandidateK /\ d \in owed \cap matching
    BY <1>4
  <2>2. Cardinality(best) = Cardinality(scored)
    BY <1>5, <1>7, <1>3, <2>1, RetrievalAssumption
  <2>3. best = scored
    BY <1>5, <1>6, <2>2, FS_Subset
  <2>4. PICK i \in best : store[i] = d
    BY <1>8, <1>9, <2>1, <2>3
  <2> QED BY <1>1, <1>10, <2>4
<1>12. bm25_ranking = <<>>
  BY <1>1 DEF HybridInv, EarlyInv
<1>13. BoundInv'
  <2>1. Len(bm25_ranking) = 0
    BY <1>12
  <2>2. Cardinality(best) <= CandidateK
    BY <1>7, <1>3, RetrievalAssumption
  <2>3. Cardinality(todo') \in Nat
    BY <1>10, FS_CardinalityType
  <2> QED BY <1>1, <1>10, <2>1, <2>2, <2>3, RetrievalAssumption DEF HybridInv, BoundInv
<1>14. owed' \subseteq owed
  BY <1>4
<1>15. OwedInv'
  BY <1>1, <1>14 DEF HybridInv, OwedInv, Admitted
<1>16. UniqueInv' /\ KeptInv' /\ EarlyInv' /\ ReadyIsFound' /\ BothLegsFirst'
  BY <1>1 DEF HybridInv, UniqueInv, KeptInv, EarlyInv, ReadyIsFound, BothLegsFirst
<1> QED BY <1>11, <1>13, <1>15, <1>16 DEF HybridInv

LEMMA LookUpStep ==
    ASSUME IngestionInv, QuietInv, HybridInv, LookUp
    PROVE  HybridInv'
<1>1. /\ UNCHANGED <<store, pc, phase, document_ids, vector_ranking, bm25_ranking,
                     retrieved, owed>>
      /\ phase = "keyword"
      /\ searchPc \in {"id", "text", "metadata"}
  BY DEF LookUp, LookUpId, LookUpText, LookUpMetadata, hybrid
<1>2. \/ searchPc' \in {"text", "metadata", "hit"} /\ hit'.at = hit.at /\ UNCHANGED todo
      \/ searchPc' = "failed" /\ todo' = {}
  BY DEF LookUp, LookUpId, LookUpText, LookUpMetadata, IndexError, Found
<1>3. InHand /\ Cardinality(todo) \in Nat /\ Len(bm25_ranking) \in Nat
  BY <1>1, FS_CardinalityType DEF HybridInv, BoundInv, InHand
<1>4. FoundInv'
  BY <1>1, <1>2 DEF HybridInv, FoundInv, InHand
<1>5. BoundInv'
  <2>1. /\ vector_ranking \in Seq(Docs) /\ Len(vector_ranking) <= CandidateK
        /\ bm25_ranking \in Seq(Docs) /\ IsFiniteSet(todo)
        /\ Len(bm25_ranking) + Cardinality(todo) + 1 <= CandidateK
    BY <1>3 DEF HybridInv, BoundInv
  <2>2. CASE searchPc' \in {"text", "metadata", "hit"} /\ UNCHANGED todo
    BY <1>1, <2>1, <2>2 DEF BoundInv, InHand
  <2>3. CASE searchPc' = "failed" /\ todo' = {}
    <3>1. IsFiniteSet({}) /\ Cardinality({}) = 0
      BY FS_EmptySet
    <3> QED BY <1>1, <1>3, <2>1, <2>3, <3>1, RetrievalAssumption DEF BoundInv, InHand
  <2> QED BY <1>2, <2>2, <2>3
<1>6. UniqueInv' /\ KeptInv' /\ OwedInv' /\ EarlyInv' /\ ReadyIsFound' /\ BothLegsFirst'
  BY <1>1 DEF HybridInv, UniqueInv, KeptInv, OwedInv, Admitted, EarlyInv,
              ReadyIsFound, BothLegsFirst
<1> QED BY <1>4, <1>5, <1>6 DEF HybridInv

\* The hit in hand goes into the ranking if it is wanted.
LEMMA FilterStep ==
    ASSUME IngestionInv, QuietInv, HybridInv, FilterHit
    PROVE  HybridInv'
<1>1. /\ UNCHANGED <<store, pc, phase, document_ids, vector_ranking, retrieved, owed>>
      /\ phase = "keyword" /\ searchPc = "hit"
  BY DEF FilterHit, TakeHit
<1>2. PICK d : d = store[hit.at] /\ hit.id = {d} /\ hit.metadata = {d}
  BY <1>1 DEF IngestionInv, SInv
<1>3. d \in Docs
  BY <1>1, <1>2 DEF IngestionInv, SInv, TInv
<1>4. bm25_ranking' = IF Admitted(d) THEN Append(bm25_ranking, d) ELSE bm25_ranking
  BY <1>2 DEF FilterHit
<1>5. /\ bm25_ranking \in Seq(Docs) /\ IsFiniteSet(todo) /\ NextHit(todo)
      /\ Len(bm25_ranking) + Cardinality(todo) + 1 <= CandidateK
  BY <1>1 DEF FilterHit, TakeHit, HybridInv, BoundInv, InHand
<1>6. /\ bm25_ranking' \in Seq(Docs)
      /\ Len(bm25_ranking') <= Len(bm25_ranking) + 1 /\ Len(bm25_ranking') \in Nat
      /\ Listed(bm25_ranking) \subseteq Listed(bm25_ranking')
      /\ Admitted(d) => d \in Listed(bm25_ranking')
  BY <1>3, <1>4, <1>5, ListedAppend
<1>7. /\ IsFiniteSet(todo')
      /\ Cardinality(todo') + (IF InHand' THEN 1 ELSE 0) = Cardinality(todo)
      /\ \A i \in todo : i \in todo' \/ (InHand' /\ hit'.at = i)
  BY <1>5, NextHitTakes
<1>8. BoundInv'
  <2>1. Cardinality(todo) \in Nat /\ Cardinality(todo') \in Nat /\ Len(bm25_ranking) \in Nat
    BY <1>5, <1>7, FS_CardinalityType
  <2> QED BY <1>1, <1>5, <1>6, <1>7, <2>1, RetrievalAssumption DEF HybridInv, BoundInv
<1>9. FoundInv'
  <2> SUFFICES ASSUME NEW e \in owed
               PROVE  \/ e \in Listed(bm25_ranking')
                      \/ \E i \in todo' : store[i] = e
                      \/ InHand' /\ store[hit'.at] = e
    BY <1>1 DEF FoundInv
  <2>1. Admitted(e)
    BY DEF HybridInv, OwedInv
  <2>2. e \in Listed(bm25_ranking) \/ (\E i \in todo : store[i] = e) \/ store[hit.at] = e
    BY <1>1 DEF HybridInv, FoundInv
  <2> QED BY <1>2, <1>6, <1>7, <2>1, <2>2
<1>10. UniqueInv' /\ KeptInv' /\ OwedInv' /\ EarlyInv' /\ ReadyIsFound' /\ BothLegsFirst'
  BY <1>1 DEF HybridInv, UniqueInv, KeptInv, OwedInv, Admitted, EarlyInv,
              ReadyIsFound, BothLegsFirst
<1> QED BY <1>8, <1>9, <1>10 DEF HybridInv

LEMMA RaiseStep ==
    ASSUME IngestionInv, QuietInv, HybridInv, SearchRaises
    PROVE  HybridInv'
<1>1. /\ UNCHANGED <<store, pc, todo>> /\ phase' = "none" /\ searchPc' = "idle"
      /\ owed' = {} /\ vector_ranking' = <<>> /\ bm25_ranking' = <<>>
  BY DEF SearchRaises
<1>2. todo = {}
  BY DEF SearchRaises, QuietInv, IngestionInv, SInv
<1>3. BoundInv'
  <2>1. <<>> \in Seq(Docs) /\ Len(<<>>) <= CandidateK
    BY RetrievalAssumption
  <2> QED BY <1>1, <1>2, <2>1, EmptyBound
<1> QED BY <1>1, <1>3 DEF HybridInv, UniqueInv, KeptInv, OwedInv, EarlyInv, FoundInv,
           ReadyIsFound, BothLegsFirst

LEMMA RestartSearchStep ==
    ASSUME IngestionInv, QuietInv, HybridInv, RestartSearch
    PROVE  HybridInv'
<1>1. /\ UNCHANGED store /\ todo' = {} /\ phase' = "none" /\ searchPc' = "idle"
      /\ owed' = {} /\ vector_ranking' = <<>> /\ bm25_ranking' = <<>>
      /\ \A d \in Docs : pc'[d] = IF pc[d] = "none" THEN "none" ELSE "done"
  BY DEF RestartSearch, Restart
<1>2. BoundInv'
  <2>1. <<>> \in Seq(Docs) /\ Len(<<>>) <= CandidateK
    BY RetrievalAssumption
  <2> QED BY <1>1, <2>1, EmptyBound
<1>3. UniqueInv'
  BY <1>1 DEF HybridInv, UniqueInv
<1> QED BY <1>1, <1>2, <1>3 DEF HybridInv, KeptInv, OwedInv, EarlyInv, FoundInv,
           ReadyIsFound, BothLegsFirst

-----------------------------------------------------------------------------
(***************************************************************************)
(* Reciprocal rank fusion.                                                 *)
(***************************************************************************)

\* The shares of a ranking that is as short as a leg leaves it.
LEMMA ShareOf ==
    ASSUME NEW ranking \in Seq(Docs), Len(ranking) <= CandidateK, NEW id
    PROVE  /\ id \in Listed(ranking) =>
                /\ Share(ranking, id).num = 1
                /\ Share(ranking, id).den \in RrfK + 1 .. RrfK + CandidateK
           /\ id \notin Listed(ranking) =>
                Share(ranking, id).num = 0 /\ Share(ranking, id).den = 1
<1>1. ASSUME id \in Listed(ranking)
      PROVE  Position(ranking, id) \in 1 .. CandidateK
  <2>1. \E rank \in DOMAIN ranking : ranking[rank] = id
    BY <1>1 DEF Listed
  <2>2. Position(ranking, id) \in DOMAIN ranking
    BY <2>1 DEF Position
  <2> QED BY <2>2, RetrievalAssumption
<1> QED BY <1>1, RetrievalAssumption DEF Share

LEMMA Product == ASSUME NEW x \in Nat \ {0}, NEW y \in Nat \ {0} PROVE x * y \in Nat \ {0}
OBVIOUS

\* Every score is a fraction of natural numbers.
LEMMA FusedType ==
    ASSUME BoundInv, NEW id
    PROVE  Fused(id).num \in Nat /\ Fused(id).den \in Nat \ {0}
<1>1. PICK v, w : v = Share(vector_ranking, id) /\ w = Share(bm25_ranking, id)
  OBVIOUS
<1>2. /\ v.num \in {0, 1} /\ v.den \in Nat \ {0}
      /\ w.num \in {0, 1} /\ w.den \in Nat \ {0}
  <2>1. Len(bm25_ranking) <= CandidateK
    <3>1. Cardinality(todo) \in Nat
      BY FS_CardinalityType DEF BoundInv
    <3> QED BY <3>1, RetrievalAssumption DEF BoundInv
  <2> QED BY <1>1, <2>1, ShareOf, RetrievalAssumption DEF BoundInv
<1>3. Fused(id) = [num |-> v.num * w.den + w.num * v.den, den |-> v.den * w.den]
  BY <1>1 DEF Fused
<1>4. v.num * w.den \in Nat /\ w.num * v.den \in Nat
  BY <1>2
<1>5. v.den * w.den \in Nat \ {0}
  BY <1>2, Product
<1> QED BY <1>3, <1>4, <1>5

\* What precedes a document is not outranked by it.
LEMMA PrecedesIsNotLower ==
    ASSUME BoundInv, NEW a, NEW b, Precedes(a, b)
    PROVE  ~Higher(b, a)
<1>1. PICK m, n : m = Fused(a).num * Fused(b).den /\ n = Fused(b).num * Fused(a).den
  OBVIOUS
<1>2. m \in Nat /\ n \in Nat
  BY <1>1, FusedType
<1> QED BY <1>1, <1>2 DEF Precedes, Higher

\* (x + y) / xy > 1 / z for ranks that differ by less than RrfK.
LEMMA TwoSharesBeatOne ==
    ASSUME CandidateK <= RrfK,
           NEW x \in RrfK + 1 .. RrfK + CandidateK,
           NEW y \in RrfK + 1 .. RrfK + CandidateK,
           NEW z \in RrfK + 1 .. RrfK + CandidateK
    PROVE  (x + y) * z > x * y
<1>1. RrfK \in Nat \ {0} /\ CandidateK \in Nat \ {0}
  BY RetrievalAssumption
<1>2. /\ x \in Nat \ {0} /\ y \in Nat \ {0} /\ z \in Nat \ {0}
      /\ x <= 2 * RrfK /\ y <= 2 * RrfK /\ z >= RrfK + 1
  BY <1>1
<1>3. x * y <= (2 * RrfK) * y /\ x * y <= x * (2 * RrfK)
  BY <1>1, <1>2
<1>4. (x + y) * z >= (x + y) * (RrfK + 1)
  BY <1>1, <1>2
<1>5. (x + y) * (RrfK + 1) = x * RrfK + y * RrfK + x + y
  BY <1>1, <1>2
<1>6. (2 * RrfK) * y = 2 * (y * RrfK) /\ x * (2 * RrfK) = 2 * (x * RrfK)
  BY <1>1, <1>2
<1>7. PICK p, q, xy, l \in Nat :
         p = x * RrfK /\ q = y * RrfK /\ xy = x * y /\ l = (x + y) * z
  BY <1>1, <1>2
<1>8. xy <= 2 * q /\ xy <= 2 * p /\ l >= p + q + x + y
  BY <1>3, <1>4, <1>5, <1>6, <1>7
<1>9. l > xy
  BY <1>2, <1>7, <1>8
<1> QED BY <1>7, <1>9

LEMMA BothAreHigher ==
    ASSUME BoundInv, CandidateK <= RrfK,
           NEW d \in Listed(vector_ranking) \cap Listed(bm25_ranking),
           NEW id \in Candidates, ~Higher(d, id)
    PROVE  id \in Listed(vector_ranking) \cap Listed(bm25_ranking)
<1>0. /\ vector_ranking \in Seq(Docs) /\ Len(vector_ranking) <= CandidateK
      /\ bm25_ranking \in Seq(Docs) /\ Len(bm25_ranking) <= CandidateK
  <2>1. Cardinality(todo) \in Nat
    BY FS_CardinalityType DEF BoundInv
  <2> QED BY <2>1, RetrievalAssumption DEF BoundInv
<1> SUFFICES ASSUME id \notin Listed(vector_ranking) \/ id \notin Listed(bm25_ranking)
             PROVE  FALSE
  OBVIOUS
<1> DEFINE Dens == RrfK + 1 .. RrfK + CandidateK
<1>1. PICK x \in Dens, y \in Dens : Fused(d) = [num |-> 1 * y + 1 * x, den |-> x * y]
  BY <1>0, ShareOf DEF Fused
<1>2. PICK z \in Dens : Fused(id) = [num |-> 1, den |-> z]
  <2>1. CASE id \in Listed(vector_ranking)
    <3>1. /\ Share(vector_ranking, id).num = 1 /\ Share(vector_ranking, id).den \in Dens
          /\ Share(bm25_ranking, id).num = 0 /\ Share(bm25_ranking, id).den = 1
      BY <1>0, <2>1, ShareOf
    <3>2. PICK z \in Dens : z = Share(vector_ranking, id).den
      BY <3>1
    <3>3. Fused(id) = [num |-> 1 * 1 + 0 * z, den |-> z * 1]
      BY <3>1, <3>2 DEF Fused
    <3>4. z \in Nat
      BY <3>2, RetrievalAssumption
    <3>5. 1 * 1 + 0 * z = 1 /\ z * 1 = z
      BY <3>4
    <3> QED BY <3>2, <3>3, <3>5
  <2>2. CASE id \in Listed(bm25_ranking)
    <3>1. /\ Share(bm25_ranking, id).num = 1 /\ Share(bm25_ranking, id).den \in Dens
          /\ Share(vector_ranking, id).num = 0 /\ Share(vector_ranking, id).den = 1
      BY <1>0, <2>2, ShareOf
    <3>2. PICK z \in Dens : z = Share(bm25_ranking, id).den
      BY <3>1
    <3>3. Fused(id) = [num |-> 0 * z + 1 * 1, den |-> 1 * z]
      BY <3>1, <3>2 DEF Fused
    <3>4. z \in Nat
      BY <3>2, RetrievalAssumption
    <3>5. 0 * z + 1 * 1 = 1 /\ 1 * z = z
      BY <3>4
    <3> QED BY <3>2, <3>3, <3>5
  <2> QED BY <2>1, <2>2 DEF Candidates
<1>3. x \in Nat /\ y \in Nat /\ z \in Nat
  BY <1>1, <1>2, RetrievalAssumption
<1>4. (x + y) * z > x * y
  BY TwoSharesBeatOne
<1>5. Higher(d, id) <=> (1 * y + 1 * x) * z > 1 * (x * y)
  BY <1>1, <1>2 DEF Higher
<1>6. 1 * y + 1 * x = x + y /\ 1 * (x * y) = x * y
  BY <1>3
<1> QED BY <1>4, <1>5, <1>6

LEMMA FirstOf ==
    ASSUME NEW S, NEW ranking \in Seq(S), NEW m \in 0 .. Len(ranking)
    PROVE  LET top == SubSeq(ranking, 1, m) IN
           /\ DOMAIN top = 1 .. m /\ Len(top) = m
           /\ \A k \in 1 .. m : top[k] = ranking[k]
OBVIOUS

LEMMA SortedIsSeq ==
    ASSUME BoundInv, NEW ranking \in Sorted
    PROVE  ranking \in Seq(Candidates)
<1>1. IsFiniteSet(Candidates)
  <2>1. Candidates \in SUBSET Docs
    BY DEF Candidates, Listed, BoundInv
  <2> QED BY <2>1, FS_Subset, RetrievalAssumption
<1>2. PICK n \in Nat : n = Cardinality(Candidates)
  BY <1>1, FS_CardinalityType
<1>3. ranking \in [1 .. n -> Candidates]
  BY <1>2 DEF Sorted
<1> QED BY <1>3

\* Who is cut off at TopK is outranked by all that are left.
LEMMA CutAtTopK ==
    ASSUME BoundInv, NEW ranking \in Sorted, NEW top,
           NEW m \in Nat, m = IF Len(ranking) < TopK THEN Len(ranking) ELSE TopK,
           DOMAIN top = 1 .. m, \A k \in 1 .. m : top[k] = ranking[k],
           NEW d \in Candidates
    PROVE  /\ Listed(top) \subseteq Candidates
           /\ d \in Listed(top) \/ (m = TopK /\ \A id \in Listed(top) : ~Higher(d, id))
<1>1. Candidates \in SUBSET Docs
  BY DEF Candidates, Listed, BoundInv
<1>2. IsFiniteSet(Candidates)
  BY <1>1, FS_Subset, RetrievalAssumption
<1>3. PICK n \in Nat : n = Cardinality(Candidates)
  BY <1>2, FS_CardinalityType
<1>4. /\ ranking \in [1 .. n -> Candidates] /\ Listed(ranking) = Candidates
      /\ \A j, k \in 1 .. n : j < k => Precedes(ranking[j], ranking[k])
  BY <1>3 DEF Sorted
<1>5. Len(ranking) = n
  BY <1>4
<1>6. m = IF n < TopK THEN n ELSE TopK
  BY <1>5
<1>7. m <= n
  BY <1>6, RetrievalAssumption
<1>8. Listed(top) \subseteq Candidates
  <2> SUFFICES ASSUME NEW id \in Listed(top) PROVE id \in Candidates
    OBVIOUS
  <2>1. PICK j \in DOMAIN top : top[j] = id
    BY DEF Listed
  <2>2. j \in 1 .. n /\ ranking[j] = id
    BY <1>7, <2>1
  <2> QED BY <1>4, <2>2
<1>9. PICK k \in 1 .. n : ranking[k] = d
  BY <1>4 DEF Listed
<1>10. CASE k <= m
  <2>1. k \in DOMAIN top /\ top[k] = d
    BY <1>7, <1>9, <1>10
  <2>2. d \in Listed(top)
    BY <2>1 DEF Listed
  <2> QED BY <1>8, <2>2
<1>11. CASE ~(k <= m)
  <2>1. m = TopK
    BY <1>6, <1>9, <1>11
  <2>2. ASSUME NEW id \in Listed(top) PROVE ~Higher(d, id)
    <3>1. PICK j \in 1 .. m : ranking[j] = id
      BY <1>7 DEF Listed
    <3>2. j \in 1 .. n /\ j < k
      BY <1>7, <1>9, <1>11, <3>1
    <3>3. Precedes(id, d)
      BY <1>4, <1>9, <3>1, <3>2
    <3> QED BY <3>3, PrecedesIsNotLower
  <2> QED BY <1>7, <1>8, <2>1, <2>2
<1> QED BY <1>10, <1>11

LEMMA FuseStep ==
    ASSUME IngestionInv, QuietInv, HybridInv, Fuse
    PROVE  HybridInv'
<1>1. /\ UNCHANGED <<store, pc, searchPc, todo, document_ids, vector_ranking,
                     bm25_ranking, owed>>
      /\ phase = "keyword" /\ searchPc = "idle" /\ phase' = "over"
  BY DEF Fuse, vars, search
<1>2. todo = {}
  BY <1>1 DEF IngestionInv, SInv
<1>3. owed \subseteq Listed(bm25_ranking)
  BY <1>1, <1>2 DEF HybridInv, FoundInv, InHand
<1>4. PICK ranking \in RankedIds :
         retrieved' = SubSeq(ranking, 1,
                             IF Len(ranking) < TopK THEN Len(ranking) ELSE TopK)
  BY DEF Fuse
<1>5. PICK top : top = retrieved'
  OBVIOUS
<1>6. ASSUME NEW d \in Listed(bm25_ranking)
      PROVE  /\ Listed(top) \subseteq Candidates
             /\ \/ d \in Listed(top)
                \/ Len(top) = TopK /\ \A id \in Listed(top) : ~Higher(d, id)
  <2>1. bm25_ranking # <<>>
    BY <1>6, ListedEmpty
  <2>2. ranking \in Sorted
    BY <1>4, <2>1 DEF RankedIds
  <2>3. d \in Candidates
    BY DEF Candidates
  <2>4. ranking \in Seq(Candidates)
    BY <2>2, SortedIsSeq DEF HybridInv
  <2>5. PICK m \in 0 .. Len(ranking) : m = IF Len(ranking) < TopK THEN Len(ranking) ELSE TopK
    BY <2>4, RetrievalAssumption
  <2>6. top = SubSeq(ranking, 1, m)
    BY <1>4, <1>5, <2>5
  <2>7. /\ DOMAIN top = 1 .. m /\ Len(top) = m
        /\ \A k \in 1 .. m : top[k] = ranking[k]
    BY <2>4, <2>6, FirstOf
  <2>8. m \in Nat
    BY <2>4, <2>5
  <2> QED BY <2>2, <2>3, <2>5, <2>7, <2>8, CutAtTopK DEF HybridInv
<1>7. \A d, id : Higher(d, id)' <=> Higher(d, id)
  BY <1>1 DEF Higher, Fused, Share, Position
<1>8. ReadyIsFound'
  BY <1>1, <1>3, <1>5, <1>6, <1>7 DEF ReadyIsFound
<1>9. BothLegsFirst'
  <2> SUFFICES ASSUME CandidateK <= RrfK,
                      NEW d \in Listed(vector_ranking) \cap Listed(bm25_ranking),
                      d \notin Listed(top), NEW id \in Listed(top)
               PROVE  id \in Listed(vector_ranking) \cap Listed(bm25_ranking)
    BY <1>1, <1>5 DEF BothLegsFirst
  <2>1. id \in Candidates /\ ~Higher(d, id)
    BY <1>6
  <2> QED BY <2>1, BothAreHigher DEF HybridInv
<1>10. UniqueInv' /\ KeptInv' /\ OwedInv' /\ EarlyInv' /\ FoundInv' /\ BoundInv'
  BY <1>1 DEF HybridInv, UniqueInv, KeptInv, OwedInv, Admitted, EarlyInv, FoundInv,
              BoundInv, InHand
<1> QED BY <1>8, <1>9, <1>10 DEF HybridInv

-----------------------------------------------------------------------------
(***************************************************************************)
(* Theorems about the hybrid search.                                       *)
(***************************************************************************)

SearchInv == IngestionInv /\ QuietInv /\ HybridInv

LEMMA SearchInitial == HybridInit => SearchInv
<1> SUFFICES ASSUME HybridInit PROVE SearchInv
  OBVIOUS
<1>1. IngestionInv /\ QuietInv
  BY IngestionInitial DEF HybridInit, Init, QuietInv
<1>2. /\ phase = "none" /\ store = <<>> /\ owed = {} /\ vector_ranking = <<>>
      /\ bm25_ranking = <<>> /\ todo = {} /\ searchPc = "idle"
  BY DEF HybridInit, Init
<1>3. UniqueInv
  BY <1>2 DEF UniqueInv, Listed, IsInjective
<1>4. BoundInv
  <2>1. IsFiniteSet({}) /\ Cardinality({}) = 0 /\ <<>> \in Seq(Docs) /\ Len(<<>>) = 0
    BY FS_EmptySet
  <2> QED BY <1>2, <2>1, RetrievalAssumption DEF BoundInv, InHand
<1> QED BY <1>1, <1>2, <1>3, <1>4 DEF SearchInv, HybridInv, KeptInv, OwedInv, EarlyInv,
           FoundInv, ReadyIsFound, BothLegsFirst

LEMMA SearchStep == SearchInv /\ [HybridNext]_allVars => SearchInv'
<1> SUFFICES ASSUME IngestionInv, QuietInv, HybridInv, [HybridNext]_allVars
             PROVE  SearchInv'
  BY DEF SearchInv
<1>1. IngestionInv' /\ QuietInv'
  BY HybridStep, IngestionStep
<1>2. ASSUME NEW d \in Docs, Upload(d) \/ Ingest(d), UNCHANGED hybrid PROVE HybridInv'
  BY <1>2, BackgroundStep
<1>3. ASSUME UNCHANGED allVars PROVE HybridInv'
  <2>1. UNCHANGED <<store, texts, bm25, pc, result, tokenized, searchPc, todo, hit, phase,
                    document_ids, vector_ranking, bm25_ranking, retrieved, owed>>
    BY <1>3 DEF allVars, hybrid, vars, index, locals, search
  <2>2. UniqueInv' /\ KeptInv' /\ OwedInv' /\ EarlyInv'
    BY <2>1 DEF HybridInv, UniqueInv, KeptInv, Everywhere, OwedInv, Admitted, EarlyInv
  <2>3. FoundInv' /\ BoundInv'
    BY <2>1 DEF HybridInv, FoundInv, BoundInv, InHand
  <2>4. ReadyIsFound' /\ BothLegsFirst'
    BY <2>1 DEF HybridInv, ReadyIsFound, BothLegsFirst, Higher, Fused, Share, Position
  <2> QED BY <2>2, <2>3, <2>4 DEF HybridInv
<1>4. HybridInv'
  <2>1. CASE \E d \in Docs : (Upload(d) \/ Ingest(d)) /\ UNCHANGED hybrid
    BY <1>2, <2>1
  <2>2. CASE VectorSearch \/ KeywordSearch \/ LookUp \/ FilterHit
    BY <2>2, VectorStep, KeywordStep, LookUpStep, FilterStep
  <2>3. CASE Fuse \/ SearchRaises \/ RestartSearch
    BY <2>3, FuseStep, RaiseStep, RestartSearchStep
  <2> QED BY <1>3, <2>1, <2>2, <2>3 DEF HybridNext
<1> QED BY <1>1, <1>4 DEF SearchInv

\* SearchInv holds for any documents, filters and limits of the rankings.
THEOREM SearchInvariance == HybridSpec => []SearchInv
<1>. QED
  BY SearchInitial, SearchStep, PTL DEF HybridSpec

\* What was in the index when the search began and matches is retrieved or
\* outranked, whatever is ingested and rebuilt meanwhile (retrieval.py:29-77).
THEOREM ReadyFound == HybridSpec => []ReadyIsFound
<1>1. SearchInv => ReadyIsFound
  BY DEF SearchInv, HybridInv
<1>. QED
  BY <1>1, SearchInvariance, PTL

\* What both legs found is not cut off for what one of them found
\* (fusion.py:1-8).
THEOREM BothFirst == HybridSpec => []BothLegsFirst
<1>1. SearchInv => BothLegsFirst
  BY DEF SearchInv, HybridInv
<1>. QED
  BY <1>1, SearchInvariance, PTL

-----------------------------------------------------------------------------
(***************************************************************************)
(* Types: no list is ever longer than there are documents.                 *)
(***************************************************************************)

SmallInv ==
    /\ searchPc \in {"idle", "id", "text", "metadata", "hit", "failed"}
    /\ hit \in Hit
    /\ restarts \in 0 .. MaxRestarts

LEMMA SmallStep ==
    ASSUME SearchInv, SmallInv, [HybridNext]_allVars
    PROVE  SmallInv'
<1>0. PInv /\ TInv
  BY DEF SearchInv, IngestionInv
<1>1. NoHit \in Hit
  BY DEF NoHit, Hit, Found
<1>2. ASSUME NEW rest \in SUBSET Nat, NextHit(rest), UNCHANGED restarts PROVE SmallInv'
  BY <1>1, <1>2 DEF NextHit, SmallInv, Found, Hit
<1>3. \A corpus \in Seq(Docs) : \A k \in DOMAIN corpus : corpus[k] \in Docs /\ k \in Nat
  OBVIOUS
<1>4. CASE \E d \in Docs : (Upload(d) \/ Ingest(d)) /\ UNCHANGED hybrid
  <2>1. UNCHANGED <<search, restarts>>
    BY <1>4 DEF Upload, Ingest, CreateDocument, UploadFails, Parse, AddDocuments, StageFails,
       MarkReady, MarkFailed, Rebuild, Fetch, SetIds, SetTexts, SetMetadatas, ReadTexts, SetBm25
  <2> QED BY <2>1 DEF search, SmallInv
<1>5. CASE KeywordSearch
  <2>1. PICK matching \in SUBSET Docs : \E best \in SUBSET {i \in DOMAIN bm25 : bm25[i] \in matching} :
            NextHit(best)
    BY <1>5 DEF KeywordSearch
  <2>2. bm25 \in Seq(Docs)
    BY <1>0 DEF PInv, PrefixOf
  <2>3. PICK best \in SUBSET Nat : NextHit(best)
    BY <1>3, <2>1, <2>2
  <2> QED BY <1>2, <1>5, <2>3 DEF KeywordSearch
<1>6. CASE LookUp
  <2>1. ids \in Seq(Docs) /\ texts \in Seq(Docs) /\ metadatas \in Seq(Docs)
    BY <1>0 DEF PInv, PrefixOf
  <2>2. /\ hit.at \in Nat /\ hit.id \in SUBSET Docs /\ hit.text \in SUBSET Docs
    BY DEF SmallInv, Hit
  <2>3. hit' \in Hit /\ searchPc' \in {"text", "metadata", "hit", "failed"}
    <3>1. CASE LookUpId
      BY <1>1, <1>3, <2>1, <2>2, <3>1 DEF LookUpId, IndexError, Hit, Found
    <3>2. CASE LookUpText
      BY <1>1, <1>3, <2>1, <2>2, <3>2 DEF LookUpText, IndexError, Hit, Found
    <3>3. CASE LookUpMetadata
      BY <1>1, <1>3, <2>1, <2>2, <3>3 DEF LookUpMetadata, IndexError, Hit, Found
    <3> QED BY <1>6, <3>1, <3>2, <3>3 DEF LookUp
  <2> QED BY <1>6, <2>3 DEF LookUp, LookUpId, LookUpText, LookUpMetadata, SmallInv
<1>7. CASE FilterHit
  <2>1. todo \in SUBSET Nat
    BY DEF SearchInv, IngestionInv, ReachInv, Reached, TInv
  <2> QED BY <1>2, <1>7, <2>1 DEF FilterHit, TakeHit
<1>8. CASE VectorSearch \/ Fuse \/ SearchRaises \/ UNCHANGED allVars
  BY <1>8 DEF VectorSearch, Fuse, SearchRaises, allVars, vars, search, SmallInv
<1>9. CASE RestartSearch
  BY <1>1, <1>9, IngestionAssumption DEF RestartSearch, Restart, SmallInv
<1> QED BY <1>4, <1>5, <1>6, <1>7, <1>8, <1>9 DEF HybridNext

\* As each document is stored once, every list there is is a corpus.
LEMMA ListsAreCorpora ==
    ASSUME IngestionInv, UniqueInv
    PROVE  /\ Len(store) <= Cardinality(Docs) /\ Cardinality(Docs) \in Nat
           /\ \A corpus : PrefixOf(corpus, store) => corpus \in Corpus
<1>1. store \in Seq(Docs) /\ Len(store) \in Nat
  BY DEF IngestionInv, TInv
<1>2. Cardinality(Docs) \in Nat
  BY FS_CardinalityType, RetrievalAssumption
<1>3. store \in Injection(1 .. Len(store), Docs)
  BY <1>1 DEF UniqueInv, Injection, IsInjective
<1>4. Cardinality(1 .. Len(store)) = Len(store)
  BY <1>1, FS_Interval
<1>5. Len(store) <= Cardinality(Docs)
  BY <1>3, <1>4, FS_Injection, RetrievalAssumption
<1>6. ASSUME NEW corpus, PrefixOf(corpus, store) PROVE corpus \in Corpus
  <2>1. PICK n \in Nat : n = Len(corpus) /\ n <= Len(store)
    BY <1>6 DEF PrefixOf
  <2>2. corpus \in [1 .. n -> Docs]
    BY <1>6, <2>1 DEF PrefixOf
  <2>3. CASE n = 0
    <3>1. corpus \in Seq(Docs) /\ Len(corpus) = 0
      BY <1>6, <2>1, <2>3 DEF PrefixOf
    <3>2. corpus = <<>>
      BY <3>1
    <3> QED BY <3>2 DEF Corpus
  <2>4. CASE n # 0
    <3>1. n \in 1 .. Cardinality(Docs)
      BY <1>1, <1>2, <1>5, <2>1, <2>4
    <3> QED BY <2>2, <3>1 DEF Corpus
  <2> QED BY <2>3, <2>4
<1> QED BY <1>2, <1>5, <1>6

\* Rows, lists, rebuilds and lookups keep their types for any number of
\* documents, whatever searches run on them.
THEOREM SearchTypeCorrect == HybridSpec => []TypeOK
<1>1. HybridInit => SmallInv
  BY IngestionAssumption DEF HybridInit, Init, SmallInv, NoHit, Hit, Found
<1>2. SearchInv /\ SmallInv /\ [HybridNext]_allVars => SmallInv'
  BY SmallStep
<1>3. SearchInv /\ SmallInv => TypeOK
  <2> SUFFICES ASSUME SearchInv, SmallInv PROVE TypeOK
    OBVIOUS
  <2>1. IngestionInv /\ UniqueInv
    BY DEF SearchInv, HybridInv
  <2>2. TInv /\ PInv
    BY <2>1 DEF IngestionInv
  <2>3. \A corpus : PrefixOf(corpus, store) => corpus \in Corpus
    BY <2>1, ListsAreCorpora
  <2>4. PrefixOf(store, store)
    BY <2>2, SelfPrefix DEF TInv
  <2>5. {store, ids, texts, metadatas, bm25} \subseteq Corpus
    BY <2>2, <2>3, <2>4 DEF PInv
  <2>6. result \in [Docs -> Corpus] /\ tokenized \in [Docs -> Corpus]
    BY <2>2, <2>3 DEF TInv, PInv
  <2>7. todo \subseteq 1 .. Cardinality(Docs)
    <3>1. todo \subseteq 1 .. Len(store)
      BY <2>1, <2>2 DEF IngestionInv, ReachInv, Reached, TInv
    <3> QED BY <2>1, <2>2, <3>1, ListsAreCorpora DEF TInv
  <2>8. pc \in [Docs -> {"none", "write", "parse", "add", "fetch", "ready", "fail", "done"}
                           \cup Rebuilding]
    BY <2>2 DEF TInv, Step
  <2> QED BY <2>2, <2>5, <2>6, <2>7, <2>8 DEF TypeOK, TInv, SmallInv
<1>. QED
  BY <1>1, <1>2, <1>3, SearchInvariance, PTL DEF HybridSpec

=============================================================================
