-------------------------- MODULE ChatWorkerProofs --------------------------
(***************************************************************************)
(* Memories and the graph of a worker, for any number of turns, users,     *)
(* facts and restarts, any life of an entry and any clock.                 *)
(***************************************************************************)
EXTENDS ChatWorker, TLAPS

\* A fact was added at some time up to now.
FactsDated == \A u \in Users : \A f \in known[u] : addedAt[f] <= now

\* What an entry misses was added at most Ttl + slowest before its end, and
\* what is cached is something, and the user's own.
EntriesFresh ==
    \A u \in Users :
        /\ cached[u] \subseteq known[u]
        /\ expires[u] <= now + Ttl
        /\ expires[u] # -1 => cached[u] # {}
        /\ expires[u] # -1 => \A f \in known[u] :
               addedAt[f] + Ttl + slowest < expires[u] => f \in cached[u]

\* Who is about to publish read all there was at the time.
ReadersFresh ==
    \A t \in Turns : at[t] = "set" =>
        /\ readAt[t] <= now /\ found[t] # {}
        /\ \A f \in known[user[t]] : addedAt[f] < readAt[t] => f \in found[t]

KnewStill == \A t \in knew : known[user[t]] # {}

MInv ==
    /\ MemoryTypeOK /\ FactsDated /\ EntriesFresh /\ ReadersFresh /\ KnewStill
    /\ OwnMemoriesOnly /\ FirstMemorySeen

LEMMA MInvInit == MemoryInit => MInv
<1> SUFFICES ASSUME MemoryInit PROVE MInv
  OBVIOUS
<1>1. MemoryTypeOK
  BY DEF MemoryInit, MemoryTypeOK
<1> QED
  BY <1>1, TtlAssumption DEF MemoryInit, MInv, FactsDated, EntriesFresh, ReadersFresh,
     KnewStill, OwnMemoriesOnly, FirstMemorySeen

\* A step of one search that touches no entry and reads nothing anew.
LEMMA SearchOnly ==
    ASSUME MInv, NEW t \in Turns, MemoryTypeOK',
           UNCHANGED <<backend, cached, expires, known, addedAt, now, user, slowest,
                       readAt>>,
           \A s \in Turns \ {t} : at'[s] = at[s] /\ found'[s] = found[s],
           at'[t] # "set", found'[t] \subseteq known[user[t]],
           \A s \in knew' : known[user[s]] # {},
           t \in knew' /\ at'[t] = "told" => found'[t] # {},
           \A s \in knew' : s # t => s \in knew
    PROVE  MInv'
<1> USE DEF MInv
<1>1. FactsDated' /\ EntriesFresh' /\ KnewStill'
  BY DEF FactsDated, EntriesFresh, KnewStill
<1>2. ReadersFresh'
  BY DEF ReadersFresh
<1>3. OwnMemoriesOnly'
  BY DEF OwnMemoriesOnly
<1>4. FirstMemorySeen'
  BY DEF FirstMemorySeen, MemoryTypeOK
<1> QED BY <1>1, <1>2, <1>3, <1>4

LEMMA SearchKeeps == ASSUME MInv, NEW t \in Turns, Search(t) PROVE MInv'
<1> USE DEF MInv
<1>1. /\ at' = [at EXCEPT ![t] = "get"]
      /\ knew' = IF known[user[t]] # {} THEN knew \cup {t} ELSE knew
      /\ UNCHANGED <<backend, cached, expires, known, addedAt, now, user, found,
                     readAt, slowest>>
  BY DEF Search
<1>2. MemoryTypeOK'
  BY <1>1 DEF MemoryTypeOK
<1>3. /\ at'[t] = "get" /\ found'[t] \subseteq known[user[t]]
      /\ \A s \in Turns \ {t} : at'[s] = at[s] /\ found'[s] = found[s]
  BY <1>1 DEF MemoryTypeOK, OwnMemoriesOnly
<1>4. \A s \in knew' : known[user[s]] # {} /\ (s # t => s \in knew)
  BY <1>1 DEF KnewStill
<1> QED BY <1>1, <1>2, <1>3, <1>4, SearchOnly

\* An entry that is hit has an end, before which it was published.
LEMMA LiveEntry == ASSUME MInv, NEW u \in Users, Live(u)
                   PROVE  now <= expires[u] /\ expires[u] # -1 /\ cached[u] # {}
<1> USE DEF MInv
<1>1. expires[u] \in Int /\ now \in Nat
  BY DEF MemoryTypeOK
<1>2. now <= expires[u] /\ expires[u] # -1
  BY <1>1 DEF Live
<1> QED BY <1>2 DEF EntriesFresh

LEMMA CacheHitKeeps == ASSUME MInv, NEW t \in Turns, CacheHit(t) PROVE MInv'
<1> USE DEF MInv
<1>1. user[t] \in Users
  BY DEF MemoryTypeOK
<1>2. /\ at' = [at EXCEPT ![t] = "told"] /\ Live(user[t])
      /\ found' = [found EXCEPT ![t] = cached[user[t]]]
      /\ UNCHANGED <<backend, cached, expires, known, addedAt, now, user, readAt,
                     knew, slowest>>
  BY DEF CacheHit, CacheKey
<1>3. MemoryTypeOK'
  BY <1>1, <1>2 DEF MemoryTypeOK
<1>4. /\ at'[t] = "told" /\ found'[t] = cached[user[t]]
      /\ \A s \in Turns \ {t} : at'[s] = at[s] /\ found'[s] = found[s]
  BY <1>2 DEF MemoryTypeOK
<1>5. cached[user[t]] # {} /\ cached[user[t]] \subseteq known[user[t]]
  BY <1>1, <1>2, LiveEntry DEF EntriesFresh
<1> QED BY <1>2, <1>3, <1>4, <1>5, SearchOnly DEF KnewStill

LEMMA CacheMissKeeps == ASSUME MInv, NEW t \in Turns, CacheMiss(t) PROVE MInv'
<1> USE DEF MInv
<1>1. /\ at' = [at EXCEPT ![t] = "read"]
      /\ UNCHANGED <<backend, cached, expires, known, addedAt, now, user, found,
                     readAt, knew, slowest>>
  BY DEF CacheMiss
<1>2. MemoryTypeOK'
  BY <1>1 DEF MemoryTypeOK
<1>3. /\ at'[t] = "read" /\ found'[t] \subseteq known[user[t]]
      /\ \A s \in Turns \ {t} : at'[s] = at[s] /\ found'[s] = found[s]
  BY <1>1 DEF MemoryTypeOK, OwnMemoriesOnly
<1> QED BY <1>1, <1>2, <1>3, SearchOnly DEF KnewStill

LEMMA SearchFailsKeeps == ASSUME MInv, NEW t \in Turns, SearchFails(t) PROVE MInv'
<1> USE DEF MInv
<1>1. /\ at' = [at EXCEPT ![t] = "failed"] /\ found' = [found EXCEPT ![t] = {}]
      /\ UNCHANGED <<backend, cached, expires, known, addedAt, now, user, readAt,
                     knew, slowest>>
  BY DEF SearchFails
<1>2. MemoryTypeOK'
  BY <1>1 DEF MemoryTypeOK
<1>3. /\ at'[t] = "failed" /\ found'[t] \subseteq known[user[t]]
      /\ \A s \in Turns \ {t} : at'[s] = at[s] /\ found'[s] = found[s]
  BY <1>1 DEF MemoryTypeOK
<1> QED BY <1>1, <1>2, <1>3, SearchOnly DEF KnewStill

\* All that is known is read.
LEMMA ReadMemoryKeeps == ASSUME MInv, NEW t \in Turns, ReadMemory(t) PROVE MInv'
<1> USE DEF MInv
<1> DEFINE value == known[user[t]]
<1>1. /\ at' = [at EXCEPT ![t] = IF value # {} THEN "set" ELSE "told"]
      /\ found' = [found EXCEPT ![t] = value] /\ readAt' = [readAt EXCEPT ![t] = now]
      /\ UNCHANGED <<backend, cached, expires, known, addedAt, now, user, knew, slowest>>
  BY DEF ReadMemory, Publishable
<1>2. value \subseteq Facts
  BY DEF MemoryTypeOK
<1>3. MemoryTypeOK'
  BY <1>1, <1>2 DEF MemoryTypeOK
<1>4. /\ at'[t] = (IF value # {} THEN "set" ELSE "told")
      /\ found'[t] = value /\ readAt'[t] = now
      /\ \A s \in Turns \ {t} :
            at'[s] = at[s] /\ found'[s] = found[s] /\ readAt'[s] = readAt[s]
  BY <1>1 DEF MemoryTypeOK
<1>5. FactsDated' /\ EntriesFresh' /\ KnewStill'
  BY <1>1 DEF FactsDated, EntriesFresh, KnewStill
<1>6. ReadersFresh'
  BY <1>1, <1>4 DEF ReadersFresh, MemoryTypeOK
<1>7. OwnMemoriesOnly' /\ FirstMemorySeen'
  BY <1>1, <1>4 DEF OwnMemoriesOnly, FirstMemorySeen, KnewStill, MemoryTypeOK
<1> QED BY <1>3, <1>5, <1>6, <1>7

\* The step that ends a search which found something.
LEMMA TellsFacts ==
    ASSUME MInv, NEW t \in Turns, Tells(t)
    PROVE  /\ slowest' \in Nat /\ slowest <= slowest' /\ now - readAt[t] <= slowest'
           /\ at[t] = "set" /\ at'[t] = "told"
           /\ \A s \in Turns \ {t} : at'[s] = at[s]
           /\ at' \in [Turns -> {"idle", "get", "read", "set", "told", "failed"}]
<1> USE DEF MInv
<1>1. at[t] = "set" /\ at' = [at EXCEPT ![t] = "told"]
  BY DEF Tells
<1>2. now \in Nat /\ slowest \in Nat /\ readAt[t] \in Int /\ readAt[t] <= now
  BY <1>1 DEF MemoryTypeOK, ReadersFresh
<1>3. slowest' = IF now - readAt[t] > slowest THEN now - readAt[t] ELSE slowest
  BY DEF Tells
<1>4. slowest' \in Nat /\ slowest <= slowest' /\ now - readAt[t] <= slowest'
  BY <1>2, <1>3
<1> QED BY <1>1, <1>4 DEF MemoryTypeOK

LEMMA PublishKeeps ==
    ASSUME MInv, NEW t \in Turns, Publish(t) \/ PublishLost(t) PROVE MInv'
<1> USE DEF MInv
<1> DEFINE k == user[t]
<1>1. Tells(t) /\ UNCHANGED <<backend, known, addedAt, now, user, found, readAt, knew>>
  BY DEF Publish, PublishLost
<1>2. k \in Users /\ found[t] \subseteq Facts /\ now \in Nat
  BY DEF MemoryTypeOK
<1>3. \/ UNCHANGED <<cached, expires>>
      \/ /\ cached' = [cached EXCEPT ![k] = found[t]]
         /\ expires' = [expires EXCEPT ![k] = now + Ttl]
  BY DEF Publish, PublishLost, Put, CacheKey
<1>4. cached' \in [Users -> SUBSET Facts] /\ expires' \in [Users -> Int]
  BY <1>2, <1>3, TtlAssumption DEF MemoryTypeOK
<1>5. MemoryTypeOK'
  BY <1>1, <1>4, TellsFacts DEF MemoryTypeOK
<1>6. FactsDated' /\ KnewStill' /\ OwnMemoriesOnly'
  BY <1>1 DEF FactsDated, KnewStill, OwnMemoriesOnly
<1>7. ReadersFresh'
  BY <1>1, TellsFacts DEF ReadersFresh
<1>8. found[t] # {} /\ found[t] \subseteq known[k]
  BY <1>1, TellsFacts DEF ReadersFresh, OwnMemoriesOnly
<1>9. FirstMemorySeen'
  BY <1>1, <1>8, TellsFacts DEF FirstMemorySeen, MemoryTypeOK
<1>10. ASSUME NEW u \in Users, u # k \/ UNCHANGED <<cached, expires>>
       PROVE  /\ cached'[u] \subseteq known'[u] /\ expires'[u] <= now' + Ttl
              /\ expires'[u] # -1 => cached'[u] # {}
              /\ expires'[u] # -1 => \A f \in known'[u] :
                    addedAt'[f] + Ttl + slowest' < expires'[u] => f \in cached'[u]
  <2>1. cached'[u] = cached[u] /\ expires'[u] = expires[u]
    BY <1>3, <1>10 DEF MemoryTypeOK
  <2>2. /\ cached[u] \subseteq known[u] /\ expires[u] <= now + Ttl
        /\ expires[u] # -1 => cached[u] # {}
    BY DEF EntriesFresh
  <2>3. ASSUME expires[u] # -1, NEW f \in known[u],
               addedAt[f] + Ttl + slowest' < expires[u]
        PROVE  f \in cached[u]
    <3>1. f \in Facts /\ addedAt[f] \in Int /\ expires[u] \in Int /\ slowest \in Nat
      BY DEF MemoryTypeOK
    <3>2. addedAt[f] + Ttl + slowest < expires[u]
      BY <2>3, <3>1, <1>1, TellsFacts, TtlAssumption
    <3> QED BY <2>3, <3>2 DEF EntriesFresh
  <2> QED BY <1>1, <2>1, <2>2, <2>3
<1>11. ASSUME ~UNCHANGED <<cached, expires>>
       PROVE  /\ cached'[k] \subseteq known'[k] /\ expires'[k] <= now' + Ttl
              /\ expires'[k] # -1 => cached'[k] # {}
              /\ expires'[k] # -1 => \A f \in known'[k] :
                    addedAt'[f] + Ttl + slowest' < expires'[k] => f \in cached'[k]
  <2>1. cached'[k] = found[t] /\ expires'[k] = now + Ttl
    BY <1>2, <1>3, <1>11 DEF MemoryTypeOK
  <2>2. ASSUME NEW f \in known[k], addedAt[f] + Ttl + slowest' < now + Ttl
        PROVE  f \in found[t]
    <3>1. addedAt[f] \in Int /\ readAt[t] \in Int
      BY <1>2 DEF MemoryTypeOK
    <3>2. addedAt[f] < readAt[t]
      BY <2>2, <3>1, <1>1, <1>2, TellsFacts, TtlAssumption
    <3> QED BY <3>2, <1>1, TellsFacts DEF ReadersFresh
  <2>3. now + Ttl <= now + Ttl
    BY <1>2, TtlAssumption
  <2> QED BY <1>1, <1>8, <2>1, <2>2, <2>3
<1>12. EntriesFresh'
  BY <1>10, <1>11 DEF EntriesFresh
<1> QED BY <1>5, <1>6, <1>7, <1>9, <1>12

\* What is added now was missed by nobody.
LEMMA AddMemoryKeeps ==
    ASSUME MInv, NEW u \in Users, NEW f \in Facts, AddMemory(u, f) PROVE MInv'
<1> USE DEF MInv
<1>1. /\ \A v \in Users : f \notin known[v]
      /\ known' = [known EXCEPT ![u] = @ \cup {f}]
      /\ addedAt' = [addedAt EXCEPT ![f] = now]
      /\ UNCHANGED <<backend, cached, expires, now, at, user, found, readAt, knew,
                     slowest>>
  BY DEF AddMemory
<1>2. now \in Nat /\ slowest \in Nat
  BY DEF MemoryTypeOK
<1>3. MemoryTypeOK'
  BY <1>1, <1>2 DEF MemoryTypeOK
<1>4. /\ \A v \in Users : known[v] \subseteq known'[v]
      /\ \A v \in Users : \A g \in known'[v] :
            \/ g = f /\ addedAt'[g] = now
            \/ g \in known[v] /\ addedAt'[g] = addedAt[g]
  BY <1>1 DEF MemoryTypeOK
<1>5. FactsDated'
  BY <1>1, <1>2, <1>4 DEF FactsDated
<1>6. EntriesFresh'
  <2> SUFFICES ASSUME NEW v \in Users, expires[v] # -1, NEW g \in known'[v],
                      addedAt'[g] + Ttl + slowest < expires[v]
               PROVE  g \in cached[v]
    BY <1>1, <1>4 DEF EntriesFresh
  <2>1. expires[v] \in Int /\ expires[v] <= now + Ttl
    BY DEF MemoryTypeOK, EntriesFresh
  <2>2. addedAt'[g] # now
    BY <1>2, <2>1, TtlAssumption
  <2> QED BY <1>4, <2>2 DEF EntriesFresh
<1>7. ReadersFresh'
  <2> SUFFICES ASSUME NEW t \in Turns, at[t] = "set", NEW g \in known'[user[t]],
                      addedAt'[g] < readAt[t]
               PROVE  g \in found[t]
    BY <1>1 DEF ReadersFresh
  <2>1. user[t] \in Users /\ readAt[t] \in Int /\ readAt[t] <= now
    BY DEF MemoryTypeOK, ReadersFresh
  <2>2. addedAt'[g] # now
    BY <1>2, <2>1
  <2> QED BY <1>4, <2>1, <2>2 DEF ReadersFresh
<1>8. KnewStill'
  BY <1>1, <1>4 DEF KnewStill, MemoryTypeOK
<1>9. OwnMemoriesOnly' /\ FirstMemorySeen'
  BY <1>1, <1>4 DEF OwnMemoriesOnly, FirstMemorySeen, MemoryTypeOK
<1> QED BY <1>3, <1>5, <1>6, <1>7, <1>8, <1>9

LEMMA RestartMemoryKeeps == ASSUME MInv, RestartMemory PROVE MInv'
<1> USE DEF MInv
<1>1. /\ expires' = IF backend = "memory" THEN [u \in Users |-> -1] ELSE expires
      /\ at' = [t \in Turns |-> IF at[t] = "idle" THEN "idle" ELSE "failed"]
      /\ found' = [t \in Turns |-> {}]
      /\ UNCHANGED <<backend, cached, known, addedAt, now, user, readAt, knew, slowest>>
  BY DEF RestartMemory
<1>2. MemoryTypeOK'
  BY <1>1 DEF MemoryTypeOK
<1>3. \A t \in Turns : at'[t] # "set" /\ at'[t] # "told" /\ found'[t] = {}
  BY <1>1
<1>4. \A u \in Users : expires'[u] = -1 \/ expires'[u] = expires[u]
  BY <1>1
<1>5. EntriesFresh'
  <2>1. now \in Nat
    BY DEF MemoryTypeOK
  <2> QED BY <1>1, <1>4, <2>1, TtlAssumption DEF EntriesFresh
<1> QED BY <1>1, <1>2, <1>3, <1>5 DEF FactsDated, ReadersFresh, KnewStill,
        OwnMemoriesOnly, FirstMemorySeen, MemoryTypeOK

LEMMA TickKeeps == ASSUME MInv, Tick PROVE MInv'
<1> USE DEF MInv
<1>1. /\ now' = now + 1 /\ now \in Nat
      /\ UNCHANGED <<backend, cached, expires, known, addedAt, at, user, found, readAt,
                     knew, slowest>>
  BY DEF Tick, MemoryTypeOK
<1>2. MemoryTypeOK'
  BY <1>1 DEF MemoryTypeOK
<1>3. FactsDated'
  BY <1>1 DEF FactsDated, MemoryTypeOK
<1>4. EntriesFresh'
  BY <1>1, TtlAssumption DEF EntriesFresh, MemoryTypeOK
<1>5. ReadersFresh'
  BY <1>1 DEF ReadersFresh, MemoryTypeOK
<1> QED BY <1>1, <1>2, <1>3, <1>4, <1>5 DEF KnewStill, OwnMemoriesOnly, FirstMemorySeen

LEMMA MInvNext == MInv /\ [MemoryNext]_memVars => MInv'
<1> SUFFICES ASSUME MInv, [MemoryNext]_memVars PROVE MInv'
  OBVIOUS
<1>1. CASE UNCHANGED memVars
  BY <1>1 DEF memVars, MInv, MemoryTypeOK, FactsDated, EntriesFresh, ReadersFresh,
     KnewStill, OwnMemoriesOnly, FirstMemorySeen
<1> QED
  BY <1>1, SearchKeeps, CacheHitKeeps, CacheMissKeeps, ReadMemoryKeeps, SearchFailsKeeps,
     PublishKeeps, AddMemoryKeeps, RestartMemoryKeeps, TickKeeps DEF MemoryNext, SearchStep

\* The strengthened invariant of the memories.
THEOREM MemoryInvariance == MemorySpec => []MInv
BY MInvInit, MInvNext, PTL DEF MemorySpec

\* What a search tells in a step of MemoryService is not older than the bound.
LEMMA ToldFresh ==
    ASSUME MInv, [MemoryNext]_memVars, NEW t \in Turns, Told(t), NEW f \in known[user[t]],
           addedAt[f] + Ttl + slowest' < now
    PROVE  f \in found'[t]
<1> USE DEF MInv
<1>1. at[t] # "told" /\ at'[t] = "told"
  BY DEF Told
<1>2. /\ user[t] \in Users /\ now \in Nat /\ slowest \in Nat /\ addedAt[f] \in Int
      /\ readAt[t] \in Int /\ expires[user[t]] \in Int
  BY DEF MemoryTypeOK
<1>3. CASE \E s \in Turns : Publish(s) \/ PublishLost(s)
  <2>1. PICK s \in Turns : Publish(s) \/ PublishLost(s)
    BY <1>3
  <2>2. Tells(s) /\ found' = found
    BY <2>1 DEF Publish, PublishLost
  <2>3. s = t
    BY <1>1, <2>2, TellsFacts
  <2>4. at[t] = "set" /\ now - readAt[t] <= slowest' /\ slowest' \in Nat
    BY <2>2, <2>3, TellsFacts
  <2>5. addedAt[f] < readAt[t]
    BY <1>2, <2>4, TtlAssumption
  <2> QED BY <2>2, <2>4, <2>5 DEF ReadersFresh
<1>4. CASE \E s \in Turns : CacheHit(s)
  <2>1. PICK s \in Turns : CacheHit(s)
    BY <1>4
  <2>2. s = t
    BY <1>1, <2>1 DEF CacheHit, MemoryTypeOK
  <2>3. Live(user[t]) /\ found'[t] = cached[user[t]] /\ slowest' = slowest
    BY <2>1, <2>2 DEF CacheHit, CacheKey, MemoryTypeOK
  <2>4. now <= expires[user[t]] /\ expires[user[t]] # -1
    BY <1>2, <2>3, LiveEntry
  <2>5. addedAt[f] + Ttl + slowest < expires[user[t]]
    BY <1>2, <2>3, <2>4, TtlAssumption
  <2> QED BY <1>2, <2>3, <2>4, <2>5 DEF EntriesFresh
<1>5. CASE \E s \in Turns : ReadMemory(s)
  <2>1. PICK s \in Turns : ReadMemory(s)
    BY <1>5
  <2>2. s = t
    BY <1>1, <2>1 DEF ReadMemory, MemoryTypeOK
  <2> QED BY <2>1, <2>2 DEF ReadMemory, MemoryTypeOK
<1>6. CASE \E s \in Turns : Search(s) \/ CacheMiss(s) \/ SearchFails(s)
  BY <1>1, <1>6 DEF Search, CacheMiss, SearchFails, MemoryTypeOK
<1>7. CASE RestartMemory
  BY <1>1, <1>7 DEF RestartMemory
<1>8. CASE Tick \/ UNCHANGED memVars \/ \E u \in Users, g \in Facts : AddMemory(u, g)
  BY <1>1, <1>8 DEF Tick, memVars, AddMemory
<1> QED BY <1>3, <1>4, <1>5, <1>6, <1>7, <1>8 DEF MemoryNext, SearchStep

\* The stale window of the cache is bounded, whatever is added meanwhile.
THEOREM RecallFresh == MemorySpec => RecallIsFresh
<1>1. MInv /\ [MemoryNext]_memVars =>
          [\A t \in Turns : Told(t) =>
              \A f \in known[user[t]] :
                  addedAt[f] + Ttl + slowest' < now => f \in found'[t]]_memVars
  BY ToldFresh
<1> QED BY <1>1, MemoryInvariance, PTL DEF MemorySpec, RecallIsFresh

\* Nobody is told another user's memories.
THEOREM MemoriesOwn == MemorySpec => []OwnMemoriesOnly
<1>1. MInv => OwnMemoriesOnly
  BY DEF MInv
<1> QED BY <1>1, MemoryInvariance, PTL

\* A user's first memory is seen by the next search that does not fail.
THEOREM FirstSeen == MemorySpec => []FirstMemorySeen
<1>1. MInv => FirstMemorySeen
  BY DEF MInv
<1> QED BY <1>1, MemoryInvariance, PTL

-----------------------------------------------------------------------------
(***************************************************************************)
(* The worker.                                                             *)
(***************************************************************************)

UsersTyped == user \in [Turns -> Users]

\* A turn's user is its session's, from first to last.
LEMMA UserKept == [WorkerNext]_workerVars => user' = user
BY DEF WorkerNext, FindGraph, MakePool, PoolRefused, TakeUnopened, TakePool, OpenPool,
   OpenFails, Compile, Clear, SetupFails, SearchMemory, RunGraph, Remember,
   OthersRemember, Restart, workerVars, memVars, SearchStep, Search, CacheHit, CacheMiss,
   ReadMemory, SearchFails, Publish, PublishLost, AddMemory, RestartMemory, Tick

LEMMA UsersStayTyped == WorkerSpec => []UsersTyped
<1>1. WorkerInit => UsersTyped
  BY DEF WorkerInit, MemoryInit, UsersTyped
<1>2. UsersTyped /\ [WorkerNext]_workerVars => UsersTyped'
  BY UserKept DEF UsersTyped
<1> QED BY <1>1, <1>2, PTL DEF WorkerSpec

\* Whatever the worker does, its memories go through the steps of
\* MemoryService, so that what is proved of them holds in every worker.
THEOREM ImplementsMemory == WorkerSpec => MemorySpec
<1>1. WorkerInit => MemoryInit
  BY DEF WorkerInit
<1>2. UsersTyped /\ [WorkerNext]_workerVars => [MemoryNext]_memVars
  <2> SUFFICES ASSUME UsersTyped, [WorkerNext]_workerVars PROVE [MemoryNext]_memVars
    OBVIOUS
  <2>1. ASSUME NEW c \in Callers,
               \/ FindGraph(c) \/ MakePool(c) \/ PoolRefused(c) \/ TakeUnopened(c)
               \/ TakePool(c) \/ OpenPool(c) \/ OpenFails(c) \/ Compile(c) \/ Clear(c)
               \/ SetupFails(c)
        PROVE  UNCHANGED memVars
    BY <2>1 DEF FindGraph, MakePool, PoolRefused, TakeUnopened, TakePool, OpenPool,
       OpenFails, Compile, Clear, SetupFails
  <2>2. ASSUME NEW t \in Turns, Remember(t) PROVE [MemoryNext]_memVars
    BY <2>2 DEF Remember, MemoryNext, UsersTyped
  <2> QED
    BY <2>1, <2>2 DEF WorkerNext, SearchMemory, RunGraph, OthersRemember, Restart,
       MemoryNext, workerVars
<1> QED BY <1>1, <1>2, UsersStayTyped, PTL DEF WorkerSpec, MemorySpec

WorkerTypeOK ==
    /\ production \in BOOLEAN /\ serving \in BOOLEAN
    /\ pool \in {"none", "unopened", "open"}
    /\ graph \in {"none", "plain", "saving"}
    /\ op \in [Turns -> {"turn", "clear"}]
    /\ call \in [Callers -> {"idle", "open", "setup", "search", "run", "over"}]
    /\ held \in [Turns -> {"none", "plain", "saving"}]
    /\ ran \subseteq {"none", "plain", "saving"}

\* One caller opens the pool; nobody uses it before.
PoolInOrder ==
    /\ pool = "none" => \A c \in Callers : call[c] \notin {"open", "setup"}
    /\ pool = "unopened" =>
          /\ \A c \in Callers : call[c] # "setup"
          /\ \A c, d \in Callers : call[c] = "open" /\ call[d] = "open" => c = d
    /\ pool = "open" => \A c \in Callers : call[c] # "open"

\* Once the graph is plain, only a clear has business with the pool.
PlainForGood ==
    graph = "plain" => \A c \in Callers : call[c] \in {"open", "setup"} => Clearing(c)

Used(g) == g \in ran \/ \E t \in Turns : held[t] = g

WInv ==
    /\ WorkerTypeOK /\ PoolInOrder /\ PlainForGood
    /\ graph = "saving" => pool = "open"
    /\ Used("plain") => graph = "plain"
    /\ Used("saving") => pool = "open" /\ graph # "plain"

LEMMA WInvInit == WorkerInit => WInv
<1> SUFFICES ASSUME WorkerInit PROVE WInv
  OBVIOUS
<1>1. \A c \in Callers : call[c] = "idle"
  BY DEF WorkerInit
<1>2. \A t \in Turns : held[t] = "none"
  BY DEF WorkerInit
<1>3. WorkerTypeOK
  BY DEF WorkerInit, WorkerTypeOK
<1> QED BY <1>1, <1>2, <1>3 DEF WorkerInit, WInv, PoolInOrder, PlainForGood, Used

\* A caller that has the graph g, or has failed, and disturbs nobody else.
LEMMA FailsKeeps ==
    ASSUME WInv, NEW c \in Callers, Fails(c), UNCHANGED <<production, pool, op, held, ran>>,
           graph' = graph \/ (graph' = "none" /\ ~Used("plain"))
    PROVE  WInv'
<1> USE DEF WInv
<1>1. call' = [call EXCEPT ![c] = "over"] /\ serving' \in BOOLEAN
  BY DEF Fails, Awaits, WorkerTypeOK
<1>2. \A d \in Callers : call'[d] = call[d] \/ call'[d] = "over"
  BY <1>1 DEF WorkerTypeOK
<1>3. WorkerTypeOK'
  BY <1>1 DEF WorkerTypeOK
<1>4. PoolInOrder' /\ PlainForGood'
  BY <1>2 DEF PoolInOrder, PlainForGood, Clearing
<1> QED BY <1>3, <1>4 DEF Used

LEMMA WInvNext == WInv /\ [WorkerNext]_workerVars => WInv'
<1> SUFFICES ASSUME WInv, [WorkerNext]_workerVars PROVE WInv'
  OBVIOUS
<1> USE DEF WInv
<1>1. ASSUME NEW c \in Callers, FindGraph(c) PROVE WInv'
  <2>1. /\ c \in Turns /\ held' = [held EXCEPT ![c] = graph] /\ graph # "none"
        /\ \E what \in {"over", "search"} : call' = [call EXCEPT ![c] = what]
        /\ serving' \in BOOLEAN
        /\ UNCHANGED <<production, pool, graph, op, ran>>
    BY <1>1 DEF FindGraph, Gets, Awaits, WorkerTypeOK
  <2>2. WorkerTypeOK'
    BY <2>1 DEF WorkerTypeOK
  <2>3. \A d \in Callers : call'[d] \in {call[d], "over", "search"}
    BY <2>1 DEF WorkerTypeOK
  <2>4. PoolInOrder' /\ PlainForGood'
    BY <2>1, <2>3 DEF PoolInOrder, PlainForGood, Clearing
  <2>5. \A t \in Turns : held'[t] \in {held[t], graph}
    BY <2>1 DEF WorkerTypeOK
  <2> QED BY <2>1, <2>2, <2>4, <2>5 DEF Used, WorkerTypeOK
<1>2. ASSUME NEW c \in Callers, MakePool(c) PROVE WInv'
  <2>1. /\ pool = "none" /\ pool' = "unopened" /\ (graph = "none" \/ Clearing(c))
        /\ call' = [call EXCEPT ![c] = "open"]
        /\ UNCHANGED <<production, serving, graph, op, held, ran>>
    BY <1>2 DEF MakePool, NeedsPool, Awaits
  <2>2. WorkerTypeOK'
    BY <2>1 DEF WorkerTypeOK
  <2>3. \A d \in Callers : call'[d] = IF d = c THEN "open" ELSE call[d]
    BY <2>1 DEF WorkerTypeOK
  <2>4. PoolInOrder' /\ PlainForGood'
    BY <2>1, <2>3 DEF PoolInOrder, PlainForGood, Clearing
  <2> QED BY <2>1, <2>2, <2>4 DEF Used
<1>3. ASSUME NEW c \in Callers, WithoutPool(c), pool # "open",
             UNCHANGED <<production, pool, op, ran>>, graph = "none" \/ Clearing(c) \/ call[c] = "open",
             \A d \in Callers : call[d] \in {"open", "setup"} => d = c
      PROVE  WInv'
  <2>1. CASE ~(production /\ ~Clearing(c))
    BY <2>1, <1>3, FailsKeeps DEF WithoutPool
  <2>2. CASE production /\ ~Clearing(c)
    <3>1. /\ graph' = "plain" /\ serving' \in BOOLEAN
          /\ held' = IF c \in Turns THEN [held EXCEPT ![c] = "plain"] ELSE held
          /\ \E what \in {"over", "search"} : call' = [call EXCEPT ![c] = what]
      BY <2>2, <1>3 DEF WithoutPool, Gets, Awaits, WorkerTypeOK
    <3>2. WorkerTypeOK'
      BY <1>3, <3>1 DEF WorkerTypeOK
    <3>3. \A d \in Callers : call'[d] \notin {"open", "setup"}
      BY <1>3, <3>1 DEF WorkerTypeOK
    <3>4. \A t \in Turns : held'[t] \in {held[t], "plain"}
      BY <3>1 DEF WorkerTypeOK
    <3> QED BY <1>3, <3>1, <3>2, <3>3, <3>4 DEF PoolInOrder, PlainForGood, Used
  <2> QED BY <2>1, <2>2
<1>4. ASSUME NEW c \in Callers, PoolRefused(c) PROVE WInv'
  BY <1>3, <1>4 DEF PoolRefused, NeedsPool, PoolInOrder
<1>5. ASSUME NEW c \in Callers, OpenFails(c) PROVE WInv'
  <2>1. call[c] = "open" /\ pool = "unopened"
    BY <1>5 DEF OpenFails, PoolInOrder, WorkerTypeOK
  <2>2. \A d \in Callers : call[d] \in {"open", "setup"} => d = c
    BY <2>1 DEF PoolInOrder
  <2> QED BY <1>3, <1>5, <2>1, <2>2 DEF OpenFails
<1>6. ASSUME NEW c \in Callers, TakeUnopened(c) \/ SetupFails(c) PROVE WInv'
  <2>1. Fails(c) /\ UNCHANGED <<production, pool, op, held, ran>>
    BY <1>6 DEF TakeUnopened, SetupFails, SetupFailed
  <2>2. CASE graph' = graph
    BY <2>1, <2>2, FailsKeeps
  <2>3. CASE graph' # graph
    <3>1. graph' = "none" /\ ~Clearing(c)
      BY <2>3, <1>6 DEF TakeUnopened, SetupFails, SetupFailed
    <3>2. graph # "plain"
      BY <2>3, <3>1, <1>6 DEF TakeUnopened, SetupFails, NeedsPool, PlainForGood
    <3> QED BY <2>1, <3>1, <3>2, FailsKeeps
  <2> QED BY <2>2, <2>3
<1>7. ASSUME NEW c \in Callers, TakePool(c) \/ OpenPool(c) PROVE WInv'
  <2>1. /\ pool' = "open" /\ call' = [call EXCEPT ![c] = "setup"]
        /\ UNCHANGED <<production, serving, graph, op, held, ran>>
        /\ graph = "none" \/ Clearing(c) \/ call[c] = "open"
        /\ pool = "open" \/ call[c] = "open"
    BY <1>7 DEF TakePool, OpenPool, NeedsPool, Awaits
  <2>2. WorkerTypeOK'
    BY <2>1 DEF WorkerTypeOK
  <2>3. \A d \in Callers : call'[d] = IF d = c THEN "setup" ELSE call[d]
    BY <2>1 DEF WorkerTypeOK
  <2>4. \A d \in Callers : call'[d] # "open"
    BY <2>1, <2>3 DEF PoolInOrder, WorkerTypeOK
  <2>5. PlainForGood'
    BY <2>1, <2>3 DEF PlainForGood, Clearing
  <2> QED BY <2>1, <2>2, <2>4, <2>5 DEF PoolInOrder, Used
<1>8. ASSUME NEW c \in Callers, Compile(c) PROVE WInv'
  <2>1. /\ call[c] = "setup" /\ ~Clearing(c) /\ graph' = "saving" /\ serving' \in BOOLEAN
        /\ held' = IF c \in Turns THEN [held EXCEPT ![c] = "saving"] ELSE held
        /\ \E what \in {"over", "search"} : call' = [call EXCEPT ![c] = what]
        /\ UNCHANGED <<production, pool, op, ran>>
    BY <1>8 DEF Compile, Gets, Awaits, WorkerTypeOK
  <2>2. pool = "open" /\ graph # "plain"
    BY <2>1 DEF PoolInOrder, PlainForGood, WorkerTypeOK
  <2>3. WorkerTypeOK'
    BY <2>1 DEF WorkerTypeOK
  <2>4. \A d \in Callers : call'[d] \in {call[d], "over", "search"}
    BY <2>1 DEF WorkerTypeOK
  <2>5. \A t \in Turns : held'[t] \in {held[t], "saving"}
    BY <2>1 DEF WorkerTypeOK
  <2> QED BY <2>1, <2>2, <2>3, <2>4, <2>5 DEF PoolInOrder, PlainForGood, Used
<1>9. ASSUME NEW c \in Callers, Clear(c) PROVE WInv'
  <2>1. /\ call' = [call EXCEPT ![c] = "over"]
        /\ UNCHANGED <<production, serving, pool, graph, op, held, ran>>
    BY <1>9 DEF Clear, Awaits
  <2>2. WorkerTypeOK' /\ \A d \in Callers : call'[d] \in {call[d], "over"}
    BY <2>1 DEF WorkerTypeOK
  <2> QED BY <2>1, <2>2 DEF PoolInOrder, PlainForGood, Clearing, Used
<1>10. ASSUME NEW t \in Turns, SearchMemory(t) PROVE WInv'
  <2>1. /\ call' = [call EXCEPT ![t] = "run"]
        /\ UNCHANGED <<production, serving, pool, graph, op, held, ran>>
    BY <1>10 DEF SearchMemory, Awaits
  <2>2. WorkerTypeOK' /\ \A d \in Callers : call'[d] \in {call[d], "run"}
    BY <2>1 DEF WorkerTypeOK, Callers
  <2> QED BY <2>1, <2>2 DEF PoolInOrder, PlainForGood, Clearing, Used
<1>11. ASSUME NEW t \in Turns, RunGraph(t) PROVE WInv'
  <2>1. /\ call' = [call EXCEPT ![t] = "over"] /\ ran' = ran \cup {held[t]}
        /\ UNCHANGED <<production, serving, pool, graph, op, held>>
    BY <1>11 DEF RunGraph, Awaits
  <2>2. WorkerTypeOK' /\ \A d \in Callers : call'[d] \in {call[d], "over"}
    BY <2>1 DEF WorkerTypeOK, Callers
  <2> QED BY <2>1, <2>2 DEF PoolInOrder, PlainForGood, Clearing, Used
<1>12. CASE Restart
  <2>1. /\ serving' = FALSE /\ pool' = "none" /\ graph' = "none" /\ ran' = {}
        /\ call' = [c \in Callers |->
                       IF c \in Turns /\ call[c] # "idle" THEN "over" ELSE "idle"]
        /\ held' = [t \in Turns |-> "none"]
        /\ UNCHANGED <<production, op>>
    BY <1>12 DEF Restart
  <2>2. WorkerTypeOK'
    BY <2>1 DEF WorkerTypeOK
  <2>3. \A c \in Callers : call'[c] \in {"over", "idle"}
    BY <2>1
  <2>4. \A t \in Turns : held'[t] = "none"
    BY <2>1
  <2> QED BY <2>1, <2>2, <2>3, <2>4 DEF PoolInOrder, PlainForGood, Used
<1>13. CASE UNCHANGED <<production, serving, pool, graph, op, call, held, ran>>
  BY <1>13 DEF WorkerTypeOK, PoolInOrder, PlainForGood, Clearing, Used
<1>14. ASSUME NEW t \in Turns, Remember(t) PROVE WInv'
  BY <1>13, <1>14 DEF Remember
<1>15. CASE UNCHANGED worker
  BY <1>13, <1>15 DEF worker
<1> QED
  BY <1>1, <1>2, <1>4, <1>5, <1>6, <1>7, <1>8, <1>9, <1>10, <1>11, <1>12, <1>14, <1>15
  DEF WorkerNext, OthersRemember, workerVars

\* A process keeps all of its turns' conversations or none: a graph compiled
\* without a checkpointer is never replaced, nor does it replace another.
THEOREM OneKind == WorkerSpec => []OneKindOfGraph
<1>1. WInv => OneKindOfGraph
  BY DEF WInv, OneKindOfGraph, Used
<1> QED BY <1>1, WInvInit, WInvNext, PTL DEF WorkerSpec

=============================================================================
