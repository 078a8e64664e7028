---------------------------- MODULE MemoryService ----------------------------
(***************************************************************************)
(* Long-term memory behind a cache that expires (app/services/memory.py,   *)
(* app/core/cache.py).  A search answers from the cache or reads mem0 and  *)
(* publishes what it found; adding memories, in the background of other    *)
(* turns, touches no entry.  All turns ask the same question, so a user    *)
(* has one key, and mem0 finds all that is known of the user.              *)
(***************************************************************************)
EXTENDS Integers, FiniteSets

CONSTANTS
    Turns,              \* searches, one per turn
    Users,
    Facts,              \* what mem0 extracts from conversations
    Ttl,                \* CACHE_TTL_SECONDS
    MaxTime             \* bound of the clock

ASSUME TtlAssumption == Ttl \in Nat /\ MaxTime \in Nat

VARIABLES
    backend,            \* which cache: in "memory" or "valkey"
    cached, expires,    \* per key: the entry; expires = -1 is none
    known,              \* per user: the facts in mem0
    addedAt,            \* ... since when
    now,
    at,                 \* per turn: where its search is
    user,               \* ... whose it is
    found,              \* ... what it read, or answered
    readAt,             \* ... when it read mem0
    knew,               \* history: the turns that began when there was a memory
    slowest             \* history: the longest from a search's read to its end

memVars == <<backend, cached, expires, known, addedAt, now, at, user, found,
             readAt, knew, slowest>>

MemoryTypeOK ==
    /\ backend \in {"memory", "valkey"}
    /\ cached \in [Users -> SUBSET Facts] /\ expires \in [Users -> Int]
    /\ known \in [Users -> SUBSET Facts] /\ addedAt \in [Facts -> Int]
    /\ now \in Nat /\ slowest \in Nat
    /\ at \in [Turns -> {"idle", "get", "read", "set", "told", "failed"}]
    /\ user \in [Turns -> Users] /\ found \in [Turns -> SUBSET Facts]
    /\ readAt \in [Turns -> Int] /\ knew \subseteq Turns

MemoryInit ==
    /\ backend \in {"memory", "valkey"}
    /\ cached = [u \in Users |-> {}] /\ expires = [u \in Users |-> -1]
    /\ known = [u \in Users |-> {}] /\ addedAt = [f \in Facts |-> -1]
    /\ now = 0 /\ slowest = 0
    /\ at = [t \in Turns |-> "idle"]
    /\ user \in [Turns -> Users]
    /\ found = [t \in Turns |-> {}]
    /\ readAt = [t \in Turns |-> -1] /\ knew = {}

-----------------------------------------------------------------------------
(***************************************************************************)
(* The cache.                                                              *)
(***************************************************************************)

\* Mutant: the key has lost the user.
CacheKeyShared(u) == CHOOSE v \in Users : TRUE

\* The key hashes the user and the question.
CacheKey(u) == u

\* Mutant: an entry in use does not expire.
LiveWhileUsed(k) == expires[k] # -1

\* Valkey drops an entry when its time has come, the other one after it.
Live(k) ==
    \/ backend = "memory" /\ now <= expires[k]
    \/ backend = "valkey" /\ now < expires[k]

Put(k, value) ==
    /\ cached' = [cached EXCEPT ![k] = value]
    /\ expires' = [expires EXCEPT ![k] = now + Ttl]

-----------------------------------------------------------------------------
(***************************************************************************)
(* A search.                                                               *)
(***************************************************************************)

Search(t) ==
    /\ at[t] = "idle" /\ at' = [at EXCEPT ![t] = "get"]
    /\ knew' = IF known[user[t]] # {} THEN knew \cup {t} ELSE knew
    /\ UNCHANGED <<backend, cached, expires, known, addedAt, now, user, found,
                   readAt, slowest>>

CacheHit(t) ==
    LET k == CacheKey(user[t]) IN
    /\ at[t] = "get" /\ at' = [at EXCEPT ![t] = "told"]
    /\ Live(k) /\ found' = [found EXCEPT ![t] = cached[k]]
    /\ UNCHANGED <<backend, cached, expires, known, addedAt, now, user, readAt,
                   knew, slowest>>

\* A Valkey that raises is a miss; so is one whose ping failed at startup,
\* which looks like one that always raises.
CacheMiss(t) ==
    /\ at[t] = "get" /\ at' = [at EXCEPT ![t] = "read"]
    /\ ~Live(CacheKey(user[t])) \/ backend = "valkey"
    /\ UNCHANGED <<backend, cached, expires, known, addedAt, now, user, found,
                   readAt, knew, slowest>>

\* Mutant: what is empty is cached as well.
PublishableOrEmpty(value) == TRUE

\* if result:
Publishable(value) == value # {}

ReadMemory(t) ==
    LET value == known[user[t]] IN
    /\ at[t] = "read"
    /\ at' = [at EXCEPT ![t] = IF Publishable(value) THEN "set" ELSE "told"]
    /\ found' = [found EXCEPT ![t] = value]
    /\ readAt' = [readAt EXCEPT ![t] = now]
    /\ UNCHANGED <<backend, cached, expires, known, addedAt, now, user, knew, slowest>>

\* mem0 cannot be built or raises: the turn goes on without memories.
SearchFails(t) ==
    /\ at[t] = "read" /\ at' = [at EXCEPT ![t] = "failed"]
    /\ found' = [found EXCEPT ![t] = {}]
    /\ UNCHANGED <<backend, cached, expires, known, addedAt, now, user, readAt,
                   knew, slowest>>

\* The search is over; how long ago did it read?
Tells(t) ==
    /\ at[t] = "set" /\ at' = [at EXCEPT ![t] = "told"]
    /\ slowest' = IF now - readAt[t] > slowest THEN now - readAt[t] ELSE slowest

Publish(t) ==
    /\ Tells(t)
    /\ Put(CacheKey(user[t]), found[t])
    /\ UNCHANGED <<backend, known, addedAt, now, user, found, readAt, knew>>

\* Valkey's error is swallowed.
PublishLost(t) ==
    /\ Tells(t) /\ backend = "valkey"
    /\ UNCHANGED <<backend, cached, expires, known, addedAt, now, user, found,
                   readAt, knew>>

SearchStep(t) ==
    \/ CacheHit(t) \/ CacheMiss(t) \/ ReadMemory(t) \/ SearchFails(t)
    \/ Publish(t) \/ PublishLost(t)

-----------------------------------------------------------------------------

\* mem0 keeps a fact it extracted from a conversation of the user.
AddMemory(u, f) ==
    /\ \A v \in Users : f \notin known[v]
    /\ known' = [known EXCEPT ![u] = @ \cup {f}]
    /\ addedAt' = [addedAt EXCEPT ![f] = now]
    /\ UNCHANGED <<backend, cached, expires, now, at, user, found, readAt, knew,
                   slowest>>

\* The clock, and the entries of Valkey, go on while the worker starts again.
RestartMemory ==
    /\ expires' = IF backend = "memory" THEN [u \in Users |-> -1] ELSE expires
    /\ at' = [t \in Turns |-> IF at[t] = "idle" THEN "idle" ELSE "failed"]
    /\ found' = [t \in Turns |-> {}]
    /\ UNCHANGED <<backend, cached, known, addedAt, now, user, readAt, knew, slowest>>

Tick ==
    /\ now < MaxTime /\ now' = now + 1
    /\ UNCHANGED <<backend, cached, expires, known, addedAt, at, user, found,
                   readAt, knew, slowest>>

MemoryNext ==
    \/ \E t \in Turns : Search(t) \/ SearchStep(t)
    \/ \E u \in Users, f \in Facts : AddMemory(u, f)
    \/ RestartMemory \/ Tick

MemorySpec == MemoryInit /\ [][MemoryNext]_memVars

-----------------------------------------------------------------------------
(***************************************************************************)
(* Properties.                                                             *)
(***************************************************************************)

Told(t) == at[t] # "told" /\ at'[t] = "told"

\* A search misses at most the memories of the last CACHE_TTL_SECONDS and of
\* the time a search took to publish what it had read before they were added:
\* the only bound there is, since adding a memory leaves the entries alone.
RecallIsFresh ==
    [][\A t \in Turns : Told(t) =>
          \A f \in known[user[t]] :
              addedAt[f] + Ttl + slowest' < now => f \in found'[t]]_memVars

\* Whatever is cached, nobody is told another user's memories.
OwnMemoriesOnly == \A t \in Turns : found[t] \subseteq known[user[t]]

\* Finding nothing, and failing to look, are not remembered
\* (docs/memory.md:47): a user's first memory is seen by the next search.
FirstMemorySeen ==
    \A t \in knew : at[t] = "told" => found[t] # {}

=============================================================================
