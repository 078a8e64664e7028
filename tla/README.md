# Verification of the SOP incident system

TLA+ models, TLC runs and TLAPS proofs for the program under `src/` (a FastAPI
service that answers questions about standard operating procedures and drafts
incident plans an operator approves). Paths below are relative to `src/`.

## 1. Inventory

| Part | State it keeps | Operations | Interacts with | What makes it correct |
|---|---|---|---|---|
| **Incident workflow** `app/core/incidents/{store,service,routes,schemas}.py`, `app/api/v1/incidents.py` | one SQLite file: `incidents` (id, owner, version, payload), `mock_tickets` (primary key incident id) | create, get, revise (`prepare`: read, plan up to 90 s, compare-and-swap save), decide (`BEGIN IMMEDIATE` .. commit) | planner (demo or live agent), operator page | one decision per incident, about the version shown; ticket iff completed; fail closed; idempotent retry; no lost update |
| **Operator page** `static/incidents.html` | `current` record, `busy`, id in localStorage, token in sessionStorage | submit, approve/reject, restore, new | the endpoints above | the decided row is the one on the screen |
| **Research agent** `app/core/incidents/{research,live}.py` | budgets, evidence, queries, trace, result of one investigation | plan, search, merge, assess, propose, verify | LLM service, shared retrieval | budgets hold, `ready` only through every gate, always terminates |
| **LLM service** `app/services/llm/{service,registry}.py` | current model index and bound model, shared by all coroutines | call: retry with backoff, fall back through the registry | every caller | every model is tried before giving up; the index is in range |
| **BM25 index and ingestion** `app/services/document_service.py`, `app/core/rag/bm25_index.py`, `app/api/v1/documents.py` | `document` rows (status), chunks in a Chroma collection, in-memory index (four fields) | upload, background ingest, rebuild, `top_n` | database, thread pool, retrieval | a ready document is searchable; a search never mixes or misses a chunk because the index is being rebuilt |
| **Retrieval** `app/core/rag/{retrieval,fusion,context,splitter,loader,vectorstore,embeddings}.py` | none | hybrid search, reciprocal rank fusion | index, vector store | a chunk ranked above another by both legs stays above it; a filter narrows without losing what it kept |
| **RAG graph** `app/core/langgraph/**`, `app/api/v1/chatbot.py` | checkpointed messages per session | chat, stream, history, sources, clear | LLM, retrieval, memory, naming | an answer rests on what its run retrieved; answered turns are kept; cleared means cleared; every turn ends |
| **Session naming** `app/services/session_naming.py` | the session row and its name | create, claim, persist, rename, delete | accounts, LLM | one title per session; a name from the first message on |
| **Memory and cache** `app/services/memory.py`, `app/core/cache.py` | Valkey or in-memory TTL cache, mem0 store | search, add | RAG graph | nobody reads another's memories; stale no longer than the TTL and a slow search |
| **Worker** `app/main.py` lifespan, `graph.py` 81-175, `app/utils/background_tasks.py` | connection pool, compiled graph, background tasks of one process | startup, build on first use, turn, clear | RAG graph, memory, database | no process mixes turns that are saved with turns that are not |
| **Accounts and database** `app/api/v1/auth.py`, `app/services/database.py`, `app/models`, `app/utils/{auth,sanitization}.py` | users (unique address), sessions, signed tokens | register, login, session create/list/rename/delete | everything | a token is held by who earned it; who registered with credentials that normalisation leaves alone is let in |
| **Evaluation** `evals/{main,evaluator,helpers}.py` | a report, the client's queue of scores; scores in Langfuse | fetch, judge with retries, push, report | Langfuse, the judge model | the report accounts for what was scored; nothing is scored twice |
| **Shell** `app/core/{middleware,limiter,metrics,logging,observability,config}.py`, **scripts, dashboards** | limits, metrics | - | everything | - |

Hard behaviours, by part: concurrent requests and crashes around one SQLite
lock (incidents); a slow planner racing a decision (incidents); lost answers and
retries (page); budgets, cut-offs and untrusted model output (agent); coroutines
sharing one mutable fallback index (LLM service); a list replaced while another
thread reads it, and status updates that fail half way (ingestion); background
writes racing user writes (naming); a checkpoint written after it was cleared
(graph); a cache that is published to after what it caches has changed (memory);
a pool that is visible before it is open (worker); check-then-insert on several
workers (accounts); commands interrupted between scoring and reporting
(evaluation).

## 2. Modules and plan

Order: the part with consequences first (a ticket), then what feeds it.

| # | Modules | State |
|---|---|---|
| A | `IncidentData`, `IncidentWorkflow` (abstract), `IncidentService` (detailed), `IncidentServiceInv`; `IncidentWorkbench` composes the page with the service; `IncidentProofs` | built, checked, proved |
| B | `ResearchAgent`, `ResearchAgentProofs` | built, checked, proved |
| C | `LLMService`, `LLMServiceProofs` | built, checked, proved |
| D | `DocumentIngestion`; `HybridSearch` extends it with the search over store and index; `HybridSearchProofs` | built, checked, proved |
| E | `ChatSession`, `ChatSessionProofs` | built, checked, proved |
| F | `SessionNaming`; `Accounts` extends it with users, tokens and the session's operations; `AccountsProofs` proves about both | built, checked, proved |
| G | `MemoryService`; `ChatWorker` extends it with the graph of a process and the turns on it; `ChatWorkerProofs` | built, checked, proved |
| H | `Evaluation`, `EvaluationProofs` | built, checked, proved |

Where one module extends another, the larger one's specification implies the
smaller one's (`ImplementsIngestion`, `ImplementsNaming`, `ImplementsMemory`), so
that what is proved of the part holds of the whole, and one run checks both.

Left to do: measures that bound how many steps an investigation, a turn or a call
can take, as proved action properties under the liveness that TLC checks.

## 3. Incidents

`IncidentWorkflow` is what the part promises, with atomic operations: `Register`,
`Revise`, `Decide`. `IncidentService` is the code: one action per stretch of a
handler between two awaits. A request is a record with a program counter; `save`
and `decide` run inside a SQLite transaction held by at most one connection
(`writer`), which works on its own copy of the tables (`txIncidents`,
`txTickets`) until `Commit` publishes it or `Close`, `Crash` discards it.

| Action | Code |
|---|---|
| `CreateArrives`, `ReadArrives`, `ReviseArrives`, `DecideArrives` | `routes.py` 17-74 |
| `Read` | `store.py` `get` 33-42 |
| `ReadForRevision` | `service.py` 54-70 |
| `Investigate`, `RetrieveAndPropose`, `PlanningFails` | `service.py` 72-93, 94-112, 113-118 |
| `SaveRow` | `store.py` 44-58 |
| `BeginImmediate`, `SelectForDecision`, `InsertTicket`, `UpdateDecided`, `Commit` | `store.py` 64-92 |
| `LockTimeout`, `StatementFails`, `Close`, `Crash` | an exception at any database await; the connection context manager; the process dying |

The planner is any outcome of the type it may return: a planner that can
`investigate` (the live one) any status with any proposal (the service checks the
citations again), one that only retrieves and proposes (the demo's) any proposal
over any retrieval. `service.py` asks the planner it was built with which of the two
it is (72); `Planners` are the kinds a run admits, and admitting both in one process
covers each of them alone. `Grounded` are the proposals `evidence_error` accepts.

`IncidentWorkbench` adds tabs of `static/incidents.html`: what each shows, whether
it waits, which principal its token names. Answers may be lost, pages reloaded,
tokens switched. `clicked` is a history variable: every decision button pressed,
with the record behind it. A decision changes status and version only, so the row an
operator decided on can be read off the decided one (`Undecided`), and
`DecidedAsReviewed` asks for the button pressed under exactly that row.

`ImplementsWorkflow` (refinement of `IncidentWorkflow`) is checked by TLC and proved.

## 4. Investigations (`ResearchAgent`)

One action per stretch of `ResearchAgent._investigate` between two calls to a
backend; the result object is the variables `status`, `proposal`, `conflicts`,
`coverage`, `verification` and the evidence `kept` (how many characters of each
chunk). The backends return anything of their type: any queries, hits, coverage,
conflicts, proposals and verdicts, well formed or not.

| Action | Code (`research.py`) |
|---|---|
| `Begin`, `Plan` | 156-162 |
| `TryQuery`, `Search`, `MergeHit`, `Merged` | 162-184 and `_merge` 141-154, hit by hit |
| `SearchAgain`, `Clarify`, `ReportConflict`, `Abstain`, `Answer` | the five ways on from an assessment, 185-222 |
| `Propose`, `Verify` | 223-242 |
| `TimeOut`, `BackendFails` | `run` 114-131 |

Fairness: `WF(Next)`. The loop is one coroutine, and `asyncio.timeout` cuts off a
backend that does not answer (`TimeOut` is part of `Next`).

## 5. Model calls (`LLMService`)

All coroutines share the index and the bound model; a call holds the position it
believes in (`current`), the entry its attempt runs on (`target`) and its counters.
One action is what lies between two attempts, the only awaits. `Default` calls
move the shared index when they fail (`Switch`); calls with an override walk the
registry on an index of their own. `tried` and `disturbed` are history variables:
which entries a call invoked, and whether another call moved the default meanwhile.

`llm_exhausted` shows the code disagreeing with its docstring: of two default calls
that fail in turn, each moves the index once, so with two models a call returns to
the model it came from and raises "exhausted" without having asked the other one.
`OneFullCycle` says what does hold: without such a disturbance every entry is asked
exactly once.

`bind_tools` has no caller in the repository, so re-binding while switching is left
out; back-off delays are, too. Fairness: `WF` of each call, because attempts
return, raise, or are cut off by the client's own timeout; `CallsEnd` therefore does not
lean on `LLM_TOTAL_TIMEOUT`, although that is an action.

## 6. Ingestion and search (`DocumentIngestion`, `HybridSearch`)

A document stands for its chunks: one call adds them to the collection, and a
search that finds one is enough. `Fetch`, `SetIds`, `SetTexts`, `SetMetadatas`,
`ReadTexts`, `SetBm25` are the statements of `BM25Index.rebuild`, which runs in a
worker thread and may be preempted between any two; `Rank`, `LookUpId`,
`LookUpText`, `LookUpMetadata` are those of `top_n`. The collection listing chunks
in the order they were added is an assumption about Chroma. `alone` and `stale` are
history variables: does a rebuild run alone, and has one been overtaken since.

`ingest_overlap` shows that the module's own claim - an index "over every chunk
currently in the vector store" - fails: of two overlapping rebuilds the one that
read the collection first may assign last, and a document reported ready is missing
from keyword search until the next upload. A `Restart` leaves interrupted rows in
`processing` for good; nothing in the repository says they should not be.

`HybridSearch` is `search_sop` (`retrieval.py` 18-85) on top:

| Action | Code |
|---|---|
| `VectorSearch` | `retrieval.py` 24-45: the store, filtered, as of now |
| `KeywordSearch` | 47-49 and `top_n` 63-67: the best indices of the scores there are by now |
| `LookUp`, `FilterHit` | `top_n` 68-72, `retrieval.py` 50-62, hit by hit, rebuilds in between |
| `Fuse` | 64-85 with `fusion.py`: shares are fractions (`Share`, `Fused`), equal scores keep the order of the dict (`Place`); the sorted list is described by what it is, the sequence of all `Candidates` in which each `Precedes` the later ones (`Sorted`) |
| `SearchRaises` | either leg raises, the keyword leg by `IndexError` too |

Which documents share a term with the query, and how each leg orders them, is any.
The two legs see different states of the store: what saves a ready document is that
it is in the index before it is ready (`ReadyIsSearchable`), hence in one leg.
`ReadyIsFound` says so of the documents an up-to-date index held when the search began
(`owed`), up to `TopK` documents none of which ranks lower. Rebuilds that overlap while
the search is under way may fail it (`SearchRaises`) but cannot make it miss one of
them: every list they read holds it. Nothing is promised when more documents match than
a leg may find (`CandidateK`), for then the filter of the keyword leg comes too late.
`BothLegsFirst` needs `CandidateK <= RrfK`, which the defaults (15 and 60) keep; with
longer rankings the sum of two late ranks can be less than one early rank.

Fairness: `WF` of each ingestion; every stage runs in a thread and returns or raises.
None is assumed of the search.

## 7. Chat (`ChatSession`)

The thread of one session in the checkpointer, and the turns on it. A turn loads
the latest checkpoint (`Load`), runs the nodes on a view of its own and after its
input and after every node makes that view the latest (`Store`). That a checkpoint
keeps only the channels written in its step, and finds the others where earlier
checkpoints left them, is how langgraph's Postgres checkpointer works and an
assumption about it; it matters after a clear in mid-run: the next node brings back
an empty conversation, `Generate` the whole of it.

| Action | Code |
|---|---|
| `Receive` | `chatbot.py` `chat`, `chat_stream` |
| `Load`, `StoreInput` | `graph.py` 213-232 (263-285), and the checkpointer |
| `Retrieve`, `Grade`, `Rewrite`, `Generate` | `nodes/*.py` |
| `Respond` | `graph.py` 234-241 |
| `ReadState`, `LastSources` | `graph.py` 296-298, 323-340: a stream reads the thread again, twice |
| `TurnFails`, `Disconnect`, `Crash` | any await may raise; /chat rebuilds every message of the thread after its run (`graph.py` 237-238), which `Message` (`schemas/chat.py` 31, 48-53) may not admit; a closed stream is cancelled; the worker ends |
| `ClearChatHistory` | `graph.py` 360-393 |

A request carries one question of the user. Retrieval finds something or nothing,
the grader says anything. Two turns that overlap lose messages of one of them, and a
stream may then show the other's sources; no text of the repository promises
otherwise, so `AnsweredIsKept` and `AnswersAreGrounded` speak of turns that ran
alone (`raced`), respectively of the answers that cannot be affected (`/chat`
answers from its own run). A clear during a run is undone by the run (`swept`).

Fairness: `WF(Proceed(t))` of each turn: model calls end within `LLM_TOTAL_TIMEOUT`,
statements return or raise. `TurnsEnd` then needs the count of rewrites.

## 8. Naming (`SessionNaming`)

The session's row and, for every chat request, its way through `maybe_name_session`:
the name it read when it authenticated (`unnamed`), the claim (one conditional
UPDATE, `ClaimSession` or `ClaimMisses`) and its background task (`PersistSessionName`,
`NamingFails`). The user renames (perhaps to nothing: `sanitize_string` can empty a
name) and deletes at any time. `update_session_name` is a read and a write of one
row; since only the name column is written, and nothing if the row is gone, it is
one step.

The title replaces whatever the name has become by then, also one the user chose in
between (`PersistSessionName`); the docstring, "overwrites the placeholder", does not
say.

### Accounts (`Accounts`)

People register and log in, each with an address, perhaps with capitals, and a
password, perhaps with characters HTML escapes, and operate on the one session.

| Action | Code |
|---|---|
| `RegisterUser`, `CreateUser`, `CreateUserFails` | `auth.py` 156-196, `database.py` 70-87: the check, the insert, the unique index |
| `Login`, `LoginUnknown` | `auth.py` 199-243 with `sanitization.py` |
| `NewSession`, `GetUserSessions` | `auth.py` 246-277, 345-367 |
| `AuthenticateSession`, `RenameSession`, `RemoveSession` | `auth.py` 103-153, then 280-342: the row may be gone in between |
| `ChatAuthenticates`, `NamingStep` | the messages of `SessionNaming` |
| `TokensExpire` | `utils/auth.py` 22-85 |

A name of more than 100 characters is committed before the answer is validated: the
rename is answered 422, and from then on so is every list of the user's sessions
(`RenameSession`, `GetUserSessions`).

Registration and login do not agree on how credentials are normalised, and
`docs/authentication.md` 54 ("Exchange credentials for a user token") does not say so:
registration stores the address in small letters (`sanitization.py` 53) and hashes the
password as typed (`auth.py` 186), login looks the address up as typed (220, 231) and
verifies the password after HTML escaping (221, 232). Who registers with a capital
letter in the address, or one of `& < > " '` in the password, is answered 401 on every
login. The model has all of it; `AccountOpens` is about the others (`PlainCredentials`),
and without that condition TLC shows the 401 in three steps.

## 9. Worker and memory (`ChatWorker`, `MemoryService`)

`MemoryService` is `memory.py` over either cache: a search is a look into the cache
(`CacheHit`, `CacheMiss`), a read of mem0 (`ReadMemory`, `SearchFails`) and a write to
the cache (`Publish`, `PublishLost`); adding a memory leaves the cache alone. All turns
ask one question, so a user has one key. `slowest` is a history variable: the longest
any search took from its read to its publication, which is part of the bound in
`RecallIsFresh` because nothing in the code limits it.

`ChatWorker` is one process: `create_graph` and `_get_graph`, called by the lifespan and
by every request that finds no graph, await by await (`MakePool`, `OpenPool`,
`TakeUnopened`, `TakePool`, `Compile`, and their failures), the turns (`FindGraph`,
`SearchMemory`, `RunGraph`, `Remember`), clears, other workers' memories, and a
restart. Assigning the pool before it is opened has consequences the model shows: a
request arriving in between fails, and after a failed open every clear does; in
production a worker whose pool was refused keeps a graph without a checkpointer
until it is restarted. `OneKindOfGraph` says that a process never mixes the two.

No fairness: nothing here is a promise that something happens.

## 10. Evaluation (`Evaluation`)

Commands (`evals/main.py`) that fetch the traces of the last day without scores, judge
each by each metric with retries, hand scores to Langfuse's client, and write a report.
The client delivers in the background and flushes when the interpreter exits: that
is external, as is the order and the limit of the list. The application records traces
all the while, and traces expire. Traces are numbered as they are listed, so a command
keeps the set of those it has not finished (`traces`) and works on the smallest
(`UnderWay`), metric by metric.

| Action | Code |
|---|---|
| `Start` | `main.py` 201-264 |
| `FetchTraces` | `evaluator.py` 203-219, 68-69 |
| `Judged`, `NotJudged`, `JudgeCallFails` | `evaluator.py` 82-97, 132-201 |
| `ProcessTraceResults`, `GenerateReport` | `helpers.py` 136-198 |
| `DisplaySummary`, `EvaluationFails`, `Interrupt` | `main.py` 115-186, 232-246 |
| `Deliver`, `Exit`, `Kill` | the client, the end of the process |

A trace whose output has no messages ends every evaluation that reaches it
(`helpers.py` 62). An interrupt ends a command by the signal (`killed`), except under
`--quick`, which takes it for a cancellation (`canceled`, status 0).

`docs/evaluation.md` 10 says of `eval-no-report` that it "runs but skips report
generation". The run `evaluation_no_report` states that (`NoReportIsNoFailure`: such a
command fails only over a trace it cannot evaluate) and finds it violated: the summary
looks up the path of the report (`main.py` 160), which only `generate_report` sets, so
the complete evaluation ends with status 1 after "completed successfully". A status of
0 therefore says of the report only what was asked for: `ExitMeansReport` does not rest
on that failing lookup.

## 11. Runs

| Run | Asks | Bounds |
|---|---|---|
| `incident_requests` | safety, refinement and liveness of the service | 2 requests in flight, 1 incident, 2 owners, versions quoted up to 2, complete and incomplete facts, a grounded and an ungrounded plan, both kinds of planner |
| `workbench_page` | the operator's view: the decided row is the one on the screen | 1 tab, 2 principals, 2 requests, versions up to 2 |
| `research_budgets` | every property of an investigation | 3 searches and model calls for 2, 2 excerpts, 5 characters in all and 3 of a chunk, four chunks (long, short, other, blank), queries that repeat one another up to spelling |
| `llm_cycle` | fallback, interleaved | 2 calls, 3 models, 2 attempts each, overrides by known and unknown names |
| `llm_exhausted` | *violated*: a call that gives up asked every model | 2 calls, 2 models |
| `hybrid_search` | ingestion and search, interleaved | 2 documents, one search after another with and without a filter, `TopK` 1 of `CandidateK` 2, 1 restart |
| `ingest_overlap` | *violated*: the index is whole when all is ready | 2 documents |
| `chat_turns` | everything of the thread | 2 turns, each streamed or not, 1 rewrite, 1 clear, crashes at will |
| `accounts_races` | tokens, and the naming of the session | 2 people, 2 addresses, 2 messages, renames, deletion and expiry at will |
| `worker_turns` | memories and the graph of a process | 2 turns or clears, 2 users, 2 facts, entries that live 1 of 3 ticks, 1 restart, both caches, production and not |
| `evaluation_reruns` | reports and scores | 2 commands, 2 traces, 2 metrics, 2 attempts at a judgement |
| `evaluation_no_report` | *violated*: a complete evaluation without a report is no failure | 1 command, 2 traces, 2 metrics |

Why they are enough. Two requests, calls, ingestions or turns interleave at every
await, and what any more of them could disturb is the same shared state. Rows of
different incidents (sessions) never interact except through the lock, so one
incident suffices; one tab already has several requests in flight, its own lost ones
included. Versions up to 2 cover a revision, a decision about what it replaced, and
the retry of a decision. `TopK` below the number of documents makes a search drop one.
The budgets of the investigation are small enough that each of them runs out in some
behaviour, and large enough that others finish with two rounds of evidence. A
registry of three tells "next" from "back to the first". Entries that live one tick
expire while a search is under way, and the restart of the worker finds Valkey's still
there. Two evaluations overlap or follow one another; the second finds what the first
left. Where there are proofs they drop all these bounds.

Symmetry is used only in runs without liveness (`workbench_page`, `accounts_races`,
`worker_turns`, `evaluation_reruns`), over sets of interchangeable model values; no
checked definition picks a fixed member of one of them.

Fairness of the incident service: weak fairness of each handler (`Handle(r)`),
because the event loop runs every ready coroutine, `asyncio.timeout(90)` bounds
planning and SQLite's busy timeout bounds the wait for the lock (`LockTimeout` is one
of the handler's steps). Nowhere is fairness assumed of clients, crashes or failing
statements.

## 12. Proofs

`IncidentProofs` proves, for any sets of requests, incidents, owners, facts
and plans (assumptions: `ConstantsAssumption`, `ServiceAssumption`: the null values
lie outside their sets):

- `Invariance`: `IInv` is inductive. Type correctness alone is far from inductive;
  `IInv` adds who holds the lock and what the working copy then contains (`LockInv`),
  what each handler may rely on at each await (`PrepareOK`: the drafted row is one
  version ahead of a row that is open or already overtaken; `DecideOK`: the row
  being decided is still the committed one) and that two creations never share an id.
- `TypeCorrect`, `TicketsMatch`, `FailClosed`, `NoCollision`, `Durable`,
  `OwnersSeparated`: the safety properties of `incident_requests`, that the ticket insert
  never meets its primary key, and that no answer carries another owner's row.
- `Refinement`: `Spec => Workflow!Spec`. Only `Commit` is visible, and it is a
  `Register`, a `Revise` or a `Decide`.
- `WorkbenchInvariance`, for any number of tabs besides: `DecidedAsReviewed` says nothing
  of a decision still in flight, so `WInv` adds to `IInv` that every pressed button showed
  a snapshot of its row, open when pressed (`ClicksInv`: the row of that version, or one
  that is overtaken); that behind every decide request is such a button (`PressedInv`);
  and that a decision refused has lost to another version, which is not the one it would
  have made (`RefusedInv`). Rows only grow, so a snapshot stays one. From it
  `DecisionsReviewed`, `ScreensTrue`, `RefusalsHold`.
- `PageImplementsWorkflow`: the page composed with the service still implements
  `IncidentWorkflow`; lost answers, reloads and switched tokens are invisible.

`ResearchAgentProofs` (assumptions: `BudgetAssumption`, positive budgets, which
`ResearchBudget` enforces, and `ResearchAssumption`, finitely many chunks and backend
answers of their declared types) proves for every set of chunks and every budget
that `RInv` is inductive: the budgets, the two call counters' arithmetic in each
phase (`CallsInv`), what is still undecided while the loop runs (`OpenInv`), and
what each gate has accepted on evidence that cannot change any more (`GatesInv`).
The total of collected characters is a running sum `used`, so that no induction over
the evidence is needed. From it follow `WithinBudgets`, `ReadyPassedEveryGate`,
`NoUncheckedResult`, `QueriesFresh`, `ExcerptsNeverChange`, and
`ModelBudgetSuffices`: a model budget of three more than the searches (the default,
6 and 3) never ends an investigation.

`LLMServiceProofs` (assumption: `RegistryAssumption`) proves for registries of any
length and any number of calls that an undisturbed call's `tried` is the window of
`modelsTried` consecutive entries, cyclically, that ends at its current one; when the
window is as long as the registry it is the registry (`EveryModelOnce`). It also
proves `InvokedAsNamed` and `OverridesMoveNothing`.

`ChatSessionProofs` (assumption: `ChatAssumption`, the bounds are numbers) proves
`AnswersGrounded`, `ClearIsFinal`, `AnswersKept` and type correctness for any number
of turns, rewrites and clears. `CInv` adds to them that two runs at the same time are
both marked `raced` (`Apart`); that a run's view ends with its question and then with
its answer (`InGraphInv`, `AnsweredInv`); that no conversation holds an answer before
its turn has given it (`SpokenInv`, needed because a raced stream may show the end of
another's thread); that the thread is an undisturbed turn's view once it has answered
(`ThreadInv`); and what a clear leaves behind in the views of running turns
(`ClearedInv`, `KeptInv`). Conversations are handled by four predicates on sequences
(`Ends`, `Holds`, `FreeOf`, `Paired`) whose behaviour under `Append` is one lemma.

`AccountsProofs` (no assumption) proves, of `SessionNaming` alone, `NamedOnce` and
`NamedAfterFirstMessage` for any set of requests. Neither is inductive: `NInv` adds that
a session that was claimed, or read as named, has a name - until the user blanks it.
Of `Accounts` it proves `TokensEarned`, `SessionTokensOwned` and `AccountsOpen` for any
number of people, addresses, ids and messages. The argument is the unique index: rows
differ in their address (`OneRowPerAddress`) and a row is what its registrant's
credentials made of it (`RowsAsRegistered`), so a login that finds a row and verifies
against it is its registrant's. That a rename hands out a token again, perhaps to one
whose own has expired meanwhile, needs `RenamersOwn`. `ImplementsNaming` says that every
account operation is a step of `SessionNaming`, hence `AccountsNameSessions`: both naming
properties hold with registration, logins, renames and deletion around them.

`ChatWorkerProofs` (assumptions: `TtlAssumption`, `StartupAssumption`) proves
`RecallFresh`, `MemoriesOwn`, `FirstSeen` of `MemorySpec`, that the worker implements it,
and `OneKind`. `EntriesFresh` bounds what an entry may lack by the end of its life, so
that it survives the clock; `ReadersFresh` says the same of a search that has read and
not yet published. `OneKind` rests on the order of pool and
graph: a graph that saves comes of an open pool, only one caller opens it and nobody
uses it before (`PoolInOrder`), and once the graph is plain only clears have business
with the pool (`PlainForGood`).

`HybridSearchProofs` proves `ReadySearchable`, `HitsWhole` and `OverlapFailsSearch` of
`DocumentIngestion` for any number of documents and restarts. Every list is a prefix of
the store, which only grows (`PInv`), so equal indices mean equal chunks whatever
rebuild a list is from; a rebuild that runs alone carries every settled document from
list to list (`CarriedInv`); and the scores never reach past lists that no overlap has
shortened (`ReachInv`). `ImplementsIngestion` carries all of it over to `HybridSearch`,
of which it proves (assumption: `RetrievalAssumption`, finitely many documents and
positive limits) `ReadyFound`, `BothFirst` and type correctness:

- What is owed is in the store, in the index and in every list a rebuild has in hand
  (`Everywhere`), which no rebuild can undo, overlapping or not; so the keyword leg scores
  it. No more chunks are scored than documents match, because a document is stored once
  (`UniqueInv`), hence no chunk is dropped by `CandidateK`. From then on it has been found
  or is still to be looked up (`FoundInv`).
- Sorting is by comparison of fractions: `Precedes` excludes being outranked
  (`PrecedesIsNotLower`), so what is cut at `TopK` is outranked by all that stays
  (`CutAtTopK`). That two ranks of at most `RrfK` sum to more than any one share is
  `TwoSharesBeatOne`; that no ranking is longer is `BoundInv`, which counts the hits
  still to come. That a sorted sequence exists is not proved (it is an induction); TLC
  would find the search stuck without one.

`EvaluationProofs` (assumption: `EvaluationAssumption`: positive limits, finitely many
metrics and at least one) proves `ReportsAddUp`, `NothingScoredTwice`, `ExitStatus` and type
correctness for any number of commands, traces and metrics. A report is complete only at
the end, so its invariant is about every place in the loop: which scores a command has
made, in terms of the traces behind it and the metrics behind it on the one under way
(`TraceInv`); that the counters of the report are the cardinalities of exactly those sets
(`TallyInv`); and that without commands side by side only one runs, a trace still to be
evaluated has no score but this command's, and what is queued has not arrived
(`ScoreInv`).

Every safety property that a passing run checks, and every action property and refinement,
is thus also a theorem. Only model-checked are the five liveness properties, `Answered`,
`Terminates`, `CallsEnd`, `IngestionEnds` and `TurnsEnd`: they need fairness and `ENABLED`,
which are beyond the prover. The strengthened invariants were checked by TLC on the runs'
instances before they were proved.

## 13. Not modelled

Listed per component in `PROJECT.json`. In short: prompt texts, parsing of PDFs and
embeddings (external), trimming of prompts and formats of messages (data), logging,
metrics, rate limiting, configuration, the chat page (which keeps no state the server
does not), the evaluation scripts that score a fixed set of cases one after the other
(`evals/{research,retrieval,workflow}.py`), dashboards and deployment.
