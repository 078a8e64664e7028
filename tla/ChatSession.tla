----------------------------- MODULE ChatSession -----------------------------
(***************************************************************************)
(* The conversation of one chat session, kept by the LangGraph             *)
(* checkpointer, and the turns running on it.  A turn is one request to    *)
(* /chat or /chat/stream (app/api/v1/chatbot.py); it runs the graph        *)
(* retrieve -> grade -> (generate | rewrite -> retrieve) on state of its   *)
(* own (app/core/langgraph).  Nothing keeps two turns of a session apart,  *)
(* and several workers serve the API, so any two statements of different   *)
(* requests interleave.                                                    *)
(*                                                                         *)
(* The checkpointer is external: a run starts from the thread's latest     *)
(* checkpoint, and after its input and after every node a checkpoint with  *)
(* the run's view becomes the latest.  A checkpoint holds the channels     *)
(* written in its step; the others are found where an earlier step of the  *)
(* run left them, unless the tables were cleared since.                    *)
(***************************************************************************)
EXTENDS Integers, Sequences

CONSTANTS
    Turns,          \* requests that may be sent
    MaxRewrites,    \* RAG_MAX_REWRITES
    MaxClears       \* bound on the times the history is cleared

ASSUME ChatAssumption == MaxRewrites \in Nat /\ MaxClears \in Nat

VARIABLES
    history, sources,       \* channels of the thread's latest checkpoint
    pc, outcome,            \* of each turn: its step, how it ended
    \* ... and its locals: is it /chat/stream, the GraphState of its run
    streaming,
    messages, rewrites, retrieved, sufficient, cited,
    erased,                 \* ... was the thread cleared since it stored its messages?
    emitted,                \* ... has its stream carried a token?
    shown, shownSources,    \* ... the answer and the sources for the client
    clears,
    \* history: turns that ran beside another, and turns running, or over,
    \* at some clear
    raced, swept, cleared

thread == <<history, sources>>
graphState == <<messages, rewrites, retrieved, sufficient, cited>>
response == <<emitted, shown, shownSources>>
ghosts == <<raced, swept, cleared>>
vars == <<thread, pc, outcome, streaming, graphState, erased, response, clears, ghosts>>

Message == [turn : Turns, by : {"user", "model", "refusal"}]
Chunks == Turns \X (0 .. MaxRewrites)   \* what an attempt of a turn retrieved
InGraph == {"input", "retrieve", "grade", "rewrite", "generate"}
Running == InGraph \cup {"respond", "sources", "reply"}

TypeOK ==
    /\ history \in Seq(Message) /\ sources \subseteq Chunks
    /\ pc \in [Turns -> {"none", "load", "done"} \cup Running]
    /\ streaming \in [Turns -> BOOLEAN]
    /\ messages \in [Turns -> Seq(Message)]
    /\ rewrites \in [Turns -> 0 .. MaxRewrites]
    /\ retrieved \in [Turns -> SUBSET Chunks] /\ cited \in [Turns -> SUBSET Chunks]
    /\ sufficient \in [Turns -> BOOLEAN]
    /\ erased \in [Turns -> BOOLEAN] /\ emitted \in [Turns -> BOOLEAN]
    /\ outcome \in [Turns -> {"none", "answer", "error", "lost"}]
    /\ shown \in [Turns -> SUBSET Message]
    /\ shownSources \in [Turns -> SUBSET Chunks]
    /\ clears \in 0 .. MaxClears
    /\ raced \subseteq Turns /\ swept \subseteq Turns /\ cleared \subseteq Turns

Init ==
    /\ history = <<>> /\ sources = {}
    /\ pc = [t \in Turns |-> "none"]
    /\ streaming = [t \in Turns |-> FALSE]
    /\ messages = [t \in Turns |-> <<>>] /\ rewrites = [t \in Turns |-> 0]
    /\ retrieved = [t \in Turns |-> {}] /\ cited = [t \in Turns |-> {}]
    /\ sufficient = [t \in Turns |-> FALSE]
    /\ erased = [t \in Turns |-> FALSE] /\ emitted = [t \in Turns |-> FALSE]
    /\ outcome = [t \in Turns |-> "none"]
    /\ shown = [t \in Turns |-> {}] /\ shownSources = [t \in Turns |-> {}]
    /\ clears = 0
    /\ raced = {} /\ swept = {} /\ cleared = {}

Said(t, by) == [turn |-> t, by |-> by]
LastOf(seq) == {seq[n] : n \in {Len(seq)} \ {0}}
GoTo(t, step) == pc' = [pc EXCEPT ![t] = step]

\* The request is over, and its locals with it.
End(t, how) ==
    /\ pc' = [pc EXCEPT ![t] = "done"]
    /\ outcome' = [outcome EXCEPT ![t] = how]
    /\ streaming' = [streaming EXCEPT ![t] = FALSE]
    /\ messages' = [messages EXCEPT ![t] = <<>>]
    /\ rewrites' = [rewrites EXCEPT ![t] = 0]
    /\ retrieved' = [retrieved EXCEPT ![t] = {}]
    /\ sufficient' = [sufficient EXCEPT ![t] = FALSE]
    /\ cited' = [cited EXCEPT ![t] = {}]
    /\ erased' = [erased EXCEPT ![t] = FALSE]
    /\ emitted' = [emitted EXCEPT ![t] = FALSE]
    /\ shown' = [shown EXCEPT ![t] = {}]
    /\ shownSources' = [shownSources EXCEPT ![t] = {}]

-----------------------------------------------------------------------------
(***************************************************************************)
(* A run of the graph.                                                     *)
(***************************************************************************)

\* Authenticated, and the session named (SessionNaming).
Receive(t) ==
    /\ pc[t] = "none"
    /\ GoTo(t, "load")
    /\ streaming' \in {[streaming EXCEPT ![t] = s] : s \in BOOLEAN}
    /\ UNCHANGED <<thread, outcome, graphState, erased, response, clears, ghosts>>

Beside(t) == {u \in Turns \ {t} : pc[u] \in Running}

\* Mutant: the run does not start from the thread.
LoadNothing(t) ==
    /\ pc[t] = "load"
    /\ messages' = [messages EXCEPT ![t] = <<Said(t, "user")>>]
    /\ GoTo(t, "input")
    /\ raced' = IF Beside(t) = {} THEN raced ELSE raced \cup Beside(t) \cup {t}
    /\ UNCHANGED <<thread, outcome, streaming, rewrites, retrieved, sufficient, cited,
                   erased, response, clears, swept, cleared>>

\* The latest checkpoint, with the question appended; the input resets the
\* other channels.
Load(t) ==
    /\ pc[t] = "load"
    /\ messages' = [messages EXCEPT ![t] = Append(history, Said(t, "user"))]
    /\ GoTo(t, "input")
    /\ raced' = IF Beside(t) = {} THEN raced ELSE raced \cup Beside(t) \cup {t}
    /\ UNCHANGED <<thread, outcome, streaming, rewrites, retrieved, sufficient, cited,
                   erased, response, clears, swept, cleared>>

\* The run's view becomes the latest checkpoint.
Store(t, writesMessages) ==
    /\ IF erased[t] /\ ~writesMessages
       THEN history' = <<>> /\ sources' = {}
       ELSE history' = messages'[t] /\ sources' = cited'[t]
    /\ erased' = [erased EXCEPT ![t] = erased[t] /\ ~writesMessages]

StoreInput(t) ==
    /\ pc[t] = "input"
    /\ GoTo(t, "retrieve")
    /\ UNCHANGED <<outcome, streaming, graphState, response, clears, ghosts>>
    /\ Store(t, TRUE)

\* Any query may find something or nothing.
Retrieve(t) ==
    /\ pc[t] = "retrieve"
    /\ \E found \in {{}, {<<t, rewrites[t]>>}} : retrieved' = [retrieved EXCEPT ![t] = found]
    /\ GoTo(t, "grade")
    /\ UNCHANGED <<outcome, streaming, messages, rewrites, sufficient, cited, response,
                   clears, ghosts>>
    /\ Store(t, FALSE)

RewritesSpent(t) == rewrites[t] >= MaxRewrites

Grade(t) ==
    /\ pc[t] = "grade"
    /\ \E enough \in BOOLEAN :
         /\ sufficient' = [sufficient EXCEPT ![t] = enough]
         /\ GoTo(t, IF enough \/ RewritesSpent(t) THEN "generate" ELSE "rewrite")
    /\ UNCHANGED <<outcome, streaming, messages, rewrites, retrieved, cited, response,
                   clears, ghosts>>
    /\ Store(t, FALSE)

\* Mutant: the attempts are not counted.
RewriteUncounted(t) ==
    /\ pc[t] = "rewrite"
    /\ GoTo(t, "retrieve")
    /\ UNCHANGED <<outcome, streaming, graphState, response, clears, ghosts>>
    /\ Store(t, FALSE)

Rewrite(t) ==
    /\ pc[t] = "rewrite"
    /\ rewrites' = [rewrites EXCEPT ![t] = @ + 1]
    /\ GoTo(t, "retrieve")
    /\ UNCHANGED <<outcome, streaming, messages, retrieved, sufficient, cited, response,
                   clears, ghosts>>
    /\ Store(t, FALSE)

\* Mutant: the grade alone decides.
AnswerableAsGraded(t) == sufficient[t]

Answerable(t) == sufficient[t] /\ retrieved[t] # {}

\* The model's answer citing what was retrieved, or the fixed refusal; either
\* may have reached the stream as tokens or not.
Generate(t) ==
    /\ pc[t] = "generate"
    /\ messages' = [messages EXCEPT ![t] =
                      Append(@, Said(t, IF Answerable(t) THEN "model" ELSE "refusal"))]
    /\ cited' = [cited EXCEPT ![t] = IF Answerable(t) THEN retrieved[t] ELSE {}]
    /\ emitted' \in {[emitted EXCEPT ![t] = e] : e \in BOOLEAN}
    /\ GoTo(t, "respond")
    /\ UNCHANGED <<outcome, streaming, rewrites, retrieved, sufficient, shown,
                   shownSources, clears, ghosts>>
    /\ Store(t, TRUE)

-----------------------------------------------------------------------------
(***************************************************************************)
(* The answer.                                                             *)
(***************************************************************************)

\* /chat answers from the state the run returned.
Respond(t) ==
    /\ pc[t] = "respond" /\ ~streaming[t]
    /\ shown' = [shown EXCEPT ![t] = LastOf(messages[t])]
    /\ shownSources' = [shownSources EXCEPT ![t] = cited[t]]
    /\ GoTo(t, "reply")
    /\ UNCHANGED <<thread, outcome, streaming, graphState, erased, emitted,
                   clears, ghosts>>

\* get_stream_response reads the thread again when the run is over, for an
\* answer that was not streamed.
ReadState(t) ==
    /\ pc[t] = "respond" /\ streaming[t]
    /\ shown' = [shown EXCEPT ![t] =
                   IF emitted[t] THEN LastOf(messages[t]) ELSE LastOf(history)]
    /\ GoTo(t, "sources")
    /\ UNCHANGED <<thread, outcome, streaming, graphState, erased, emitted,
                   shownSources, clears, ghosts>>

\* get_last_sources reads it once more, for the final event.
LastSources(t) ==
    /\ pc[t] = "sources"
    /\ shownSources' = [shownSources EXCEPT ![t] = sources]
    /\ GoTo(t, "reply")
    /\ UNCHANGED <<thread, outcome, streaming, graphState, erased, emitted, shown,
                   clears, ghosts>>

Reply(t) ==
    /\ pc[t] = "reply"
    /\ End(t, "answer")
    /\ UNCHANGED <<thread, clears, ghosts>>

\* A node or the checkpointer raises: 500, or an error event.  So does /chat
\* after its run, over any message of the thread that Message does not admit.
TurnFails(t) ==
    /\ pc[t] \in {"load", "respond", "sources"} \cup InGraph
    /\ End(t, "error")
    /\ UNCHANGED <<thread, clears, ghosts>>

\* A stream whose client goes away is cancelled.
Disconnect(t) ==
    /\ streaming[t] /\ pc[t] \in {"load"} \cup Running
    /\ End(t, "lost")
    /\ UNCHANGED <<thread, clears, ghosts>>

-----------------------------------------------------------------------------
(***************************************************************************)
(* The other requests of the session.                                      *)
(***************************************************************************)

\* Mutant: the table that holds the messages is not among those cleared.
ClearSourcesOnly ==
    /\ clears < MaxClears
    /\ sources' = {}
    /\ erased' = [t \in Turns |-> erased[t] \/ pc[t] \in Running]
    /\ clears' = clears + 1
    /\ swept' = swept \cup {t \in Turns : pc[t] \in Running}
    /\ cleared' = cleared \cup {t \in Turns : pc[t] = "done"}
    /\ UNCHANGED <<history, pc, outcome, streaming, graphState, response,
                   raced>>

\* One pipeline deletes the thread's rows of all checkpoint tables.
ClearChatHistory ==
    /\ clears < MaxClears
    /\ history' = <<>> /\ sources' = {}
    /\ erased' = [t \in Turns |-> erased[t] \/ pc[t] \in Running]
    /\ clears' = clears + 1
    /\ swept' = swept \cup {t \in Turns : pc[t] \in Running}
    /\ cleared' = cleared \cup {t \in Turns : pc[t] = "done"}
    /\ UNCHANGED <<pc, outcome, streaming, graphState, response, raced>>

\* The process dies with its requests.
Crash ==
    LET over == {t \in Turns : pc[t] # "none"}
        live == over \ {t \in Turns : pc[t] = "done"}
    IN
    /\ pc' = [t \in Turns |-> IF t \in over THEN "done" ELSE "none"]
    /\ outcome' = [t \in Turns |-> IF t \in live THEN "lost" ELSE outcome[t]]
    /\ streaming' = [t \in Turns |-> FALSE]
    /\ messages' = [t \in Turns |-> <<>>] /\ rewrites' = [t \in Turns |-> 0]
    /\ retrieved' = [t \in Turns |-> {}] /\ cited' = [t \in Turns |-> {}]
    /\ sufficient' = [t \in Turns |-> FALSE]
    /\ erased' = [t \in Turns |-> FALSE] /\ emitted' = [t \in Turns |-> FALSE]
    /\ shown' = [t \in Turns |-> {}] /\ shownSources' = [t \in Turns |-> {}]
    /\ UNCHANGED <<thread, clears, ghosts>>

\* One step of a turn that has been received.
Proceed(t) ==
    \/ Load(t) \/ StoreInput(t)
    \/ Retrieve(t) \/ Grade(t) \/ Rewrite(t) \/ Generate(t)
    \/ Respond(t) \/ ReadState(t) \/ LastSources(t) \/ Reply(t)
    \/ TurnFails(t)

Next ==
    \/ \E t \in Turns :
         \/ Receive(t) \/ Proceed(t) \/ Disconnect(t)
    \/ ClearChatHistory
    \/ Crash

\* Every model call ends within LLM_TOTAL_TIMEOUT, every statement returns or
\* raises, and the event loop runs what is ready.
Spec == Init /\ [][Next]_vars /\ \A t \in Turns : WF_vars(Proceed(t))

-----------------------------------------------------------------------------
(***************************************************************************)
(* Properties.                                                             *)
(***************************************************************************)

\* A turn that was answered stays in the conversation - its question and then
\* its answer - unless it ran beside another turn or was cleared
\* (docs/architecture.md:100: the checkpointer keeps "multi-turn memory").
AnsweredIsKept ==
    \A t \in Turns \ (raced \cup swept \cup cleared) : outcome[t] = "answer" =>
        \E n \in 1 .. Len(history) - 1 :
            /\ history[n] = Said(t, "user")
            /\ history[n + 1] \in {Said(t, "model"), Said(t, "refusal")}

\* What was cleared stays cleared, unless a turn was running at that moment
\* (graph.py:357 "Clear all chat history for a given thread ID").
ClearedStaysCleared ==
    swept = {} => \A n \in DOMAIN history : history[n].turn \notin cleared

\* An undisturbed turn shows its own answer with its own sources, also when
\* both are read back from the thread; an answer of the model rests on chunks
\* its run retrieved last, and a refusal cites none (generate.py:18-27,
\* chatbot.py:133-136).
AnswersAreGrounded ==
    \A t \in Turns : pc[t] = "reply" =>
        /\ ~streaming[t] \/ t \notin raced \cup swept =>
             /\ shown[t] # {} /\ \A m \in shown[t] : m.turn = t
             /\ shownSources[t] = cited[t]
        /\ Said(t, "model") \in shown[t] => cited[t] = {<<t, rewrites[t]>>}
        /\ Said(t, "refusal") \in shown[t] => cited[t] = {}

\* Every turn ends, however often the grader is dissatisfied.
TurnsEnd == \A t \in Turns : (pc[t] = "load") ~> (pc[t] = "done")

=============================================================================
