----------------------------- MODULE LLMService -----------------------------
(***************************************************************************)
(* app/services/llm/service.py: concurrent calls of one LLMService.  A     *)
(* call that overrides nothing runs on the shared default model and moves  *)
(* it on when it fails; a call with an override walks the registry on an   *)
(* index of its own.  Coroutines interleave at every await, which is at    *)
(* every attempt; what lies between two attempts is one step.              *)
(*                                                                         *)
(* No caller binds tools, so switching the default model never fails.      *)
(***************************************************************************)
EXTENDS Integers, FiniteSets

CONSTANTS
    Calls,          \* how many calls may be in flight
    Total,          \* entries of the registry
    Name, Names,    \* the name of an entry; the names callers ask for
    NoName,         \* the caller names no model
    Retries         \* MAX_LLM_CALL_RETRIES

Entries == 0 .. Total - 1

ASSUME RegistryAssumption ==
    /\ Total \in Nat \ {0}
    /\ Name \in [Entries -> Names]
    /\ NoName \notin Names
    /\ Retries \in Nat \ {0}

VARIABLES
    index,          \* _current_model_index
    llm,            \* the entry _llm was taken from
    \* of each call, the locals of _fallback_loop
    pc, override, current, target, modelsTried, attempts, lastError, outcome,
    \* history: the entries a call has invoked, and whether another call
    \* moved the default model while it was running
    tried, disturbed

service == <<index, llm>>
loop == <<override, current, target, modelsTried, attempts, lastError>>
history == <<tried, disturbed>>
vars == <<service, pc, loop, outcome, history>>

Errors == {"none", "retryable", "openai"}
Outcomes == {"none", "response", "unknown model", "exhausted", "raised", "timeout"}

TypeOK ==
    /\ index \in Entries /\ llm \in Entries
    /\ pc \in [Calls -> {"idle", "invoking", "done"}]
    /\ override \in [Calls -> BOOLEAN]
    /\ current \in [Calls -> Entries]
    /\ target \in [Calls -> Entries]
    /\ modelsTried \in [Calls -> 0 .. Total]
    /\ attempts \in [Calls -> 0 .. Retries]
    /\ lastError \in [Calls -> Errors]
    /\ outcome \in [Calls -> Outcomes]
    /\ tried \in [Calls -> SUBSET Entries]
    /\ disturbed \in [Calls -> BOOLEAN]

\* The default model is the first entry of the registry.
Init ==
    /\ index = 0 /\ llm = 0
    /\ pc = [c \in Calls |-> "idle"]
    /\ override = [c \in Calls |-> FALSE]
    /\ current = [c \in Calls |-> 0] /\ target = [c \in Calls |-> 0]
    /\ modelsTried = [c \in Calls |-> 0] /\ attempts = [c \in Calls |-> 0]
    /\ lastError = [c \in Calls |-> "none"]
    /\ outcome = [c \in Calls |-> "none"]
    /\ tried = [c \in Calls |-> {}]
    /\ disturbed = [c \in Calls |-> FALSE]

-----------------------------------------------------------------------------
\* all_names.index(name) = i.
FirstNamed(i, name) == Name[i] = name /\ \A j \in 0 .. i - 1 : Name[j] # name

Following(i) == (i + 1) % Total

\* The locals of the loop end with the call.
Finish(c, with) ==
    /\ pc' = [pc EXCEPT ![c] = "done"]
    /\ outcome' = [outcome EXCEPT ![c] = with]
    /\ current' = [current EXCEPT ![c] = 0]
    /\ target' = [target EXCEPT ![c] = 0]
    /\ modelsTried' = [modelsTried EXCEPT ![c] = 0]
    /\ attempts' = [attempts EXCEPT ![c] = 0]
    /\ lastError' = [lastError EXCEPT ![c] = "none"]
    /\ UNCHANGED <<service, override, history>>

\* The first attempt on the runnable get_target returns.
Invoke(c, position, entry, rank) ==
    /\ current' = [current EXCEPT ![c] = position]
    /\ target' = [target EXCEPT ![c] = entry]
    /\ modelsTried' = [modelsTried EXCEPT ![c] = rank]
    /\ attempts' = [attempts EXCEPT ![c] = 1]

Begin(c, overrides, start, entry) ==
    /\ pc[c] # "invoking"
    /\ pc' = [pc EXCEPT ![c] = "invoking"]
    /\ override' = [override EXCEPT ![c] = overrides]
    /\ Invoke(c, start, entry, 1)
    /\ lastError' = [lastError EXCEPT ![c] = "none"]
    /\ outcome' = [outcome EXCEPT ![c] = "none"]
    /\ tried' = [tried EXCEPT ![c] = {entry}]
    /\ disturbed' = [disturbed EXCEPT ![c] = FALSE]
    /\ UNCHANGED service

DefaultCall(c) == Begin(c, FALSE, index, llm)

\* A model by name, or a response format or keyword arguments alone.
OverrideCall(c, name) ==
    \/ /\ name = NoName
       /\ Begin(c, TRUE, index, index)
    \/ \E i \in Entries : FirstNamed(i, name) /\ Begin(c, TRUE, i, i)

UnknownModel(c, name) ==
    /\ pc[c] # "invoking"
    /\ name # NoName /\ \A i \in Entries : Name[i] # name
    /\ Finish(c, "unknown model")

-----------------------------------------------------------------------------
\* Mutant: the index moves on and the model stays.
SwitchIndexOnly ==
    /\ index' = Following(index)
    /\ UNCHANGED llm

\* _switch_to_next_model.
Switch ==
    /\ index' = Following(index)
    /\ llm' = index'

Running(c) == pc[c] = "invoking" /\ ~override[c]

\* Mutant: a call with an override moves the shared default, too.
NextModelShared(c) ==
    /\ Switch
    /\ Invoke(c, index', llm', modelsTried[c] + 1)
    /\ tried' = [tried EXCEPT ![c] = @ \cup {target'[c]}]
    /\ disturbed' = [d \in Calls |-> disturbed[d] \/ (d # c /\ Running(d))]
    /\ UNCHANGED <<pc, override, outcome>>

\* Mutant: a model tried is not counted.
NextModelUncounted(c) ==
    /\ IF override[c]
       THEN /\ Invoke(c, Following(current[c]), Following(current[c]), modelsTried[c])
            /\ UNCHANGED <<service, disturbed>>
       ELSE /\ Switch
            /\ Invoke(c, index', llm', modelsTried[c])
            /\ disturbed' = [d \in Calls |-> disturbed[d] \/ (d # c /\ Running(d))]
    /\ tried' = [tried EXCEPT ![c] = @ \cup {target'[c]}]
    /\ UNCHANGED <<pc, override, outcome>>

\* advance, then get_target for the next turn of the loop.
NextModel(c) ==
    /\ IF override[c]
       THEN /\ Invoke(c, Following(current[c]), Following(current[c]), modelsTried[c] + 1)
            /\ UNCHANGED <<service, disturbed>>
       ELSE /\ Switch
            /\ Invoke(c, index', llm', modelsTried[c] + 1)
            /\ disturbed' = [d \in Calls |-> disturbed[d] \/ (d # c /\ Running(d))]
    /\ tried' = [tried EXCEPT ![c] = @ \cup {target'[c]}]
    /\ UNCHANGED <<pc, override, outcome>>

\* Mutant: the last model is not asked.
GiveUpEarly(c, error) ==
    \/ /\ modelsTried[c] + 1 >= Total
       /\ Finish(c, "exhausted")
    \/ /\ modelsTried[c] + 1 < Total
       /\ lastError' = [lastError EXCEPT ![c] = error]
       /\ NextModel(c)

\* The except branch of the loop: an OpenAIError left _invoke_with_retry.
FallBack(c, error) ==
    \/ /\ modelsTried[c] >= Total
       /\ Finish(c, "exhausted")
    \/ /\ modelsTried[c] < Total
       /\ lastError' = [lastError EXCEPT ![c] = error]
       /\ NextModel(c)

Respond(c) ==
    /\ pc[c] = "invoking"
    /\ Finish(c, "response")

\* Rate limit, timeout or API error of one attempt: back off, then repeat.
Retry(c) ==
    /\ pc[c] = "invoking"
    /\ attempts[c] < Retries
    /\ attempts' = [attempts EXCEPT ![c] = @ + 1]
    /\ UNCHANGED <<service, pc, override, current, target, modelsTried, lastError,
                   outcome, history>>

LastRetryFails(c) ==
    /\ pc[c] = "invoking"
    /\ attempts[c] = Retries
    /\ FallBack(c, "retryable")

\* An OpenAIError that is no APIError leaves _invoke_with_retry at once.
OpenAIErrorRaised(c) ==
    /\ pc[c] = "invoking"
    /\ FallBack(c, "openai")

\* Anything else, such as an answer that does not fit the response format.
OtherErrorRaised(c) ==
    /\ pc[c] = "invoking"
    /\ Finish(c, "raised")

\* wait_for cancels the call; the default model stays where it is.
TotalTimeout(c) ==
    /\ pc[c] = "invoking"
    /\ Finish(c, "timeout")

Advance(c) ==
    \/ Respond(c)
    \/ Retry(c)
    \/ LastRetryFails(c)
    \/ OpenAIErrorRaised(c)
    \/ OtherErrorRaised(c)
    \/ TotalTimeout(c)

Next ==
    \E c \in Calls :
        \/ DefaultCall(c)
        \/ \E name \in Names \cup {NoName} : OverrideCall(c, name)
        \/ \E name \in Names : UnknownModel(c, name)
        \/ Advance(c)

\* An attempt returns or fails: the client has a timeout of its own.
Spec == Init /\ [][Next]_vars /\ \A c \in Calls : WF_vars(Advance(c))

-----------------------------------------------------------------------------
(***************************************************************************)
(* Properties.                                                             *)
(***************************************************************************)

\* However calls interleave, the model an attempt runs on is the one the
\* loop believes it runs on and reports (service.py:331-340).
InvokedIsNamed ==
    /\ llm = index
    /\ \A c \in Calls : pc[c] = "invoking" => target[c] = current[c]

\* A call asks no model twice before it has asked them all, so one that gives
\* up has asked every model; calls of the default path only as long as no
\* other call moves the default (service.py:331-355).
OneFullCycle ==
    \A c \in Calls :
        override[c] \/ ~disturbed[c] =>
            /\ pc[c] = "invoking" => Cardinality(tried[c]) = modelsTried[c]
            /\ outcome[c] = "exhausted" => tried[c] = Entries

\* "concurrent default-path calls are never affected" by a call with an
\* override (service.py:50-52): the default model moves on only by the
\* failure of a call that runs on it, one entry at a time.
DefaultMovesByDefault ==
    [][service' # service =>
           \E c \in Calls : /\ Running(c) /\ modelsTried'[c] = modelsTried[c] + 1
                            /\ index' = Following(index)]_vars

\* Every call ends, even without the total timeout, when attempts do.
CallsEnd == \A c \in Calls : pc[c] = "invoking" ~> pc[c] = "done"

\* "Raises: RuntimeError: When all models have been exhausted."
\* (service.py:327-328)
ExhaustedMeansAll ==
    \A c \in Calls : outcome[c] = "exhausted" => tried[c] = Entries

=============================================================================
