-------------------------- MODULE LLMServiceProofs --------------------------
(***************************************************************************)
(* Proofs about LLMService for any number of calls, models and retries.    *)
(***************************************************************************)
EXTENDS LLMService, FiniteSetTheorems, TLAPS

\* The n entries up to cur, around the end of the registry.
Window(cur, n) ==
    {e \in Entries : (cur - n < e /\ e <= cur) \/ e > cur - n + Total}

Undisturbed(c) == override[c] \/ ~disturbed[c]

\* What the loop of a call has done so far.
LoopInv(c) ==
    /\ pc[c] = "invoking" =>
         /\ modelsTried[c] \in 1 .. Total
         /\ target[c] = current[c]
         /\ outcome[c] = "none"
         /\ Undisturbed(c) => tried[c] = Window(current[c], modelsTried[c])
         /\ ~override[c] /\ ~disturbed[c] => current[c] = index
    /\ Undisturbed(c) /\ outcome[c] = "exhausted" => tried[c] = Entries

IInv ==
    /\ TypeOK
    /\ llm = index
    /\ \A c \in Calls : LoopInv(c)

LEMMA FollowingEntry ==
    ASSUME NEW i \in Entries
    PROVE  /\ Following(i) \in Entries
           /\ Following(i) = IF i + 1 = Total THEN 0 ELSE i + 1
BY RegistryAssumption DEF Entries, Following

LEMMA WindowOfOne ==
    ASSUME NEW i \in Entries
    PROVE  Window(i, 1) = {i}
BY RegistryAssumption DEF Entries, Window

LEMMA WindowGrows ==
    ASSUME NEW i \in Entries, NEW n \in 1 .. Total, n < Total
    PROVE  Window(Following(i), n + 1) = Window(i, n) \cup {Following(i)}
<1>1. /\ Total \in Nat \ {0} /\ i \in Nat /\ i < Total /\ n \in Nat
      /\ Following(i) = IF i + 1 = Total THEN 0 ELSE i + 1
  BY RegistryAssumption, FollowingEntry DEF Entries
<1>2. CASE i + 1 = Total
  BY <1>1, <1>2 DEF Window, Entries
<1>3. CASE i + 1 # Total
  BY <1>1, <1>3 DEF Window, Entries
<1>. QED
  BY <1>2, <1>3

LEMMA WholeWindow ==
    ASSUME NEW i \in Entries
    PROVE  Window(i, Total) = Entries
BY RegistryAssumption DEF Entries, Window

LEMMA WindowSize ==
    ASSUME NEW i \in Entries, NEW n \in 1 .. Total
    PROVE  Cardinality(Window(i, n)) = n
<1>1. Total \in Nat \ {0} /\ i \in Int /\ 0 <= i /\ i < Total /\ n \in Int /\ 1 <= n /\ n <= Total
  BY RegistryAssumption DEF Entries
<1>2. CASE n <= i + 1
  <2>1. Window(i, n) = i - n + 1 .. i
    BY <1>1, <1>2 DEF Window, Entries
  <2>. QED
    BY <1>1, <1>2, <2>1, FS_Interval
<1>3. CASE n > i + 1
  <2> DEFINE low == 0 .. i
             high == i - n + 1 + Total .. Total - 1
  <2>1. Window(i, n) = low \cup high /\ low \cap high = {}
    BY <1>1, <1>3 DEF Window, Entries
  <2>2. IsFiniteSet(low) /\ Cardinality(low) = i + 1
    BY <1>1, FS_Interval
  <2>3. IsFiniteSet(high) /\ Cardinality(high) = n - i - 1
    BY <1>1, <1>3, FS_Interval
  <2>4. Cardinality(low \cup high) = Cardinality(low) + Cardinality(high) - Cardinality(low \cap high)
    BY <2>2, <2>3, FS_Union
  <2>5. Cardinality(low \cap high) = 0
    BY <2>1, FS_EmptySet
  <2>. QED
    BY <1>1, <2>1, <2>2, <2>3, <2>4, <2>5
<1>. QED
  BY <1>1, <1>2, <1>3

-----------------------------------------------------------------------------
(***************************************************************************)
(* The steps.                                                              *)
(***************************************************************************)

LEMMA FinishInv ==
    ASSUME IInv, NEW c \in Calls, NEW with \in Outcomes \ {"none"}, Finish(c, with),
           with = "exhausted" /\ Undisturbed(c) => tried[c] = Entries
    PROVE  IInv'
<1>1. TypeOK' /\ llm' = index'
  BY RegistryAssumption DEF IInv, TypeOK, Finish, service, history, Entries, Errors
<1>2. ASSUME NEW d \in Calls PROVE LoopInv(d)'
  <2>1. UNCHANGED <<index, override, tried, disturbed>>
    BY DEF Finish, service, history
  <2>2. CASE d = c
    BY <2>1, <2>2 DEF IInv, TypeOK, LoopInv, Undisturbed, Finish
  <2>3. CASE d # c
    <3>1. /\ pc'[d] = pc[d] /\ modelsTried'[d] = modelsTried[d] /\ target'[d] = target[d]
          /\ current'[d] = current[d] /\ outcome'[d] = outcome[d]
      BY <2>3 DEF IInv, TypeOK, Finish
    <3>. QED
      BY <2>1, <3>1 DEF IInv, LoopInv, Undisturbed
  <2>. QED
    BY <2>2, <2>3
<1>. QED
  BY <1>1, <1>2 DEF IInv

LEMMA BeginInv ==
    ASSUME IInv, NEW c \in Calls, NEW overrides \in BOOLEAN, NEW start \in Entries,
           ~overrides => start = index, Begin(c, overrides, start, start)
    PROVE  IInv'
<1>1. TypeOK' /\ llm' = index'
  <2>1. index' = index /\ llm' = llm
    BY DEF Begin, service
  <2>2. 1 \in 0 .. Total /\ 1 \in 0 .. Retries
    BY RegistryAssumption
  <2>3. /\ current' \in [Calls -> Entries] /\ target' \in [Calls -> Entries]
        /\ modelsTried' \in [Calls -> 0 .. Total] /\ attempts' \in [Calls -> 0 .. Retries]
    BY <2>2 DEF IInv, TypeOK, Begin, Invoke
  <2>4. /\ pc' \in [Calls -> {"idle", "invoking", "done"}]
        /\ lastError' \in [Calls -> Errors] /\ outcome' \in [Calls -> Outcomes]
    BY DEF IInv, TypeOK, Begin, Errors, Outcomes
  <2>5. override' \in [Calls -> BOOLEAN] /\ disturbed' \in [Calls -> BOOLEAN]
    BY DEF IInv, TypeOK, Begin
  <2>6. tried' \in [Calls -> SUBSET Entries]
    BY DEF IInv, TypeOK, Begin
  <2>. QED
    BY <2>1, <2>3, <2>4, <2>5, <2>6 DEF IInv, TypeOK
<1>2. ASSUME NEW d \in Calls PROVE LoopInv(d)'
  <2>1. index' = index
    BY DEF Begin, service
  <2>2. CASE d = c
    <3>1. /\ pc'[d] = "invoking" /\ modelsTried'[d] = 1 /\ target'[d] = start
          /\ current'[d] = start /\ outcome'[d] = "none" /\ tried'[d] = {start}
          /\ override'[d] = overrides /\ disturbed'[d] = FALSE
      BY <2>2 DEF IInv, TypeOK, Begin, Invoke
    <3>2. Window(start, 1) = {start}
      BY WindowOfOne
    <3>. QED
      BY <2>1, <3>1, <3>2, RegistryAssumption DEF LoopInv, Undisturbed, Window
  <2>3. CASE d # c
    <3>1. /\ pc'[d] = pc[d] /\ modelsTried'[d] = modelsTried[d] /\ target'[d] = target[d]
          /\ current'[d] = current[d] /\ outcome'[d] = outcome[d] /\ tried'[d] = tried[d]
          /\ override'[d] = override[d] /\ disturbed'[d] = disturbed[d]
      BY <2>3 DEF IInv, TypeOK, Begin, Invoke
    <3>. QED
      BY <2>1, <3>1 DEF IInv, LoopInv, Undisturbed
  <2>. QED
    BY <2>2, <2>3
<1>. QED
  BY <1>1, <1>2 DEF IInv

LEMMA RetryInv == ASSUME IInv, NEW c \in Calls, Retry(c) PROVE IInv'
<1>1. TypeOK' /\ llm' = index'
  BY RegistryAssumption DEF IInv, TypeOK, Retry, service, history
<1>2. \A d \in Calls : LoopInv(d)'
  BY DEF IInv, LoopInv, Undisturbed, Retry, service, history
<1>. QED
  BY <1>1, <1>2 DEF IInv

\* What NextModel does, on either path.
LEMMA NextModelStep ==
    ASSUME IInv, NEW c \in Calls, pc[c] = "invoking", modelsTried[c] < Total,
           NextModel(c)
    PROVE  /\ index' \in Entries /\ llm' = index'
           /\ override[c] => UNCHANGED <<index, disturbed>>
           /\ ~override[c] => /\ index' = Following(index)
                              /\ disturbed' = [d \in Calls |-> disturbed[d] \/ (d # c /\ Running(d))]
           /\ \E position \in Entries :
                 /\ Invoke(c, position, position, modelsTried[c] + 1)
                 /\ position = IF override[c] THEN Following(current[c]) ELSE index'
                 /\ tried' = [tried EXCEPT ![c] = @ \cup {position}]
<1>1. index \in Entries /\ current[c] \in Entries /\ target \in [Calls -> Entries]
  BY DEF IInv, TypeOK
<1>2. Following(index) \in Entries /\ Following(current[c]) \in Entries
  BY <1>1, FollowingEntry
<1>3. CASE override[c]
  <2>1. /\ Invoke(c, Following(current[c]), Following(current[c]), modelsTried[c] + 1)
        /\ UNCHANGED <<index, llm, disturbed>>
    BY <1>3 DEF NextModel, service
  <2>2. target'[c] = Following(current[c])
    BY <1>1, <2>1 DEF Invoke
  <2>. QED
    BY <1>1, <1>2, <1>3, <2>1, <2>2 DEF NextModel, IInv
<1>4. CASE ~override[c]
  <2>1. /\ index' = Following(index) /\ llm' = index'
        /\ Invoke(c, index', llm', modelsTried[c] + 1)
        /\ disturbed' = [d \in Calls |-> disturbed[d] \/ (d # c /\ Running(d))]
    BY <1>4 DEF NextModel, Switch
  <2>2. target'[c] = index'
    BY <1>1, <2>1 DEF Invoke
  <2>. QED
    BY <1>1, <1>2, <1>4, <2>1, <2>2 DEF NextModel
<1>. QED
  BY <1>3, <1>4

LEMMA NextModelInv ==
    ASSUME IInv, NEW c \in Calls, pc[c] = "invoking", modelsTried[c] < Total,
           NextModel(c), lastError' \in [Calls -> Errors]
    PROVE  IInv'
<1>1. UNCHANGED <<pc, override, outcome>>
  BY DEF NextModel
<1>2. PICK position \in Entries :
           /\ Invoke(c, position, position, modelsTried[c] + 1)
           /\ position = IF override[c] THEN Following(current[c]) ELSE index'
           /\ tried' = [tried EXCEPT ![c] = @ \cup {position}]
  BY NextModelStep
<1>3. /\ index' \in Entries /\ llm' = index'
      /\ override[c] => UNCHANGED <<index, disturbed>>
      /\ ~override[c] => /\ index' = Following(index)
                         /\ disturbed' = [d \in Calls |-> disturbed[d] \/ (d # c /\ Running(d))]
  BY NextModelStep
<1>4. modelsTried[c] \in 1 .. Total /\ modelsTried[c] + 1 \in 1 .. Total
  BY RegistryAssumption DEF IInv, LoopInv
<1>5. TypeOK'
  <2>1. disturbed' \in [Calls -> BOOLEAN]
    BY <1>3 DEF IInv, TypeOK
  <2>2. /\ current' \in [Calls -> Entries] /\ target' \in [Calls -> Entries]
        /\ modelsTried' \in [Calls -> 0 .. Total] /\ attempts' \in [Calls -> 0 .. Retries]
    BY <1>2, <1>4, RegistryAssumption DEF IInv, TypeOK, Invoke
  <2>3. tried' \in [Calls -> SUBSET Entries]
    BY <1>2 DEF IInv, TypeOK
  <2>. QED
    BY <1>1, <1>3, <2>1, <2>2, <2>3 DEF IInv, TypeOK
<1>6. ASSUME NEW d \in Calls PROVE LoopInv(d)'
  <2>1. CASE d = c
    <3>1. /\ current'[c] = position /\ target'[c] = position
          /\ modelsTried'[c] = modelsTried[c] + 1
          /\ tried'[c] = tried[c] \cup {position}
      BY <1>2 DEF IInv, TypeOK, Invoke
    <3>2. disturbed'[c] = disturbed[c]
      BY <1>3 DEF IInv, TypeOK
    <3>3. Undisturbed(c) => position = Following(current[c])
      BY <1>2, <1>3 DEF IInv, LoopInv, Undisturbed
    <3>4. Window(Following(current[c]), modelsTried[c] + 1)
              = Window(current[c], modelsTried[c]) \cup {Following(current[c])}
      BY <1>4, WindowGrows DEF IInv, TypeOK
    <3>5. Undisturbed(c) => tried'[c] = Window(position, modelsTried[c] + 1)
      BY <3>1, <3>3, <3>4 DEF IInv, LoopInv
    <3>6. outcome[c] = "none"
      BY DEF IInv, LoopInv
    <3>. QED
      BY <1>1, <1>2, <1>4, <2>1, <3>1, <3>2, <3>5, <3>6 DEF LoopInv, Undisturbed, Window
  <2>2. CASE d # c
    <3>1. /\ current'[d] = current[d] /\ target'[d] = target[d]
          /\ modelsTried'[d] = modelsTried[d] /\ tried'[d] = tried[d]
      BY <1>2, <2>2 DEF IInv, TypeOK, Invoke
    <3>2. CASE override[c]
      BY <1>1, <1>3, <3>1, <3>2 DEF IInv, LoopInv, Undisturbed
    <3>3. CASE ~override[c]
      <4>1. disturbed'[d] = (disturbed[d] \/ Running(d))
        BY <1>3, <2>2, <3>3
      <4>. QED
        BY <1>1, <3>1, <4>1 DEF IInv, LoopInv, Undisturbed, Running
    <3>. QED
      BY <3>2, <3>3
  <2>. QED
    BY <2>1, <2>2
<1>. QED
  BY <1>3, <1>5, <1>6 DEF IInv

-----------------------------------------------------------------------------
(***************************************************************************)
(* The theorems.                                                           *)
(***************************************************************************)

LEMMA InitInv == Init => IInv
<1> SUFFICES ASSUME Init PROVE IInv
  OBVIOUS
<1>1. 0 \in Entries /\ 0 \in 0 .. Total /\ 0 \in 0 .. Retries
  BY RegistryAssumption DEF Entries
<1>2. TypeOK
  BY <1>1 DEF Init, TypeOK, Errors, Outcomes
<1>. QED
  BY <1>2 DEF Init, IInv, LoopInv

LEMMA FallBackInv ==
    ASSUME IInv, NEW c \in Calls, pc[c] = "invoking", NEW error \in Errors, FallBack(c, error)
    PROVE  IInv'
<1>1. modelsTried[c] \in 1 .. Total /\ current[c] \in Entries
  BY DEF IInv, TypeOK, LoopInv
<1>2. CASE modelsTried[c] >= Total /\ Finish(c, "exhausted")
  <2>1. modelsTried[c] = Total
    BY <1>1, <1>2, RegistryAssumption
  <2>2. Undisturbed(c) => tried[c] = Entries
    BY <1>1, <2>1, WholeWindow DEF IInv, LoopInv
  <2>. QED
    BY <1>2, <2>2, FinishInv DEF Outcomes
<1>3. CASE /\ modelsTried[c] < Total /\ NextModel(c)
           /\ lastError' = [lastError EXCEPT ![c] = error]
  BY <1>3, NextModelInv DEF IInv, TypeOK
<1>. QED
  BY <1>2, <1>3 DEF FallBack

LEMMA OverrideCallInv ==
    ASSUME IInv, NEW c \in Calls, NEW name, OverrideCall(c, name)
    PROVE  IInv'
<1>1. CASE Begin(c, TRUE, index, index)
  BY <1>1, BeginInv DEF IInv, TypeOK
<1>2. ASSUME NEW i \in Entries, Begin(c, TRUE, i, i) PROVE IInv'
  BY <1>2, BeginInv
<1>. QED
  BY <1>1, <1>2 DEF OverrideCall

LEMMA AdvanceInv == ASSUME IInv, NEW c \in Calls, Advance(c) PROVE IInv'
<1>1. CASE Respond(c)
  BY <1>1, FinishInv DEF Respond, Outcomes
<1>2. CASE Retry(c)
  BY <1>2, RetryInv
<1>3. CASE LastRetryFails(c)
  BY <1>3, FallBackInv DEF LastRetryFails, Errors
<1>4. CASE OpenAIErrorRaised(c)
  BY <1>4, FallBackInv DEF OpenAIErrorRaised, Errors
<1>5. CASE OtherErrorRaised(c)
  BY <1>5, FinishInv DEF OtherErrorRaised, Outcomes
<1>6. CASE TotalTimeout(c)
  BY <1>6, FinishInv DEF TotalTimeout, Outcomes
<1>. QED
  BY <1>1, <1>2, <1>3, <1>4, <1>5, <1>6 DEF Advance

LEMMA StepInv == IInv /\ [Next]_vars => IInv'
<1> SUFFICES ASSUME IInv, [Next]_vars PROVE IInv'
  OBVIOUS
<1>1. ASSUME NEW c \in Calls, DefaultCall(c) PROVE IInv'
  BY <1>1, BeginInv DEF DefaultCall, IInv, TypeOK
<1>2. ASSUME NEW c \in Calls, NEW name \in Names \cup {NoName}, OverrideCall(c, name)
      PROVE IInv'
  BY <1>2, OverrideCallInv
<1>3. ASSUME NEW c \in Calls, NEW name \in Names, UnknownModel(c, name) PROVE IInv'
  BY <1>3, FinishInv DEF UnknownModel, Outcomes
<1>4. ASSUME NEW c \in Calls, Advance(c) PROVE IInv'
  BY <1>4, AdvanceInv
<1>5. CASE UNCHANGED vars
  BY <1>5 DEF vars, service, loop, history, IInv, TypeOK, LoopInv, Undisturbed
<1>. QED
  BY <1>1, <1>2, <1>3, <1>4, <1>5 DEF Next

\* The loops of all calls keep their invariant, whatever the registry.
THEOREM FallbackInvariance == Spec => []IInv
BY InitInv, StepInv, PTL DEF Spec

\* Type correctness (service.py:331-359).
THEOREM CallsTypeCorrect == Spec => []TypeOK
<1>1. IInv => TypeOK
  BY DEF IInv
<1>. QED
  BY <1>1, FallbackInvariance, PTL

\* Every attempt runs on the model the loop reports (service.py:331-340).
THEOREM InvokedAsNamed == Spec => []InvokedIsNamed
<1>1. IInv => InvokedIsNamed
  BY DEF IInv, LoopInv, InvokedIsNamed
<1>. QED
  BY <1>1, FallbackInvariance, PTL

\* A call whose default model no other call moved asks every model once
\* before it gives up, in any registry (service.py:331-355).
THEOREM EveryModelOnce == Spec => []OneFullCycle
<1>1. IInv => OneFullCycle
  <2> SUFFICES ASSUME IInv, NEW c \in Calls, Undisturbed(c)
               PROVE  /\ pc[c] = "invoking" => Cardinality(tried[c]) = modelsTried[c]
                      /\ outcome[c] = "exhausted" => tried[c] = Entries
    BY DEF OneFullCycle, Undisturbed
  <2>1. current[c] \in Entries
    BY DEF IInv, TypeOK
  <2>. QED
    BY <2>1, WindowSize DEF IInv, LoopInv
<1>. QED
  BY <1>1, FallbackInvariance, PTL

\* Only the failure of a call of the default path moves the default model
\* (service.py:50-52, 290-291).
THEOREM OverridesMoveNothing == Spec => DefaultMovesByDefault
<1>1. ASSUME IInv, Next
      PROVE  service' # service =>
                 \E c \in Calls : /\ Running(c) /\ modelsTried'[c] = modelsTried[c] + 1
                                  /\ index' = Following(index)
  <2>1. PICK c \in Calls : \/ DefaultCall(c)
                           \/ \E name \in Names \cup {NoName} : OverrideCall(c, name)
                           \/ \E name \in Names : UnknownModel(c, name)
                           \/ Advance(c)
    BY <1>1 DEF Next
  <2>2. CASE DefaultCall(c) \/ \E name \in Names \cup {NoName} : OverrideCall(c, name)
    BY <2>2 DEF DefaultCall, OverrideCall, Begin
  <2>3. CASE \E with : Finish(c, with)
    BY <2>3 DEF Finish
  <2>4. CASE Retry(c)
    BY <2>4 DEF Retry
  <2>5. ASSUME pc[c] = "invoking", NextModel(c), service' # service
        PROVE  Running(c) /\ modelsTried'[c] = modelsTried[c] + 1 /\ index' = Following(index)
    <3>1. ~override[c]
      BY <2>5 DEF NextModel
    <3>2. index' = Following(index) /\ modelsTried' = [modelsTried EXCEPT ![c] = modelsTried[c] + 1]
      BY <2>5, <3>1 DEF NextModel, Switch, Invoke
    <3>. QED
      BY <1>1, <2>5, <3>1, <3>2 DEF Running, IInv, TypeOK
  <2>. QED
    BY <2>1, <2>2, <2>3, <2>4, <2>5
       DEF UnknownModel, Advance, Respond, LastRetryFails, OpenAIErrorRaised,
           OtherErrorRaised, TotalTimeout, FallBack
<1>. QED
  BY <1>1, FallbackInvariance, PTL DEF Spec, DefaultMovesByDefault

=============================================================================
