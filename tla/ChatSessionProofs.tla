-------------------------- MODULE ChatSessionProofs --------------------------
(***************************************************************************)
(* The conversation of a session, for any number of turns, rewrites and    *)
(* clears.  Conversations are reasoned about by four predicates on         *)
(* sequences; after the lemmas of the first section nothing looks inside   *)
(* one.                                                                    *)
(***************************************************************************)
EXTENDS ChatSession, TLAPS

Ends(seq, m) == Len(seq) > 0 /\ seq[Len(seq)] = m
Holds(seq, m) == \E n \in DOMAIN seq : seq[n] = m
FreeOf(seq, turns) == \A n \in DOMAIN seq : seq[n].turn \notin turns
Paired(seq, t) ==
    \E n \in 1 .. Len(seq) - 1 :
        seq[n] = Said(t, "user") /\ seq[n + 1] \in {Said(t, "model"), Said(t, "refusal")}

Answers == {"model", "refusal"}
Answered == {"respond", "sources", "reply"}

LEMMA SaidMessage ==
    ASSUME NEW t \in Turns, NEW by \in {"user", "model", "refusal"}
    PROVE  Said(t, by) \in Message /\ Said(t, by).turn = t /\ Said(t, by).by = by
BY DEF Said, Message

LEMMA SaidDistinct ==
    ASSUME NEW t \in Turns, NEW u \in Turns,
           NEW a \in {"user", "model", "refusal"}, NEW b \in {"user", "model", "refusal"},
           Said(t, a) = Said(u, b)
    PROVE  t = u /\ a = b
BY SaidMessage

LEMMA AppendFacts ==
    ASSUME NEW seq \in Seq(Message), NEW m \in Message
    PROVE  /\ Append(seq, m) \in Seq(Message)
           /\ Ends(Append(seq, m), m)
           /\ \A x : Ends(Append(seq, m), x) => x = m
           /\ \A x : Holds(Append(seq, m), x) => Holds(seq, x) \/ x = m
           /\ \A T : FreeOf(seq, T) /\ m.turn \notin T => FreeOf(Append(seq, m), T)
           /\ \A t \in Turns : Paired(seq, t) => Paired(Append(seq, m), t)
           /\ \A t \in Turns, by \in Answers :
                Ends(seq, Said(t, "user")) /\ m = Said(t, by) => Paired(Append(seq, m), t)
<1> DEFINE app == Append(seq, m)
<1>1. /\ app \in Seq(Message) /\ Len(app) = Len(seq) + 1 /\ app[Len(seq) + 1] = m
      /\ Len(seq) \in Nat /\ DOMAIN seq = 1 .. Len(seq)
      /\ DOMAIN app = 1 .. Len(seq) + 1
      /\ \A n \in 1 .. Len(seq) : app[n] = seq[n]
  OBVIOUS
<1> HIDE DEF app
<1>2. Ends(app, m) /\ \A x : Ends(app, x) => x = m
  BY <1>1 DEF Ends
<1>3. \A x : Holds(app, x) => Holds(seq, x) \/ x = m
  BY <1>1 DEF Holds
<1>4. \A T : FreeOf(seq, T) /\ m.turn \notin T => FreeOf(app, T)
  BY <1>1 DEF FreeOf
<1>5. ASSUME NEW t \in Turns, Paired(seq, t) PROVE Paired(app, t)
  BY <1>1, <1>5 DEF Paired
<1>6. ASSUME NEW t \in Turns, NEW by \in Answers, Ends(seq, Said(t, "user")), m = Said(t, by)
      PROVE  Paired(app, t)
  <2>1. Len(seq) \in 1 .. Len(app) - 1
    BY <1>1, <1>6 DEF Ends
  <2>2. app[Len(seq)] = Said(t, "user") /\ app[Len(seq) + 1] \in {Said(t, "model"), Said(t, "refusal")}
    BY <1>1, <1>6 DEF Ends, Answers
  <2> QED BY <2>1, <2>2 DEF Paired
<1> QED BY <1>1, <1>2, <1>3, <1>4, <1>5, <1>6 DEF app

LEMMA EmptyFacts ==
    /\ <<>> \in Seq(Message)
    /\ \A x : ~Holds(<<>>, x)
    /\ \A T : FreeOf(<<>>, T)
BY DEF Holds, FreeOf

LEMMA LastFacts ==
    ASSUME NEW seq \in Seq(Message)
    PROVE  /\ LastOf(seq) \subseteq Message
           /\ \A x : x \in LastOf(seq) <=> Ends(seq, x)
           /\ \A x : Ends(seq, x) => Holds(seq, x)
<1>1. Len(seq) \in Nat /\ DOMAIN seq = 1 .. Len(seq) /\ \A n \in 1 .. Len(seq) : seq[n] \in Message
  OBVIOUS
<1>2. \A x : x \in LastOf(seq) <=> Ends(seq, x)
  BY <1>1 DEF LastOf, Ends
<1>3. \A x : Ends(seq, x) => Holds(seq, x) /\ x \in Message
  BY <1>1 DEF Ends, Holds
<1> QED BY <1>2, <1>3

-----------------------------------------------------------------------------
(***************************************************************************)
(* The invariant.                                                          *)
(***************************************************************************)

\* Two runs at the same time know of each other.
Apart ==
    \A t, u \in Turns :
        t # u /\ pc[t] \in Running /\ pc[u] \in Running => t \in raced /\ u \in raced

Idle ==
    \A t \in Turns :
        /\ pc[t] \notin Running => messages[t] = <<>>
        /\ erased[t] => t \in swept /\ pc[t] \in Running

InGraphInv ==
    \A t \in Turns :
        /\ pc[t] \in InGraph => Ends(messages[t], Said(t, "user"))
        /\ pc[t] \in {"grade", "rewrite", "generate"} => retrieved[t] \subseteq {<<t, rewrites[t]>>}
        /\ pc[t] = "rewrite" => rewrites[t] < MaxRewrites

\* What the answer of a turn cites.
Cites(t, by) == IF by = "model" THEN {<<t, rewrites[t]>>} ELSE {}

AnsweredInv ==
    \A t \in Turns : pc[t] \in Answered =>
        /\ Paired(messages[t], t)
        /\ \E by \in Answers : Ends(messages[t], Said(t, by)) /\ cited[t] = Cites(t, by)

\* Nobody knows an answer before it is given, or another one than was given.
Given(t, by) == pc[t] = "done" \/ (pc[t] \in Answered /\ Ends(messages[t], Said(t, by)))

SpokenInv ==
    \A t \in Turns, by \in Answers :
        /\ Holds(history, Said(t, by)) => Given(t, by)
        /\ \A u \in Turns : Holds(messages[u], Said(t, by)) => Given(t, by)

\* The thread is as an undisturbed turn left it.
ThreadInv ==
    \A t \in Turns \ (raced \cup swept) :
        pc[t] \in Answered => history = messages[t] /\ sources = cited[t]

Own(t) == ~streaming[t] \/ t \notin raced \cup swept

ShownInv ==
    \A t \in Turns :
        /\ pc[t] = "sources" => streaming[t]
        /\ pc[t] \in {"sources", "reply"} =>
             /\ Own(t) => shown[t] = LastOf(messages[t])
             /\ \A by \in Answers : Said(t, by) \in shown[t] => Ends(messages[t], Said(t, by))
        /\ pc[t] = "reply" /\ Own(t) => shownSources[t] = cited[t]

ClearedInv ==
    /\ \A t \in cleared : pc[t] = "done"
    /\ swept = {} => /\ FreeOf(history, cleared)
                     /\ \A t \in Turns : FreeOf(messages[t], cleared)

KeptInv ==
    \A t \in Turns \ (raced \cup swept \cup cleared) : outcome[t] = "answer" =>
        /\ pc[t] = "done" /\ Paired(history, t)
        /\ \A u \in Turns : pc[u] \in Running => Paired(messages[u], t) /\ ~erased[u]

CInv ==
    /\ TypeOK /\ Apart /\ Idle /\ InGraphInv /\ AnsweredInv /\ SpokenInv
    /\ ThreadInv /\ ShownInv /\ ClearedInv /\ KeptInv

LEMMA CInvInit == Init => CInv
<1> SUFFICES ASSUME Init PROVE CInv
  OBVIOUS
<1>1. TypeOK
  BY EmptyFacts, ChatAssumption DEF Init, TypeOK, Chunks
<1>2. Apart /\ Idle /\ InGraphInv /\ AnsweredInv /\ ThreadInv /\ ShownInv /\ KeptInv
  BY DEF Init, Apart, Idle, InGraphInv, AnsweredInv, ThreadInv, ShownInv, KeptInv,
         Running, InGraph, Answered
<1>3. SpokenInv /\ ClearedInv
  BY EmptyFacts DEF Init, SpokenInv, ClearedInv
<1> QED BY <1>1, <1>2, <1>3 DEF CInv

-----------------------------------------------------------------------------
(***************************************************************************)
(* A run's steps.                                                          *)
(***************************************************************************)

LEMMA RunningSets ==
    /\ Answered \cap InGraph = {} /\ Running = InGraph \cup Answered
    /\ "done" \notin Running /\ "load" \notin Running /\ "none" \notin Running
BY DEF Running, InGraph, Answered

\* A node that leaves the conversation alone, or the input.
LEMMA GraphStep ==
    ASSUME CInv, NEW t \in Turns, NEW step \in InGraph, NEW w \in BOOLEAN,
           pc[t] \in InGraph, GoTo(t, step), Store(t, w),
           UNCHANGED <<outcome, streaming, messages, cited, response, clears, ghosts>>,
           rewrites' \in [Turns -> 0 .. MaxRewrites],
           retrieved' \in [Turns -> SUBSET Chunks],
           sufficient' \in [Turns -> BOOLEAN],
           \A u \in Turns \ {t} : rewrites'[u] = rewrites[u] /\ retrieved'[u] = retrieved[u],
           step \in {"grade", "rewrite", "generate"} => retrieved'[t] \subseteq {<<t, rewrites'[t]>>},
           step = "rewrite" => rewrites'[t] < MaxRewrites
    PROVE  CInv'
<1>1. /\ pc'[t] = step /\ \A u \in Turns \ {t} : pc'[u] = pc[u]
      /\ pc' \in [Turns -> {"none", "load", "done"} \cup Running]
  BY RunningSets DEF CInv, TypeOK, GoTo
<1>2. \/ history' = <<>> /\ sources' = {} /\ erased[t]
      \/ history' = messages[t] /\ sources' = cited[t]
  BY DEF Store
<1>3. /\ erased' \in [Turns -> BOOLEAN]
      /\ \A u \in Turns : erased'[u] => erased[u]
  BY DEF CInv, TypeOK, Store
<1>4. /\ outcome' = outcome /\ streaming' = streaming /\ messages' = messages
      /\ cited' = cited /\ emitted' = emitted /\ shown' = shown
      /\ shownSources' = shownSources /\ clears' = clears
      /\ raced' = raced /\ swept' = swept /\ cleared' = cleared
  BY DEF response, ghosts
<1>5. TypeOK'
  <2>1. history' \in Seq(Message) /\ sources' \subseteq Chunks
    <3>1. messages[t] \in Seq(Message) /\ cited[t] \subseteq Chunks
      BY DEF CInv, TypeOK
    <3> QED BY <3>1, <1>2, EmptyFacts
  <2> QED BY <2>1, <1>1, <1>3, <1>4 DEF CInv, TypeOK
<1>6. Apart'
  BY <1>1, <1>4, RunningSets DEF CInv, Apart
<1>7. Idle'
  BY <1>1, <1>3, <1>4, RunningSets DEF CInv, Idle
<1>8. InGraphInv'
  BY <1>1, <1>4 DEF CInv, InGraphInv, InGraph
<1>9. AnsweredInv'
  BY <1>1, <1>4, RunningSets DEF CInv, AnsweredInv, Cites
<1>10. \A u \in Turns, by \in Answers : Given(u, by) => Given(u, by)'
  BY <1>1, <1>4, RunningSets DEF Given, InGraph
<1>11. SpokenInv'
  BY <1>2, <1>4, <1>10, EmptyFacts DEF CInv, SpokenInv
<1>12. ThreadInv'
  BY <1>1, <1>4, RunningSets DEF CInv, ThreadInv, Apart
<1>13. ShownInv'
  <2>1. ASSUME NEW u \in Turns, pc'[u] \in Answered PROVE pc[u] = pc'[u]
    BY <2>1, <1>1, RunningSets
  <2> QED BY <2>1, <1>4 DEF CInv, ShownInv, Own, Answered
<1>14. ClearedInv'
  <2>1. \A u \in cleared : pc'[u] = "done"
    BY <1>1, RunningSets DEF CInv, ClearedInv, TypeOK
  <2>2. swept = {} => FreeOf(history', cleared)
    BY <1>2, EmptyFacts DEF CInv, ClearedInv
  <2> QED BY <2>1, <2>2, <1>4 DEF CInv, ClearedInv
<1>15. KeptInv'
  <2> SUFFICES ASSUME NEW v \in Turns \ (raced \cup swept \cup cleared), outcome[v] = "answer"
               PROVE  /\ pc'[v] = "done" /\ Paired(history', v)
                      /\ \A u \in Turns : pc'[u] \in Running =>
                             Paired(messages'[u], v) /\ ~erased'[u]
    BY <1>4 DEF KeptInv
  <2>1. /\ pc[v] = "done" /\ Paired(history, v)
        /\ \A u \in Turns : pc[u] \in Running => Paired(messages[u], v) /\ ~erased[u]
    BY DEF CInv, KeptInv
  <2>2. Paired(messages[t], v) /\ ~erased[t] /\ v # t
    BY <2>1, RunningSets
  <2>3. Paired(history', v)
    BY <2>2, <1>2
  <2>4. \A u \in Turns : pc'[u] \in Running => pc[u] \in Running
    BY <1>1, RunningSets
  <2> QED BY <2>1, <2>2, <2>3, <2>4, <1>1, <1>3, <1>4
<1> QED
  BY <1>5, <1>6, <1>7, <1>8, <1>9, <1>11, <1>12, <1>13, <1>14, <1>15 DEF CInv

LEMMA StoreInputInv == ASSUME CInv, NEW t \in Turns, StoreInput(t) PROVE CInv'
<1>1. "retrieve" \in InGraph /\ pc[t] \in InGraph
  BY DEF StoreInput, InGraph
<1>2. /\ GoTo(t, "retrieve") /\ Store(t, TRUE)
      /\ UNCHANGED <<outcome, streaming, messages, cited, response, clears, ghosts>>
      /\ rewrites' = rewrites /\ retrieved' = retrieved /\ sufficient' = sufficient
  BY DEF StoreInput, graphState
<1> QED BY <1>1, <1>2, GraphStep DEF CInv, TypeOK

LEMMA RetrieveInv == ASSUME CInv, NEW t \in Turns, Retrieve(t) PROVE CInv'
<1>1. "grade" \in InGraph /\ pc[t] \in InGraph
  BY DEF Retrieve, InGraph
<1>2. /\ GoTo(t, "grade") /\ Store(t, FALSE)
      /\ UNCHANGED <<outcome, streaming, messages, cited, response, clears, ghosts>>
      /\ rewrites' = rewrites /\ sufficient' = sufficient
  BY DEF Retrieve
<1>3. PICK found \in {{}, {<<t, rewrites[t]>>}} : retrieved' = [retrieved EXCEPT ![t] = found]
  BY DEF Retrieve
<1>4. found \subseteq Chunks
  BY <1>3 DEF CInv, TypeOK, Chunks
<1>5. /\ retrieved' \in [Turns -> SUBSET Chunks]
      /\ \A u \in Turns \ {t} : retrieved'[u] = retrieved[u]
      /\ retrieved'[t] \subseteq {<<t, rewrites'[t]>>}
  BY <1>2, <1>3, <1>4 DEF CInv, TypeOK
<1> QED BY <1>1, <1>2, <1>5, GraphStep DEF CInv, TypeOK

LEMMA GradeInv == ASSUME CInv, NEW t \in Turns, Grade(t) PROVE CInv'
<1>1. PICK enough \in BOOLEAN :
        /\ sufficient' = [sufficient EXCEPT ![t] = enough]
        /\ GoTo(t, IF enough \/ RewritesSpent(t) THEN "generate" ELSE "rewrite")
  BY DEF Grade
<1> DEFINE step == IF enough \/ RewritesSpent(t) THEN "generate" ELSE "rewrite"
<1>2. /\ GoTo(t, step) /\ Store(t, FALSE)
      /\ UNCHANGED <<outcome, streaming, messages, cited, response, clears, ghosts>>
      /\ rewrites' = rewrites /\ retrieved' = retrieved
      /\ sufficient' \in [Turns -> BOOLEAN] /\ pc[t] = "grade"
  BY <1>1 DEF Grade, CInv, TypeOK
<1>3. /\ step \in InGraph /\ pc[t] \in InGraph
      /\ step = "rewrite" => rewrites[t] < MaxRewrites
  BY <1>2, ChatAssumption DEF InGraph, RewritesSpent, CInv, TypeOK
<1> HIDE DEF step
<1>4. retrieved[t] \subseteq {<<t, rewrites[t]>>}
  BY <1>2 DEF CInv, InGraphInv
<1> QED BY <1>2, <1>3, <1>4, GraphStep DEF CInv, TypeOK

LEMMA RewriteInv == ASSUME CInv, NEW t \in Turns, Rewrite(t) PROVE CInv'
<1>1. "retrieve" \in InGraph /\ pc[t] \in InGraph
  BY DEF Rewrite, InGraph
<1>2. /\ GoTo(t, "retrieve") /\ Store(t, FALSE)
      /\ UNCHANGED <<outcome, streaming, messages, cited, response, clears, ghosts>>
      /\ retrieved' = retrieved /\ sufficient' = sufficient
  BY DEF Rewrite
<1>3. /\ rewrites' \in [Turns -> 0 .. MaxRewrites]
      /\ \A u \in Turns \ {t} : rewrites'[u] = rewrites[u]
  BY ChatAssumption DEF CInv, TypeOK, InGraphInv, Rewrite
<1> QED BY <1>1, <1>2, <1>3, GraphStep DEF CInv, TypeOK

LEMMA GenerateInv == ASSUME CInv, NEW t \in Turns, Generate(t) PROVE CInv'
<1>0. PICK by \in Answers : by = IF Answerable(t) THEN "model" ELSE "refusal"
  BY DEF Answers
<1>1. /\ pc[t] = "generate" /\ GoTo(t, "respond") /\ Store(t, TRUE)
      /\ messages' = [messages EXCEPT ![t] = Append(@, Said(t, by))]
      /\ cited' = [cited EXCEPT ![t] = IF Answerable(t) THEN retrieved[t] ELSE {}]
      /\ emitted' \in {[emitted EXCEPT ![t] = e] : e \in BOOLEAN}
      /\ outcome' = outcome /\ streaming' = streaming /\ rewrites' = rewrites
      /\ retrieved' = retrieved /\ sufficient' = sufficient /\ shown' = shown
      /\ shownSources' = shownSources /\ clears' = clears
      /\ raced' = raced /\ swept' = swept /\ cleared' = cleared
  BY <1>0 DEF Generate, ghosts
<1>2. /\ pc'[t] = "respond" /\ \A u \in Turns \ {t} : pc'[u] = pc[u]
      /\ pc' \in [Turns -> {"none", "load", "done"} \cup Running]
      /\ pc[t] \in InGraph /\ pc[t] \in Running /\ "respond" \in Running /\ "respond" \in Answered
  BY <1>1 DEF CInv, TypeOK, GoTo, Running, InGraph, Answered
<1>3. by \in Answers /\ Said(t, by) \in Message /\ Said(t, by).turn = t
  BY SaidMessage DEF Answers
<1>4. retrieved[t] \subseteq {<<t, rewrites[t]>>} /\ retrieved[t] \subseteq Chunks
  BY <1>1 DEF CInv, InGraphInv, TypeOK
<1>5. /\ cited'[t] = Cites(t, by) /\ cited'[t] \subseteq Chunks
      /\ \A u \in Turns \ {t} : cited'[u] = cited[u]
      /\ cited' \in [Turns -> SUBSET Chunks]
  <2>1. Answerable(t) => retrieved[t] = {<<t, rewrites[t]>>}
    BY <1>4 DEF Answerable
  <2> QED BY <2>1, <1>0, <1>1, <1>4 DEF CInv, TypeOK, Cites
<1>6. /\ messages[t] \in Seq(Message) /\ Ends(messages[t], Said(t, "user"))
      /\ messages'[t] = Append(messages[t], Said(t, by))
      /\ \A u \in Turns \ {t} : messages'[u] = messages[u]
  BY <1>1, <1>2 DEF CInv, TypeOK, InGraphInv
<1>7. /\ messages'[t] \in Seq(Message)
      /\ Ends(messages'[t], Said(t, by))
      /\ \A x : Ends(messages'[t], x) => x = Said(t, by)
      /\ \A x : Holds(messages'[t], x) => Holds(messages[t], x) \/ x = Said(t, by)
      /\ \A T : FreeOf(messages[t], T) /\ t \notin T => FreeOf(messages'[t], T)
      /\ \A v \in Turns : Paired(messages[t], v) => Paired(messages'[t], v)
      /\ Paired(messages'[t], t)
  BY <1>3, <1>6, AppendFacts
<1>8. history' = messages'[t] /\ sources' = cited'[t]
  BY <1>1 DEF Store
<1>9. /\ erased' \in [Turns -> BOOLEAN] /\ erased'[t] = FALSE
      /\ \A u \in Turns : erased'[u] => erased[u]
  BY <1>1 DEF CInv, TypeOK, Store
<1>10. TypeOK'
  <2>1. messages' \in [Turns -> Seq(Message)] /\ emitted' \in [Turns -> BOOLEAN]
    BY <1>1, <1>7, <1>6 DEF CInv, TypeOK
  <2> QED BY <2>1, <1>1, <1>2, <1>5, <1>7, <1>8, <1>9 DEF CInv, TypeOK
<1>11. Apart'
  BY <1>1, <1>2 DEF CInv, Apart
<1>12. Idle'
  BY <1>1, <1>2, <1>6, <1>9 DEF CInv, Idle
<1>13. InGraphInv'
  BY <1>1, <1>2, <1>6, RunningSets DEF CInv, InGraphInv, Answered, InGraph
<1>14. AnsweredInv'
  <2>1. ASSUME NEW u \in Turns, pc'[u] \in Answered
        PROVE  /\ Paired(messages'[u], u)
               /\ \E b \in Answers : Ends(messages'[u], Said(u, b)) /\ cited'[u] = Cites(u, b)'
    <3>1. CASE u = t
      BY <3>1, <1>1, <1>3, <1>5, <1>7 DEF Cites
    <3>2. CASE u # t
      BY <3>2, <2>1, <1>1, <1>2, <1>5, <1>6 DEF CInv, AnsweredInv, Cites
    <3> QED BY <3>1, <3>2
  <2> QED BY <2>1 DEF AnsweredInv
<1>15. SpokenInv'
  <2>1. ASSUME NEW v \in Turns, NEW b \in Answers, Given(v, b) PROVE Given(v, b)'
    BY <2>1, <1>2, <1>6, RunningSets DEF Given
  <2>2. Given(t, by)'
    BY <1>2, <1>7 DEF Given
  <2>3. ASSUME NEW v \in Turns, NEW b \in Answers, Holds(messages'[t], Said(v, b))
        PROVE  Given(v, b)'
    <3>1. CASE Holds(messages[t], Said(v, b))
      BY <3>1, <2>1 DEF CInv, SpokenInv
    <3>2. CASE Said(v, b) = Said(t, by)
      BY <3>2, <2>2, <1>3, SaidDistinct DEF Answers
    <3> QED BY <3>1, <3>2, <2>3, <1>7
  <2>4. ASSUME NEW v \in Turns, NEW b \in Answers, NEW u \in Turns \ {t},
               Holds(messages'[u], Said(v, b))
        PROVE  Given(v, b)'
    BY <2>4, <2>1, <1>6 DEF CInv, SpokenInv
  <2> QED BY <2>3, <2>4, <1>8 DEF SpokenInv
<1>16. ThreadInv'
  BY <1>1, <1>2, <1>8, RunningSets DEF CInv, ThreadInv, Apart
<1>17. ShownInv'
  <2>1. ASSUME NEW u \in Turns, pc'[u] \in {"sources", "reply"}
        PROVE  u # t /\ pc[u] = pc'[u] /\ messages'[u] = messages[u] /\ cited'[u] = cited[u]
    BY <2>1, <1>2, <1>5, <1>6
  <2> QED BY <2>1, <1>1 DEF CInv, ShownInv, Own
<1>18. ClearedInv'
  <2>1. t \notin cleared
    BY <1>1 DEF CInv, ClearedInv
  <2>2. \A u \in cleared : pc'[u] = "done"
    BY <2>1, <1>2 DEF CInv, ClearedInv, TypeOK
  <2>3. swept = {} => FreeOf(messages'[t], cleared) /\ \A u \in Turns : FreeOf(messages'[u], cleared)
    BY <2>1, <1>6, <1>7 DEF CInv, ClearedInv
  <2> QED BY <2>2, <2>3, <1>1, <1>8 DEF ClearedInv
<1>19. KeptInv'
  <2> SUFFICES ASSUME NEW v \in Turns \ (raced \cup swept \cup cleared), outcome[v] = "answer"
               PROVE  /\ pc'[v] = "done" /\ Paired(history', v)
                      /\ \A u \in Turns : pc'[u] \in Running =>
                             Paired(messages'[u], v) /\ ~erased'[u]
    BY <1>1 DEF KeptInv
  <2>1. /\ pc[v] = "done"
        /\ \A u \in Turns : pc[u] \in Running => Paired(messages[u], v) /\ ~erased[u]
    BY DEF CInv, KeptInv
  <2>2. v # t /\ Paired(messages'[t], v)
    BY <2>1, <1>1, <1>2, <1>7
  <2> QED BY <2>1, <2>2, <1>2, <1>6, <1>8, <1>9
<1> QED
  BY <1>10, <1>11, <1>12, <1>13, <1>14, <1>15, <1>16, <1>17, <1>18, <1>19 DEF CInv

LEMMA ReceiveInv == ASSUME CInv, NEW t \in Turns, Receive(t) PROVE CInv'
<1>1. /\ pc[t] = "none" /\ GoTo(t, "load")
      /\ streaming' \in {[streaming EXCEPT ![t] = s] : s \in BOOLEAN}
      /\ UNCHANGED <<thread, outcome, graphState, erased, response, clears, ghosts>>
  BY DEF Receive
<1>2. /\ pc'[t] = "load" /\ \A u \in Turns \ {t} : pc'[u] = pc[u] /\ streaming'[u] = streaming[u]
      /\ pc' \in [Turns -> {"none", "load", "done"} \cup Running]
      /\ streaming' \in [Turns -> BOOLEAN]
  BY <1>1 DEF CInv, TypeOK, GoTo
<1> USE <1>1, <1>2, RunningSets
    DEF CInv, thread, graphState, response, ghosts
<1>3. TypeOK'
  BY DEF TypeOK
<1>4. Apart' /\ Idle' /\ InGraphInv'
  BY DEF Apart, Idle, InGraphInv, InGraph
<1>5. AnsweredInv' /\ ThreadInv'
  BY DEF AnsweredInv, ThreadInv, Cites, Answered
<1>6. SpokenInv'
  <2>1. \A u \in Turns, by \in Answers : Given(u, by) => Given(u, by)'
    BY DEF Given, Answered
  <2> QED BY <2>1 DEF SpokenInv
<1>7. ShownInv'
  <2>1. ASSUME NEW u \in Turns, pc'[u] \in {"sources", "reply"} PROVE u # t
    BY <2>1
  <2> QED BY <2>1 DEF ShownInv, Own
<1>8. ClearedInv' /\ KeptInv'
  <2>1. \A u \in Turns : pc[u] = "done" => pc'[u] = "done"
    OBVIOUS
  <2>2. \A u \in Turns : pc'[u] \in Running => pc[u] \in Running
    OBVIOUS
  <2>3. ClearedInv'
    BY <2>1 DEF ClearedInv, TypeOK
  <2>4. KeptInv'
    BY <2>1, <2>2 DEF KeptInv
  <2> QED BY <2>3, <2>4
<1> QED BY <1>3, <1>4, <1>5, <1>6, <1>7, <1>8

LEMMA LoadInv == ASSUME CInv, NEW t \in Turns, Load(t) PROVE CInv'
<1>1. /\ pc[t] = "load" /\ GoTo(t, "input")
      /\ messages' = [messages EXCEPT ![t] = Append(history, Said(t, "user"))]
      /\ raced' = IF Beside(t) = {} THEN raced ELSE raced \cup Beside(t) \cup {t}
      /\ history' = history /\ sources' = sources /\ outcome' = outcome
      /\ streaming' = streaming /\ rewrites' = rewrites /\ retrieved' = retrieved
      /\ sufficient' = sufficient /\ cited' = cited /\ erased' = erased
      /\ emitted' = emitted /\ shown' = shown /\ shownSources' = shownSources
      /\ clears' = clears /\ swept' = swept /\ cleared' = cleared
  BY DEF Load, thread, response
<1>2. /\ pc'[t] = "input" /\ \A u \in Turns \ {t} : pc'[u] = pc[u]
      /\ pc' \in [Turns -> {"none", "load", "done"} \cup Running]
      /\ "input" \in InGraph /\ "input" \in Running
  BY <1>1 DEF CInv, TypeOK, GoTo, Running, InGraph
<1>3. raced \subseteq raced' /\ raced' \subseteq Turns
  BY <1>1 DEF CInv, TypeOK, Beside
<1>4. /\ history \in Seq(Message) /\ Said(t, "user") \in Message /\ Said(t, "user").turn = t
      /\ messages'[t] = Append(history, Said(t, "user"))
      /\ \A u \in Turns \ {t} : messages'[u] = messages[u]
  BY <1>1, SaidMessage DEF CInv, TypeOK
<1>5. /\ messages'[t] \in Seq(Message)
      /\ Ends(messages'[t], Said(t, "user"))
      /\ \A x : Holds(messages'[t], x) => Holds(history, x) \/ x = Said(t, "user")
      /\ \A T : FreeOf(history, T) /\ t \notin T => FreeOf(messages'[t], T)
      /\ \A v \in Turns : Paired(history, v) => Paired(messages'[t], v)
  BY <1>4, AppendFacts
<1>6. TypeOK'
  <2>1. messages' \in [Turns -> Seq(Message)]
    BY <1>1, <1>5, <1>4 DEF CInv, TypeOK
  <2> QED BY <2>1, <1>1, <1>2, <1>3 DEF CInv, TypeOK
<1>7. Apart'
  <2>1. ASSUME NEW v \in Turns, NEW u \in Turns, v # u, pc'[v] \in Running, pc'[u] \in Running
        PROVE  v \in raced' /\ u \in raced'
    <3>1. CASE v # t /\ u # t
      BY <3>1, <2>1, <1>2, <1>3 DEF CInv, Apart
    <3>2. CASE v = t
      BY <3>2, <2>1, <1>1, <1>2 DEF Beside
    <3>3. CASE u = t
      BY <3>3, <2>1, <1>1, <1>2 DEF Beside
    <3> QED BY <3>1, <3>2, <3>3
  <2> QED BY <2>1 DEF Apart
<1>8. Idle'
  BY <1>1, <1>2, <1>4 DEF CInv, Idle
<1>9. InGraphInv'
  BY <1>1, <1>2, <1>4, <1>5 DEF CInv, InGraphInv, InGraph
<1>10. AnsweredInv'
  <2>1. ASSUME NEW u \in Turns, pc'[u] \in Answered
        PROVE  u # t /\ pc[u] \in Answered /\ messages'[u] = messages[u]
    BY <2>1, <1>2, <1>4, RunningSets
  <2> QED BY <2>1, <1>1 DEF CInv, AnsweredInv, Cites
<1>11. SpokenInv'
  <2>1. ASSUME NEW v \in Turns, NEW b \in Answers, Given(v, b) PROVE Given(v, b)'
    BY <2>1, <1>1, <1>2, <1>4, RunningSets DEF Given, Answered
  <2>2. ASSUME NEW v \in Turns, NEW b \in Answers, Holds(messages'[t], Said(v, b))
        PROVE  Given(v, b)'
    <3>1. Said(v, b) # Said(t, "user")
      BY SaidMessage DEF Answers
    <3> QED BY <3>1, <2>1, <2>2, <1>5 DEF CInv, SpokenInv
  <2>3. ASSUME NEW v \in Turns, NEW b \in Answers, NEW u \in Turns \ {t},
               Holds(messages'[u], Said(v, b))
        PROVE  Given(v, b)'
    BY <2>3, <2>1, <1>4 DEF CInv, SpokenInv
  <2>4. ASSUME NEW v \in Turns, NEW b \in Answers, Holds(history', Said(v, b))
        PROVE  Given(v, b)'
    BY <2>4, <2>1, <1>1 DEF CInv, SpokenInv
  <2> QED BY <2>2, <2>3, <2>4 DEF SpokenInv
<1>12. ThreadInv'
  <2>1. ASSUME NEW u \in Turns, pc'[u] \in Answered
        PROVE  u # t /\ pc[u] \in Answered /\ messages'[u] = messages[u]
    BY <2>1, <1>2, <1>4, RunningSets
  <2> QED BY <2>1, <1>1, <1>3 DEF CInv, ThreadInv
<1>13. ShownInv'
  <2>1. ASSUME NEW u \in Turns, pc'[u] \in {"sources", "reply"}
        PROVE  pc[u] = pc'[u] /\ messages'[u] = messages[u]
    BY <2>1, <1>2, <1>4
  <2>2. \A u \in Turns : Own(u)' => Own(u)
    BY <1>1, <1>3 DEF Own
  <2> QED BY <2>1, <2>2, <1>1 DEF CInv, ShownInv
<1>14. ClearedInv'
  <2>1. t \notin cleared
    BY <1>1 DEF CInv, ClearedInv
  <2> QED BY <2>1, <1>1, <1>2, <1>4, <1>5 DEF CInv, ClearedInv, TypeOK
<1>15. KeptInv'
  <2> SUFFICES ASSUME NEW v \in Turns \ (raced' \cup swept \cup cleared), outcome[v] = "answer"
               PROVE  /\ pc'[v] = "done" /\ Paired(history, v)
                      /\ \A u \in Turns : pc'[u] \in Running =>
                             Paired(messages'[u], v) /\ ~erased[u]
    BY <1>1 DEF KeptInv
  <2>1. /\ pc[v] = "done" /\ Paired(history, v)
        /\ \A u \in Turns : pc[u] \in Running => Paired(messages[u], v) /\ ~erased[u]
    BY <1>3 DEF CInv, KeptInv
  <2>2. v # t /\ Paired(messages'[t], v)
    BY <2>1, <1>1, <1>5
  <2>3. ~erased[t]
    BY <1>1, RunningSets DEF CInv, Idle
  <2> QED BY <2>1, <2>2, <2>3, <1>2, <1>4
<1> QED
  BY <1>6, <1>7, <1>8, <1>9, <1>10, <1>11, <1>12, <1>13, <1>14, <1>15 DEF CInv

\* A step of an answered turn on its way to the client.
LEMMA AnswerStep ==
    ASSUME CInv, NEW t \in Turns, NEW step \in Answered,
           pc[t] \in Answered, GoTo(t, step),
           UNCHANGED <<thread, outcome, streaming, graphState, erased, emitted, clears, ghosts>>,
           shown' \in [Turns -> SUBSET Message],
           shownSources' \in [Turns -> SUBSET Chunks],
           \A u \in Turns \ {t} : shown'[u] = shown[u] /\ shownSources'[u] = shownSources[u],
           step = "sources" => streaming[t],
           step \in {"sources", "reply"} =>
             /\ Own(t) => shown'[t] = LastOf(messages[t])
             /\ \A by \in Answers : Said(t, by) \in shown'[t] => Ends(messages[t], Said(t, by)),
           step = "reply" /\ Own(t) => shownSources'[t] = cited[t]
    PROVE  CInv'
<1>1. /\ pc'[t] = step /\ \A u \in Turns \ {t} : pc'[u] = pc[u]
      /\ pc' \in [Turns -> {"none", "load", "done"} \cup Running]
      /\ pc[t] \in Running /\ step \in Running
  BY RunningSets DEF CInv, TypeOK, GoTo
<1>2. /\ history' = history /\ sources' = sources /\ outcome' = outcome
      /\ streaming' = streaming /\ messages' = messages /\ rewrites' = rewrites
      /\ retrieved' = retrieved /\ sufficient' = sufficient /\ cited' = cited
      /\ erased' = erased /\ emitted' = emitted /\ clears' = clears
      /\ raced' = raced /\ swept' = swept /\ cleared' = cleared
  BY DEF thread, graphState, ghosts
<1>3. \A u \in Turns : /\ pc'[u] \in Running <=> pc[u] \in Running
                       /\ pc'[u] \in Answered <=> pc[u] \in Answered
                       /\ pc'[u] = "done" <=> pc[u] = "done"
  BY <1>1, RunningSets DEF Answered
<1>4. TypeOK'
  BY <1>1, <1>2 DEF CInv, TypeOK
<1>5. Apart' /\ Idle'
  BY <1>2, <1>3 DEF CInv, Apart, Idle
<1>6. InGraphInv'
  BY <1>1, <1>2 DEF CInv, InGraphInv, InGraph, Answered
<1>7. AnsweredInv' /\ ThreadInv'
  BY <1>2, <1>3 DEF CInv, AnsweredInv, ThreadInv, Cites
<1>8. SpokenInv'
  BY <1>2, <1>3 DEF CInv, SpokenInv, Given
<1>9. ShownInv'
  <2>1. \A u \in Turns : Own(u)' = Own(u)
    BY <1>2 DEF Own
  <2>2. ASSUME NEW u \in Turns \ {t}
        PROVE  pc'[u] = pc[u] /\ shown'[u] = shown[u] /\ shownSources'[u] = shownSources[u]
    BY <1>1
  <2> QED BY <2>1, <2>2, <1>1, <1>2 DEF CInv, ShownInv
<1>10. ClearedInv'
  BY <1>2, <1>3 DEF CInv, ClearedInv, TypeOK
<1>11. KeptInv'
  BY <1>2, <1>3 DEF CInv, KeptInv
<1> QED BY <1>4, <1>5, <1>6, <1>7, <1>8, <1>9, <1>10, <1>11 DEF CInv

LEMMA RespondInv == ASSUME CInv, NEW t \in Turns, Respond(t) PROVE CInv'
<1>1. /\ pc[t] = "respond" /\ GoTo(t, "reply")
      /\ shown' = [shown EXCEPT ![t] = LastOf(messages[t])]
      /\ shownSources' = [shownSources EXCEPT ![t] = cited[t]]
      /\ UNCHANGED <<thread, outcome, streaming, graphState, erased, emitted, clears, ghosts>>
  BY DEF Respond
<1>2. /\ LastOf(messages[t]) \subseteq Message /\ cited[t] \subseteq Chunks
      /\ \A by \in Answers : Said(t, by) \in LastOf(messages[t]) => Ends(messages[t], Said(t, by))
  <2>1. messages[t] \in Seq(Message) /\ cited[t] \subseteq Chunks
    BY DEF CInv, TypeOK
  <2> QED BY <2>1, LastFacts
<1>3. /\ shown' \in [Turns -> SUBSET Message] /\ shownSources' \in [Turns -> SUBSET Chunks]
      /\ shown'[t] = LastOf(messages[t]) /\ shownSources'[t] = cited[t]
      /\ \A u \in Turns \ {t} : shown'[u] = shown[u] /\ shownSources'[u] = shownSources[u]
  BY <1>1, <1>2 DEF CInv, TypeOK
<1>4. "reply" \in Answered /\ pc[t] \in Answered
  BY <1>1 DEF Answered
<1> QED BY <1>1, <1>2, <1>3, <1>4, AnswerStep

LEMMA ReadStateInv == ASSUME CInv, NEW t \in Turns, ReadState(t) PROVE CInv'
<1> DEFINE last == IF emitted[t] THEN LastOf(messages[t]) ELSE LastOf(history)
<1>1. /\ pc[t] = "respond" /\ streaming[t] /\ GoTo(t, "sources")
      /\ shown' = [shown EXCEPT ![t] = last]
      /\ shownSources' = shownSources
      /\ UNCHANGED <<thread, outcome, streaming, graphState, erased, emitted, clears, ghosts>>
  BY DEF ReadState
<1>2. messages[t] \in Seq(Message) /\ history \in Seq(Message)
  BY DEF CInv, TypeOK
<1>3. last \subseteq Message
  BY <1>2, LastFacts
<1>4. Own(t) => last = LastOf(messages[t])
  <2>1. Own(t) => history = messages[t]
    BY <1>1 DEF CInv, ThreadInv, Own, Answered
  <2> QED BY <2>1
<1>5. ASSUME NEW by \in Answers, Said(t, by) \in last PROVE Ends(messages[t], Said(t, by))
  <2>1. CASE emitted[t]
    BY <2>1, <1>2, <1>5, LastFacts
  <2>2. CASE ~emitted[t]
    <3>1. Holds(history, Said(t, by))
      BY <2>2, <1>2, <1>5, LastFacts
    <3> QED BY <3>1, <1>1 DEF CInv, SpokenInv, Given
  <2> QED BY <2>1, <2>2
<1> HIDE DEF last
<1>6. /\ shown' \in [Turns -> SUBSET Message] /\ shownSources' \in [Turns -> SUBSET Chunks]
      /\ shown'[t] = last
      /\ \A u \in Turns \ {t} : shown'[u] = shown[u] /\ shownSources'[u] = shownSources[u]
  BY <1>1, <1>3 DEF CInv, TypeOK
<1>7. "sources" \in Answered /\ pc[t] \in Answered
  BY <1>1 DEF Answered
<1> QED BY <1>1, <1>4, <1>5, <1>6, <1>7, AnswerStep

LEMMA LastSourcesInv == ASSUME CInv, NEW t \in Turns, LastSources(t) PROVE CInv'
<1>1. /\ pc[t] = "sources" /\ GoTo(t, "reply")
      /\ shown' = shown
      /\ shownSources' = [shownSources EXCEPT ![t] = sources]
      /\ UNCHANGED <<thread, outcome, streaming, graphState, erased, emitted, clears, ghosts>>
  BY DEF LastSources
<1>2. /\ shown' \in [Turns -> SUBSET Message] /\ shownSources' \in [Turns -> SUBSET Chunks]
      /\ shownSources'[t] = sources
      /\ \A u \in Turns \ {t} : shown'[u] = shown[u] /\ shownSources'[u] = shownSources[u]
  BY <1>1 DEF CInv, TypeOK
<1>3. /\ Own(t) => shown'[t] = LastOf(messages[t])
      /\ \A by \in Answers : Said(t, by) \in shown'[t] => Ends(messages[t], Said(t, by))
  BY <1>1 DEF CInv, ShownInv
<1>4. Own(t) => sources = cited[t]
  BY <1>1 DEF CInv, ThreadInv, ShownInv, Own, Answered
<1>5. "reply" \in Answered /\ pc[t] \in Answered
  BY <1>1 DEF Answered
<1> QED BY <1>1, <1>2, <1>3, <1>4, <1>5, AnswerStep

-----------------------------------------------------------------------------
(***************************************************************************)
(* Ends, the clear and the crash.                                          *)
(***************************************************************************)

LEMMA EndInv ==
    ASSUME CInv, NEW t \in Turns, NEW how \in {"answer", "error", "lost"}, End(t, how),
           UNCHANGED <<thread, clears, ghosts>>,
           pc[t] \in {"load"} \cup Running,
           how = "answer" => pc[t] \in Answered
    PROVE  CInv'
<1>1. /\ pc'[t] = "done" /\ messages'[t] = <<>> /\ outcome'[t] = how /\ erased'[t] = FALSE
      /\ history' = history /\ sources' = sources /\ clears' = clears
      /\ raced' = raced /\ swept' = swept /\ cleared' = cleared
  BY DEF CInv, TypeOK, End, thread, ghosts
<1>2. ASSUME NEW u \in Turns, u # t
      PROVE  /\ pc'[u] = pc[u] /\ outcome'[u] = outcome[u] /\ streaming'[u] = streaming[u]
             /\ messages'[u] = messages[u] /\ rewrites'[u] = rewrites[u]
             /\ retrieved'[u] = retrieved[u] /\ sufficient'[u] = sufficient[u]
             /\ cited'[u] = cited[u] /\ erased'[u] = erased[u] /\ emitted'[u] = emitted[u]
             /\ shown'[u] = shown[u] /\ shownSources'[u] = shownSources[u]
  BY <1>2 DEF CInv, TypeOK, End
<1>3. TypeOK'
  <2>1. /\ pc' \in [Turns -> {"none", "load", "done"} \cup Running]
        /\ outcome' \in [Turns -> {"none", "answer", "error", "lost"}]
        /\ streaming' \in [Turns -> BOOLEAN] /\ rewrites' \in [Turns -> 0 .. MaxRewrites]
    BY ChatAssumption DEF CInv, TypeOK, End
  <2>2. messages' \in [Turns -> Seq(Message)]
    BY EmptyFacts DEF CInv, TypeOK, End
  <2>3. /\ retrieved' \in [Turns -> SUBSET Chunks] /\ cited' \in [Turns -> SUBSET Chunks]
        /\ shownSources' \in [Turns -> SUBSET Chunks] /\ shown' \in [Turns -> SUBSET Message]
    BY DEF CInv, TypeOK, End
  <2>4. /\ sufficient' \in [Turns -> BOOLEAN] /\ erased' \in [Turns -> BOOLEAN]
        /\ emitted' \in [Turns -> BOOLEAN]
    BY DEF CInv, TypeOK, End
  <2> QED BY <2>1, <2>2, <2>3, <2>4, <1>1 DEF CInv, TypeOK
<1>4. Apart' /\ Idle'
  BY <1>1, <1>2, RunningSets DEF CInv, Apart, Idle
<1>5. InGraphInv'
  BY <1>1, <1>2, RunningSets DEF CInv, InGraphInv, InGraph
<1>6. AnsweredInv' /\ ThreadInv'
  BY <1>1, <1>2, RunningSets DEF CInv, AnsweredInv, ThreadInv, Cites, Answered
<1>7. SpokenInv'
  <2>1. ASSUME NEW v \in Turns, NEW b \in Answers, Given(v, b) PROVE Given(v, b)'
    BY <2>1, <1>1, <1>2 DEF Given
  <2>2. ASSUME NEW v \in Turns, NEW b \in Answers, NEW u \in Turns,
               Holds(messages'[u], Said(v, b))
        PROVE  Given(v, b)'
    <3>1. u # t
      BY <2>2, <1>1, EmptyFacts
    <3> QED BY <3>1, <2>1, <2>2, <1>2 DEF CInv, SpokenInv
  <2> QED BY <2>1, <2>2, <1>1 DEF CInv, SpokenInv
<1>8. ShownInv'
  <2>1. ASSUME NEW u \in Turns, pc'[u] \in {"sources", "reply"} PROVE u # t
    BY <2>1, <1>1
  <2> QED BY <2>1, <1>1, <1>2 DEF CInv, ShownInv, Own
<1>9. ClearedInv'
  <2>1. \A u \in cleared : pc'[u] = "done"
    BY <1>1, <1>2 DEF CInv, ClearedInv, TypeOK
  <2>2. swept = {} => \A u \in Turns : FreeOf(messages'[u], cleared)
    BY <1>1, <1>2, EmptyFacts DEF CInv, ClearedInv
  <2> QED BY <2>1, <2>2, <1>1 DEF CInv, ClearedInv
<1>10. KeptInv'
  <2> SUFFICES ASSUME NEW v \in Turns \ (raced \cup swept \cup cleared), outcome'[v] = "answer"
               PROVE  /\ pc'[v] = "done" /\ Paired(history, v)
                      /\ \A u \in Turns : pc'[u] \in Running =>
                             Paired(messages'[u], v) /\ ~erased'[u]
    BY <1>1 DEF KeptInv
  <2>1. \A u \in Turns : pc'[u] \in Running => u # t /\ pc[u] \in Running
    BY <1>1, <1>2, RunningSets
  <2>2. CASE v # t
    BY <2>1, <2>2, <1>2 DEF CInv, KeptInv
  <2>3. CASE v = t
    <3>1. pc[t] \in Answered /\ pc[t] \in Running
      BY <2>3, <1>1, RunningSets
    <3>2. Paired(history, t)
      BY <2>3, <3>1 DEF CInv, ThreadInv, AnsweredInv
    <3>3. \A u \in Turns \ {t} : pc[u] \notin Running
      BY <2>3, <3>1 DEF CInv, Apart
    <3> QED BY <2>1, <2>3, <3>2, <3>3, <1>1
  <2> QED BY <2>2, <2>3
<1> QED BY <1>3, <1>4, <1>5, <1>6, <1>7, <1>8, <1>9, <1>10 DEF CInv

LEMMA ClearInv == ASSUME CInv, ClearChatHistory PROVE CInv'
<1>1. /\ history' = <<>> /\ sources' = {} /\ clears' \in 0 .. MaxClears
      /\ erased' = [t \in Turns |-> erased[t] \/ pc[t] \in Running]
      /\ swept' = swept \cup {t \in Turns : pc[t] \in Running}
      /\ cleared' = cleared \cup {t \in Turns : pc[t] = "done"}
      /\ pc' = pc /\ outcome' = outcome /\ streaming' = streaming /\ messages' = messages
      /\ rewrites' = rewrites /\ retrieved' = retrieved /\ sufficient' = sufficient
      /\ cited' = cited /\ emitted' = emitted /\ shown' = shown
      /\ shownSources' = shownSources /\ raced' = raced
  BY ChatAssumption DEF CInv, TypeOK, ClearChatHistory, graphState, response
<1>2. TypeOK'
  BY <1>1, EmptyFacts DEF CInv, TypeOK
<1>3. Apart' /\ Idle' /\ InGraphInv'
  BY <1>1 DEF CInv, Apart, Idle, InGraphInv
<1>4. AnsweredInv'
  BY <1>1 DEF CInv, AnsweredInv, Cites
<1>5. SpokenInv'
  BY <1>1, EmptyFacts DEF CInv, SpokenInv, Given
<1>6. ThreadInv'
  BY <1>1, RunningSets DEF ThreadInv
<1>7. ShownInv'
  <2>1. \A u \in Turns : Own(u)' => Own(u)
    BY <1>1 DEF Own
  <2> QED BY <2>1, <1>1 DEF CInv, ShownInv
<1>8. ClearedInv'
  <2>1. \A u \in cleared' : pc'[u] = "done"
    BY <1>1 DEF CInv, ClearedInv
  <2>2. ASSUME swept' = {}, NEW u \in Turns PROVE FreeOf(messages'[u], cleared')
    <3>1. pc[u] \notin Running
      BY <2>2, <1>1
    <3> QED BY <3>1, <1>1, EmptyFacts DEF CInv, Idle
  <2> QED BY <2>1, <2>2, <1>1, EmptyFacts DEF ClearedInv
<1>9. KeptInv'
  <2>1. ASSUME NEW v \in Turns \ (raced' \cup swept' \cup cleared'), outcome'[v] = "answer"
        PROVE  FALSE
    BY <2>1, <1>1 DEF CInv, KeptInv
  <2> QED BY <2>1 DEF KeptInv
<1> QED BY <1>2, <1>3, <1>4, <1>5, <1>6, <1>7, <1>8, <1>9 DEF CInv

LEMMA CrashInv == ASSUME CInv, Crash PROVE CInv'
<1>1. /\ \A t \in Turns : pc'[t] = IF pc[t] = "none" THEN "none" ELSE "done"
      /\ pc' \in [Turns -> {"none", "done"}]
      /\ \A t \in Turns : outcome'[t] = "answer" => outcome[t] = "answer"
      /\ outcome' \in [Turns -> {"none", "answer", "error", "lost"}]
  BY DEF CInv, TypeOK, Crash
<1>2. /\ streaming' = [t \in Turns |-> FALSE] /\ messages' = [t \in Turns |-> <<>>]
      /\ rewrites' = [t \in Turns |-> 0] /\ retrieved' = [t \in Turns |-> {}]
      /\ cited' = [t \in Turns |-> {}] /\ sufficient' = [t \in Turns |-> FALSE]
      /\ erased' = [t \in Turns |-> FALSE] /\ emitted' = [t \in Turns |-> FALSE]
      /\ shown' = [t \in Turns |-> {}] /\ shownSources' = [t \in Turns |-> {}]
      /\ history' = history /\ sources' = sources /\ clears' = clears
      /\ raced' = raced /\ swept' = swept /\ cleared' = cleared
  BY DEF Crash, thread, ghosts
<1>3. \A t \in Turns : pc'[t] \notin Running /\ pc'[t] \notin InGraph /\ pc'[t] \notin Answered
  BY <1>1, RunningSets
<1>4. TypeOK'
  <2>1. pc' \in [Turns -> {"none", "load", "done"} \cup Running]
    BY <1>1
  <2>2. messages' \in [Turns -> Seq(Message)] /\ rewrites' \in [Turns -> 0 .. MaxRewrites]
    BY <1>2, EmptyFacts, ChatAssumption
  <2> QED BY <2>1, <2>2, <1>1, <1>2 DEF CInv, TypeOK
<1>5. Apart' /\ Idle'
  BY <1>2, <1>3 DEF Apart, Idle
<1>6. InGraphInv' /\ AnsweredInv' /\ ThreadInv' /\ ShownInv'
  BY <1>3 DEF InGraphInv, AnsweredInv, ThreadInv, ShownInv, InGraph, Answered
<1>7. SpokenInv'
  <2>1. ASSUME NEW v \in Turns, NEW b \in Answers, Given(v, b) PROVE Given(v, b)'
    BY <2>1, <1>1 DEF Given, Answered
  <2>2. \A u \in Turns : \A x : ~Holds(messages'[u], x)
    BY <1>2, EmptyFacts
  <2> QED BY <2>1, <2>2, <1>2 DEF CInv, SpokenInv
<1>8. ClearedInv'
  <2>1. \A u \in cleared : pc'[u] = "done"
    BY <1>1 DEF CInv, ClearedInv, TypeOK
  <2>2. \A u \in Turns : FreeOf(messages'[u], cleared)
    BY <1>2, EmptyFacts
  <2> QED BY <2>1, <2>2, <1>2 DEF CInv, ClearedInv
<1>9. KeptInv'
  BY <1>1, <1>2, <1>3 DEF CInv, KeptInv
<1> QED BY <1>4, <1>5, <1>6, <1>7, <1>8, <1>9 DEF CInv

LEMMA StutterInv == ASSUME CInv, UNCHANGED vars PROVE CInv'
BY DEF CInv, vars, thread, graphState, response, ghosts, TypeOK, Apart, Idle, InGraphInv,
       AnsweredInv, Cites, SpokenInv, Given, ThreadInv, ShownInv, Own, ClearedInv, KeptInv

LEMMA CInvNext == CInv /\ [Next]_vars => CInv'
<1> SUFFICES ASSUME CInv, [Next]_vars PROVE CInv'
  OBVIOUS
<1>1. ASSUME NEW t \in Turns, Reply(t) PROVE CInv'
  BY <1>1, RunningSets, EndInv DEF Reply, Answered
<1>2. ASSUME NEW t \in Turns, TurnFails(t) PROVE CInv'
  BY <1>2, RunningSets, EndInv DEF TurnFails, Answered
<1>3. ASSUME NEW t \in Turns, Disconnect(t) PROVE CInv'
  BY <1>3, EndInv DEF Disconnect
<1>4. ASSUME NEW t \in Turns, Proceed(t) PROVE CInv'
  BY <1>1, <1>2, <1>4, LoadInv, StoreInputInv, RetrieveInv, GradeInv, RewriteInv, GenerateInv,
     RespondInv, ReadStateInv, LastSourcesInv DEF Proceed
<1> QED
  BY <1>3, <1>4, ReceiveInv, ClearInv, CrashInv, StutterInv DEF Next

-----------------------------------------------------------------------------
(***************************************************************************)
(* Theorems.                                                               *)
(***************************************************************************)

\* The strengthened invariant holds throughout.
THEOREM ChatInvariance == Spec => []CInv
BY CInvInit, CInvNext, PTL DEF Spec

\* Type correctness: in particular, no run rewrites its query more often than
\* RAG_MAX_REWRITES (grade_node).
THEOREM ChatTypeCorrect == Spec => []TypeOK
<1>1. CInv => TypeOK
  BY DEF CInv
<1> QED BY <1>1, ChatInvariance, PTL

\* An answer shown is the turn's own and rests on what its run retrieved last
\* (generate_node, get_stream_response, get_last_sources).
THEOREM AnswersGrounded == Spec => []AnswersAreGrounded
<1>1. CInv => AnswersAreGrounded
  <2> SUFFICES ASSUME CInv, NEW t \in Turns, pc[t] = "reply"
               PROVE  /\ Own(t) => /\ shown[t] # {}
                                   /\ \A m \in shown[t] : m.turn = t
                                   /\ shownSources[t] = cited[t]
                      /\ Said(t, "model") \in shown[t] => cited[t] = {<<t, rewrites[t]>>}
                      /\ Said(t, "refusal") \in shown[t] => cited[t] = {}
    BY DEF AnswersAreGrounded, Own
  <2>1. PICK by \in Answers : Ends(messages[t], Said(t, by)) /\ cited[t] = Cites(t, by)
    BY DEF CInv, AnsweredInv, Answered
  <2>2. messages[t] \in Seq(Message)
    BY DEF CInv, TypeOK
  <2>3. \A x : x \in LastOf(messages[t]) <=> x = Said(t, by)
    BY <2>1, <2>2, LastFacts DEF Ends
  <2>4. Said(t, by).turn = t
    BY SaidMessage DEF Answers
  <2>5. Own(t) => shown[t] = LastOf(messages[t]) /\ shownSources[t] = cited[t]
    BY DEF CInv, ShownInv
  <2>6. ASSUME NEW b \in Answers, Said(t, b) \in shown[t] PROVE b = by
    <3>1. Said(t, b) = Said(t, by)
      BY <2>1, <2>6 DEF CInv, ShownInv, Ends
    <3> QED BY <3>1, SaidDistinct DEF Answers
  <2> QED BY <2>1, <2>3, <2>4, <2>5, <2>6 DEF Cites, Answers
<1> QED BY <1>1, ChatInvariance, PTL

\* What was cleared while nothing ran does not come back
\* (clear_chat_history).
THEOREM ClearIsFinal == Spec => []ClearedStaysCleared
<1>1. CInv => ClearedStaysCleared
  BY DEF CInv, ClearedInv, FreeOf, ClearedStaysCleared
<1> QED BY <1>1, ChatInvariance, PTL

\* No turn loses the answer of another that had ended before it began.
THEOREM AnswersKept == Spec => []AnsweredIsKept
<1>1. CInv => AnsweredIsKept
  BY DEF CInv, KeptInv, Paired, AnsweredIsKept
<1> QED BY <1>1, ChatInvariance, PTL

=============================================================================
