-------------------------- MODULE EvaluationProofs --------------------------
(***************************************************************************)
(* Proofs about the evaluation of traces: what a report says is what was   *)
(* scored, nothing is scored twice unless evaluations ran side by side,    *)
(* and a command that ends well has the report that was asked for.         *)
(***************************************************************************)
EXTENDS Evaluation, FiniteSetTheorems, TLAPS

Report ==
    [total_traces : Nat, successful_traces : Nat, failed_traces : Nat,
     success_count : [Metrics -> Nat], failure_count : [Metrics -> Nat]]

TypeOK ==
    /\ malformed \subseteq Trace
    /\ recorded \in 0 .. TraceCount /\ expired \in Nat
    /\ scores \in [Trace -> [Metrics -> Nat]]
    /\ pc \in [Evaluators -> {"none", "fetch", "evaluate", "display"} \cup Ended]
    /\ quick \in [Evaluators -> BOOLEAN] /\ wanted \in [Evaluators -> BOOLEAN]
    /\ traces \in [Evaluators -> SUBSET Trace]
    /\ left \in [Evaluators -> SUBSET Metrics]
    /\ succeeded \in [Evaluators -> SUBSET Metrics]
    /\ attempts \in [Evaluators -> Nat]
    /\ report \in [Evaluators -> Report]
    /\ saved \in [Evaluators -> BOOLEAN]
    /\ queue \in [Evaluators -> SUBSET (Trace \X Metrics)]
    /\ pushed \in [Evaluators -> SUBSET (Trace \X Metrics)]
    /\ overlapped \in BOOLEAN

\* What a command holds at each place of its program.
PhaseInv ==
    \A e \in Evaluators :
        /\ pc[e] \in {"none", "fetch"} =>
              /\ pushed[e] = {} /\ traces[e] = {} /\ succeeded[e] = {}
              /\ report[e] = InitialReport
        /\ saved[e] => pc[e] \notin {"none", "fetch", "evaluate"}
        /\ pc[e] = "display" => traces[e] = {}
        /\ pc[e] = "exit 0" => traces[e] = {} /\ (wanted[e] => saved[e])
        /\ queue[e] # {} => Running(e)
        /\ queue[e] \subseteq pushed[e]

\* Of the traces still to be evaluated only the one under way has scores from
\* this command, by the metrics that succeeded.
TraceOK(e) ==
    pc[e] = "evaluate" =>
        /\ traces[e] = {} => left[e] = Metrics
        /\ succeeded[e] \cap left[e] = {}
        /\ traces[e] = {} => succeeded[e] = {}
        /\ \A t \in traces[e], m \in Metrics :
              <<t, m>> \in pushed[e] <=> UnderWay(e, t) /\ m \in succeeded[e]

TraceInv == \A e \in Evaluators : TraceOK(e)

\* Without commands side by side, a score of a trace still to be evaluated is
\* a score by this command, and what is queued has not arrived.
ScoreInv ==
    ~overlapped =>
        /\ \A e, f \in Evaluators : Running(e) /\ Running(f) => e = f
        /\ \A t \in Trace, m \in Metrics : scores[t][m] <= 1
        /\ \A e \in Evaluators : \A t \in Trace, m \in Metrics :
              /\ <<t, m>> \in queue[e] => scores[t][m] = 0
              /\ pc[e] = "evaluate" /\ t \in traces[e] /\ scores[t][m] # 0
                    => <<t, m>> \in pushed[e]

ScoredBy(e, m) == {t \in Trace : <<t, m>> \in pushed[e]}

Whole(e) == {t \in Trace : \A m \in Metrics : <<t, m>> \in pushed[e]}

\* The report of a running command counts the traces behind it and, of the
\* trace under way, the metrics behind it.
TallyOK(e) ==
    /\ pc[e] = "evaluate" =>
          /\ report[e].successful_traces = Cardinality(Whole(e) \ traces[e])
          /\ report[e].successful_traces + report[e].failed_traces
               + Cardinality(traces[e]) = report[e].total_traces
          /\ \A m \in Metrics :
                /\ report[e].success_count[m] = Cardinality(ScoredBy(e, m))
                /\ report[e].success_count[m] + report[e].failure_count[m]
                     + Cardinality(traces[e])
                     = report[e].total_traces + (IF m \in left[e] THEN 0 ELSE 1)
    /\ saved[e] =>
          /\ report[e].successful_traces = Cardinality(Whole(e))
          /\ report[e].successful_traces + report[e].failed_traces
               = report[e].total_traces
          /\ \A m \in Metrics :
                /\ report[e].success_count[m] = Cardinality(ScoredBy(e, m))
                /\ report[e].success_count[m] + report[e].failure_count[m]
                     = report[e].total_traces

TallyInv == \A e \in Evaluators : TallyOK(e)

IInv == TypeOK /\ PhaseInv /\ TraceInv /\ ScoreInv /\ TallyInv

-----------------------------------------------------------------------------
(***************************************************************************)
(* Finite sets of traces.                                                  *)
(***************************************************************************)

LEMMA TraceFinite ==
    ASSUME NEW S \in SUBSET Trace
    PROVE  IsFiniteSet(S) /\ Cardinality(S) \in Nat
<1>1. IsFiniteSet(Trace)
  BY EvaluationAssumption, FS_Interval DEF Trace
<1> QED BY <1>1, FS_Subset, FS_CardinalityType

LEMMA TraceAdded ==
    ASSUME NEW S \in SUBSET Trace, NEW t \in Trace, t \notin S
    PROVE  Cardinality(S \cup {t}) = Cardinality(S) + 1
BY TraceFinite, FS_AddElement

LEMMA TraceRemoved ==
    ASSUME NEW S \in SUBSET Trace, NEW t \in S
    PROVE  /\ Cardinality(S \ {t}) \in Nat
           /\ Cardinality(S) = Cardinality(S \ {t}) + 1
BY TraceFinite, FS_RemoveElement

\* The trace under way is the first of those that are left.
LEMMA OneUnderWay ==
    ASSUME TypeOK, NEW e \in Evaluators, NEW t, NEW u, UnderWay(e, t), UnderWay(e, u)
    PROVE  t = u
BY DEF TypeOK, UnderWay, Trace

LEMMA MetricLeft ==
    ASSUME NEW e \in Evaluators, left[e] # {}
    PROVE  Metric(e) \in left[e]
BY DEF Metric

-----------------------------------------------------------------------------
(***************************************************************************)
(* Types.                                                                  *)
(***************************************************************************)

LEMMA ScoresType ==
    ASSUME TypeOK, NEW arrived
    PROVE  WithScores(arrived) \in [Trace -> [Metrics -> Nat]]
BY DEF TypeOK, WithScores

LEMMA ExitType ==
    ASSUME TypeOK, NEW e \in Evaluators, NEW code \in Ended, Exit(e, code),
           UNCHANGED <<world, traces, report, saved, pushed, overlapped>>
    PROVE  TypeOK'
<1>1. scores' \in [Trace -> [Metrics -> Nat]]
  BY ScoresType DEF Exit
<1> QED BY <1>1 DEF TypeOK, Exit, Forget, GoTo, world

\* Counting in a report changes one number of it.
LEMMA SuccessCounted ==
    ASSUME TypeOK, NEW e \in Evaluators, NEW m \in Metrics,
           report' = [report EXCEPT ![e].success_count[m] = @ + 1]
    PROVE  /\ report' \in [Evaluators -> Report]
           /\ \A f \in Evaluators \ {e} : report'[f] = report[f]
           /\ report'[e] = [report[e] EXCEPT !.success_count =
                               [report[e].success_count EXCEPT ![m] = @ + 1]]
<1> DEFINE r == [report[e] EXCEPT !.success_count =
                    [report[e].success_count EXCEPT ![m] = @ + 1]]
<1>1. report' = [report EXCEPT ![e] = r] /\ report[e] \in Report
  BY DEF TypeOK
<1>2. [report[e].success_count EXCEPT ![m] = @ + 1] \in [Metrics -> Nat]
  BY <1>1 DEF Report
<1>3. r \in Report
  BY <1>1, <1>2 DEF Report
<1> HIDE DEF r
<1>4. report'[e] = r
  BY <1>1 DEF TypeOK
<1> QED BY <1>1, <1>3, <1>4 DEF TypeOK, r

LEMMA FailureCounted ==
    ASSUME TypeOK, NEW e \in Evaluators, NEW m \in Metrics,
           report' = [report EXCEPT ![e].failure_count[m] = @ + 1]
    PROVE  /\ report' \in [Evaluators -> Report]
           /\ \A f \in Evaluators \ {e} : report'[f] = report[f]
           /\ report'[e] = [report[e] EXCEPT !.failure_count =
                               [report[e].failure_count EXCEPT ![m] = @ + 1]]
<1> DEFINE r == [report[e] EXCEPT !.failure_count =
                    [report[e].failure_count EXCEPT ![m] = @ + 1]]
<1>1. report' = [report EXCEPT ![e] = r] /\ report[e] \in Report
  BY DEF TypeOK
<1>2. [report[e].failure_count EXCEPT ![m] = @ + 1] \in [Metrics -> Nat]
  BY <1>1 DEF Report
<1>3. r \in Report
  BY <1>1, <1>2 DEF Report
<1> HIDE DEF r
<1>4. report'[e] = r
  BY <1>1 DEF TypeOK
<1> QED BY <1>1, <1>3, <1>4 DEF TypeOK, r

LEMMA TraceCounted ==
    ASSUME TypeOK, NEW e \in Evaluators,
           report' = IF Successful(e)
                     THEN [report EXCEPT ![e].successful_traces = @ + 1]
                     ELSE [report EXCEPT ![e].failed_traces = @ + 1]
    PROVE  /\ report' \in [Evaluators -> Report]
           /\ \A f \in Evaluators \ {e} : report'[f] = report[f]
           /\ report'[e] = IF Successful(e)
                           THEN [report[e] EXCEPT !.successful_traces = @ + 1]
                           ELSE [report[e] EXCEPT !.failed_traces = @ + 1]
<1> DEFINE r == IF Successful(e)
                THEN [report[e] EXCEPT !.successful_traces = @ + 1]
                ELSE [report[e] EXCEPT !.failed_traces = @ + 1]
<1>1. report[e] \in Report
  BY DEF TypeOK
<1>2. report' = [report EXCEPT ![e] = r]
  OBVIOUS
<1>3. r \in Report
  BY <1>1 DEF Report
<1> HIDE DEF r
<1>4. report'[e] = r
  BY <1>2 DEF TypeOK
<1> QED BY <1>2, <1>3, <1>4 DEF TypeOK, r

LEMMA TypeStep == TypeOK /\ [Next]_vars => TypeOK'
<1> SUFFICES ASSUME TypeOK, [Next]_vars PROVE TypeOK' OBVIOUS
<1> USE EvaluationAssumption
<1>1. CASE RecordTrace
  BY <1>1 DEF TypeOK, RecordTrace, options, progress
<1>2. CASE Expire
  BY <1>2 DEF TypeOK, Expire, options, progress
<1>3. ASSUME NEW e \in Evaluators, Start(e) PROVE TypeOK'
  BY <1>3 DEF TypeOK, Start, GoTo, world, progress
<1>4. ASSUME NEW e \in Evaluators, FetchTraces(e) PROVE TypeOK'
  <2>1. PICK fetched \in SUBSET Trace :
            /\ traces' = [traces EXCEPT ![e] = fetched]
            /\ report' = [report EXCEPT ![e].total_traces = Cardinality(fetched)]
    <3> DEFINE listed == {t \in OfTheDay : t <= expired + FetchLimit}
    <3>1. ToEvaluate(listed) \subseteq Trace
      BY DEF TypeOK, ToEvaluate, OfTheDay, Trace
    <3>2. {} \subseteq Trace
      OBVIOUS
    <3> HIDE DEF listed
    <3>3. PICK fetched \in {{}, ToEvaluate(listed)} :
              /\ traces' = [traces EXCEPT ![e] = fetched]
              /\ report' = [report EXCEPT ![e].total_traces = Cardinality(fetched)]
      BY <1>4 DEF FetchTraces, listed
    <3> QED BY <3>1, <3>2, <3>3
  <2>2. Cardinality(fetched) \in Nat
    BY TraceFinite
  <2>3. report' \in [Evaluators -> Report]
    BY <2>1, <2>2 DEF TypeOK, Report
  <2> QED BY <1>4, <2>1, <2>3 DEF TypeOK, FetchTraces, GoTo, world, options
<1>5. ASSUME NEW e \in Evaluators, NEW t \in traces[e], Judged(e, t) PROVE TypeOK'
  <2>1. Metric(e) \in left[e]
    BY <1>5, MetricLeft DEF Judged, Evaluating
  <2>2. Metric(e) \in Metrics /\ t \in Trace
    BY <2>1 DEF TypeOK
  <2>3. report' \in [Evaluators -> Report]
    BY <1>5, <2>2, SuccessCounted DEF Judged, Succeeds
  <2> QED BY <1>5, <2>2, <2>3 DEF TypeOK, Judged, Succeeds, NextMetric, world, options
<1>6. ASSUME NEW e \in Evaluators, NEW t \in traces[e], NotJudged(e, t) PROVE TypeOK'
  <2>1. Metric(e) \in left[e]
    BY <1>6, MetricLeft DEF NotJudged, Evaluating
  <2>2. report' \in [Evaluators -> Report]
    BY <1>6, <2>1, FailureCounted DEF TypeOK, NotJudged, Fails
  <2> QED BY <1>6, <2>1, <2>2 DEF TypeOK, NotJudged, Fails, NextMetric, world, options
<1>7. ASSUME NEW e \in Evaluators, NEW t \in traces[e], JudgeCallFails(e, t) PROVE TypeOK'
  BY <1>7 DEF TypeOK, JudgeCallFails, world, options
<1>8. ASSUME NEW e \in Evaluators, NEW t \in traces[e], ProcessTraceResults(e, t)
      PROVE TypeOK'
  <2>1. report' \in [Evaluators -> Report]
    BY <1>8, TraceCounted DEF ProcessTraceResults
  <2> QED BY <1>8, <2>1 DEF TypeOK, ProcessTraceResults, world, options
<1>9. ASSUME NEW e \in Evaluators, GenerateReport(e) PROVE TypeOK'
  BY <1>9 DEF TypeOK, GenerateReport, GoTo, world, options, progress
<1>10. ASSUME NEW e \in Evaluators, DisplaySummary(e) PROVE TypeOK'
  BY <1>10, ExitType DEF DisplaySummary, Ended
<1>11. ASSUME NEW e \in Evaluators, EvaluationFails(e) PROVE TypeOK'
  BY <1>11, ExitType DEF EvaluationFails, Ended
<1>12. ASSUME NEW e \in Evaluators, Interrupt(e) PROVE TypeOK'
  BY <1>12, ExitType DEF Interrupt, Ended
<1>13. ASSUME NEW e \in Evaluators, Kill(e) PROVE TypeOK'
  BY <1>13 DEF TypeOK, Kill, Forget, GoTo, Ended, world
<1>14. ASSUME NEW e \in Evaluators, Deliver(e) PROVE TypeOK'
  <2>1. scores' \in [Trace -> [Metrics -> Nat]]
    BY <1>14, ScoresType DEF Deliver
  <2> QED BY <1>14, <2>1 DEF TypeOK, Deliver, world, options, progress
<1>15. CASE UNCHANGED vars
  BY <1>15 DEF TypeOK, vars, world, options, progress
<1> QED
  BY <1>1, <1>2, <1>3, <1>4, <1>5, <1>6, <1>7, <1>8, <1>9, <1>10, <1>11, <1>12,
     <1>13, <1>14, <1>15 DEF Next

-----------------------------------------------------------------------------
(***************************************************************************)
(* The places of a command's program.                                      *)
(***************************************************************************)

\* A command ends: what it scored and its report stay, its queue is gone.
LEMMA ExitPhase ==
    ASSUME TypeOK, PhaseInv, NEW e \in Evaluators,
           NEW code \in {"exit 0", "exit 1", "canceled", "killed"}, Running(e), Exit(e, code), code = "exit 0" => saved[e] /\ traces[e] = {},
           UNCHANGED <<world, traces, report, saved, pushed, overlapped>>
    PROVE  PhaseInv'
<1>1. pc' = [pc EXCEPT ![e] = code] /\ queue' = [queue EXCEPT ![e] = {}]
      /\ succeeded' = [succeeded EXCEPT ![e] = {}] /\ wanted' = wanted
  BY DEF Exit, Forget, GoTo
<1> QED BY <1>1 DEF TypeOK, PhaseInv, Running, Ended

LEMMA PhaseStep == TypeOK /\ PhaseInv /\ [Next]_vars => PhaseInv'
<1> SUFFICES ASSUME TypeOK, PhaseInv, [Next]_vars PROVE PhaseInv' OBVIOUS
<1>1. CASE RecordTrace
  BY <1>1 DEF PhaseInv, RecordTrace, options, progress, Running
<1>2. CASE Expire
  BY <1>2 DEF PhaseInv, Expire, options, progress, Running
<1>3. ASSUME NEW e \in Evaluators, Start(e) PROVE PhaseInv'
  BY <1>3 DEF TypeOK, PhaseInv, Start, GoTo, world, progress, Running, Ended
<1>4. ASSUME NEW e \in Evaluators, FetchTraces(e) PROVE PhaseInv'
  BY <1>4 DEF TypeOK, PhaseInv, FetchTraces, GoTo, options, Running, Ended
<1>5. ASSUME NEW e \in Evaluators, NEW t \in traces[e], Judged(e, t) PROVE PhaseInv'
  BY <1>5 DEF TypeOK, PhaseInv, Judged, Evaluating, Succeeds, NextMetric, options, Running,
         Ended
<1>6. ASSUME NEW e \in Evaluators, NEW t \in traces[e], NotJudged(e, t) PROVE PhaseInv'
  BY <1>6 DEF TypeOK, PhaseInv, NotJudged, Evaluating, Fails, NextMetric, options, Running,
         Ended
<1>7. ASSUME NEW e \in Evaluators, NEW t \in traces[e], JudgeCallFails(e, t)
      PROVE PhaseInv'
  BY <1>7 DEF PhaseInv, JudgeCallFails, options, Running
<1>8. ASSUME NEW e \in Evaluators, NEW t \in traces[e], ProcessTraceResults(e, t)
      PROVE PhaseInv'
  BY <1>8 DEF TypeOK, PhaseInv, ProcessTraceResults, options, Running, Ended
<1>9. ASSUME NEW e \in Evaluators, GenerateReport(e) PROVE PhaseInv'
  BY <1>9 DEF TypeOK, PhaseInv, GenerateReport, GoTo, options, progress, Running, Ended
<1>10. ASSUME NEW e \in Evaluators, DisplaySummary(e) PROVE PhaseInv'
  <2> DEFINE code == IF saved[e] THEN "exit 0" ELSE "exit 1"
  <2>1. code \in {"exit 0", "exit 1", "canceled", "killed"} /\ (code = "exit 0" => saved[e])
    OBVIOUS
  <2>2. Running(e) /\ traces[e] = {}
    BY <1>10 DEF DisplaySummary, PhaseInv, Running, Ended
  <2>3. Exit(e, code) /\ UNCHANGED <<world, traces, report, saved, pushed, overlapped>>
    BY <1>10 DEF DisplaySummary
  <2> QED BY <2>1, <2>2, <2>3, ExitPhase
<1>11. ASSUME NEW e \in Evaluators, EvaluationFails(e) PROVE PhaseInv'
  <2>1. Running(e)
    BY <1>11 DEF EvaluationFails, Raising, Evaluating, Running, Ended
  <2> QED BY <1>11, <2>1, ExitPhase DEF EvaluationFails
<1>12. ASSUME NEW e \in Evaluators, Interrupt(e) PROVE PhaseInv'
  <2> DEFINE code == IF quick[e] THEN "canceled" ELSE "killed"
  <2>1. code \in {"exit 0", "exit 1", "canceled", "killed"} /\ code # "exit 0"
    OBVIOUS
  <2>2. Running(e) /\ Exit(e, code)
        /\ UNCHANGED <<world, traces, report, saved, pushed, overlapped>>
    BY <1>12 DEF Interrupt
  <2> QED BY <2>1, <2>2, ExitPhase
<1>13. ASSUME NEW e \in Evaluators, Kill(e) PROVE PhaseInv'
  BY <1>13 DEF TypeOK, PhaseInv, Kill, Forget, GoTo, Running, Ended
<1>14. ASSUME NEW e \in Evaluators, Deliver(e) PROVE PhaseInv'
  BY <1>14 DEF TypeOK, PhaseInv, Deliver, options, progress, Running
<1>15. CASE UNCHANGED vars
  BY <1>15 DEF PhaseInv, vars, options, progress, Running
<1> QED
  BY <1>1, <1>2, <1>3, <1>4, <1>5, <1>6, <1>7, <1>8, <1>9, <1>10, <1>11, <1>12,
     <1>13, <1>14, <1>15 DEF Next

-----------------------------------------------------------------------------
(***************************************************************************)
(* The traces still to be evaluated.                                       *)
(***************************************************************************)

\* A step that leaves a command's evaluation alone, or ends it.
LEMMA TraceKept ==
    ASSUME TypeOK, NEW e \in Evaluators, TraceOK(e),
           \/ pc'[e] # "evaluate"
           \/ UNCHANGED <<pc[e], traces[e], left[e], succeeded[e], pushed[e]>>
    PROVE  TraceOK(e)'
BY DEF TraceOK, UnderWay

LEMMA TraceStep == TypeOK /\ PhaseInv /\ TraceInv /\ [Next]_vars => TraceInv'
<1> SUFFICES ASSUME TypeOK, PhaseInv, TraceInv, [Next]_vars,
                    NEW f \in Evaluators
             PROVE  TraceOK(f)'
  BY DEF TraceInv, TraceOK
<1>0. \A g \in Evaluators : TraceOK(g)
  BY DEF TraceInv, TraceOK
<1>1. CASE RecordTrace
  BY <1>0, <1>1, TraceKept DEF RecordTrace, progress
<1>2. CASE Expire
  BY <1>0, <1>2, TraceKept DEF Expire, progress
<1>3. ASSUME NEW e \in Evaluators, Start(e) PROVE TraceOK(f)'
  BY <1>0, <1>3, TraceKept DEF TypeOK, Start, GoTo, progress
<1>4. ASSUME NEW e \in Evaluators, FetchTraces(e) PROVE TraceOK(f)'
  <2>1. CASE f = e
    <3>1. left'[e] = Metrics /\ succeeded'[e] = {} /\ pushed'[e] = {}
      BY <1>4 DEF FetchTraces, TypeOK, PhaseInv
    <3> QED BY <2>1, <3>1 DEF TraceOK
  <2>2. CASE f # e
    BY <1>0, <1>4, <2>2, TraceKept DEF FetchTraces, GoTo, TypeOK
  <2> QED BY <2>1, <2>2
<1>5. ASSUME NEW e \in Evaluators, NEW t \in traces[e], Judged(e, t) PROVE TraceOK(f)'
  <2>1. CASE f = e
    <3> DEFINE m == Metric(e)
    <3>1. m \in left[e] /\ m \in Metrics
      BY <1>5, MetricLeft DEF Judged, Evaluating, TypeOK
    <3> HIDE DEF m
    <3>2. /\ succeeded'[e] = succeeded[e] \cup {m} /\ left'[e] = left[e] \ {m}
          /\ pushed'[e] = pushed[e] \cup {<<t, m>>} /\ traces' = traces
      BY <1>5 DEF Judged, Succeeds, NextMetric, TypeOK, m
    <3>3. UnderWay(e, t) /\ pc[e] = "evaluate" /\ t \in traces[e]
      BY <1>5 DEF Judged, Evaluating, UnderWay
    <3>4. ASSUME NEW u \in traces[e], NEW n \in Metrics
          PROVE  <<u, n>> \in pushed'[e] <=> UnderWay(e, u) /\ n \in succeeded'[e]
      <4>1. <<u, n>> \in pushed[e] <=> UnderWay(e, u) /\ n \in succeeded[e]
        BY <1>0, <3>3 DEF TraceOK
      <4>2. UnderWay(e, u) => u = t
        BY <3>3, OneUnderWay
      <4> QED BY <3>2, <3>3, <4>1, <4>2
    <3>5. succeeded[e] \cap left[e] = {}
      BY <1>0, <3>3 DEF TraceOK
    <3>6. succeeded'[e] \cap left'[e] = {}
      BY <3>2, <3>5
    <3> QED BY <2>1, <3>2, <3>3, <3>4, <3>6 DEF TraceOK, UnderWay
  <2>2. CASE f # e
    BY <1>0, <1>5, <2>2, TraceKept DEF Judged, Succeeds, NextMetric, TypeOK
  <2> QED BY <2>1, <2>2
<1>6. ASSUME NEW e \in Evaluators, NEW t \in traces[e], NotJudged(e, t) PROVE TraceOK(f)'
  <2>1. CASE f = e
    <3>1. UNCHANGED <<succeeded, pushed, traces>> /\ left'[e] \subseteq left[e]
      BY <1>6 DEF NotJudged, Fails, NextMetric, TypeOK
    <3>2. pc[e] = "evaluate"
      BY <1>6 DEF NotJudged, Evaluating
    <3> QED BY <1>0, <2>1, <3>1, <3>2 DEF TraceOK, UnderWay
  <2>2. CASE f # e
    BY <1>0, <1>6, <2>2, TraceKept DEF NotJudged, Fails, NextMetric, TypeOK
  <2> QED BY <2>1, <2>2
<1>7. ASSUME NEW e \in Evaluators, NEW t \in traces[e], JudgeCallFails(e, t)
      PROVE  TraceOK(f)'
  BY <1>0, <1>7, TraceKept DEF JudgeCallFails
<1>8. ASSUME NEW e \in Evaluators, NEW t \in traces[e], ProcessTraceResults(e, t)
      PROVE  TraceOK(f)'
  <2>1. CASE f = e
    <3>1. /\ succeeded'[e] = {} /\ left'[e] = Metrics /\ UNCHANGED pushed
          /\ traces'[e] = traces[e] \ {t}
      BY <1>8 DEF ProcessTraceResults, TypeOK
    <3>2. UnderWay(e, t) /\ pc[e] = "evaluate"
      BY <1>8 DEF ProcessTraceResults
    <3>3. ASSUME NEW u \in traces'[e], NEW n \in Metrics PROVE <<u, n>> \notin pushed[e]
      BY <1>0, <3>1, <3>2, OneUnderWay DEF TraceOK
    <3> QED BY <2>1, <3>1, <3>3 DEF TraceOK
  <2>2. CASE f # e
    BY <1>0, <1>8, <2>2, TraceKept DEF ProcessTraceResults, TypeOK
  <2> QED BY <2>1, <2>2
<1>9. ASSUME NEW e \in Evaluators, GenerateReport(e) PROVE TraceOK(f)'
  BY <1>0, <1>9, TraceKept DEF GenerateReport, GoTo, progress, TypeOK
<1>10. ASSUME NEW e \in Evaluators, NEW code \in Ended, Exit(e, code),
              UNCHANGED <<world, traces, report, saved, pushed, overlapped>>
       PROVE  TraceOK(f)'
  BY <1>0, <1>10, TraceKept DEF Exit, Forget, GoTo, TypeOK, Ended
<1>11. ASSUME NEW e \in Evaluators, DisplaySummary(e) PROVE TraceOK(f)'
  BY <1>10, <1>11 DEF DisplaySummary, Ended
<1>12. ASSUME NEW e \in Evaluators, EvaluationFails(e) PROVE TraceOK(f)'
  BY <1>10, <1>12 DEF EvaluationFails, Ended
<1>13. ASSUME NEW e \in Evaluators, Interrupt(e) PROVE TraceOK(f)'
  BY <1>10, <1>13 DEF Interrupt, Ended
<1>14. ASSUME NEW e \in Evaluators, Kill(e) PROVE TraceOK(f)'
  BY <1>0, <1>14, TraceKept DEF Kill, Forget, GoTo, TypeOK
<1>15. ASSUME NEW e \in Evaluators, Deliver(e) PROVE TraceOK(f)'
  BY <1>0, <1>15, TraceKept DEF Deliver, progress
<1>16. CASE UNCHANGED vars
  BY <1>0, <1>16, TraceKept DEF vars, progress
<1> QED
  BY <1>1, <1>2, <1>3, <1>4, <1>5, <1>6, <1>7, <1>8, <1>9, <1>11, <1>12, <1>13,
     <1>14, <1>15, <1>16 DEF Next

-----------------------------------------------------------------------------
(***************************************************************************)
(* The scores.                                                             *)
(***************************************************************************)

\* What arrives is part of one command's queue, of scores not yet there.
LEMMA Arrival ==
    ASSUME TypeOK, ScoreInv, ~overlapped, NEW e \in Evaluators,
           NEW arrived \in SUBSET queue[e], scores' = WithScores(arrived),
           NEW t \in Trace, NEW m \in Metrics
    PROVE  /\ scores'[t][m] <= 1
           /\ scores'[t][m] # 0 => scores[t][m] # 0 \/ <<t, m>> \in queue[e]
<1>1. scores'[t][m] = scores[t][m] + (IF <<t, m>> \in arrived THEN 1 ELSE 0)
  BY DEF WithScores
<1>2. scores[t][m] \in Nat
  BY DEF TypeOK
<1> QED BY <1>1, <1>2 DEF ScoreInv

\* The only command that may run ends: nothing is queued any more.
LEMMA ExitScores ==
    ASSUME TypeOK, PhaseInv, ScoreInv, NEW e \in Evaluators, NEW code \in Ended,
           Running(e), Exit(e, code), UNCHANGED overlapped
    PROVE  ScoreInv'
<1> SUFFICES ASSUME ~overlapped PROVE ScoreInv'
  BY DEF ScoreInv
<1>1. PICK arrived \in SUBSET queue[e] : scores' = WithScores(arrived)
  BY DEF Exit
<1>2. \A t \in Trace, m \in Metrics : scores'[t][m] <= 1
  BY <1>1, Arrival
<1>3. ASSUME NEW f \in Evaluators PROVE pc'[f] = code \/ ~Running(f)
  BY DEF Exit, GoTo, TypeOK, ScoreInv
<1>4. ASSUME NEW f \in Evaluators PROVE queue'[f] = {}
  BY <1>3 DEF Exit, Forget, TypeOK, PhaseInv, ScoreInv
<1>5. ASSUME NEW f \in Evaluators PROVE ~(Running(f)')
  BY <1>3 DEF Exit, GoTo, Running, TypeOK
<1>6. ASSUME NEW f \in Evaluators PROVE pc'[f] # "evaluate"
  BY <1>5 DEF Running, Ended
<1> QED BY <1>2, <1>4, <1>5, <1>6 DEF ScoreInv

\* A step that leaves the scores, and what is queued and running, alone.
LEMMA ScoresKept ==
    ASSUME ScoreInv, UNCHANGED <<scores, pc, queue, pushed, overlapped>>,
           \A f \in Evaluators : traces'[f] \subseteq traces[f]
    PROVE  ScoreInv'
BY DEF ScoreInv, Running

\* A step of a command that neither scores nor fetches.
LEMMA ScoresShrink ==
    ASSUME ScoreInv, UNCHANGED <<scores, traces, pushed, overlapped>>,
           \A f \in Evaluators : /\ Running(f)' => Running(f)
                                 /\ pc'[f] = "evaluate" => pc[f] = "evaluate"
                                 /\ queue'[f] \subseteq queue[f]
    PROVE  ScoreInv'
<1> SUFFICES ASSUME ~overlapped PROVE ScoreInv'
  BY DEF ScoreInv
<1>1. \A e, f \in Evaluators : Running(e)' /\ Running(f)' => e = f
  BY DEF ScoreInv, Running
<1>2. ASSUME NEW e \in Evaluators, NEW t \in Trace, NEW m \in Metrics
      PROVE  /\ <<t, m>> \in queue'[e] => scores'[t][m] = 0
             /\ pc'[e] = "evaluate" /\ t \in traces'[e] /\ scores'[t][m] # 0
                   => <<t, m>> \in pushed'[e]
  <2>1. queue'[e] \subseteq queue[e] /\ (pc'[e] = "evaluate" => pc[e] = "evaluate")
    BY DEF Running
  <2> QED BY <2>1 DEF ScoreInv
<1>3. \A t \in Trace, m \in Metrics : scores'[t][m] <= 1
  BY DEF ScoreInv
<1> QED BY <1>1, <1>2, <1>3 DEF ScoreInv

LEMMA ScoreStep ==
    TypeOK /\ PhaseInv /\ TraceInv /\ ScoreInv /\ [Next]_vars => ScoreInv'
<1> SUFFICES ASSUME TypeOK, PhaseInv, TraceInv, ScoreInv, [Next]_vars PROVE ScoreInv'
  OBVIOUS
<1>1. CASE RecordTrace
  BY <1>1, ScoresKept DEF RecordTrace
<1>2. CASE Expire
  BY <1>2, ScoresKept DEF Expire
<1>3. ASSUME NEW e \in Evaluators, Start(e) PROVE ScoreInv'
  <2> SUFFICES ASSUME ~(overlapped') PROVE ScoreInv'
    BY DEF ScoreInv
  <2>1. ~overlapped /\ \A f \in Evaluators : ~Running(f)
    BY <1>3 DEF Start, TypeOK
  <2>2. pc' = [pc EXCEPT ![e] = "fetch"] /\ UNCHANGED <<scores, queue, traces, pushed>>
    BY <1>3 DEF Start, GoTo
  <2>3. \A f \in Evaluators : (Running(f)' => f = e) /\ pc'[f] # "evaluate"
    BY <2>1, <2>2 DEF Running, Ended, TypeOK
  <2> QED BY <2>1, <2>2, <2>3 DEF ScoreInv
<1>4. ASSUME NEW e \in Evaluators, FetchTraces(e) PROVE ScoreInv'
  <2>1. PICK fetched \in {{}, ToEvaluate({t \in OfTheDay : t <= expired + FetchLimit})} :
            traces' = [traces EXCEPT ![e] = fetched]
    BY <1>4 DEF FetchTraces
  <2>2. \A t \in fetched, m \in Metrics : scores[t][m] = 0
    BY <2>1 DEF ToEvaluate
  <2>3. /\ pc' = [pc EXCEPT ![e] = "evaluate"] /\ pc[e] = "fetch"
        /\ UNCHANGED <<scores, queue, pushed, overlapped>>
    BY <1>4 DEF FetchTraces, GoTo
  <2>4. \A f \in Evaluators : Running(f)' => Running(f)
    BY <2>3 DEF Running, Ended, TypeOK
  <2>5. \A f \in Evaluators \ {e} : pc'[f] = pc[f] /\ traces'[f] = traces[f]
    BY <2>1, <2>3 DEF TypeOK
  <2>6. traces'[e] = fetched
    BY <2>1 DEF TypeOK
  <2> QED BY <2>2, <2>3, <2>4, <2>5, <2>6 DEF ScoreInv
<1>5. ASSUME NEW e \in Evaluators, NEW t \in traces[e], Judged(e, t) PROVE ScoreInv'
  <2> DEFINE m == Metric(e)
  <2>1. m \in left[e] /\ m \in Metrics /\ pc[e] = "evaluate" /\ t \in Trace
    BY <1>5, MetricLeft DEF Judged, Evaluating, TypeOK
  <2> HIDE DEF m
  <2>2. <<t, m>> \notin pushed[e]
    BY <2>1 DEF TraceInv, TraceOK
  <2>3. /\ queue' = [queue EXCEPT ![e] = @ \cup {<<t, m>>}]
        /\ pushed' = [pushed EXCEPT ![e] = @ \cup {<<t, m>>}]
        /\ UNCHANGED <<scores, pc, traces, overlapped>>
    BY <1>5 DEF Judged, m
  <2>4. ~overlapped => scores[t][m] = 0
    BY <2>1, <2>2 DEF ScoreInv
  <2>5. \A f \in Evaluators : Running(f)' <=> Running(f)
    BY <2>3 DEF Running
  <2>6. \A f \in Evaluators : /\ pushed[f] \subseteq pushed'[f]
                              /\ queue'[f] \subseteq queue[f] \cup {<<t, m>>}
    BY <2>3 DEF TypeOK
  <2> QED BY <2>3, <2>4, <2>5, <2>6 DEF ScoreInv
<1>6. ASSUME NEW e \in Evaluators, NEW t \in traces[e], NotJudged(e, t) PROVE ScoreInv'
  BY <1>6, ScoresKept DEF NotJudged
<1>7. ASSUME NEW e \in Evaluators, NEW t \in traces[e], JudgeCallFails(e, t)
      PROVE  ScoreInv'
  BY <1>7, ScoresKept DEF JudgeCallFails
<1>8. ASSUME NEW e \in Evaluators, NEW t \in traces[e], ProcessTraceResults(e, t)
      PROVE  ScoreInv'
  <2>1. \A f \in Evaluators : traces'[f] \subseteq traces[f]
    BY <1>8 DEF ProcessTraceResults, TypeOK
  <2> QED BY <1>8, <2>1, ScoresKept DEF ProcessTraceResults
<1>9. ASSUME NEW e \in Evaluators, GenerateReport(e) PROVE ScoreInv'
  <2>1. /\ pc' = [pc EXCEPT ![e] = "display"] /\ pc[e] = "evaluate"
        /\ UNCHANGED <<scores, traces, queue, pushed, overlapped>>
    BY <1>9 DEF GenerateReport, GoTo
  <2>2. \A f \in Evaluators : /\ Running(f)' => Running(f)
                              /\ pc'[f] = "evaluate" => pc[f] = "evaluate"
                              /\ queue'[f] \subseteq queue[f]
    BY <2>1 DEF Running, Ended, TypeOK
  <2> QED BY <2>1, <2>2, ScoresShrink
<1>10. ASSUME NEW e \in Evaluators, DisplaySummary(e) PROVE ScoreInv'
  BY <1>10, ExitScores DEF DisplaySummary, Running, Ended
<1>11. ASSUME NEW e \in Evaluators, EvaluationFails(e) PROVE ScoreInv'
  BY <1>11, ExitScores DEF EvaluationFails, Raising, Evaluating, Running, Ended
<1>12. ASSUME NEW e \in Evaluators, Interrupt(e) PROVE ScoreInv'
  BY <1>12, ExitScores DEF Interrupt, Ended
<1>13. ASSUME NEW e \in Evaluators, Kill(e) PROVE ScoreInv'
  <2>1. /\ pc' = [pc EXCEPT ![e] = "killed"] /\ queue' = [queue EXCEPT ![e] = {}]
        /\ UNCHANGED <<scores, traces, pushed, overlapped>>
    BY <1>13 DEF Kill, GoTo, Forget
  <2>2. \A f \in Evaluators : /\ Running(f)' => Running(f)
                              /\ pc'[f] = "evaluate" => pc[f] = "evaluate"
                              /\ queue'[f] \subseteq queue[f]
    BY <2>1 DEF Running, Ended, TypeOK
  <2> QED BY <2>1, <2>2, ScoresShrink
<1>14. ASSUME NEW e \in Evaluators, Deliver(e) PROVE ScoreInv'
  <2> SUFFICES ASSUME ~overlapped PROVE ScoreInv'
    BY <1>14 DEF ScoreInv, Deliver
  <2>1. /\ scores' = WithScores(queue[e]) /\ queue' = [queue EXCEPT ![e] = {}]
        /\ UNCHANGED <<pc, traces, pushed, overlapped>>
    BY <1>14 DEF Deliver
  <2>2. \A f \in Evaluators : Running(f) => f = e
    BY <1>14 DEF Deliver, PhaseInv, ScoreInv
  <2>3. \A f \in Evaluators : queue'[f] = {}
    BY <2>1, <2>2 DEF TypeOK, PhaseInv
  <2>4. \A f \in Evaluators : pc'[f] = "evaluate" => f = e
    BY <2>1, <2>2 DEF Running, Ended
  <2>5. \A t \in Trace, m \in Metrics :
            /\ scores'[t][m] <= 1
            /\ scores'[t][m] # 0 => scores[t][m] # 0 \/ <<t, m>> \in queue[e]
    BY <2>1, Arrival
  <2>6. queue[e] \subseteq pushed[e]
    BY DEF PhaseInv
  <2>7. \A f \in Evaluators : Running(f)' => Running(f)
    BY <2>1 DEF Running
  <2>8. ASSUME NEW f \in Evaluators, NEW t \in Trace, NEW m \in Metrics,
               pc'[f] = "evaluate", t \in traces'[f], scores'[t][m] # 0
        PROVE  <<t, m>> \in pushed'[f]
    <3>1. f = e /\ pc[e] = "evaluate" /\ t \in traces[e]
      BY <2>1, <2>4, <2>8
    <3>2. scores[t][m] # 0 => <<t, m>> \in pushed[e]
      BY <3>1 DEF ScoreInv
    <3> QED BY <2>1, <2>5, <2>6, <2>8, <3>1, <3>2
  <2>9. \A f, g \in Evaluators : Running(f)' /\ Running(g)' => f = g
    BY <2>2, <2>7
  <2> QED BY <2>3, <2>5, <2>8, <2>9 DEF ScoreInv
<1>15. CASE UNCHANGED vars
  BY <1>15, ScoresKept DEF vars
<1> QED
  BY <1>1, <1>2, <1>3, <1>4, <1>5, <1>6, <1>7, <1>8, <1>9, <1>10, <1>11, <1>12,
     <1>13, <1>14, <1>15 DEF Next

-----------------------------------------------------------------------------
(***************************************************************************)
(* The report.                                                             *)
(***************************************************************************)

\* A step that leaves a command's tally alone, or ends its evaluation.
LEMMA TallyKept ==
    ASSUME NEW e \in Evaluators, TallyOK(e),
           pc'[e] = "evaluate" => UNCHANGED <<pc[e], traces[e], left[e]>>,
           saved'[e] => saved[e],
           UNCHANGED <<report[e], pushed[e]>>
    PROVE  TallyOK(e)'
BY DEF TallyOK, Whole, ScoredBy

\* A step of one command leaves the others as they are.
LEMMA TallyOfOthers ==
    ASSUME TypeOK, NEW e \in Evaluators, NEW f \in Evaluators \ {e}, TallyOK(f),
           UNCHANGED <<pc[f], traces[f], left[f], report[f], saved[f], pushed[f]>>
    PROVE  TallyOK(f)'
BY TallyKept

LEMMA JudgedTally ==
    ASSUME TypeOK, PhaseInv, TraceInv, NEW e \in Evaluators, NEW t \in traces[e],
           Judged(e, t), TallyOK(e)
    PROVE  TallyOK(e)'
<1>0. PICK m : m = Metric(e)
  OBVIOUS
<1>1. m \in left[e] /\ m \in Metrics /\ pc[e] = "evaluate" /\ t \in Trace
  BY <1>0, MetricLeft DEF Judged, Evaluating, TypeOK
<1>2. report' = [report EXCEPT ![e].success_count[m] = @ + 1]
  BY <1>0 DEF Judged, Succeeds
<1>3. /\ pushed'[e] = pushed[e] \cup {<<t, m>>} /\ left'[e] = left[e] \ {m}
      /\ UNCHANGED <<pc, traces, saved>>
  BY <1>0 DEF Judged, Succeeds, NextMetric, TypeOK
<1>4. report'[e] = [report[e] EXCEPT !.success_count =
                       [report[e].success_count EXCEPT ![m] = @ + 1]]
  BY <1>1, <1>2, SuccessCounted
<1>5. report[e] \in Report
  BY DEF TypeOK
<1>6. t \notin ScoredBy(e, m)
  BY <1>1 DEF TraceInv, TraceOK, ScoredBy
<1>7. ScoredBy(e, m)' = ScoredBy(e, m) \cup {t}
  BY <1>1, <1>3 DEF ScoredBy
<1>8. Cardinality(ScoredBy(e, m)') = Cardinality(ScoredBy(e, m)) + 1
  BY <1>1, <1>6, <1>7, TraceAdded DEF ScoredBy
<1>9. \A n \in Metrics \ {m} : ScoredBy(e, n)' = ScoredBy(e, n)
  BY <1>3 DEF ScoredBy
<1>10. Whole(e)' \ traces'[e] = Whole(e) \ traces[e]
  BY <1>3 DEF Whole
<1>11. Cardinality(traces[e]) \in Nat
  BY TraceFinite DEF TypeOK
<1>12. ~saved'[e]
  BY <1>1, <1>3 DEF PhaseInv
<1>13. /\ report'[e].successful_traces = report[e].successful_traces
       /\ report'[e].failed_traces = report[e].failed_traces
       /\ report'[e].total_traces = report[e].total_traces
       /\ report'[e].failure_count = report[e].failure_count
       /\ report'[e].success_count[m] = report[e].success_count[m] + 1
       /\ \A n \in Metrics \ {m} : report'[e].success_count[n] = report[e].success_count[n]
  BY <1>1, <1>4, <1>5 DEF Report
<1>14. ASSUME NEW n \in Metrics
       PROVE  /\ report'[e].success_count[n] = Cardinality(ScoredBy(e, n)')
              /\ report'[e].success_count[n] + report'[e].failure_count[n]
                   + Cardinality(traces'[e])
                   = report'[e].total_traces + (IF n \in left'[e] THEN 0 ELSE 1)
  <2>1. /\ report[e].success_count[n] \in Nat /\ report[e].failure_count[n] \in Nat
        /\ report[e].total_traces \in Nat
    BY <1>5 DEF Report
  <2>2. /\ report[e].success_count[n] = Cardinality(ScoredBy(e, n))
        /\ report[e].success_count[n] + report[e].failure_count[n] + Cardinality(traces[e])
             = report[e].total_traces + (IF n \in left[e] THEN 0 ELSE 1)
    BY <1>1 DEF TallyOK
  <2>3. traces'[e] = traces[e]
    BY <1>3
  <2>4. CASE n = m
    BY <1>1, <1>3, <1>8, <1>11, <1>13, <2>1, <2>2, <2>3, <2>4
  <2>5. CASE n # m
    BY <1>3, <1>9, <1>11, <1>13, <2>1, <2>2, <2>3, <2>5
  <2> QED BY <2>4, <2>5
<1>15. /\ report'[e].successful_traces = Cardinality(Whole(e)' \ traces'[e])
       /\ report'[e].successful_traces + report'[e].failed_traces
            + Cardinality(traces'[e]) = report'[e].total_traces
  BY <1>1, <1>3, <1>10, <1>13 DEF TallyOK
<1> QED BY <1>12, <1>14, <1>15 DEF TallyOK

LEMMA NotJudgedTally ==
    ASSUME TypeOK, PhaseInv, NEW e \in Evaluators, NEW t \in traces[e],
           NotJudged(e, t), TallyOK(e)
    PROVE  TallyOK(e)'
<1>0. PICK m : m = Metric(e)
  OBVIOUS
<1>1. m \in left[e] /\ m \in Metrics /\ pc[e] = "evaluate"
  BY <1>0, MetricLeft DEF NotJudged, Evaluating, TypeOK
<1>2. report' = [report EXCEPT ![e].failure_count[m] = @ + 1]
  BY <1>0 DEF NotJudged, Fails
<1>3. left'[e] = left[e] \ {m} /\ UNCHANGED <<pc, traces, saved, pushed>>
  BY <1>0 DEF NotJudged, NextMetric, TypeOK
<1>4. report'[e] = [report[e] EXCEPT !.failure_count =
                       [report[e].failure_count EXCEPT ![m] = @ + 1]]
  BY <1>1, <1>2, FailureCounted
<1>5. report[e] \in Report
  BY DEF TypeOK
<1>6. Whole(e)' = Whole(e) /\ \A n \in Metrics : ScoredBy(e, n)' = ScoredBy(e, n)
  BY <1>3 DEF Whole, ScoredBy
<1>7. Cardinality(traces[e]) \in Nat
  BY TraceFinite DEF TypeOK
<1>8. ~saved'[e]
  BY <1>1, <1>3 DEF PhaseInv
<1>9. /\ report'[e].successful_traces = report[e].successful_traces
      /\ report'[e].failed_traces = report[e].failed_traces
      /\ report'[e].total_traces = report[e].total_traces
      /\ report'[e].success_count = report[e].success_count
      /\ report'[e].failure_count[m] = report[e].failure_count[m] + 1
      /\ \A n \in Metrics \ {m} : report'[e].failure_count[n] = report[e].failure_count[n]
  BY <1>1, <1>4, <1>5 DEF Report
<1>10. ASSUME NEW n \in Metrics
       PROVE  /\ report'[e].success_count[n] = Cardinality(ScoredBy(e, n)')
              /\ report'[e].success_count[n] + report'[e].failure_count[n]
                   + Cardinality(traces'[e])
                   = report'[e].total_traces + (IF n \in left'[e] THEN 0 ELSE 1)
  <2>1. /\ report[e].success_count[n] \in Nat /\ report[e].failure_count[n] \in Nat
        /\ report[e].total_traces \in Nat
    BY <1>5 DEF Report
  <2>2. /\ report[e].success_count[n] = Cardinality(ScoredBy(e, n))
        /\ report[e].success_count[n] + report[e].failure_count[n] + Cardinality(traces[e])
             = report[e].total_traces + (IF n \in left[e] THEN 0 ELSE 1)
    BY <1>1 DEF TallyOK
  <2>3. traces'[e] = traces[e]
    BY <1>3
  <2>4. CASE n = m
    BY <1>1, <1>3, <1>6, <1>7, <1>9, <2>1, <2>2, <2>3, <2>4
  <2>5. CASE n # m
    BY <1>3, <1>6, <1>7, <1>9, <2>1, <2>2, <2>3, <2>5
  <2> QED BY <2>4, <2>5
<1>11. /\ report'[e].successful_traces = Cardinality(Whole(e)' \ traces'[e])
       /\ report'[e].successful_traces + report'[e].failed_traces
            + Cardinality(traces'[e]) = report'[e].total_traces
  BY <1>1, <1>3, <1>6, <1>9 DEF TallyOK
<1> QED BY <1>8, <1>10, <1>11 DEF TallyOK

\* A trace counts as successful exactly when every metric scored it.
LEMMA ProcessTally ==
    ASSUME TypeOK, PhaseInv, TraceInv, NEW e \in Evaluators, NEW t \in traces[e],
           ProcessTraceResults(e, t), TallyOK(e)
    PROVE  TallyOK(e)'
<1>1. pc[e] = "evaluate" /\ UnderWay(e, t) /\ left[e] = {} /\ t \in Trace
  BY DEF ProcessTraceResults, TypeOK
<1>2. /\ traces'[e] = traces[e] \ {t} /\ left'[e] = Metrics
      /\ UNCHANGED <<pc, saved, pushed>>
  BY DEF ProcessTraceResults, TypeOK
<1>3. report'[e] = IF Successful(e)
                   THEN [report[e] EXCEPT !.successful_traces = @ + 1]
                   ELSE [report[e] EXCEPT !.failed_traces = @ + 1]
  BY TraceCounted DEF ProcessTraceResults
<1>4. report[e] \in Report
  BY DEF TypeOK
<1>5. Whole(e)' = Whole(e) /\ \A n \in Metrics : ScoredBy(e, n)' = ScoredBy(e, n)
  BY <1>2 DEF Whole, ScoredBy
<1>6. /\ Cardinality(traces'[e]) \in Nat
      /\ Cardinality(traces[e]) = Cardinality(traces'[e]) + 1
  BY <1>2, TraceRemoved DEF TypeOK
<1>7. ~saved'[e]
  BY <1>1, <1>2 DEF PhaseInv
<1>8. t \in Whole(e) <=> Successful(e)
  BY <1>1 DEF Whole, Successful, TraceInv, TraceOK, TypeOK
<1>9. Cardinality(Whole(e)' \ traces'[e])
        = Cardinality(Whole(e) \ traces[e]) + (IF Successful(e) THEN 1 ELSE 0)
  <2> DEFINE behind == Whole(e) \ traces[e]
  <2>1. behind \subseteq Trace /\ t \notin behind
    BY DEF Whole
  <2>2. Whole(e)' \ traces'[e] = IF Successful(e) THEN behind \cup {t} ELSE behind
    BY <1>2, <1>5, <1>8
  <2> HIDE DEF behind
  <2>3. Cardinality(behind \cup {t}) = Cardinality(behind) + 1 /\ Cardinality(behind) \in Nat
    BY <1>1, <2>1, TraceAdded, TraceFinite
  <2>4. Cardinality(Whole(e)' \ traces'[e])
          = Cardinality(behind) + (IF Successful(e) THEN 1 ELSE 0)
    <3>1. CASE Successful(e)
      BY <2>2, <2>3, <3>1
    <3>2. CASE ~Successful(e)
      BY <2>2, <2>3, <3>2
    <3> QED BY <3>1, <3>2
  <2> QED BY <2>4 DEF behind
<1>10. /\ report'[e].successful_traces
            = report[e].successful_traces + (IF Successful(e) THEN 1 ELSE 0)
       /\ report'[e].failed_traces
            = report[e].failed_traces + (IF Successful(e) THEN 0 ELSE 1)
       /\ report'[e].total_traces = report[e].total_traces
       /\ report'[e].success_count = report[e].success_count
       /\ report'[e].failure_count = report[e].failure_count
  BY <1>3, <1>4 DEF Report
<1>11. /\ report[e].successful_traces \in Nat /\ report[e].failed_traces \in Nat
       /\ report[e].total_traces \in Nat
  BY <1>4 DEF Report
<1>12. /\ report'[e].successful_traces = Cardinality(Whole(e)' \ traces'[e])
       /\ report'[e].successful_traces + report'[e].failed_traces
            + Cardinality(traces'[e]) = report'[e].total_traces
  <2>1. /\ report[e].successful_traces = Cardinality(Whole(e) \ traces[e])
        /\ report[e].successful_traces + report[e].failed_traces
             + Cardinality(traces[e]) = report[e].total_traces
    BY <1>1 DEF TallyOK
  <2> QED BY <1>6, <1>9, <1>10, <1>11, <2>1
<1>13. ASSUME NEW n \in Metrics
       PROVE  /\ report'[e].success_count[n] = Cardinality(ScoredBy(e, n)')
              /\ report'[e].success_count[n] + report'[e].failure_count[n]
                   + Cardinality(traces'[e])
                   = report'[e].total_traces + (IF n \in left'[e] THEN 0 ELSE 1)
  <2>1. /\ report[e].success_count[n] \in Nat /\ report[e].failure_count[n] \in Nat
    BY <1>4 DEF Report
  <2>2. /\ report[e].success_count[n] = Cardinality(ScoredBy(e, n))
        /\ report[e].success_count[n] + report[e].failure_count[n] + Cardinality(traces[e])
             = report[e].total_traces + 1
    BY <1>1 DEF TallyOK
  <2>3. n \in left'[e]
    BY <1>2
  <2> QED BY <1>5, <1>6, <1>10, <1>11, <2>1, <2>2, <2>3
<1> QED BY <1>7, <1>12, <1>13 DEF TallyOK

LEMMA FetchTally ==
    ASSUME TypeOK, PhaseInv, NEW e \in Evaluators, FetchTraces(e)
    PROVE  TallyOK(e)'
<1>1. PICK fetched \in {{}, ToEvaluate({t \in OfTheDay : t <= expired + FetchLimit})} :
          /\ traces' = [traces EXCEPT ![e] = fetched]
          /\ report' = [report EXCEPT ![e].total_traces = Cardinality(fetched)]
  BY DEF FetchTraces
<1>2. traces'[e] = fetched /\ left'[e] = Metrics /\ UNCHANGED <<saved, pushed>>
  BY <1>1 DEF FetchTraces, TypeOK
<1>3. report'[e] = [InitialReport EXCEPT !.total_traces = Cardinality(fetched)]
  BY <1>1 DEF FetchTraces, TypeOK, PhaseInv
<1>4. ~saved'[e] /\ pushed'[e] = {}
  BY <1>2 DEF FetchTraces, PhaseInv
<1>5. Whole(e)' = {} /\ \A m \in Metrics : ScoredBy(e, m)' = {}
  BY <1>4, EvaluationAssumption DEF Whole, ScoredBy
<1>6. Cardinality({}) = 0
  BY FS_EmptySet
<1>7. Whole(e)' \ traces'[e] = {}
  BY <1>5
<1>8. traces'[e] \subseteq Trace
  BY TypeStep DEF TypeOK, Next
<1>9. Cardinality(traces'[e]) \in Nat
  BY <1>8, TraceFinite
<1>10. /\ report'[e].total_traces = Cardinality(traces'[e])
       /\ report'[e].successful_traces = 0 /\ report'[e].failed_traces = 0
       /\ \A m \in Metrics : /\ report'[e].success_count[m] = 0
                             /\ report'[e].failure_count[m] = 0
  BY <1>2, <1>3 DEF InitialReport, Zero
<1> QED BY <1>2, <1>4, <1>5, <1>6, <1>7, <1>9, <1>10 DEF TallyOK

LEMMA GenerateTally ==
    ASSUME TypeOK, PhaseInv, TraceInv, NEW e \in Evaluators, GenerateReport(e), TallyOK(e)
    PROVE  TallyOK(e)'
<1>1. pc[e] = "evaluate" /\ traces[e] = {} /\ left[e] = Metrics
  BY DEF GenerateReport, TraceInv, TraceOK
<1>2. pc'[e] # "evaluate" /\ UNCHANGED <<report, pushed>>
  BY DEF GenerateReport, GoTo, TypeOK
<1>3. Whole(e)' = Whole(e) /\ \A m \in Metrics : ScoredBy(e, m)' = ScoredBy(e, m)
  BY <1>2 DEF Whole, ScoredBy
<1>4. Cardinality(traces[e]) = 0 /\ Whole(e) \ traces[e] = Whole(e)
  BY <1>1, FS_EmptySet
<1>5. /\ report[e] \in Report
      /\ \A m \in Metrics : /\ report[e].success_count[m] \in Nat
                            /\ report[e].failure_count[m] \in Nat
      /\ report[e].successful_traces \in Nat /\ report[e].failed_traces \in Nat
      /\ report[e].total_traces \in Nat
  BY DEF TypeOK, Report
<1> QED BY <1>1, <1>2, <1>3, <1>4, <1>5 DEF TallyOK

LEMMA TallyStep ==
    TypeOK /\ PhaseInv /\ TraceInv /\ TallyInv /\ [Next]_vars => TallyInv'
<1> SUFFICES ASSUME TypeOK, PhaseInv, TraceInv, TallyInv, [Next]_vars,
                    NEW f \in Evaluators
             PROVE  TallyOK(f)'
  BY DEF TallyInv
<1>0. \A g \in Evaluators : TallyOK(g)
  BY DEF TallyInv
<1>1. CASE RecordTrace
  BY <1>0, <1>1, TallyKept DEF RecordTrace, progress
<1>2. CASE Expire
  BY <1>0, <1>2, TallyKept DEF Expire, progress
<1>3. ASSUME NEW e \in Evaluators, Start(e) PROVE TallyOK(f)'
  BY <1>0, <1>3, TallyKept DEF TypeOK, Start, GoTo, progress
<1>4. ASSUME NEW e \in Evaluators, FetchTraces(e) PROVE TallyOK(f)'
  <2>1. CASE f # e
    BY <1>0, <1>4, <2>1, TallyOfOthers DEF FetchTraces, GoTo, TypeOK
  <2> QED BY <1>4, <2>1, FetchTally
<1>5. ASSUME NEW e \in Evaluators, NEW t \in traces[e], Judged(e, t) PROVE TallyOK(f)'
  <2>1. CASE f # e
    BY <1>0, <1>5, <2>1, TallyOfOthers DEF Judged, Succeeds, NextMetric, TypeOK
  <2> QED BY <1>0, <1>5, <2>1, JudgedTally
<1>6. ASSUME NEW e \in Evaluators, NEW t \in traces[e], NotJudged(e, t) PROVE TallyOK(f)'
  <2>1. CASE f # e
    BY <1>0, <1>6, <2>1, TallyOfOthers DEF NotJudged, Fails, NextMetric, TypeOK
  <2> QED BY <1>0, <1>6, <2>1, NotJudgedTally
<1>7. ASSUME NEW e \in Evaluators, NEW t \in traces[e], JudgeCallFails(e, t)
      PROVE  TallyOK(f)'
  BY <1>0, <1>7, TallyKept DEF JudgeCallFails
<1>8. ASSUME NEW e \in Evaluators, NEW t \in traces[e], ProcessTraceResults(e, t)
      PROVE  TallyOK(f)'
  <2>1. CASE f # e
    BY <1>0, <1>8, <2>1, TallyOfOthers DEF ProcessTraceResults, TypeOK
  <2> QED BY <1>0, <1>8, <2>1, ProcessTally
<1>9. ASSUME NEW e \in Evaluators, GenerateReport(e) PROVE TallyOK(f)'
  <2>1. CASE f # e
    BY <1>0, <1>9, <2>1, TallyOfOthers DEF GenerateReport, GoTo, progress, TypeOK
  <2> QED BY <1>0, <1>9, <2>1, GenerateTally
<1>10. ASSUME NEW e \in Evaluators, NEW code \in Ended, Exit(e, code),
              UNCHANGED <<world, traces, report, saved, pushed, overlapped>>
       PROVE  TallyOK(f)'
  BY <1>0, <1>10, TallyKept DEF Exit, Forget, GoTo, TypeOK, Ended
<1>11. ASSUME NEW e \in Evaluators, DisplaySummary(e) PROVE TallyOK(f)'
  BY <1>10, <1>11 DEF DisplaySummary, Ended
<1>12. ASSUME NEW e \in Evaluators, EvaluationFails(e) PROVE TallyOK(f)'
  BY <1>10, <1>12 DEF EvaluationFails, Ended
<1>13. ASSUME NEW e \in Evaluators, Interrupt(e) PROVE TallyOK(f)'
  BY <1>10, <1>13 DEF Interrupt, Ended
<1>14. ASSUME NEW e \in Evaluators, Kill(e) PROVE TallyOK(f)'
  BY <1>0, <1>14, TallyKept DEF Kill, Forget, GoTo, TypeOK
<1>15. ASSUME NEW e \in Evaluators, Deliver(e) PROVE TallyOK(f)'
  BY <1>0, <1>15, TallyKept DEF Deliver, progress
<1>16. CASE UNCHANGED vars
  BY <1>0, <1>16, TallyKept DEF vars, progress
<1> QED
  BY <1>1, <1>2, <1>3, <1>4, <1>5, <1>6, <1>7, <1>8, <1>9, <1>11, <1>12, <1>13,
     <1>14, <1>15, <1>16 DEF Next

-----------------------------------------------------------------------------
(***************************************************************************)
(* The theorems.                                                           *)
(***************************************************************************)

LEMMA InitInv == Init => IInv
<1> SUFFICES ASSUME Init PROVE IInv OBVIOUS
<1>1. TypeOK
  <2>1. InitialReport \in Report
    BY DEF InitialReport, Report, Zero
  <2>2. TraceCount \in Nat
    BY EvaluationAssumption
  <2>3. scores \in [Trace -> [Metrics -> Nat]]
    BY DEF Init, Zero
  <2>4. report \in [Evaluators -> Report]
    BY <2>1 DEF Init
  <2>5. malformed \subseteq Trace /\ recorded \in 0 .. TraceCount /\ expired \in Nat
    BY <2>2 DEF Init
  <2> QED BY <2>3, <2>4, <2>5 DEF Init, TypeOK
<1>2. PhaseInv /\ TraceInv /\ ScoreInv /\ TallyInv
  BY DEF Init, PhaseInv, TraceInv, TraceOK, ScoreInv, TallyInv, TallyOK, Running, Zero
<1> QED BY <1>1, <1>2 DEF IInv

\* The inductive invariant of the evaluation holds in every state: what a
\* command holds at each place, which scores it has made, what it has counted.
THEOREM Invariance == Spec => []IInv
<1>1. IInv /\ [Next]_vars => IInv'
  BY TypeStep, PhaseStep, TraceStep, ScoreStep, TallyStep DEF IInv
<1> QED BY InitInv, <1>1, PTL DEF Spec

\* Every variable of the evaluation has its type, for any number of commands,
\* traces and metrics (evaluator.py, helpers.py, main.py).
THEOREM TypeCorrect == Spec => []TypeOK
<1>1. IInv => TypeOK
  BY DEF IInv
<1> QED BY <1>1, Invariance, PTL

\* A saved report adds up and counts as successes exactly what was scored
\* (evaluator.py:73-106, helpers.py:136-162).
THEOREM ReportsAddUp == Spec => []ReportAddsUp
<1>1. IInv => ReportAddsUp
  <2> SUFFICES ASSUME IInv, NEW e \in Evaluators, saved[e]
               PROVE  LET scoredBy(m) == {t \in Trace : <<t, m>> \in pushed[e]}
                          whole == {t \in Trace : \A m \in Metrics : t \in scoredBy(m)}
                      IN
                      /\ report[e].successful_traces = Cardinality(whole)
                      /\ report[e].successful_traces + report[e].failed_traces
                           = report[e].total_traces
                      /\ \A m \in Metrics :
                            /\ report[e].success_count[m] = Cardinality(scoredBy(m))
                            /\ report[e].success_count[m] + report[e].failure_count[m]
                                 = report[e].total_traces
    BY DEF ReportAddsUp
  <2>1. TallyOK(e)
    BY DEF IInv, TallyInv
  <2>2. Whole(e) = {t \in Trace : \A m \in Metrics :
                        t \in {u \in Trace : <<u, m>> \in pushed[e]}}
    BY DEF Whole
  <2> QED BY <2>1, <2>2 DEF TallyOK, ScoredBy
<1> QED BY <1>1, Invariance, PTL

\* Unless commands ran side by side, no trace is scored twice by a metric,
\* however they are interrupted, killed and started again (evaluator.py:203-216).
THEOREM NothingScoredTwice == Spec => []ScoredOnce
<1>1. IInv => ScoredOnce
  BY DEF IInv, ScoreInv, ScoredOnce
<1> QED BY <1>1, Invariance, PTL

\* An exit status of 0 that is no cancellation means that every fetched trace
\* was evaluated and the report, if one was asked for, is in its file
\* (main.py:164-186).
THEOREM ExitStatus == Spec => []ExitMeansReport
<1>1. IInv => ExitMeansReport
  BY DEF IInv, PhaseInv, ExitMeansReport
<1> QED BY <1>1, Invariance, PTL

=============================================================================
