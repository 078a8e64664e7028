----------------------------- MODULE Evaluation -----------------------------
(***************************************************************************)
(* The metric evaluation of recorded traces (evals/main.py, evaluator.py,  *)
(* helpers.py): a command fetches the traces of a day that have no score,  *)
(* has a model judge each of them by every metric, hands the scores to     *)
(* Langfuse's client, whose background thread delivers them, and writes a  *)
(* report.  Commands are started again, side by side too, interrupted and  *)
(* killed; the application records traces all the while.                   *)
(***************************************************************************)
EXTENDS Integers, FiniteSets

CONSTANTS
    Evaluators,     \* the commands that are started, one after another or not
    Metrics,
    TraceCount,     \* bound: traces that are recorded
    FetchLimit,     \* 100
    NumRetries      \* 3

ASSUME EvaluationAssumption ==
    /\ {TraceCount, FetchLimit, NumRetries} \subseteq Nat \ {0}
    /\ IsFiniteSet(Metrics) /\ Metrics # {}

VARIABLES
    malformed,      \* traces whose output has no messages
    recorded, expired,  \* traces so far, in order of time; older than a day
    scores,         \* how often Langfuse has a score of a trace by a metric
    pc,             \* of each command
    quick, wanted,  \* --quick, generate_report_file
    traces,         \* still to be evaluated
    left, succeeded, attempts,      \* of the trace under way
    report, saved,  \* the report, and is it in its file
    queue,          \* scores the client has not delivered yet
    \* history: what the command scored, and did commands run side by side
    pushed, overlapped

world == <<malformed, recorded, expired>>
options == <<quick, wanted>>
progress == <<left, succeeded, attempts>>
vars == <<world, scores, pc, options, traces, progress, report, saved, queue,
          pushed, overlapped>>

Trace == 1 .. TraceCount

Zero == [m \in Metrics |-> 0]

InitialReport ==
    [total_traces |-> 0, successful_traces |-> 0, failed_traces |-> 0,
     success_count |-> Zero, failure_count |-> Zero]

Init ==
    /\ malformed \in SUBSET Trace
    /\ recorded = 0 /\ expired = 0
    /\ scores = [t \in Trace |-> Zero]
    /\ pc = [e \in Evaluators |-> "none"]
    /\ quick = [e \in Evaluators |-> FALSE]
    /\ wanted = [e \in Evaluators |-> FALSE]
    /\ traces = [e \in Evaluators |-> {}]
    /\ left = [e \in Evaluators |-> {}]
    /\ succeeded = [e \in Evaluators |-> {}]
    /\ attempts = [e \in Evaluators |-> 0]
    /\ report = [e \in Evaluators |-> InitialReport]
    /\ saved = [e \in Evaluators |-> FALSE]
    /\ queue = [e \in Evaluators |-> {}]
    /\ pushed = [e \in Evaluators |-> {}]
    /\ overlapped = FALSE

Ended == {"exit 0", "exit 1", "canceled", "killed"}

Running(e) == pc[e] \notin {"none"} \cup Ended

GoTo(e, label) == pc' = [pc EXCEPT ![e] = label]

-----------------------------------------------------------------------------
(***************************************************************************)
(* The world.                                                              *)
(***************************************************************************)

RecordTrace ==
    /\ recorded < TraceCount
    /\ recorded' = recorded + 1
    /\ UNCHANGED <<malformed, expired, scores, pc, options, traces, progress, report,
                   saved, queue, pushed, overlapped>>

Expire ==
    /\ expired < recorded
    /\ expired' = expired + 1
    /\ UNCHANGED <<malformed, recorded, scores, pc, options, traces, progress, report,
                   saved, queue, pushed, overlapped>>

\* What Langfuse has once these scores have arrived.
WithScores(arrived) ==
    [t \in Trace |-> [m \in Metrics |->
        scores[t][m] + (IF <<t, m>> \in arrived THEN 1 ELSE 0)]]

\* The background thread takes what is queued as one batch.
Deliver(e) ==
    /\ queue[e] # {}
    /\ scores' = WithScores(queue[e])
    /\ queue' = [queue EXCEPT ![e] = {}]
    /\ UNCHANGED <<world, pc, options, traces, progress, report, saved, pushed, overlapped>>

\* The memory of a command that ends; how it was called stays known.
Forget(e) ==
    /\ quick' = [quick EXCEPT ![e] = FALSE] /\ UNCHANGED wanted
    /\ left' = [left EXCEPT ![e] = {}] /\ succeeded' = [succeeded EXCEPT ![e] = {}]
    /\ attempts' = [attempts EXCEPT ![e] = 0]
    /\ queue' = [queue EXCEPT ![e] = {}]

\* The client flushes when the interpreter exits, as far as Langfuse answers.
Exit(e, code) ==
    /\ GoTo(e, code)
    /\ \E arrived \in SUBSET queue[e] : scores' = WithScores(arrived)
    /\ Forget(e)

-----------------------------------------------------------------------------
(***************************************************************************)
(* main, interactive_mode, quick_mode; __fetch_traces.                     *)
(***************************************************************************)

Start(e) ==
    /\ pc[e] = "none"
    /\ GoTo(e, "fetch")
    /\ \E chosen \in BOOLEAN, file \in BOOLEAN :
          /\ chosen => file
          /\ quick' = [quick EXCEPT ![e] = chosen]
          /\ wanted' = [wanted EXCEPT ![e] = file]
    /\ overlapped' = (overlapped \/ \E f \in Evaluators : Running(f))
    /\ UNCHANGED <<world, scores, traces, progress, report, saved, queue, pushed>>

\* Mutant: the traces of the day, scored or not.
ToEvaluateAll(listed) == listed

\* The limit comes before the filter: only of the first traces of the day.
ToEvaluate(listed) == {t \in listed : \A m \in Metrics : scores[t][m] = 0}

OfTheDay == expired + 1 .. recorded

\* A failed fetch is an empty one.
FetchTraces(e) ==
    /\ pc[e] = "fetch"
    /\ \E fetched \in {{}, ToEvaluate({t \in OfTheDay : t <= expired + FetchLimit})} :
          /\ traces' = [traces EXCEPT ![e] = fetched]
          /\ report' = [report EXCEPT ![e].total_traces = Cardinality(fetched)]
    /\ left' = [left EXCEPT ![e] = Metrics]
    /\ GoTo(e, "evaluate")
    /\ UNCHANGED <<world, scores, options, succeeded, attempts, saved, queue, pushed,
                   overlapped>>

-----------------------------------------------------------------------------
(***************************************************************************)
(* run: a trace, a metric, up to NumRetries calls of the judge.            *)
(***************************************************************************)

\* Traces are fetched, and evaluated, in order of time.
UnderWay(e, t) == t \in traces[e] /\ \A u \in traces[e] : t <= u

Evaluating(e, t) == pc[e] = "evaluate" /\ UnderWay(e, t) /\ left[e] # {}

Metric(e) == CHOOSE m \in left[e] : TRUE

\* update_success_metrics, update_failure_metrics.
Succeeds(e) ==
    /\ succeeded' = [succeeded EXCEPT ![e] = @ \cup {Metric(e)}]
    /\ report' = [report EXCEPT ![e].success_count[Metric(e)] = @ + 1]

Fails(e) ==
    /\ report' = [report EXCEPT ![e].failure_count[Metric(e)] = @ + 1]
    /\ UNCHANGED succeeded

NextMetric(e) ==
    /\ left' = [left EXCEPT ![e] = @ \ {Metric(e)}]
    /\ attempts' = [attempts EXCEPT ![e] = 0]

Judged(e, t) ==
    /\ Evaluating(e, t) /\ t \notin malformed
    /\ queue' = [queue EXCEPT ![e] = @ \cup {<<t, Metric(e)>>}]
    /\ pushed' = [pushed EXCEPT ![e] = @ \cup {<<t, Metric(e)>>}]
    /\ Succeeds(e) /\ NextMetric(e)
    /\ UNCHANGED <<world, scores, pc, options, traces, saved, overlapped>>

\* No text to judge, a refusal, or the last of the failing calls.
NotJudged(e, t) ==
    /\ Evaluating(e, t) /\ t \notin malformed
    /\ Fails(e) /\ NextMetric(e)
    /\ UNCHANGED <<world, scores, pc, options, traces, saved, queue, pushed, overlapped>>

JudgeCallFails(e, t) ==
    /\ Evaluating(e, t) /\ t \notin malformed
    /\ attempts[e] + 1 < NumRetries
    /\ attempts' = [attempts EXCEPT ![e] = @ + 1]
    /\ UNCHANGED <<world, scores, pc, options, traces, left, succeeded, report, saved,
                   queue, pushed, overlapped>>

\* Mutant: a trace counts as evaluated once a metric succeeded.
SuccessfulByOne(e) == succeeded[e] # {}

Successful(e) == succeeded[e] = Metrics

ProcessTraceResults(e, t) ==
    /\ pc[e] = "evaluate" /\ UnderWay(e, t) /\ left[e] = {}
    /\ report' = IF Successful(e)
                 THEN [report EXCEPT ![e].successful_traces = @ + 1]
                 ELSE [report EXCEPT ![e].failed_traces = @ + 1]
    /\ traces' = [traces EXCEPT ![e] = @ \ {t}]
    /\ left' = [left EXCEPT ![e] = Metrics]
    /\ succeeded' = [succeeded EXCEPT ![e] = {}]
    /\ UNCHANGED <<world, scores, pc, options, attempts, saved, queue, pushed, overlapped>>

-----------------------------------------------------------------------------
(***************************************************************************)
(* The end of the command.                                                 *)
(***************************************************************************)

\* The report's file may fail to be written.
GenerateReport(e) ==
    /\ pc[e] = "evaluate" /\ traces[e] = {}
    /\ GoTo(e, "display")
    /\ saved' = [saved EXCEPT ![e] = wanted[e]]
    /\ UNCHANGED <<world, scores, options, traces, progress, report, queue, pushed,
                   overlapped>>

\* display_summary looks generate_report_path up, which only a report has.
DisplaySummary(e) ==
    /\ pc[e] = "display"
    /\ Exit(e, IF saved[e] THEN "exit 0" ELSE "exit 1")
    /\ UNCHANGED <<world, traces, report, saved, pushed, overlapped>>

Raising(e) ==
    \/ \E t \in malformed : Evaluating(e, t)
    \/ pc[e] = "evaluate" /\ traces[e] = {} /\ wanted[e]

\* Mutant: the exception is reported and the command returns.
EvaluationFailsQuietly(e) ==
    /\ Raising(e) /\ Exit(e, "exit 0")
    /\ UNCHANGED <<world, traces, report, saved, pushed, overlapped>>

\* A trace without messages ends every evaluation that reaches it.
EvaluationFails(e) ==
    /\ Raising(e) /\ Exit(e, "exit 1")
    /\ UNCHANGED <<world, traces, report, saved, pushed, overlapped>>

\* quick_mode takes Ctrl+C for a cancellation, with exit status 0; elsewhere
\* the signal ends the process.
Interrupt(e) ==
    /\ Running(e)
    /\ Exit(e, IF quick[e] THEN "canceled" ELSE "killed")
    /\ UNCHANGED <<world, traces, report, saved, pushed, overlapped>>

Kill(e) ==
    /\ Running(e)
    /\ GoTo(e, "killed") /\ Forget(e)
    /\ UNCHANGED <<world, scores, traces, report, saved, pushed, overlapped>>

Next ==
    \/ RecordTrace \/ Expire
    \/ \E e \in Evaluators :
          \/ Start(e) \/ FetchTraces(e)
          \/ \E t \in traces[e] :
                \/ Judged(e, t) \/ NotJudged(e, t) \/ JudgeCallFails(e, t)
                \/ ProcessTraceResults(e, t)
          \/ GenerateReport(e) \/ DisplaySummary(e) \/ EvaluationFails(e)
          \/ Interrupt(e) \/ Kill(e) \/ Deliver(e)

Spec == Init /\ [][Next]_vars

-----------------------------------------------------------------------------
(***************************************************************************)
(* Properties.                                                             *)
(***************************************************************************)

\* A report in its file accounts for every trace that was fetched, by every
\* metric, and counts as successes exactly what was scored
\* (evaluator.py:73-106, helpers.py:136-162).
ReportAddsUp ==
    \A e \in Evaluators : saved[e] =>
        LET scoredBy(m) == {t \in Trace : <<t, m>> \in pushed[e]}
            whole == {t \in Trace : \A m \in Metrics : t \in scoredBy(m)}
        IN
        /\ report[e].successful_traces = Cardinality(whole)
        /\ report[e].successful_traces + report[e].failed_traces = report[e].total_traces
        /\ \A m \in Metrics :
              /\ report[e].success_count[m] = Cardinality(scoredBy(m))
              /\ report[e].success_count[m] + report[e].failure_count[m]
                   = report[e].total_traces

\* However evaluations are interrupted, killed and started again, no trace is
\* scored twice by a metric unless two of them ran side by side: scores that
\* arrived keep a trace from being fetched, the others are lost with their
\* command (evaluator.py:203-216).
ScoredOnce ==
    ~overlapped => \A t \in Trace, m \in Metrics : scores[t][m] <= 1

\* A command that ends well, and that nobody cancelled, has evaluated all it
\* fetched, and the report, if one was asked for, is in the file
\* (main.py:164-186).
ExitMeansReport ==
    \A e \in Evaluators : pc[e] = "exit 0" =>
        /\ traces[e] = {}
        /\ wanted[e] => saved[e]

\* A command told to write no report fails only over a trace it cannot
\* evaluate (docs/evaluation.md:10: "runs but skips report generation").
NoReportIsNoFailure ==
    \A e \in Evaluators : pc[e] = "exit 1" /\ ~wanted[e] => traces[e] # {}

=============================================================================
