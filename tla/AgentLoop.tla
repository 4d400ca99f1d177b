----------------------------- MODULE AgentLoop -----------------------------
(* AgentLoop (agents/loop.py): a pipeline is built, run and evaluated, again  *)
(* and again, until it passes, a step of it fails, or the iterations are used *)
(* up.  The loop is run by run(), in the thread of a stream(), or in the task *)
(* of an astream(), whose consumer may leave at any time: the thread goes on  *)
(* unheard, the task is cancelled where it awaits.  How the events get to the *)
(* consumer is the subject of EventStream, what happens in a pipeline that of *)
(* SequentialRun and ConcurrentRun; here a run has an id, a cost and maybe a  *)
(* failed step.                                                               *)
EXTENDS Naturals, Sequences, SequencesExt

CONSTANTS
  MaxIterations,
  Costs           \* what the steps of a run may cost together; None counts as 0

VARIABLES
  kind,        \* who runs the loop: "run", "thread" or "task"
  stopOnError, \* stop_on_pipeline_failure
  pc,
  building,    \* parent_run_id of the pipeline being run
  runs,        \* history: the runs that returned: [parent, errored, cost]
  iterations,  \* the list of AgentIteration: [run, passed]
  result,      \* the AgentResult, or Nothing
  heard,       \* the events of the loop and its pipelines that the emitter
               \* took, or those that the tracer of a run() was told
  left         \* the consumer broke off: the emitter is closed

vars == <<kind, stopOnError, pc, building, runs, iterations, result, heard, left>>

NoRun == 0
Nothing == [passed |-> FALSE, final |-> NoRun, cost |-> 0]

Over == {"returned", "raised"}

Init ==
  /\ kind \in {"run", "thread", "task"}
  /\ stopOnError \in BOOLEAN
  /\ pc = "next"
  /\ building = NoRun
  /\ runs = <<>> /\ iterations = <<>>
  /\ result = Nothing
  /\ heard = <<>>
  /\ left = FALSE

Heard(event) == IF left THEN heard ELSE Append(heard, event)

(* A cancelled task does nothing but raise, where it awaits.                   *)
Cancelled == left /\ kind = "task"

Parent_First == IF iterations = <<>> THEN NoRun ELSE Head(iterations).run
(* from_result() of the iteration before.                                     *)
Parent == IF iterations = <<>> THEN NoRun ELSE Last(iterations).run

(* The iteration is announced, its pipeline built and linked, and run.        *)
IterationStarts ==
  /\ pc = "next"
  /\ heard' = Heard("started")
  /\ building' = Parent
  /\ pc' = "running"
  /\ UNCHANGED <<kind, stopOnError, runs, iterations, result, left>>

PipelineReturns ==
  /\ pc = "running" /\ ~Cancelled
  /\ \E errored \in BOOLEAN, cost \in Costs :
       runs' = Append(runs, [parent |-> building, errored |-> errored, cost |-> cost])
  /\ heard' = Heard("ran")
  /\ pc' = "evaluating"
  /\ UNCHANGED <<kind, stopOnError, building, iterations, result, left>>

ShouldStop(passed) == passed \/ (stopOnError /\ Last(runs).errored)

Evaluated ==
  /\ pc = "evaluating" /\ ~Cancelled
  /\ \E passed \in BOOLEAN :
       /\ iterations' = Append(iterations, [run |-> Len(runs), passed |-> passed])
       /\ pc' = IF ShouldStop(passed) \/ Len(iterations') = MaxIterations THEN "finalize"
                ELSE "next"
  /\ heard' = Heard("evaluated")
  /\ UNCHANGED <<kind, stopOnError, building, runs, result, left>>

(* The factory, the pipeline or the evaluator raises, or the cancellation of  *)
(* the task does: all iterations are lost.                                    *)
Raises ==
  /\ pc \in {"running", "evaluating"}
  /\ pc' = "raised"
  /\ UNCHANGED <<kind, stopOnError, building, runs, iterations, result, heard, left>>

CostOf(runIds) == FoldSeq(LAMBDA it, sum : sum + runs[it.run].cost, 0, runIds)

(* _finalize(), and agent.completed to a stream.                              *)
Finalize ==
  /\ pc = "finalize"
  /\ LET final == Last(iterations)
     IN  result' = [passed |-> final.passed, final |-> final.run, cost |-> CostOf(iterations)]
  /\ heard' = IF kind = "run" THEN heard ELSE Heard("completed")
  /\ pc' = "returned"
  /\ UNCHANGED <<kind, stopOnError, building, runs, iterations, left>>

(* While the thread works, or the task awaits.                                *)
ConsumerLeaves ==
  /\ kind # "run" /\ ~left
  /\ pc \notin Over
  /\ kind = "task" => pc \in {"running", "evaluating"}
  /\ left' = TRUE
  /\ UNCHANGED <<kind, stopOnError, pc, building, runs, iterations, result, heard>>

Next ==
  \/ IterationStarts \/ PipelineReturns \/ Evaluated \/ Raises \/ Finalize
  \/ ConsumerLeaves

Spec == Init /\ [][Next]_vars

-----------------------------------------------------------------------------
(* What a loop returns is what it did: its runs form one line of descent, one *)
(* for each iteration, none after one that passed or that may not be          *)
(* repeated, and the cost is that of everything that was run.                 *)
ResultIsTheRuns ==
  /\ \A n \in 1..Len(runs) : runs[n].parent = n - 1
  /\ \A n \in 1..(Len(runs) - 1) :
       ~iterations[n].passed /\ ~(stopOnError /\ runs[n].errored)
  /\ pc = "returned" =>
       /\ result.final = Len(runs)
       /\ result.passed => Last(iterations).passed
       /\ result.cost = FoldSeq(LAMBDA r, sum : sum + r.cost, 0, runs)

(* Who listens to the end hears every run between its announcement and its    *)
(* evaluation, and "completed" exactly if there is a result.                  *)
HeardIsTheLoop ==
  /\ \A n \in 1..Len(heard) :
       heard[n] # "completed" => heard[n] = <<"evaluated", "started", "ran">>[(n % 3) + 1]
  /\ ~left /\ kind # "run" /\ pc \in Over =>
       ("completed" \in {heard[n] : n \in 1..Len(heard)} <=> pc = "returned")

(* No pipeline of the loop is run to its end for a consumer of astream() that *)
(* has left.                                                                  *)
NoRunForNobody == [][left /\ kind = "task" => runs' = runs]_vars

=============================================================================
