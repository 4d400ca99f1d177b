---------------------------- MODULE EventStream ----------------------------
(***************************************************************************)
(* Pipeline.stream() and astream(), and their twins of AgentLoop: a worker *)
(* runs the pipeline and puts events on a queue through a QueueEmitter, a  *)
(* consumer drains the queue up to a sentinel.  In stream() the worker is  *)
(* a thread, and its cleanup is a series of steps; in astream() it is a    *)
(* task of the consumer's event loop, whose cleanup is one step.           *)
(*                                                                         *)
(* Several streams of one Pipeline may be consumed at once.  The emitter   *)
(* an event goes to is looked up in the context of the worker (EmitterSlot *)
(* holds a ContextVar).  The n-th event of stream s is <<s, n>>.           *)
(***************************************************************************)
EXTENDS Naturals, Sequences

CONSTANTS
  Streams,  \* concurrent stream() and astream() calls on one Pipeline
  Kinds,    \* among "thread" for stream() and "task" for astream()
  Events    \* events a complete run emits

NoStream == "none"
Sentinel == <<>>

ASSUME StreamAssumption ==
  /\ Kinds \subseteq {"thread", "task"}
  /\ Events \in Nat \ {0}
  /\ NoStream \notin Streams

VARIABLES
  kind,      \* of each stream
  slot,      \* the emitter installed in the context of each worker
  worker,    \* where each worker is
  raised,    \* the run raised
  emitted,   \* events the run produced so far
  queue,
  closed,    \* QueueEmitter._closed
  consumer,  \* where each consumer is
  broke,     \* the consumer abandoned the iteration
  received,  \* what it got before
  surfaced,  \* the exception was raised to it
  cancelled  \* the worker's task was cancelled

vars == <<kind, slot, worker, raised, emitted, queue, closed, consumer, broke, received,
          surfaced, cancelled>>

workerVars == <<slot, worker, raised, emitted>>
consumerVars == <<consumer, broke, received, surfaced, cancelled>>

Event == Streams \X (1..Events)

TypeOK ==
  /\ kind \in [Streams -> Kinds]
  /\ slot \in [Streams -> Streams \cup {NoStream}]
  /\ worker \in [Streams -> {"new", "running", "putting", "closing", "flag", "set", "over"}]
  /\ raised \in [Streams -> BOOLEAN]
  /\ emitted \in [Streams -> 0..Events]
  /\ queue \in [Streams -> Seq(Event \cup {Sentinel})]
  /\ closed \in [Streams -> BOOLEAN]
  /\ consumer \in [Streams -> {"reading", "leaving", "flag", "awaiting", "ended"}]
  /\ broke \in [Streams -> BOOLEAN]
  /\ received \in [Streams -> Seq(Event)]
  /\ surfaced \in [Streams -> BOOLEAN]
  /\ cancelled \in [Streams -> BOOLEAN]

Init ==
  /\ kind \in [Streams -> Kinds]
  /\ slot = [s \in Streams |-> NoStream]
  /\ worker = [s \in Streams |-> "new"]
  /\ raised = [s \in Streams |-> FALSE]
  /\ emitted = [s \in Streams |-> 0]
  /\ queue = [s \in Streams |-> <<>>]
  /\ closed = [s \in Streams |-> FALSE]
  /\ consumer = [s \in Streams |-> "reading"]
  /\ broke = [s \in Streams |-> FALSE]
  /\ received = [s \in Streams |-> <<>>]
  /\ surfaced = [s \in Streams |-> FALSE]
  /\ cancelled = [s \in Streams |-> FALSE]

Goes(who, s, where) == who' = [who EXCEPT ![s] = where]

-----------------------------------------------------------------------------
(* The worker. *)

(* attach_emitter() in the worker's own context. *)
Install(s) == slot' = [slot EXCEPT ![s] = s]

WorkerStarts(s) ==
  /\ worker[s] = "new"
  /\ Install(s)
  /\ Goes(worker, s, "running")
  /\ UNCHANGED <<kind, raised, emitted, queue, closed, consumerVars>>

(* The run has an event (heartbeats that the caller filtered out are none): *)
(* it is put unless the emitter is closed.  A thread may lose the processor *)
(* between the test and the put.                                            *)
Emit(s) ==
  LET q == slot[s]
  IN  /\ worker[s] = "running"
      /\ emitted[s] < Events
      /\ emitted' = [emitted EXCEPT ![s] = @ + 1]
      /\ IF q = NoStream \/ closed[q]
         THEN UNCHANGED <<worker, queue>>
         ELSE IF kind[s] = "thread"
         THEN Goes(worker, s, "putting") /\ UNCHANGED queue
         ELSE queue' = [queue EXCEPT ![q] = Append(@, <<s, emitted'[s]>>)] /\ UNCHANGED worker
      /\ UNCHANGED <<kind, slot, raised, closed, consumerVars>>

Put(s) ==
  /\ worker[s] = "putting"
  /\ queue' = [queue EXCEPT ![slot[s]] = Append(@, <<s, emitted[s]>>)]
  /\ Goes(worker, s, "running")
  /\ UNCHANGED <<kind, slot, raised, emitted, closed, consumerVars>>

(* run() returns after its terminal event, or raises at any point. *)
Runs(s) ==
  /\ worker[s] = "running"
  /\ \/ emitted[s] = Events /\ UNCHANGED raised
     \/ raised' = [raised EXCEPT ![s] = TRUE]

(* A thread goes on to close the emitter and to set `done`. *)
ThreadLeavesRun(s) ==
  /\ kind[s] = "thread"
  /\ Runs(s)
  /\ Goes(worker, s, "closing")
  /\ UNCHANGED <<kind, slot, emitted, queue, closed, consumerVars>>

TaskEnds_InSteps(s) ==
  /\ kind[s] = "task"
  /\ Runs(s)
  /\ Goes(worker, s, "closing")
  /\ UNCHANGED <<kind, slot, emitted, queue, closed, consumerVars>>

(* A task closes the emitter and is done, before anything else runs. *)
TaskEnds(s) ==
  /\ kind[s] = "task"
  /\ Runs(s)
  /\ queue' = [queue EXCEPT ![s] = IF closed[s] THEN @ ELSE Append(@, Sentinel)]
  /\ closed' = [closed EXCEPT ![s] = TRUE]
  /\ Goes(worker, s, "over")
  /\ UNCHANGED <<kind, slot, emitted, consumerVars>>

SendSentinel_FlagFirst(who, s, next) ==
  /\ queue' = queue
  /\ closed' = [closed EXCEPT ![s] = TRUE]
  /\ Goes(who, s, next)

(* QueueEmitter.close(): once, the sentinel, then the flag. *)
SendSentinel(who, s, next) ==
  IF closed[s]
  THEN Goes(who, s, next) /\ UNCHANGED <<queue, closed>>
  ELSE /\ queue' = [queue EXCEPT ![s] = Append(@, Sentinel)]
       /\ Goes(who, s, "flag")
       /\ UNCHANGED closed

ThreadCloses(s) ==
  /\ worker[s] = "closing"
  /\ SendSentinel(worker, s, "set")
  /\ UNCHANGED <<kind, slot, raised, emitted, consumerVars>>

ThreadFlags(s) ==
  /\ worker[s] = "flag"
  /\ closed' = [closed EXCEPT ![s] = TRUE]
  /\ Goes(worker, s, "set")
  /\ UNCHANGED <<kind, slot, raised, emitted, queue, consumerVars>>

SetDone(s) ==
  /\ worker[s] = "set"
  /\ Goes(worker, s, "over")
  /\ UNCHANGED <<kind, slot, raised, emitted, queue, closed, consumerVars>>

-----------------------------------------------------------------------------
(* The consumer. *)

Read(s) ==
  /\ consumer[s] = "reading"
  /\ queue[s] # <<>>
  /\ queue' = [queue EXCEPT ![s] = Tail(@)]
  /\ IF Head(queue[s]) = Sentinel
     THEN Goes(consumer, s, "leaving") /\ UNCHANGED received
     ELSE /\ received' = [received EXCEPT ![s] = Append(@, Head(queue[s]))]
          /\ UNCHANGED consumer
  /\ UNCHANGED <<kind, workerVars, closed, broke, surfaced, cancelled>>

(* A for loop is left at an event; an awaiting consumer may be cancelled. *)
Break(s) ==
  /\ consumer[s] = "reading"
  /\ kind[s] = "task" \/ received[s] # <<>>
  /\ broke' = [broke EXCEPT ![s] = TRUE]
  /\ Goes(consumer, s, "leaving")
  /\ UNCHANGED <<kind, workerVars, queue, closed, received, surfaced, cancelled>>

(* The finally clause: a worker that is done hands its exception over. *)
LeavesDone(s) ==
  /\ consumer[s] = "leaving"
  /\ worker[s] = "over"
  /\ surfaced' = [surfaced EXCEPT ![s] = raised[s]]
  /\ Goes(consumer, s, "ended")
  /\ UNCHANGED <<kind, workerVars, queue, closed, broke, received, cancelled>>

(* A thread that is not done is left to itself, its emitter closed. *)
ThreadLeft(s) ==
  /\ kind[s] = "thread"
  /\ consumer[s] = "leaving"
  /\ worker[s] # "over"
  /\ SendSentinel(consumer, s, "ended")
  /\ UNCHANGED <<kind, workerVars, broke, received, surfaced, cancelled>>

ThreadSilenced(s) ==
  /\ consumer[s] = "flag"
  /\ closed' = [closed EXCEPT ![s] = TRUE]
  /\ Goes(consumer, s, "ended")
  /\ UNCHANGED <<kind, workerVars, queue, broke, received, surfaced, cancelled>>

(* A task that is not done is silenced, cancelled and awaited. *)
TaskLeft(s) ==
  /\ kind[s] = "task"
  /\ consumer[s] = "leaving"
  /\ worker[s] # "over"
  /\ queue' = [queue EXCEPT ![s] = IF closed[s] THEN @ ELSE Append(@, Sentinel)]
  /\ closed' = [closed EXCEPT ![s] = TRUE]
  /\ cancelled' = [cancelled EXCEPT ![s] = TRUE]
  /\ Goes(consumer, s, "awaiting")
  /\ UNCHANGED <<kind, workerVars, broke, received, surfaced>>

TaskAwaited(s) ==
  /\ consumer[s] = "awaiting"
  /\ worker[s] = "over"
  /\ Goes(consumer, s, "ended")
  /\ UNCHANGED <<kind, workerVars, queue, closed, broke, received, surfaced, cancelled>>

(* Every stream was left and every run is over. *)
Done ==
  /\ \A s \in Streams : worker[s] = "over" /\ consumer[s] = "ended"
  /\ UNCHANGED vars

WorkerStep(s) ==
  \/ WorkerStarts(s) \/ Emit(s) \/ Put(s)
  \/ ThreadLeavesRun(s) \/ TaskEnds(s)
  \/ ThreadCloses(s) \/ ThreadFlags(s) \/ SetDone(s)

ConsumerStep(s) ==
  \/ Read(s)
  \/ LeavesDone(s) \/ ThreadLeft(s) \/ ThreadSilenced(s) \/ TaskLeft(s) \/ TaskAwaited(s)

Next ==
  \/ \E s \in Streams : WorkerStep(s) \/ ConsumerStep(s) \/ Break(s)
  \/ Done

(* Runs end (RunEnds of ConcurrentRun) and a consumer keeps consuming, but *)
(* need not break.                                                         *)
Spec ==
  /\ Init /\ [][Next]_vars
  /\ \A s \in Streams : WF_vars(WorkerStep(s)) /\ WF_vars(ConsumerStep(s))

-----------------------------------------------------------------------------
(* Properties. *)

(* A consumer sees the events of its own run, in the order the run         *)
(* produced them and without a gap, however many streams share the         *)
(* pipeline.                                                               *)
InOrder ==
  \A s \in Streams : \A n \in 1..Len(received[s]) : received[s][n] = <<s, n>>

(* A consumer that drained its stream missed nothing: no event and, of an  *)
(* astream(), not the exception of the run, which nobody cancelled.  (One  *)
(* that drained a stream() may miss the exception: the thread sends the    *)
(* sentinel before it sets `done`.)                                        *)
DrainedMeansAll ==
  \A s \in Streams :
    consumer[s] = "ended" /\ ~broke[s] =>
      /\ Len(received[s]) = emitted[s]
      /\ kind[s] = "task" => surfaced[s] = raised[s] /\ ~cancelled[s]

(* A consumer sees its own run's events, all in order. *)
StreamsAreFaithful == InOrder /\ DrainedMeansAll

(* "Uncaught exceptions from the pipeline are re-raised after the event    *)
(* stream drains", of a stream() as well.                                  *)
ExceptionSurfaces ==
  \A s \in Streams :
    consumer[s] = "ended" /\ ~broke[s] => surfaced[s] = raised[s]

(* The queue of an abandoned stream does not grow while the run goes on    *)
(* behind it, but for one put that was under way.                          *)
AbandonedIsQuiet ==
  [][\A s \in Streams : consumer[s] = "ended" /\ worker[s] # "putting"
       => queue'[s] = queue[s]]_vars

(* A consumer that keeps reading gets to the end. *)
StreamEnds == \A s \in Streams : <>(consumer[s] = "ended")

=============================================================================
