----------------------------- MODULE MCReports -----------------------------
(* What a run reports to others while it works: to the consumer of a stream, *)
(* or to a webhook.  One of the two machines runs in each behaviour.         *)
EXTENDS EventStream

CONSTANTS Callers, Closers, Reports, Size, MaxRetries   \* those of WebhookNotifier

VARIABLES
  to,      \* the machine that runs: "stream" or "webhook"
  pending, shut, daemon, item, attempt, pc, sent, last, tried, dropped, early,
  racing   \* those of WebhookNotifier

hookVars == <<pending, shut, daemon, item, attempt, pc, sent, last, tried, dropped, early, racing>>
all == <<to, vars, hookVars>>

W == INSTANCE WebhookNotifier WITH
       Events <- Reports, queue <- pending, closed <- shut, worker <- daemon

Streaming(A) == to = "stream" /\ A /\ UNCHANGED <<to, hookVars>>
Posting(A) == to = "webhook" /\ A /\ UNCHANGED <<to, vars>>

MCInit == /\ to \in {"stream", "webhook"}
          /\ Init /\ (to = "stream" \/ \A s \in Streams : kind[s] = "task")
          /\ W!Init

MCNext == Streaming(Next) \/ Posting(W!Next)

\* The fairness of both modules.
MCSpec ==
  /\ MCInit /\ [][MCNext]_all
  /\ \A s \in Streams : WF_all(Streaming(WorkerStep(s))) /\ WF_all(Streaming(ConsumerStep(s)))
  /\ \A c \in Callers : WF_all(Posting(W!PutNoWait(c)))
  /\ \A c \in Closers : /\ WF_all(Posting(W!SetClosed(c)))
                         /\ WF_all(Posting(W!PutStop(c)))
                         /\ WF_all(Posting(W!Join(c)))
  /\ WF_all(Posting(W!Take)) /\ WF_all(Posting(W!Post))

(* Nobody waits for ever, for an event or for a queue to drain, nor fills  *)
(* one that nobody reads: EventStream and WebhookNotifier.                 *)
EveryoneReturns ==
  (to = "stream" => StreamEnds) /\ AbandonedIsQuiet /\ W!CloseReturns

(* What is queued is posted before close() returns: WebhookNotifier. *)
FlushedByClose == W!FlushedByClose
=============================================================================
