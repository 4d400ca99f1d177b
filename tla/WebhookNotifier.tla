-------------------------- MODULE WebhookNotifier --------------------------
(***************************************************************************)
(* WebhookNotifier: the pipeline's threads enqueue events without ever     *)
(* waiting, a daemon thread posts them in order with retries, and close()  *)
(* sends it a stop marker and joins it for a bounded time.  At exit the    *)
(* interpreter closes the notifier and the daemon dies with it.            *)
(*                                                                         *)
(* An event is the n-th of its thread; include_events, the payloads and    *)
(* the backoff are left out.                                               *)
(***************************************************************************)
EXTENDS Naturals, Sequences

CONSTANTS
  Callers,     \* threads that report events
  Closers,     \* threads that call close()
  Events,      \* bound: events per caller
  Size,        \* queue_maxsize, at least 1
  MaxRetries   \* WebhookConfig.max_retries

Stop == <<>>

VARIABLES
  queue,     \* _queue: events and stop markers
  closed,    \* _closed
  worker,    \* the daemon: "waiting", "posting", "stopped" or "dead"
  item,      \* the event it posts
  attempt,   \* _post(): attempts made for it
  pc,        \* where each thread is
  sent,      \* events each caller has reported
  last,      \* history: the event of each caller the endpoint took last
  tried,     \* history: events whose delivery ended, well or not
  dropped,   \* history: the events counted in _dropped_count
  early,     \* history: events in the queue before close() was called
  racing     \* history: callers inside enqueue() when close() was called

vars == <<queue, closed, worker, item, attempt, pc, sent, last, tried, dropped, early, racing>>
history == <<tried, dropped, early, racing>>

AllEvents == Callers \X (1..Events)
Threads == Callers \cup Closers

TypeOK ==
  /\ \A i \in 1..Len(queue) : queue[i] \in AllEvents \cup {Stop}
  /\ Len(queue) <= Size
  /\ closed \in BOOLEAN
  /\ worker \in {"waiting", "posting", "stopped", "dead"}
  /\ item \in AllEvents \cup {Stop}
  /\ attempt \in 0..MaxRetries
  /\ pc \in [Threads -> {"idle", "put", "set", "stop", "join", "done"}]
  /\ sent \in [Callers -> 0..Events]
  /\ last \in [Callers -> 0..Events]
  /\ {tried, dropped, early} \subseteq SUBSET AllEvents
  /\ racing \subseteq Callers

Init ==
  /\ queue = <<>>
  /\ closed = FALSE
  /\ worker = "waiting"
  /\ item = Stop
  /\ attempt = 0
  /\ pc = [t \in Threads |-> "idle"]
  /\ sent = [c \in Callers |-> 0]
  /\ last = [c \in Callers |-> 0]
  /\ tried = {}
  /\ dropped = {}
  /\ early = {}
  /\ racing = {}

Goes(t, where) == pc' = [pc EXCEPT ![t] = where]
Event(c) == <<c, sent[c]>>
Queued == {queue[i] : i \in 1..Len(queue)} \ {Stop}

-----------------------------------------------------------------------------
(* enqueue() *)

(* An event after close() is counted and dropped. *)
Enqueue(c) ==
  /\ worker # "dead"
  /\ pc[c] = "idle"
  /\ sent[c] < Events
  /\ sent' = [sent EXCEPT ![c] = @ + 1]
  /\ IF closed
     THEN dropped' = dropped \cup {<<c, sent[c] + 1>>} /\ UNCHANGED pc
     ELSE Goes(c, "put") /\ UNCHANGED dropped
  /\ UNCHANGED <<queue, closed, worker, item, attempt, last, tried, early, racing>>

(* put_nowait(): a full queue drops the event. *)
PutNoWait(c) ==
  /\ worker # "dead"
  /\ pc[c] = "put"
  /\ Goes(c, "idle")
  /\ IF Len(queue) < Size
     THEN queue' = Append(queue, Event(c)) /\ UNCHANGED dropped
     ELSE dropped' = dropped \cup {Event(c)} /\ UNCHANGED queue
  /\ UNCHANGED <<closed, worker, item, attempt, sent, last, tried, early, racing>>

-----------------------------------------------------------------------------
(* _drain() and _post(): the daemon *)

Take ==
  /\ worker = "waiting"
  /\ queue # <<>>
  /\ queue' = Tail(queue)
  /\ item' = Head(queue)
  /\ worker' = IF Head(queue) = Stop THEN "stopped" ELSE "posting"
  /\ attempt' = 0
  /\ UNCHANGED <<closed, pc, sent, last, history>>

Delivered ==
  /\ worker' = "waiting"
  /\ item' = Stop
  /\ tried' = tried \cup {item}
  /\ UNCHANGED <<queue, attempt>>

(* A redirect, a 4xx, a WebhookError, or one failure too many: logged. *)
GiveUp ==
  /\ worker' = "waiting"
  /\ item' = Stop
  /\ tried' = tried \cup {item}
  /\ UNCHANGED <<queue, attempt>>

Retry ==
  /\ attempt < MaxRetries
  /\ attempt' = attempt + 1
  /\ UNCHANGED <<queue, worker, item, tried>>

(* One attempt: the endpoint took the event or not, and answered with a    *)
(* success, an error to repeat (5xx, a lost connection) or a refusal.      *)
Post ==
  /\ worker = "posting"
  /\ \/ last' = [last EXCEPT ![item[1]] = item[2]] /\ (Delivered \/ Retry \/ (attempt = MaxRetries /\ GiveUp))
     \/ UNCHANGED last /\ (Retry \/ GiveUp)
  /\ UNCHANGED <<closed, pc, sent, dropped, early, racing>>

-----------------------------------------------------------------------------
(* close() *)

(* if self._closed: return *)
CloseBegin(c) ==
  /\ worker # "dead"
  /\ pc[c] = "idle"
  /\ Goes(c, IF closed THEN "done" ELSE "set")
  /\ UNCHANGED <<queue, closed, worker, item, attempt, sent, last, history>>

SetClosed(c) ==
  /\ pc[c] = "set"
  /\ closed' = TRUE
  /\ Goes(c, "stop")
  /\ IF closed THEN UNCHANGED <<early, racing>>
     ELSE /\ early' = Queued
          /\ racing' = {d \in Callers : pc[d] = "put"}
  /\ UNCHANGED <<queue, worker, item, attempt, sent, last, tried, dropped>>

PutStop_First(c) ==
  /\ pc[c] = "stop"
  /\ Len(queue) < Size
  /\ queue' = <<Stop>> \o queue
  /\ Goes(c, "join")
  /\ UNCHANGED <<closed, worker, item, attempt, sent, last, history>>

(* put(_STOP) waits while the queue is full. *)
PutStop(c) ==
  /\ worker # "dead"
  /\ pc[c] = "stop"
  /\ Len(queue) < Size
  /\ queue' = Append(queue, Stop)
  /\ Goes(c, "join")
  /\ UNCHANGED <<closed, worker, item, attempt, sent, last, history>>

(* join(timeout) returns when the daemon stopped, or before. *)
Join(c) ==
  /\ pc[c] = "join"
  /\ Goes(c, "done")
  /\ UNCHANGED <<queue, closed, worker, item, attempt, sent, last, history>>

(* The interpreter exits: the daemon dies, whatever it still had to do,    *)
(* after _atexit_close() returned from a close() of its own or found one.  *)
Exit ==
  /\ closed
  /\ \E c \in Closers : pc[c] = "done"
  /\ worker' = "dead"
  /\ UNCHANGED <<queue, closed, item, attempt, pc, sent, last, history>>

Next ==
  \/ \E c \in Callers : Enqueue(c) \/ PutNoWait(c)
  \/ \E c \in Closers : CloseBegin(c) \/ SetClosed(c) \/ PutStop(c) \/ Join(c)
  \/ Take
  \/ Post
  \/ Exit

(* Threads are scheduled; a request and its backoff end. *)
Spec ==
  /\ Init /\ [][Next]_vars
  /\ \A c \in Callers : WF_vars(PutNoWait(c))
  /\ \A c \in Closers : WF_vars(SetClosed(c)) /\ WF_vars(PutStop(c)) /\ WF_vars(Join(c))
  /\ WF_vars(Take) /\ WF_vars(Post)

-----------------------------------------------------------------------------
(* Every event is accounted for when the daemon stopped for a stop marker: *)
(* all that were queued before close() had their delivery tried, and what  *)
(* is left behind the marker came from an enqueue() that had looked at     *)
(* _closed before close() set it.                                          *)
FlushedByClose ==
  worker = "stopped" =>
    /\ early \subseteq tried
    /\ Queued \subseteq {e \in AllEvents : e[1] \in racing}

(* The endpoint sees the events of a thread in their order, an event       *)
(* again only directly after itself, and none that was counted as dropped. *)
InOrder ==
  [][/\ \A c \in Callers : last'[c] >= last[c]
     /\ item' \notin dropped']_vars

(* A stop marker has nowhere to go: the daemon stopped for the marker of   *)
(* another close(), and a late event filled the queue.                     *)
Stranded ==
  /\ Len(queue) = Size
  /\ worker = "stopped"
  /\ \E c \in Closers : pc[c] \in {"join", "done"}

(* close() returns although it waits for room in the queue: the daemon     *)
(* makes some, whatever the endpoint does, or another close() was faster.  *)
CloseReturns ==
  \A c \in Closers : pc[c] = "set" ~> pc[c] = "done" \/ worker = "dead" \/ Stranded

=============================================================================
