------------------------- MODULE EventStreamProofs -------------------------
(***************************************************************************)
(* Proofs about EventStream, for any number of concurrent streams of any   *)
(* kind and any number of events: a consumer gets the events of its own    *)
(* run in order, and one that drains its stream misses nothing.            *)
(*                                                                         *)
(* Below, the same about WebhookNotifier, for any number of callers and of *)
(* closers, any queue and any number of retries: what was queued before    *)
(* close() is flushed, and the endpoint sees no caller's events out of     *)
(* order.                                                                  *)
(***************************************************************************)
EXTENDS MCReports, TLAPS

(* The worker put the sentinel, unless the consumer had left before. *)
Ended(s) == worker[s] \in {"flag", "set", "over"}

(* The emitter in a worker's context is its own. *)
OwnSlot(s) == worker[s] # "new" => slot[s] = s

(* What a worker holds is an event. *)
InHand(s) == worker[s] = "putting" => emitted[s] > 0

(* A task has no steps of its own in closing. *)
TaskStages(s) == kind[s] = "task" => worker[s] \in {"new", "running", "over"}

(* The events after the r-th, without or with the sentinel in the end. *)
Following(q, s, r) == \A n \in 1..Len(q) : q[n] = <<s, r + n>>
Ending(q, s, r) == \A n \in 1..Len(q) : q[n] = IF n = Len(q) THEN Sentinel ELSE <<s, r + n>>

(* What was received are the first events. *)
Prefix(s) == Following(received[s], s, 0)

(* What is queued are the next ones, and the sentinel in the end. *)
Queued(s) ==
  consumer[s] = "reading" =>
    IF Ended(s) THEN Ending(queue[s], s, Len(received[s]))
                ELSE Following(queue[s], s, Len(received[s]))

(* Every event that was produced was received, is queued or in hand. *)
Counted(s) ==
  consumer[s] = "reading" =>
    /\ ~Ended(s) /\ worker[s] # "putting" => Len(received[s]) + Len(queue[s]) = emitted[s]
    /\ worker[s] = "putting" => Len(received[s]) + Len(queue[s]) + 1 = emitted[s]
    /\ Ended(s) => Len(queue[s]) > 0 /\ Len(received[s]) + Len(queue[s]) = emitted[s] + 1

(* Nobody but the worker closes the emitter while the consumer reads. *)
OpenMeanwhile(s) == consumer[s] = "reading" /\ closed[s] => worker[s] \in {"set", "over"}

(* A worker that is done closed its emitter, as did whoever abandoned it.  *)
Shut(s) ==
  worker[s] \in {"set", "over"} \/ consumer[s] \in {"awaiting", "ended"} => closed[s]

(* A consumer that left at the sentinel has all the events. *)
Drained(s) ==
  consumer[s] # "reading" /\ ~broke[s] => Ended(s) /\ Len(received[s]) = emitted[s]

(* Only a task that was abandoned is cancelled. *)
Handover(s) ==
  kind[s] = "task" /\ ~broke[s] =>
    /\ ~cancelled[s]
    /\ consumer[s] \in {"reading", "leaving", "ended"}
    /\ consumer[s] = "ended" => surfaced[s] = raised[s]

StreamInv(s) ==
  /\ OwnSlot(s) /\ InHand(s) /\ TaskStages(s)
  /\ Prefix(s) /\ Queued(s) /\ Counted(s)
  /\ OpenMeanwhile(s) /\ Shut(s) /\ Drained(s) /\ Handover(s)

IInv == TypeOK /\ \A s \in Streams : StreamInv(s)

(* Nothing of a stream changes. *)
Same(t) ==
  /\ kind'[t] = kind[t] /\ slot'[t] = slot[t] /\ worker'[t] = worker[t]
  /\ raised'[t] = raised[t] /\ emitted'[t] = emitted[t] /\ queue'[t] = queue[t]
  /\ closed'[t] = closed[t] /\ consumer'[t] = consumer[t] /\ broke'[t] = broke[t]
  /\ received'[t] = received[t] /\ surfaced'[t] = surfaced[t] /\ cancelled'[t] = cancelled[t]

-----------------------------------------------------------------------------

(* The invariant of a stream that nothing touches is kept. *)
LEMMA SameKeeps == ASSUME NEW t \in Streams, StreamInv(t), Same(t) PROVE StreamInv(t)'
<1>1. (OwnSlot(t) /\ InHand(t) /\ TaskStages(t))'
    BY DEF StreamInv, Same, OwnSlot, InHand, TaskStages
<1>2. Prefix(t)'
    BY DEF StreamInv, Same, Prefix
<1>3. Queued(t)'
    BY DEF StreamInv, Same, Queued, Ended
<1>4. Counted(t)'
    BY DEF StreamInv, Same, Counted, Ended
<1>5. (OpenMeanwhile(t) /\ Shut(t) /\ Drained(t) /\ Handover(t))'
    BY DEF StreamInv, Same, OpenMeanwhile, Shut, Drained, Handover, Ended
<1> QED
    BY <1>1, <1>2, <1>3, <1>4, <1>5 DEF StreamInv

(* A step of one stream leaves the others alone: events go to the queue    *)
(* of their own stream because the emitter in the context is its own.      *)
LEMMA OthersKeep ==
  ASSUME TypeOK, NEW s \in Streams, OwnSlot(s),
         WorkerStep(s) \/ ConsumerStep(s) \/ Break(s),
         NEW t \in Streams, t # s
  PROVE  Same(t)
<1>1. CASE WorkerStarts(s)
    BY <1>1 DEF WorkerStarts, Install, Goes, Same, TypeOK, consumerVars
<1>2. CASE Emit(s)
    BY <1>2 DEF Emit, OwnSlot, Goes, Same, TypeOK, consumerVars
<1>3. CASE Put(s)
    BY <1>3 DEF Put, OwnSlot, Goes, Same, TypeOK, consumerVars
<1>4. CASE ThreadLeavesRun(s)
    BY <1>4 DEF ThreadLeavesRun, Runs, Goes, Same, TypeOK, consumerVars
<1>5. CASE TaskEnds(s)
    BY <1>5 DEF TaskEnds, Runs, Goes, Same, TypeOK, consumerVars
<1>6. CASE ThreadCloses(s)
    BY <1>6 DEF ThreadCloses, SendSentinel, Goes, Same, TypeOK, consumerVars
<1>7. CASE ThreadFlags(s)
    BY <1>7 DEF ThreadFlags, Goes, Same, TypeOK, consumerVars
<1>8. CASE SetDone(s)
    BY <1>8 DEF SetDone, Goes, Same, TypeOK, consumerVars
<1>9. CASE Read(s)
    BY <1>9 DEF Read, Goes, Same, TypeOK, workerVars
<1>10. CASE LeavesDone(s)
    BY <1>10 DEF LeavesDone, Goes, Same, TypeOK, workerVars
<1>11. CASE ThreadLeft(s)
    BY <1>11 DEF ThreadLeft, SendSentinel, Goes, Same, TypeOK, workerVars
<1>12. CASE ThreadSilenced(s)
    BY <1>12 DEF ThreadSilenced, Goes, Same, TypeOK, workerVars
<1>13. CASE TaskLeft(s)
    BY <1>13 DEF TaskLeft, Goes, Same, TypeOK, workerVars
<1>14. CASE TaskAwaited(s)
    BY <1>14 DEF TaskAwaited, Goes, Same, TypeOK, workerVars
<1>15. CASE Break(s)
    BY <1>15 DEF Break, Goes, Same, TypeOK, workerVars
<1> QED
    BY <1>1, <1>2, <1>3, <1>4, <1>5, <1>6, <1>7, <1>8, <1>9, <1>10, <1>11, <1>12, <1>13,
       <1>14, <1>15 DEF WorkerStep, ConsumerStep

(* A step keeps the type.  What is put is an event, because something was   *)
(* emitted before.                                                         *)
LEMMA TypeStep ==
  ASSUME TypeOK, NEW s \in Streams, StreamInv(s),
         WorkerStep(s) \/ ConsumerStep(s) \/ Break(s)
  PROVE  TypeOK'
<1> USE StreamAssumption
<1>a. /\ Sentinel \in Event \cup {Sentinel}
      /\ \A n \in 1..Events : <<s, n>> \in Event
    BY DEF Event
<1>b. /\ \A q \in Seq(Event \cup {Sentinel}) : Append(q, Sentinel) \in Seq(Event \cup {Sentinel})
      /\ \A q \in Seq(Event \cup {Sentinel}) : \A n \in 1..Events :
           Append(q, <<s, n>>) \in Seq(Event \cup {Sentinel})
    BY <1>a
<1>c. \A x \in Seq(Event \cup {Sentinel}) :
        [queue EXCEPT ![s] = x] \in [Streams -> Seq(Event \cup {Sentinel})]
    BY DEF TypeOK
<1>d. queue \in [Streams -> Seq(Event \cup {Sentinel})] /\ queue[s] \in Seq(Event \cup {Sentinel})
    BY DEF TypeOK
<1>1. CASE WorkerStarts(s)
    BY <1>1 DEF WorkerStarts, Install, Goes, consumerVars, TypeOK
<1>2. CASE Emit(s)
  <2>1. slot[s] = s /\ emitted[s] + 1 \in 1..Events /\ queue[s] \in Seq(Event \cup {Sentinel})
      BY <1>2 DEF Emit, StreamInv, OwnSlot, TypeOK
  <2>2. emitted' = [emitted EXCEPT ![s] = emitted[s] + 1] /\ emitted'[s] = emitted[s] + 1
      BY <1>2 DEF Emit, TypeOK
  <2>3. Append(queue[s], <<s, emitted'[s]>>) \in Seq(Event \cup {Sentinel})
      BY <1>b, <2>1, <2>2
  <2>4. \/ queue' = queue
        \/ queue' = [queue EXCEPT ![s] = Append(queue[s], <<s, emitted'[s]>>)]
      BY <1>2, <2>1 DEF Emit
  <2>5. queue' \in [Streams -> Seq(Event \cup {Sentinel})]
      BY <1>c, <2>3, <2>4 DEF TypeOK
  <2>6. emitted' \in [Streams -> 0..Events]
      BY <2>1, <2>2 DEF TypeOK
  <2>7. worker' = worker \/ worker' = [worker EXCEPT ![s] = "putting"]
      BY <1>2 DEF Emit, Goes
  <2> QED
      BY <1>2, <2>5, <2>6, <2>7 DEF Emit, consumerVars, TypeOK
<1>3. CASE Put(s)
  <2>1. slot[s] = s /\ emitted[s] \in 1..Events /\ queue[s] \in Seq(Event \cup {Sentinel})
    <3>1. slot[s] = s /\ emitted[s] > 0
        BY <1>3 DEF Put, StreamInv, OwnSlot, InHand
    <3> QED
        BY <3>1 DEF TypeOK
  <2>2. Append(queue[s], <<s, emitted[s]>>) \in Seq(Event \cup {Sentinel})
      BY <1>b, <2>1
  <2>3. queue' \in [Streams -> Seq(Event \cup {Sentinel})]
      BY <1>3, <1>c, <2>1, <2>2 DEF Put
  <2> QED
      BY <1>3, <2>3 DEF Put, Goes, consumerVars, TypeOK
<1>4. CASE ThreadLeavesRun(s)
    BY <1>4 DEF ThreadLeavesRun, Runs, Goes, consumerVars, TypeOK
<1>5. CASE TaskEnds(s)
    BY <1>5, <1>b DEF TaskEnds, Runs, Goes, consumerVars, TypeOK
<1>6. CASE ThreadCloses(s)
  <2>1. queue' = queue \/ queue' = [queue EXCEPT ![s] = Append(queue[s], Sentinel)]
      BY <1>6 DEF ThreadCloses, SendSentinel
  <2>2. queue' \in [Streams -> Seq(Event \cup {Sentinel})]
      BY <1>b, <1>c, <1>d, <2>1
  <2> QED
    <3>1. \/ worker' = [worker EXCEPT ![s] = "set"] /\ UNCHANGED closed
          \/ worker' = [worker EXCEPT ![s] = "flag"] /\ UNCHANGED closed
        BY <1>6 DEF ThreadCloses, SendSentinel, Goes
    <3> QED
        BY <1>6, <2>2, <3>1 DEF ThreadCloses, consumerVars, TypeOK
<1>7. CASE ThreadFlags(s)
    BY <1>7 DEF ThreadFlags, Goes, consumerVars, TypeOK
<1>8. CASE SetDone(s)
    BY <1>8 DEF SetDone, Goes, consumerVars, TypeOK
<1>9. CASE Read(s)
  <2>1. queue[s] \in Seq(Event \cup {Sentinel}) /\ queue[s] # <<>> /\ received[s] \in Seq(Event)
      BY <1>9 DEF Read, TypeOK
  <2>2. Tail(queue[s]) \in Seq(Event \cup {Sentinel}) /\ Head(queue[s]) \in Event \cup {Sentinel}
      BY <2>1
  <2>3. Head(queue[s]) # Sentinel => Append(received[s], Head(queue[s])) \in Seq(Event)
      BY <2>1, <2>2
  <2>4. queue' \in [Streams -> Seq(Event \cup {Sentinel})] /\ received' \in [Streams -> Seq(Event)]
      BY ZenonT(40), <1>9, <2>2, <2>3 DEF Read, TypeOK
  <2> QED
      BY <1>9, <2>4 DEF Read, Goes, workerVars, TypeOK
<1>10. CASE LeavesDone(s)
    BY <1>10 DEF LeavesDone, Goes, workerVars, TypeOK
<1>11. CASE ThreadLeft(s)
  <2>1. queue' = queue \/ queue' = [queue EXCEPT ![s] = Append(queue[s], Sentinel)]
      BY <1>11 DEF ThreadLeft, SendSentinel
  <2>2. queue' \in [Streams -> Seq(Event \cup {Sentinel})]
      BY <1>b, <1>c, <1>d, <2>1
  <2> QED
    <3>1. \/ consumer' = [consumer EXCEPT ![s] = "ended"] /\ UNCHANGED closed
          \/ consumer' = [consumer EXCEPT ![s] = "flag"] /\ UNCHANGED closed
        BY <1>11 DEF ThreadLeft, SendSentinel, Goes
    <3> QED
        BY <1>11, <2>2, <3>1 DEF ThreadLeft, workerVars, TypeOK
<1>12. CASE ThreadSilenced(s)
    BY <1>12 DEF ThreadSilenced, Goes, workerVars, TypeOK
<1>13. CASE TaskLeft(s)
    BY <1>13, <1>b DEF TaskLeft, Goes, workerVars, TypeOK
<1>14. CASE TaskAwaited(s)
    BY <1>14 DEF TaskAwaited, Goes, workerVars, TypeOK
<1>15. CASE Break(s)
    BY <1>15 DEF Break, Goes, workerVars, TypeOK
<1> QED
    BY <1>1, <1>2, <1>3, <1>4, <1>5, <1>6, <1>7, <1>8, <1>9, <1>10, <1>11, <1>12, <1>13,
       <1>14, <1>15 DEF WorkerStep, ConsumerStep

(* Appending one element. *)
LEMMA Appended ==
  ASSUME NEW T, NEW q \in Seq(T), NEW x
  PROVE  /\ Len(Append(q, x)) = Len(q) + 1 /\ Len(q) \in Nat
         /\ \A n \in 1..Len(q) + 1 :
              Append(q, x)[n] = IF n = Len(q) + 1 THEN x ELSE q[n]
OBVIOUS

(* One more event is put. *)
LEMMA EventPut ==
  ASSUME NEW T, NEW q \in Seq(T), NEW s, NEW r \in Nat, Following(q, s, r)
  PROVE  Following(Append(q, <<s, r + Len(q) + 1>>), s, r)
<1> DEFINE x == <<s, r + Len(q) + 1>>
           p == Append(q, x)
<1>1. Len(p) = Len(q) + 1 /\ Len(q) \in Nat
    BY Appended
<1>2. ASSUME NEW n \in 1..Len(p) PROVE p[n] = <<s, r + n>>
  <2>1. p[n] = IF n = Len(q) + 1 THEN x ELSE q[n]
      BY <1>1, <1>2, Appended
  <2>2. CASE n = Len(q) + 1
    <3>1. r + n = r + Len(q) + 1
        BY <1>1, <2>2
    <3> QED
      BY <2>1, <2>2, <3>1
  <2>3. CASE n # Len(q) + 1
    <3>1. n \in 1..Len(q)
        BY <1>1, <2>3
    <3> QED
      BY <2>1, <2>3, <3>1 DEF Following
  <2> QED
      BY <2>2, <2>3
<1> QED
    BY <1>2 DEF Following

(* The sentinel is put. *)
LEMMA SentinelPut ==
  ASSUME NEW T, NEW q \in Seq(T), NEW s, NEW r \in Nat, Following(q, s, r)
  PROVE  Ending(Append(q, Sentinel), s, r)
<1> DEFINE p == Append(q, Sentinel)
<1>1. Len(p) = Len(q) + 1 /\ Len(q) \in Nat
    BY Appended
<1>2. ASSUME NEW n \in 1..Len(p)
      PROVE  p[n] = IF n = Len(p) THEN Sentinel ELSE <<s, r + n>>
  <2>1. p[n] = IF n = Len(q) + 1 THEN Sentinel ELSE q[n]
      BY <1>1, <1>2, Appended
  <2>2. n # Len(p) => n \in 1..Len(q)
      BY <1>1
  <2> HIDE DEF p
  <2> QED
      BY <1>1, <2>1, <2>2 DEF Following
<1> QED
    BY <1>2 DEF Ending

(* What is put on one side is more on the other, or missing there. *)
LEMMA Sums ==
  /\ \A a, b, c \in Nat : a + b = c => a + (b + 1) = c + 1
  /\ \A a \in Nat, b \in Nat \ {0} : (a + 1) + (b - 1) = a + b /\ (b # 1 => b - 1 > 0)
OBVIOUS

(* The first element is taken. *)
LEMMA Taken ==
  ASSUME NEW T, NEW q \in Seq(T), q # <<>>
  PROVE  /\ Head(q) = q[1] /\ Len(q) \in Nat \ {0} /\ Len(Tail(q)) = Len(q) - 1
         /\ \A n \in 1..Len(Tail(q)) : Tail(q)[n] = q[n + 1]
OBVIOUS

(* An event is taken from a queue without a sentinel, *)
LEMMA EventTaken ==
  ASSUME NEW T, NEW q \in Seq(T), NEW s, NEW r \in Nat, Following(q, s, r), q # <<>>
  PROVE  Head(q) = <<s, r + 1>> /\ Following(Tail(q), s, r + 1)
<1> DEFINE p == Tail(q)
<1>1. Head(q) = q[1] /\ Len(q) \in Nat \ {0} /\ Len(p) = Len(q) - 1
    BY Taken
<1>2. \A n \in 1..Len(p) : p[n] = q[n + 1]
    BY Taken
<1>3. Head(q) = <<s, r + 1>>
  <2>1. 1 \in 1..Len(q)
    BY <1>1
  <2> QED
    BY <1>1, <2>1 DEF Following
<1> HIDE DEF p
<1>4. ASSUME NEW n \in 1..Len(p) PROVE p[n] = <<s, (r + 1) + n>>
  <2>1. n + 1 \in 1..Len(q) /\ r + (n + 1) = (r + 1) + n
      BY <1>1
  <2>2. q[n + 1] = <<s, r + (n + 1)>>
      BY <2>1 DEF Following
  <2> QED
      BY <1>2, <2>1, <2>2
<1>5. Following(p, s, r + 1)
    BY <1>4 DEF Following
<1> QED
    BY <1>3, <1>5 DEF p

(* or something from one that ends in it. *)
LEMMA EndingTaken ==
  ASSUME NEW T, NEW q \in Seq(T), NEW s, NEW r \in Nat, Ending(q, s, r), q # <<>>
  PROVE  IF Len(q) = 1 THEN Head(q) = Sentinel
         ELSE Head(q) = <<s, r + 1>> /\ Ending(Tail(q), s, r + 1)
<1> DEFINE p == Tail(q)
<1>1. Head(q) = q[1] /\ Len(q) \in Nat \ {0} /\ Len(p) = Len(q) - 1
    BY Taken
<1>2. \A n \in 1..Len(p) : p[n] = q[n + 1]
    BY Taken
<1>3. Head(q) = IF Len(q) = 1 THEN Sentinel ELSE <<s, r + 1>>
  <2>1. 1 \in 1..Len(q)
    BY <1>1
  <2> QED
    BY <1>1, <2>1 DEF Ending
<1> HIDE DEF p
<1>4. ASSUME NEW n \in 1..Len(p)
      PROVE  p[n] = IF n = Len(p) THEN Sentinel ELSE <<s, (r + 1) + n>>
  <2>1. n + 1 \in 1..Len(q) /\ r + (n + 1) = (r + 1) + n /\ (n = Len(p) <=> n + 1 = Len(q))
      BY <1>1
  <2>2. q[n + 1] = IF n + 1 = Len(q) THEN Sentinel ELSE <<s, r + (n + 1)>>
      BY <2>1 DEF Ending
  <2> QED
      BY <1>2, <2>1, <2>2
<1>5. Ending(p, s, r + 1)
    BY <1>4 DEF Ending
<1> QED
    BY <1>3, <1>5 DEF p

(* A step of a stream keeps its invariant. *)
LEMMA OwnStep ==
  ASSUME TypeOK, NEW s \in Streams, StreamInv(s),
         WorkerStep(s) \/ ConsumerStep(s) \/ Break(s)
  PROVE  StreamInv(s)'
<1> USE StreamAssumption
<1>a. /\ kind[s] \in {"thread", "task"} /\ slot[s] \in Streams \cup {NoStream}
      /\ emitted[s] \in 0..Events /\ Events \in Nat
      /\ queue[s] \in Seq(Event \cup {Sentinel}) /\ received[s] \in Seq(Event)
    BY DEF TypeOK
<1>1. CASE WorkerStarts(s)
  <2>1. (OwnSlot(s) /\ InHand(s) /\ TaskStages(s))'
      BY <1>1, <1>a DEF WorkerStarts, Install, Goes, consumerVars, TypeOK, StreamInv,
         OwnSlot, InHand, TaskStages
  <2>2. Prefix(s)'
      BY <1>1, <1>a DEF WorkerStarts, Install, Goes, consumerVars, TypeOK, StreamInv,
         Prefix
  <2>3. Queued(s)'
      BY <1>1, <1>a DEF WorkerStarts, Install, Goes, consumerVars, TypeOK, StreamInv,
         Queued, Ended
  <2>4. Counted(s)'
      BY <1>1, <1>a DEF WorkerStarts, Install, Goes, consumerVars, TypeOK, StreamInv,
         Counted, Ended
  <2>5. (OpenMeanwhile(s) /\ Shut(s) /\ Drained(s) /\ Handover(s))'
      BY <1>1, <1>a DEF WorkerStarts, Install, Goes, consumerVars, TypeOK, StreamInv,
         TaskStages, Counted, OpenMeanwhile, Shut, Drained, Handover, Ended
  <2> QED
      BY <2>1, <2>2, <2>3, <2>4, <2>5 DEF StreamInv
<1>2. CASE Emit(s)
  <2>1. (OwnSlot(s) /\ InHand(s) /\ TaskStages(s))'
      BY <1>2, <1>a DEF Emit, Goes, consumerVars, TypeOK, StreamInv,
         OwnSlot, InHand, TaskStages
  <2>2. Prefix(s)'
      BY <1>2, <1>a DEF Emit, Goes, consumerVars, TypeOK, StreamInv,
         Prefix
  <2>3. Queued(s)'
    <3> SUFFICES ASSUME consumer[s] = "reading" PROVE Queued(s)'
        BY <1>2 DEF Emit, consumerVars, Queued
    <3>1. /\ slot[s] = s /\ ~closed[s] /\ ~Ended(s) /\ ~Ended(s)'
          /\ Len(received[s]) + Len(queue[s]) = emitted[s]
        BY <1>2 DEF Emit, Goes, TypeOK, StreamInv, OwnSlot, OpenMeanwhile, Counted, Ended
    <3>2. Following(queue[s], s, Len(received[s])) /\ consumer[s] = "reading"
        BY <1>2, <3>1 DEF Emit, StreamInv, Queued, consumerVars
    <3>3. received'[s] = received[s] /\ emitted'[s] = emitted[s] + 1
        BY <1>2 DEF Emit, consumerVars, TypeOK
    <3>4. queue'[s] = queue[s] \/ queue'[s] = Append(queue[s], <<s, emitted[s] + 1>>)
        BY <1>2, <3>1, <3>3 DEF Emit, TypeOK
    <3>5. Len(received[s]) \in Nat
        BY <1>a
    <3>6. Following(queue'[s], s, Len(received[s]))
        BY <1>a, <3>1, <3>2, <3>4, <3>5, EventPut
    <3> QED
        BY <3>1, <3>3, <3>6 DEF Queued
  <2>4. Counted(s)'
    <3> SUFFICES ASSUME consumer[s] = "reading" PROVE Counted(s)'
        BY <1>2 DEF Emit, consumerVars, Counted
    <3>1. /\ slot[s] = s /\ ~closed[s] /\ ~Ended(s) /\ ~Ended(s)'
          /\ Len(received[s]) + Len(queue[s]) = emitted[s]
        BY <1>2 DEF Emit, Goes, TypeOK, StreamInv, OwnSlot, OpenMeanwhile, Counted, Ended
    <3>2. received'[s] = received[s] /\ emitted'[s] = emitted[s] + 1
        BY <1>2 DEF Emit, consumerVars, TypeOK
    <3>3. \/ queue'[s] = queue[s] /\ worker'[s] = "putting"
          \/ /\ queue'[s] = Append(queue[s], <<s, emitted[s] + 1>>)
             /\ worker'[s] = worker[s] /\ worker[s] = "running"
        BY <1>2, <3>1, <3>2 DEF Emit, Goes, TypeOK
    <3>4. Len(Append(queue[s], <<s, emitted[s] + 1>>)) = Len(queue[s]) + 1
        BY <1>a, Appended
    <3>5. Len(queue[s]) \in Nat /\ Len(received[s]) \in Nat /\ emitted[s] \in Nat
        BY <1>a
    <3>6. IF worker'[s] = "putting" THEN Len(received'[s]) + Len(queue'[s]) + 1 = emitted'[s]
                                    ELSE Len(received'[s]) + Len(queue'[s]) = emitted'[s]
      <4>1. CASE queue'[s] = queue[s] /\ worker'[s] = "putting"
          BY <3>1, <3>2, <4>1
      <4>2. CASE queue'[s] # queue[s] \/ worker'[s] # "putting"
        <5>1. Len(queue'[s]) = Len(queue[s]) + 1 /\ worker'[s] = "running"
            BY <3>3, <3>4, <4>2
        <5>2. Len(received[s]) + (Len(queue[s]) + 1) = emitted[s] + 1
            BY ZenonT(40), <3>1, <3>5, Sums
        <5> QED
            BY <3>2, <5>1, <5>2
      <4> QED
          BY <4>1, <4>2
    <3> QED
        BY <3>1, <3>6 DEF Counted
  <2>5. (OpenMeanwhile(s) /\ Shut(s) /\ Drained(s) /\ Handover(s))'
      BY <1>2, <1>a DEF Emit, Goes, consumerVars, TypeOK, StreamInv,
         TaskStages, Counted, OpenMeanwhile, Shut, Drained, Handover, Ended
  <2> QED
      BY <2>1, <2>2, <2>3, <2>4, <2>5 DEF StreamInv
<1>3. CASE Put(s)
  <2>1. (OwnSlot(s) /\ InHand(s) /\ TaskStages(s))'
      BY <1>3, <1>a DEF Put, Goes, consumerVars, TypeOK, StreamInv,
         OwnSlot, InHand, TaskStages
  <2>2. Prefix(s)'
      BY <1>3, <1>a DEF Put, Goes, consumerVars, TypeOK, StreamInv,
         Prefix
  <2>3. Queued(s)'
    <3> SUFFICES ASSUME consumer[s] = "reading" PROVE Queued(s)'
        BY <1>3 DEF Put, consumerVars, Queued
    <3>1. /\ slot[s] = s /\ ~Ended(s) /\ ~Ended(s)' /\ received'[s] = received[s]
          /\ Len(received[s]) + Len(queue[s]) + 1 = emitted[s]
        BY <1>3 DEF Put, Goes, consumerVars, TypeOK, StreamInv, OwnSlot, Counted, Ended
    <3>2. Following(queue[s], s, Len(received[s])) /\ Len(received[s]) \in Nat
        BY <1>a, <3>1 DEF StreamInv, Queued
    <3>3. queue'[s] = Append(queue[s], <<s, emitted[s]>>)
        BY <1>3, <3>1 DEF Put, TypeOK
    <3>4. Following(queue'[s], s, Len(received[s]))
        BY <1>a, <3>1, <3>2, <3>3, EventPut
    <3> QED
        BY <3>1, <3>4 DEF Queued
  <2>4. Counted(s)'
      BY <1>3, <1>a DEF Put, Goes, consumerVars, TypeOK, StreamInv,
         OwnSlot, TaskStages, Prefix, Queued, Counted, OpenMeanwhile, Drained, Ended
  <2>5. (OpenMeanwhile(s) /\ Shut(s) /\ Drained(s) /\ Handover(s))'
      BY <1>3, <1>a DEF Put, Goes, consumerVars, TypeOK, StreamInv,
         TaskStages, Counted, OpenMeanwhile, Shut, Drained, Handover, Ended
  <2> QED
      BY <2>1, <2>2, <2>3, <2>4, <2>5 DEF StreamInv
<1>4. CASE ThreadLeavesRun(s)
  <2>1. (OwnSlot(s) /\ InHand(s) /\ TaskStages(s))'
      BY <1>4, <1>a DEF ThreadLeavesRun, Runs, Goes, consumerVars, TypeOK, StreamInv,
         OwnSlot, InHand, TaskStages
  <2>2. Prefix(s)'
      BY <1>4, <1>a DEF ThreadLeavesRun, Runs, Goes, consumerVars, TypeOK, StreamInv,
         Prefix
  <2>3. Queued(s)'
      BY <1>4, <1>a DEF ThreadLeavesRun, Runs, Goes, consumerVars, TypeOK, StreamInv,
         Queued, Ended
  <2>4. Counted(s)'
      BY <1>4, <1>a DEF ThreadLeavesRun, Runs, Goes, consumerVars, TypeOK, StreamInv,
         Counted, Ended
  <2>5. (OpenMeanwhile(s) /\ Shut(s) /\ Drained(s) /\ Handover(s))'
      BY <1>4, <1>a DEF ThreadLeavesRun, Runs, Goes, consumerVars, TypeOK, StreamInv,
         TaskStages, Counted, OpenMeanwhile, Shut, Drained, Handover, Ended
  <2> QED
      BY <2>1, <2>2, <2>3, <2>4, <2>5 DEF StreamInv
<1>5. CASE TaskEnds(s)
  <2>1. (OwnSlot(s) /\ InHand(s) /\ TaskStages(s))'
      BY <1>5, <1>a DEF TaskEnds, Runs, Goes, consumerVars, TypeOK, StreamInv,
         OwnSlot, InHand, TaskStages
  <2>2. Prefix(s)'
      BY <1>5, <1>a DEF TaskEnds, Runs, Goes, consumerVars, TypeOK, StreamInv,
         Prefix
  <2>3. Queued(s)'
    <3> SUFFICES ASSUME consumer[s] = "reading" PROVE Queued(s)'
        BY <1>5 DEF TaskEnds, consumerVars, Queued
    <3>1. ~closed[s] /\ ~Ended(s) /\ Ended(s)' /\ received'[s] = received[s]
        BY <1>5 DEF TaskEnds, Runs, Goes, TypeOK, consumerVars, StreamInv, OpenMeanwhile, Ended
    <3>2. queue'[s] = Append(queue[s], Sentinel)
        BY <1>5, <3>1 DEF TaskEnds, Runs, Goes, TypeOK
    <3>3. Following(queue[s], s, Len(received[s])) /\ Len(received[s]) \in Nat
        BY <1>a, <3>1 DEF StreamInv, Queued
    <3>4. Ending(queue'[s], s, Len(received[s]))
        BY <1>a, <3>2, <3>3, SentinelPut
    <3> QED
        BY <3>1, <3>4 DEF Queued
  <2>4. Counted(s)'
      BY <1>5, <1>a DEF TaskEnds, Runs, Goes, consumerVars, TypeOK, StreamInv,
         OwnSlot, TaskStages, Prefix, Queued, Counted, OpenMeanwhile, Drained, Ended
  <2>5. (OpenMeanwhile(s) /\ Shut(s) /\ Drained(s) /\ Handover(s))'
      BY <1>5, <1>a DEF TaskEnds, Runs, Goes, consumerVars, TypeOK, StreamInv,
         TaskStages, Counted, OpenMeanwhile, Shut, Drained, Handover, Ended
  <2> QED
      BY <2>1, <2>2, <2>3, <2>4, <2>5 DEF StreamInv
<1>6. CASE ThreadCloses(s)
  <2>1. (OwnSlot(s) /\ InHand(s) /\ TaskStages(s))'
      BY <1>6, <1>a DEF ThreadCloses, SendSentinel, Goes, consumerVars, TypeOK, StreamInv,
         OwnSlot, InHand, TaskStages
  <2>2. Prefix(s)'
      BY <1>6, <1>a DEF ThreadCloses, SendSentinel, Goes, consumerVars, TypeOK, StreamInv,
         Prefix
  <2>3. Queued(s)'
    <3> SUFFICES ASSUME consumer[s] = "reading" PROVE Queued(s)'
        BY <1>6 DEF ThreadCloses, consumerVars, Queued
    <3>1. ~closed[s] /\ ~Ended(s) /\ Ended(s)' /\ received'[s] = received[s]
        BY <1>6 DEF ThreadCloses, SendSentinel, Goes, TypeOK, consumerVars, StreamInv,
             OpenMeanwhile, Ended
    <3>2. queue'[s] = Append(queue[s], Sentinel)
        BY <1>6, <3>1 DEF ThreadCloses, SendSentinel, Goes, TypeOK
    <3>3. Following(queue[s], s, Len(received[s])) /\ Len(received[s]) \in Nat
        BY <1>a, <3>1 DEF StreamInv, Queued
    <3>4. Ending(queue'[s], s, Len(received[s]))
        BY <1>a, <3>2, <3>3, SentinelPut
    <3> QED
        BY <3>1, <3>4 DEF Queued
  <2>4. Counted(s)'
      BY <1>6, <1>a DEF ThreadCloses, SendSentinel, Goes, consumerVars, TypeOK, StreamInv,
         OwnSlot, TaskStages, Prefix, Queued, Counted, OpenMeanwhile, Drained, Ended
  <2>5. (OpenMeanwhile(s) /\ Shut(s) /\ Drained(s) /\ Handover(s))'
      BY <1>6, <1>a DEF ThreadCloses, SendSentinel, Goes, consumerVars, TypeOK, StreamInv,
         TaskStages, Counted, OpenMeanwhile, Shut, Drained, Handover, Ended
  <2> QED
      BY <2>1, <2>2, <2>3, <2>4, <2>5 DEF StreamInv
<1>7. CASE ThreadFlags(s)
  <2>1. (OwnSlot(s) /\ InHand(s) /\ TaskStages(s))'
      BY <1>7, <1>a DEF ThreadFlags, Goes, consumerVars, TypeOK, StreamInv,
         OwnSlot, InHand, TaskStages
  <2>2. Prefix(s)'
      BY <1>7, <1>a DEF ThreadFlags, Goes, consumerVars, TypeOK, StreamInv,
         Prefix
  <2>3. Queued(s)'
      BY <1>7, <1>a DEF ThreadFlags, Goes, consumerVars, TypeOK, StreamInv,
         Queued, Ended
  <2>4. Counted(s)'
      BY <1>7, <1>a DEF ThreadFlags, Goes, consumerVars, TypeOK, StreamInv,
         Counted, Ended
  <2>5. (OpenMeanwhile(s) /\ Shut(s) /\ Drained(s) /\ Handover(s))'
      BY <1>7, <1>a DEF ThreadFlags, Goes, consumerVars, TypeOK, StreamInv,
         TaskStages, Counted, OpenMeanwhile, Shut, Drained, Handover, Ended
  <2> QED
      BY <2>1, <2>2, <2>3, <2>4, <2>5 DEF StreamInv
<1>8. CASE SetDone(s)
  <2>1. (OwnSlot(s) /\ InHand(s) /\ TaskStages(s))'
      BY <1>8, <1>a DEF SetDone, Goes, consumerVars, TypeOK, StreamInv,
         OwnSlot, InHand, TaskStages
  <2>2. Prefix(s)'
      BY <1>8, <1>a DEF SetDone, Goes, consumerVars, TypeOK, StreamInv,
         Prefix
  <2>3. Queued(s)'
      BY <1>8, <1>a DEF SetDone, Goes, consumerVars, TypeOK, StreamInv,
         Queued, Ended
  <2>4. Counted(s)'
      BY <1>8, <1>a DEF SetDone, Goes, consumerVars, TypeOK, StreamInv,
         Counted, Ended
  <2>5. (OpenMeanwhile(s) /\ Shut(s) /\ Drained(s) /\ Handover(s))'
      BY <1>8, <1>a DEF SetDone, Goes, consumerVars, TypeOK, StreamInv,
         TaskStages, Counted, OpenMeanwhile, Shut, Drained, Handover, Ended
  <2> QED
      BY <2>1, <2>2, <2>3, <2>4, <2>5 DEF StreamInv
<1>9. CASE Read(s)
  <2>1. /\ consumer[s] = "reading" /\ queue[s] # <<>> /\ queue'[s] = Tail(queue[s])
        /\ Len(received[s]) \in Nat
      BY <1>9, <1>a DEF Read, TypeOK
  <2>2. Len(queue[s]) \in Nat \ {0} /\ Len(queue'[s]) = Len(queue[s]) - 1
      BY <1>a, <2>1, Taken
  <2>3. /\ (Ended(s) <=> Ended(s)') /\ worker' = worker /\ emitted' = emitted
        /\ broke' = broke /\ kind' = kind /\ closed' = closed /\ raised' = raised
        /\ surfaced' = surfaced /\ cancelled' = cancelled /\ slot' = slot
      BY <1>9 DEF Read, workerVars, Ended
  <2>4. (OwnSlot(s) /\ InHand(s) /\ TaskStages(s))'
      BY <2>3 DEF StreamInv, OwnSlot, InHand, TaskStages
  <2>5. CASE Ended(s) /\ Len(queue[s]) = 1
    <3>1. Head(queue[s]) = Sentinel
        BY <1>a, <2>1, <2>5, EndingTaken DEF StreamInv, Queued
    <3>2. received' = received /\ consumer'[s] = "leaving"
        BY <1>9, <3>1 DEF Read, Goes, TypeOK
    <3>3. Len(received[s]) = emitted[s]
        BY <1>a, <2>1, <2>5 DEF StreamInv, Counted
    <3>4. (OpenMeanwhile(s) /\ Shut(s) /\ Drained(s))'
        BY <2>1, <2>3, <2>5, <3>2, <3>3 DEF StreamInv, OpenMeanwhile, Shut, Drained
    <3>5. Handover(s)'
        BY <2>1, <2>3, <3>2 DEF StreamInv, Handover
    <3>6. (Prefix(s) /\ Queued(s) /\ Counted(s))'
        BY <3>2 DEF StreamInv, Prefix, Queued, Counted
    <3> QED
        BY <2>4, <3>4, <3>5, <3>6 DEF StreamInv
  <2>6. CASE ~(Ended(s) /\ Len(queue[s]) = 1)
    <3>1. Head(queue[s]) = <<s, Len(received[s]) + 1>>
      <4>1. CASE Ended(s)
          BY <1>a, <2>1, <2>6, <4>1, EndingTaken DEF StreamInv, Queued
      <4>2. CASE ~Ended(s)
          BY <1>a, <2>1, <4>2, EventTaken DEF StreamInv, Queued
      <4> QED
          BY <4>1, <4>2
    <3>2. IF Ended(s) THEN Ending(queue'[s], s, Len(received[s]) + 1)
                      ELSE Following(queue'[s], s, Len(received[s]) + 1)
      <4>1. CASE Ended(s)
          BY <1>a, <2>1, <2>6, <4>1, EndingTaken DEF StreamInv, Queued
      <4>2. CASE ~Ended(s)
          BY <1>a, <2>1, <4>2, EventTaken DEF StreamInv, Queued
      <4> QED
          BY <4>1, <4>2
    <3>3. Head(queue[s]) # Sentinel
        BY <3>1 DEF Sentinel
    <3>4. received'[s] = Append(received[s], <<s, Len(received[s]) + 1>>) /\ consumer' = consumer
        BY <1>9, <3>1, <3>3 DEF Read, TypeOK
    <3>5. Len(received'[s]) = Len(received[s]) + 1
        BY <1>a, <3>4, Appended
    <3>6. Prefix(s)'
      <4>1. Following(Append(received[s], <<s, 0 + Len(received[s]) + 1>>), s, 0)
          BY <1>a, EventPut DEF StreamInv, Prefix
      <4>2. 0 + Len(received[s]) + 1 = Len(received[s]) + 1
          BY <2>1
      <4> QED
          BY <3>4, <4>1, <4>2 DEF Prefix
    <3>7. Queued(s)'
        BY <2>3, <3>2, <3>5 DEF Queued
    <3>8. Counted(s)'
      <4>1. Counted(s) /\ emitted[s] \in Nat
          BY <1>a DEF StreamInv
      <4> QED
        <5>1. Len(received'[s]) + Len(queue'[s]) = Len(received[s]) + Len(queue[s])
          <6>1. (Len(received[s]) + 1) + (Len(queue[s]) - 1) = Len(received[s]) + Len(queue[s])
              BY <2>1, <2>2, Sums
          <6> QED
              BY <2>2, <3>5, <6>1
        <5>2. Ended(s) => Len(queue'[s]) > 0
          <6> SUFFICES ASSUME Ended(s) PROVE Len(queue'[s]) > 0
              OBVIOUS
          <6>1. Len(queue[s]) # 1
              BY <2>6
          <6>2. Len(queue[s]) - 1 > 0
              BY <2>2, <6>1, Sums
          <6> QED
              BY <2>2, <6>2
        <5> QED
            BY <2>1, <2>3, <3>4, <4>1, <5>1, <5>2 DEF Counted
    <3>9. (OpenMeanwhile(s) /\ Shut(s) /\ Drained(s) /\ Handover(s))'
        BY <2>1, <2>3, <3>4 DEF StreamInv, OpenMeanwhile, Shut, Drained, Handover
    <3> QED
        BY <2>4, <3>6, <3>7, <3>8, <3>9 DEF StreamInv
  <2> QED
      BY <2>5, <2>6
<1>10. CASE LeavesDone(s)
  <2>1. (OwnSlot(s) /\ InHand(s) /\ TaskStages(s))'
      BY <1>10, <1>a DEF LeavesDone, Goes, workerVars, TypeOK, StreamInv,
         OwnSlot, InHand, TaskStages
  <2>2. Prefix(s)'
      BY <1>10, <1>a DEF LeavesDone, Goes, workerVars, TypeOK, StreamInv,
         Prefix
  <2>3. Queued(s)'
      BY <1>10, <1>a DEF LeavesDone, Goes, workerVars, TypeOK, StreamInv,
         Queued, Ended
  <2>4. Counted(s)'
      BY <1>10, <1>a DEF LeavesDone, Goes, workerVars, TypeOK, StreamInv,
         Counted, Ended
  <2>5. (OpenMeanwhile(s) /\ Shut(s) /\ Drained(s) /\ Handover(s))'
      BY <1>10, <1>a DEF LeavesDone, Goes, workerVars, TypeOK, StreamInv,
         TaskStages, Counted, OpenMeanwhile, Shut, Drained, Handover, Ended
  <2> QED
      BY <2>1, <2>2, <2>3, <2>4, <2>5 DEF StreamInv
<1>11. CASE ThreadLeft(s)
  <2>1. (OwnSlot(s) /\ InHand(s) /\ TaskStages(s))'
      BY <1>11, <1>a DEF ThreadLeft, SendSentinel, Goes, workerVars, TypeOK, StreamInv,
         OwnSlot, InHand, TaskStages
  <2>2. Prefix(s)'
      BY <1>11, <1>a DEF ThreadLeft, SendSentinel, Goes, workerVars, TypeOK, StreamInv,
         Prefix
  <2>3. Queued(s)'
      BY <1>11, <1>a DEF ThreadLeft, SendSentinel, Goes, workerVars, TypeOK, StreamInv,
         Queued, Ended
  <2>4. Counted(s)'
      BY <1>11, <1>a DEF ThreadLeft, SendSentinel, Goes, workerVars, TypeOK, StreamInv,
         Counted, Ended
  <2>5. (OpenMeanwhile(s) /\ Shut(s) /\ Drained(s) /\ Handover(s))'
      BY <1>11, <1>a DEF ThreadLeft, SendSentinel, Goes, workerVars, TypeOK, StreamInv,
         TaskStages, Counted, OpenMeanwhile, Shut, Drained, Handover, Ended
  <2> QED
      BY <2>1, <2>2, <2>3, <2>4, <2>5 DEF StreamInv
<1>12. CASE ThreadSilenced(s)
  <2>1. (OwnSlot(s) /\ InHand(s) /\ TaskStages(s))'
      BY <1>12, <1>a DEF ThreadSilenced, Goes, workerVars, TypeOK, StreamInv,
         OwnSlot, InHand, TaskStages
  <2>2. Prefix(s)'
      BY <1>12, <1>a DEF ThreadSilenced, Goes, workerVars, TypeOK, StreamInv,
         Prefix
  <2>3. Queued(s)'
      BY <1>12, <1>a DEF ThreadSilenced, Goes, workerVars, TypeOK, StreamInv,
         Queued, Ended
  <2>4. Counted(s)'
      BY <1>12, <1>a DEF ThreadSilenced, Goes, workerVars, TypeOK, StreamInv,
         Counted, Ended
  <2>5. (OpenMeanwhile(s) /\ Shut(s) /\ Drained(s) /\ Handover(s))'
      BY <1>12, <1>a DEF ThreadSilenced, Goes, workerVars, TypeOK, StreamInv,
         TaskStages, Counted, OpenMeanwhile, Shut, Drained, Handover, Ended
  <2> QED
      BY <2>1, <2>2, <2>3, <2>4, <2>5 DEF StreamInv
<1>13. CASE TaskLeft(s)
  <2>1. (OwnSlot(s) /\ InHand(s) /\ TaskStages(s))'
      BY <1>13, <1>a DEF TaskLeft, Goes, workerVars, TypeOK, StreamInv,
         OwnSlot, InHand, TaskStages
  <2>2. Prefix(s)'
      BY <1>13, <1>a DEF TaskLeft, Goes, workerVars, TypeOK, StreamInv,
         Prefix
  <2>3. Queued(s)'
      BY <1>13, <1>a DEF TaskLeft, Goes, workerVars, TypeOK, StreamInv,
         Queued, Ended
  <2>4. Counted(s)'
      BY <1>13, <1>a DEF TaskLeft, Goes, workerVars, TypeOK, StreamInv,
         Counted, Ended
  <2>5. (OpenMeanwhile(s) /\ Shut(s) /\ Drained(s) /\ Handover(s))'
      BY <1>13, <1>a DEF TaskLeft, Goes, workerVars, TypeOK, StreamInv,
         TaskStages, Counted, OpenMeanwhile, Shut, Drained, Handover, Ended
  <2> QED
      BY <2>1, <2>2, <2>3, <2>4, <2>5 DEF StreamInv
<1>14. CASE TaskAwaited(s)
  <2>1. (OwnSlot(s) /\ InHand(s) /\ TaskStages(s))'
      BY <1>14, <1>a DEF TaskAwaited, Goes, workerVars, TypeOK, StreamInv,
         OwnSlot, InHand, TaskStages
  <2>2. Prefix(s)'
      BY <1>14, <1>a DEF TaskAwaited, Goes, workerVars, TypeOK, StreamInv,
         Prefix
  <2>3. Queued(s)'
      BY <1>14, <1>a DEF TaskAwaited, Goes, workerVars, TypeOK, StreamInv,
         Queued, Ended
  <2>4. Counted(s)'
      BY <1>14, <1>a DEF TaskAwaited, Goes, workerVars, TypeOK, StreamInv,
         Counted, Ended
  <2>5. (OpenMeanwhile(s) /\ Shut(s) /\ Drained(s) /\ Handover(s))'
      BY <1>14, <1>a DEF TaskAwaited, Goes, workerVars, TypeOK, StreamInv,
         TaskStages, Counted, OpenMeanwhile, Shut, Drained, Handover, Ended
  <2> QED
      BY <2>1, <2>2, <2>3, <2>4, <2>5 DEF StreamInv
<1>15. CASE Break(s)
  <2>1. (OwnSlot(s) /\ InHand(s) /\ TaskStages(s))'
      BY <1>15, <1>a DEF Break, Goes, workerVars, TypeOK, StreamInv,
         OwnSlot, InHand, TaskStages
  <2>2. Prefix(s)'
      BY <1>15, <1>a DEF Break, Goes, workerVars, TypeOK, StreamInv,
         Prefix
  <2>3. Queued(s)'
      BY <1>15, <1>a DEF Break, Goes, workerVars, TypeOK, StreamInv,
         Queued, Ended
  <2>4. Counted(s)'
      BY <1>15, <1>a DEF Break, Goes, workerVars, TypeOK, StreamInv,
         Counted, Ended
  <2>5. (OpenMeanwhile(s) /\ Shut(s) /\ Drained(s) /\ Handover(s))'
      BY <1>15, <1>a DEF Break, Goes, workerVars, TypeOK, StreamInv,
         TaskStages, Counted, OpenMeanwhile, Shut, Drained, Handover, Ended
  <2> QED
      BY <2>1, <2>2, <2>3, <2>4, <2>5 DEF StreamInv
<1> QED
    BY <1>1, <1>2, <1>3, <1>4, <1>5, <1>6, <1>7, <1>8, <1>9, <1>10, <1>11, <1>12, <1>13,
       <1>14, <1>15 DEF WorkerStep, ConsumerStep

-----------------------------------------------------------------------------

(* The inductive invariant holds at first, *)
LEMMA InitInvariant == Init => IInv
<1> SUFFICES ASSUME Init PROVE IInv
    OBVIOUS
<1> USE StreamAssumption
<1>1. TypeOK
    BY DEF Init, TypeOK
<1>2. ASSUME NEW s \in Streams PROVE StreamInv(s)
    BY <1>2 DEF Init, StreamInv, OwnSlot, InHand, TaskStages, Prefix, Queued, Following, Ended,
         Counted, OpenMeanwhile, Shut, Drained, Handover
<1> QED
    BY <1>1, <1>2 DEF IInv

(* and after any step of any stream. *)
LEMMA StepInvariant == IInv /\ [Next]_vars => IInv'
<1> SUFFICES ASSUME IInv, [Next]_vars PROVE IInv'
    OBVIOUS
<1>1. CASE UNCHANGED vars
  <2>1. TypeOK'
      BY <1>1 DEF IInv, TypeOK, vars
  <2>2. ASSUME NEW t \in Streams PROVE StreamInv(t)'
    <3>1. Same(t)
        BY <1>1 DEF Same, vars
    <3> QED
        BY <3>1, SameKeeps DEF IInv
  <2> QED
      BY <2>1, <2>2 DEF IInv
<1>2. ASSUME NEW s \in Streams, WorkerStep(s) \/ ConsumerStep(s) \/ Break(s)
      PROVE  IInv'
  <2>1. TypeOK /\ StreamInv(s) /\ OwnSlot(s)
      BY DEF IInv, StreamInv
  <2>2. TypeOK'
      BY <1>2, <2>1, TypeStep
  <2>3. ASSUME NEW t \in Streams PROVE StreamInv(t)'
    <3>1. CASE t = s
        BY <1>2, <2>1, <3>1, OwnStep
    <3>2. CASE t # s
      <4>1. Same(t)
          BY <1>2, <2>1, <3>2, OthersKeep
      <4> QED
          BY <4>1, SameKeeps DEF IInv
    <3> QED
        BY <3>1, <3>2
  <2> QED
      BY <2>2, <2>3 DEF IInv
<1> QED
    BY <1>1, <1>2 DEF Next, Done

(* The inductive invariant holds of every behaviour. *)
THEOREM Invariance == Spec => []IInv
BY InitInvariant, StepInvariant, PTL DEF Spec

(* The state of every stream, its queue and what was received keep their   *)
(* types.                                                                  *)
THEOREM TypeCorrectness == Spec => []TypeOK
<1>1. IInv => TypeOK
    BY DEF IInv
<1> QED
    BY <1>1, Invariance, PTL

(* stream() and astream() yield the events of their own run in order, and  *)
(* one that is drained has yielded them all, however many streams of one   *)
(* pipeline are consumed at once; an astream() has raised what its run     *)
(* raised.                                                                 *)
THEOREM StreamSafety == Spec => []StreamsAreFaithful
<1>1. IInv => InOrder
  <2> SUFFICES ASSUME IInv, NEW s \in Streams, NEW n \in 1..Len(received[s])
               PROVE  received[s][n] = <<s, n>>
      BY DEF InOrder
  <2>1. received[s][n] = <<s, 0 + n>>
      BY DEF IInv, StreamInv, Prefix, Following
  <2>2. 0 + n = n
      BY DEF IInv, TypeOK
  <2> QED
      BY <2>1, <2>2
<1>2. IInv => DrainedMeansAll
  <2> SUFFICES ASSUME IInv, NEW s \in Streams, consumer[s] = "ended", ~broke[s]
               PROVE  /\ Len(received[s]) = emitted[s]
                      /\ kind[s] = "task" => surfaced[s] = raised[s] /\ ~cancelled[s]
      BY DEF DrainedMeansAll
  <2> QED
      BY DEF IInv, StreamInv, Drained, Handover
<1> QED
    BY <1>1, <1>2, Invariance, PTL DEF StreamsAreFaithful

(* A run that goes on behind an abandoned stream puts nothing on its       *)
(* queue, but for one event that was under way.                            *)
THEOREM AbandonedQueues == Spec => AbandonedIsQuiet
<1>1. IInv /\ [Next]_vars =>
        [\A s \in Streams : consumer[s] = "ended" /\ worker[s] # "putting"
           => queue'[s] = queue[s]]_vars
  <2> SUFFICES ASSUME IInv, Next, NEW t \in Streams, consumer[t] = "ended", worker[t] # "putting"
               PROVE  queue'[t] = queue[t]
      OBVIOUS
  <2>1. CASE Done
      BY <2>1 DEF Done, vars
  <2>2. ASSUME NEW s \in Streams, WorkerStep(s) \/ ConsumerStep(s) \/ Break(s)
        PROVE  queue'[t] = queue[t]
    <3>1. CASE t # s
        BY <2>2, <3>1, OthersKeep DEF IInv, StreamInv, Same
    <3>2. CASE t = s
      <4>1. closed[s] /\ (worker[s] # "new" => slot[s] = s)
          BY <3>2 DEF IInv, StreamInv, Shut, OwnSlot
      <4>2. CASE WorkerStep(s)
          BY <3>2, <4>1, <4>2 DEF WorkerStep, WorkerStarts, Emit, Put, ThreadLeavesRun, TaskEnds,
               ThreadCloses, ThreadFlags, SetDone, SendSentinel, IInv, TypeOK
      <4>3. CASE ConsumerStep(s) \/ Break(s)
          BY <3>2, <4>3 DEF ConsumerStep, Break, Read, LeavesDone, ThreadLeft, ThreadSilenced,
               TaskLeft, TaskAwaited
      <4> QED
          BY <2>2, <4>2, <4>3
    <3> QED
        BY <3>1, <3>2
  <2> QED
      BY <2>1, <2>2 DEF Next
<1> QED
    BY <1>1, Invariance, PTL DEF Spec, AbandonedIsQuiet

-----------------------------------------------------------------------------
(* The webhook notifier, to whose queue any number of threads report and   *)
(* which any number of threads close.                                      *)
(* The bounds are numbers. *)
Bounds == {Reports, Size, MaxRetries} \subseteq Nat

Place == 1..Len(pending)

(* A thread inside enqueue() has numbered its event, and the daemon posts  *)
(* an event while it does.                                                 *)
HookType ==
  /\ W!TypeOK
  /\ pending \in Seq(W!AllEvents \cup {W!Stop})
  /\ \A c \in Callers : pc[c] = "put" => sent[c] > 0
  /\ daemon = "posting" => item # W!Stop

(* Before close() nothing is closed. *)
OpenHook ==
  ~shut =>
    /\ early = {} /\ daemon \in {"waiting", "posting"}
    /\ \A i \in Place : pending[i] # W!Stop
    /\ \A c \in Closers : pc[c] \notin {"stop", "join", "done"}

(* Who is inside enqueue() after it was there when it came. *)
Latecomers == shut => \A c \in Callers : pc[c] = "put" => c \in racing

(* What was queued before close() is ahead of every stop marker, *)
EarlyAhead ==
  \A e \in early :
    \/ e \in tried
    \/ daemon \in {"posting", "dead"} /\ e = item
    \/ daemon # "stopped" /\ \E i \in Place : pending[i] = e /\ \A j \in 1..i : pending[j] # W!Stop

(* and what is behind one came from a latecomer. *)
LateBehind ==
  \A i \in Place :
    /\ pending[i] # W!Stop
    /\ daemon = "stopped" \/ \E j \in 1..i : pending[j] = W!Stop
    => pending[i][1] \in racing

FlushInv == HookType /\ OpenHook /\ Latecomers /\ EarlyAhead /\ LateBehind

(* The numbers that a thread has given out for good: all but that of the   *)
(* event it is about to queue.                                             *)
Given == [c \in Callers |-> IF pc[c] = "put" THEN sent[c] - 1 ELSE sent[c]]

(* The events of a thread are queued, taken and posted in their order. *)
QueuedNext ==
  \A i \in Place : pending[i] # W!Stop =>
    /\ last[pending[i][1]] < pending[i][2] /\ pending[i][2] <= Given[pending[i][1]]
    /\ pending[i] \notin dropped
    /\ item # W!Stop /\ item[1] = pending[i][1] => item[2] < pending[i][2]

QueuedInOrder ==
  \A i \in Place, j \in Place :
    /\ j < i /\ pending[j] # W!Stop
    /\ pending[i] # W!Stop /\ pending[j][1] = pending[i][1]
    => pending[j][2] < pending[i][2]

(* The event in hand is the last that was posted or a later one. *)
InHandNext ==
  item # W!Stop =>
    /\ last[item[1]] <= item[2] /\ item[2] <= Given[item[1]]
    /\ item \notin dropped

(* A number once given out never comes again. *)
GivenOnce ==
  /\ \A e \in dropped : e[2] <= Given[e[1]]
  /\ \A c \in Callers : last[c] <= Given[c]

OrderInv == HookType /\ QueuedNext /\ QueuedInOrder /\ InHandNext /\ GivenOnce

-----------------------------------------------------------------------------
(* What Append and Tail do. *)
LEMMA Appends ==
  ASSUME NEW S, NEW q \in Seq(S), NEW x \in S
  PROVE  /\ Append(q, x) \in Seq(S)
         /\ Len(q) \in Nat /\ Len(Append(q, x)) = Len(q) + 1
         /\ \A n \in 1..Len(q) : Append(q, x)[n] = q[n] /\ q[n] \in S
         /\ Append(q, x)[Len(q) + 1] = x
OBVIOUS

LEMMA Tails ==
  ASSUME NEW S, NEW q \in Seq(S), q # <<>>
  PROVE  /\ Tail(q) \in Seq(S) /\ Head(q) = q[1] /\ q[1] \in S /\ 1 \in 1..Len(q)
         /\ Len(q) \in Nat /\ Len(Tail(q)) = Len(q) - 1
         /\ \A n \in 1..(Len(q) - 1) : n + 1 \in 1..Len(q) /\ Tail(q)[n] = q[n + 1]
OBVIOUS

(* A stop marker is no event. *)
LEMMA StopIsNoEvent ==
  /\ W!Stop \notin W!AllEvents
  /\ \A e \in W!AllEvents :
       e # W!Stop /\ e[1] \in Callers /\ e[2] \in 1..Reports /\ e = <<e[1], e[2]>>
BY DEF W!Stop, W!AllEvents

(* The same by variable. *)
LEMMA HookSorts ==
  ASSUME HookType
  PROVE  /\ pending \in Seq(W!AllEvents \cup {W!Stop}) /\ Len(pending) <= Size
         /\ shut \in BOOLEAN /\ daemon \in {"waiting", "posting", "stopped", "dead"}
         /\ item \in W!AllEvents \cup {W!Stop} /\ attempt \in 0..MaxRetries
         /\ pc \in [W!Threads -> {"idle", "put", "set", "stop", "join", "done"}]
         /\ sent \in [Callers -> 0..Reports] /\ last \in [Callers -> 0..Reports]
         /\ tried \subseteq W!AllEvents /\ dropped \subseteq W!AllEvents
         /\ early \subseteq W!AllEvents /\ racing \subseteq Callers
         /\ \A c \in Callers : pc[c] = "put" => sent[c] > 0
         /\ daemon = "posting" => item # W!Stop
BY DEF HookType, W!TypeOK

(* A state with those types is of that type. *)
LEMMA OfHookType ==
  ASSUME pending' \in Seq(W!AllEvents \cup {W!Stop}), Len(pending') <= Size,
         shut' \in BOOLEAN, daemon' \in {"waiting", "posting", "stopped", "dead"},
         item' \in W!AllEvents \cup {W!Stop}, attempt' \in 0..MaxRetries,
         pc' \in [W!Threads -> {"idle", "put", "set", "stop", "join", "done"}],
         sent' \in [Callers -> 0..Reports], last' \in [Callers -> 0..Reports],
         tried' \subseteq W!AllEvents, dropped' \subseteq W!AllEvents,
         early' \subseteq W!AllEvents, racing' \subseteq Callers,
         \A c \in Callers : pc'[c] = "put" => sent'[c] > 0,
         daemon' = "posting" => item' # W!Stop
  PROVE  HookType'
<1>1. \A i \in 1..Len(pending') : pending'[i] \in W!AllEvents \cup {W!Stop}
  OBVIOUS
<1>2. \A x \in {tried', dropped', early'} : x \in SUBSET W!AllEvents
  OBVIOUS
<1> QED
  BY <1>1, <1>2 DEF HookType, W!TypeOK

(* The state stays of its type. *)
LEMMA HookTypeKept ==
  ASSUME Bounds, HookType, W!Next
  PROVE  HookType'
<1> USE DEF W!history
<1> USE HookSorts
<1>b. Reports \in Nat /\ Size \in Nat /\ MaxRetries \in Nat
  BY DEF Bounds
<1>t. \A c \in Callers : c \in W!Threads
  BY DEF W!Threads
<1>d. \A c \in Closers : c \in W!Threads
  BY DEF W!Threads
<1>e. \A c \in Callers, n \in 1..Reports : <<c, n>> \in W!AllEvents
  BY DEF W!AllEvents
<1>1. ASSUME NEW c \in Callers, W!Enqueue(c) PROVE HookType'
  <2>1. /\ sent[c] < Reports /\ sent' = [sent EXCEPT ![c] = sent[c] + 1]
        /\ dropped' = dropped \/ dropped' = dropped \cup {<<c, sent[c] + 1>>}
        /\ pc' = pc \/ pc' = [pc EXCEPT ![c] = "put"]
        /\ UNCHANGED <<pending, shut, daemon, item, attempt, last, tried, early, racing>>
      BY <1>1 DEF W!Enqueue, W!Goes
  <2>2. sent[c] + 1 \in 1..Reports /\ sent[c] + 1 \in 0..Reports
      BY <2>1, <1>b
  <2>3. sent' \in [Callers -> 0..Reports] /\ sent'[c] = sent[c] + 1 /\ sent'[c] > 0
        /\ \A d \in Callers \ {c} : sent'[d] = sent[d]
      BY <2>1, <2>2, <1>b
  <2>4. pc' \in [W!Threads -> {"idle", "put", "set", "stop", "join", "done"}]
        /\ \A d \in Callers \ {c} : pc'[d] = pc[d]
      BY <2>1, <1>t
  <2>5. dropped' \subseteq W!AllEvents
      BY <2>1, <2>2, <1>e
  <2> QED
      BY <2>1, <2>3, <2>4, <2>5, OfHookType
<1>2. ASSUME NEW c \in Callers, W!PutNoWait(c) PROVE HookType'
  <2>1. /\ pc' = [pc EXCEPT ![c] = "idle"]
        /\ \/ Len(pending) < Size /\ pending' = Append(pending, W!Event(c)) /\ dropped' = dropped
           \/ dropped' = dropped \cup {W!Event(c)} /\ pending' = pending
        /\ UNCHANGED <<shut, daemon, item, attempt, sent, last, tried, early, racing>>
      BY <1>2 DEF W!PutNoWait, W!Goes
  <2>2. W!Event(c) \in W!AllEvents
      <3>1. sent[c] \in 1..Reports
          BY <1>2, <1>b DEF W!PutNoWait
      <3> QED
          BY <3>1, <1>e DEF W!Event
  <2>3. pending' \in Seq(W!AllEvents \cup {W!Stop}) /\ Len(pending') <= Size
      <3> DEFINE Items == W!AllEvents \cup {W!Stop}
      <3>1. W!Event(c) \in Items /\ pending \in Seq(Items)
          BY <2>2, HookSorts
      <3> HIDE DEF Items
      <3>2. /\ Append(pending, W!Event(c)) \in Seq(Items)
            /\ Len(Append(pending, W!Event(c))) = Len(pending) + 1 /\ Len(pending) \in Nat
          BY <3>1, Appends
      <3>3. pending' \in Seq(Items) /\ Len(pending') <= Size
          BY SMTT(30), <2>1, <3>1, <3>2, <1>b
      <3> QED
          BY <3>3 DEF Items
  <2>4. pc' \in [W!Threads -> {"idle", "put", "set", "stop", "join", "done"}]
        /\ \A d \in Callers : pc'[d] = "put" => pc[d] = "put"
      BY <2>1, <1>t
  <2>5. dropped' \subseteq W!AllEvents
      BY <2>1, <2>2
  <2>6. \A d \in Callers : pc'[d] = "put" => sent'[d] > 0
      BY <2>1, <2>4
  <2>7. UNCHANGED shut /\ UNCHANGED daemon /\ UNCHANGED item /\ UNCHANGED attempt /\ UNCHANGED sent
        /\ UNCHANGED last /\ UNCHANGED tried /\ UNCHANGED early /\ UNCHANGED racing
      BY <2>1
  <2> QED
      BY <2>3, <2>4, <2>5, <2>6, <2>7, OfHookType
<1>3. ASSUME NEW c \in Closers, W!CloseBegin(c) \/ W!SetClosed(c) \/ W!PutStop(c) \/ W!Join(c)
      PROVE  HookType'
  <2>1. /\ \E w \in {"done", "set", "stop", "join"} : pc' = [pc EXCEPT ![c] = w]
        /\ \/ pending' = pending
           \/ Len(pending) < Size /\ pending' = Append(pending, W!Stop)
        /\ shut' \in BOOLEAN
        /\ \/ early' = early /\ racing' = racing
           \/ early' = W!Queued /\ racing' = {d \in Callers : pc[d] = "put"}
        /\ UNCHANGED <<daemon, item, attempt, sent, last, tried, dropped>>
      BY <1>3 DEF W!CloseBegin, W!SetClosed, W!PutStop, W!Join, W!Goes
  <2>2. pending' \in Seq(W!AllEvents \cup {W!Stop}) /\ Len(pending') <= Size
      <3> DEFINE Items == W!AllEvents \cup {W!Stop}
      <3>1. W!Stop \in Items /\ pending \in Seq(Items)
          BY HookSorts
      <3> HIDE DEF Items
      <3>2. /\ Append(pending, W!Stop) \in Seq(Items)
            /\ Len(Append(pending, W!Stop)) = Len(pending) + 1 /\ Len(pending) \in Nat
          BY <3>1, Appends
      <3>3. pending' \in Seq(Items) /\ Len(pending') <= Size
          BY SMTT(30), <2>1, <3>1, <3>2, <1>b
      <3> QED
          BY <3>3 DEF Items
  <2>3. W!Queued \subseteq W!AllEvents
      BY DEF W!Queued
  <2>4. pc' \in [W!Threads -> {"idle", "put", "set", "stop", "join", "done"}]
        /\ \A d \in Callers : pc'[d] = "put" => pc[d] = "put"
      BY <2>1, <1>d
  <2>5. early' \subseteq W!AllEvents /\ racing' \subseteq Callers
      BY <2>1, <2>3
  <2>6. \A d \in Callers : pc'[d] = "put" => sent'[d] > 0
      BY <2>1, <2>4
  <2>7. UNCHANGED daemon /\ UNCHANGED item /\ UNCHANGED attempt /\ UNCHANGED sent
        /\ UNCHANGED last /\ UNCHANGED tried /\ UNCHANGED dropped /\ shut' \in BOOLEAN
      BY <2>1
  <2> QED
      BY <2>2, <2>4, <2>5, <2>6, <2>7, OfHookType
<1>4. ASSUME W!Take PROVE HookType'
  <2>1. /\ pending # <<>> /\ pending' = Tail(pending) /\ item' = Head(pending)
        /\ daemon' \in {"waiting", "posting", "stopped", "dead"} /\ attempt' = 0
        /\ daemon' = "posting" => item' # W!Stop
        /\ UNCHANGED <<shut, pc, sent, last, tried, dropped, early, racing>>
      BY <1>4 DEF W!Take
  <2>2. /\ pending' \in Seq(W!AllEvents \cup {W!Stop}) /\ Len(pending') <= Size
        /\ item' \in W!AllEvents \cup {W!Stop}
      <3>1. /\ Tail(pending) \in Seq(W!AllEvents \cup {W!Stop})
            /\ Head(pending) \in W!AllEvents \cup {W!Stop}
            /\ Len(pending) \in Nat /\ Len(Tail(pending)) = Len(pending) - 1
          BY <2>1, Tails
      <3> QED
          BY <2>1, <3>1, <1>b
  <2> QED
      BY <2>1, <2>2, <1>b, OfHookType
<1>5. ASSUME W!Post PROVE HookType'
  <2>1. item \in W!AllEvents /\ item[1] \in Callers /\ item[2] \in 0..Reports
      BY <1>5, StopIsNoEvent, <1>b DEF W!Post
  <2>2. /\ last' = last \/ last' = [last EXCEPT ![item[1]] = item[2]]
        /\ \/ daemon' = "waiting" /\ item' = W!Stop /\ tried' = tried \cup {item}
              /\ attempt' = attempt
           \/ attempt < MaxRetries /\ attempt' = attempt + 1 /\ UNCHANGED <<daemon, item, tried>>
        /\ UNCHANGED <<pending, shut, pc, sent, dropped, early, racing>>
      BY <1>5 DEF W!Post, W!Delivered, W!GiveUp, W!Retry
  <2>3. last' \in [Callers -> 0..Reports] /\ attempt' \in 0..MaxRetries
      BY SMTT(30), <2>1, <2>2, <1>b
  <2> QED
      BY <2>1, <2>2, <2>3, OfHookType
<1>6. ASSUME W!Exit PROVE HookType'
  BY <1>6, OfHookType DEF W!Exit
<1> QED
  BY <1>1, <1>2, <1>3, <1>4, <1>5, <1>6 DEF W!Next

-----------------------------------------------------------------------------
(* What the flush depends on, besides where the threads are. *)
Told == <<pending, shut, daemon, item, tried, early, racing>>

(* A thread moves, and nothing else does. *)
LEMMA CallFlush ==
  ASSUME FlushInv, NEW c \in W!Threads, NEW w,
         pc' = [pc EXCEPT ![c] = w] \/ pc' = pc, UNCHANGED Told,
         w = "put" => ~shut, w \in {"stop", "join", "done"} => shut
  PROVE  OpenHook' /\ Latecomers' /\ EarlyAhead' /\ LateBehind'
<1>0. /\ pc \in [W!Threads -> {"idle", "put", "set", "stop", "join", "done"}]
      /\ UNCHANGED pending /\ UNCHANGED shut /\ UNCHANGED daemon /\ UNCHANGED item
      /\ UNCHANGED tried /\ UNCHANGED early /\ UNCHANGED racing
  BY HookSorts DEF Told, FlushInv
<1>1. \A d \in W!Threads : pc'[d] = pc[d] \/ pc'[d] = w
  BY <1>0
<1>t. \A d \in Callers \cup Closers : d \in W!Threads
  BY DEF W!Threads
<1>2. OpenHook'
  BY <1>0, <1>1, <1>t DEF FlushInv, OpenHook, Place
<1>3. Latecomers'
  BY <1>0, <1>1, <1>t DEF FlushInv, Latecomers
<1>4. EarlyAhead'
  BY <1>0 DEF FlushInv, EarlyAhead, Place
<1>5. LateBehind'
  BY <1>0 DEF FlushInv, LateBehind, Place
<1> QED
  BY <1>2, <1>3, <1>4, <1>5

(* An event is queued by who is inside enqueue(). *)
LEMMA PutFlush ==
  ASSUME FlushInv, NEW c \in Callers, pc[c] = "put", pc' = [pc EXCEPT ![c] = "idle"],
         NEW e \in W!AllEvents, e[1] = c,
         pending' = Append(pending, e),
         UNCHANGED <<shut, daemon, item, tried, early, racing>>
  PROVE  OpenHook' /\ Latecomers' /\ EarlyAhead' /\ LateBehind'
<1> DEFINE Items == W!AllEvents \cup {W!Stop}
<1>0. /\ pc \in [W!Threads -> {"idle", "put", "set", "stop", "join", "done"}]
      /\ UNCHANGED shut /\ UNCHANGED daemon /\ UNCHANGED item
      /\ UNCHANGED tried /\ UNCHANGED early /\ UNCHANGED racing
      /\ pending \in Seq(Items) /\ e \in Items
  BY HookSorts DEF FlushInv
<1>t. \A d \in Callers \cup Closers : d \in W!Threads
  BY DEF W!Threads
<1>1. e # W!Stop
  BY StopIsNoEvent
<1> HIDE DEF Items
<1>2. /\ Len(pending) \in Nat /\ Len(pending') = Len(pending) + 1
      /\ \A n \in 1..Len(pending) : pending'[n] = pending[n]
      /\ pending'[Len(pending) + 1] = e
  BY <1>0, Appends
<1>3. \A i \in Place' : i \in Place \/ i = Len(pending) + 1
  BY <1>2 DEF Place
<1>4. \A i \in Place : i \in Place' /\ pending'[i] = pending[i] /\ \A j \in 1..i : j \in Place
  BY <1>2 DEF Place
<1>5. OpenHook'
  <2>1. ~shut => \A i \in Place' : pending'[i] # W!Stop
      BY <1>1, <1>2, <1>3, <1>4 DEF FlushInv, OpenHook
  <2> QED
      <3>1. \A d \in Closers : pc'[d] \in {"stop", "join", "done"} => pc[d] = pc'[d]
          BY <1>0, <1>t
      <3>2. ~shut => early = {} /\ daemon \in {"waiting", "posting"}
                     /\ \A d \in Closers : pc[d] \notin {"stop", "join", "done"}
          BY DEF FlushInv, OpenHook
      <3>3. UNCHANGED shut /\ UNCHANGED daemon /\ UNCHANGED early
          BY <1>0
      <3>4. ~shut => \A d \in Closers : pc'[d] \notin {"stop", "join", "done"}
          BY <3>1, <3>2
      <3> QED
          BY ONLY <2>1, <3>2, <3>3, <3>4 DEF OpenHook
<1>6. Latecomers'
  BY <1>0, <1>t DEF FlushInv, Latecomers
<1>7. EarlyAhead'
  <2>1. \A i \in Place : i \in Place' /\ \A j \in 1..i : pending'[j] = pending[j]
      BY <1>4
  <2>2. \A i \in Place : i \in 1..i
      BY DEF Place
  <2> SUFFICES ASSUME NEW x \in early
               PROVE  \/ x \in tried
                      \/ daemon \in {"posting", "dead"} /\ x = item
                      \/ daemon # "stopped" /\ \E i \in Place' :
                           pending'[i] = x /\ \A j \in 1..i : pending'[j] # W!Stop
      BY <1>0 DEF EarlyAhead
  <2>3. CASE daemon # "stopped" /\ \E i \in Place :
                pending[i] = x /\ \A j \in 1..i : pending[j] # W!Stop
      BY <2>1, <2>2, <2>3
  <2> QED
      BY <2>3 DEF FlushInv, EarlyAhead
<1>8. LateBehind'
  <2> SUFFICES ASSUME NEW i \in Place', pending'[i] # W!Stop,
                      daemon = "stopped" \/ \E j \in 1..i : pending'[j] = W!Stop
               PROVE  pending'[i][1] \in racing
      BY <1>0 DEF LateBehind
  <2>1. CASE i \in Place
      BY <2>1, <1>4 DEF FlushInv, LateBehind
  <2>2. CASE i = Len(pending) + 1
      <3>1. pending'[i] = e
          BY <2>2, <1>2
      <3>2. daemon = "stopped" \/ \E j \in Place : pending[j] = W!Stop
          BY <2>2, <1>1, <1>2, <3>1 DEF Place
      <3>3. shut
          BY <3>2 DEF FlushInv, OpenHook
      <3> QED
          BY <3>1, <3>3 DEF FlushInv, Latecomers
  <2> QED
      BY <2>1, <2>2, <1>3
<1> QED
  BY <1>5, <1>6, <1>7, <1>8

(* A stop marker is queued after close() was called. *)
LEMMA StopFlush ==
  ASSUME FlushInv, NEW c \in Closers, pc[c] = "stop", pc' = [pc EXCEPT ![c] = "join"],
         pending' = Append(pending, W!Stop),
         UNCHANGED <<shut, daemon, item, tried, early, racing>>
  PROVE  OpenHook' /\ Latecomers' /\ EarlyAhead' /\ LateBehind'
<1> DEFINE Items == W!AllEvents \cup {W!Stop}
<1>0. /\ pc \in [W!Threads -> {"idle", "put", "set", "stop", "join", "done"}]
      /\ UNCHANGED shut /\ UNCHANGED daemon /\ UNCHANGED item
      /\ UNCHANGED tried /\ UNCHANGED early /\ UNCHANGED racing
      /\ pending \in Seq(Items) /\ W!Stop \in Items
  BY HookSorts DEF FlushInv
<1>t. \A d \in Callers \cup Closers : d \in W!Threads
  BY DEF W!Threads
<1> HIDE DEF Items
<1>2. /\ Len(pending) \in Nat /\ Len(pending') = Len(pending) + 1
      /\ \A n \in 1..Len(pending) : pending'[n] = pending[n]
      /\ pending'[Len(pending) + 1] = W!Stop
  BY <1>0, Appends
<1>3. \A i \in Place' : i \in Place \/ pending'[i] = W!Stop
  BY <1>2 DEF Place
<1>4. \A i \in Place : i \in Place' /\ pending'[i] = pending[i] /\ \A j \in 1..i : j \in Place
  BY <1>2 DEF Place
<1>5. shut
  BY <1>0 DEF FlushInv, OpenHook
<1>6. OpenHook' /\ Latecomers'
  BY <1>0, <1>5, <1>t DEF FlushInv, OpenHook, Latecomers
<1>7. EarlyAhead'
  <2>1. \A i \in Place : i \in Place' /\ \A j \in 1..i : pending'[j] = pending[j]
      BY <1>4
  <2>2. \A i \in Place : i \in 1..i
      BY DEF Place
  <2> SUFFICES ASSUME NEW x \in early
               PROVE  \/ x \in tried
                      \/ daemon \in {"posting", "dead"} /\ x = item
                      \/ daemon # "stopped" /\ \E i \in Place' :
                           pending'[i] = x /\ \A j \in 1..i : pending'[j] # W!Stop
      BY <1>0 DEF EarlyAhead
  <2>3. CASE daemon # "stopped" /\ \E i \in Place :
                pending[i] = x /\ \A j \in 1..i : pending[j] # W!Stop
      BY <2>1, <2>2, <2>3
  <2> QED
      BY <2>3 DEF FlushInv, EarlyAhead
<1>8. LateBehind'
  BY <1>0, <1>3, <1>4 DEF FlushInv, LateBehind
<1> QED
  BY <1>6, <1>7, <1>8

(* close() is called, the first time or again. *)
LEMMA ShutFlush ==
  ASSUME FlushInv, NEW c \in Closers, W!SetClosed(c)
  PROVE  OpenHook' /\ Latecomers' /\ EarlyAhead' /\ LateBehind'
<1>0. /\ pc \in [W!Threads -> {"idle", "put", "set", "stop", "join", "done"}]
      /\ UNCHANGED pending /\ UNCHANGED daemon /\ UNCHANGED item /\ UNCHANGED tried
      /\ shut' = TRUE /\ pc' = [pc EXCEPT ![c] = "stop"]
      /\ pending \in Seq(W!AllEvents \cup {W!Stop})
  BY HookSorts DEF FlushInv, W!SetClosed, W!Goes
<1>t. \A d \in Callers \cup Closers : d \in W!Threads
  BY DEF W!Threads
<1>1. \A d \in Callers : pc'[d] = "put" => pc[d] = "put"
  BY <1>0, <1>t
<1>2. OpenHook'
  BY <1>0 DEF OpenHook
<1>3. CASE shut
  <2>1. UNCHANGED early /\ UNCHANGED racing
      BY <1>3 DEF W!SetClosed
  <2>2. Latecomers'
      BY <1>0, <1>1, <1>3, <2>1 DEF FlushInv, Latecomers
  <2>3. EarlyAhead'
      BY <1>0, <2>1 DEF FlushInv, EarlyAhead, Place
  <2>4. LateBehind'
      BY <1>0, <2>1 DEF FlushInv, LateBehind, Place
  <2> QED
      BY <1>2, <2>2, <2>3, <2>4
<1>4. CASE ~shut
  <2>1. early' = W!Queued /\ racing' = {d \in Callers : pc[d] = "put"}
      BY <1>4 DEF W!SetClosed
  <2>2. daemon # "stopped" /\ \A i \in Place : pending[i] # W!Stop /\ \A j \in 1..i : j \in Place
      BY <1>0, <1>4 DEF FlushInv, OpenHook, Place
  <2>3. Latecomers'
      BY <1>0, <1>1, <2>1 DEF Latecomers
  <2>4. EarlyAhead'
      BY <1>0, <2>1, <2>2 DEF EarlyAhead, Place, W!Queued
  <2>5. LateBehind'
      BY <1>0, <2>2 DEF LateBehind, Place
  <2> QED
      BY <1>2, <2>3, <2>4, <2>5
<1> QED
  BY <1>3, <1>4

(* The daemon takes the head of the queue. *)
LEMMA TakeFlush ==
  ASSUME FlushInv, W!Take
  PROVE  OpenHook' /\ Latecomers' /\ EarlyAhead' /\ LateBehind'
<1> DEFINE Items == W!AllEvents \cup {W!Stop}
<1>0. /\ UNCHANGED shut /\ UNCHANGED pc /\ UNCHANGED tried /\ UNCHANGED early /\ UNCHANGED racing
      /\ daemon = "waiting" /\ pending # <<>> /\ pending' = Tail(pending) /\ item' = Head(pending)
      /\ daemon' = IF Head(pending) = W!Stop THEN "stopped" ELSE "posting"
      /\ pending \in Seq(Items)
  BY HookSorts DEF FlushInv, W!Take, W!history
<1> HIDE DEF Items
<1>1. /\ item' = pending[1] /\ 1 \in Place /\ Len(pending) \in Nat
      /\ Len(pending') = Len(pending) - 1
      /\ \A n \in 1..(Len(pending) - 1) : n + 1 \in Place /\ pending'[n] = pending[n + 1]
      /\ daemon' = IF pending[1] = W!Stop THEN "stopped" ELSE "posting"
  BY <1>0, Tails DEF Place
<1>2. \A n \in Place' : n \in Nat /\ n + 1 \in Place /\ pending'[n] = pending[n + 1]
  BY <1>1 DEF Place
<1>3. \A i \in Place : i = 1 \/ (i - 1 \in Place' /\ pending'[i - 1] = pending[i])
  BY <1>1 DEF Place
<1>4. OpenHook'
  BY <1>0, <1>1, <1>2 DEF FlushInv, OpenHook
<1>5. Latecomers'
  BY <1>0 DEF FlushInv, Latecomers
<1>6. EarlyAhead'
  <2> SUFFICES ASSUME NEW e \in early, e \notin tried, e # pending[1] \/ pending[1] = W!Stop
               PROVE  /\ daemon' # "stopped"
                      /\ \E i \in Place' : pending'[i] = e /\ \A j \in 1..i : pending'[j] # W!Stop
      BY <1>0, <1>1 DEF EarlyAhead
  <2>1. PICK i \in Place : pending[i] = e /\ \A j \in 1..i : pending[j] # W!Stop
      BY <1>0 DEF FlushInv, EarlyAhead
  <2>2. i \in Nat /\ i >= 1 /\ 1 \in 1..i /\ pending[1] # W!Stop
      BY <2>1 DEF Place
  <2>3. i - 1 \in Place' /\ pending'[i - 1] = e
      BY <1>3, <2>1, <2>2
  <2>4. ASSUME NEW j \in 1..(i - 1) PROVE pending'[j] # W!Stop
      <3>1. j \in Place' /\ j + 1 \in 1..i
          BY <2>2, <2>3, <1>1 DEF Place
      <3> QED
          BY <3>1, <2>1, <1>2
  <2> QED
      BY <2>2, <2>3, <2>4, <1>1
<1>7. LateBehind'
  <2> SUFFICES ASSUME NEW i \in Place', pending'[i] # W!Stop,
                      daemon' = "stopped" \/ \E j \in 1..i : pending'[j] = W!Stop
               PROVE  pending'[i][1] \in racing
      BY <1>0 DEF LateBehind
  <2>1. i \in Nat /\ i + 1 \in Place /\ pending'[i] = pending[i + 1]
      BY <1>2
  <2>2. \E j \in 1..(i + 1) : pending[j] = W!Stop
      <3>1. CASE daemon' = "stopped"
          BY <3>1, <1>1, <2>1
      <3>2. CASE daemon' # "stopped"
          <4>1. PICK j \in 1..i : pending'[j] = W!Stop
              BY <3>2
          <4>2. j \in Place' /\ j + 1 \in 1..(i + 1)
              BY <2>1, <1>1 DEF Place
          <4> QED
              BY <4>1, <4>2, <1>2
      <3> QED
          BY <3>1, <3>2
  <2> QED
      BY <2>1, <2>2 DEF FlushInv, LateBehind
<1> QED
  BY <1>4, <1>5, <1>6, <1>7

(* The daemon posts, and is done with the event or not. *)
LEMMA PostFlush ==
  ASSUME FlushInv, W!Post
  PROVE  OpenHook' /\ Latecomers' /\ EarlyAhead' /\ LateBehind'
<1>0. /\ UNCHANGED pending /\ UNCHANGED shut /\ UNCHANGED pc /\ UNCHANGED early /\ UNCHANGED racing
      /\ daemon = "posting"
      /\ \/ daemon' = "waiting" /\ tried' = tried \cup {item}
         \/ UNCHANGED daemon /\ UNCHANGED item /\ UNCHANGED tried
  BY DEF W!Post, W!Delivered, W!GiveUp, W!Retry
<1>1. OpenHook'
  BY <1>0 DEF FlushInv, OpenHook, Place
<1>2. Latecomers'
  BY <1>0 DEF FlushInv, Latecomers
<1>3. EarlyAhead'
  BY <1>0 DEF FlushInv, EarlyAhead, Place
<1>4. LateBehind'
  BY <1>0 DEF FlushInv, LateBehind, Place
<1> QED
  BY <1>1, <1>2, <1>3, <1>4

(* The interpreter exits. *)
LEMMA ExitFlush ==
  ASSUME FlushInv, W!Exit
  PROVE  OpenHook' /\ Latecomers' /\ EarlyAhead' /\ LateBehind'
<1>0. /\ UNCHANGED pending /\ UNCHANGED shut /\ UNCHANGED pc /\ UNCHANGED early /\ UNCHANGED racing
      /\ UNCHANGED item /\ UNCHANGED tried /\ shut /\ daemon' = "dead"
  BY DEF W!Exit, W!history
<1>1. OpenHook' /\ Latecomers'
  BY <1>0 DEF FlushInv, OpenHook, Latecomers
<1>2. EarlyAhead'
  BY <1>0 DEF FlushInv, EarlyAhead, Place
<1>3. LateBehind'
  BY <1>0 DEF FlushInv, LateBehind, Place
<1> QED
  BY <1>1, <1>2, <1>3

(* Every step keeps what the flush depends on. *)
LEMMA FlushKept ==
  ASSUME Bounds, FlushInv, W!Next
  PROVE  FlushInv'
<1> DEFINE Rest == OpenHook /\ Latecomers /\ EarlyAhead /\ LateBehind
<1>t. \A d \in Callers \cup Closers : d \in W!Threads
  BY DEF W!Threads
<1>1. ASSUME NEW c \in Callers, W!Enqueue(c) PROVE Rest'
  <2>1. (~shut /\ pc' = [pc EXCEPT ![c] = "put"]) \/ pc' = pc
      BY <1>1 DEF W!Enqueue, W!Goes
  <2>2. UNCHANGED Told
      BY <1>1 DEF W!Enqueue, Told
  <2>3. CASE pc' = pc
      BY <2>2, <2>3, <1>t, CallFlush
  <2>4. CASE ~shut /\ pc' = [pc EXCEPT ![c] = "put"]
      BY <2>2, <2>4, <1>t, CallFlush
  <2> QED
      BY <2>1, <2>3, <2>4
<1>2. ASSUME NEW c \in Callers, W!PutNoWait(c) PROVE Rest'
  <2>1. /\ pc[c] = "put" /\ pc' = [pc EXCEPT ![c] = "idle"]
        /\ pending' = Append(pending, W!Event(c)) \/ pending' = pending
        /\ UNCHANGED <<shut, daemon, item, tried, early, racing>>
      BY <1>2 DEF W!PutNoWait, W!Goes
  <2>2. CASE pending' = pending
      BY <2>1, <2>2, <1>t, CallFlush DEF Told
  <2>3. CASE pending' = Append(pending, W!Event(c))
      <3>1. sent[c] \in 1..Reports
          <4>1. sent[c] > 0 /\ sent[c] \in 0..Reports /\ Reports \in Nat
              BY <2>1, HookSorts DEF FlushInv, Bounds
          <4> QED
              BY <4>1
      <3>2. W!Event(c) \in W!AllEvents /\ W!Event(c)[1] = c
          BY <3>1 DEF W!Event, W!AllEvents
      <3> QED
          BY <2>1, <2>3, <3>2, PutFlush
  <2> QED
      BY <2>1, <2>2, <2>3
<1>3. ASSUME NEW c \in Closers, W!CloseBegin(c) PROVE Rest'
  <2>1. \/ shut /\ pc' = [pc EXCEPT ![c] = "done"]
        \/ pc' = [pc EXCEPT ![c] = "set"]
      BY <1>3 DEF W!CloseBegin, W!Goes
  <2>2. UNCHANGED Told
      BY <1>3 DEF W!CloseBegin, W!history, Told
  <2> QED
      BY <2>1, <2>2, <1>t, CallFlush
<1>4. ASSUME NEW c \in Closers, W!SetClosed(c) PROVE Rest'
  BY <1>4, ShutFlush
<1>5. ASSUME NEW c \in Closers, W!PutStop(c) PROVE Rest'
  BY <1>5, StopFlush DEF W!PutStop, W!Goes, W!history
<1>6. ASSUME NEW c \in Closers, W!Join(c) PROVE Rest'
  <2>1. pc[c] = "join" /\ pc' = [pc EXCEPT ![c] = "done"] /\ UNCHANGED Told
      BY <1>6 DEF W!Join, W!Goes, W!history, Told
  <2>2. shut
      BY <2>1 DEF FlushInv, OpenHook
  <2> QED
      BY <2>1, <2>2, <1>t, CallFlush
<1>7. W!Take \/ W!Post \/ W!Exit => Rest'
  BY TakeFlush, PostFlush, ExitFlush
<1>8. HookType'
  BY HookTypeKept DEF FlushInv
<1>9. Rest'
  BY <1>1, <1>2, <1>3, <1>4, <1>5, <1>6, <1>7 DEF W!Next
<1> QED
  BY <1>8, <1>9 DEF FlushInv

(* Nothing is queued initially. *)
LEMMA FlushInit ==
  ASSUME Bounds, W!Init
  PROVE  FlushInv
<1>1. /\ pending = <<>> /\ shut = FALSE /\ daemon = "waiting" /\ item = W!Stop /\ attempt = 0
      /\ pc = [t \in W!Threads |-> "idle"] /\ sent = [c \in Callers |-> 0]
      /\ last = [c \in Callers |-> 0]
      /\ tried = {} /\ dropped = {} /\ early = {} /\ racing = {}
  BY DEF W!Init
<1>2. /\ pending \in Seq(W!AllEvents \cup {W!Stop}) /\ Len(pending) = 0
      /\ \A i \in 1..Len(pending) : pending[i] \in W!AllEvents \cup {W!Stop}
  BY <1>1
<1>3. Size >= 0 /\ 0 \in 0..Reports /\ attempt \in 0..MaxRetries
  BY <1>1 DEF Bounds
<1>4. /\ sent \in [Callers -> 0..Reports] /\ last \in [Callers -> 0..Reports]
      /\ pc \in [W!Threads -> {"idle", "put", "set", "stop", "join", "done"}]
      /\ \A t \in W!Threads : pc[t] = "idle"
  BY <1>1, <1>3
<1>5. \A x \in {tried, dropped, early} : x \in SUBSET W!AllEvents
  BY <1>1
<1>6. W!TypeOK
  BY <1>1, <1>2, <1>3, <1>4, <1>5 DEF W!TypeOK
<1>7. HookType
  BY <1>1, <1>2, <1>4, <1>6 DEF HookType, W!Threads
<1>8. OpenHook /\ Latecomers /\ EarlyAhead /\ LateBehind
  BY <1>1, <1>2, <1>4 DEF OpenHook, Latecomers, EarlyAhead, LateBehind, Place, W!Threads
<1> QED
  BY <1>7, <1>8 DEF FlushInv

(* What was queued before close() is posted or given up when the daemon    *)
(* stopped, and what is left in the queue came from a caller that was      *)
(* inside enqueue() when close() was called.                               *)
THEOREM Flushed ==
  ASSUME Bounds
  PROVE  /\ W!Spec => []W!FlushedByClose
         /\ MCSpec => []FlushedByClose
<1>1. W!Init => FlushInv
  BY FlushInit
<1>2. FlushInv /\ [W!Next]_W!vars => FlushInv'
  <2>1. ASSUME FlushInv, UNCHANGED W!vars PROVE FlushInv'
      <3> USE DEF W!vars
      <3>1. HookType'
          BY <2>1 DEF FlushInv, HookType, W!TypeOK
      <3>2. OpenHook' /\ Latecomers' /\ EarlyAhead' /\ LateBehind'
          BY <2>1 DEF FlushInv, OpenHook, Latecomers, EarlyAhead, LateBehind, Place
      <3> QED
          BY <3>1, <3>2 DEF FlushInv
  <2> QED
      BY <2>1, FlushKept
<1>3. FlushInv => W!FlushedByClose
  <2> SUFFICES ASSUME FlushInv, daemon = "stopped" PROVE W!FlushedByClose
      BY DEF W!FlushedByClose
  <2>1. early \subseteq tried
      BY DEF FlushInv, EarlyAhead
  <2>2. ASSUME NEW e \in W!Queued PROVE e \in W!AllEvents /\ e[1] \in racing
      <3>1. PICK i \in Place : pending[i] = e /\ e # W!Stop
          BY <2>2 DEF W!Queued, Place
      <3>2. e \in W!AllEvents
          BY <3>1, HookSorts DEF FlushInv, Place
      <3> QED
          BY <3>1, <3>2 DEF FlushInv, LateBehind
  <2> QED
      BY <2>1, <2>2 DEF W!FlushedByClose
<1>4. MCInit => W!Init
  BY DEF MCInit
<1>5. [MCNext]_all => [W!Next]_W!vars
  BY DEF MCNext, Streaming, Posting, all, hookVars, W!vars
<1>6. W!FlushedByClose => FlushedByClose
  BY DEF FlushedByClose
<1> QED
  BY <1>1, <1>2, <1>3, <1>4, <1>5, <1>6, PTL DEF W!Spec, MCSpec

-----------------------------------------------------------------------------
(* The numbers given out are numbers, the next one that of the event in    *)
(* the caller's hand.                                                      *)
LEMMA Givens ==
  ASSUME Bounds, HookType
  PROVE  /\ \A c \in Callers : Given[c] \in Nat /\ last[c] \in Nat /\ sent[c] \in Nat
         /\ \A c \in Callers : pc[c] = "put" => sent[c] = Given[c] + 1
         /\ \A c \in Callers : pc[c] # "put" => sent[c] = Given[c]
<1>1. \A c \in Callers : /\ sent[c] \in Nat /\ last[c] \in Nat
                         /\ pc[c] = "put" => sent[c] > 0
  BY HookSorts DEF Bounds
<1> QED
  BY <1>1 DEF Given

(* What is queued, in hand or dropped are events of callers. *)
LEMMA EventSorts ==
  ASSUME Bounds, HookType
  PROVE  /\ \A i \in Place : pending[i] # W!Stop =>
              pending[i] \in W!AllEvents /\ pending[i][1] \in Callers /\ pending[i][2] \in Nat
         /\ item # W!Stop => item \in W!AllEvents /\ item[1] \in Callers /\ item[2] \in Nat
         /\ \A e \in dropped : e \in W!AllEvents /\ e[1] \in Callers /\ e[2] \in Nat
<1>1. \A e \in W!AllEvents : e[1] \in Callers /\ e[2] \in Nat
  BY StopIsNoEvent DEF Bounds
<1> QED
  BY <1>1, HookSorts DEF Place

(* The same after a step. *)
LEMMA GivensNext ==
  ASSUME Bounds, HookType'
  PROVE  /\ \A c \in Callers : Given'[c] \in Nat
         /\ \A c \in Callers : pc'[c] = "put" => sent'[c] = Given'[c] + 1
         /\ \A c \in Callers : pc'[c] # "put" => sent'[c] = Given'[c]
         /\ item' = W!Stop => item' \notin dropped'
<1>1. /\ sent' \in [Callers -> 0..Reports]
      /\ \A c \in Callers : pc'[c] = "put" => sent'[c] > 0
      /\ dropped' \subseteq W!AllEvents
  BY DEF HookType, W!TypeOK
<1>2. \A c \in Callers : sent'[c] \in Nat
  BY <1>1 DEF Bounds
<1>3. item' = W!Stop => item' \notin dropped'
  BY <1>1, StopIsNoEvent
<1> QED
  BY <1>1, <1>2, <1>3 DEF Given

(* A step of a caller that queues nothing: if it drops its event, that has *)
(* the number that it gives out.                                           *)
LEMMA CallOrder ==
  ASSUME Bounds, OrderInv, HookType', NEW c \in Callers,
         UNCHANGED pending, UNCHANGED item, UNCHANGED last,
         \A d \in Callers \ {c} : Given'[d] = Given[d],
         \/ Given'[c] = Given[c] /\ dropped' = dropped
         \/ Given'[c] = Given[c] + 1 /\ dropped' = dropped \cup {<<c, Given[c] + 1>>}
  PROVE  OrderInv'
<1>1. \A d \in Callers : Given[d] \in Nat /\ Given'[d] \in Nat /\ last[d] \in Nat
                         /\ Given[d] <= Given'[d]
  BY Givens DEF OrderInv
<1>2. /\ \A i \in Place : pending[i] # W!Stop =>
           pending[i] \in W!AllEvents /\ pending[i][1] \in Callers /\ pending[i][2] \in Nat
      /\ item # W!Stop => item \in W!AllEvents /\ item[1] \in Callers /\ item[2] \in Nat
      /\ \A e \in dropped : e \in W!AllEvents /\ e[1] \in Callers /\ e[2] \in Nat
  BY EventSorts DEF OrderInv
<1>3. \A e \in W!AllEvents : e[2] <= Given[e[1]] /\ e \notin dropped => e \notin dropped'
  <2> SUFFICES ASSUME NEW e \in W!AllEvents, e[2] <= Given[e[1]], e = <<c, Given[c] + 1>>
               PROVE  FALSE
      OBVIOUS
  <2>1. e[1] = c /\ e[2] = Given[c] + 1
      OBVIOUS
  <2> QED
      BY <2>1, <1>1
<1>4. QueuedNext'
  <2> SUFFICES ASSUME NEW i \in Place, pending[i] # W!Stop
               PROVE  /\ last[pending[i][1]] < pending[i][2]
                      /\ pending[i][2] <= Given'[pending[i][1]]
                      /\ pending[i] \notin dropped'
                      /\ item # W!Stop /\ item[1] = pending[i][1] => item[2] < pending[i][2]
      BY DEF QueuedNext, Place
  <2>1. /\ last[pending[i][1]] < pending[i][2]
        /\ pending[i][2] <= Given[pending[i][1]]
        /\ pending[i] \notin dropped
        /\ item # W!Stop /\ item[1] = pending[i][1] => item[2] < pending[i][2]
      BY DEF OrderInv, QueuedNext
  <2> QED
      BY ONLY <2>1, <1>1, <1>2, <1>3, pending[i] # W!Stop, i \in Place
<1>5. QueuedInOrder'
  BY DEF OrderInv, QueuedInOrder, Place
<1>6. InHandNext'
  BY <1>1, <1>2, <1>3 DEF OrderInv, InHandNext
<1>7. GivenOnce'
  <2>1. ASSUME NEW e \in dropped' PROVE e[2] <= Given'[e[1]]
      <3>1. CASE e \in dropped
          BY <3>1, <1>1, <1>2 DEF OrderInv, GivenOnce
      <3>2. CASE e \notin dropped
          <4>1. e = <<c, Given[c] + 1>> /\ Given'[c] = Given[c] + 1
              BY <3>2
          <4> QED
              BY <4>1, <1>1
      <3> QED
          BY <3>1, <3>2
  <2>2. \A d \in Callers : last'[d] <= Given'[d]
      BY <1>1 DEF OrderInv, GivenOnce
  <2> QED
      BY <2>1, <2>2 DEF GivenOnce
<1> QED
  BY <1>4, <1>5, <1>6, <1>7 DEF OrderInv

(* A step that queues a stop marker. *)
LEMMA StopOrder ==
  ASSUME Bounds, OrderInv, HookType', pending' = Append(pending, W!Stop),
         UNCHANGED item, UNCHANGED last, UNCHANGED dropped, Given' = Given
  PROVE  OrderInv'
<1> DEFINE Items == W!AllEvents \cup {W!Stop}
<1>0. pending \in Seq(Items) /\ W!Stop \in Items
  BY HookSorts DEF OrderInv
<1> HIDE DEF Items
<1>1. /\ Len(pending) \in Nat /\ Len(pending') = Len(pending) + 1
      /\ \A n \in 1..Len(pending) : pending'[n] = pending[n]
      /\ pending'[Len(pending) + 1] = W!Stop
  BY <1>0, Appends
<1>2. \A i \in Place' : pending'[i] # W!Stop => i \in Place /\ pending'[i] = pending[i]
  BY <1>1 DEF Place
<1>3. QueuedNext'
  BY <1>2 DEF OrderInv, QueuedNext
<1>4. QueuedInOrder'
  BY <1>2 DEF OrderInv, QueuedInOrder
<1>5. InHandNext' /\ GivenOnce'
  BY DEF OrderInv, InHandNext, GivenOnce
<1> QED
  BY <1>3, <1>4, <1>5 DEF OrderInv

(* A step that queues the event in the caller's hand. *)
LEMMA PutOrder ==
  ASSUME Bounds, OrderInv, HookType', NEW c \in Callers, NEW e \in W!AllEvents,
         e = <<c, Given[c] + 1>>, pending' = Append(pending, e),
         \A d \in Callers \ {c} : Given'[d] = Given[d],
         Given'[c] = Given[c] + 1,
         UNCHANGED item, UNCHANGED last, UNCHANGED dropped
  PROVE  OrderInv'
<1> DEFINE Items == W!AllEvents \cup {W!Stop}
<1>0. pending \in Seq(Items) /\ e \in Items
  BY HookSorts DEF OrderInv
<1> HIDE DEF Items
<1>1. /\ Len(pending) \in Nat /\ Len(pending') = Len(pending) + 1
      /\ \A n \in 1..Len(pending) : pending'[n] = pending[n]
      /\ pending'[Len(pending) + 1] = e
  BY <1>0, Appends
<1>2. \A i \in Place' : \/ i \in Place /\ pending'[i] = pending[i]
                        \/ i = Len(pending) + 1 /\ pending'[i] = e
  BY <1>1 DEF Place
<1>3. \A i \in Place : i \in Nat /\ i <= Len(pending)
  BY <1>1 DEF Place
<1>4. \A d \in Callers : Given[d] \in Nat /\ Given'[d] \in Nat /\ last[d] \in Nat
                         /\ Given[d] <= Given'[d]
  BY Givens DEF OrderInv
<1>5. /\ \A i \in Place : pending[i] # W!Stop =>
           pending[i] \in W!AllEvents /\ pending[i][1] \in Callers /\ pending[i][2] \in Nat
      /\ item # W!Stop => item \in W!AllEvents /\ item[1] \in Callers /\ item[2] \in Nat
      /\ \A x \in dropped : x \in W!AllEvents /\ x[1] \in Callers /\ x[2] \in Nat
  BY EventSorts DEF OrderInv
<1>6. e[1] = c /\ e[2] = Given[c] + 1 /\ e # W!Stop
  BY StopIsNoEvent
<1>7. QueuedNext'
  <2> SUFFICES ASSUME NEW i \in Place', pending'[i] # W!Stop
               PROVE  /\ last[pending'[i][1]] < pending'[i][2]
                      /\ pending'[i][2] <= Given'[pending'[i][1]]
                      /\ pending'[i] \notin dropped
                      /\ item # W!Stop /\ item[1] = pending'[i][1] => item[2] < pending'[i][2]
      BY DEF QueuedNext
  <2>1. CASE i \in Place /\ pending'[i] = pending[i]
      <3>1. /\ last[pending[i][1]] < pending[i][2]
            /\ pending[i][2] <= Given[pending[i][1]]
            /\ pending[i] \notin dropped
            /\ item # W!Stop /\ item[1] = pending[i][1] => item[2] < pending[i][2]
          BY <2>1 DEF OrderInv, QueuedNext
      <3>2. /\ Given[pending[i][1]] \in Nat /\ Given'[pending[i][1]] \in Nat
            /\ Given[pending[i][1]] <= Given'[pending[i][1]] /\ pending[i][2] \in Nat
          BY <2>1, <1>4, <1>5
      <3>3. pending[i][2] <= Given'[pending[i][1]]
          BY <3>1, <3>2
      <3> QED
          BY ONLY <2>1, <3>1, <3>3
  <2>2. CASE pending'[i] = e
      <3>1. e \notin dropped
          BY <1>4, <1>6 DEF OrderInv, GivenOnce
      <3>2. item # W!Stop /\ item[1] = c => item[2] < e[2]
          BY <1>4, <1>5, <1>6 DEF OrderInv, InHandNext
      <3>3. last[c] < e[2] /\ e[2] <= Given'[c]
          BY <1>4, <1>6 DEF OrderInv, GivenOnce
      <3> QED
          BY <2>2, <3>1, <3>2, <3>3, <1>6
  <2> QED
      BY <2>1, <2>2, <1>2
<1>8. QueuedInOrder'
  <2> SUFFICES ASSUME NEW i \in Place', NEW j \in Place', j < i, pending'[j] # W!Stop,
                      pending'[i] # W!Stop, pending'[j][1] = pending'[i][1]
               PROVE  pending'[j][2] < pending'[i][2]
      BY DEF QueuedInOrder
  <2>1. j \in Place /\ pending'[j] = pending[j]
      BY <1>1, <1>2, <1>3 DEF Place
  <2>2. CASE i \in Place /\ pending'[i] = pending[i]
      BY <2>1, <2>2 DEF OrderInv, QueuedInOrder
  <2>3. CASE pending'[i] = e
      <3>1. pending[j][2] <= Given[pending[j][1]] /\ pending[j][1] = c
          BY <2>1, <2>3, <1>6 DEF OrderInv, QueuedNext
      <3> QED
          <4>1. pending[j][2] \in Nat /\ Given[c] \in Nat /\ pending[j][2] <= Given[c]
              BY <2>1, <3>1, <1>4, <1>5
          <4>2. pending[j][2] < e[2]
              BY <4>1, <1>6
          <4> QED
              BY ONLY <2>1, <2>3, <4>2
  <2> QED
      BY <2>2, <2>3, <1>2
<1>9. InHandNext'
  BY <1>4, <1>5 DEF OrderInv, InHandNext
<1>10. GivenOnce'
  BY <1>4, <1>5 DEF OrderInv, GivenOnce
<1> QED
  BY <1>7, <1>8, <1>9, <1>10 DEF OrderInv

(* The head of the queue comes before what is behind it. *)
LEMMA TakeOrder ==
  ASSUME Bounds, OrderInv, HookType', W!Take
  PROVE  OrderInv'
<1> DEFINE Items == W!AllEvents \cup {W!Stop}
<1>0. /\ UNCHANGED last /\ UNCHANGED dropped /\ Given' = Given
      /\ pending # <<>> /\ pending' = Tail(pending) /\ item' = Head(pending)
      /\ pending \in Seq(Items)
  BY HookSorts DEF OrderInv, W!Take, W!history, Given
<1> HIDE DEF Items
<1>1. /\ item' = pending[1] /\ 1 \in Place /\ Len(pending) \in Nat
      /\ Len(pending') = Len(pending) - 1
      /\ \A n \in 1..(Len(pending) - 1) : n + 1 \in Place /\ pending'[n] = pending[n + 1]
  BY <1>0, Tails DEF Place
<1>2. \A n \in Place' : n \in Nat /\ 1 < n + 1 /\ n + 1 \in Place /\ pending'[n] = pending[n + 1]
  BY <1>1 DEF Place
<1>3. \A d \in Callers : Given[d] \in Nat /\ last[d] \in Nat
  BY Givens DEF OrderInv
<1>4. \A i \in Place : pending[i] # W!Stop =>
        pending[i] \in W!AllEvents /\ pending[i][1] \in Callers /\ pending[i][2] \in Nat
  BY EventSorts DEF OrderInv
<1>5. QueuedNext'
  <2> SUFFICES ASSUME NEW i \in Place', pending'[i] # W!Stop
               PROVE  /\ last[pending'[i][1]] < pending'[i][2]
                      /\ pending'[i][2] <= Given[pending'[i][1]]
                      /\ pending'[i] \notin dropped
                      /\ item' # W!Stop /\ item'[1] = pending'[i][1] => item'[2] < pending'[i][2]
      BY <1>0 DEF QueuedNext
  <2>1. i + 1 \in Place /\ pending'[i] = pending[i + 1] /\ 1 < i + 1
      BY <1>2
  <2>2. item' # W!Stop /\ item'[1] = pending'[i][1] => item'[2] < pending'[i][2]
      BY <2>1, <1>1 DEF OrderInv, QueuedInOrder
  <2>3. /\ last[pending[i + 1][1]] < pending[i + 1][2]
        /\ pending[i + 1][2] <= Given[pending[i + 1][1]]
        /\ pending[i + 1] \notin dropped
      BY <2>1 DEF OrderInv, QueuedNext
  <2> QED
      BY <2>1, <2>2, <2>3
<1>6. QueuedInOrder'
  <2> SUFFICES ASSUME NEW i \in Place', NEW j \in Place', j < i, pending'[j] # W!Stop,
                      pending'[i] # W!Stop, pending'[j][1] = pending'[i][1]
               PROVE  pending'[j][2] < pending'[i][2]
      BY DEF QueuedInOrder
  <2>1. /\ i + 1 \in Place /\ pending'[i] = pending[i + 1]
        /\ j + 1 \in Place /\ pending'[j] = pending[j + 1]
        /\ j + 1 < i + 1
      BY <1>2
  <2> QED
      BY <2>1 DEF OrderInv, QueuedInOrder
<1>7. InHandNext'
  <2> SUFFICES ASSUME pending[1] # W!Stop
               PROVE  /\ last[pending[1][1]] <= pending[1][2]
                      /\ pending[1][2] <= Given[pending[1][1]]
                      /\ pending[1] \notin dropped
      BY <1>0, <1>1 DEF InHandNext
  <2>1. /\ last[pending[1][1]] < pending[1][2]
        /\ pending[1][2] <= Given[pending[1][1]]
        /\ pending[1] \notin dropped
      BY <1>1 DEF OrderInv, QueuedNext
  <2>2. last[pending[1][1]] \in Nat /\ pending[1][2] \in Nat
      BY <1>1, <1>3, <1>4
  <2> QED
      BY <2>1, <2>2
<1>8. GivenOnce'
  BY <1>0 DEF OrderInv, GivenOnce
<1> QED
  BY <1>5, <1>6, <1>7, <1>8 DEF OrderInv

(* What is posted is the event in hand. *)
LEMMA PostOrder ==
  ASSUME Bounds, OrderInv, HookType', W!Post
  PROVE  /\ OrderInv'
         /\ \A c \in Callers : last'[c] >= last[c]
<1>0. /\ UNCHANGED pending /\ UNCHANGED dropped /\ Given' = Given
      /\ item # W!Stop
      /\ item' = item \/ item' = W!Stop
      /\ last' = last \/ last' = [last EXCEPT ![item[1]] = item[2]]
  BY DEF W!Post, W!Delivered, W!GiveUp, W!Retry, OrderInv, HookType, Given
<1>1. /\ last \in [Callers -> 0..Reports]
      /\ \A d \in Callers : Given[d] \in Nat /\ last[d] \in Nat
  BY Givens, HookSorts DEF OrderInv
<1>2. /\ \A i \in Place : pending[i] # W!Stop =>
           pending[i] \in W!AllEvents /\ pending[i][1] \in Callers /\ pending[i][2] \in Nat
      /\ item \in W!AllEvents /\ item[1] \in Callers /\ item[2] \in Nat
  BY <1>0, EventSorts DEF OrderInv
<1>3. last[item[1]] <= item[2] /\ item[2] <= Given[item[1]] /\ item \notin dropped
  BY <1>0 DEF OrderInv, InHandNext
<1>4. \A d \in Callers : \/ last'[d] = last[d]
                         \/ d = item[1] /\ last'[d] = item[2]
  BY <1>0, <1>1
<1>5. \A d \in Callers : last'[d] \in Nat /\ last[d] <= last'[d]
  BY <1>1, <1>2, <1>3, <1>4
<1>6. QueuedNext'
  <2> SUFFICES ASSUME NEW i \in Place, pending[i] # W!Stop
               PROVE  /\ last'[pending[i][1]] < pending[i][2]
                      /\ pending[i][2] <= Given[pending[i][1]]
                      /\ pending[i] \notin dropped
                      /\ item' # W!Stop /\ item'[1] = pending[i][1] => item'[2] < pending[i][2]
      BY <1>0 DEF QueuedNext, Place
  <2>1. /\ last[pending[i][1]] < pending[i][2]
        /\ pending[i][2] <= Given[pending[i][1]]
        /\ pending[i] \notin dropped
        /\ item[1] = pending[i][1] => item[2] < pending[i][2]
      BY <1>0 DEF OrderInv, QueuedNext
  <2>2. last'[pending[i][1]] < pending[i][2]
      BY <2>1, <1>2, <1>4
  <2> QED
      BY <2>1, <2>2, <1>0
<1>7. QueuedInOrder'
  BY <1>0 DEF OrderInv, QueuedInOrder, Place
<1>8. InHandNext'
  <2>1. last'[item[1]] <= item[2]
      BY <1>1, <1>2, <1>3, <1>4
  <2> QED
      BY <2>1, <1>0, <1>3 DEF InHandNext
<1>9. GivenOnce'
  <2>1. \A d \in Callers : last'[d] <= Given[d]
      BY <1>3, <1>4 DEF OrderInv, GivenOnce
  <2> QED
      BY <2>1, <1>0 DEF OrderInv, GivenOnce
<1>10. \A c \in Callers : last'[c] >= last[c]
  BY <1>1, <1>5
<1> QED
  BY <1>6, <1>7, <1>8, <1>9, <1>10 DEF OrderInv

(* Every step keeps the order. *)
LEMMA OrderKept ==
  ASSUME Bounds, OrderInv, W!Next
  PROVE  /\ OrderInv'
         /\ \A c \in Callers : last'[c] >= last[c]
<1>h. HookType /\ HookType'
  BY HookTypeKept DEF OrderInv
<1>g. /\ \A c \in Callers : Given[c] \in Nat /\ last[c] \in Nat /\ sent[c] \in Nat
      /\ \A c \in Callers : pc[c] = "put" => sent[c] = Given[c] + 1
      /\ \A c \in Callers : pc[c] # "put" => sent[c] = Given[c]
  BY <1>h, Givens
<1>p. /\ \A c \in Callers : Given'[c] \in Nat
      /\ \A c \in Callers : pc'[c] = "put" => sent'[c] = Given'[c] + 1
      /\ \A c \in Callers : pc'[c] # "put" => sent'[c] = Given'[c]
  BY <1>h, GivensNext
<1>s. /\ sent \in [Callers -> 0..Reports] /\ \A c \in Callers \cup Closers : c \in W!Threads
      /\ pc \in [W!Threads -> {"idle", "put", "set", "stop", "join", "done"}]
  BY <1>h, HookSorts DEF W!Threads
<1>1. ASSUME NEW c \in Callers, W!Enqueue(c)
      PROVE  OrderInv' /\ last' = last
  <2>1. /\ pc[c] = "idle" /\ sent' = [sent EXCEPT ![c] = sent[c] + 1]
        /\ \/ dropped' = dropped \cup {<<c, sent[c] + 1>>} /\ pc' = pc
           \/ dropped' = dropped /\ pc' = [pc EXCEPT ![c] = "put"]
        /\ UNCHANGED pending /\ UNCHANGED item /\ UNCHANGED last
      BY <1>1 DEF W!Enqueue, W!Goes
  <2>2. sent[c] = Given[c] /\ sent'[c] = sent[c] + 1 /\ \A d \in Callers \ {c} : sent'[d] = sent[d]
      BY <2>1, <1>g, <1>s
  <2>3. \A d \in Callers \ {c} : pc'[d] = pc[d]
      BY <2>1, <1>s
  <2>4. \A d \in Callers \ {c} : Given'[d] = Given[d]
      BY <2>2, <2>3, <1>g, <1>p
  <2>5. \/ Given'[c] = Given[c] /\ dropped' = dropped
        \/ Given'[c] = Given[c] + 1 /\ dropped' = dropped \cup {<<c, Given[c] + 1>>}
      <3>1. CASE dropped' = dropped \cup {<<c, sent[c] + 1>>} /\ pc' = pc
          BY <3>1, <2>1, <2>2, <1>p
      <3>2. CASE dropped' = dropped /\ pc' = [pc EXCEPT ![c] = "put"]
          <4>1. pc'[c] = "put"
              BY <3>2, <1>s
          <4>2. Given'[c] \in Nat /\ sent'[c] = Given'[c] + 1
              BY <4>1, <1>p
          <4>3. Given'[c] = Given[c]
              BY ONLY <4>2, <2>2, <1>g, c \in Callers
          <4> QED
              BY <4>3, <3>2
      <3> QED
          BY <2>1, <3>1, <3>2
  <2> QED
      BY <1>h, <2>1, <2>4, <2>5, CallOrder
<1>2. ASSUME NEW c \in Callers, W!PutNoWait(c)
      PROVE  OrderInv' /\ last' = last
  <2>1. /\ pc[c] = "put" /\ pc' = [pc EXCEPT ![c] = "idle"] /\ sent' = sent
        /\ \/ pending' = Append(pending, W!Event(c)) /\ dropped' = dropped
           \/ dropped' = dropped \cup {W!Event(c)} /\ pending' = pending
        /\ UNCHANGED item /\ UNCHANGED last
      BY <1>2 DEF W!PutNoWait, W!Goes
  <2>2. pc'[c] = "idle" /\ \A d \in Callers \ {c} : pc'[d] = pc[d]
      BY <2>1, <1>s
  <2>3. Given'[c] = Given[c] + 1 /\ \A d \in Callers \ {c} : Given'[d] = Given[d]
      BY <2>1, <2>2, <1>g, <1>p
  <2>4. W!Event(c) = <<c, Given[c] + 1>>
      BY <2>1, <1>g DEF W!Event
  <2>5. W!Event(c) \in W!AllEvents
      <3>1. sent[c] \in 1..Reports
          <4>1. sent[c] > 0 /\ sent[c] \in 0..Reports /\ Reports \in Nat
              BY <2>1, <1>h, HookSorts DEF Bounds
          <4> QED
              BY <4>1
      <3> QED
          BY <3>1 DEF W!Event, W!AllEvents
  <2>6. CASE pending' = Append(pending, W!Event(c)) /\ dropped' = dropped
      BY <2>1, <2>3, <2>4, <2>5, <2>6, <1>h, PutOrder
  <2>7. CASE dropped' = dropped \cup {W!Event(c)} /\ pending' = pending
      BY <2>1, <2>3, <2>4, <2>7, <1>h, CallOrder
  <2> QED
      BY <2>1, <2>6, <2>7
<1>3. ASSUME NEW c \in Closers, W!CloseBegin(c) \/ W!SetClosed(c) \/ W!PutStop(c) \/ W!Join(c)
      PROVE  OrderInv' /\ last' = last
  <2>1. /\ pc[c] # "put" /\ \E w \in {"done", "set", "stop", "join"} : pc' = [pc EXCEPT ![c] = w]
        /\ UNCHANGED sent /\ UNCHANGED item /\ UNCHANGED last /\ UNCHANGED dropped
        /\ pending' = pending \/ pending' = Append(pending, W!Stop)
      BY <1>3 DEF W!CloseBegin, W!SetClosed, W!PutStop, W!Join, W!Goes, W!history
  <2>2. \A d \in Callers : pc'[d] = "put" <=> pc[d] = "put"
      BY <2>1, <1>s
  <2>3. Given' = Given
      BY <2>1, <2>2 DEF Given
  <2>4. CASE pending' = pending
      BY <2>1, <2>3, <2>4, <1>h
         DEF OrderInv, QueuedNext, QueuedInOrder, InHandNext, GivenOnce, Place
  <2>5. CASE pending' = Append(pending, W!Stop)
      BY <2>1, <2>3, <2>5, <1>h, StopOrder
  <2> QED
      BY <2>1, <2>4, <2>5
<1>4. ASSUME W!Take PROVE OrderInv' /\ last' = last
  BY <1>4, <1>h, TakeOrder DEF W!Take
<1>5. ASSUME W!Post PROVE OrderInv' /\ \A c \in Callers : last'[c] >= last[c]
  BY <1>5, <1>h, PostOrder
<1>6. ASSUME W!Exit PROVE OrderInv' /\ last' = last
  <2>1. /\ UNCHANGED pending /\ UNCHANGED item /\ UNCHANGED last /\ UNCHANGED dropped
        /\ Given' = Given
      BY <1>6 DEF W!Exit, W!history, Given
  <2> QED
      BY <2>1, <1>h DEF OrderInv, QueuedNext, QueuedInOrder, InHandNext, GivenOnce, Place
<1>7. last' = last => \A c \in Callers : last'[c] >= last[c]
  BY <1>g
<1> QED
  BY <1>1, <1>2, <1>3, <1>4, <1>5, <1>6, <1>7 DEF W!Next

(* No number is given out initially. *)
LEMMA OrderInit ==
  ASSUME Bounds, W!Init
  PROVE  OrderInv
<1>1. /\ pending = <<>> /\ item = W!Stop /\ dropped = {}
      /\ pc = [t \in W!Threads |-> "idle"] /\ sent = [c \in Callers |-> 0]
      /\ last = [c \in Callers |-> 0]
  BY DEF W!Init
<1>2. HookType
  BY FlushInit DEF FlushInv
<1>3. \A c \in Callers : Given[c] = 0 /\ last[c] = 0
  BY <1>1 DEF Given, W!Threads
<1>4. Place = {}
  BY <1>1 DEF Place
<1> QED
  BY <1>1, <1>2, <1>3, <1>4 DEF OrderInv, QueuedNext, QueuedInOrder, InHandNext, GivenOnce

(* The endpoint takes the events of a caller in their order, one again     *)
(* only right after itself, and never one that was dropped.                *)
THEOREM PostedInOrder ==
  ASSUME Bounds
  PROVE  W!Spec => W!InOrder
<1>1. W!Init => OrderInv
  BY OrderInit
<1>2. OrderInv /\ [W!Next]_W!vars => OrderInv'
  <2>1. ASSUME OrderInv, UNCHANGED W!vars PROVE OrderInv'
      <3> USE DEF W!vars
      <3>1. HookType'
          BY <2>1 DEF OrderInv, HookType, W!TypeOK
      <3>2. QueuedNext' /\ QueuedInOrder' /\ InHandNext' /\ GivenOnce'
          BY <2>1 DEF OrderInv, QueuedNext, QueuedInOrder, InHandNext, GivenOnce, Given, Place
      <3> QED
          BY <3>1, <3>2 DEF OrderInv
  <2> QED
      BY <2>1, OrderKept
<1> DEFINE Orderly == /\ \A c \in Callers : last'[c] >= last[c]
                      /\ item' \notin dropped'
<1>3. OrderInv /\ OrderInv' /\ [W!Next]_W!vars => [Orderly]_W!vars
  <2>1. OrderInv' => item' \notin dropped'
      BY GivensNext DEF OrderInv, InHandNext
  <2> QED
      BY <2>1, OrderKept
<1> QED
  BY <1>1, <1>2, <1>3, PTL DEF W!Spec, W!InOrder

=============================================================================
