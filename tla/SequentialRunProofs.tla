------------------------ MODULE SequentialRunProofs ------------------------
(***************************************************************************)
(* Proofs about SequentialRun, for any pipelines, any number of steps and  *)
(* of rounds on one cache: what a run records and caches is what happened, *)
(* a rejected output goes nowhere, a rerun calls no provider, and a run    *)
(* emits what its observers are promised.                                  *)
(***************************************************************************)
EXTENDS SequentialRun, TLAPS

(* A step is being executed. *)
Working == pc \in {"moderate", "lookup", "invoke", "post"}

(* The calls whose result a step may have been given: all of them but the  *)
(* one that was just made.                                                 *)
Bound == IF pc = "post" THEN Len(calls) - 1 ELSE Len(calls)

(* What may be handed on. *)
Handable == (1..Bound) \ rejected

(* What the place in the loop says of the step being executed. *)
Place ==
  /\ pc \in {"loop", "ended"} => cur = Idle
  /\ Working => pos <= N /\ cur.key \in Key /\ cur.tried <= Len(plan[pos].fallbacks)
  /\ pc \in {"moderate", "lookup"} => cur.tried = 0 /\ cur.ledger = <<>>
  /\ pc \in {"moderate", "lookup", "invoke"} => cur.key.recorded = FALSE
  /\ pc = "post" => /\ cur.key.recorded = RecordsParams
                    /\ Len(calls) > 0 /\ cur.made = Len(calls)
  /\ pc = "record" => Len(results) > 0

(* Results, cached or not, are of calls that were made, and nothing that   *)
(* was rejected is handed on.                                              *)
Handed ==
  /\ rejected \subseteq 1..Bound
  /\ \A i \in 1..Len(results) :
       /\ results[i].made <= Bound
       /\ results[i].status = "SUCCEEDED" => results[i].made \in Handable
  /\ \A j \in 1..Len(prev) : prev[j] \in Handable
  /\ Working => \A j \in 1..Len(cur.key.inputs) : cur.key.inputs[j] \in Handable
  /\ \A n \in 1..Len(calls) : \A j \in 1..Len(calls[n].key.inputs) :
       calls[n].key.inputs[j] \in (1..(n - 1)) \ rejected
  /\ \A e \in cache : e.made \in Handable

Shape == TypeOK /\ Place /\ Handed

(* The upstream steps of a step that is executed came before it. *)
Resolved(i) ==
  plan[i].external \/ \A j \in 1..Len(plan[i].from) : plan[i].from[j] \in 1..(i - 1)

(* What the step asks for is what the pipeline declares. *)
Asked ==
  /\ Working =>
       /\ Resolved(pos)
       /\ cur.key.prompt = plan[pos].prompt
       /\ cur.key.model = Models(pos)[cur.tried + 1]
       /\ cur.key.inputs = Declared(pos)
  /\ pipe.chain /\ pc # "record" =>
       prev = IF results = <<>> THEN <<>> ELSE PrevAssets(results[Len(results)])

(* The call that was just made asked for it. *)
MadeAsAsked ==
  pc = "post" =>
    /\ calls[cur.made].round = round /\ calls[cur.made].pos = pos
    /\ calls[cur.made].key = [cur.key EXCEPT !.recorded = FALSE]

(* So did the calls behind the results and the cache. *)
Truthful ==
  /\ ProvenanceTrue
  /\ \A i \in 1..Len(results) : results[i].status = "SUCCEEDED" => Resolved(i)
  /\ CacheSound

(* The calls of this run for a step, and those that a ledger lists. *)
CallsOf(i) == {n \in 1..Len(calls) : calls[n].round = round /\ calls[n].pos = i}
Listed(ledger) == {ledger[a] : a \in 1..Len(ledger)}

(* Every call of this run is in the ledger of its step, or the last one. *)
Ledgers ==
  /\ \A n \in 1..Len(calls) :
       /\ calls[n].round <= round
       /\ calls[n].round = round /\ pc \in {"loop", "record", "moderate", "lookup"} =>
            calls[n].pos <= Len(results)
       /\ calls[n].round = round /\ pc \in {"invoke", "post"} => calls[n].pos <= pos
  /\ pc = "invoke" => Listed(cur.ledger) = CallsOf(pos)
  /\ pc = "post" => Listed(cur.ledger) = CallsOf(pos) \ {cur.made}
  /\ LedgerComplete

(* What the observer was told of a step, before the run ends. *)
Said(i) ==
  IF i < Len(results) \/ (i = Len(results) /\ pc # "record") THEN results[i].status
  ELSE IF i = Len(results) \/ (i = pos /\ Working) THEN "started"
  ELSE "none"

(* In the rounds that did not begin nothing was said, nor the end of one   *)
(* that did not end.                                                       *)
Told ==
  /\ \A r \in 1..Rounds : r > round => end[r] = "none" /\ \A i \in Steps : reported[r][i] = "none"
  /\ pc # "ended" => end[round] = "none" /\ \A i \in Steps : reported[round][i] = Said(i)

(* The calls of a round for a step that returned something. *)
GoodOf(r, i) ==
  {n \in 1..Len(calls) : calls[n].round = r /\ calls[n].pos = i /\ calls[n].outcome \in Good}

(* A model is superseded because it failed; a step returns the one good    *)
(* call there was, unless moderation rejected it.                          *)
Superseded ==
  /\ pc \in {"invoke", "post"} =>
       /\ \A n \in CallsOf(pos) : n <= Bound => calls[n].outcome \notin Good
       /\ cur.tried > 0 => \E n \in CallsOf(pos) : n <= Bound
  /\ \A i \in 1..Len(results) : \A n \in CallsOf(i) : calls[n].outcome \in Good =>
       n = results[i].made /\ (results[i].status = "SUCCEEDED" \/ n \in rejected)
  /\ \A m, n \in 1..Len(calls) :
       /\ calls[m].round = calls[n].round /\ calls[m].pos = calls[n].pos
       /\ {calls[m].outcome, calls[n].outcome} \subseteq Good
       => m = n

(* A call asks for its step's prompt, and for the primary model first. *)
PrimaryFirst ==
  \A n \in 1..Len(calls) :
    /\ calls[n].key.recorded = FALSE
    /\ calls[n].key.prompt = plan[calls[n].pos].prompt
    /\ \/ calls[n].key.model = plan[calls[n].pos].model
       \/ \E m \in 1..Len(calls) :
            /\ calls[m].round = calls[n].round /\ calls[m].pos = calls[n].pos
            /\ calls[m].outcome \notin Good

(* These are the inputs of step i if its upstream steps return what they   *)
(* returned in the first run.                                              *)
FirstInputs(i, inputs) ==
  IF plan[i].external THEN inputs = <<>>
  ELSE IF plan[i].from # <<>>
  THEN /\ inputs \in [1..Len(plan[i].from) -> Nat]
       /\ \A j \in 1..Len(plan[i].from) :
            /\ plan[i].from[j] \in 1..(i - 1)
            /\ \A m \in GoodOf(1, plan[i].from[j]) : inputs[j] = m
  ELSE IF pipe.chain /\ i > 1
  THEN \A m \in GoodOf(1, i - 1) \ rejected :
         inputs = IF calls[m].outcome = "ok" THEN <<m>> ELSE <<>>
  ELSE inputs = <<>>

(* So were the inputs of the first run. *)
FirstAsked ==
  \A n \in 1..Len(calls) : calls[n].round = 1 => FirstInputs(calls[n].pos, calls[n].key.inputs)

(* An entry is stored under the key that was looked up, one for a key. *)
Entries ==
  /\ ~RecordsParams => \A e \in cache : e.key = calls[e.made].key
  /\ \A e, f \in cache : e.key = f.key => e = f

(* A rerun of a clean first run returns what the first run made. *)
Free ==
  ~RecordsParams /\ FirstRunClean /\ round > 1
      /\ (\A i \in 1..Len(results) : results[i].status = "SUCCEEDED") =>
    /\ pc \notin {"invoke", "post"}
    /\ \A n \in 1..Len(calls) : calls[n].round < round
    /\ \A i \in 1..Len(results) : results[i].made \in GoodOf(1, i)

-----------------------------------------------------------------------------

(* What Append does. *)
LEMMA Appended ==
  ASSUME NEW T, NEW q \in Seq(T), NEW x
  PROVE  /\ Len(Append(q, x)) = Len(q) + 1 /\ Len(q) \in Nat
         /\ \A n \in 1..Len(q) : Append(q, x)[n] = q[n]
         /\ Append(q, x)[Len(q) + 1] = x
         /\ x \in T => Append(q, x) \in Seq(T)
OBVIOUS

(* What the assumptions say of a step of the pipeline that runs. *)
LEMMA PlanType ==
  ASSUME TypeOK, NEW i \in Steps
  PROVE  /\ plan[i].model \in STRING /\ plan[i].fallbacks \in Seq(STRING)
         /\ plan[i].from \in Seq(Nat) /\ plan[i].external \in BOOLEAN
         /\ plan[i].prompt \in Prompts
BY PipelinesAssumption DEF TypeOK, plan, Prompts

(* A model that a step may be generated with. *)
LEMMA ModelsType ==
  ASSUME TypeOK, NEW i \in Steps, NEW t \in Nat, t <= Len(plan[i].fallbacks)
  PROVE  /\ Models(i)[t + 1] \in STRING /\ t + 1 \in 1..Len(Models(i))
         /\ Models(i)[1] = plan[i].model
<1>1. plan[i].model \in STRING /\ plan[i].fallbacks \in Seq(STRING)
    BY PlanType
<1> QED
    BY <1>1 DEF Models

(* A key that a step is looked up with. *)
LEMMA KeyType ==
  ASSUME TypeOK, NEW i \in Steps, NEW t \in Nat, t <= Len(plan[i].fallbacks),
         NEW inputs \in Seq(Nat)
  PROVE  /\ KeyOf(i, t, inputs, FALSE) \in Key
         /\ KeyOf(i, t, inputs, FALSE).inputs = inputs
         /\ KeyOf(i, t, inputs, FALSE).recorded = FALSE
<1>1. Models(i)[t + 1] \in STRING /\ plan[i].prompt \in Prompts
    BY ModelsType, PlanType
<1> QED
    BY <1>1 DEF KeyOf, Key

(* The numbers in play. *)
LEMMA Counts ==
  ASSUME TypeOK
  PROVE  /\ Len(results) \in Nat /\ Len(calls) \in Nat
         /\ pos \in Nat \ {0} /\ pos - 1 = Len(results)
         /\ N \in Nat \ {0} /\ (pos <= N => pos \in Steps) /\ 1..Len(results) \subseteq Steps
         /\ cur \in [key : Key \cup {<<>>}, tried : Nat, ledger : Seq(Nat), made : Nat]
         /\ \A i \in 1..Len(results) : results[i] \in StepResult
         /\ \A n \in 1..Len(calls) : calls[n] \in ProviderCall
BY RunAssumption DEF TypeOK, pos, Steps

(* What a step is given are outputs that may be handed on. *)
LEMMA InputsHanded ==
  ASSUME Shape, pos <= N, pc = "loop", plan[pos].external \/ Resolvable(pos)
  PROVE  Inputs(pos) \in Seq(Nat) /\ \A j \in 1..Len(Inputs(pos)) : Inputs(pos)[j] \in Handable
<1>1. TypeOK /\ Handed
    BY DEF Shape
<1>2. prev \in Seq(Nat) /\ \A j \in 1..Len(prev) : prev[j] \in Handable
    BY <1>1 DEF Handed, TypeOK
<1>3. <<>> \in Seq(Nat) /\ \A j \in 1..Len(<<>>) : <<>>[j] \in Handable
    OBVIOUS
<1>4. CASE plan[pos].external
    BY <1>3, <1>4 DEF Inputs
<1>5. CASE ~plan[pos].external /\ plan[pos].from # <<>>
  <2> DEFINE from == plan[pos].from
             given == [j \in 1..Len(from) |-> results[from[j]].made]
  <2>1. from \in Seq(Nat)
      BY <1>1, Counts, PlanType
  <2>2. \A j \in 1..Len(from) : results[from[j]].made \in Handable \cap Nat
    <3>1. \A j \in 1..Len(from) :
            from[j] \in 1..Len(results) /\ results[from[j]].status = "SUCCEEDED"
        BY <1>1, <1>5, Counts DEF Resolvable
    <3>2. \A i \in 1..Len(results) : results[i].made \in Nat
        BY <1>1, Counts DEF StepResult
    <3> QED
        BY <1>1, <3>1, <3>2 DEF Handed
  <2>3. given \in Seq(Nat) /\ \A j \in 1..Len(given) : given[j] \in Handable
      BY <2>1, <2>2
  <2>4. Inputs(pos) = given
      BY <1>5 DEF Inputs
  <2> QED
      BY <2>3, <2>4
<1>6. CASE ~plan[pos].external /\ plan[pos].from = <<>>
  <2>1. CASE Inputs(pos) = prev
      BY <1>2, <2>1
  <2>2. CASE Inputs(pos) = <<>>
      BY <1>3, <2>2
  <2> QED
      BY <1>6, <2>1, <2>2 DEF Inputs
<1> QED
    BY <1>4, <1>5, <1>6

-----------------------------------------------------------------------------
(* The first invariant: the shape of the state, and what is handed on. *)

(* Nothing is taken back but the output that is rejected. *)
LEMMA HandableGrows ==
  ASSUME Shape, [Next]_vars
  PROVE  /\ Handable \subseteq Handable'
         /\ Bound \in Nat /\ Bound' \in Nat /\ Bound <= Bound'
<1>1. /\ TypeOK /\ Place /\ Handed /\ Len(calls) \in Nat
      /\ pc = "post" => Len(calls) > 0
    BY Counts DEF Shape, Place
<1>2. CASE Invoke
  <2>1. Len(calls') = Len(calls) + 1
      BY <1>1, <1>2 DEF Invoke, TypeOK
  <2> QED
      BY <1>1, <1>2, <2>1 DEF Invoke, Handable, Bound
<1>3. CASE OutputRejected
  <2>1. Len(calls) > 0 /\ cur.made = Len(calls) /\ pc = "post" /\ pc' # "post"
        /\ calls' = calls /\ rejected' = rejected \cup {cur.made}
      BY <1>1, <1>3 DEF OutputRejected, Completes, Place
  <2> QED
      BY <1>1, <2>1 DEF Handable, Bound
<1>4. CASE UNCHANGED <<calls, rejected>> /\ pc' # "post"
    BY <1>1, <1>4 DEF Handable, Bound
<1>5. CASE UNCHANGED vars
    BY <1>1, <1>5 DEF vars, Handable, Bound
<1>6. CASE CacheHit
    BY <1>4, <1>6 DEF CacheHit, Completes
<1>7. CASE StepBegins \/ StepPrefails \/ PromptRejected \/ PromptAllowed \/ CacheMiss
    BY <1>4, <1>7 DEF StepBegins, StepPrefails, PromptRejected, PromptAllowed, CacheMiss, Completes
<1>8. CASE OutputAccepted \/ GenerationFailed
    BY <1>4, <1>8 DEF OutputAccepted, GenerationFailed, Completes
<1>9. CASE Record \/ Raises \/ Finalize \/ NextRound
    BY <1>4, <1>9 DEF Record, Raises, Finalize, NextRound
<1> QED
    BY <1>2, <1>3, <1>5, <1>6, <1>7, <1>8, <1>9 DEF Next, Done

(* One more result. *)
LEMMA OneMoreResult ==
  ASSUME Shape, [Next]_vars, pos <= N, NEW r \in StepResult, Completes(r),
         r.made <= Bound', r.status = "SUCCEEDED" => r.made \in Handable'
  PROVE  /\ results' \in Seq(StepResult) /\ Len(results') <= N /\ Len(results') > 0
         /\ \A i \in 1..Len(results') :
              /\ results'[i].made <= Bound'
              /\ results'[i].status = "SUCCEEDED" => results'[i].made \in Handable'
<1>1. TypeOK /\ Handed /\ results \in Seq(StepResult) /\ results' = Append(results, r)
    BY DEF Shape, TypeOK, Completes
<1>2. /\ Len(results') = Len(results) + 1 /\ Len(results) \in Nat
      /\ \A i \in 1..Len(results) : results'[i] = results[i]
      /\ results'[Len(results) + 1] = r /\ results' \in Seq(StepResult)
    BY <1>1, Appended
<1>3. Len(results') <= N
    BY <1>2, RunAssumption DEF pos
<1>4. \A i \in 1..Len(results) : results[i].made <= Bound' /\ results[i].made \in Nat
  <2>1. \A i \in 1..Len(results) : results[i].made <= Bound /\ results[i].made \in Nat
      BY <1>1, Counts DEF Handed, StepResult
  <2> QED
      BY <2>1, HandableGrows
<1> QED
    BY <1>1, <1>2, <1>3, <1>4, HandableGrows DEF Handed

(* A provider is called: with the next model again, or for the last time. *)
LEMMA Invoked ==
  ASSUME Shape, Invoke
  PROVE  /\ calls' \in Seq(ProviderCall) /\ Len(calls') = Len(calls) + 1
         /\ \A n \in 1..Len(calls) : calls'[n] = calls[n]
         /\ LET made == calls'[Len(calls) + 1]
            IN  /\ made.round = round /\ made.pos = pos /\ made.key = cur.key
                /\ \/ /\ pc' = "invoke" /\ made.outcome \notin Good
                      /\ cur.tried + 1 <= Len(plan[pos].fallbacks)
                      /\ cur'.key = KeyOf(pos, cur.tried + 1, cur.key.inputs, FALSE)
                      /\ cur'.tried = cur.tried + 1 /\ cur'.made = 0
                      /\ cur'.ledger = Append(cur.ledger, Len(calls) + 1)
                   \/ /\ pc' = "post" /\ cur'.key = [cur.key EXCEPT !.recorded = RecordsParams]
                      /\ cur'.made = Len(calls) + 1
                      /\ cur'.tried = cur.tried /\ cur'.ledger = cur.ledger
         /\ cur' \in [key : Key, tried : Nat, ledger : Seq(Nat), made : Nat]
         /\ cur'.tried <= Len(plan[pos].fallbacks)
<1> DEFINE n == Len(calls) + 1
<1>1. /\ TypeOK /\ Place /\ calls \in Seq(ProviderCall) /\ Len(calls) \in Nat /\ pc = "invoke"
      /\ cur \in [key : Key \cup {<<>>}, tried : Nat, ledger : Seq(Nat), made : Nat]
      /\ round \in 1..Rounds
    BY Counts DEF Shape, TypeOK, Invoke
<1>2. cur.key \in Key /\ pos \in Steps /\ cur.tried <= Len(plan[pos].fallbacks)
    BY <1>1, Counts DEF Place, Working
<1>3. cur \in [key : Key, tried : Nat, ledger : Seq(Nat), made : Nat]
    BY <1>1, <1>2
<1>4. cur.ledger \in Seq(Nat) /\ cur.tried \in Nat /\ n \in Nat /\ cur.key.inputs \in Seq(Nat)
    BY <1>1, <1>2 DEF Key
<1>5. PICK outcome \in Outcomes :
        LET again == TriesNext(cur.tried, outcome)
        IN  /\ calls' = Append(calls, [round |-> round, pos |-> pos, key |-> cur.key,
                                       outcome |-> outcome])
            /\ pc' = IF again THEN "invoke" ELSE "post"
            /\ cur' = IF again
                      THEN [key |-> KeyOf(pos, cur.tried + 1, cur.key.inputs, FALSE),
                            tried |-> cur.tried + 1,
                            ledger |-> Ledger(cur.ledger, n),
                            made |-> 0]
                      ELSE [cur EXCEPT !.key = [cur.key EXCEPT !.recorded = RecordsParams],
                                       !.made = n]
    BY DEF Invoke
<1> DEFINE made == [round |-> round, pos |-> pos, key |-> cur.key, outcome |-> outcome]
<1>6. made \in ProviderCall
    BY <1>1, <1>2 DEF ProviderCall
<1>7. /\ calls' \in Seq(ProviderCall) /\ Len(calls') = n
      /\ \A m \in 1..Len(calls) : calls'[m] = calls[m]
      /\ calls'[n] = made
    BY <1>1, <1>5, <1>6, Appended
<1>8. CASE TriesNext(cur.tried, outcome)
  <2> DEFINE t == cur.tried + 1
             key == KeyOf(pos, t, cur.key.inputs, FALSE)
             ledger == Append(cur.ledger, n)
  <2>1. t \in Nat /\ t <= Len(plan[pos].fallbacks) /\ outcome \notin Good
    <3>1. plan[pos].fallbacks \in Seq(STRING)
        BY <1>1, <1>2, PlanType
    <3> QED
        BY <1>4, <1>8, <3>1 DEF TriesNext
  <2>2. pc' = "invoke" /\ cur' = [key |-> key, tried |-> t, ledger |-> ledger, made |-> 0]
      BY <1>5, <1>8 DEF Ledger
  <2> HIDE DEF t
  <2>3. key \in Key
      BY <1>1, <1>2, <1>4, <2>1, KeyType
  <2>4. ledger \in Seq(Nat)
      BY <1>4
  <2> HIDE DEF key, ledger
  <2>5. /\ cur' \in [key : Key, tried : Nat, ledger : Seq(Nat), made : Nat]
        /\ cur'.key = key /\ cur'.tried = t /\ cur'.ledger = ledger /\ cur'.made = 0
      BY <2>1, <2>2, <2>3, <2>4
  <2> QED
    <3>1. /\ calls'[n].round = round /\ calls'[n].pos = pos /\ calls'[n].key = cur.key
          /\ calls'[n].outcome \notin Good /\ cur'.tried <= Len(plan[pos].fallbacks)
        BY <1>7, <2>1, <2>5
    <3>2. /\ cur'.key = KeyOf(pos, cur.tried + 1, cur.key.inputs, FALSE)
          /\ cur'.ledger = Append(cur.ledger, Len(calls) + 1)
          /\ cur'.tried = cur.tried + 1 /\ cur.tried + 1 <= Len(plan[pos].fallbacks)
        BY <2>1, <2>5 DEF t, key, ledger
    <3> QED
        BY <1>7, <2>2, <2>5, <3>1, <3>2
<1>9. CASE ~TriesNext(cur.tried, outcome)
  <2> DEFINE key == [cur.key EXCEPT !.recorded = RecordsParams]
  <2>1. key \in Key
      BY <1>2, RunAssumption DEF Key
  <2>2. pc' = "post" /\ cur' = [cur EXCEPT !.key = key, !.made = n]
      BY <1>5, <1>9
  <2> HIDE DEF key
  <2>3. /\ cur' \in [key : Key, tried : Nat, ledger : Seq(Nat), made : Nat]
        /\ cur'.key = key /\ cur'.tried = cur.tried /\ cur'.ledger = cur.ledger /\ cur'.made = n
      BY <1>3, <1>4, <2>1, <2>2
  <2> QED
    <3>1. /\ calls'[n].round = round /\ calls'[n].pos = pos /\ calls'[n].key = cur.key
          /\ cur'.tried <= Len(plan[pos].fallbacks)
        BY <1>2, <1>7, <2>3
    <3>2. cur'.key = [cur.key EXCEPT !.recorded = RecordsParams]
        BY <2>3 DEF key
    <3> QED
        BY <1>7, <2>2, <2>3, <3>1, <3>2
<1> QED
    BY <1>8, <1>9

(* What is returned of the call that was just made. *)
LEMMA ResultType ==
  ASSUME Shape, pc = "post", NEW status \in Statuses
  PROVE  /\ Result(status) \in StepResult
         /\ Result(status).made = Len(calls) /\ Result(status).status = status
         /\ Result(status).ledger = cur.ledger
<1>1. TypeOK /\ cur.made = Len(calls)
    BY DEF Shape, Place
<1>2. cur.made \in Nat /\ cur.ledger \in Seq(Nat)
    BY <1>1, Counts
<1> QED
    BY <1>1, <1>2 DEF Result, StepResult

(* A result: a failure, an entry of the cache, or of the call just made. *)
LEMMA Completed ==
  ASSUME Shape, NEW r, Completes(r),
         \/ pc \in {"loop", "moderate"} /\ pos <= N /\ r = Fails /\ UNCHANGED <<calls, rejected>>
         \/ /\ pc = "lookup" /\ UNCHANGED <<calls, rejected>>
            /\ \E e \in cache : r = [status |-> "SUCCEEDED", made |-> e.made, ledger |-> e.ledger]
         \/ pc = "post" /\ r = Result("FAILED")
         \/ pc = "post" /\ r = Result("SUCCEEDED") /\ UNCHANGED <<calls, rejected>>
  PROVE  pos <= N /\ r \in StepResult /\ r.made <= Len(calls)
<1>1. TypeOK /\ Place /\ Handed
    BY DEF Shape
<1>2. pos <= N
    BY <1>1 DEF Place, Working
<1>3. CASE r = Fails
  <2>1. <<>> \in Seq(Nat) /\ "FAILED" \in Statuses
      BY DEF Statuses
  <2> QED
      BY <1>1, <1>2, <1>3, <2>1, Counts DEF Fails, StepResult
<1>4. CASE pc = "lookup"
  <2>1. PICK e \in cache : r = [status |-> "SUCCEEDED", made |-> e.made, ledger |-> e.ledger]
      BY <1>4
  <2>2. e.made \in Nat /\ e.ledger = <<>> /\ e.made \in Handable
      BY <1>1 DEF TypeOK, CacheEntry, Handed
  <2>3. <<>> \in Seq(Nat) /\ "SUCCEEDED" \in Statuses
      BY DEF Statuses
  <2> QED
      BY <1>1, <1>2, <1>4, <2>1, <2>2, <2>3, Counts DEF StepResult, Handable, Bound
<1>5. CASE pc = "post"
  <2>1. "FAILED" \in Statuses /\ "SUCCEEDED" \in Statuses
      BY DEF Statuses
  <2> QED
      BY <1>1, <1>2, <1>5, <2>1, ResultType, Counts
<1> QED
    BY <1>3, <1>4, <1>5

(* Idle is a step being executed, as far as its type goes. *)
LEMMA IdleType ==
  Idle \in [key : Key \cup {<<>>}, tried : Nat, ledger : Seq(Nat), made : Nat]
<1>1. <<>> \in Seq(Nat)
    OBVIOUS
<1> QED
    BY <1>1 DEF Idle

(* A step is announced, or its status. *)
LEMMA ReportedType ==
  ASSUME TypeOK, NEW i \in Steps, NEW s \in {"none", "started"} \cup Statuses,
         reported' = [reported EXCEPT ![round][i] = s]
  PROVE  /\ reported' \in [1..Rounds -> [Steps -> {"none", "started"} \cup Statuses]]
         /\ reported'[round][i] = s
         /\ \A r \in 1..Rounds, j \in Steps :
              r # round \/ j # i => reported'[r][j] = reported[r][j]
BY DEF TypeOK

(* The step is begun with the key of its first model. *)
LEMMA Begun ==
  ASSUME Shape, StepBegins
  PROVE  /\ pos \in Steps /\ pos <= N /\ pc = "loop"
         /\ cur' \in [key : Key, tried : Nat, ledger : Seq(Nat), made : Nat]
         /\ cur'.key = KeyOf(pos, 0, Inputs(pos), FALSE)
         /\ cur'.key.inputs = Inputs(pos) /\ cur'.key.recorded = FALSE
         /\ cur'.tried = 0 /\ cur'.ledger = <<>>
<1>1. TypeOK /\ pos \in Steps /\ pc = "loop" /\ pos <= N
  <2>1. TypeOK /\ pc = "loop" /\ ~(pos > N)
      BY DEF Shape, StepBegins, Over
  <2> QED
      BY <2>1, Counts
<1>2. Inputs(pos) \in Seq(Nat)
    BY <1>1, InputsHanded DEF StepBegins
<1>3. 0 \in Nat /\ 0 <= Len(plan[pos].fallbacks) /\ <<>> \in Seq(Nat)
    BY <1>1, PlanType
<1> DEFINE key == KeyOf(pos, 0, Inputs(pos), FALSE)
<1>4. key \in Key /\ key.inputs = Inputs(pos) /\ key.recorded = FALSE
    BY <1>1, <1>2, <1>3, KeyType
<1>5. cur' = [Idle EXCEPT !.key = key]
    BY DEF StepBegins
<1> HIDE DEF key
<1>6. /\ cur' \in [key : Key, tried : Nat, ledger : Seq(Nat), made : Nat]
      /\ cur'.key = key /\ cur'.tried = 0 /\ cur'.ledger = <<>>
    BY <1>3, <1>4, <1>5 DEF Idle
<1> QED
    BY <1>1, <1>4, <1>6 DEF key

(* Every step keeps the type. *)
LEMMA TypeKept == ASSUME Shape, [Next]_vars PROVE TypeOK'
<1>1. TypeOK /\ Place /\ Handed
    BY DEF Shape
<1>2. CASE StepBegins
  <2>1. cur' \in [key : Key \cup {<<>>}, tried : Nat, ledger : Seq(Nat), made : Nat]
      BY <1>2, Begun
  <2>2. reported' \in [1..Rounds -> [Steps -> {"none", "started"} \cup Statuses]]
      BY <1>1, <1>2, Begun, ReportedType DEF StepBegins
  <2> QED
      BY <1>1, <1>2, <2>1, <2>2 DEF StepBegins, TypeOK
<1>3. ASSUME NEW r \in StepResult, Completes(r), pos <= N,
             UNCHANGED <<pipe, round, cur, prev, calls, end>>,
             cache' \subseteq CacheEntry, rejected' \subseteq Nat,
             reported' \in [1..Rounds -> [Steps -> {"none", "started"} \cup Statuses]]
      PROVE  TypeOK'
  <2>1. results' \in Seq(StepResult) /\ Len(results') <= N
    <3>1. results \in Seq(StepResult) /\ results' = Append(results, r) /\ Len(results) + 1 <= N
        BY <1>1, <1>3 DEF TypeOK, Completes, pos
    <3> QED
        BY <3>1, Appended
  <2> QED
      BY <1>1, <1>3, <2>1 DEF TypeOK, Completes
<1>4. CASE StepPrefails
  <2>1. pos \in Steps /\ pos <= N
    <3>1. ~(pos > N)
        BY <1>4 DEF StepPrefails, Over
    <3> QED
        BY <1>1, <3>1, Counts
  <2>2. reported' \in [1..Rounds -> [Steps -> {"none", "started"} \cup Statuses]]
      BY <1>1, <1>4, <2>1, ReportedType DEF StepPrefails
  <2>3. /\ Completes(Fails) /\ pc = "loop"
        /\ UNCHANGED <<pipe, round, cur, prev, calls, cache, rejected, end>>
      BY <1>4 DEF StepPrefails, Completes
  <2>4. Fails \in StepResult
      BY <2>1, <2>3, Completed
  <2> QED
      BY <1>1, <1>3, <2>1, <2>2, <2>3, <2>4 DEF TypeOK
<1>5. CASE PromptRejected
  <2>1. /\ Completes(Fails) /\ pc = "moderate"
        /\ UNCHANGED <<pipe, round, cur, prev, calls, cache, rejected, reported, end>>
      BY <1>5 DEF PromptRejected
  <2>2. Fails \in StepResult /\ pos <= N
      BY <1>1, <2>1, Completed DEF Place, Working
  <2> QED
      BY <1>1, <1>3, <2>1, <2>2 DEF TypeOK
<1>6. CASE CacheHit
  <2>1. PICK e \in cache :
          Completes([status |-> "SUCCEEDED", made |-> e.made, ledger |-> e.ledger])
      BY <1>6 DEF CacheHit
  <2> DEFINE r == [status |-> "SUCCEEDED", made |-> e.made, ledger |-> e.ledger]
  <2>2. pc = "lookup" /\ UNCHANGED <<pipe, round, cur, prev, calls, cache, rejected, reported, end>>
      BY <1>6 DEF CacheHit
  <2>3. r \in StepResult /\ pos <= N
      BY <2>1, <2>2, Completed
  <2> HIDE DEF r
  <2>4. Completes(r)
      BY <2>1 DEF r
  <2> QED
      BY <1>1, <1>3, <2>2, <2>3, <2>4 DEF TypeOK
<1>7. CASE OutputRejected \/ OutputAccepted \/ GenerationFailed
  <2>1. /\ pc = "post" /\ pos <= N /\ cur.made \in Nat /\ cur.key \in Key
        /\ UNCHANGED <<pipe, round, cur, prev, calls, reported, end>>
    <3>1. pc = "post" /\ UNCHANGED <<pipe, round, cur, prev, calls, reported, end>>
        BY <1>7 DEF OutputRejected, OutputAccepted, GenerationFailed
    <3> QED
        BY <1>1, <3>1, Counts DEF Place, Working
  <2>2. \E s \in Statuses : Completes(Result(s))
      BY <1>7 DEF OutputRejected, OutputAccepted, GenerationFailed, Statuses
  <2>3. Entry \in CacheEntry
      BY <2>1 DEF Entry, CacheKey, CacheEntry
  <2>4. cache' \subseteq CacheEntry /\ rejected' \subseteq Nat
      BY <1>1, <1>7, <2>1, <2>3 DEF OutputRejected, OutputAccepted, GenerationFailed, TypeOK
  <2>5. \A s \in Statuses : Result(s) \in StepResult
      BY <2>1, ResultType
  <2> QED
      BY <1>1, <1>3, <2>1, <2>2, <2>4, <2>5 DEF TypeOK
<1>8. CASE Invoke
  <2>1. /\ cur' \in [key : Key \cup {<<>>}, tried : Nat, ledger : Seq(Nat), made : Nat]
        /\ calls' \in Seq(ProviderCall) /\ pc' \in {"invoke", "post"}
      BY <1>8, Invoked
  <2> QED
      BY <1>1, <1>8, <2>1 DEF Invoke, TypeOK
<1>9. CASE Record
  <2> DEFINE i == Len(results)
  <2>1. i \in Steps /\ i \in 1..Len(results) /\ results[i] \in StepResult
      BY <1>1, <1>9, Counts DEF Record, Place
  <2>2. reported' \in [1..Rounds -> [Steps -> {"none", "started"} \cup Statuses]]
      BY <1>1, <1>9, <2>1, ReportedType DEF Record, StepResult
  <2>3. prev' \in Seq(Nat)
      BY <1>1, <1>9, <2>1 DEF Record, PrevAssets, AssetsOf, StepResult, TypeOK
  <2> QED
      BY <1>1, <1>9, <2>2, <2>3, IdleType DEF Record, TypeOK
<1>10. CASE Raises
    BY <1>1, <1>10, IdleType DEF Raises, TypeOK
<1>11. CASE Finalize
    BY <1>1, <1>11 DEF Finalize, RunStatus, TypeOK
<1>12. CASE NextRound
  <2>1. round + 1 \in 1..Rounds
      BY <1>1, <1>12, RunAssumption DEF NextRound, TypeOK
  <2>2. <<>> \in Seq(StepResult) /\ <<>> \in Seq(Nat) /\ Len(<<>>) <= N
      BY RunAssumption
  <2> QED
      BY <1>1, <1>12, <2>1, <2>2 DEF NextRound, TypeOK
<1>13. CASE PromptAllowed \/ CacheMiss
    BY <1>1, <1>13 DEF PromptAllowed, CacheMiss, TypeOK
<1>14. CASE UNCHANGED vars
    BY <1>1, <1>14 DEF vars, TypeOK
<1> QED
    BY <1>2, <1>4, <1>5, <1>6, <1>7, <1>8, <1>9, <1>10, <1>11, <1>12, <1>13, <1>14
    DEF Next, Done

(* So it does what the place in the loop says of the step. *)
LEMMA PlaceKept == ASSUME Shape, [Next]_vars PROVE Place'
<1>1. TypeOK /\ Place /\ Handed
    BY DEF Shape
<1>2. CASE StepBegins
  <2>1. /\ pc' = "moderate" /\ pos' = pos /\ plan' = plan /\ UNCHANGED <<results, calls>>
        /\ pos \in Steps
      BY <1>2, Begun DEF StepBegins, pos, plan
  <2>2. plan[pos].fallbacks \in Seq(STRING) /\ 0 <= Len(plan[pos].fallbacks)
      BY <1>1, <2>1, PlanType
  <2>3. cur'.tried = 0 /\ cur'.ledger = <<>> /\ cur'.key \in Key /\ cur'.key.recorded = FALSE
      BY <1>2, Begun
  <2> QED
      BY <2>1, <2>2, <2>3 DEF Place, Working, Steps
<1>3. ASSUME NEW r, Completes(r), r \in StepResult PROVE Place'
  <2>1. results' = Append(results, r) /\ results \in Seq(StepResult) /\ pc' = "record"
      BY <1>1, <1>3 DEF Completes, TypeOK
  <2>2. Len(results') > 0
      BY <1>3, <2>1, Appended
  <2> QED
      BY <2>1, <2>2 DEF Place, Working
<1>4. CASE StepPrefails \/ PromptRejected
  <2>1. pos <= N /\ Completes(Fails) /\ pc \in {"loop", "moderate"} /\ UNCHANGED <<calls, rejected>>
    <3>1. CASE StepPrefails
      <4>1. ~(pos > N)
          BY <3>1 DEF StepPrefails, Over
      <4> QED
          BY <1>1, <3>1, <4>1, Counts DEF StepPrefails, Completes
    <3>2. CASE PromptRejected
        BY <1>1, <3>2 DEF PromptRejected, Place, Working
    <3> QED
        BY <1>4, <3>1, <3>2
  <2> QED
      BY <1>3, <2>1, Completed
<1>5. CASE CacheHit
  <2>1. PICK e \in cache :
          Completes([status |-> "SUCCEEDED", made |-> e.made, ledger |-> e.ledger])
      BY <1>5 DEF CacheHit
  <2> DEFINE r == [status |-> "SUCCEEDED", made |-> e.made, ledger |-> e.ledger]
  <2>2. r \in StepResult
      BY <1>5, <2>1, Completed DEF CacheHit
  <2> QED
      BY <1>3, <2>1, <2>2
<1>6. CASE OutputRejected \/ OutputAccepted \/ GenerationFailed
  <2>1. pc = "post" /\ \E s \in Statuses : Completes(Result(s))
      BY <1>6 DEF OutputRejected, OutputAccepted, GenerationFailed, Statuses
  <2> QED
      BY <1>3, <2>1, ResultType
<1>7. CASE Invoke
  <2>1. /\ pos' = pos /\ plan' = plan /\ pos <= N /\ UNCHANGED <<results, pipe>>
        /\ cur.key \in Key /\ cur.tried \in Nat /\ cur.key.inputs \in Seq(Nat) /\ pos \in Steps
        /\ cur.key.recorded = FALSE
      BY <1>1, <1>7, Counts DEF Invoke, pos, plan, Place, Working, Key
  <2>2. cur'.key \in Key /\ cur'.tried <= Len(plan[pos].fallbacks)
      BY <1>7, Invoked
  <2>3. CASE pc' = "invoke"
    <3>1. /\ cur'.key = KeyOf(pos, cur.tried + 1, cur.key.inputs, FALSE)
        BY <1>7, <2>3, Invoked
    <3>2. cur'.key.recorded = FALSE
        BY <3>1 DEF KeyOf
    <3> QED
        BY <2>1, <2>2, <2>3, <3>2 DEF Place, Working
  <2>4. CASE pc' = "post"
    <3>1. /\ cur'.key = [cur.key EXCEPT !.recorded = RecordsParams]
          /\ cur'.made = Len(calls) + 1 /\ Len(calls') = Len(calls) + 1 /\ Len(calls) \in Nat
        BY <1>1, <1>7, <2>4, Invoked, Counts
    <3>2. cur'.key.recorded = RecordsParams
        BY <2>1, <3>1 DEF Key
    <3> QED
        BY <2>1, <2>2, <2>4, <3>1, <3>2 DEF Place, Working
  <2> QED
      BY <1>7, <2>3, <2>4, Invoked
<1>8. CASE Record \/ Raises
    BY <1>8 DEF Record, Raises, Place, Working
<1>9. CASE Finalize \/ NextRound
    BY <1>1, <1>9 DEF Finalize, NextRound, Place, Working
<1>10. CASE PromptAllowed \/ CacheMiss
    BY <1>1, <1>10 DEF PromptAllowed, CacheMiss, Place, Working, pos, plan
<1>11. CASE UNCHANGED vars
    BY <1>1, <1>11 DEF vars, Place, Working, pos, plan
<1> QED
    BY <1>2, <1>4, <1>5, <1>6, <1>7, <1>8, <1>9, <1>10, <1>11 DEF Next, Done

(* Every step keeps what is handed on out of moderation's reach. *)
LEMMA HandedKept == ASSUME Shape, [Next]_vars PROVE Handed'
<1>1. TypeOK /\ Place /\ Handed /\ TypeOK' /\ Place'
    BY TypeKept, PlaceKept DEF Shape
<1>2. Handable \subseteq Handable' /\ Bound \in Nat /\ Bound' \in Nat /\ Bound <= Bound'
    BY HandableGrows
<1>3. rejected' \subseteq 1..Bound'
  <2>1. CASE OutputRejected
    <3>1. /\ rejected' = rejected \cup {Len(calls)} /\ Len(calls) \in Nat /\ Len(calls) > 0
          /\ calls' = calls /\ pc' = "record" /\ Bound' = Len(calls)
        BY <1>1, <2>1, Counts DEF OutputRejected, Completes, Place, Bound
    <3>2. \A x \in rejected : x \in 1..Bound'
        BY <1>1, <1>2 DEF Handed
    <3>3. Len(calls) \in 1..Bound'
        BY <3>1
    <3> QED
        BY <3>1, <3>2, <3>3
  <2>2. CASE rejected' = rejected
      BY <1>1, <1>2, <2>2 DEF Handed
  <2> QED
      BY <2>1, <2>2
      DEF Next, vars, StepBegins, StepPrefails, PromptRejected, PromptAllowed, CacheHit,
          CacheMiss, Invoke, OutputAccepted, GenerationFailed, Record, Raises, Finalize,
          NextRound, Done
<1>4. \A i \in 1..Len(results') :
        /\ results'[i].made <= Bound'
        /\ results'[i].status = "SUCCEEDED" => results'[i].made \in Handable'
  <2>1. CASE results' = results
    <3>1. \A i \in 1..Len(results) : results[i].made \in Nat
        BY <1>1, Counts DEF StepResult
    <3> QED
        BY <1>1, <1>2, <2>1, <3>1 DEF Handed
  <2>2. CASE StepPrefails \/ PromptRejected
    <3>1. /\ pos <= N /\ Completes(Fails) /\ pc \in {"loop", "moderate"}
          /\ UNCHANGED <<calls, rejected>>
      <4>1. CASE StepPrefails
        <5>1. ~(pos > N)
            BY <4>1 DEF StepPrefails, Over
        <5> QED
            BY <1>1, <4>1, <5>1, Counts DEF StepPrefails, Completes
      <4>2. CASE PromptRejected
          BY <1>1, <4>2 DEF PromptRejected, Place, Working
      <4> QED
          BY <2>2, <4>1, <4>2
    <3>2. Fails \in StepResult /\ Fails.made <= Bound' /\ Fails.status # "SUCCEEDED"
        BY <1>2, <3>1, Completed DEF Fails
    <3> QED
        BY <3>1, <3>2, OneMoreResult
  <2>3. CASE CacheHit
    <3>1. PICK e \in cache :
            Completes([status |-> "SUCCEEDED", made |-> e.made, ledger |-> e.ledger])
        BY <2>3 DEF CacheHit
    <3> DEFINE r == [status |-> "SUCCEEDED", made |-> e.made, ledger |-> e.ledger]
    <3>2. r \in StepResult /\ pos <= N /\ Completes(r)
        BY <2>3, <3>1, Completed DEF CacheHit
    <3>3. r.made \in Handable'
        BY <1>1, <1>2 DEF Handed
    <3>4. r.made <= Bound'
        BY <1>2, <3>3 DEF Handable
    <3> HIDE DEF r
    <3> QED
        BY <3>2, <3>3, <3>4, OneMoreResult
  <2>4. CASE OutputRejected \/ OutputAccepted \/ GenerationFailed
    <3>1. /\ pc = "post" /\ pos <= N /\ Len(calls) \in Nat \ {0} /\ Bound' = Len(calls)
        BY <1>1, <2>4, Counts
        DEF OutputRejected, OutputAccepted, GenerationFailed, Completes, Place, Working, Bound
    <3>2. CASE OutputRejected \/ GenerationFailed
      <4>1. Completes(Result("FAILED")) /\ "FAILED" \in Statuses
          BY <3>2 DEF OutputRejected, GenerationFailed, Statuses
      <4>2. Result("FAILED") \in StepResult /\ Result("FAILED").made <= Bound'
              /\ Result("FAILED").status # "SUCCEEDED"
          BY <3>1, <4>1, ResultType
      <4> QED
          BY <3>1, <4>1, <4>2, OneMoreResult
    <3>3. CASE OutputAccepted
      <4>1. Completes(Result("SUCCEEDED")) /\ "SUCCEEDED" \in Statuses /\ rejected' = rejected
          BY <3>3 DEF OutputAccepted, Statuses
      <4>2. Result("SUCCEEDED") \in StepResult /\ Result("SUCCEEDED").made = Len(calls)
          BY <3>1, <4>1, ResultType
      <4>3. Len(calls) \notin rejected
          BY <1>1, <3>1 DEF Handed, Bound
      <4>4. Result("SUCCEEDED").made \in Handable' /\ Result("SUCCEEDED").made <= Bound'
          BY <3>1, <4>1, <4>2, <4>3 DEF Handable
      <4> QED
          BY <3>1, <4>1, <4>2, <4>4, OneMoreResult
    <3> QED
        BY <2>4, <3>2, <3>3
  <2>5. CASE results' = <<>>
      BY <2>5
  <2> QED
      BY <2>1, <2>2, <2>3, <2>4, <2>5
      DEF Next, vars, StepBegins, PromptAllowed, CacheMiss, Invoke, Record, Raises, Finalize,
          NextRound, Done
<1>5. \A j \in 1..Len(prev') : prev'[j] \in Handable'
  <2>1. CASE Record
    <3> DEFINE i == Len(results)
    <3>1. i \in 1..Len(results)
        BY <1>1, <2>1, Counts DEF Record, Place
    <3>2. CASE prev' = <<results[i].made>> /\ results[i].status = "SUCCEEDED"
        BY <1>1, <1>2, <3>1, <3>2 DEF Handed
    <3>3. CASE prev' = <<>>
        BY <3>3
    <3>4. CASE prev' = prev
        BY <1>1, <1>2, <3>4 DEF Handed
    <3> QED
        BY <2>1, <3>2, <3>3, <3>4 DEF Record, PrevAssets, AssetsOf
  <2>2. CASE prev' = prev
      BY <1>1, <1>2, <2>2 DEF Handed
  <2>3. CASE prev' = <<>>
      BY <2>3
  <2> QED
      BY <2>1, <2>2, <2>3
      DEF Next, vars, StepBegins, StepPrefails, PromptRejected, PromptAllowed, CacheHit,
          CacheMiss, Invoke, OutputRejected, OutputAccepted, GenerationFailed, Raises,
          Finalize, NextRound, Done
<1>6. Working' => \A j \in 1..Len(cur'.key.inputs) : cur'.key.inputs[j] \in Handable'
  <2>1. CASE StepBegins
    <3>1. cur'.key.inputs = Inputs(pos) /\ pos <= N /\ pc = "loop"
        BY <2>1, Begun
    <3> QED
        BY <1>2, <2>1, <3>1, InputsHanded DEF StepBegins
  <2>2. CASE Working /\ cur'.key.inputs = cur.key.inputs
      BY <1>1, <1>2, <2>2 DEF Handed
  <2>3. CASE Invoke
    <3>1. Working /\ cur.key \in Key
        BY <1>1, <2>3 DEF Invoke, Place, Working
    <3>2. CASE cur'.key = KeyOf(pos, cur.tried + 1, cur.key.inputs, FALSE)
        BY <2>2, <3>1, <3>2 DEF KeyOf
    <3>3. CASE cur'.key = [cur.key EXCEPT !.recorded = RecordsParams]
        BY <2>2, <3>1, <3>3 DEF Key
    <3> QED
        BY <2>3, <3>2, <3>3, Invoked
  <2>4. CASE ~Working'
      BY <2>4
  <2>5. CASE PromptAllowed \/ CacheMiss \/ UNCHANGED vars
      BY <2>2, <2>4, <2>5 DEF PromptAllowed, CacheMiss, Working, vars
  <2> QED
      BY <2>1, <2>3, <2>4, <2>5
      DEF Next, StepPrefails, PromptRejected, CacheHit, OutputRejected, OutputAccepted,
          GenerationFailed, Record, Raises, Finalize, NextRound, Done, Completes, Working
<1>7. \A n \in 1..Len(calls') : \A j \in 1..Len(calls'[n].key.inputs) :
        calls'[n].key.inputs[j] \in (1..(n - 1)) \ rejected'
  <2>1. CASE Invoke
    <3>1. /\ Len(calls) \in Nat /\ Len(calls') = Len(calls) + 1 /\ rejected' = rejected
          /\ \A n \in 1..Len(calls) : calls'[n] = calls[n]
          /\ calls'[Len(calls) + 1].key = cur.key /\ Working /\ Bound = Len(calls)
        BY <1>1, <2>1, Counts, Invoked DEF Invoke, Working, Bound
    <3>2. \A j \in 1..Len(cur.key.inputs) :
            cur.key.inputs[j] \in (1..(Len(calls) + 1 - 1)) \ rejected
        BY <1>1, <3>1 DEF Handed, Handable
    <3> QED
        BY <1>1, <3>1, <3>2 DEF Handed
  <2>2. CASE OutputRejected
    <3>1. /\ rejected' = rejected \cup {Len(calls)} /\ Len(calls) \in Nat /\ calls' = calls
        BY <1>1, <2>2, Counts DEF OutputRejected, Place
    <3> QED
        BY <1>1, <3>1 DEF Handed
  <2>3. CASE UNCHANGED <<calls, rejected>>
      BY <1>1, <2>3 DEF Handed
  <2> QED
      BY <2>1, <2>2, <2>3
      DEF Next, vars, StepBegins, StepPrefails, PromptRejected, PromptAllowed, CacheHit,
          CacheMiss, OutputAccepted, GenerationFailed, Record, Raises, Finalize, NextRound, Done
<1>8. \A e \in cache' : e.made \in Handable'
  <2>1. CASE OutputAccepted
    <3>1. /\ Len(calls) \in Nat \ {0} /\ Bound' = Len(calls) /\ rejected' = rejected
          /\ Len(calls) \notin rejected /\ Entry.made = Len(calls)
        BY <1>1, <2>1, Counts DEF OutputAccepted, Completes, Place, Handed, Bound, Entry
    <3> QED
        BY <1>1, <1>2, <2>1, <3>1 DEF OutputAccepted, Handed, Handable
  <2>2. CASE cache' = cache
      BY <1>1, <1>2, <2>2 DEF Handed
  <2> QED
      BY <2>1, <2>2
      DEF Next, vars, StepBegins, StepPrefails, PromptRejected, PromptAllowed, CacheHit,
          CacheMiss, Invoke, OutputRejected, GenerationFailed, Record, Raises, Finalize,
          NextRound, Done
<1> QED
    BY <1>3, <1>4, <1>5, <1>6, <1>7, <1>8 DEF Handed

(* The first run starts so. *)
LEMMA ShapeInitially == Init => Shape
<1> SUFFICES ASSUME Init PROVE Shape
    OBVIOUS
<1>1. /\ \A T : <<>> \in Seq(T)
      /\ Len(<<>>) = 0
    OBVIOUS
<1>2. TypeOK
    BY <1>1, RunAssumption, IdleType DEF Init, TypeOK
<1>3. Place
    BY DEF Init, Place, Working
<1>4. Handed
    BY DEF Init, Handed, Working
<1> QED
    BY <1>2, <1>3, <1>4 DEF Shape

(* Every step keeps the shape. *)
LEMMA ShapeKept == ASSUME Shape, [Next]_vars PROVE Shape'
BY TypeKept, PlaceKept, HandedKept DEF Shape

(* The shape of the state is an invariant. *)
THEOREM ShapeInvariance == Spec => []Shape
<1>1. Shape /\ [Next]_vars => Shape'
    BY ShapeKept
<1> QED
    BY <1>1, ShapeInitially, PTL DEF Spec

(* The variables have their types, for any pipelines and rounds. *)
THEOREM TypeCorrect == Spec => []TypeOK
<1>1. Shape => TypeOK
    BY DEF Shape
<1> QED
    BY <1>1, ShapeInvariance, PTL

(* An output that moderation rejected is returned by no step as a success  *)
(* and given to none, in this run and in every later one, cached or not.   *)
THEOREM RejectedNeverReturns == Spec => []RejectedStaysOut
<1>1. Shape => RejectedStaysOut
  <2> SUFFICES ASSUME Shape PROVE RejectedStaysOut
      OBVIOUS
  <2>1. \A i \in 1..Len(results) : results[i].status \in Statuses
      BY Counts DEF Shape, StepResult
  <2> QED
      BY <2>1 DEF Shape, Handed, Handable, Statuses, RejectedStaysOut
<1> QED
    BY <1>1, ShapeInvariance, PTL

-----------------------------------------------------------------------------
(* The second invariant: what was asked for, and what was made. *)

(* Calls are never forgotten, *)
LEMMA CallsGrow ==
  ASSUME Shape, [Next]_vars
  PROVE  /\ Len(calls) \in Nat /\ Len(calls') \in Nat /\ Len(calls) <= Len(calls')
         /\ \A n \in 1..Len(calls) : calls'[n] = calls[n]
<1>1. TypeOK /\ Len(calls) \in Nat
    BY Counts DEF Shape
<1>2. CASE Invoke
    BY <1>1, <1>2, Invoked
<1>3. CASE calls' = calls
    BY <1>1, <1>3
<1> QED
    BY <1>2, <1>3
    DEF Next, vars, StepBegins, StepPrefails, PromptRejected, PromptAllowed, CacheHit,
        CacheMiss, OutputRejected, OutputAccepted, GenerationFailed, Record, Raises, Finalize,
        NextRound, Done

(* nor are the results of a run, while it lasts. *)
LEMMA ResultsGrow ==
  ASSUME Shape, [Next]_vars, ~NextRound
  PROVE  /\ UNCHANGED <<pipe, round>>
         /\ Len(results) \in Nat
         /\ results' = results \/ Len(results') = Len(results) + 1
         /\ \A i \in 1..Len(results) : results'[i] = results[i]
<1>1. TypeOK /\ results \in Seq(StepResult) /\ Len(results) \in Nat
    BY DEF Shape, TypeOK
<1>2. ASSUME NEW r, results' = Append(results, r)
      PROVE  Len(results') = Len(results) + 1 /\ \A i \in 1..Len(results) : results'[i] = results[i]
    BY <1>1, <1>2, Appended
<1>3. CASE CacheHit
    BY <1>1, <1>2, <1>3 DEF CacheHit, Completes
<1>4. CASE StepPrefails \/ PromptRejected
    BY <1>1, <1>2, <1>4 DEF StepPrefails, PromptRejected, Completes
<1>5. CASE OutputRejected \/ OutputAccepted \/ GenerationFailed
    BY <1>1, <1>2, <1>5 DEF OutputRejected, OutputAccepted, GenerationFailed, Completes
<1>6. CASE UNCHANGED <<pipe, round, results>>
    BY <1>1, <1>6
<1> QED
    BY <1>3, <1>4, <1>5, <1>6
    DEF Next, vars, StepBegins, PromptAllowed, CacheMiss, Invoke, Record, Raises, Finalize, Done

(* What a step declares stays what it is while the run goes on. *)
LEMMA DeclaredKept ==
  ASSUME Shape, [Next]_vars, ~NextRound, NEW i \in 1..pos, i <= N, Resolved(i)
  PROVE  Declared(i)' = Declared(i) /\ Resolved(i)' /\ plan' = plan
<1>1. /\ pipe' = pipe /\ plan' = plan /\ Len(results) \in Nat
      /\ \A k \in 1..Len(results) : results'[k] = results[k]
    BY ResultsGrow DEF plan
<1>2. \A k \in 1..Len(results) : results[k].made > 0 =>
        calls'[results[k].made] = calls[results[k].made]
  <2>1. TypeOK /\ Handed /\ Bound <= Len(calls)
      BY Counts DEF Shape, Bound
  <2>2. \A k \in 1..Len(results) : results[k].made \in Nat /\ results[k].made <= Len(calls)
      BY <2>1, Counts, HandableGrows DEF Handed, StepResult
  <2> QED
      BY <2>1, <2>2, CallsGrow
<1>3. Resolved(i)'
    BY <1>1 DEF Resolved
<1>4. i - 1 \in 0..Len(results)
    BY <1>1 DEF pos
<1>5. CASE plan[i].external
    BY <1>1, <1>3, <1>5 DEF Declared
<1>6. CASE ~plan[i].external /\ plan[i].from # <<>>
  <2>1. \A j \in 1..Len(plan[i].from) : results'[plan[i].from[j]] = results[plan[i].from[j]]
    <3> SUFFICES ASSUME NEW j \in 1..Len(plan[i].from)
                 PROVE  results'[plan[i].from[j]] = results[plan[i].from[j]]
        OBVIOUS
    <3>1. plan[i].from[j] \in 1..(i - 1)
        BY <1>6 DEF Resolved
    <3>2. 1..(i - 1) \subseteq 1..Len(results)
        BY <1>1, <1>4
    <3> QED
        BY <1>1, <3>1, <3>2
  <2> QED
      BY <1>1, <1>3, <1>6, <2>1 DEF Declared
<1>7. CASE ~plan[i].external /\ plan[i].from = <<>> /\ i > 1
  <2>1. i - 1 \in 1..Len(results)
      BY <1>4, <1>7
  <2>2. /\ results'[i - 1] = results[i - 1]
        /\ results[i - 1].made > 0 => calls'[results[i - 1].made] = calls[results[i - 1].made]
      BY <1>1, <1>2, <2>1
  <2> QED
      BY <1>1, <1>3, <1>7, <2>2 DEF Declared, AssetsOf
<1>8. CASE ~plan[i].external /\ plan[i].from = <<>> /\ ~(i > 1)
    BY <1>1, <1>3, <1>8 DEF Declared
<1> QED
    BY <1>5, <1>6, <1>7, <1>8

(* What a step is given is what it declares. *)
LEMMA InputsDeclared ==
  ASSUME Shape, Asked, pc = "loop", pos <= N, plan[pos].external \/ Resolvable(pos)
  PROVE  Inputs(pos) = Declared(pos) /\ Resolved(pos)
<1>1. Resolved(pos)
    BY DEF Resolvable, Resolved
<1>2. Len(results) \in Nat /\ results \in Seq(StepResult)
    BY DEF Shape, TypeOK
<1>3. pipe.chain => prev = IF pos > 1 THEN PrevAssets(results[pos - 1]) ELSE <<>>
    BY <1>2 DEF Asked, pos
<1> QED
    BY <1>1, <1>3 DEF Inputs, Declared, PrevAssets

(* A step keeps asking for what its place in the pipeline declares. *)
LEMMA AskedKept == ASSUME Shape, Asked, [Next]_vars PROVE Asked'
<1>1. TypeOK /\ Place /\ Handed
    BY DEF Shape
<1> DEFINE Asks == /\ Resolved(pos)
                   /\ cur.key.prompt = plan[pos].prompt
                   /\ cur.key.model = Models(pos)[cur.tried + 1]
                   /\ cur.key.inputs = Declared(pos)
           Chained == pipe.chain /\ pc # "record" =>
             prev = IF results = <<>> THEN <<>> ELSE PrevAssets(results[Len(results)])
<1>2. Working' => Asks'
  <2>1. CASE StepBegins
    <3>1. UNCHANGED <<pipe, plan, results, calls, pos>>
        BY <2>1 DEF StepBegins, plan, pos
    <3>2. /\ cur'.key = KeyOf(pos, 0, Inputs(pos), FALSE) /\ cur'.tried = 0
          /\ pos \in Steps /\ pos <= N /\ pc = "loop"
        BY <2>1, Begun
    <3>3. Inputs(pos) = Declared(pos) /\ Resolved(pos)
        BY <2>1, <3>2, InputsDeclared DEF StepBegins
    <3>4. Declared(pos)' = Declared(pos) /\ Resolved(pos)' /\ Models(pos)' = Models(pos)
        BY <3>1, <3>3 DEF Declared, AssetsOf, Resolved, Models
    <3>5. cur'.key.prompt = plan[pos].prompt /\ cur'.key.inputs = Declared(pos)
        BY <3>2, <3>3 DEF KeyOf
    <3>6. cur'.key.model = Models(pos)[cur'.tried + 1]
        BY <3>2 DEF KeyOf
    <3> QED
        BY <3>1, <3>4, <3>5, <3>6
  <2>2. CASE PromptAllowed \/ CacheMiss \/ (UNCHANGED vars /\ Working')
    <3>1. UNCHANGED <<pipe, plan, results, calls, pos, cur>> /\ Working
        BY <2>2 DEF PromptAllowed, CacheMiss, vars, plan, pos, Working
    <3>2. Declared(pos)' = Declared(pos) /\ Resolved(pos)' = Resolved(pos)
            /\ Models(pos)' = Models(pos)
        BY <3>1 DEF Declared, AssetsOf, Resolved, Models
    <3> QED
        BY <3>1, <3>2 DEF Asked
  <2>3. CASE Invoke
    <3>1. /\ UNCHANGED <<pipe, plan, results, pos>> /\ Working /\ pos \in Steps
          /\ cur.key \in Key /\ cur.tried \in Nat
        BY <1>1, <2>3, Counts DEF Invoke, plan, pos, Place, Working
    <3>2. /\ Resolved(pos) /\ cur.key.prompt = plan[pos].prompt
          /\ cur.key.model = Models(pos)[cur.tried + 1] /\ cur.key.inputs = Declared(pos)
        BY <3>1 DEF Asked
    <3>3. pos \in 1..pos /\ pos <= N /\ ~NextRound
        BY <2>3, <3>1 DEF Invoke, NextRound, Steps
    <3>4. Declared(pos)' = Declared(pos) /\ Resolved(pos)'
      <4>1. PICK i \in 1..pos : i = pos
          BY <3>3
      <4>2. Declared(i)' = Declared(i) /\ Resolved(i)'
          BY <3>2, <3>3, <4>1, DeclaredKept
      <4> QED
          BY <3>1, <4>1, <4>2 DEF Declared, Resolved
    <3>5. Models(pos)' = Models(pos)
        BY <3>1 DEF Models
    <3>6. CASE cur'.key = KeyOf(pos, cur.tried + 1, cur.key.inputs, FALSE)
               /\ cur'.tried = cur.tried + 1
      <4>1. cur'.key.prompt = plan[pos].prompt /\ cur'.key.inputs = cur.key.inputs
          BY <3>6 DEF KeyOf
      <4>2. cur'.key.model = Models(pos)[cur'.tried + 1]
          BY <3>6 DEF KeyOf
      <4> QED
          BY <3>1, <3>2, <3>4, <3>5, <4>1, <4>2
    <3>7. CASE cur'.key = [cur.key EXCEPT !.recorded = RecordsParams]
               /\ cur'.tried = cur.tried
      <4>1. /\ cur'.key.prompt = cur.key.prompt /\ cur'.key.inputs = cur.key.inputs
            /\ cur'.key.model = cur.key.model
          BY <3>1, <3>7 DEF Key
      <4> QED
          BY <3>1, <3>2, <3>4, <3>5, <3>7, <4>1
    <3> QED
        BY <2>3, <3>6, <3>7, Invoked
  <2>4. CASE ~Working'
      BY <2>4
  <2> QED
      BY <2>1, <2>2, <2>3, <2>4
      DEF Next, StepPrefails, PromptRejected, CacheHit, OutputRejected, OutputAccepted,
          GenerationFailed, Record, Raises, Finalize, NextRound, Done, Completes, Working
<1>3. Chained'
  <2>1. results \in Seq(StepResult) /\ Len(results) \in Nat
      BY <1>1 DEF TypeOK
  <2>2. CASE Record
    <3>1. results # <<>>
        BY <1>1, <2>1, <2>2 DEF Record, Place
    <3> QED
        BY <2>2, <3>1 DEF Record, PrevAssets, AssetsOf
  <2>3. CASE NextRound
      BY <2>3 DEF NextRound
  <2>4. CASE UNCHANGED <<pipe, results, prev>> /\ pc # "record"
    <3>1. CASE results = <<>>
        BY <2>4, <3>1 DEF Asked
    <3>2. CASE results # <<>>
      <4> DEFINE i == Len(results)
      <4>1. i \in 1..Len(results)
          BY <2>1, <3>2
      <4>2. results[i].made \in Nat /\ results[i].made <= Len(calls) /\ Len(calls) \in Nat
        <5>1. Bound <= Len(calls) /\ Bound \in Nat /\ Len(calls) \in Nat
            BY <1>1, Counts, HandableGrows DEF Bound
        <5> QED
            BY <1>1, <4>1, <5>1, Counts DEF Handed, StepResult
      <4>3. results[i].made > 0 => calls'[results[i].made] = calls[results[i].made]
          BY <4>2, CallsGrow
      <4> QED
          BY <2>4, <3>2, <4>3 DEF Asked, PrevAssets, AssetsOf
    <3> QED
        BY <3>1, <3>2
  <2>5. CASE pc' = "record"
      BY <2>5
  <2>6. CASE UNCHANGED vars
      BY <2>5, <2>4, <2>6 DEF vars
  <2> QED
      BY <2>2, <2>3, <2>4, <2>5, <2>6
      DEF Next, StepBegins, StepPrefails, PromptRejected, PromptAllowed, CacheHit, CacheMiss,
          Invoke, OutputRejected, OutputAccepted, GenerationFailed, Raises, Finalize, Done,
          Completes
<1> QED
    BY <1>2, <1>3 DEF Asked

(* The call that was just made asked for what its step asks for. *)
LEMMA MadeKept == ASSUME Shape, MadeAsAsked, [Next]_vars PROVE MadeAsAsked'
<1>1. TypeOK /\ Place
    BY DEF Shape
<1>2. CASE Invoke /\ pc' = "post"
  <2> DEFINE n == Len(calls) + 1
  <2>1. /\ cur.key \in Key /\ cur.key.recorded = FALSE /\ UNCHANGED <<round, pos>>
      BY <1>1, <1>2 DEF Invoke, pos, Place, Working
  <2>2. /\ calls'[n].round = round /\ calls'[n].pos = pos /\ calls'[n].key = cur.key
        /\ cur'.key = [cur.key EXCEPT !.recorded = RecordsParams] /\ cur'.made = n
      BY <1>2, Invoked
  <2>3. [cur'.key EXCEPT !.recorded = FALSE] = cur.key
      BY <2>1, <2>2 DEF Key
  <2> QED
      BY <2>1, <2>2, <2>3 DEF MadeAsAsked
<1>3. CASE pc' # "post"
    BY <1>3 DEF MadeAsAsked
<1>4. CASE UNCHANGED vars
    BY <1>4 DEF vars, MadeAsAsked, pos
<1> QED
    BY <1>2, <1>3, <1>4
    DEF Next, StepBegins, StepPrefails, PromptRejected, PromptAllowed, CacheHit, CacheMiss,
        OutputRejected, OutputAccepted, GenerationFailed, Record, Raises, Finalize, NextRound,
        Done, Completes

(* A cached output, or the one that was just made, is what the step asks.  *)
LEMMA Answers ==
  ASSUME Shape, Asked, MadeAsAsked, CacheSound, Working, NEW made,
         \/ \E e \in cache : e.key = cur.key /\ made = e.made
         \/ pc = "post" /\ made = cur.made
  PROVE  /\ made \in 1..Len(calls)
         /\ calls[made].key.prompt = plan[pos].prompt
         /\ \E m \in 1..Len(Models(pos)) : calls[made].key.model = Models(pos)[m]
         /\ calls[made].key.inputs = Declared(pos)
<1>1. /\ TypeOK /\ Place /\ Handed /\ Len(calls) \in Nat
      /\ cur.key \in Key /\ pos \in Steps /\ cur.tried \in Nat
      /\ cur.tried <= Len(plan[pos].fallbacks)
    BY Counts DEF Shape, Place
<1>2. /\ cur.key.prompt = plan[pos].prompt
      /\ cur.key.model = Models(pos)[cur.tried + 1]
      /\ cur.key.inputs = Declared(pos)
    BY DEF Asked
<1>3. cur.tried + 1 \in 1..Len(Models(pos))
    BY <1>1, ModelsType
<1>4. /\ made \in 1..Len(calls)
      /\ calls[made].key.prompt = cur.key.prompt
      /\ calls[made].key.model = cur.key.model
      /\ calls[made].key.inputs = cur.key.inputs
  <2>1. CASE \E e \in cache : e.key = cur.key /\ made = e.made
    <3>1. PICK e \in cache : e.key = cur.key /\ made = e.made
        BY <2>1
    <3>2. made \in 1..Len(calls)
        BY <1>1, <3>1, HandableGrows DEF Handed, Handable, Bound
    <3> QED
        BY <3>1, <3>2 DEF CacheSound
  <2>2. CASE pc = "post" /\ made = cur.made
    <3>1. made \in 1..Len(calls)
        BY <1>1, <2>2 DEF Place
    <3>2. calls[made].key = [cur.key EXCEPT !.recorded = FALSE]
        BY <2>2 DEF MadeAsAsked
    <3> QED
        BY <1>1, <3>1, <3>2 DEF Key
  <2> QED
      BY <2>1, <2>2
<1> QED
    BY <1>2, <1>3, <1>4

(* What the run records and caches stays true. *)
LEMMA TruthfulKept ==
  ASSUME Shape, Asked, MadeAsAsked, Truthful, [Next]_vars
  PROVE  Truthful'
<1>1. TypeOK /\ Place /\ Handed /\ Len(results) \in Nat
    BY Counts DEF Shape
<1>2. CacheSound'
  <2>1. \A e \in cache : e.made \in 1..Len(calls)
      BY <1>1, Counts DEF Handed, Handable, Bound
  <2>2. CASE cache' = cache
      BY <2>1, <2>2, CallsGrow DEF Truthful, CacheSound
  <2>3. CASE OutputAccepted
    <3>1. /\ cache' \subseteq cache \cup {Entry} /\ calls' = calls /\ pc = "post"
          /\ calls[cur.made].outcome \in Good /\ cur.key \in Key
        BY <1>1, <2>3 DEF OutputAccepted, Completes, Place, Working
    <3>2. Entry.made = cur.made /\ Entry.key = cur.key
        BY DEF Entry, CacheKey
    <3>3. calls[cur.made].key = [cur.key EXCEPT !.recorded = FALSE]
        BY <3>1 DEF MadeAsAsked
    <3>4. LET made == calls[Entry.made]
          IN  /\ made.outcome \in Good
              /\ <<made.key.model, made.key.prompt, made.key.inputs>> =
                   <<Entry.key.model, Entry.key.prompt, Entry.key.inputs>>
        BY <3>1, <3>2, <3>3 DEF Key
    <3> QED
        BY <3>1, <3>4 DEF Truthful, CacheSound
  <2> QED
      BY <2>2, <2>3
      DEF Next, vars, StepBegins, StepPrefails, PromptRejected, PromptAllowed, CacheHit,
          CacheMiss, Invoke, OutputRejected, GenerationFailed, Record, Raises, Finalize,
          NextRound, Done
<1> DEFINE True(i) ==
             results[i].status = "SUCCEEDED" =>
               /\ calls[results[i].made].key.prompt = plan[i].prompt
               /\ \E m \in 1..Len(Models(i)) : calls[results[i].made].key.model = Models(i)[m]
               /\ calls[results[i].made].key.inputs = Declared(i)
               /\ Resolved(i)
<1>3. \A i \in 1..Len(results) : True(i)
    BY DEF Truthful, ProvenanceTrue
<1>4. ASSUME ~NextRound, NEW i \in 1..Len(results) PROVE True(i)'
  <2>1. CASE results[i].status = "SUCCEEDED"
    <3>1. Resolved(i) /\ i \in 1..pos /\ i <= N
        BY <1>1, <1>3, <2>1, RunAssumption DEF pos, TypeOK
    <3>2. Declared(i)' = Declared(i) /\ Resolved(i)' /\ plan' = plan /\ results'[i] = results[i]
        BY <1>4, <3>1, DeclaredKept, ResultsGrow
    <3>3. results[i].made \in 1..Len(calls)
        BY <1>1, <2>1, Counts DEF Handed, Handable, Bound
    <3>4. calls'[results[i].made] = calls[results[i].made]
        BY <3>3, CallsGrow
    <3>5. Models(i)' = Models(i)
        BY <3>2 DEF Models
    <3> QED
        BY <1>3, <2>1, <3>2, <3>4, <3>5
  <2>2. CASE results[i].status # "SUCCEEDED"
      BY <1>4, <2>2, ResultsGrow
  <2> QED
      BY <2>1, <2>2
<1>5. ASSUME CacheHit \/ OutputAccepted, NEW i \in Nat, i = pos PROVE True(i)'
  <2> DEFINE made == results'[i].made
  <2>1. /\ Working /\ i <= N /\ i \in 1..pos /\ UNCHANGED <<pipe, calls>> /\ ~NextRound
        /\ Len(results) + 1 = i
      BY <1>1, <1>5 DEF CacheHit, OutputAccepted, NextRound, Completes, Working, Place, pos
  <2>2. \/ \E e \in cache : e.key = cur.key /\ made = e.made
        \/ pc = "post" /\ made = cur.made
    <3>1. results \in Seq(StepResult)
        BY <1>1 DEF TypeOK
    <3>2. CASE CacheHit
      <4>1. PICK e \in cache :
              /\ e.key = cur.key
              /\ results' = Append(results, [status |-> "SUCCEEDED", made |-> e.made,
                                             ledger |-> e.ledger])
          BY <3>2 DEF CacheHit, Completes
      <4>2. results'[i] = [status |-> "SUCCEEDED", made |-> e.made, ledger |-> e.ledger]
          BY <2>1, <3>1, <4>1, Appended
      <4>3. made = e.made
          BY <4>2
      <4> HIDE DEF made
      <4> QED
          BY <4>1, <4>3
    <3>3. CASE OutputAccepted
      <4>1. pc = "post" /\ results' = Append(results, Result("SUCCEEDED"))
          BY <3>3 DEF OutputAccepted, Completes
      <4>2. results'[i] = Result("SUCCEEDED")
          BY <2>1, <3>1, <4>1, Appended
      <4>3. made = cur.made
          BY <4>2 DEF Result
      <4> HIDE DEF made
      <4> QED
          BY <4>1, <4>3
    <3> QED
        BY <1>5, <3>2, <3>3
  <2>3. /\ calls[made].key.prompt = plan[i].prompt
        /\ \E m \in 1..Len(Models(i)) : calls[made].key.model = Models(i)[m]
        /\ calls[made].key.inputs = Declared(i)
      BY <1>5, <2>1, <2>2, Answers DEF Truthful
  <2>4. Resolved(i)
      BY <1>5, <2>1 DEF Asked
  <2>5. Declared(i)' = Declared(i) /\ Resolved(i)' /\ plan' = plan /\ Models(i)' = Models(i)
      BY <2>1, <2>4, DeclaredKept DEF Models
  <2> QED
      BY <2>1, <2>3, <2>5
<1>6. ASSUME NEW r, Completes(r), r.status = "FAILED", NEW i \in Nat, i = pos PROVE True(i)'
  <2>1. results \in Seq(StepResult) /\ results' = Append(results, r) /\ i = Len(results) + 1
      BY <1>1, <1>6 DEF TypeOK, Completes, pos
  <2>2. results'[i] = r
      BY <2>1, Appended
  <2> QED
      BY <1>6, <2>2
<1>7. ASSUME NEW i \in 1..Len(results') PROVE True(i)'
  <2>1. CASE NextRound
      BY <1>7, <2>1 DEF NextRound
  <2>2. CASE i \in 1..Len(results)
      BY <1>4, <2>1, <2>2
  <2>3. CASE ~NextRound /\ i \notin 1..Len(results)
    <3>1. i \in Nat /\ i = pos /\ results' # results
        BY <1>1, <1>7, <2>3, ResultsGrow DEF pos
    <3>2. CASE CacheHit \/ OutputAccepted
        BY <1>5, <3>1, <3>2
    <3>3. CASE StepPrefails \/ PromptRejected
      <4>1. Completes(Fails) /\ Fails.status = "FAILED"
          BY <3>3 DEF StepPrefails, PromptRejected, Completes, Fails
      <4> QED
          BY <1>6, <3>1, <4>1
    <3>4. CASE OutputRejected \/ GenerationFailed
      <4>1. Completes(Result("FAILED")) /\ Result("FAILED").status = "FAILED"
          BY <3>4 DEF OutputRejected, GenerationFailed, Result
      <4> QED
          BY <1>6, <3>1, <4>1
    <3> QED
        BY <2>3, <3>1, <3>2, <3>3, <3>4
        DEF Next, vars, StepBegins, PromptAllowed, CacheMiss, Invoke, Record, Raises, Finalize,
            Done
  <2> QED
      BY <2>1, <2>2, <2>3
<1> QED
    BY <1>2, <1>7 DEF Truthful, ProvenanceTrue

(* The second invariant. *)
Account == Shape /\ Asked /\ MadeAsAsked /\ Truthful

(* It is one. *)
THEOREM AccountInvariance == Spec => []Account
<1>1. Init => Account
  <2> SUFFICES ASSUME Init PROVE Asked /\ MadeAsAsked /\ Truthful
      BY ShapeInitially DEF Account
  <2>1. Len(<<>>) = 0
      OBVIOUS
  <2> QED
      BY <2>1 DEF Init, Asked, MadeAsAsked, Truthful, ProvenanceTrue, CacheSound, Working
<1>2. Account /\ [Next]_vars => Account'
    BY ShapeKept, AskedKept, MadeKept, TruthfulKept DEF Account, Truthful
<1> QED
    BY <1>1, <1>2, PTL DEF Spec

-----------------------------------------------------------------------------
(* The third invariant: the ledgers. *)

(* What a ledger lists when one more call was superseded. *)
LEMMA ListedAppend ==
  ASSUME NEW ledger \in Seq(Nat), NEW n \in Nat
  PROVE  Listed(Append(ledger, n)) = Listed(ledger) \cup {n}
<1> DEFINE more == Append(ledger, n)
<1>1. /\ Len(more) = Len(ledger) + 1 /\ Len(ledger) \in Nat
      /\ \A a \in 1..Len(ledger) : more[a] = ledger[a]
      /\ more[Len(ledger) + 1] = n
    BY Appended
<1> HIDE DEF more
<1>2. ASSUME NEW x \in Listed(more) PROVE x \in Listed(ledger) \cup {n}
  <2>1. PICK a \in 1..Len(more) : x = more[a]
      BY <1>2 DEF Listed
  <2> QED
      BY <1>1, <2>1 DEF Listed
<1>3. ASSUME NEW x \in Listed(ledger) PROVE x \in Listed(more)
  <2>1. PICK a \in 1..Len(ledger) : x = ledger[a]
      BY <1>3 DEF Listed
  <2>2. a \in 1..Len(more) /\ x = more[a]
      BY <1>1, <2>1
  <2> QED
      BY <2>2 DEF Listed
<1>4. n \in Listed(more)
  <2>1. Len(more) \in 1..Len(more) /\ more[Len(more)] = n
      BY <1>1
  <2> QED
      BY <2>1 DEF Listed
<1> QED
    BY <1>2, <1>3, <1>4 DEF more

(* A call counts for its own step only. *)
LEMMA CallsOfInvoked ==
  ASSUME Shape, Invoke, NEW i \in Nat
  PROVE  /\ CallsOf(i)' = IF i = pos THEN CallsOf(i) \cup {Len(calls) + 1} ELSE CallsOf(i)
         /\ Len(calls) + 1 \notin CallsOf(i)
<1>1. /\ Len(calls) \in Nat /\ Len(calls') = Len(calls) + 1 /\ round' = round
      /\ \A n \in 1..Len(calls) : calls'[n] = calls[n]
      /\ calls'[Len(calls) + 1].round = round /\ calls'[Len(calls) + 1].pos = pos
    BY Counts, Invoked DEF Shape, Invoke
<1>2. ASSUME NEW n \in 1..Len(calls')
      PROVE  (calls'[n].round = round' /\ calls'[n].pos = i) <=>
               (n \in CallsOf(i) \/ (i = pos /\ n = Len(calls) + 1))
    BY <1>1, <1>2 DEF CallsOf
<1>3. CallsOf(i) \subseteq 1..Len(calls')
    BY <1>1 DEF CallsOf
<1>4. Len(calls) + 1 \in 1..Len(calls') /\ Len(calls) + 1 \notin CallsOf(i)
    BY <1>1 DEF CallsOf
<1>5. CallsOf(i)' = {n \in 1..Len(calls') : calls'[n].round = round' /\ calls'[n].pos = i}
    BY DEF CallsOf
<1> QED
    BY <1>2, <1>3, <1>4, <1>5

(* The ledgers of the results that are there. *)
LEMMA LedgerSays ==
  LedgerComplete <=>
    \A i \in 1..Len(results) : Listed(results[i].ledger) = CallsOf(i) \ {results[i].made}
BY DEF LedgerComplete, Listed, CallsOf

(* One more result, with a ledger that lists the calls of its step. *)
LEMMA OneMoreLedger ==
  ASSUME Shape, Ledgers, NEW r, Completes(r), UNCHANGED <<round, calls>>,
         pc \in {"loop", "moderate", "lookup", "post"},
         Listed(r.ledger) = CallsOf(pos) \ {r.made}
  PROVE  Ledgers'
<1>1. /\ TypeOK /\ results \in Seq(StepResult) /\ results' = Append(results, r) /\ pc' = "record"
      /\ Len(results) \in Nat /\ pos = Len(results) + 1
    BY Counts DEF Shape, TypeOK, Completes, pos
<1>2. /\ Len(results') = pos
      /\ \A i \in 1..Len(results) : results'[i] = results[i]
      /\ results'[pos] = r
    BY <1>1, Appended
<1>3. \A i \in Nat : CallsOf(i)' = CallsOf(i)
    BY DEF CallsOf
<1>4. \A i \in 1..Len(results') : Listed(results'[i].ledger) = CallsOf(i)' \ {results'[i].made}
  <2> SUFFICES ASSUME NEW i \in 1..Len(results')
               PROVE  Listed(results'[i].ledger) = CallsOf(i)' \ {results'[i].made}
      OBVIOUS
  <2>1. CASE i = pos
      BY <1>1, <1>2, <1>3, <2>1
  <2>2. CASE i \in 1..Len(results)
      BY <1>2, <1>3, <2>2, LedgerSays DEF Ledgers
  <2> QED
      BY <1>1, <1>2, <2>1, <2>2
<1>5. LedgerComplete'
    BY <1>4 DEF LedgerComplete, Listed, CallsOf
<1>6. \A n \in 1..Len(calls) : calls[n].pos \in Nat
    BY <1>1, Counts DEF ProviderCall, Steps
<1>7. \A n \in 1..Len(calls) :
        calls[n].round <= round /\ (calls[n].round = round => calls[n].pos <= pos)
    BY <1>1, <1>6 DEF Ledgers
<1> QED
    BY <1>1, <1>2, <1>5, <1>7 DEF Ledgers

(* Every step keeps the ledgers complete. *)
LEMMA LedgersKept == ASSUME Shape, Ledgers, [Next]_vars PROVE Ledgers'
<1>1. /\ TypeOK /\ Place /\ Len(results) \in Nat /\ pos = Len(results) + 1 /\ Len(calls) \in Nat
      /\ \A n \in 1..Len(calls) : calls[n].pos \in Nat \ {0} /\ calls[n].round \in Nat
      /\ round \in Nat
  <2>1. TypeOK /\ Place /\ Len(results) \in Nat /\ Len(calls) \in Nat /\ round \in 1..Rounds
      BY Counts DEF Shape, TypeOK
  <2>2. \A n \in 1..Len(calls) : calls[n].pos \in 1..N /\ calls[n].round \in 1..Rounds
      BY <2>1, Counts DEF ProviderCall, Steps
  <2> QED
      BY <2>1, <2>2, RunAssumption DEF pos
<1>2. Listed(<<>>) = {}
    BY DEF Listed
<1>3. pc \in {"loop", "moderate", "lookup"} => CallsOf(pos) = {}
    BY <1>1 DEF Ledgers, CallsOf
<1>4. CASE StepPrefails \/ PromptRejected
  <2>1. /\ Completes(Fails) /\ UNCHANGED <<round, calls>> /\ pc \in {"loop", "moderate"}
        /\ Fails.ledger = <<>>
      BY <1>4 DEF StepPrefails, PromptRejected, Completes, Fails
  <2> QED
      BY <1>2, <1>3, <2>1, OneMoreLedger
<1>5. CASE CacheHit
  <2>1. PICK e \in cache :
          Completes([status |-> "SUCCEEDED", made |-> e.made, ledger |-> e.ledger])
      BY <1>5 DEF CacheHit
  <2> DEFINE r == [status |-> "SUCCEEDED", made |-> e.made, ledger |-> e.ledger]
  <2>2. r.ledger = <<>> /\ UNCHANGED <<round, calls>> /\ pc = "lookup"
      BY <1>1, <1>5 DEF CacheHit, TypeOK, CacheEntry
  <2> HIDE DEF r
  <2>3. Completes(r)
      BY <2>1 DEF r
  <2> QED
      BY <1>2, <1>3, <2>2, <2>3, OneMoreLedger
<1>6. CASE OutputRejected \/ OutputAccepted \/ GenerationFailed
  <2>1. /\ UNCHANGED <<round, calls>> /\ pc = "post"
        /\ \E s \in Statuses : Completes(Result(s))
      BY <1>6 DEF OutputRejected, OutputAccepted, GenerationFailed, Statuses
  <2>2. PICK s \in Statuses : Completes(Result(s))
      BY <2>1
  <2>3. Listed(Result(s).ledger) = CallsOf(pos) \ {Result(s).made}
      BY <2>1 DEF Result, Ledgers
  <2> QED
      BY <2>1, <2>2, <2>3, OneMoreLedger
<1>7. CASE Invoke
  <2> DEFINE n == Len(calls) + 1
  <2>1. /\ UNCHANGED <<round, results, pos>> /\ pc = "invoke"
        /\ cur.ledger \in Seq(Nat) /\ n \in Nat
        /\ pos \in Nat
      BY <1>1, <1>7, Counts DEF Invoke, pos
  <2>2. /\ CallsOf(pos)' = CallsOf(pos) \cup {n} /\ n \notin CallsOf(pos)
    <3>1. PICK i \in Nat : i = pos
        BY <2>1
    <3>2. CallsOf(i)' = CallsOf(i) \cup {n} /\ n \notin CallsOf(i)
        BY <1>7, <3>1, CallsOfInvoked
    <3> QED
        BY <2>1, <3>1, <3>2 DEF CallsOf
  <2>3. pc' = "invoke" => Listed(cur'.ledger) = CallsOf(pos)'
    <3> SUFFICES ASSUME pc' = "invoke" PROVE Listed(cur'.ledger) = CallsOf(pos)'
        OBVIOUS
    <3>1. cur'.ledger = Append(cur.ledger, n)
        BY <1>7, Invoked
    <3>2. Listed(cur'.ledger) = Listed(cur.ledger) \cup {n}
        BY <2>1, <3>1, ListedAppend
    <3> QED
        BY <2>1, <2>2, <3>2 DEF Ledgers
  <2>4. pc' = "post" => Listed(cur'.ledger) = CallsOf(pos)' \ {cur'.made}
    <3> SUFFICES ASSUME pc' = "post" PROVE Listed(cur'.ledger) = CallsOf(pos)' \ {cur'.made}
        OBVIOUS
    <3>1. cur'.ledger = cur.ledger /\ cur'.made = n
        BY <1>7, Invoked
    <3> QED
        BY <2>1, <2>2, <3>1 DEF Ledgers
  <2>5. LedgerComplete'
    <3>1. ASSUME NEW i \in 1..Len(results)
          PROVE  Listed(results'[i].ledger) = CallsOf(i)' \ {results'[i].made}
      <4>1. i \in Nat /\ i # pos
          BY <1>1
      <4>2. CallsOf(i)' = CallsOf(i)
          BY <1>7, <4>1, CallsOfInvoked
      <4> QED
          BY <2>1, <4>2, LedgerSays DEF Ledgers
    <3> QED
        BY <2>1, <3>1 DEF LedgerComplete, Listed, CallsOf
  <2>6. \A m \in 1..Len(calls') :
          calls'[m].round <= round /\ (calls'[m].round = round => calls'[m].pos <= pos)
    <3>1. /\ Len(calls') = n /\ \A m \in 1..Len(calls) : calls'[m] = calls[m]
          /\ calls'[n].round = round /\ calls'[n].pos = pos
        BY <1>7, Invoked
    <3> QED
        BY <1>1, <2>1, <3>1 DEF Ledgers
  <2>7. pc' \in {"invoke", "post"}
      BY <1>7, Invoked
  <2> QED
      BY <2>1, <2>3, <2>4, <2>5, <2>6, <2>7 DEF Ledgers
<1>8. ASSUME UNCHANGED <<round, calls, results>>
      PROVE  LedgerComplete' /\ CallsOf(pos)' = CallsOf(pos)
    BY <1>8 DEF Ledgers, LedgerComplete, CallsOf, pos
<1>9. CASE CacheMiss
  <2>1. /\ UNCHANGED <<round, calls, results, cur, pos>> /\ pc = "lookup" /\ pc' = "invoke"
        /\ cur.ledger = <<>>
      BY <1>1, <1>9 DEF CacheMiss, Place, pos
  <2>2. \A n \in 1..Len(calls) : calls[n].round = round => calls[n].pos <= pos
      BY <1>1, <2>1 DEF Ledgers
  <2> QED
      BY <1>2, <1>3, <1>8, <2>1, <2>2 DEF Ledgers
<1>10. CASE StepBegins \/ PromptAllowed \/ Record
  <2>1. /\ UNCHANGED <<round, calls, results>>
        /\ {pc, pc'} \subseteq {"loop", "record", "moderate", "lookup"}
      BY <1>10 DEF StepBegins, PromptAllowed, Record
  <2> QED
      BY <1>8, <2>1 DEF Ledgers
<1>11. CASE Raises \/ Finalize
  <2>1. UNCHANGED <<round, calls, results>> /\ pc' = "ended"
      BY <1>11 DEF Raises, Finalize
  <2> QED
      BY <1>8, <2>1 DEF Ledgers
<1>12. CASE NextRound
  <2>1. round' = round + 1 /\ calls' = calls /\ results' = <<>> /\ pc' = "loop"
      BY <1>12 DEF NextRound
  <2>2. LedgerComplete'
      BY <2>1 DEF LedgerComplete
  <2>3. \A n \in 1..Len(calls) : calls[n].round <= round' /\ calls[n].round # round'
      BY <1>1, <2>1 DEF Ledgers
  <2> QED
      BY <2>1, <2>2, <2>3 DEF Ledgers
<1>13. CASE UNCHANGED vars
    BY <1>8, <1>13 DEF vars, Ledgers, pos
<1> QED
    BY <1>4, <1>5, <1>6, <1>7, <1>9, <1>10, <1>11, <1>12, <1>13 DEF Next, Done

(* Every call of a run is in the ledger of its step, or behind its result. *)
THEOREM LedgersInvariance == Spec => []Ledgers
<1>1. Init => Ledgers
    BY DEF Init, Ledgers, LedgerComplete
<1>2. Shape /\ Ledgers /\ [Next]_vars => Ledgers'
    BY LedgersKept
<1> QED
    BY <1>1, <1>2, ShapeInvariance, PTL DEF Spec

(* What a run records and caches is what happened, whichever models were   *)
(* tried and whatever an earlier run left in the cache.                    *)
THEOREM RecordsTell == Spec => []RecordsAreTrue
<1>1. Account /\ Ledgers => RecordsAreTrue
    BY DEF Account, Truthful, Ledgers, RecordsAreTrue
<1> QED
    BY <1>1, AccountInvariance, LedgersInvariance, PTL

-----------------------------------------------------------------------------
(* What a run emits is what its observers are promised. *)

(* What a step says to the observers, and what it leaves as it was. *)
LEMMA ToldKept ==
  ASSUME Shape, Told, [Next]_vars
  PROVE  /\ Told'
         /\ \A r \in 1..Rounds : [Contract(r)!Next]_<<reported[r], end[r]>>
<1> DEFINE All(r) == [Contract(r)!Next]_<<reported[r], end[r]>>
<1>1. /\ TypeOK /\ Place /\ Len(results) \in Nat /\ pos = Len(results) + 1
      /\ round \in 1..Rounds /\ results \in Seq(StepResult)
    BY Counts DEF Shape, TypeOK, pos
<1>2. ASSUME UNCHANGED <<reported, end>> PROVE \A r \in 1..Rounds : All(r)
    BY <1>2
<1>3. ASSUME reported' = [reported EXCEPT ![round][pos] = "started"], pos \in Steps,
             pc = "loop", UNCHANGED <<end, round>>
      PROVE  /\ \A r \in 1..Rounds : All(r)
             /\ \A r \in 1..Rounds, i \in Steps :
                  r # round \/ i # pos => reported'[r][i] = reported[r][i]
             /\ reported'[round][pos] = "started"
  <2>1. /\ reported' \in [1..Rounds -> [Steps -> {"none", "started"} \cup Statuses]]
        /\ reported'[round][pos] = "started"
        /\ \A r \in 1..Rounds, i \in Steps :
             r # round \/ i # pos => reported'[r][i] = reported[r][i]
      BY <1>1, <1>3, ReportedType
  <2>2. reported[round][pos] = "none" /\ end[round] = "none"
      BY <1>1, <1>3 DEF Told, Said, Working
  <2>3. ASSUME NEW r \in 1..Rounds PROVE All(r)
    <3>1. CASE r = round
      <4> DEFINE S == {pos}
      <4>1. reported'[r] = [i \in Steps |-> IF i \in S THEN "started" ELSE reported[r][i]]
          BY <1>1, <1>3, <2>1, <3>1 DEF TypeOK
      <4>2. S \in SUBSET {i \in Steps : reported[r][i] = "none"}
          BY <1>3, <2>2, <3>1
      <4>3. end[r] = "none" /\ end'[r] = end[r]
          BY <1>3, <2>2, <3>1
      <4>4. Contract(r)!Announce
          BY <4>1, <4>2, <4>3 DEF Contract!Announce
      <4> QED
          BY <4>4 DEF Contract!Next
    <3>2. CASE r # round
        BY <1>1, <1>3, <3>2 DEF TypeOK
    <3> QED
        BY <3>1, <3>2
  <2> QED
      BY <1>3, <2>1, <2>3
<1>4. ASSUME NEW r, Completes(r), pos \in Steps, UNCHANGED <<round, end>>, pc # "ended",
             \A i \in Steps :
               reported'[round][i] = IF i = pos THEN "started" ELSE reported[round][i],
             \A n \in 1..Rounds, i \in Steps : n # round => reported'[n][i] = reported[n][i],
             pc # "record"
      PROVE  Told'
  <2>1. results' = Append(results, r) /\ pc' = "record"
      BY <1>4 DEF Completes
  <2>2. Len(results') = pos /\ \A i \in 1..Len(results) : results'[i] = results[i]
      BY <1>1, <2>1, Appended
  <2>3. ASSUME NEW i \in Steps PROVE reported'[round][i] = Said(i)'
    <3>1. reported[round][i] = Said(i)
        BY <1>4 DEF Told
    <3>2. CASE i <= Len(results)
      <4>1. i \in 1..Len(results) /\ i < pos /\ i # pos
          BY <1>1, <3>2, RunAssumption DEF Steps
      <4>2. Said(i) = results[i].status /\ Said(i)' = results[i].status
          BY <1>1, <1>4, <2>1, <2>2, <3>2, <4>1 DEF Said
      <4> QED
          BY <1>4, <3>1, <4>1, <4>2
    <3>3. CASE i = pos
        BY <1>4, <2>1, <2>2, <3>3 DEF Said
    <3>4. CASE i > pos
      <4>1. Said(i) = "none" /\ Said(i)' = "none"
          BY <1>1, <2>1, <2>2, <3>4 DEF Said, Working, pos, Steps
      <4> QED
          BY <1>1, <1>4, <3>1, <3>4, <4>1
    <3> QED
        BY <1>1, <3>2, <3>3, <3>4 DEF Steps
  <2> QED
      BY <1>1, <1>4, <2>1, <2>3 DEF Told
<1>5. CASE StepBegins
  <2>1. /\ reported' = [reported EXCEPT ![round][pos] = "started"] /\ pos \in Steps /\ pc = "loop"
        /\ UNCHANGED <<end, round, results, pos>> /\ pc' = "moderate"
      BY <1>5, Begun DEF StepBegins, pos
  <2>2. /\ \A r \in 1..Rounds : All(r)
        /\ \A r \in 1..Rounds, i \in Steps :
             r # round \/ i # pos => reported'[r][i] = reported[r][i]
        /\ reported'[round][pos] = "started"
      BY <1>3, <2>1
  <2> HIDE DEF All
  <2>3. ASSUME NEW i \in Steps PROVE reported'[round][i] = Said(i)'
    <3>1. reported[round][i] = Said(i)
        BY <2>1 DEF Told
    <3>2. CASE i = pos
        BY <1>1, <2>1, <2>2, <3>2 DEF Said, Working
    <3>3. CASE i # pos
        BY <1>1, <2>1, <2>2, <3>1, <3>3 DEF Said, Working
    <3> QED
        BY <3>2, <3>3
  <2>4. Told'
      BY <1>1, <2>1, <2>2, <2>3, RunAssumption DEF Told
  <2> QED
      BY <2>2, <2>4 DEF All
<1>6. CASE StepPrefails
  <2>1. /\ reported' = [reported EXCEPT ![round][pos] = "started"] /\ pc = "loop"
        /\ UNCHANGED <<end, round>> /\ Completes(Fails) /\ ~(pos > N)
      BY <1>6 DEF StepPrefails, Completes, Over
  <2>2. pos \in Steps
      BY <1>1, <2>1, Counts
  <2> QED
      BY <1>1, <1>3, <1>4, <2>1, <2>2
<1>7. CASE PromptRejected \/ CacheHit \/ OutputRejected \/ OutputAccepted \/ GenerationFailed
  <2>1. /\ Working /\ pc # "record" /\ pc # "ended" /\ UNCHANGED <<end, round, reported>>
        /\ pos \in Steps
    <3>1. /\ pc \in {"moderate", "lookup", "post"} /\ UNCHANGED <<end, round, reported>>
        BY <1>7 DEF PromptRejected, CacheHit, OutputRejected, OutputAccepted, GenerationFailed
    <3> QED
        BY <1>1, <3>1, Counts DEF Place, Working
  <2>2. \E r : Completes(r)
    <3>1. CASE CacheHit
        BY <3>1 DEF CacheHit
    <3>2. CASE PromptRejected
        BY <3>2 DEF PromptRejected
    <3>3. CASE OutputRejected \/ OutputAccepted \/ GenerationFailed
        BY <3>3 DEF OutputRejected, OutputAccepted, GenerationFailed
    <3> QED
        BY <1>7, <3>1, <3>2, <3>3
  <2>3. reported[round][pos] = "started"
      BY <1>1, <2>1 DEF Told, Said
  <2> QED
      BY <1>2, <1>4, <2>1, <2>2, <2>3
<1>8. CASE PromptAllowed \/ CacheMiss \/ Invoke
  <2>1. /\ Working /\ Working' /\ UNCHANGED <<end, round, reported, results, pos>>
        /\ pc # "ended" /\ pc # "record" /\ pc' # "record"
    <3>1. CASE Invoke
        BY <3>1, Invoked DEF Invoke, Working, pos
    <3>2. CASE PromptAllowed \/ CacheMiss
        BY <3>2 DEF PromptAllowed, CacheMiss, Working, pos
    <3> QED
        BY <1>8, <3>1, <3>2
  <2> QED
      BY <1>2, <2>1 DEF Told, Said
<1>9. CASE Record
  <2> DEFINE k == Len(results)
  <2>1. /\ pc = "record" /\ pc' = "loop" /\ UNCHANGED <<end, round, results, pos>>
        /\ reported' = [reported EXCEPT ![round][k] = results[k].status]
        /\ k \in Steps /\ results[k].status \in {"SUCCEEDED", "FAILED"}
    <3>1. k \in Steps /\ results[k] \in StepResult
        BY <1>1, <1>9, Counts DEF Record, Place
    <3> QED
        BY <1>9, <3>1 DEF Record, StepResult, Statuses, pos
  <2>2. /\ reported' \in [1..Rounds -> [Steps -> {"none", "started"} \cup Statuses]]
        /\ reported'[round][k] = results[k].status
        /\ \A r \in 1..Rounds, i \in Steps : r # round \/ i # k => reported'[r][i] = reported[r][i]
      BY <1>1, <2>1, ReportedType DEF Statuses
  <2>3. reported[round][k] = "started" /\ end[round] = "none"
      BY <1>1, <2>1 DEF Told, Said
  <2>4. ASSUME NEW i \in Steps PROVE reported'[round][i] = Said(i)'
    <3>1. reported[round][i] = Said(i)
        BY <2>1 DEF Told
    <3>2. CASE i = k
        BY <2>1, <2>2, <3>2 DEF Said
    <3>3. CASE i # k
        BY <1>1, <2>1, <2>2, <3>1, <3>3 DEF Said, Working
    <3> QED
        BY <3>2, <3>3
  <2>5. ASSUME NEW r \in 1..Rounds PROVE All(r)
    <3>1. CASE r = round
      <4>1. reported'[r] \in [Steps -> {"none", "started", "SUCCEEDED", "FAILED"}]
          BY <2>2 DEF Statuses
      <4>2. \A i \in Steps : reported'[r][i] # reported[r][i] =>
              reported[r][i] = "started" /\ reported'[r][i] \in {"SUCCEEDED", "FAILED"}
          BY <1>1, <2>1, <2>2, <2>3, <3>1
      <4>3. end[r] = "none" /\ end'[r] = end[r]
          BY <2>1, <2>3, <3>1
      <4>4. Contract(r)!Report
          BY <4>1, <4>2, <4>3 DEF Contract!Report
      <4> QED
          BY <4>4 DEF Contract!Next
    <3>2. CASE r # round
        BY <1>1, <2>1, <3>2 DEF TypeOK
    <3> QED
        BY <3>1, <3>2
  <2> QED
      BY <1>1, <2>1, <2>2, <2>4, <2>5 DEF Told
<1>10. CASE Raises \/ Finalize
  <2>1. /\ pc # "ended" /\ pc' = "ended" /\ UNCHANGED <<round, reported>>
        /\ \E e \in {"failed", "completed"} :
             /\ end' = [end EXCEPT ![round] = e]
             /\ e = "completed" => Finalize /\ RunStatus = "completed"
      BY <1>10 DEF Raises, Finalize, RunStatus
  <2>2. PICK e \in {"failed", "completed"} :
          /\ end' = [end EXCEPT ![round] = e]
          /\ e = "completed" => Finalize /\ RunStatus = "completed"
      BY <2>1
  <2>3. ASSUME e = "completed", NEW i \in Steps PROVE reported[round][i] = "SUCCEEDED"
    <3>1. \A n \in 1..Len(results) : results[n].status = "SUCCEEDED"
        BY <2>2, <2>3 DEF RunStatus
    <3>2. pc = "loop" /\ Len(results) >= N
        BY <1>1, <2>2, <2>3, <3>1, RunAssumption DEF Finalize, Over
    <3>3. i \in 1..Len(results)
        BY <1>1, <3>2, RunAssumption DEF Steps
    <3>4. Said(i) = results[i].status
        BY <1>1, <3>2, <3>3 DEF Said
    <3> QED
        BY <2>1, <3>1, <3>3, <3>4 DEF Told
  <2>4. ASSUME NEW r \in 1..Rounds PROVE All(r)
    <3>1. CASE r = round
      <4>1. end[r] = "none" /\ end'[r] = e /\ reported'[r] = reported[r]
          BY <1>1, <2>1, <2>2, <3>1 DEF Told, TypeOK
      <4>2. Contract(r)!End
          BY <2>3, <3>1, <4>1 DEF Contract!End
      <4> QED
          BY <4>2 DEF Contract!Next
    <3>2. CASE r # round
        BY <1>1, <2>1, <2>2, <3>2 DEF TypeOK
    <3> QED
        BY <3>1, <3>2
  <2>5. \A r \in 1..Rounds : r > round => end'[r] = end[r]
      BY <1>1, <2>2 DEF TypeOK
  <2> QED
      BY <1>1, <2>1, <2>4, <2>5 DEF Told
<1>11. CASE NextRound
  <2>1. /\ UNCHANGED <<reported, end>> /\ round' = round + 1 /\ round < Rounds /\ results' = <<>>
        /\ pc' = "loop" /\ round' \in 1..Rounds
      BY <1>1, <1>11, RunAssumption DEF NextRound
  <2>2. \A i \in Steps : Said(i)' = "none"
      BY <2>1 DEF Said, Working, Steps
  <2> QED
      BY <1>1, <1>2, <2>1, <2>2, RunAssumption DEF Told
<1>12. CASE UNCHANGED vars
    BY <1>2, <1>12 DEF vars, Told, Said, Working, pos
<1> QED
    BY <1>5, <1>6, <1>7, <1>8, <1>9, <1>10, <1>11, <1>12 DEF Next, Done

(* Each run of the pipeline, on its own, keeps the contract of a run. *)
THEOREM Refinement == Spec => ImplementsContract
<1>1. Init => \A r \in 1..Rounds : Contract(r)!Init
    BY DEF Init, Contract!Init
<1>2. Init => Told
  <2>1. Len(<<>>) = 0
      OBVIOUS
  <2> QED
      BY <2>1, RunAssumption DEF Init, Told, Said, Working, Steps
<1>3. Shape /\ Told /\ [Next]_vars =>
        Told' /\ \A r \in 1..Rounds : [Contract(r)!Next]_<<reported[r], end[r]>>
    BY ToldKept
<1> QED
    BY <1>1, <1>2, <1>3, ShapeInvariance, PTL DEF Spec, ImplementsContract

-----------------------------------------------------------------------------
(* A rerun is free: what the calls of the first run asked for. *)

(* Calls that are not of this kind leave the good ones of a step alone. *)
LEMMA GoodKept ==
  ASSUME Shape, [Next]_vars, NEW r \in Nat, NEW i \in Nat, ~Invoke \/ r # round \/ i # pos
  PROVE  GoodOf(r, i)' = GoodOf(r, i)
<1>1. CASE Invoke
  <2>1. /\ Len(calls) \in Nat /\ Len(calls') = Len(calls) + 1
        /\ \A n \in 1..Len(calls) : calls'[n] = calls[n]
        /\ calls'[Len(calls) + 1].round = round /\ calls'[Len(calls) + 1].pos = pos
      BY <1>1, Counts, Invoked DEF Shape
  <2>2. ASSUME NEW n \in 1..Len(calls')
        PROVE  (calls'[n].round = r /\ calls'[n].pos = i /\ calls'[n].outcome \in Good) <=>
                 n \in GoodOf(r, i)
    <3>1. CASE n = Len(calls) + 1
        BY <1>1, <2>1, <3>1 DEF GoodOf
    <3>2. CASE n \in 1..Len(calls)
        BY <2>1, <3>2 DEF GoodOf
    <3> QED
        BY <2>1, <3>1, <3>2
  <2>3. GoodOf(r, i) \subseteq 1..Len(calls')
      BY <2>1 DEF GoodOf
  <2>4. GoodOf(r, i)' = {n \in 1..Len(calls') :
                           calls'[n].round = r /\ calls'[n].pos = i /\ calls'[n].outcome \in Good}
      BY DEF GoodOf
  <2> QED
      BY <2>2, <2>3, <2>4
<1>2. CASE calls' = calls
    BY <1>2 DEF GoodOf
<1> QED
    BY <1>1, <1>2
    DEF Next, vars, StepBegins, StepPrefails, PromptRejected, PromptAllowed, CacheHit,
        CacheMiss, OutputRejected, OutputAccepted, GenerationFailed, Record, Raises, Finalize,
        NextRound, Done

(* One more result: of the last call, or of a step that was not called. *)
LEMMA OneMoreSuperseded ==
  ASSUME Shape, Ledgers, Superseded, NEW r, Completes(r), UNCHANGED <<round, calls>>,
         rejected \subseteq rejected', pc \in {"loop", "moderate", "lookup", "post"},
         pc = "post" /\ calls[Len(calls)].outcome \in Good =>
           r.made = Len(calls) /\ (r.status = "SUCCEEDED" \/ Len(calls) \in rejected')
  PROVE  Superseded'
<1>1. /\ TypeOK /\ results \in Seq(StepResult) /\ results' = Append(results, r) /\ pc' = "record"
      /\ Len(results) \in Nat /\ pos = Len(results) + 1 /\ Len(calls) \in Nat
    BY Counts DEF Shape, TypeOK, Completes, pos
<1>2. /\ Len(results') = pos
      /\ \A i \in 1..Len(results) : results'[i] = results[i]
      /\ results'[pos] = r
    BY <1>1, Appended
<1>3. \A i \in Nat : CallsOf(i)' = CallsOf(i)
    BY DEF CallsOf
<1>4. ASSUME NEW i \in 1..Len(results'), NEW n \in CallsOf(i)', calls[n].outcome \in Good
      PROVE  n = results'[i].made /\ (results'[i].status = "SUCCEEDED" \/ n \in rejected')
  <2>1. n \in CallsOf(i)
      BY <1>3, <1>4
  <2>2. CASE i \in 1..Len(results)
      BY <1>2, <1>4, <2>1, <2>2 DEF Superseded
  <2>3. CASE i = pos
    <3>1. pc = "post"
      <4>1. \A m \in 1..Len(calls) : calls[m].pos \in Nat
          BY <1>1, Counts DEF ProviderCall, Steps
      <4> QED
          BY <1>1, <2>1, <2>3, <4>1 DEF Ledgers, CallsOf
    <3>2. n \in 1..Len(calls) /\ n > Bound /\ Bound = Len(calls) - 1
        BY <1>1, <1>4, <2>1, <2>3, <3>1 DEF Superseded, CallsOf, Bound
    <3>3. n = Len(calls)
        BY <1>1, <3>2
    <3> QED
        BY <1>2, <1>4, <2>3, <3>1, <3>3
  <2> QED
      BY <1>1, <1>2, <2>2, <2>3
<1> QED
    BY <1>1, <1>4 DEF Superseded

(* Every step keeps account of the models that failed. *)
LEMMA SupersededKept == ASSUME Shape, Ledgers, Superseded, [Next]_vars PROVE Superseded'
<1>1. /\ TypeOK /\ Place /\ Handed /\ Len(results) \in Nat /\ pos = Len(results) + 1
      /\ Len(calls) \in Nat /\ \A m \in 1..Len(calls) : calls[m].pos \in Nat
    BY Counts DEF Shape, pos, ProviderCall, Steps
<1>2. CASE StepPrefails \/ PromptRejected
  <2>1. /\ Completes(Fails) /\ UNCHANGED <<round, calls, rejected>> /\ pc \in {"loop", "moderate"}
      BY <1>2 DEF StepPrefails, PromptRejected, Completes
  <2> QED
      BY <2>1, OneMoreSuperseded
<1>3. CASE CacheHit
  <2>1. /\ UNCHANGED <<round, calls, rejected>> /\ pc = "lookup" /\ \E r : Completes(r)
      BY <1>3 DEF CacheHit
  <2> QED
      BY <2>1, OneMoreSuperseded
<1>4. CASE OutputRejected \/ OutputAccepted \/ GenerationFailed
  <2>1. /\ UNCHANGED <<round, calls>> /\ pc = "post" /\ rejected \subseteq rejected'
        /\ cur.made = Len(calls)
      BY <1>1, <1>4 DEF OutputRejected, OutputAccepted, GenerationFailed, Place
  <2>2. CASE OutputRejected
    <3>1. Completes(Result("FAILED")) /\ Len(calls) \in rejected'
        BY <2>1, <2>2 DEF OutputRejected
    <3>2. Result("FAILED").made = Len(calls)
        BY <2>1 DEF Result
    <3> QED
        BY <2>1, <3>1, <3>2, OneMoreSuperseded
  <2>3. CASE OutputAccepted
    <3>1. Completes(Result("SUCCEEDED"))
        BY <2>3 DEF OutputAccepted
    <3>2. Result("SUCCEEDED").made = Len(calls) /\ Result("SUCCEEDED").status = "SUCCEEDED"
        BY <2>1 DEF Result
    <3> QED
        BY <2>1, <3>1, <3>2, OneMoreSuperseded
  <2>4. CASE GenerationFailed
    <3>1. Completes(Result("FAILED")) /\ calls[Len(calls)].outcome \notin Good
        BY <2>1, <2>4 DEF GenerationFailed
    <3> QED
        BY <2>1, <3>1, OneMoreSuperseded
  <2> QED
      BY <1>4, <2>2, <2>3, <2>4
<1>5. CASE Invoke
  <2> DEFINE n == Len(calls) + 1
  <2>1. /\ UNCHANGED <<round, results, pos, rejected>> /\ pc = "invoke" /\ pos \in Nat
        /\ Bound = Len(calls)
      BY <1>1, <1>5 DEF Invoke, pos, Bound
  <2>2. /\ Len(calls') = n /\ \A m \in 1..Len(calls) : calls'[m] = calls[m]
        /\ calls'[n].round = round /\ calls'[n].pos = pos
        /\ \/ pc' = "invoke" /\ calls'[n].outcome \notin Good
           \/ pc' = "post" /\ cur'.tried = cur.tried
      BY <1>5, Invoked
  <2>3. \A m \in CallsOf(pos) : m \in 1..Len(calls) /\ calls[m].outcome \notin Good
      BY <1>1, <2>1 DEF Superseded, CallsOf
  <2>4. CallsOf(pos)' = CallsOf(pos) \cup {n}
    <3>1. PICK i \in Nat : i = pos
        BY <2>1
    <3>2. CallsOf(i)' = CallsOf(i) \cup {n}
        BY <1>5, <3>1, CallsOfInvoked
    <3> QED
        BY <2>1, <3>1, <3>2 DEF CallsOf
  <2>5. /\ \A m \in CallsOf(pos)' : m <= Bound' => calls'[m].outcome \notin Good
        /\ cur'.tried > 0 => \E m \in CallsOf(pos)' : m <= Bound'
    <3>1. CASE pc' = "invoke"
      <4>1. Bound' = n /\ calls'[n].outcome \notin Good
          BY <2>2, <3>1 DEF Bound
      <4>2. n \in CallsOf(pos)' /\ n <= Bound'
          BY <1>1, <2>4, <4>1
      <4> QED
          BY <2>2, <2>3, <2>4, <4>1, <4>2
    <3>2. CASE pc' = "post"
      <4>1. Bound' = Len(calls) /\ cur'.tried = cur.tried
          BY <1>1, <2>2, <3>2 DEF Bound
      <4>2. ~(n <= Bound')
          BY <1>1, <4>1
      <4>3. cur.tried > 0 => \E m \in CallsOf(pos) : m <= Bound
          BY <2>1 DEF Superseded
      <4> QED
          BY <2>1, <2>2, <2>3, <2>4, <4>1, <4>2, <4>3
    <3> QED
        BY <2>2, <3>1, <3>2
  <2>6. \A i \in 1..Len(results) : \A m \in CallsOf(i)' : calls'[m].outcome \in Good =>
          m = results[i].made /\ (results[i].status = "SUCCEEDED" \/ m \in rejected)
    <3> SUFFICES ASSUME NEW i \in 1..Len(results), NEW m \in CallsOf(i)',
                        calls'[m].outcome \in Good
                 PROVE  m = results[i].made /\ (results[i].status = "SUCCEEDED" \/ m \in rejected)
        OBVIOUS
    <3>1. i \in Nat /\ i # pos
        BY <1>1
    <3>2. m \in CallsOf(i)
        BY <1>5, <3>1, CallsOfInvoked
    <3>3. calls'[m] = calls[m]
        BY <2>2, <3>2 DEF CallsOf
    <3> QED
        BY <3>2, <3>3 DEF Superseded
  <2>7. ASSUME NEW m \in 1..n, NEW k \in 1..n,
               calls'[m].round = calls'[k].round, calls'[m].pos = calls'[k].pos,
               {calls'[m].outcome, calls'[k].outcome} \subseteq Good
        PROVE  m = k
    <3>1. ASSUME NEW l \in 1..Len(calls), calls[l].round = round, calls[l].pos = pos
          PROVE  calls[l].outcome \notin Good
        BY <2>3, <3>1 DEF CallsOf
    <3>2. CASE m = n \/ k = n
      <4>1. \A l \in 1..n : l # n => l \in 1..Len(calls)
          BY <1>1
      <4> QED
          BY <2>2, <2>7, <3>1, <3>2, <4>1
    <3>3. CASE m \in 1..Len(calls) /\ k \in 1..Len(calls)
        BY <2>2, <2>7, <3>3 DEF Superseded
    <3> QED
        BY <1>1, <3>2, <3>3
  <2> QED
      BY <2>1, <2>2, <2>5, <2>6, <2>7 DEF Superseded
<1>6. CASE CacheMiss
  <2>1. /\ UNCHANGED <<round, calls, results, rejected, pos>> /\ pc = "lookup" /\ cur' = cur
        /\ cur.tried = 0
      BY <1>1, <1>6 DEF CacheMiss, Place, pos
  <2>2. CallsOf(pos)' = {}
      BY <1>1, <2>1 DEF Ledgers, CallsOf
  <2> QED
      BY <2>1, <2>2 DEF Superseded, CallsOf
<1>7. CASE StepBegins \/ PromptAllowed \/ Record \/ Raises \/ Finalize
  <2>1. UNCHANGED <<round, calls, results, rejected>> /\ pc' \notin {"invoke", "post"}
      BY <1>7 DEF StepBegins, PromptAllowed, Record, Raises, Finalize
  <2> QED
      BY <2>1 DEF Superseded, CallsOf
<1>8. CASE NextRound
    BY <1>8 DEF NextRound, Superseded
<1>9. CASE UNCHANGED vars
    BY <1>9 DEF vars, Superseded, CallsOf, Bound, pos
<1> QED
    BY <1>2, <1>3, <1>4, <1>5, <1>6, <1>7, <1>8, <1>9 DEF Next, Done

(* Every call asks for the primary model, or after it. *)
LEMMA PrimaryKept ==
  ASSUME Account, Superseded, PrimaryFirst, [Next]_vars
  PROVE  PrimaryFirst'
<1>1. Shape /\ TypeOK /\ Place /\ Len(calls) \in Nat /\ plan' = plan
  <2>1. Shape /\ TypeOK /\ Place /\ Len(calls) \in Nat
      BY Counts DEF Account, Shape
  <2>2. NextRound => pipe' = pipe
      BY DEF NextRound
  <2> QED
      BY <2>1, <2>2, ResultsGrow DEF plan
<1>2. CASE Invoke
  <2> DEFINE n == Len(calls) + 1
  <2>1. /\ Len(calls') = n /\ \A m \in 1..Len(calls) : calls'[m] = calls[m]
        /\ calls'[n].round = round /\ calls'[n].pos = pos /\ calls'[n].key = cur.key
      BY <1>1, <1>2, Invoked
  <2>2. /\ Working /\ pc = "invoke" /\ pos \in Steps /\ cur.key.recorded = FALSE
        /\ cur.tried \in Nat /\ Bound = Len(calls)
      BY <1>1, <1>2, Counts DEF Invoke, Place, Working, Bound
  <2>3. cur.key.prompt = plan[pos].prompt /\ cur.key.model = Models(pos)[cur.tried + 1]
      BY <2>2 DEF Account, Asked
  <2>4. ASSUME cur.tried > 0
        PROVE  \E m \in 1..Len(calls) : /\ calls[m].round = round /\ calls[m].pos = pos
                                        /\ calls[m].outcome \notin Good
      BY <2>2, <2>4 DEF Superseded, CallsOf
  <2>5. ASSUME cur.tried = 0 PROVE cur.key.model = plan[pos].model
    <3>1. plan[pos].fallbacks \in Seq(STRING) /\ 0 <= Len(plan[pos].fallbacks)
        BY <1>1, <2>2, PlanType
    <3> QED
        BY <1>1, <2>2, <2>3, <2>5, <3>1, ModelsType
  <2>6. \A m \in 1..Len(calls) : m \in 1..Len(calls')
      BY <1>1, <2>1
  <2>7. /\ calls'[n].key.recorded = FALSE /\ calls'[n].key.prompt = plan[calls'[n].pos].prompt
        /\ \/ calls'[n].key.model = plan[calls'[n].pos].model
           \/ \E m \in 1..Len(calls') :
                /\ calls'[m].round = calls'[n].round /\ calls'[m].pos = calls'[n].pos
                /\ calls'[m].outcome \notin Good
      BY <2>1, <2>2, <2>3, <2>4, <2>5, <2>6
  <2>8. ASSUME NEW k \in 1..Len(calls)
        PROVE  /\ calls'[k].key.recorded = FALSE
               /\ calls'[k].key.prompt = plan[calls'[k].pos].prompt
               /\ \/ calls'[k].key.model = plan[calls'[k].pos].model
                  \/ \E m \in 1..Len(calls') :
                       /\ calls'[m].round = calls'[k].round /\ calls'[m].pos = calls'[k].pos
                       /\ calls'[m].outcome \notin Good
      BY <2>1, <2>6, <2>8 DEF PrimaryFirst
  <2>9. \A k \in 1..Len(calls') : k = n \/ k \in 1..Len(calls)
      BY <1>1, <2>1
  <2> QED
      BY <1>1, <2>7, <2>8, <2>9 DEF PrimaryFirst
<1>3. CASE calls' = calls
    BY <1>1, <1>3 DEF PrimaryFirst
<1> QED
    BY <1>2, <1>3
    DEF Next, vars, StepBegins, StepPrefails, PromptRejected, PromptAllowed, CacheHit,
        CacheMiss, OutputRejected, OutputAccepted, GenerationFailed, Record, Raises, Finalize,
        NextRound, Done

(* What a step declares, when its upstream steps returned what the first   *)
(* run made for them.                                                      *)
LEMMA DeclaredFirst ==
  ASSUME Shape, NEW i \in 1..pos, i <= N, Resolved(i),
         \A up \in 1..Len(results) : \A m \in GoodOf(1, up) :
           m = results[up].made /\ (results[up].status = "SUCCEEDED" \/ m \in rejected)
  PROVE  FirstInputs(i, Declared(i))
<1>1. /\ TypeOK /\ Len(results) \in Nat /\ i - 1 \in 0..Len(results) /\ i \in Steps
      /\ \A k \in 1..Len(results) : results[k].made \in Nat
    BY Counts DEF Shape, pos, Steps, StepResult
<1>2. CASE plan[i].external
    BY <1>2 DEF Declared, FirstInputs
<1>3. CASE ~plan[i].external /\ plan[i].from # <<>>
  <2>1. \A j \in 1..Len(plan[i].from) :
          plan[i].from[j] \in 1..(i - 1) /\ plan[i].from[j] \in 1..Len(results)
      BY <1>1, <1>3 DEF Resolved
  <2>2. Declared(i) = [j \in 1..Len(plan[i].from) |-> results[plan[i].from[j]].made]
      BY <1>3 DEF Declared
  <2> QED
      BY <1>1, <1>3, <2>1, <2>2 DEF FirstInputs
<1>4. CASE ~plan[i].external /\ plan[i].from = <<>> /\ pipe.chain /\ i > 1
  <2>1. i - 1 \in 1..Len(results)
      BY <1>1, <1>4
  <2>2. ASSUME NEW m \in GoodOf(1, i - 1) \ rejected
        PROVE  Declared(i) = IF calls[m].outcome = "ok" THEN <<m>> ELSE <<>>
    <3>1. m = results[i - 1].made /\ results[i - 1].status = "SUCCEEDED" /\ m > 0
        BY <2>1, <2>2 DEF GoodOf
    <3> QED
        BY <1>4, <3>1 DEF Declared, AssetsOf
  <2> QED
      BY <1>4, <2>2 DEF FirstInputs
<1>5. CASE ~plan[i].external /\ plan[i].from = <<>> /\ ~(pipe.chain /\ i > 1)
    BY <1>5 DEF Declared, FirstInputs
<1> QED
    BY <1>2, <1>3, <1>4, <1>5

(* There is one such answer, if the first run made something for each      *)
(* upstream step.                                                          *)
LEMMA FirstUnique ==
  ASSUME NEW i \in Nat, NEW a, NEW b, FirstInputs(i, a), FirstInputs(i, b),
         \A up \in 1..(i - 1) : GoodOf(1, up) \ rejected # {}
  PROVE  a = b
<1>1. CASE plan[i].external
    BY <1>1 DEF FirstInputs
<1>2. CASE ~plan[i].external /\ plan[i].from # <<>>
  <2>1. /\ a \in [1..Len(plan[i].from) -> Nat] /\ b \in [1..Len(plan[i].from) -> Nat]
      BY <1>2 DEF FirstInputs
  <2>2. ASSUME NEW j \in 1..Len(plan[i].from) PROVE a[j] = b[j]
    <3>1. PICK m \in GoodOf(1, plan[i].from[j]) : TRUE
        BY <1>2 DEF FirstInputs
    <3> QED
        BY <1>2, <3>1 DEF FirstInputs
  <2> QED
      BY <2>1, <2>2
<1>3. CASE ~plan[i].external /\ plan[i].from = <<>> /\ pipe.chain /\ i > 1
  <2>1. PICK m \in GoodOf(1, i - 1) \ rejected : TRUE
      BY <1>3
  <2> QED
      BY <1>3, <2>1 DEF FirstInputs
<1>4. CASE ~plan[i].external /\ plan[i].from = <<>> /\ ~(pipe.chain /\ i > 1)
    BY <1>4 DEF FirstInputs
<1> QED
    BY <1>1, <1>2, <1>3, <1>4

(* The first run keeps asking for what it made so far, and no later run    *)
(* changes what that was.                                                  *)
LEMMA FirstAskedKept ==
  ASSUME Account, Ledgers, Superseded, FirstAsked, [Next]_vars
  PROVE  FirstAsked'
<1>1. /\ Shape /\ TypeOK /\ Place /\ Len(calls) \in Nat /\ pipe' = pipe /\ plan' = plan
      /\ rejected \subseteq rejected' /\ \A n \in 1..Len(calls) : calls[n].pos \in 1..N
  <2>1. Shape /\ TypeOK /\ Place /\ Len(calls) \in Nat
      BY Counts DEF Account, Shape
  <2>2. NextRound => pipe' = pipe
      BY DEF NextRound
  <2>3. pipe' = pipe /\ plan' = plan
      BY <2>1, <2>2, ResultsGrow DEF plan
  <2>4. rejected \subseteq rejected'
      BY DEF Next, vars, StepBegins, StepPrefails, PromptRejected, PromptAllowed, CacheHit,
         CacheMiss, Invoke, OutputRejected, OutputAccepted, GenerationFailed, Record, Raises,
         Finalize, NextRound, Done
  <2> QED
      BY <2>1, <2>3, <2>4, Counts DEF ProviderCall, Steps
<1>2. ASSUME NEW i \in 1..N, NEW inputs, FirstInputs(i, inputs),
             \A up \in 1..(i - 1) : GoodOf(1, up)' = GoodOf(1, up)
      PROVE  FirstInputs(i, inputs)'
  <2>1. \A up \in 1..(i - 1) : \A m \in GoodOf(1, up) : calls'[m] = calls[m]
      BY <1>1, CallsGrow DEF GoodOf
  <2>2. CASE plan[i].external \/ (plan[i].from = <<>> /\ ~(pipe.chain /\ i > 1))
      BY <1>1, <1>2, <2>2 DEF FirstInputs
  <2>3. CASE ~plan[i].external /\ plan[i].from # <<>>
      BY <1>1, <1>2, <2>3 DEF FirstInputs
  <2>4. CASE ~plan[i].external /\ plan[i].from = <<>> /\ pipe.chain /\ i > 1
    <3>1. i - 1 \in 1..(i - 1)
        BY <2>4, RunAssumption
    <3>2. \A m \in GoodOf(1, i - 1)' \ rejected' :
            m \in GoodOf(1, i - 1) \ rejected /\ calls'[m] = calls[m]
        BY <1>1, <1>2, <2>1, <3>1
    <3> QED
        BY <1>1, <1>2, <2>4, <3>2 DEF FirstInputs
  <2> QED
      BY <2>2, <2>3, <2>4
<1>3. ASSUME NEW n \in 1..Len(calls), calls[n].round = 1
      PROVE  FirstInputs(calls[n].pos, calls[n].key.inputs)'
  <2>1. PICK i \in 1..N, inputs \in {calls[n].key.inputs} : i = calls[n].pos
      BY <1>1, <1>3
  <2>2. FirstInputs(i, inputs)
      BY <1>3, <2>1 DEF FirstAsked
  <2>3. ASSUME NEW up \in 1..(i - 1) PROVE GoodOf(1, up)' = GoodOf(1, up)
    <3>1. Invoke => 1 # round \/ up # pos
        BY <1>1, <1>3, <2>1, <2>3, RunAssumption DEF Ledgers, Invoke
    <3>2. up \in Nat
        BY <2>3
    <3> QED
        BY <1>1, <3>1, <3>2, GoodKept
  <2>4. FirstInputs(i, inputs)'
      BY <1>2, <2>2, <2>3
  <2>5. calls'[n] = calls[n]
      BY <1>1, CallsGrow
  <2> QED
      BY <2>1, <2>4, <2>5
<1>4. CASE Invoke
  <2> DEFINE n == Len(calls) + 1
  <2>1. /\ Len(calls') = n
        /\ calls'[n].round = round /\ calls'[n].pos = pos /\ calls'[n].key = cur.key
      BY <1>1, <1>4, Invoked
  <2>2. /\ Working /\ pc = "invoke" /\ pos \in 1..N
        /\ Resolved(pos) /\ cur.key.inputs = Declared(pos)
      BY <1>1, <1>4, Counts DEF Invoke, Place, Working, Account, Asked, Steps
  <2>3. ASSUME round = 1 PROVE FirstInputs(pos, cur.key.inputs)
    <3>1. \A up \in 1..Len(results) : \A m \in GoodOf(1, up) :
            m = results[up].made /\ (results[up].status = "SUCCEEDED" \/ m \in rejected)
        BY <2>3 DEF Superseded, CallsOf, GoodOf
    <3>2. PICK i \in 1..pos : i = pos /\ i <= N
        BY <2>2
    <3>3. FirstInputs(i, Declared(i))
        BY <1>1, <2>2, <3>1, <3>2, DeclaredFirst
    <3> QED
        BY <2>2, <3>2, <3>3
  <2>4. ASSUME round = 1, NEW m \in {n}
        PROVE  FirstInputs(calls[m].pos, calls[m].key.inputs)'
    <3>1. PICK i \in 1..N, inputs \in {cur.key.inputs} : i = pos
        BY <2>2
    <3>2. \A up \in 1..(i - 1) : up \in Nat /\ up # pos
        BY <3>1
    <3>3. \A up \in 1..(i - 1) : GoodOf(1, up)' = GoodOf(1, up)
        BY <1>1, <3>2, GoodKept
    <3>4. FirstInputs(i, inputs)
        BY <2>3, <2>4, <3>1
    <3>5. FirstInputs(i, inputs)'
        BY <1>2, <3>3, <3>4
    <3>6. i = calls'[m].pos /\ inputs = calls'[m].key.inputs
        BY <2>1, <2>4, <3>1
    <3> QED
        BY <3>5, <3>6
  <2>5. \A m \in 1..Len(calls') : m = n \/ m \in 1..Len(calls)
      BY <1>1, <2>1
  <2>6. ASSUME NEW m \in 1..Len(calls'), calls'[m].round = 1
        PROVE  FirstInputs(calls[m].pos, calls[m].key.inputs)'
    <3>1. CASE m = n
      <4>1. round = 1
          BY <2>1, <2>6, <3>1
      <4> QED
          BY <2>4, <3>1, <4>1
    <3>2. CASE m \in 1..Len(calls)
        BY <1>1, <1>3, <2>6, <3>2, CallsGrow
    <3> QED
        BY <2>5, <3>1, <3>2
  <2> QED
      BY <2>6 DEF FirstAsked
<1>5. CASE calls' = calls
    BY <1>3, <1>5 DEF FirstAsked
<1> QED
    BY <1>4, <1>5
    DEF Next, vars, StepBegins, StepPrefails, PromptRejected, PromptAllowed, CacheHit,
        CacheMiss, OutputRejected, OutputAccepted, GenerationFailed, Record, Raises, Finalize,
        NextRound, Done

(* An entry keeps the key of the call behind it. *)
LEMMA EntriesKept == ASSUME Account, Entries, [Next]_vars PROVE Entries'
<1>1. Shape /\ TypeOK /\ Place /\ \A e \in cache : e.made \in 1..Len(calls)
    BY Counts DEF Account, Shape, Handed, Handable, Bound
<1>2. CASE cache' = cache
    BY <1>1, <1>2, CallsGrow DEF Entries
<1>3. CASE OutputAccepted
  <2>1. /\ cache' = {e \in cache : e.key # cur.key} \cup {Entry} /\ calls' = calls
        /\ Entry.key = cur.key /\ Entry.made = cur.made /\ pc = "post"
      BY <1>3 DEF OutputAccepted, CacheKey, Entry
  <2>2. ~RecordsParams => calls[cur.made].key = cur.key
    <3>1. /\ cur.key \in Key /\ cur.key.recorded = RecordsParams
          /\ calls[cur.made].key = [cur.key EXCEPT !.recorded = FALSE]
        BY <1>1, <2>1 DEF Place, Working, Account, MadeAsAsked
    <3>2. RecordsParams \in BOOLEAN
        BY RunAssumption
    <3> QED
        BY <3>1, <3>2 DEF Key
  <2> QED
      BY <2>1, <2>2 DEF Entries
<1> QED
    BY <1>2, <1>3
    DEF Next, vars, StepBegins, StepPrefails, PromptRejected, PromptAllowed, CacheHit,
        CacheMiss, Invoke, OutputRejected, GenerationFailed, Record, Raises, Finalize,
        NextRound, Done

(* In a rerun of a clean first run, a step is looked up under the key of   *)
(* what the first run made for it.                                         *)
LEMMA Found ==
  ASSUME Account, Superseded, PrimaryFirst, FirstAsked, Entries, ~RecordsParams, FirstRunClean,
         \A i \in 1..Len(results) :
           results[i].status = "SUCCEEDED" /\ results[i].made \in GoodOf(1, i),
         pc = "lookup",
         NEW e \in cache, calls[e.made].round = 1, calls[e.made].pos = pos
  PROVE  e.key = cur.key
<1> DEFINE key == calls[e.made].key
<1>1. /\ Shape /\ TypeOK /\ Place /\ Handed /\ Len(results) \in Nat /\ pos \in Steps /\ pos <= N
      /\ Working /\ cur.key \in Key /\ cur.tried = 0 /\ cur.key.recorded = FALSE
    BY Counts DEF Account, Shape, Place, Working
<1>2. \A f \in cache : f.made \in 1..Len(calls) /\ f.made \notin rejected
    BY <1>1, Counts DEF Handed, Handable, Bound
<1>3. e.key = key /\ key \in Key
    BY <1>1, <1>2, Counts DEF Entries, ProviderCall
<1>4. /\ Resolved(pos) /\ cur.key.prompt = plan[pos].prompt
      /\ cur.key.model = Models(pos)[1] /\ cur.key.inputs = Declared(pos)
    BY <1>1 DEF Account, Asked
<1>5. cur.key.model = plan[pos].model
  <2>1. 0 \in Nat /\ 0 <= Len(plan[pos].fallbacks)
      BY <1>1, PlanType
  <2> QED
      BY <1>1, <1>4, <2>1, ModelsType
<1>6. key.recorded = FALSE /\ key.prompt = plan[pos].prompt /\ key.model = plan[pos].model
  <2>1. ~\E m \in 1..Len(calls) : calls[m].round = 1 /\ calls[m].outcome \notin Good
      BY DEF FirstRunClean
  <2> QED
      BY <1>2, <2>1 DEF PrimaryFirst
<1>7. key.inputs = cur.key.inputs
  <2>1. PICK i \in 1..pos : i = pos /\ i <= N /\ i \in Nat
      BY <1>1, RunAssumption DEF Steps
  <2>2. FirstInputs(i, key.inputs)
      BY <1>2, <2>1 DEF FirstAsked
  <2>3. FirstInputs(i, Declared(i))
    <3>1. \A up \in 1..Len(results) : \A m \in GoodOf(1, up) :
            m = results[up].made /\ results[up].status = "SUCCEEDED"
        BY DEF Superseded, GoodOf
    <3> QED
        BY <1>1, <1>4, <2>1, <3>1, DeclaredFirst
  <2>4. ASSUME NEW up \in 1..(i - 1) PROVE GoodOf(1, up) \ rejected # {}
    <3>1. up \in Steps
        BY <1>1, <2>1, RunAssumption DEF Steps
    <3>2. PICK f \in cache : calls[f.made].round = 1 /\ calls[f.made].pos = up
        BY <3>1 DEF FirstRunClean
    <3>3. f.made \in GoodOf(1, up) \ rejected
        BY <1>2, <3>2 DEF FirstRunClean, GoodOf
    <3> QED
        BY <3>3
  <2>5. key.inputs = Declared(i)
      BY <2>1, <2>2, <2>3, <2>4, FirstUnique
  <2> QED
      BY <1>4, <2>1, <2>5
<1> QED
    BY <1>1, <1>3, <1>4, <1>5, <1>6, <1>7 DEF Key

(* A rerun stays free. *)
LEMMA FreeKept ==
  ASSUME Account, Ledgers, Superseded, PrimaryFirst, FirstAsked, Entries, Free, [Next]_vars
  PROVE  Free'
<1> SUFFICES ASSUME ~RecordsParams, FirstRunClean', round' > 1,
                    \A i \in 1..Len(results') : results'[i].status = "SUCCEEDED"
             PROVE  /\ pc' \notin {"invoke", "post"}
                    /\ \A n \in 1..Len(calls') : calls'[n].round < round'
                    /\ \A i \in 1..Len(results') : results'[i].made \in GoodOf(1, i)'
    BY DEF Free
<1>1. /\ Shape /\ TypeOK /\ Place /\ Len(results) \in Nat /\ pos = Len(results) + 1
      /\ results \in Seq(StepResult) /\ Len(calls) \in Nat /\ round \in 1..Rounds
      /\ \A e \in cache : e.made \in 1..Len(calls)
      /\ \A n \in 1..Len(calls) : calls[n].round \in 1..Rounds
  <2>1. Shape /\ TypeOK /\ Place /\ Handed
      BY DEF Account, Shape
  <2>2. results \in Seq(StepResult) /\ round \in 1..Rounds /\ Len(results) \in Nat
      BY <2>1 DEF TypeOK
  <2>3. \A n \in 1..Len(calls) : calls[n].round \in 1..Rounds
      BY <2>1, Counts DEF ProviderCall
  <2>4. Len(calls) \in Nat
      BY <2>1, Counts
  <2>5. \A e \in cache : e.made \in 1..Len(calls)
      BY <2>1, <2>4 DEF Handed, Handable, Bound
  <2> QED
      BY <2>1, <2>2, <2>3, <2>4, <2>5 DEF pos
<1>2. CASE NextRound
  <2>1. round' = round + 1 /\ calls' = calls /\ results' = <<>> /\ pc' = "loop"
      BY <1>2 DEF NextRound
  <2>2. \A n \in 1..Len(calls) : calls[n].round < round'
      BY <1>1, <2>1, RunAssumption DEF Ledgers
  <2> QED
      BY <2>1, <2>2
<1>3. CASE ~NextRound
  <2>1. /\ UNCHANGED <<pipe, round>> /\ plan' = plan
        /\ results' = results \/ Len(results') = Len(results) + 1
        /\ \A i \in 1..Len(results) : results'[i] = results[i]
        /\ \A n \in 1..Len(calls) : calls'[n] = calls[n] /\ n \in 1..Len(calls')
      BY <1>1, <1>3, ResultsGrow, CallsGrow DEF plan
  <2>2. FirstRunClean
    <3>1. \A n \in 1..Len(calls) : calls[n].round = 1 => calls[n].outcome \in Good
        BY <2>1 DEF FirstRunClean
    <3>2. ASSUME NEW i \in Steps
          PROVE  \E e \in cache : calls[e.made].round = 1 /\ calls[e.made].pos = i
      <4>1. PICK e \in cache' : calls'[e.made].round = 1 /\ calls'[e.made].pos = i
          BY DEF FirstRunClean
      <4>2. CASE e \in cache
          BY <1>1, <2>1, <4>1, <4>2
      <4>3. CASE OutputAccepted /\ e = Entry
        <5>1. calls' = calls /\ e.made = cur.made /\ pc = "post"
            BY <4>3 DEF OutputAccepted, Entry
        <5>2. calls[cur.made].round = round
            BY <5>1 DEF Account, MadeAsAsked
        <5> QED
            BY <2>1, <4>1, <5>1, <5>2
      <4> QED
          BY <4>2, <4>3
          DEF Next, vars, StepBegins, StepPrefails, PromptRejected, PromptAllowed, CacheHit,
              CacheMiss, Invoke, OutputRejected, OutputAccepted, GenerationFailed, Record,
              Raises, Finalize, NextRound, Done
    <3> QED
        BY <3>1, <3>2 DEF FirstRunClean
  <2>3. /\ pc \notin {"invoke", "post"}
        /\ \A n \in 1..Len(calls) : calls[n].round < round
        /\ \A i \in 1..Len(results) :
             results[i].status = "SUCCEEDED" /\ results[i].made \in GoodOf(1, i)
    <3>1. \A i \in 1..Len(results) : i \in 1..Len(results')
        BY <1>1, <2>1
    <3> QED
        BY <2>1, <2>2, <3>1 DEF Free
  <2>4. ASSUME pc = "lookup"
        PROVE  \E e \in cache : e.key = cur.key /\ e.made \in GoodOf(1, pos)
    <3>1. pos \in Steps
        BY <1>1, <2>4, Counts DEF Place, Working
    <3>2. PICK e \in cache : calls[e.made].round = 1 /\ calls[e.made].pos = pos
        BY <2>2, <3>1 DEF FirstRunClean
    <3>3. e.key = cur.key
        BY <2>2, <2>3, <2>4, <3>2, Found
    <3>4. e.made \in GoodOf(1, pos)
        BY <1>1, <2>2, <3>2 DEF FirstRunClean, GoodOf
    <3> QED
        BY <3>3, <3>4
  <2>5. CASE CacheHit
    <3>1. PICK e \in cache :
            /\ e.key = cur.key
            /\ Completes([status |-> "SUCCEEDED", made |-> e.made, ledger |-> e.ledger])
        BY <2>5 DEF CacheHit
    <3>2. UNCHANGED calls /\ pc' = "record"
        BY <2>5, <3>1 DEF CacheHit, Completes
    <3>3. e.made \in GoodOf(1, pos)
        BY <2>4, <2>5, <3>1 DEF CacheHit, Entries
    <3> DEFINE r == [status |-> "SUCCEEDED", made |-> e.made, ledger |-> e.ledger]
    <3>4. results'[pos] = r /\ Len(results') = pos
        BY <1>1, <3>1, Appended DEF Completes
    <3>5. results'[pos].made = e.made
        BY <3>4
    <3>6. ASSUME NEW i \in 1..Len(results') PROVE results'[i].made \in GoodOf(1, i)'
      <4>1. GoodOf(1, i)' = GoodOf(1, i)
          BY <3>2 DEF GoodOf
      <4>2. CASE i = pos
          BY <3>3, <3>5, <4>1, <4>2
      <4>3. CASE i \in 1..Len(results)
          BY <2>1, <2>3, <4>1, <4>3
      <4> QED
          BY <1>1, <3>4, <4>2, <4>3
    <3> QED
        BY <2>1, <2>3, <3>2, <3>6
  <2>6. CASE StepPrefails \/ PromptRejected
    <3>1. results' = Append(results, Fails)
        BY <2>6 DEF StepPrefails, PromptRejected, Completes
    <3>2. results'[pos] = Fails /\ pos \in 1..Len(results')
        BY <1>1, <3>1, Appended
    <3> QED
        BY <3>2 DEF Fails
  <2>7. CASE UNCHANGED <<calls, results>> /\ pc' \notin {"invoke", "post"}
      BY <2>1, <2>3, <2>7 DEF GoodOf
  <2>8. CASE UNCHANGED vars
      BY <2>3, <2>7, <2>8 DEF vars
  <2> QED
      BY <1>3, <2>3, <2>4, <2>5, <2>6, <2>7, <2>8
      DEF Next, StepBegins, PromptAllowed, CacheMiss, Invoke, OutputRejected, OutputAccepted,
          GenerationFailed, Record, Raises, Finalize, Done
<1> QED
    BY <1>2, <1>3

(* A rerun of a pipeline whose first run was clean calls no provider while *)
(* its steps succeed, whatever the first run's steps handed to each other, *)
(* unless the provider adds to the params that the key is made of.         *)
THEOREM RerunsAreFree == ASSUME ~RecordsParams PROVE Spec => []RerunIsFree
<1> DEFINE Rerun == Superseded /\ PrimaryFirst /\ FirstAsked /\ Entries /\ Free
<1>1. Init => Rerun
  <2>1. Len(<<>>) = 0
      OBVIOUS
  <2> QED
      BY <2>1 DEF Init, Superseded, PrimaryFirst, FirstAsked, Entries, Free
<1>2. Account /\ Ledgers /\ Rerun /\ [Next]_vars => Rerun'
    BY SupersededKept, PrimaryKept, FirstAskedKept, EntriesKept, FreeKept DEF Account
<1>3. Rerun => RerunIsFree
    BY DEF Free, RerunIsFree
<1> QED
    BY <1>1, <1>2, <1>3, AccountInvariance, LedgersInvariance, PTL DEF Spec

=============================================================================
