--------------------------- MODULE SequentialRun ---------------------------
(***************************************************************************)
(* Pipeline.run(), and arun() of a chained pipeline or of one with         *)
(* input_from: steps one after the other, each one moderated, looked up in *)
(* the StepCache, generated, retried on the fallback models, moderated     *)
(* again and cached.  Rounds runs of the pipeline follow one another and   *)
(* share the cache.                                                        *)
(*                                                                         *)
(* Provider calls are numbered; the asset a call made is the call's        *)
(* number.  A cache key is what identifies the output a step asks for: the *)
(* model, the prompt (which stands for every other static field, external  *)
(* inputs included), the params the provider recorded, and the inputs.     *)
(***************************************************************************)
EXTENDS Naturals, Sequences

CONSTANTS
  N,              \* steps of a pipeline
  Pipelines,      \* the pipelines considered: [steps, chain, failFast, moderated]
  RecordsParams,  \* the provider adds what it submitted to step.params
  MayRaise,       \* a timeout, a cache that cannot be written, a bug: the run aborts
  Rounds

Steps == 1..N

ASSUME PipelinesAssumption ==
  \A p \in Pipelines :
    /\ {p.chain, p.failFast, p.moderated} \subseteq BOOLEAN
    /\ Len(p.steps) = N
    /\ \A i \in Steps :
         /\ p.steps[i].model \in STRING
         /\ p.steps[i].fallbacks \in Seq(STRING)
         /\ p.steps[i].from \in Seq(Nat)
         /\ p.steps[i].external \in BOOLEAN
ASSUME RunAssumption ==
  /\ {RecordsParams, MayRaise} \subseteq BOOLEAN
  /\ {N, Rounds} \subseteq Nat \ {0}

VARIABLES
  pipe,      \* the pipeline
  round,     \* which run this is
  pc,        \* where the run is
  cur,       \* the step being executed
  results,   \* completed_steps
  prev,      \* prev_assets
  calls,     \* every provider call: [round, pos, key, outcome]
  cache,     \* the StepCache: entries [key, made, ledger]
  rejected,  \* calls whose output moderation rejected
  reported,  \* per step: nothing, step.started, or the reported status
  end        \* the terminal event of the run

vars == <<pipe, round, pc, cur, results, prev, calls, cache, rejected, reported, end>>

plan == pipe.steps

Idle == [key |-> <<>>, tried |-> 0, ledger |-> <<>>, made |-> 0]

pos == Len(results) + 1

Statuses == {"SUCCEEDED", "FAILED"}
Outcomes == {"ok", "empty", "MODEL_ERROR", "error"}
Good == {"ok", "empty"}

Prompts == {p.steps[i].prompt : p \in Pipelines, i \in Steps}

Key == [model : STRING, prompt : Prompts, recorded : BOOLEAN, inputs : Seq(Nat)]
StepResult == [status : Statuses, made : Nat, ledger : Seq(Nat)]
ProviderCall == [round : 1..Rounds, pos : Steps, key : Key, outcome : Outcomes]
CacheEntry == [key : Key, made : Nat, ledger : {<<>>}]

TypeOK ==
  /\ pipe \in Pipelines
  /\ round \in 1..Rounds
  /\ pc \in {"loop", "moderate", "lookup", "invoke", "post", "record", "ended"}
  /\ cur \in [key : Key \cup {<<>>}, tried : Nat, ledger : Seq(Nat), made : Nat]
  /\ results \in Seq(StepResult)
  /\ Len(results) <= N
  /\ prev \in Seq(Nat)
  /\ calls \in Seq(ProviderCall)
  /\ cache \subseteq CacheEntry
  /\ rejected \subseteq Nat
  /\ reported \in [1..Rounds -> [Steps -> {"none", "started"} \cup Statuses]]
  /\ end \in [1..Rounds -> {"none", "completed", "failed"}]

Init ==
  /\ pipe \in Pipelines
  /\ round = 1
  /\ pc = "loop"
  /\ cur = Idle
  /\ results = <<>>
  /\ prev = <<>>
  /\ calls = <<>>
  /\ cache = {}
  /\ rejected = {}
  /\ reported = [r \in 1..Rounds |-> [i \in Steps |-> "none"]]
  /\ end = [r \in 1..Rounds |-> "none"]

-----------------------------------------------------------------------------
(* What a result hands to the steps after it. *)
AssetsOf(result) ==
  IF result.made > 0 /\ calls[result.made].outcome = "ok" THEN <<result.made>> ELSE <<>>

(* _resolve_inputs() finds what input_from names. *)
Resolvable(i) ==
  \A j \in 1..Len(plan[i].from) :
    LET up == plan[i].from[j]
    IN  /\ up \in 1..(i - 1)
        /\ results[up].status = "SUCCEEDED"
        /\ AssetsOf(results[up]) # <<>>

Inputs_ChainFirst(i) ==
  IF plan[i].external THEN <<>>
  ELSE IF pipe.chain THEN prev
  ELSE [j \in 1..Len(plan[i].from) |-> results[plan[i].from[j]].made]

(* External inputs, else the named upstream steps, else the previous step. *)
Inputs(i) ==
  IF plan[i].external THEN <<>>
  ELSE IF plan[i].from # <<>>
       THEN [j \in 1..Len(plan[i].from) |-> results[plan[i].from[j]].made]
  ELSE IF pipe.chain THEN prev ELSE <<>>

(* The models a step may be generated with, in the order they are tried. *)
Models(i) == <<plan[i].model>> \o plan[i].fallbacks

(* step_cache_key() *)
KeyOf(i, tried, inputs, recorded) ==
  [model |-> Models(i)[tried + 1], prompt |-> plan[i].prompt,
   recorded |-> recorded, inputs |-> inputs]

-----------------------------------------------------------------------------
(* The loop. *)

Over ==
  \/ pos > N
  \/ pipe.failFast /\ \E i \in 1..Len(results) : results[i].status = "FAILED"

Fails == [status |-> "FAILED", made |-> 0, ledger |-> <<>>]

(* The step is built and announced, its inputs being there. *)
StepBegins ==
  /\ pc = "loop"
  /\ ~Over
  /\ plan[pos].external \/ Resolvable(pos)
  /\ cur' = [Idle EXCEPT !.key = KeyOf(pos, 0, Inputs(pos), FALSE)]
  /\ reported' = [reported EXCEPT ![round][pos] = "started"]
  /\ pc' = "moderate"
  /\ UNCHANGED <<pipe, round, results, prev, calls, cache, rejected, end>>

(* A step whose upstream failed is announced and fails without a call. *)
StepPrefails ==
  /\ pc = "loop"
  /\ ~Over
  /\ ~plan[pos].external
  /\ ~Resolvable(pos)
  /\ reported' = [reported EXCEPT ![round][pos] = "started"]
  /\ results' = Append(results, Fails)
  /\ pc' = "record"
  /\ UNCHANGED <<pipe, round, cur, prev, calls, cache, rejected, end>>

Completes(result) ==
  /\ results' = Append(results, result)
  /\ pc' = "record"

(* The prompt is rejected, or the hook raises: no lookup, no call. *)
PromptRejected ==
  /\ pc = "moderate"
  /\ pipe.moderated
  /\ Completes(Fails)
  /\ UNCHANGED <<pipe, round, cur, prev, calls, cache, rejected, reported, end>>

PromptAllowed ==
  /\ pc = "moderate"
  /\ pc' = "lookup"
  /\ UNCHANGED <<pipe, round, cur, results, prev, calls, cache, rejected, reported, end>>

(* The recorded Step is returned as it is. *)
CacheHit ==
  /\ pc = "lookup"
  /\ \E e \in cache :
       /\ e.key = cur.key
       /\ Completes([status |-> "SUCCEEDED", made |-> e.made, ledger |-> e.ledger])
  /\ UNCHANGED <<pipe, round, cur, prev, calls, cache, rejected, reported, end>>

CacheMiss ==
  /\ pc = "lookup"
  /\ \A e \in cache : e.key # cur.key
  /\ pc' = "invoke"
  /\ UNCHANGED <<pipe, round, cur, results, prev, calls, cache, rejected, reported, end>>

(* More models are tried while the primary ended in MODEL_ERROR, whatever  *)
(* the fallbacks end in.                                                   *)
TriesNext(tried, outcome) ==
  /\ tried < Len(plan[pos].fallbacks)
  /\ outcome \notin Good
  /\ (tried > 0 \/ outcome = "MODEL_ERROR")

(* The superseded failures of the step so far. *)
Ledger(ledger, n) == Append(ledger, n)

(* provider.invoke() with the primary or with a fallback model. *)
Invoke ==
  /\ pc = "invoke"
  /\ \E outcome \in Outcomes :
       LET n == Len(calls) + 1
           again == TriesNext(cur.tried, outcome)
           \* the attempt's params, as the provider leaves them
           left == [cur.key EXCEPT !.recorded = RecordsParams]
       IN  /\ calls' = Append(calls, [round |-> round, pos |-> pos, key |-> cur.key,
                                      outcome |-> outcome])
           /\ pc' = IF again THEN "invoke" ELSE "post"
           /\ cur' = IF again
                     THEN [key |-> KeyOf(pos, cur.tried + 1, cur.key.inputs, FALSE),
                           tried |-> cur.tried + 1,
                           ledger |-> Ledger(cur.ledger, n),
                           made |-> 0]
                     ELSE [cur EXCEPT !.key = left, !.made = n]
  /\ UNCHANGED <<pipe, round, results, prev, cache, rejected, reported, end>>

Result(status) ==
  [status |-> status, made |-> cur.made, ledger |-> cur.ledger]

CacheKey_AsSubmitted == [cur.key EXCEPT !.recorded = TRUE]

(* The key the result is stored under: that of the attempt that succeeded. *)
CacheKey == cur.key

(* A cached result leaves the failed attempts of this run out. *)
Entry == [key |-> CacheKey, made |-> cur.made, ledger |-> <<>>]

OutputRejected_Cached ==
  /\ pc = "post"
  /\ pipe.moderated
  /\ calls[cur.made].outcome = "ok"
  /\ rejected' = rejected \cup {cur.made}
  /\ cache' = {e \in cache : e.key # CacheKey} \cup {Entry}
  /\ Completes(Result("FAILED"))
  /\ UNCHANGED <<pipe, round, cur, prev, calls, reported, end>>

(* Output moderation rejects, or its hook raises: FAILED, not cached. *)
OutputRejected ==
  /\ pc = "post"
  /\ pipe.moderated
  /\ calls[cur.made].outcome = "ok"
  /\ rejected' = rejected \cup {cur.made}
  /\ Completes(Result("FAILED"))
  /\ UNCHANGED <<pipe, round, cur, prev, calls, cache, reported, end>>

OutputAccepted ==
  /\ pc = "post"
  /\ calls[cur.made].outcome \in Good
  /\ cache' = {e \in cache : e.key # CacheKey} \cup {Entry}
  /\ Completes(Result("SUCCEEDED"))
  /\ UNCHANGED <<pipe, round, cur, prev, calls, rejected, reported, end>>

GenerationFailed ==
  /\ pc = "post"
  /\ calls[cur.made].outcome \notin Good
  /\ Completes(Result("FAILED"))
  /\ UNCHANGED <<pipe, round, cur, prev, calls, cache, rejected, reported, end>>

(* prev_assets after a step: nothing after a failure. *)
PrevAssets(result) ==
  IF result.status = "SUCCEEDED" THEN AssetsOf(result) ELSE <<>>

(* The sink, the callback and the event learn of the result. *)
Record ==
  LET i == Len(results)
  IN  /\ pc = "record"
      /\ reported' = [reported EXCEPT ![round][i] = results[i].status]
      /\ prev' = IF pipe.chain THEN PrevAssets(results[i]) ELSE prev
      /\ cur' = Idle
      /\ pc' = "loop"
      /\ UNCHANGED <<pipe, round, results, calls, cache, rejected, end>>

(* What the results of the steps that ran say. *)
RunStatus ==
  IF \A i \in 1..Len(results) : results[i].status = "SUCCEEDED" THEN "completed" ELSE "failed"

Raises_InfersStatus ==
  /\ MayRaise
  /\ pc \in {"loop", "invoke", "post"}
  /\ cur' = Idle
  /\ end' = [end EXCEPT ![round] = RunStatus]
  /\ pc' = "ended"
  /\ UNCHANGED <<pipe, round, results, prev, calls, cache, rejected, reported>>

(* Something raises out of the loop; the finally block still ends the run. *)
Raises ==
  /\ MayRaise
  /\ pc \in {"loop", "invoke", "post"}
  /\ cur' = Idle
  /\ end' = [end EXCEPT ![round] = "failed"]
  /\ pc' = "ended"
  /\ UNCHANGED <<pipe, round, results, prev, calls, cache, rejected, reported>>

(* The manifest is built and the sink writes it; a SinkError fails a run   *)
(* whose steps all succeeded.                                              *)
Finalize ==
  /\ pc = "loop"
  /\ Over
  /\ \E status \in {RunStatus} \cup (IF MayRaise THEN {"failed"} ELSE {}) :
       end' = [end EXCEPT ![round] = status]
  /\ pc' = "ended"
  /\ UNCHANGED <<pipe, round, cur, results, prev, calls, cache, rejected, reported>>

(* The pipeline is run again. *)
NextRound ==
  /\ pc = "ended"
  /\ round < Rounds
  /\ round' = round + 1
  /\ pc' = "loop"
  /\ results' = <<>>
  /\ prev' = <<>>
  /\ UNCHANGED <<pipe, cur, calls, cache, rejected, reported, end>>

(* The last run has ended. *)
Done == pc = "ended" /\ round = Rounds /\ UNCHANGED vars

Next ==
  \/ StepBegins \/ StepPrefails
  \/ PromptRejected \/ PromptAllowed
  \/ CacheHit \/ CacheMiss
  \/ Invoke
  \/ OutputRejected \/ OutputAccepted \/ GenerationFailed
  \/ Record \/ Raises \/ Finalize
  \/ NextRound \/ Done

Spec == Init /\ [][Next]_vars

-----------------------------------------------------------------------------
(* A cached output is one that was generated for exactly what the key asks *)
(* for, whichever model was tried first.                                   *)
CacheSound ==
  \A e \in cache :
    LET made == calls[e.made]
    IN  /\ made.outcome \in Good
        /\ <<made.key.model, made.key.prompt, made.key.inputs>> =
             <<e.key.model, e.key.prompt, e.key.inputs>>

(* The inputs step i declares, from what its upstream steps came to. *)
Declared(i) ==
  IF plan[i].external THEN <<>>
  ELSE IF plan[i].from # <<>>
       THEN [j \in 1..Len(plan[i].from) |-> results[plan[i].from[j]].made]
  ELSE IF pipe.chain /\ i > 1 /\ results[i - 1].status = "SUCCEEDED"
       THEN AssetsOf(results[i - 1]) ELSE <<>>

(* The provenance a manifest states is true: what a step returns, fresh or *)
(* from the cache, was generated for its prompt, by one of its models,     *)
(* from the outputs that this run's upstream steps returned.               *)
ProvenanceTrue ==
  \A i \in 1..Len(results) : results[i].status = "SUCCEEDED" =>
    LET key == calls[results[i].made].key
    IN  /\ key.prompt = plan[i].prompt
        /\ \E m \in 1..Len(Models(i)) : key.model = Models(i)[m]
        /\ key.inputs = Declared(i)

(* The failed-attempt ledger of a result lists the provider calls that     *)
(* this run made for the step and superseded, no other run's.              *)
LedgerComplete ==
  \A i \in 1..Len(results) :
    {results[i].ledger[a] : a \in 1..Len(results[i].ledger)} =
      {n \in 1..Len(calls) : calls[n].round = round /\ calls[n].pos = i} \ {results[i].made}

(* What the run records and caches is what happened. *)
RecordsAreTrue == ProvenanceTrue /\ CacheSound /\ LedgerComplete

(* An output that moderation rejected is not returned as a success, by     *)
(* this run or by a later one, and nothing is generated from it.           *)
RejectedStaysOut ==
  /\ \A i \in 1..Len(results) :
       results[i].made \in rejected => results[i].status = "FAILED"
  /\ \A n \in 1..Len(calls) :
       \A j \in 1..Len(calls[n].key.inputs) : calls[n].key.inputs[j] \notin rejected

(* The first run generated every step at the first attempt and cached it. *)
FirstRunClean ==
  /\ \A n \in 1..Len(calls) : calls[n].round = 1 => calls[n].outcome \in Good
  /\ \A i \in Steps : \E e \in cache : calls[e.made].round = 1 /\ calls[e.made].pos = i

(* A rerun of a pipeline that succeeded calls no provider while its own    *)
(* steps succeed: the cache holds every step, under the key the rerun      *)
(* computes.                                                               *)
RerunIsFree ==
  FirstRunClean /\ round > 1 /\ (\A i \in 1..Len(results) : results[i].status = "SUCCEEDED")
    => \A n \in 1..Len(calls) : calls[n].round < round

Contract(r) == INSTANCE RunContract WITH reported <- reported[r], end <- end[r]

(* What each run emits is what an observer of a run is promised. *)
ImplementsContract ==
  /\ \A r \in 1..Rounds : Contract(r)!Init
  /\ [][\A r \in 1..Rounds : [Contract(r)!Next]_<<reported[r], end[r]>>]_vars

=============================================================================
