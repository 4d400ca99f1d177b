------------------------------ MODULE Rebuild ------------------------------
(* A pipeline that is built step by step, run, and built again: from a        *)
(* PipelineTemplate made of it (pipeline/template.py), which describes the    *)
(* pipeline, or by the replay command (cli/genblaze_cli/commands/replay.py)   *)
(* from the manifest, which describes the run and has to be read backwards:   *)
(* where a step's inputs came from is recorded for input_from only, and what  *)
(* remains of chain=True is that every step but the first had inputs.         *)
(*                                                                            *)
(* An asset is the number of the step that made it.  A step is reduced to     *)
(* where its inputs come from and which models it may use; its prompt and     *)
(* parameters are carried over as they are.                                   *)
EXTENDS Naturals, Sequences

CONSTANTS
  Plans,     \* what step() may be called with: [from, external, fallback, takes]
  MaxSteps,
  Worlds     \* what becomes of the steps: "ok", "empty", "MODEL_ERROR" of the
             \* first model only, or "error", by the number of the step

VARIABLES
  pipe,      \* the pipeline: [chain, failFast, steps]
  world,     \* what its providers do
  run,       \* the steps in the manifest of its run, or those so far refused
  via,       \* how it is built again: "template" or "replay"
  again,     \* the pipeline that was built again
  rerun      \* its run

vars == <<pipe, world, run, via, again, rerun>>

Outside == 0    \* an asset the caller holds

Nothing == [status |-> "nothing", steps |-> <<>>]
NoPipe == [chain |-> FALSE, failFast |-> TRUE, steps |-> <<>>]

(* A "from" is an option: {} for None, else the set of the one list.          *)
Routed(plan) == plan.from # {}
Sources(plan) == CHOOSE list \in plan.from : TRUE

-----------------------------------------------------------------------------
(* Pipeline.step() *)

(* External inputs and input_from exclude each other; an empty list of        *)
(* external inputs is none.  What is named is checked when the step is run.   *)
Accepted(plan) == ~(plan.external /\ Routed(plan))

(* _check_step_capabilities(): no step may be handed inputs that its          *)
(* provider does not take.                                                    *)
Capable(p) ==
  \A i \in 1..Len(p.steps) :
    LET plan == p.steps[i]
    IN  plan.external \/ (p.chain /\ i > 1) \/ Routed(plan) => plan.takes

-----------------------------------------------------------------------------
(* Pipeline.run(), without what SequentialRun adds: callbacks, moderation,    *)
(* a cache.                                                                   *)

Good(step) == step.status = "SUCCEEDED"

(* _resolve_inputs(): input_from names earlier steps that made something.     *)
Resolves(plan, i, done) ==
  \A j \in 1..Len(Sources(plan)) :
    LET up == Sources(plan)[j] IN up \in 1..(i - 1) /\ Good(done[up]) /\ done[up].assets # <<>>

Inputs(p, i, done) ==
  LET plan == p.steps[i]
  IN  IF plan.external THEN <<Outside>>
      ELSE IF Routed(plan) THEN Sources(plan)
      ELSE IF p.chain /\ i > 1 THEN done[i - 1].assets
      ELSE <<>>

(* What the provider is asked for, and what becomes of it.  A model that is   *)
(* not the first is a fallback.                                               *)
Record(p, i, inputs, rescued, status, assets) ==
  LET plan == p.steps[i]
  IN  [from |-> plan.from, fallback |-> plan.fallback,
       model |-> IF rescued THEN "fallback" ELSE plan.model,
       inputs |-> inputs, status |-> status, assets |-> assets]

Executed(p, i, done) ==
  LET plan == p.steps[i]
      inputs == Inputs(p, i, done)
      rescued == world[i] = "MODEL_ERROR" /\ plan.model = "first" /\ plan.fallback
  IN  IF ~plan.external /\ Routed(plan) /\ ~Resolves(plan, i, done)
      THEN Record(p, i, <<>>, FALSE, "FAILED", <<>>)
      ELSE CASE world[i] = "ok"    -> Record(p, i, inputs, FALSE, "SUCCEEDED", <<i>>)
             [] world[i] = "empty" -> Record(p, i, inputs, FALSE, "SUCCEEDED", <<>>)
             [] rescued            -> Record(p, i, inputs, TRUE, "SUCCEEDED", <<i>>)
             [] world[i] = "MODEL_ERROR" /\ plan.model # "first" ->
                                      Record(p, i, inputs, FALSE, "SUCCEEDED", <<i>>)
             [] OTHER              -> Record(p, i, inputs, FALSE, "FAILED", <<>>)

(* The steps that are run, in order; fail_fast stops at the first failure.    *)
Steps(p) ==
  LET after[n \in 0..Len(p.steps)] ==
        IF n = 0 THEN <<>>
        ELSE LET done == after[n - 1]
             IN  IF p.failFast /\ \E i \in 1..Len(done) : ~Good(done[i]) THEN done
                 ELSE Append(done, Executed(p, n, done))
  IN  after[Len(p.steps)]

RunOf(p) ==
  IF Capable(p) THEN [status |-> "run", steps |-> Steps(p)]
  ELSE [status |-> "refused", steps |-> <<>>]

-----------------------------------------------------------------------------
(* to_template() and instantiate() *)

(* A template of a pipeline with external inputs is refused.                  *)
Describable(p) == \A i \in 1..Len(p.steps) : ~p.steps[i].external

FromTemplate(p) == [p EXCEPT !.failFast = TRUE]

-----------------------------------------------------------------------------
(* replay *)

Chained_EveryStep(steps) ==
  /\ \A i \in 1..Len(steps) : steps[i].from = {}
  /\ Len(steps) > 1
  /\ \A i \in 1..Len(steps) : steps[i].inputs # <<>>

(* _detect_chain_mode() *)
Chained(steps) ==
  /\ \A i \in 1..Len(steps) : steps[i].from = {}
  /\ Len(steps) > 1
  /\ \A i \in 2..Len(steps) : steps[i].inputs # <<>>

(* Whether the provider takes inputs is the provider's to say, not the        *)
(* manifest's; a step names its fallback models in its metadata.              *)
Replayed(steps) ==
  [chain |-> Chained(steps), failFast |-> TRUE,
   steps |-> [i \in 1..Len(steps) |->
                [from |-> steps[i].from, external |-> FALSE, model |-> steps[i].model,
                 fallback |-> steps[i].fallback, takes |-> pipe.steps[i].takes]]]

-----------------------------------------------------------------------------
Init ==
  /\ pipe \in [chain : BOOLEAN, failFast : BOOLEAN, steps : {<<>>}]
  /\ world \in Worlds
  /\ run = Nothing /\ rerun = Nothing
  /\ via = "none"
  /\ again = NoPipe

AddStep ==
  /\ run = Nothing
  /\ Len(pipe.steps) < MaxSteps
  /\ \E plan \in Plans :
       /\ Accepted(plan)
       /\ pipe' = [pipe EXCEPT !.steps = Append(@,
                     [from |-> plan.from, external |-> plan.external, model |-> "first",
                      fallback |-> plan.fallback, takes |-> plan.takes])]
  /\ UNCHANGED <<world, run, via, again, rerun>>

Run ==
  /\ run = Nothing /\ pipe.steps # <<>>
  /\ run' = RunOf(pipe)
  /\ UNCHANGED <<pipe, world, via, again, rerun>>

Instantiate ==
  /\ run.status = "run" /\ via = "none"
  /\ Describable(pipe)
  /\ via' = "template"
  /\ again' = FromTemplate(pipe)
  /\ UNCHANGED <<pipe, world, run, rerun>>

(* The user confirms the providers, and the hash if it does not match.        *)
Replay ==
  /\ run.status = "run" /\ via = "none"
  /\ via' = "replay"
  /\ again' = Replayed(run.steps)
  /\ UNCHANGED <<pipe, world, run, rerun>>

RunAgain ==
  /\ via # "none" /\ rerun = Nothing
  /\ rerun' = RunOf(again)
  /\ UNCHANGED <<pipe, world, run, via, again>>

Next == AddStep \/ Run \/ Instantiate \/ Replay \/ RunAgain

Spec == Init /\ [][Next]_vars

-----------------------------------------------------------------------------
(* What is known of the run is enough: every step made something, nothing     *)
(* came from the caller, and chain=True was not mixed with input_from.        *)
Telling ==
  /\ Len(run.steps) = Len(pipe.steps)
  /\ \A i \in 1..Len(run.steps) : run.steps[i].assets # <<>> /\ ~pipe.steps[i].external
  /\ pipe.chain => \A i \in 1..Len(pipe.steps) : ~Routed(pipe.steps[i])

(* A pipeline built again from what is left of a run that is telling hands    *)
(* every step the inputs it had, and generates with the model that made the   *)
(* output; one built from a template does so of every run that succeeded.     *)
RebuiltAsksTheSame ==
  rerun.status # "nothing" =>
    /\ via = "replay" /\ Telling => rerun.steps = run.steps
    /\ via = "template" /\ (\A i \in 1..Len(run.steps) : Good(run.steps[i]))
         => rerun.steps = run.steps

(* No provider is handed inputs that it does not take, by the pipeline or by  *)
(* the one built again.                                                       *)
InputsAreTaken ==
  \A r \in {run, rerun} : \A i \in 1..Len(r.steps) :
    r.steps[i].inputs # <<>> => pipe.steps[i].takes

=============================================================================
