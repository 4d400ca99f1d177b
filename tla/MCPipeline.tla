----------------------------- MODULE MCPipeline -----------------------------
(* What hands results on: the steps of a pipeline with its cache, the        *)
(* connector that a step calls, the sink that a batch of runs shares, the    *)
(* manifest that is left of a run, the pipeline built again from it, and the *)
(* loop that runs one after the other.  One of the six machines runs in each *)
(* behaviour.                                                                *)
EXTENDS MCSequentialRun

CONSTANTS
  Runs, K, Modes,                                               \* those of ObjectSink,
  Tries, MaxOutputs, MaxRetries, Restarts, Ceiling, SeenMax, Others,   \* of Connectors,
  Makes, Secret, Jobs, Edits,                                   \* of Custody,
  Plans, MaxSteps, Worlds,                                      \* of Rebuild
  MaxIterations, Costs                                          \* and of AgentLoop

VARIABLES
  part,    \* the machine that runs: "steps", "connector", "sink", "manifest",
           \* "again" or "loop"
  mode, run, next, outcome, id, pending, awaited, job, stored,
  closed,  \* those of ObjectSink
  name, dir, at, gen, known, answered, polled, got, output, assets, files, images, fetched,
  temps, try, retries, restarts, crashed, verdict, cause, seen, waited,
  since,   \* those of Connectors
  mem, fresh, prior, doc, origin, edits,
  world,   \* those of Custody
  built, fate, made, via, again, rerun,   \* those of Rebuild
  kind, stopOnError, phase, building, runs, iterations, result, heard,
  left     \* those of AgentLoop

sinkVars == <<mode, run, next, outcome, id, pending, awaited, job, stored, closed>>
connectorVars == <<name, dir, at, gen, known, answered, polled, got, output, assets, files,
                   images, fetched, temps, try, retries, restarts, crashed, verdict, cause,
                   seen, waited, since>>
custodyVars == <<mem, fresh, prior, doc, origin, edits, world>>
againVars == <<built, fate, made, via, again, rerun>>
loopVars == <<kind, stopOnError, phase, building, runs, iterations, result, heard, left>>
all == <<part, vars, sinkVars, connectorVars, custodyVars, againVars, loopVars>>

\* A cache repeats asset ids, which eager transfer does not cope with.
MCModes == {m \in [eager : BOOLEAN, cache : BOOLEAN, failFast : BOOLEAN] :
              ~(m.eager /\ m.cache)}

S == INSTANCE ObjectSink

C == INSTANCE Connectors WITH
       pc <- at, job <- gen, cache <- polled, next <- output

M == INSTANCE Custody

\* A step asks for inputs in each way, in one of them together with another,
\* or for none; one has a fallback, one a provider that takes no inputs.
Plain == [from |-> {}, external |-> FALSE, fallback |-> FALSE, takes |-> TRUE]
MCPlans ==
  {[Plain EXCEPT !.from = f] : f \in {{}, {<<>>}, {<<1>>}, {<<2>>}, {<<2, 1>>}}}
  \cup {[Plain EXCEPT !.external = TRUE], [Plain EXCEPT !.external = TRUE, !.from = {<<1>>}],
        [Plain EXCEPT !.fallback = TRUE], [Plain EXCEPT !.takes = FALSE]}

\* At most one step does not go well.
MCWorlds == {[[i \in 1..MaxSteps |-> "ok"] EXCEPT ![j] = o] :
               j \in 1..MaxSteps, o \in {"ok", "empty", "MODEL_ERROR", "error"}}

R == INSTANCE Rebuild WITH pipe <- built, world <- fate, run <- made

L == INSTANCE AgentLoop WITH pc <- phase

\* Two runs are made before anything is written, or one whose document goes on.
OneCustody ==
  \/ /\ prior = M!Nothing /\ doc = M!Nothing
     /\ M!Next
     /\ prior' # M!Nothing => mem = fresh
  \/ /\ prior = M!Nothing /\ doc # M!Nothing
     /\ M!Amend \/ M!Resave \/ M!Rot \/ \E failed \in SUBSET M!Objects : M!WriteRun(failed)
     /\ mem' = mem

\* The machines that do not run stand still in one of their initial states.
MCInit ==
  /\ part \in {"steps", "connector", "sink", "manifest", "again", "loop"}
  /\ Init /\ (part = "steps" \/ pipe = Mux)
  /\ S!Init
  /\ part = "sink" \/ mode = [eager |-> FALSE, cache |-> FALSE, failFast |-> FALSE]
  /\ C!Init
  /\ part = "connector" \/ (name = "lmnt" /\ ~dir /\ images = 0)
  /\ M!Init
  /\ R!Init
  /\ part = "again" \/ (~built.chain /\ built.failFast /\ \A i \in 1..MaxSteps : fate[i] = "ok")
  /\ L!Init /\ (part = "loop" \/ (kind = "run" /\ stopOnError))

Sinking(A) ==
  part = "sink" /\ A /\ UNCHANGED <<part, vars, connectorVars, custodyVars, againVars, loopVars>>

MCNext ==
  \/ /\ part = "steps" /\ Next
     /\ UNCHANGED <<part, sinkVars, connectorVars, custodyVars, againVars, loopVars>>
  \/ /\ part = "connector" /\ C!Next
     /\ UNCHANGED <<part, vars, sinkVars, custodyVars, againVars, loopVars>>
  \/ /\ part = "manifest" /\ OneCustody
     /\ UNCHANGED <<part, vars, sinkVars, connectorVars, againVars, loopVars>>
  \/ /\ part = "again" /\ R!Next
     /\ UNCHANGED <<part, vars, sinkVars, connectorVars, custodyVars, loopVars>>
  \/ /\ part = "loop" /\ L!Next
     /\ UNCHANGED <<part, vars, sinkVars, connectorVars, custodyVars, againVars>>
  \/ Sinking(S!Next)

\* The fairness of ObjectSink.
MCSpec == MCInit /\ [][MCNext]_all /\ WF_all(Sinking(S!Next))

(* A manifest is written with all its assets: ObjectSink. *)
ManifestComplete == S!ManifestComplete

(* No transfer meets a closed backend, or fails another item: ObjectSink. *)
TransfersAreApart == S!OpenWhileTransferring /\ S!PlainItemsIndependent

(* The batch ends, and nothing was fetched twice: ObjectSink. *)
BatchEnds == (part = "sink" => S!BatchEnds) /\ S!NoRetransfer

(* Success is the generation that was asked for, and no connector makes its *)
(* own good generation unreachable: Connectors.                             *)
VerdictIsTheJobs == part = "connector" => C!SuccessIsTheJob /\ C!NoSelfInflictedFailure

(* A generation is paid once, and a wedged job meets its ceiling: Connectors. *)
NothingIsWasted == part = "connector" => C!PaidOnce /\ C!CeilingHolds

(* What was written with the fields of today verifies, an ingest in another  *)
(* order hashes the same, and a document that verifies holds what its writer *)
(* hashed: Custody.                                                          *)
CustodyKeepsTheHash ==
  part = "manifest" => M!CustodyKeepsTheHash /\ M!IngestIsOrderFree /\ M!VerifiedIsWhatWasMade

(* A pipeline built again asks for what was asked for: Rebuild. *)
RebuiltAsksTheSame == part = "again" => R!RebuiltAsksTheSame /\ R!InputsAreTaken

(* An agent's loop tells what it did, and does it for somebody: AgentLoop. *)
LoopIsTrue == [](L!ResultIsTheRuns /\ L!HeardIsTheLoop) /\ L!NoRunForNobody
=============================================================================
