----------------------------- MODULE MCSchedules -----------------------------
(* What runs side by side and in order: the steps of a concurrent run, the   *)
(* jobs of a release wave, the issues of a batch.  One of the three machines *)
(* runs in each behaviour.                                                   *)
EXTENDS MCConcurrentRun

CONSTANTS
  Always, Extras, Reserved, MaxVersion, MaxEdits, MaxTags,   \* those of ReleaseWave
  Issues, Estimates, MaxIssues, MaxFiles, MaxMain            \* those of BatchPlan

VARIABLES
  machine,   \* the one that runs: "steps", "wave" or "batch"
  tree, head, tag, pypi, release, edits, tags, settled, orderly,  \* those of ReleaseWave
  touches, deps, open, prs, main, doc, run   \* those of BatchPlan

waveVars == <<tree, head, tag, pypi, release, edits, tags, settled, orderly>>
batchVars == <<touches, deps, open, prs, main, doc, run>>
all == <<machine, vars, waveVars, batchVars>>

W == INSTANCE ReleaseWave
B == INSTANCE BatchPlan

\* Any two of three issues share a file of their own, or do not; the third
\* has one more.  Each issue may wait for one other.
Pairs == {{1, 2}, {1, 3}, {2, 3}}
MCEstimates ==
  {[touches |-> [i \in 1..3 |-> {p \in shared \cup {{3}} : i \in p}], deps |-> on] :
      shared \in SUBSET Pairs,
      on \in {f \in [1..3 -> {{}, {1}, {2}, {3}}] : \A i \in 1..3 : i \notin f[i]}}

MCInit ==
  /\ machine \in {"steps", "wave", "batch"}
  /\ Init   /\ (machine = "steps" \/ failFast)
  /\ W!Init /\ (machine = "wave"  \/ tag.version = tree.version)
  /\ B!Init /\ (machine = "batch" \/ \A i \in Issues : touches[i] \subseteq {{3}} /\ deps[i] = {})

Stepping(A) == machine = "steps" /\ A /\ UNCHANGED <<machine, waveVars, batchVars>>

MCNext ==
  \/ Stepping(Next)
  \/ machine = "wave"  /\ W!Next /\ UNCHANGED <<machine, vars, batchVars>>
  \/ machine = "batch" /\ B!Next /\ UNCHANGED <<machine, vars, waveVars>>

\* The fairness of ConcurrentRun.
MCSpec ==
  /\ MCInit /\ [][MCNext]_all
  /\ WF_all(Stepping(Runner))
  /\ \A s \in Steps :
       WF_all(Stepping(TaskStarts(s) \/ TaskResumes(s) \/ TaskEnds(s) \/ TaskCancelled(s)))

(* A concurrent run ends: ConcurrentRun. *)
EveryRunEnds == machine = "steps" => RunEnds

(* What the plan of a wave leaves out is not needed, and what is on the index *)
(* can be installed and is what was tagged: ReleaseWave.                     *)
WaveIsWhole ==
  machine = "wave" =>
    W!PreparedIsPublishable /\ W!ApplySettles /\ W!WheelsInstall /\ W!GateKeepsPins

(* Pull requests come in order and apart, and as long as there is work the   *)
(* planner finds some: BatchPlan.                                            *)
BatchIsOrderly ==
  machine = "batch" => B!OrderRespected /\ B!FilesDisjoint /\ B!NoStall
=============================================================================
