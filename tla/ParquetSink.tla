---------------------------- MODULE ParquetSink ----------------------------
(***************************************************************************)
(* ParquetSink.write_run() for one run_id that is sunk again and again: a  *)
(* run that is resumed has more steps, which may change the partition its  *)
(* files belong to (date, tenant, modalities, providers).  A run has one   *)
(* file in each of the tables steps, assets and runs, the last one being   *)
(* the sentinel of a complete write, and an index entry that names its     *)
(* partition.  Every file is replaced atomically; nothing makes several    *)
(* files change together, so a write may be cut short between any two.     *)
(*                                                                         *)
(* Versions number the contents the run has had; a file of the run is      *)
(* known by the version that wrote it (0: there is no file), a manifest's  *)
(* canonical_hash by its version.  Files of other runs are not touched.    *)
(***************************************************************************)
EXTENDS Naturals

CONSTANTS
  Partitions,
  LastVersion, \* number of versions
  MaxFailures  \* bound on interrupted writes

Versions == 1..LastVersion

NoEntry == "no entry"
NoIndex == "no index"   \* written before the index existed

ASSUME ParquetAssumption ==
  /\ LastVersion \in Nat \ {0}
  /\ MaxFailures \in Nat
  /\ {NoEntry, NoIndex} \cap Partitions = {}

VARIABLES
  content,    \* partition of each version, and whether it has assets
  pc,         \* where write_run() is
  latest,     \* the version last asked for
  steps,      \* the table steps: per partition, the version of the file
  assets,
  runs,
  index,      \* the index entry of the run
  failures,
  sunk,       \* history: the version of the last write, if it completed
  unindexed,  \* history: a new sentinel's index entry was lost
  moved       \* history: and the next write went to another partition

vars == <<content, pc, latest, steps, assets, runs, index, failures, sunk, unindexed, moved>>

history == <<content, failures, unindexed, moved>>

PartitionOf(v) == content[v].partition

(* The file a version leaves in the table assets. *)
AssetRows(v) == IF content[v].assets THEN v ELSE 0

Contents == [partition : Partitions, assets : BOOLEAN]

TypeOK ==
  /\ content \in [Versions -> Contents]
  /\ pc \in {"start", "idle", "drop_steps", "drop_assets", "drop_runs",
             "steps", "assets", "sentinel", "index"}
  /\ latest \in 0..LastVersion
  /\ steps \in [Partitions -> 0..LastVersion]
  /\ assets \in [Partitions -> 0..LastVersion]
  /\ runs \in [Partitions -> 0..LastVersion]
  /\ index \in Partitions \cup {NoEntry, NoIndex}
  /\ failures \in 0..MaxFailures
  /\ sunk \in 0..LastVersion
  /\ {unindexed, moved} \subseteq BOOLEAN

(* Nothing was sunk yet, or the first version was, before there was an     *)
(* index.  A run that is resumed keeps its assets.                         *)
Init ==
  /\ content \in [Versions -> Contents]
  /\ \A v \in Versions : \A w \in v..LastVersion : content[v].assets => content[w].assets
  /\ latest \in {0, 1}
  /\ steps = [p \in Partitions |-> IF latest = 1 /\ p = PartitionOf(1) THEN 1 ELSE 0]
  /\ assets = [p \in Partitions |-> IF latest = 1 /\ p = PartitionOf(1) THEN AssetRows(1) ELSE 0]
  /\ runs = steps
  /\ index = NoIndex
  /\ pc = "start"
  /\ failures = 0
  /\ sunk = 0
  /\ unindexed = FALSE
  /\ moved = FALSE

-----------------------------------------------------------------------------
(* A process opens the sink.  Without an index it is built aside, from the *)
(* sentinels there are, and renamed into place.                            *)
Bootstrap ==
  /\ pc = "start"
  /\ pc' = "idle"
  /\ index' \in IF index # NoIndex THEN {index}
                ELSE IF \A p \in Partitions : runs[p] = 0 THEN {NoEntry}
                ELSE {p \in Partitions : runs[p] # 0}
  /\ UNCHANGED <<latest, steps, assets, runs, sunk, history>>

(* The run was written elsewhere, as far as the index knows. *)
StalePartition(p) == index \in Partitions \ {p}

WriteRun_KeepsOld(v) ==
  /\ pc = "idle"
  /\ v >= latest
  /\ latest' = v
  /\ pc' = IF runs[PartitionOf(v)] = v THEN "index" ELSE "steps"
  /\ sunk' = 0
  /\ moved' = (moved \/ (unindexed /\ PartitionOf(v) # PartitionOf(latest)))
  /\ UNCHANGED <<content, steps, assets, runs, index, failures, unindexed>>

(* write_run() of the same version or of a newer one: nothing to do but    *)
(* the index entry when the sentinel is there with the same hash; a        *)
(* rewrite when it has another one or cannot be read; otherwise a write    *)
(* into a new partition, once the old one is emptied.                      *)
WriteRun(v) ==
  /\ pc = "idle"
  /\ v >= latest
  /\ latest' = v
  /\ LET p == PartitionOf(v)
     IN  \/ runs[p] = v /\ pc' = "index"
         \/ runs[p] # 0 /\ pc' = "steps"
         \/ runs[p] = 0 /\ pc' = IF StalePartition(p) THEN "drop_steps" ELSE "steps"
  /\ sunk' = 0
  /\ moved' = (moved \/ (unindexed /\ PartitionOf(v) # PartitionOf(latest)))
  /\ UNCHANGED <<content, steps, assets, runs, index, failures, unindexed>>

(* _remove_partition_files(): the sentinel goes last. *)
DropSteps ==
  /\ pc = "drop_steps"
  /\ steps' = [steps EXCEPT ![index] = 0]
  /\ pc' = "drop_assets"
  /\ UNCHANGED <<latest, assets, runs, index, sunk, history>>

DropAssets ==
  /\ pc = "drop_assets"
  /\ assets' = [assets EXCEPT ![index] = 0]
  /\ pc' = "drop_runs"
  /\ UNCHANGED <<latest, steps, runs, index, sunk, history>>

DropRuns ==
  /\ pc = "drop_runs"
  /\ runs' = [runs EXCEPT ![index] = 0]
  /\ pc' = "steps"
  /\ UNCHANGED <<latest, steps, assets, index, sunk, history>>

WriteSteps ==
  /\ pc = "steps"
  /\ steps' = [steps EXCEPT ![PartitionOf(latest)] = latest]
  /\ pc' = "assets"
  /\ UNCHANGED <<latest, assets, runs, index, sunk, history>>

(* A version without assets writes no such file. *)
WriteAssets ==
  /\ pc = "assets"
  /\ assets' = [assets EXCEPT ![PartitionOf(latest)] = IF AssetRows(latest) = 0 THEN @ ELSE latest]
  /\ pc' = "sentinel"
  /\ UNCHANGED <<latest, steps, runs, index, sunk, history>>

WriteSentinel ==
  /\ pc = "sentinel"
  /\ runs' = [runs EXCEPT ![PartitionOf(latest)] = latest]
  /\ pc' = "index"
  /\ UNCHANGED <<latest, steps, assets, index, sunk, history>>

WriteIndex ==
  /\ pc = "index"
  /\ index' = PartitionOf(latest)
  /\ sunk' = latest
  /\ unindexed' = FALSE
  /\ pc' = "idle"
  /\ UNCHANGED <<content, latest, steps, assets, runs, failures, moved>>

(* An I/O error ends the call with a SinkError, or the process dies. *)
Interrupted ==
  /\ pc \notin {"start", "idle"}
  /\ failures < MaxFailures
  /\ failures' = failures + 1
  /\ pc' \in {"idle", "start"}
  /\ unindexed' = (unindexed \/ (pc = "index" /\ index # PartitionOf(latest)))
  /\ UNCHANGED <<content, latest, steps, assets, runs, index, sunk, moved>>

Next ==
  \/ Bootstrap
  \/ \E v \in Versions : WriteRun(v)
  \/ DropSteps \/ DropAssets \/ DropRuns
  \/ WriteSteps \/ WriteAssets \/ WriteSentinel \/ WriteIndex
  \/ Interrupted

Spec == Init /\ [][Next]_vars

-----------------------------------------------------------------------------
(* Properties. *)

(* The sentinel of the version last asked for is there only when all the   *)
(* rows of that version are, in the partition they belong to: at every     *)
(* moment, whatever was interrupted before.                                *)
SentinelMeansComplete ==
  \A p \in Partitions : latest # 0 /\ runs[p] = latest =>
    /\ p = PartitionOf(latest)
    /\ steps[p] = latest
    /\ assets[p] = AssetRows(latest)

(* After a write_run() that returned, the run has one row in the table     *)
(* runs, in its own partition: what earlier writes left elsewhere is gone. *)
(* The documented exception: an index entry was lost right after its       *)
(* sentinel, and the next write already moved the run again.               *)
OneHome ==
  sunk # 0 /\ ~moved => {p \in Partitions : runs[p] # 0} = {PartitionOf(sunk)}

(* And its rows are those of the version that was written, and the index   *)
(* names their partition, even when there was nothing to write but that.   *)
RowsOfSunk ==
  sunk # 0 => LET p == PartitionOf(sunk)
              IN  /\ runs[p] = sunk /\ steps[p] = sunk /\ assets[p] = AssetRows(sunk)
                  /\ index = p

(* A run is in the tree once, and all of it. *)
RunsAreWhole == SentinelMeansComplete /\ OneHome /\ RowsOfSunk

=============================================================================
