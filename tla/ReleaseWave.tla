----------------------------- MODULE ReleaseWave -----------------------------
(***************************************************************************)
(* The preparation and the publication of a release wave: the packages of  *)
(* the repository carry their own versions and pin one another, a tag      *)
(* starts the release workflow, and the package index keeps for ever the   *)
(* first wheel it was given of a version.                                  *)
(*                                                                         *)
(*   tools/prepare_release.py    build_plan and apply_plan, over the       *)
(*                               working tree, the head and the last tag   *)
(*   tools/check_pin_parity.py   the gate of the release workflow          *)
(*                                                                         *)
(* The workflow's jobs (.github/workflows/release.yml) are modelled by the *)
(* order of their "needs" and by "skip-existing".  A version is a natural  *)
(* number, 0 for a package that does not exist yet; a patch bump adds one. *)
(* The code of a package is the number of its edits.                       *)
(***************************************************************************)
EXTENDS Integers, FiniteSets

CONSTANTS
  Always,       \* the connectors the umbrella always needs
  Extras,       \* the connectors it offers as extras
  Reserved,     \* the version of core that stays reserved
  MaxVersion,   \* bound: versions
  MaxEdits,     \* bound: edits, overrides and careless tags
  MaxTags       \* bound: releases

Conns == Always \cup Extras
Packages == {"core", "cli", "meta"} \cup Conns

BaseDeps(k) == CASE k = "core" -> {}
                 [] k = "meta" -> {"core"} \cup Always
                 [] OTHER      -> {"core"}
Deps(k) == IF k = "meta" THEN {"core"} \cup Conns ELSE BaseDeps(k)

(* the files whose pins the tool rewrites *)
Synced == {"cli", "meta"}

VARIABLES
  tree,     \* the working tree: [version, pins, code], each by package
  head,     \* what is committed
  tag,      \* what was committed when the last release was tagged
  pypi,     \* the wheels of the index
  release,  \* the release workflow of the last tag: [gate, pending]
  edits, tags,
  settled,  \* ghost: "yes" once the tool has applied a plan and nobody edited
            \* since; "postponed" while an override that raises nothing is
            \* not committed
  orderly   \* ghost: every tag was prepared, and no version ever went back

vars == <<tree, head, tag, pypi, release, edits, tags, settled, orderly>>
-----------------------------------------------------------------------------
(* build_plan *)

(* The packages with a file that differs from the tag's: of the head, not  *)
(* of the working tree.                                                    *)
Changed_CodeOnly == {k \in Packages : head.code[k] # tag.code[k]}
Changed == {k \in Packages : \/ head.code[k] # tag.code[k]
                             \/ head.version[k] # tag.version[k]
                             \/ head.pins[k] # tag.pins[k]}

Candidate(k) == tree.version[k] + 1

NeedsPatch(k, set) ==
  k \notin DOMAIN set /\ k \in Changed
  /\ tag.version[k] # 0 /\ tree.version[k] = tag.version[k]

Decided(set) == [k \in Packages |-> CASE k \in DOMAIN set    -> set[k]
                                      [] NeedsPatch(k, set)  -> Candidate(k)
                                      [] OTHER               -> tree.version[k]]

RewriteFloors(k, version) == [d \in Deps(k) |-> version[d]]

StalePins(k, version) == RewriteFloors(k, version) # tree.pins[k]

(* A pin that changes forces a bump of its file, unless it had one. *)
FloorBump(k, set, decided) ==
  /\ k \in Synced /\ k \notin DOMAIN set /\ ~NeedsPatch(k, set)
  /\ StalePins(k, decided)

FinalVersions(set) ==
  LET decided == Decided(set)
  IN [k \in Packages |-> IF FloorBump(k, set, decided) THEN Candidate(k)
                                                       ELSE decided[k]]

Refused(final) == final["core"] = Reserved

PrepNeeded(final) == \/ final # tree.version
                     \/ \E k \in Synced : StalePins(k, final)

NoSet == [k \in {} |-> 0]

Nothing == ~PrepNeeded(FinalVersions(NoSet))
CheckPasses == Nothing /\ ~Refused(FinalVersions(NoSet))

(* A version by hand: one lower, the same, or one higher (a minor or a     *)
(* major bump is as good).                                                 *)
Near(v) == {v - 1, v, v + 1} \cap 1..MaxVersion

(* At most one --set or --bump. *)
Overrides == {NoSet} \cup UNION {[{k} -> Near(tree.version[k])] : k \in Packages}
-----------------------------------------------------------------------------
(* Some connectors are new since the tag; the umbrella pins them by now (a
   pin 0 is none).                                                         *)
Init ==
  \E new \in SUBSET Extras :
    LET since(k) == IF k \in new THEN 0 ELSE 1
        at(v) == [version |-> [k \in Packages |-> v[k]],
                  pins |-> [k \in Packages |-> [d \in Deps(k) |-> v[d]]],
                  code |-> [k \in Packages |-> 0]]
    IN /\ tree = at([k \in Packages |-> 1])
       /\ head = tree
       /\ tag = at([k \in Packages |-> since(k)])
       /\ pypi = {[pkg |-> k, version |-> 1, code |-> 0, pins |-> tag.pins[k]] :
                     k \in Packages \ new}
       /\ release = [gate |-> TRUE, pending |-> {}]
       /\ edits = 0 /\ tags = 0
       /\ settled = "no" /\ orderly = TRUE

Edited == /\ edits < MaxEdits /\ edits' = edits + 1
          /\ head' = tree'
          /\ settled' = "no"
          /\ UNCHANGED <<tag, pypi, release, tags>>

(* A developer changes and commits the code of a package. *)
EditCode(k) == /\ tree' = [tree EXCEPT !.code[k] = @ + 1]
               /\ Edited /\ UNCHANGED orderly

(* A developer edits a version, or a pin, by hand. *)
EditVersion(k, v) == /\ v # tree.version[k]
                     /\ tree' = [tree EXCEPT !.version[k] = v]
                     /\ orderly' = (orderly /\ v > tree.version[k])
                     /\ Edited

EditPin(k, d) == /\ tree.pins[k][d] # tree.version[d]
                 /\ tree' = [tree EXCEPT !.pins[k][d] = tree.version[d]]
                 /\ Edited /\ UNCHANGED orderly

(* The tool writes the versions, then the pins of each file; a crash       *)
(* leaves some of the versions, or all of them and the pins of some files. *)
Written(final, done, synced) ==
  [tree EXCEPT
    !.version = [k \in Packages |-> IF k \in done THEN final[k] ELSE @[k]],
    !.pins = [k \in Packages |-> IF k \in synced THEN RewriteFloors(k, final)
                                                 ELSE @[k]]]

(* An override is a decision by hand: it counts as an edit. *)
Apply(set) ==
  /\ edits + Cardinality(DOMAIN set) <= MaxEdits
  /\ edits' = edits + Cardinality(DOMAIN set)
  /\ LET final == FinalVersions(set)
         new   == {k \in Packages : final[k] # tree.version[k]}
     IN /\ PrepNeeded(final) /\ ~Refused(final)
        /\ \A k \in new : final[k] <= MaxVersion
        /\ \E done \in SUBSET new, synced \in SUBSET Synced :
             /\ synced # {} => done = new
             /\ tree' = Written(final, done, synced)
             /\ settled' =
                  IF \/ settled = "postponed"
                     \/ \E k \in DOMAIN set : set[k] <= tree.version[k]
                  THEN "postponed"
                  ELSE IF done = new /\ synced = Synced THEN "yes" ELSE "no"
        /\ orderly' = (orderly /\ \A k \in new : final[k] > tree.version[k])
  /\ UNCHANGED <<head, tag, pypi, release, tags>>

GitCommit == /\ tree # head
             /\ head' = tree
             /\ settled' = IF settled = "postponed" THEN "no" ELSE settled
             /\ UNCHANGED <<tree, tag, pypi, release, edits, tags, orderly>>

(* Tagging the head starts the workflow; no gate of it runs the tool, the  *)
(* checklist asks the maintainer to: tagging without counts as an edit.    *)
Tag == LET prepared == head = tree /\ CheckPasses
       IN /\ tags < MaxTags /\ head # tag
          /\ prepared \/ edits < MaxEdits
          /\ edits' = IF prepared THEN edits ELSE edits + 1
          /\ tag' = head
          /\ release' = [gate |-> FALSE, pending |-> Packages]
          /\ tags' = tags + 1
          /\ orderly' = (orderly /\ prepared)
          /\ settled' = "no"
          /\ UNCHANGED <<tree, head, pypi>>
-----------------------------------------------------------------------------
Wheel(k) == {w \in pypi : w.pkg = k /\ w.version = tag.version[k]}

(* check_package: the index has a wheel of this version with other pins. *)
Drift(k) == \E w \in Wheel(k) : w.pins # tag.pins[k]

PinParity == /\ ~release.gate
             /\ \A k \in Packages : ~Drift(k)
             /\ release' = [release EXCEPT !.gate = TRUE]
             /\ UNCHANGED <<tree, head, tag, pypi, edits, tags, settled, orderly>>

Needs_CoreOnly(k) == IF k = "core" THEN {} ELSE {"core"}
Needs(k) == CASE k = "core" -> {}
              [] k = "meta" -> {"core"} \cup Conns
              [] OTHER      -> {"core"}

(* A publish job succeeds; one that fails stays pending and may be rerun. *)
Publish(k) ==
  /\ release.gate /\ k \in release.pending
  /\ Needs(k) \cap release.pending = {}
  /\ release' = [release EXCEPT !.pending = @ \ {k}]
  /\ pypi' = IF Wheel(k) # {} THEN pypi
             ELSE pypi \cup {[pkg |-> k, version |-> tag.version[k],
                              code |-> tag.code[k], pins |-> tag.pins[k]]}
  /\ UNCHANGED <<tree, head, tag, edits, tags, settled, orderly>>

Next == \/ \E k \in Packages : EditCode(k) \/ Publish(k)
        \/ \E k \in Packages : \E v \in Near(tree.version[k]) : EditVersion(k, v)
        \/ \E k \in Packages : \E d \in Deps(k) : EditPin(k, d)
        \/ \E set \in Overrides : Apply(set)
        \/ GitCommit \/ Tag \/ PinParity

Spec == Init /\ [][Next]_vars
-----------------------------------------------------------------------------
(* Once the tool finds nothing to prepare, no package would lose its       *)
(* content to skip-existing: if the index already has a wheel of the       *)
(* version a package carries, that wheel is the one its source builds.     *)
(* Only as long as every earlier tag was prepared, as the checklist asks.  *)
PreparedIsPublishable ==
  orderly /\ tree = head /\ CheckPasses =>
    \A w \in pypi : w.version = head.version[w.pkg] =>
       w.code = head.code[w.pkg] /\ w.pins = head.pins[w.pkg]

(* Whatever the maintainer skipped, a release that went through the gate   *)
(* and all its jobs has left on the index, for every package, the pins of  *)
(* the tagged source.                                                      *)
GateKeepsPins ==
  release.gate /\ release.pending = {} /\ tags > 0 =>
    \A k \in Packages : \E w \in Wheel(k) : w.pins = tag.pins[k]

(* A wheel of the command line tool or of the umbrella can be installed as *)
(* soon as it is on the index: what it pins is there, also in the middle   *)
(* of a release, and after one whose jobs failed.                          *)
WheelsInstall ==
  orderly => \A w \in pypi : w.pkg \in Synced =>
    \A d \in Deps(w.pkg) :
       w.pins[d] = 0 \/ \E x \in pypi : x.pkg = d /\ x.version >= w.pins[d]

(* A plan that was applied to the end leaves nothing for the tool to do,   *)
(* before and after it is committed, also when an earlier try died half    *)
(* way.  An override that does not raise a version puts its bump off until  *)
(* it is committed, because the tool compares the head with the tag.       *)
ApplySettles == orderly /\ settled = "yes" => Nothing
=============================================================================
