------------------------------ MODULE BatchPlan ------------------------------
(***************************************************************************)
(* The batch maintainer: open issues are grouped into clusters that can be *)
(* worked on in parallel, the plan is written down and approved by a human,*)
(* and it is checked against the world again before it is carried out.     *)
(*                                                                         *)
(*   tools/batch_cluster.py   build_plan: components of issues that share  *)
(*                            files, dependencies, the size cap            *)
(*   tools/batch_plandoc.py   the plan document, its token, its validation *)
(*                                                                         *)
(* External: the scout that estimates files and dependencies, the executor *)
(* that opens a pull request for each executable cluster, and GitHub.      *)
(* Files that every change touches are no overlap for the planner; they    *)
(* are left out of "touches".                                              *)
(***************************************************************************)
EXTENDS Integers, FiniteSets, FiniteSetsExt

CONSTANTS
  Issues,
  Estimates,            \* what the scout may find: [touches, deps] by issue
  MaxIssues, MaxFiles,  \* the size cap of a cluster
  MaxMain               \* bound: commits to main

VARIABLES
  touches, deps,  \* of each issue: the scout's estimate
  open,           \* open issues
  prs,            \* pull requests in flight: [issues, fresh], fresh if they
                  \* are of the plan that was executed last
  main,           \* the commit main is at
  doc,            \* the plan document, or {}
  run             \* the execution: the clusters it still has to dispatch

vars == <<touches, deps, open, prs, main, doc, run>>
-----------------------------------------------------------------------------
(* build_plan *)

(* Issues that already have a pull request are skipped. *)
Skipped == open \cap UNION {p.issues : p \in prs}
Active  == open \ Skipped

Overlap(i, j) == touches[i] \cap touches[j] # {}

(* The issues reached from i over shared files. *)
Component_FirstOnly(i) == {j \in Active : j = i \/ Overlap(i, j)}
Component(i) ==
  {j \in Active : \A S \in SUBSET Active :
     (i \in S /\ \A a \in S, b \in Active : Overlap(a, b) => b \in S) => j \in S}

Components == {Component(i) : i \in Active}

(* What a component waits for: another component, or an issue in flight.   *)
(* Issues that are no longer open hold nobody up.                          *)
Prereqs(c) == {p \in Components \ {c} : \E i \in c : deps[i] \cap p # {}}
InFlight(c) == (UNION {deps[i] : i \in c}) \cap Skipped

(* Dependency layer 0, which no component on a cycle is, and not blocked. *)
Ready_OpenOrNot(c) == \A i \in c : deps[i] \ c = {}
Ready(c) == Prereqs(c) = {} /\ InFlight(c) = {}

Oversized(c) == \/ Cardinality(c) > MaxIssues
                \/ Cardinality(UNION {touches[i] : i \in c}) > MaxFiles

(* An oversized component runs its first issue alone and defers the rest. *)
Clusters(c) ==
  IF Oversized(c)
  THEN {[issues |-> {Min(c)}, executable |-> Ready(c)],
        [issues |-> c \ {Min(c)}, executable |-> FALSE]}
  ELSE {[issues |-> c, executable |-> Ready(c)]}

PlanOf == UNION {Clusters(c) : c \in Components}
-----------------------------------------------------------------------------
Init == /\ \E e \in Estimates : touches = e.touches /\ deps = e.deps
        /\ open = Issues /\ prs = {} /\ main = 0
        /\ doc = {} /\ run = {}

(* render_doc: the token binds the base commit and the clusters. *)
WriteDoc ==
  /\ run = {}
  /\ doc' = {[base |-> main, clusters |-> PlanOf,
              token |-> [base |-> main, clusters |-> PlanOf]]}
  /\ UNCHANGED <<touches, deps, open, prs, main, run>>

(* Somebody edits the document: a deferred cluster becomes executable. *)
HandEdit(d, c) ==
  /\ run = {} /\ d.token.clusters = d.clusters /\ ~c.executable
  /\ doc' = {[d EXCEPT !.clusters = (@ \ {c}) \cup {[c EXCEPT !.executable = TRUE]}]}
  /\ UNCHANGED <<touches, deps, open, prs, main, run>>

TokenMatches(d) == d.token = [base |-> d.base, clusters |-> d.clusters]

Planned(d) == {c.issues : c \in {x \in d.clusters : x.executable}}

Valid(d) == /\ TokenMatches(d)
            /\ d.base = main
            /\ UNION Planned(d) \subseteq open

(* batch-execute validates the approved document once, then dispatches. *)
Execute(d) == /\ run = {} /\ Valid(d)
              /\ run' = Planned(d) /\ doc' = {}
              /\ prs' = {[p EXCEPT !.fresh = FALSE] : p \in prs}
              /\ UNCHANGED <<touches, deps, open, main>>

Dispatch(c) == /\ run' = run \ {c}
               /\ prs' = prs \cup {[issues |-> c, fresh |-> TRUE]}
               /\ UNCHANGED <<touches, deps, open, main, doc>>
-----------------------------------------------------------------------------
(* The world: pull requests are merged or given up, main moves. *)
Merge(p) == /\ main < MaxMain /\ main' = main + 1
            /\ prs' = prs \ {p} /\ open' = open \ p.issues
            /\ UNCHANGED <<touches, deps, doc, run>>

GiveUp(p) == /\ prs' = prs \ {p}
             /\ UNCHANGED <<touches, deps, open, main, doc, run>>

CloseIssue(i) == /\ open' = open \ {i}
                 /\ UNCHANGED <<touches, deps, prs, main, doc, run>>

Push == /\ main < MaxMain /\ main' = main + 1
        /\ UNCHANGED <<touches, deps, open, prs, doc, run>>

Next == \/ WriteDoc \/ Push
        \/ \E d \in doc : Execute(d) \/ \E c \in d.clusters : HandEdit(d, c)
        \/ \E c \in run : Dispatch(c)
        \/ \E p \in prs : Merge(p) \/ GiveUp(p)
        \/ \E i \in open : CloseIssue(i)

Spec == Init /\ [][Next]_vars
-----------------------------------------------------------------------------
InWork == run \cup {p.issues : p \in prs}

(* Linked by files, whoever is open by now. *)
Linked(i, j) == \A S \in SUBSET Issues :
  (i \in S /\ \A a \in S, b \in Issues : Overlap(a, b) => b \in S) => j \in S

(* Nobody works on an issue whose prerequisite is still open, unless both  *)
(* are in one pull request; not through a stale or an edited document, and *)
(* not because the prerequisite is in flight.  The first issue of an       *)
(* oversized component is the exception: it may wait for a later one.      *)
OrderRespected ==
  \A c \in InWork : \A i \in c : \A d \in deps[i] \cap open :
     d \in c \/ (c = {i} /\ i < d /\ Linked(i, d))

(* The pull requests of one plan share no file: nobody has to rebase over  *)
(* somebody who was sent off at the same time.                             *)
FilesDisjoint ==
  \A c, d \in run \cup {p.issues : p \in {q \in prs : q.fresh}} : c # d =>
     \A i \in c, j \in d : ~Overlap(i, j)

(* When nothing is in flight, the planner finds work, unless what is open  *)
(* waits in a circle: closed and merged issues hold nobody up, and of an   *)
(* oversized component somebody always goes first.                         *)
Circle(S) == S # {} /\ \A c \in S : Prereqs(c) \cap S # {}
NoStall ==
  prs = {} /\ open # {} =>
    \/ \E S \in SUBSET Components : Circle(S)
    \/ \E c \in PlanOf : c.executable /\ c.issues # {}
=============================================================================
