----------------------------- MODULE MCProvider ------------------------------
(* A provider: a step from invoke() to its return; validate_model() with      *)
(* NATIVE discovery, which asks its catalog, and without, which asks its      *)
(* probes; the registries that say what a model name stands for; and what is  *)
(* sent to the model under its contract.  One of these runs in each behaviour. *)
EXTENDS MCProviderStep

CONSTANTS
  Callers, Models,                                           \* those of Discovery,
  Probers, MaxEntries,                                       \* of ProbeCache
  Names, Covered, Canonical, UserCovered, Old, Registries,   \* of Registry
  Shared, Instances, MaxUserFamilies, MaxOps,
  Requests, MaxSends                                         \* and of Payload

VARIABLES
  machine,   \* the one that runs: "step", "NATIVE", "NONE", "names" or "payload"
  catalog, cached, fresh, inFlight, place, refresh, answer, seen, flown,  \* those of Discovery
  lives, order, verdict, recent, prober, at, slug, forced, word, woken, lost,
  why, known, probed,  \* those of ProbeCache
  reg, uses, accounts, ops,  \* those of Registry
  request, params, phase, sent, estimate, rendered, bill   \* those of Payload

nativeVars == <<catalog, cached, fresh, inFlight, place, refresh, answer, seen, flown>>
probeVars == <<lives, order, verdict, recent, prober, at, slug, forced, word, woken, lost,
               why, known, probed>>
nameVars == <<reg, uses, accounts, ops>>
payloadVars == <<request, params, phase, sent, estimate, rendered, bill>>

all == <<machine, vars, nativeVars, probeVars, nameVars, payloadVars>>

D == INSTANCE Discovery WITH Threads <- Callers, pc <- place

P == INSTANCE ProbeCache WITH
       Threads <- Probers,
       fresh <- recent, pc <- at, refresh <- forced, answer <- word, seen <- known, flown <- probed

\* The family of the connector rewrites its names to one.
MCCanonical == [n \in Covered |-> "veo3"]

R == INSTANCE Registry WITH catalog <- accounts

\* A family rewrites a name to one that it matches, and leaves that as it is.
ASSUME CanonicalIsFixed ==
  \A n \in Covered : Canonical[n] \in Covered /\ Canonical[Canonical[n]] = Canonical[n]

Q == INSTANCE MCPayload
MCRequests == Q!PayloadRequests

Y == INSTANCE Payload

\* A request is for a model of one of the contracts; a step says no more than this.
ASSUME RequestsAreKnown ==
  \A r \in Requests :
    r.model \in DOMAIN Y!Contract /\ DOMAIN r.own \subseteq {"prompt", "negative_prompt", "seed"}

\* Where no payload runs, one request stands for all.
Unasked == CHOOSE r \in Requests : TRUE

MCInit ==
  /\ machine \in {"step", "NATIVE", "NONE", "names", "payload"}
  /\ request \in (IF machine = "payload" THEN Requests ELSE {Unasked}) /\ Y!Init
  /\ Init
  /\ D!Init /\ (machine = "NATIVE" \/ catalog)
  /\ P!Init /\ (machine = "NONE" \/ lives = {})
  /\ R!Init /\ (machine = "names" \/ \A i \in Instances : accounts[i] = {})

Stepping(A) ==
  machine = "step" /\ A /\ UNCHANGED <<machine, nativeVars, probeVars, nameVars, payloadVars>>

MCNext ==
  \/ Stepping(Next)
  \/ machine = "NATIVE"  /\ D!Next /\ UNCHANGED <<machine, vars, probeVars, nameVars, payloadVars>>
  \/ machine = "NONE"    /\ P!Next /\ UNCHANGED <<machine, vars, nativeVars, nameVars, payloadVars>>
  \/ machine = "names"   /\ R!Next /\ UNCHANGED <<machine, vars, nativeVars, probeVars, payloadVars>>
  \/ machine = "payload" /\ Y!Next /\ UNCHANGED <<machine, vars, nativeVars, probeVars, nameVars>>

\* The fairness of ProviderStep.
MCSpec == MCInit /\ [][MCNext]_all /\ WF_all(Stepping(Worker))

(* Every step is over some day: ProviderStep.  *)
StepEnds == machine = "step" => AlwaysReturns

(* What refresh=True answers was true meanwhile: Discovery.  *)
RefreshTellsTheTruth == D!RefreshTellsTheTruth

(* No verdict in the cache is missed, and refresh=True is told what was    *)
(* true meanwhile: ProbeCache.                                             *)
ProbesAreHonest == P!UnknownIsHonest /\ P!RefreshProbes

(* A name keeps its meaning in a fork and when it is priced: Registry. *)
NamesKeepTheirMeaning == R!ForkIsAClone /\ R!PricingKeepsContract

(* The verdict is about what will be sent: Registry. *)
VerdictIsAboutTheWire == R!VerdictIsAboutTheWire

(* No request breaks the model's contract: Payload. *)
SentIsLegal == Y!SentIsLegal

(* The model is asked for what the caller set, however spelled, every time *)
(* it is asked: Payload.                                                   *)
SentIsWanted == Y!SentIsWanted

(* A step is billed for what the provider was asked: Payload. *)
BilledAsSent == Y!BilledAsSent
=============================================================================
