----------------------------- MODULE ProbeCache -----------------------------
(***************************************************************************)
(* BaseProvider.validate_model() of a provider without a catalog: whether  *)
(* a model lives is learned from a probe of the upstream service, and      *)
(* _cached_probe() keeps the verdicts of the last probes.  One thread at a *)
(* time probes a slug; the others wait for its event, up to a bound, and   *)
(* read what is in the cache then.  refresh=True drops the entry first.    *)
(***************************************************************************)
EXTENDS Naturals, Sequences, SequencesExt, FiniteSets

CONSTANTS
  Threads,
  Models,
  MaxEntries   \* _probe_cache_max_entries

VARIABLES
  lives,     \* external: the models the service has
  order,     \* the slugs in _probe_cache, in insertion order
  verdict,   \* their verdicts
  fresh,     \* the entries younger than the TTL
  prober,    \* _probe_inflight: slugs a thread is probing
  pc,        \* where each thread is
  slug, refresh, \* the call of each thread
  answer,    \* what _cached_probe() returned
  woken,     \* waiters whose event is set
  lost,      \* history: waiters whose entry was dropped by another call
  why,       \* history: why the answer is UNKNOWN
  seen,      \* history: what was true of the slug since a refreshing call began
  flown      \* history: and since the probe of each slug began

vars == <<lives, order, verdict, fresh, prober, pc, slug, refresh, answer, woken, lost, why, seen, flown>>
cache == <<order, verdict, fresh>>

TypeOK ==
  /\ lives \subseteq Models
  /\ order \in SeqOf(Models, MaxEntries)
  /\ IsInjective(order)
  /\ verdict \in [Models -> {"none", "LIVE", "DEAD"}]
  /\ \A s \in Models : verdict[s] # "none" <=> s \in ToSet(order)
  /\ fresh \subseteq ToSet(order)
  /\ prober \subseteq Models
  /\ pc \in [Threads -> {"idle", "lookup", "probe", "wait"}]
  /\ slug \in [Threads -> Models]
  /\ refresh \in [Threads -> BOOLEAN]
  /\ answer \in [Threads -> {"none", "LIVE", "DEAD", "UNKNOWN"}]
  /\ woken \subseteq Threads
  /\ lost \subseteq Threads
  /\ why \in [Threads -> {"none", "failed", "timeout", "lost"}]
  /\ seen \in [Threads -> SUBSET BOOLEAN]
  /\ flown \in [Models -> SUBSET BOOLEAN]

Init ==
  /\ lives \in SUBSET Models
  /\ order = <<>>
  /\ verdict = [s \in Models |-> "none"]
  /\ fresh = {}
  /\ prober = {}
  /\ pc = [t \in Threads |-> "idle"]
  /\ slug = [t \in Threads |-> CHOOSE s \in Models : TRUE]
  /\ refresh = [t \in Threads |-> FALSE]
  /\ answer = [t \in Threads |-> "none"]
  /\ woken = {}
  /\ lost = {}
  /\ why = [t \in Threads |-> "none"]
  /\ seen = [t \in Threads |-> {}]
  /\ flown = [s \in Models |-> {}]

Goes(t, where) == pc' = [pc EXCEPT ![t] = where]

Returns(t, a) ==
  /\ answer' = [answer EXCEPT ![t] = a]
  /\ Goes(t, "idle")

WaitersOf(s) == {t \in Threads : pc[t] = "wait" /\ slug[t] = s}

(* validate_model() goes to the cache: for the probe of the slug's family, *)
(* or the registry's fallback probe.                                       *)
Call(t) ==
  /\ pc[t] = "idle"
  /\ Goes(t, "lookup")
  /\ \E s \in Models, forced \in BOOLEAN :
       /\ slug' = [slug EXCEPT ![t] = s]
       /\ refresh' = [refresh EXCEPT ![t] = forced]
       /\ seen' = [seen EXCEPT ![t] = IF forced THEN {(s \in lives)} \cup flown[s] ELSE {}]
  /\ answer' = [answer EXCEPT ![t] = "none"]
  /\ why' = [why EXCEPT ![t] = "none"]
  /\ UNCHANGED <<lives, cache, prober, woken, lost, flown>>

Hit(t) == slug[t] \in fresh /\ ~refresh[t]

LookupHit(t) ==
  /\ pc[t] = "lookup"
  /\ Hit(t)
  /\ Returns(t, verdict[slug[t]])
  /\ UNCHANGED <<lives, cache, prober, slug, refresh, woken, lost, why, seen, flown>>

DropEntry(t) ==
  LET s == slug[t]
  IN  /\ order' = SelectSeq(order, LAMBDA x : x # s)
      /\ verdict' = [verdict EXCEPT ![s] = "none"]
      /\ fresh' = fresh \ {s}

(* No entry to use: the thread probes, or waits for the one that does. *)
LookupMiss(t) ==
  LET s == slug[t]
  IN  /\ pc[t] = "lookup"
      /\ ~Hit(t)
      /\ DropEntry(t)
      /\ lost' = lost \cup WaitersOf(s)
      /\ IF s \in prober
         THEN Goes(t, "wait") /\ UNCHANGED <<prober, flown>>
         ELSE /\ Goes(t, "probe")
              /\ prober' = prober \cup {s}
              /\ flown' = [flown EXCEPT ![s] = {(s \in lives)}]
      /\ UNCHANGED <<lives, slug, refresh, answer, woken, why, seen>>

(* _evict_probe_cache_if_oversized(): the oldest quarter, at least one. *)
Evicted(keys) ==
  LET quarter == Len(keys) \div 4
  IN  IF Len(keys) <= MaxEntries THEN {}
      ELSE {keys[i] : i \in 1..(IF quarter > 1 THEN quarter ELSE 1)}

Store(s, v) ==
  LET keys == IF s \in ToSet(order) THEN order ELSE Append(order, s)
      out == Evicted(keys)
  IN  /\ order' = SelectSeq(keys, LAMBDA x : x \notin out)
      /\ verdict' = [x \in Models |-> IF x \in out THEN "none" ELSE IF x = s THEN v ELSE verdict[x]]
      /\ fresh' = (fresh \cup {s}) \ out
      /\ lost' = lost \cup UNION {WaitersOf(x) : x \in out}

Publish_Remembers(s, v) ==
  /\ prober' = prober \ {s}
  /\ flown' = [flown EXCEPT ![s] = {}]
  /\ woken' = woken \cup WaitersOf(s)
  /\ Store(s, v)

(* The probe ended: its verdict is stored, unless it is UNKNOWN, before    *)
(* the waiters are woken.                                                  *)
Publish(s, v) ==
  /\ prober' = prober \ {s}
  /\ flown' = [flown EXCEPT ![s] = {}]
  /\ woken' = woken \cup WaitersOf(s)
  /\ IF v = "UNKNOWN" THEN UNCHANGED <<cache, lost>> ELSE Store(s, v)

Word(live) == IF live THEN "LIVE" ELSE "DEAD"

ProbeAnswers(t) ==
  /\ pc[t] = "probe"
  /\ \E live \in flown[slug[t]] : Publish(slug[t], Word(live)) /\ Returns(t, Word(live))
  /\ UNCHANGED <<lives, slug, refresh, why, seen>>

(* A probe that raises, times out or does not know; an interrupt leaves    *)
(* validate_model() with nothing.                                          *)
ProbeFails(t) ==
  /\ pc[t] = "probe"
  /\ Publish(slug[t], "UNKNOWN")
  /\ \E a \in {"UNKNOWN", "none"} : Returns(t, a)
  /\ why' = [w \in Threads |-> IF w = t \/ w \in WaitersOf(slug[t]) THEN "failed" ELSE why[w]]
  /\ UNCHANGED <<lives, slug, refresh, seen>>

(* The event is set, or _PROBE_INFLIGHT_WAIT_SECONDS are over: whatever is *)
(* in the cache answers, at any age.                                       *)
WaitEnds(t) ==
  LET s == slug[t]
  IN  /\ pc[t] = "wait"
      /\ Returns(t, IF verdict[s] = "none" THEN "UNKNOWN" ELSE verdict[s])
      /\ why' = [why EXCEPT ![t] = IF t \notin woken THEN "timeout"
                                   ELSE IF t \in lost THEN "lost" ELSE @]
      /\ woken' = woken \ {t}
      /\ lost' = lost \ {t}
      /\ UNCHANGED <<lives, cache, prober, slug, refresh, seen, flown>>

ModelChanges ==
  \E s \in Models :
    /\ lives' = (lives \ {s}) \cup ({s} \ lives)
    /\ flown' = [flown EXCEPT ![s] = IF s \in prober THEN BOOLEAN ELSE {}]
    /\ seen' = [t \in Threads |-> IF pc[t] # "idle" /\ refresh[t] /\ slug[t] = s THEN BOOLEAN ELSE seen[t]]
    /\ UNCHANGED <<cache, prober, pc, slug, refresh, answer, woken, lost, why>>

TtlExpires ==
  /\ \E s \in fresh : fresh' = fresh \ {s}
  /\ UNCHANGED <<lives, order, verdict, prober, pc, slug, refresh, answer, woken, lost, why, seen, flown>>

Next ==
  \/ \E t \in Threads :
       Call(t) \/ LookupHit(t) \/ LookupMiss(t) \/ ProbeAnswers(t) \/ ProbeFails(t) \/ WaitEnds(t)
  \/ ModelChanges
  \/ TtlExpires

Spec == Init /\ [][Next]_vars

-----------------------------------------------------------------------------
(* A call is told UNKNOWN only when a probe it made or waited for failed,  *)
(* when it lost patience, or when another call dropped the entry between   *)
(* the probe's end and its own look: a waiter never misses a verdict that  *)
(* is still there, and UNKNOWN is never remembered.                        *)
UnknownIsHonest ==
  \A t \in Threads : answer[t] = "UNKNOWN" => why[t] # "none"

(* What a refreshing call is told was true of the model during the call or *)
(* during the probe in flight when it began.                               *)
RefreshProbes ==
  \A t \in Threads : refresh[t] /\ pc[t] = "idle" =>
    /\ answer[t] = "LIVE" => TRUE \in seen[t]
    /\ answer[t] = "DEAD" => FALSE \in seen[t]

=============================================================================
