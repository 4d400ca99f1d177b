----------------------------- MODULE Discovery -----------------------------
(***************************************************************************)
(* BaseProvider.validate_model() of a provider with NATIVE discovery, and  *)
(* the _DiscoveryCache behind it: threads ask whether the upstream catalog *)
(* lists a model, from a cached snapshot of the catalog or from a fetch.   *)
(* At most one fetch is in flight; the others wait for it, up to a bound,  *)
(* and read what it left.  refresh=True drops the snapshot first.          *)
(*                                                                         *)
(* The catalog and its snapshots are reduced to the one model that is      *)
(* asked for, time to whether the snapshot is younger than the TTL.        *)
(***************************************************************************)
EXTENDS Naturals, FiniteSets

CONSTANT Threads

VARIABLES
  catalog,   \* external: the upstream catalog lists the model
  cached,    \* _DiscoveryCache._result: its status and slugs
  fresh,     \* it is a good snapshot younger than the TTL
  inFlight,  \* _DiscoveryCache._in_flight
  pc,        \* where each thread is
  refresh,   \* the call is validate_model(refresh=True)
  answer,    \* outcome of each thread's last call
  seen,      \* history: what the catalog said since a refreshing call began
  flown      \* history: and since the fetch in flight began

vars == <<catalog, cached, fresh, inFlight, pc, refresh, answer, seen, flown>>

Nothing == [status |-> "none", slugs |-> "unknown"]
Slugs(listed) == IF listed THEN "listed" ELSE "absent"

TypeOK ==
  /\ catalog \in BOOLEAN
  /\ cached \in [status : {"none", "ok", "stale", "failed"},
                 slugs : {"unknown", "listed", "absent"}]
  /\ cached.status = "ok" => cached.slugs # "unknown"
  /\ fresh \in BOOLEAN
  /\ fresh => cached.status = "ok"
  /\ inFlight \in BOOLEAN
  /\ pc \in [Threads -> {"idle", "first", "drop", "get", "fetch", "wait", "last"}]
  /\ refresh \in [Threads -> BOOLEAN]
  /\ answer \in [Threads -> {"none", "OK_AUTHORITATIVE", "NOT_FOUND", "OK_PROVISIONAL"}]
  /\ seen \in [Threads -> SUBSET BOOLEAN]
  /\ flown \subseteq BOOLEAN

Init ==
  /\ catalog \in BOOLEAN
  /\ cached = Nothing
  /\ fresh = FALSE
  /\ inFlight = FALSE
  /\ pc = [t \in Threads |-> "idle"]
  /\ refresh = [t \in Threads |-> FALSE]
  /\ answer = [t \in Threads |-> "none"]
  /\ seen = [t \in Threads |-> {}]
  /\ flown = {}

Goes(t, where) == pc' = [pc EXCEPT ![t] = where]

(* ModelRegistry.validate(): a snapshot decides, whatever its age. *)
Verdict ==
  IF cached.status # "ok" THEN "OK_PROVISIONAL"
  ELSE IF cached.slugs = "listed" THEN "OK_AUTHORITATIVE" ELSE "NOT_FOUND"

-----------------------------------------------------------------------------
(* validate_model() *)

Call(t) ==
  /\ pc[t] = "idle"
  /\ Goes(t, "first")
  /\ \E forced \in BOOLEAN :
       /\ refresh' = [refresh EXCEPT ![t] = forced]
       /\ seen' = [seen EXCEPT ![t] = IF forced THEN {catalog} \cup flown ELSE {}]
  /\ answer' = [answer EXCEPT ![t] = "none"]
  /\ UNCHANGED <<catalog, cached, fresh, inFlight, flown>>

(* The pass without network. *)
FirstPass(t) ==
  /\ pc[t] = "first"
  /\ IF Verdict # "OK_PROVISIONAL" /\ ~refresh[t]
     THEN /\ answer' = [answer EXCEPT ![t] = Verdict]
          /\ Goes(t, "idle")
     ELSE /\ Goes(t, IF refresh[t] THEN "drop" ELSE "get")
          /\ UNCHANGED answer
  /\ UNCHANGED <<catalog, cached, fresh, inFlight, refresh, seen, flown>>

Invalidate_Not(t) ==
  /\ pc[t] = "drop"
  /\ Goes(t, "get")
  /\ UNCHANGED <<catalog, cached, fresh, inFlight, refresh, answer, seen, flown>>

Invalidate(t) ==
  /\ pc[t] = "drop"
  /\ cached' = Nothing
  /\ fresh' = FALSE
  /\ Goes(t, "get")
  /\ UNCHANGED <<catalog, inFlight, refresh, answer, seen, flown>>

(* _DiscoveryCache.get(): a fresh snapshot, an election, or a wait. *)
GetCached(t) ==
  /\ pc[t] = "get"
  /\ cached.status = "ok" /\ fresh
  /\ Goes(t, "last")
  /\ UNCHANGED <<catalog, cached, fresh, inFlight, refresh, answer, seen, flown>>

GetElected(t) ==
  /\ pc[t] = "get"
  /\ ~(cached.status = "ok" /\ fresh)
  /\ ~inFlight
  /\ inFlight' = TRUE
  /\ flown' = {catalog}
  /\ Goes(t, "fetch")
  /\ UNCHANGED <<catalog, cached, fresh, refresh, answer, seen>>

GetWaits(t) ==
  /\ pc[t] = "get"
  /\ ~(cached.status = "ok" /\ fresh)
  /\ inFlight
  /\ Goes(t, "wait")
  /\ UNCHANGED <<catalog, cached, fresh, inFlight, refresh, answer, seen, flown>>

(* The fetcher set the event, or SINGLE_FLIGHT_WAIT_SECONDS are over. *)
WaitEnds(t) ==
  /\ pc[t] = "wait"
  /\ Goes(t, "last")
  /\ UNCHANGED <<catalog, cached, fresh, inFlight, refresh, answer, seen, flown>>

(* A failure keeps the snapshot there was, marked stale. *)
Failed ==
  IF cached.status = "none" THEN [status |-> "failed", slugs |-> "unknown"]
  ELSE [cached EXCEPT !.status = "stale"]

Publish(result) ==
  /\ cached' = result
  /\ fresh' = (result.status = "ok")
  /\ flown' = {}
  /\ inFlight' = FALSE

(* The fetch answers what the catalog said at some time since it began. *)
FetchAnswers(t) ==
  /\ pc[t] = "fetch"
  /\ \E listed \in flown : Publish([status |-> "ok", slugs |-> Slugs(listed)])
  /\ Goes(t, "last")
  /\ UNCHANGED <<catalog, refresh, answer, seen>>

FetchFails(t) ==
  /\ pc[t] = "fetch"
  /\ Publish(Failed)
  /\ Goes(t, "last")
  /\ UNCHANGED <<catalog, refresh, answer, seen>>

(* KeyboardInterrupt and the like leave validate_model() altogether. *)
FetchInterrupted(t) ==
  /\ pc[t] = "fetch"
  /\ Publish(Failed)
  /\ Goes(t, "idle")
  /\ UNCHANGED <<catalog, refresh, answer, seen>>

LastPass(t) ==
  /\ pc[t] = "last"
  /\ answer' = [answer EXCEPT ![t] = Verdict]
  /\ Goes(t, "idle")
  /\ UNCHANGED <<catalog, cached, fresh, inFlight, refresh, seen, flown>>

-----------------------------------------------------------------------------
CatalogChanges ==
  /\ catalog' = ~catalog
  /\ seen' = [t \in Threads |->
                IF pc[t] = "idle" \/ ~refresh[t] THEN seen[t] ELSE seen[t] \cup {~catalog}]
  /\ flown' = IF inFlight THEN flown \cup {~catalog} ELSE flown
  /\ UNCHANGED <<cached, fresh, inFlight, pc, refresh, answer>>

TtlExpires ==
  /\ fresh
  /\ fresh' = FALSE
  /\ UNCHANGED <<catalog, cached, inFlight, pc, refresh, answer, seen, flown>>

Proceeds(t) ==
  \/ FirstPass(t) \/ Invalidate(t)
  \/ GetCached(t) \/ GetElected(t) \/ GetWaits(t) \/ WaitEnds(t)
  \/ LastPass(t)

Fetch(t) == FetchAnswers(t) \/ FetchFails(t) \/ FetchInterrupted(t)

Next ==
  \/ \E t \in Threads : Call(t) \/ Proceeds(t) \/ Fetch(t)
  \/ CatalogChanges
  \/ TtlExpires

Spec == Init /\ [][Next]_vars

-----------------------------------------------------------------------------
(* Properties. *)

(* At most one fetch is in flight, and the cache says that one is exactly  *)
(* when there is a thread to end it: an interrupted fetch does not leave   *)
(* every later caller waiting.                                             *)
SingleFlight ==
  /\ Cardinality({t \in Threads : pc[t] = "fetch"}) <= 1
  /\ inFlight <=> \E t \in Threads : pc[t] = "fetch"

(* What refresh=True answers was true upstream during the call or during   *)
(* the fetch that was in flight when it began, whoever else drops,         *)
(* fetches or fails meanwhile.                                             *)
RefreshTellsTheTruth ==
  \A t \in Threads : refresh[t] /\ pc[t] = "idle" =>
    /\ answer[t] = "OK_AUTHORITATIVE" => TRUE \in seen[t]
    /\ answer[t] = "NOT_FOUND" => FALSE \in seen[t]

(* A snapshot is lost to refresh=True only, never to a fetch that failed.  *)
FailureKeepsSnapshot ==
  [][cached.slugs # "unknown" /\ cached'.slugs = "unknown"
       => \E t \in Threads : pc[t] = "drop" /\ pc'[t] = "get"]_vars

(* A verdict given without a fetch is that of a snapshot younger than the  *)
(* TTL: the "first validate_model() call after a TTL expiry triggers a     *)
(* single-flight refresh".                                                 *)
VerdictWithinTtl ==
  [][\A t \in Threads : pc[t] = "first" /\ answer'[t] # "none" => fresh]_vars

=============================================================================
