-------------------------- MODULE DiscoveryProofs --------------------------
(***************************************************************************)
(* Proofs about Discovery, for any set of threads: at most one fetch is in *)
(* flight, a refreshed verdict was true upstream, and a failing fetch      *)
(* loses no snapshot.                                                      *)
(*                                                                         *)
(* Below, the same about ProbeCache, where there is no catalog: UNKNOWN is *)
(* told for a reason only, and a refreshed verdict was probed.  Last, that *)
(* Registry gives verdicts on what is sent and that names keep their       *)
(* meaning.                                                                *)
(***************************************************************************)
EXTENDS MCProvider, FiniteSetTheorems, SequenceTheorems, WellFoundedInduction, TLAPS

(* One thread fetches exactly while the cache says so. *)
OneFetcher ==
  /\ inFlight <=> \E t \in Callers : place[t] = "fetch"
  /\ \A t, u \in Callers : place[t] = "fetch" /\ place[u] = "fetch" => t = u

(* What a refreshing call has seen covers the catalog as it is now and     *)
(* whatever the fetch in flight may answer.                                *)
SeenCovers ==
  \A t \in Callers : refresh[t] /\ place[t] # "idle" => catalog \in seen[t] /\ flown \subseteq seen[t]

(* Once it has dropped the snapshot, another one can only be of what it    *)
(* has seen since.                                                         *)
SnapshotSeen ==
  \A t \in Callers :
    refresh[t] /\ place[t] \in {"get", "fetch", "wait", "last"} /\ cached.status = "ok" =>
      \E listed \in seen[t] : cached.slugs = D!Slugs(listed)

(* A call has no answer before it ends. *)
NoEarlyAnswer == \A t \in Callers : place[t] # "idle" => answer[t] = "none"

(* Without a snapshot there are no slugs. *)
NothingKnown == cached.status = "none" => cached.slugs = "unknown"

IInv ==
  /\ D!TypeOK
  /\ OneFetcher
  /\ SeenCovers
  /\ SnapshotSeen
  /\ NoEarlyAnswer
  /\ NothingKnown
  /\ D!RefreshTellsTheTruth

-----------------------------------------------------------------------------


(* Nothing is cached, in flight or answered initially. *)
LEMMA InitIInv == D!Init => IInv
<1> SUFFICES ASSUME D!Init PROVE IInv
    OBVIOUS
<1>1. D!TypeOK
    BY DEF D!Init, D!TypeOK, D!Nothing
<1>2. OneFetcher /\ SeenCovers /\ NothingKnown
    BY DEF D!Init, OneFetcher, SeenCovers, NothingKnown, D!Nothing
<1>3. SnapshotSeen /\ NoEarlyAnswer /\ D!RefreshTellsTheTruth
    BY DEF D!Init, SnapshotSeen, NoEarlyAnswer, D!RefreshTellsTheTruth, D!Nothing
<1> QED
    BY <1>1, <1>2, <1>3 DEF IInv

(* A thread that moves without fetching leaves the election alone. *)
LEMMA ElectionLeftAlone ==
  ASSUME IInv, NEW t \in Callers, NEW where \in {"idle", "first", "drop", "get", "wait", "last"},
         place[t] # "fetch", D!Goes(t, where), inFlight' = inFlight
  PROVE  OneFetcher'
<1>1. place \in [Callers -> {"idle", "first", "drop", "get", "fetch", "wait", "last"}]
    BY DEF IInv, D!TypeOK
<1>2. \A u \in Callers : place'[u] = "fetch" <=> place[u] = "fetch"
    BY <1>1 DEF D!Goes
<1> QED
    BY <1>2 DEF IInv, OneFetcher

(* Slugs of a catalog are known. *)
LEMMA SlugsKnown ==
  \A listed \in BOOLEAN : D!Slugs(listed) \in {"listed", "absent"} /\ D!Slugs(listed) # "unknown"
  BY DEF D!Slugs

Places == {"idle", "first", "drop", "get", "fetch", "wait", "last"}

(* Where the threads are after one of them moved. *)
LEMMA Moved ==
  ASSUME IInv, NEW t \in Callers, NEW where \in Places, D!Goes(t, where)
  PROVE  /\ place' \in [Callers -> Places]
         /\ place'[t] = where
         /\ \A u \in Callers : u # t => place'[u] = place[u]
<1>1. place \in [Callers -> Places]
    BY DEF IInv, D!TypeOK, Places
<1> QED
    BY <1>1 DEF D!Goes

(* A call begins: nothing is answered, and it sees what may be answered.   *)
LEMMA CallKeeps == ASSUME IInv, NEW t \in Callers, D!Call(t) PROVE IInv'
<1>1. /\ place[t] = "idle" /\ D!Goes(t, "first")
      /\ answer' = [answer EXCEPT ![t] = "none"]
      /\ UNCHANGED <<catalog, cached, fresh, inFlight, flown>>
    BY DEF D!Call
<1>2. PICK asked \in BOOLEAN :
        /\ refresh' = [refresh EXCEPT ![t] = asked]
        /\ seen' = [seen EXCEPT ![t] = IF asked THEN {catalog} \cup flown ELSE {}]
    BY DEF D!Call
<1>3. D!TypeOK
    BY DEF IInv
<1>4. D!TypeOK'
    BY <1>1, <1>2, <1>3 DEF D!TypeOK, D!Goes
<1>5. OneFetcher'
    BY <1>1, ElectionLeftAlone
<1>6. /\ place'[t] = "first" /\ answer'[t] = "none" /\ refresh'[t] = asked
      /\ asked => seen'[t] = {catalog} \cup flown
      /\ \A u \in Callers : u # t => /\ place'[u] = place[u] /\ answer'[u] = answer[u]
                                     /\ refresh'[u] = refresh[u] /\ seen'[u] = seen[u]
    BY <1>1, <1>2, <1>3 DEF D!TypeOK, D!Goes
<1>7. SeenCovers'
    BY <1>1, <1>6 DEF IInv, SeenCovers
<1>8. SnapshotSeen'
    BY <1>1, <1>6 DEF IInv, SnapshotSeen
<1>9. NoEarlyAnswer' /\ D!RefreshTellsTheTruth'
    BY <1>6 DEF IInv, NoEarlyAnswer, D!RefreshTellsTheTruth
<1>10. NothingKnown'
    BY <1>1 DEF IInv, NothingKnown
<1> QED
    BY <1>4, <1>5, <1>7, <1>8, <1>9, <1>10 DEF IInv

(* The pass without network answers a call without refresh or none. *)
LEMMA FirstPassKeeps == ASSUME IInv, NEW t \in Callers, D!FirstPass(t) PROVE IInv'
<1>1. /\ place[t] = "first"
      /\ UNCHANGED <<catalog, cached, fresh, inFlight, refresh, seen, flown>>
    BY DEF D!FirstPass
<1>2. PICK where \in {"idle", "drop", "get"} :
        /\ D!Goes(t, where)
        /\ IF where = "idle" THEN ~refresh[t] /\ answer' = [answer EXCEPT ![t] = D!Verdict]
                             ELSE (where = "get" => ~refresh[t]) /\ answer' = answer
    BY DEF D!FirstPass
<1>3. D!TypeOK /\ D!Verdict \in {"OK_AUTHORITATIVE", "NOT_FOUND", "OK_PROVISIONAL"}
    BY DEF IInv, D!Verdict
<1>4. D!TypeOK'
    BY <1>1, <1>2, <1>3 DEF D!TypeOK, D!Goes
<1>5. OneFetcher'
    BY <1>1, <1>2, ElectionLeftAlone
<1>6. /\ place'[t] = where
      /\ \A u \in Callers : u # t => place'[u] = place[u] /\ answer'[u] = answer[u]
      /\ where # "idle" => answer' = answer
      /\ where # "drop" => ~refresh[t]
    BY <1>2, <1>3 DEF D!TypeOK, D!Goes
<1>7. SeenCovers'
    BY <1>1, <1>6 DEF IInv, SeenCovers
<1>8. SnapshotSeen'
    BY <1>1, <1>2, <1>6 DEF IInv, SnapshotSeen
<1>9. NoEarlyAnswer' /\ D!RefreshTellsTheTruth'
    BY <1>1, <1>2, <1>6 DEF IInv, NoEarlyAnswer, D!RefreshTellsTheTruth
<1>10. NothingKnown'
    BY <1>1 DEF IInv, NothingKnown
<1> QED
    BY <1>4, <1>5, <1>7, <1>8, <1>9, <1>10 DEF IInv

(* Without a snapshot there is nothing to have seen. *)
LEMMA InvalidateKeeps == ASSUME IInv, NEW t \in Callers, D!Invalidate(t) PROVE IInv'
<1>1. /\ place[t] = "drop" /\ D!Goes(t, "get") /\ cached' = D!Nothing /\ fresh' = FALSE
      /\ UNCHANGED <<catalog, inFlight, refresh, answer, seen, flown>>
    BY DEF D!Invalidate
<1>2. /\ place'[t] = "get"
      /\ \A u \in Callers : u # t => place'[u] = place[u]
    BY <1>1, Moved DEF Places
<1>3. cached'.status = "none" /\ cached'.slugs = "unknown"
    BY <1>1 DEF D!Nothing
<1>4. D!TypeOK'
    BY <1>1 DEF IInv, D!TypeOK, D!Goes, D!Nothing
<1>5. OneFetcher'
    BY <1>1, ElectionLeftAlone
<1>6. SeenCovers' /\ SnapshotSeen' /\ NothingKnown'
    BY <1>1, <1>2, <1>3 DEF IInv, SeenCovers, SnapshotSeen, NothingKnown
<1>7. NoEarlyAnswer' /\ D!RefreshTellsTheTruth'
    BY <1>1, <1>2 DEF IInv, NoEarlyAnswer, D!RefreshTellsTheTruth
<1> QED
    BY <1>4, <1>5, <1>6, <1>7 DEF IInv

(* A thread that finds a fresh snapshot, waits for the fetch of another or *)
(* gives up waiting changes nothing but its place.                         *)
LEMMA WaitingKeeps ==
  ASSUME IInv, NEW t \in Callers, NEW where \in {"wait", "last"},
         place[t] \in {"get", "wait"}, D!Goes(t, where),
         UNCHANGED <<catalog, cached, fresh, inFlight, refresh, answer, seen, flown>>
  PROVE  IInv'
<1>1. /\ place'[t] = where
      /\ \A u \in Callers : u # t => place'[u] = place[u]
    BY Moved DEF Places
<1>2. D!TypeOK'
    BY DEF IInv, D!TypeOK, D!Goes
<1>3. OneFetcher'
    BY ElectionLeftAlone
<1>4. SeenCovers' /\ NothingKnown'
    BY <1>1 DEF IInv, SeenCovers, NothingKnown
<1>5. SnapshotSeen'
    BY <1>1 DEF IInv, SnapshotSeen
<1>6. NoEarlyAnswer' /\ D!RefreshTellsTheTruth'
    BY <1>1 DEF IInv, NoEarlyAnswer, D!RefreshTellsTheTruth
<1> QED
    BY <1>2, <1>3, <1>4, <1>5, <1>6 DEF IInv

(* Nobody fetched before a thread is elected. *)
LEMMA GetElectedKeeps == ASSUME IInv, NEW t \in Callers, D!GetElected(t) PROVE IInv'
<1>1. /\ place[t] = "get" /\ D!Goes(t, "fetch") /\ ~inFlight /\ inFlight' = TRUE
      /\ flown' = {catalog}
      /\ UNCHANGED <<catalog, cached, fresh, refresh, answer, seen>>
    BY DEF D!GetElected
<1>2. /\ place'[t] = "fetch"
      /\ \A u \in Callers : u # t => place'[u] = place[u]
    BY <1>1, Moved DEF Places
<1>3. D!TypeOK'
    BY <1>1 DEF IInv, D!TypeOK, D!Goes
<1>4. OneFetcher'
    BY <1>1, <1>2 DEF IInv, OneFetcher
<1>5. SeenCovers' /\ NothingKnown'
    BY <1>1, <1>2 DEF IInv, SeenCovers, NothingKnown
<1>6. SnapshotSeen'
    BY <1>1, <1>2 DEF IInv, SnapshotSeen
<1>7. NoEarlyAnswer' /\ D!RefreshTellsTheTruth'
    BY <1>1, <1>2 DEF IInv, NoEarlyAnswer, D!RefreshTellsTheTruth
<1> QED
    BY <1>3, <1>4, <1>5, <1>6, <1>7 DEF IInv

-----------------------------------------------------------------------------
(* The end of a fetch. *)

(* A result that may be published: slugs the fetch may have been answered, *)
(* or a failure.                                                           *)
Publishable(result) ==
  /\ result \in [status : {"ok", "stale", "failed"}, slugs : {"unknown", "listed", "absent"}]
  /\ result.status = "ok" => \E listed \in flown : result.slugs = D!Slugs(listed)

(* Whatever a fetch publishes, a refreshing call has seen it. *)
LEMMA PublishKeeps ==
  ASSUME IInv, NEW t \in Callers, NEW where \in {"idle", "last"}, NEW result,
         Publishable(result), place[t] = "fetch", D!Publish(result), D!Goes(t, where),
         UNCHANGED <<catalog, refresh, answer, seen>>
  PROVE  IInv'
<1>1. /\ cached' = result /\ fresh' = (result.status = "ok") /\ flown' = {} /\ inFlight' = FALSE
    BY DEF D!Publish
<1>2. /\ place'[t] = where
      /\ \A u \in Callers : u # t => place'[u] = place[u]
    BY Moved DEF Places
<1>3. D!TypeOK'
  <2>1. flown \subseteq BOOLEAN
      BY DEF IInv, D!TypeOK
  <2>2. result.status = "ok" => result.slugs # "unknown"
      BY <2>1, SlugsKnown DEF Publishable
  <2>3. /\ cached' \in [status : {"none", "ok", "stale", "failed"},
                        slugs : {"unknown", "listed", "absent"}]
        /\ cached'.status = "ok" => cached'.slugs # "unknown"
      BY <1>1, <2>2 DEF Publishable
  <2>4. fresh' \in BOOLEAN /\ (fresh' => cached'.status = "ok")
      BY <1>1
  <2>5. place' \in [Callers -> {"idle", "first", "drop", "get", "fetch", "wait", "last"}]
      BY Moved DEF Places
  <2> QED
      BY <1>1, <2>3, <2>4, <2>5 DEF IInv, D!TypeOK
<1>4. OneFetcher'
    BY <1>1, <1>2 DEF IInv, OneFetcher
<1>5. SeenCovers'
    BY <1>1, <1>2 DEF IInv, SeenCovers
<1>6. SnapshotSeen'
  <2> SUFFICES ASSUME NEW u \in Callers, refresh[u], place'[u] # "idle", result.status = "ok"
               PROVE  \E listed \in seen[u] : result.slugs = D!Slugs(listed)
      BY <1>1 DEF SnapshotSeen
  <2>1. place[u] # "idle"
      BY <1>2
  <2>2. flown \subseteq seen[u]
      BY <2>1 DEF IInv, SeenCovers
  <2> QED
      BY <2>2 DEF Publishable
<1>7. NoEarlyAnswer'
    BY <1>2 DEF IInv, NoEarlyAnswer
<1>8. D!RefreshTellsTheTruth'
    BY <1>2 DEF IInv, NoEarlyAnswer, D!RefreshTellsTheTruth
<1>9. NothingKnown'
    BY <1>1 DEF NothingKnown, Publishable
<1> QED
    BY <1>3, <1>4, <1>5, <1>6, <1>7, <1>8, <1>9 DEF IInv

(* A failure is no good snapshot, and loses no slugs. *)
LEMMA FailedIsPublishable ==
  ASSUME IInv
  PROVE  Publishable(D!Failed) /\ (cached.slugs # "unknown" => D!Failed.slugs = cached.slugs)
<1>1. cached \in [status : {"none", "ok", "stale", "failed"},
                  slugs : {"unknown", "listed", "absent"}]
    BY DEF IInv, D!TypeOK
<1>2. CASE cached.status = "none"
    BY <1>2 DEF D!Failed, Publishable, IInv, NothingKnown
<1>3. CASE cached.status # "none"
    BY <1>1, <1>3 DEF D!Failed, Publishable
<1> QED
    BY <1>2, <1>3

(* A fetch publishes an answer or a failure, even when interrupted. *)
LEMMA FetchKeeps == ASSUME IInv, NEW t \in Callers, D!Fetch(t) PROVE IInv'
<1>1. CASE D!FetchAnswers(t)
  <2>1. PICK listed \in flown : D!Publish([status |-> "ok", slugs |-> D!Slugs(listed)])
      BY <1>1 DEF D!FetchAnswers
  <2>2. listed \in BOOLEAN
      BY DEF IInv, D!TypeOK
  <2>3. Publishable([status |-> "ok", slugs |-> D!Slugs(listed)])
      BY <2>2, SlugsKnown DEF Publishable
  <2>4. place[t] = "fetch" /\ D!Goes(t, "last") /\ UNCHANGED <<catalog, refresh, answer, seen>>
      BY <1>1 DEF D!FetchAnswers
  <2> QED
      BY <2>1, <2>3, <2>4, PublishKeeps
<1>2. CASE D!FetchFails(t)
  <2>1. /\ place[t] = "fetch" /\ D!Goes(t, "last") /\ D!Publish(D!Failed)
        /\ UNCHANGED <<catalog, refresh, answer, seen>>
      BY <1>2 DEF D!FetchFails
  <2> QED
      BY <2>1, FailedIsPublishable, PublishKeeps
<1>3. CASE D!FetchInterrupted(t)
  <2>1. /\ place[t] = "fetch" /\ D!Goes(t, "idle") /\ D!Publish(D!Failed)
        /\ UNCHANGED <<catalog, refresh, answer, seen>>
      BY <1>3 DEF D!FetchInterrupted
  <2> QED
      BY <2>1, FailedIsPublishable, PublishKeeps
<1> QED
    BY <1>1, <1>2, <1>3 DEF D!Fetch

(* The verdict of a refreshing call is about something it has seen. *)
LEMMA LastPassKeeps == ASSUME IInv, NEW t \in Callers, D!LastPass(t) PROVE IInv'
<1>1. /\ place[t] = "last" /\ D!Goes(t, "idle") /\ answer' = [answer EXCEPT ![t] = D!Verdict]
      /\ UNCHANGED <<catalog, cached, fresh, inFlight, refresh, seen, flown>>
    BY DEF D!LastPass
<1>2. D!TypeOK /\ D!Verdict \in {"OK_AUTHORITATIVE", "NOT_FOUND", "OK_PROVISIONAL"}
    BY DEF IInv, D!Verdict
<1>3. /\ place'[t] = "idle" /\ answer'[t] = D!Verdict
      /\ \A u \in Callers : u # t => place'[u] = place[u] /\ answer'[u] = answer[u]
    BY <1>1, <1>2 DEF D!TypeOK, D!Goes
<1>4. D!TypeOK'
    BY <1>1, <1>2 DEF D!TypeOK, D!Goes
<1>5. OneFetcher'
    BY <1>1, ElectionLeftAlone
<1>6. SeenCovers' /\ SnapshotSeen' /\ NothingKnown' /\ NoEarlyAnswer'
    BY <1>1, <1>3 DEF IInv, SeenCovers, SnapshotSeen, NothingKnown, NoEarlyAnswer
<1>7. refresh[t] => /\ D!Verdict = "OK_AUTHORITATIVE" => TRUE \in seen[t]
                    /\ D!Verdict = "NOT_FOUND" => FALSE \in seen[t]
  <2> SUFFICES ASSUME refresh[t], cached.status = "ok"
               PROVE  IF cached.slugs = "listed" THEN TRUE \in seen[t] ELSE FALSE \in seen[t]
      BY DEF D!Verdict
  <2>1. PICK listed \in seen[t] : cached.slugs = D!Slugs(listed)
      BY <1>1 DEF IInv, SnapshotSeen
  <2>2. listed \in BOOLEAN
      BY <1>2 DEF D!TypeOK
  <2>3. CASE listed = TRUE
      BY <2>1, <2>3 DEF D!Slugs
  <2>4. CASE listed = FALSE
      BY <2>1, <2>4 DEF D!Slugs
  <2> QED
      BY <2>2, <2>3, <2>4
<1>8. D!RefreshTellsTheTruth'
    BY <1>1, <1>3, <1>7 DEF IInv, D!RefreshTellsTheTruth
<1> QED
    BY <1>4, <1>5, <1>6, <1>8 DEF IInv

-----------------------------------------------------------------------------
(* The environment. *)

(* Whoever is refreshing sees the catalog change. *)
LEMMA CatalogChangesKeeps == ASSUME IInv, D!CatalogChanges PROVE IInv'
<1>1. /\ catalog' = ~catalog
      /\ seen' = [t \in Callers |->
                    IF place[t] = "idle" \/ ~refresh[t] THEN seen[t] ELSE seen[t] \cup {~catalog}]
      /\ flown' \subseteq flown \cup {~catalog}
      /\ UNCHANGED <<cached, fresh, inFlight, place, refresh, answer>>
    BY DEF D!CatalogChanges
<1>2. D!TypeOK /\ (~catalog) \in BOOLEAN
    BY DEF IInv, D!TypeOK
<1>3. \A t \in Callers :
        /\ seen[t] \subseteq seen'[t]
        /\ place[t] = "idle" => seen'[t] = seen[t]
        /\ refresh[t] /\ place[t] # "idle" => seen'[t] = seen[t] \cup {~catalog}
    BY <1>1
<1>4. D!TypeOK'
  <2>1. \A t \in Callers : seen[t] \subseteq BOOLEAN /\ {~catalog} \subseteq BOOLEAN
      BY <1>2 DEF D!TypeOK
  <2>2. seen' \in [Callers -> SUBSET BOOLEAN]
      BY <1>1, <2>1
  <2>3. catalog' \in BOOLEAN /\ flown' \subseteq BOOLEAN
      BY <1>1, <1>2 DEF D!TypeOK
  <2> QED
      BY <1>1, <1>2, <2>2, <2>3 DEF D!TypeOK
<1>5. OneFetcher' /\ NothingKnown' /\ NoEarlyAnswer'
    BY <1>1 DEF IInv, OneFetcher, NothingKnown, NoEarlyAnswer
<1>6. SeenCovers'
    BY <1>1, <1>3 DEF IInv, SeenCovers
<1>7. SnapshotSeen'
    BY <1>1, <1>3 DEF IInv, SnapshotSeen
<1>8. D!RefreshTellsTheTruth'
    BY <1>1, <1>3 DEF IInv, D!RefreshTellsTheTruth
<1> QED
    BY <1>4, <1>5, <1>6, <1>7, <1>8 DEF IInv

(* A snapshot that is no longer fresh stays cached. *)
LEMMA TtlExpiresKeeps == ASSUME IInv, D!TtlExpires PROVE IInv'
  BY DEF IInv, D!TtlExpires, D!TypeOK, OneFetcher, SeenCovers, SnapshotSeen, NoEarlyAnswer,
         NothingKnown, D!RefreshTellsTheTruth

(* Every step keeps the invariant. *)
LEMMA NextIInv == IInv /\ [D!Next]_D!vars => IInv'
<1> SUFFICES ASSUME IInv, [D!Next]_D!vars PROVE IInv'
    OBVIOUS
<1>1. ASSUME NEW t \in Callers, D!Call(t) \/ D!Fetch(t) PROVE IInv'
    BY <1>1, CallKeeps, FetchKeeps
<1>2. ASSUME NEW t \in Callers, D!Proceeds(t) PROVE IInv'
  <2>1. CASE D!FirstPass(t) \/ D!Invalidate(t) \/ D!GetElected(t) \/ D!LastPass(t)
      BY <2>1, FirstPassKeeps, InvalidateKeeps, GetElectedKeeps, LastPassKeeps
  <2>2. CASE D!GetCached(t) \/ D!GetWaits(t) \/ D!WaitEnds(t)
    <3>1. PICK where \in {"wait", "last"} :
            /\ place[t] \in {"get", "wait"} /\ D!Goes(t, where)
            /\ UNCHANGED <<catalog, cached, fresh, inFlight, refresh, answer, seen, flown>>
        BY <2>2 DEF D!GetCached, D!GetWaits, D!WaitEnds
    <3> QED
        BY <3>1, WaitingKeeps
  <2> QED
      BY <1>2, <2>1, <2>2 DEF D!Proceeds
<1>3. CASE D!CatalogChanges \/ D!TtlExpires
    BY <1>3, CatalogChangesKeeps, TtlExpiresKeeps
<1>4. CASE UNCHANGED D!vars
    BY <1>4 DEF D!vars, IInv, D!TypeOK, OneFetcher, SeenCovers, SnapshotSeen, NoEarlyAnswer,
                NothingKnown, D!RefreshTellsTheTruth
<1> QED
    BY <1>1, <1>2, <1>3, <1>4 DEF D!Next

(* The machines of MCProvider take their own steps or none. *)
LEMMA Machines ==
  /\ MCInit => D!Init /\ P!Init /\ R!Init
  /\ [MCNext]_all => [D!Next]_D!vars
  /\ [MCNext]_all => [P!Next]_P!vars
  /\ [MCNext]_all => [R!Next]_R!vars
<1>1. MCInit => D!Init /\ P!Init /\ R!Init
    BY DEF MCInit
<1>2. [MCNext]_all => [D!Next]_D!vars
    BY DEF MCNext, Stepping, all, nativeVars, D!vars
<1>3. [MCNext]_all => [P!Next]_P!vars
    BY DEF MCNext, Stepping, all, probeVars, P!vars
<1>4. [MCNext]_all => [R!Next]_R!vars
    BY DEF MCNext, Stepping, all, nameVars, R!vars
<1> QED
    BY <1>1, <1>2, <1>3, <1>4

(* The invariant holds whatever threads, upstream and clock do. *)
THEOREM Invariance ==
  /\ D!Spec => []IInv
  /\ MCSpec => []IInv
BY InitIInv, NextIInv, Machines, PTL DEF D!Spec, MCSpec

-----------------------------------------------------------------------------
(* What follows from the invariant. *)

(* Every variable stays within its type, and only a known catalog is good. *)
THEOREM TypeCorrectness == D!Spec => []D!TypeOK
  BY Invariance, PTL DEF IInv

(* At most one fetch is in flight, and the cache knows of it exactly while *)
(* a thread is there to end it.                                            *)
THEOREM SingleFlightHolds == D!Spec => []D!SingleFlight
<1>1. IInv => D!SingleFlight
  <2> SUFFICES ASSUME IInv PROVE D!SingleFlight
      OBVIOUS
  <2> DEFINE Fetchers == {t \in Callers : place[t] = "fetch"}
  <2>0. D!Cardinality(Fetchers) = Cardinality(Fetchers)
      BY DEF D!Cardinality, Cardinality
  <2>1. OneFetcher
      BY DEF IInv
  <2>2. CASE Fetchers = {}
    <3>1. Cardinality(Fetchers) = 0
        BY <2>2, FS_EmptySet
    <3> QED
        BY <2>0, <2>1, <3>1 DEF OneFetcher, D!SingleFlight
  <2>3. CASE Fetchers # {}
    <3>1. PICK t \in Callers : place[t] = "fetch"
        BY <2>3
    <3>2. Fetchers = {t}
        BY <2>1, <3>1 DEF OneFetcher
    <3>3. Cardinality(Fetchers) = 1
        BY <3>2, FS_Singleton
    <3> QED
        BY <2>0, <2>1, <3>3 DEF OneFetcher, D!SingleFlight
  <2> QED
      BY <2>2, <2>3
<1> QED
    BY <1>1, Invariance, PTL

(* What refresh=True answers was true upstream during the call or during   *)
(* the fetch that was in flight when it began.                             *)
THEOREM RefreshIsTruthful ==
  /\ D!Spec => []D!RefreshTellsTheTruth
  /\ MCSpec => []RefreshTellsTheTruth
<1>1. IInv => D!RefreshTellsTheTruth
    BY DEF IInv
<1>2. D!RefreshTellsTheTruth => RefreshTellsTheTruth
    BY DEF RefreshTellsTheTruth
<1> QED
    BY <1>1, <1>2, Invariance, PTL

(* No step but refresh=True's own loses a snapshot. *)
LEMMA StepKeepsSnapshot ==
  ASSUME IInv, [D!Next]_D!vars, cached.slugs # "unknown", cached'.slugs = "unknown"
  PROVE  \E t \in Callers : place[t] = "drop" /\ place'[t] = "get"
<1>1. ~UNCHANGED cached
    OBVIOUS
<1>2. D!Next
    BY <1>1 DEF D!vars
<1>3. ASSUME D!CatalogChanges \/ D!TtlExpires PROVE FALSE
    BY <1>1, <1>3 DEF D!CatalogChanges, D!TtlExpires
<1>4. PICK t \in Callers : D!Call(t) \/ D!Proceeds(t) \/ D!Fetch(t)
    BY <1>2, <1>3 DEF D!Next
<1>5. ASSUME D!Fetch(t) PROVE FALSE
  <2>1. CASE D!FetchAnswers(t)
    <3>1. PICK listed \in flown : cached' = [status |-> "ok", slugs |-> D!Slugs(listed)]
        BY <2>1 DEF D!FetchAnswers, D!Publish
    <3>2. listed \in BOOLEAN
        BY DEF IInv, D!TypeOK
    <3> QED
        BY <3>1, <3>2, SlugsKnown
  <2>2. CASE D!FetchFails(t) \/ D!FetchInterrupted(t)
    <3>1. cached' = D!Failed
        BY <2>2 DEF D!FetchFails, D!FetchInterrupted, D!Publish
    <3> QED
        BY <3>1, FailedIsPublishable
  <2> QED
      BY <1>5, <2>1, <2>2 DEF D!Fetch
<1>6. D!Invalidate(t)
    BY <1>1, <1>4, <1>5
       DEF D!Call, D!Proceeds, D!FirstPass, D!GetCached, D!GetElected, D!GetWaits, D!WaitEnds,
           D!LastPass
<1>7. place[t] = "drop" /\ place'[t] = "get"
    BY <1>6 DEF D!Invalidate, IInv, D!TypeOK, D!Goes
<1> QED
    BY <1>7

(* A snapshot is lost to refresh=True only, never to a fetch that failed. *)
THEOREM SnapshotsSurviveFailure == D!Spec => D!FailureKeepsSnapshot
<1>1. IInv /\ [D!Next]_D!vars
        => [cached.slugs # "unknown" /\ cached'.slugs = "unknown"
              => \E t \in Callers : place[t] = "drop" /\ place'[t] = "get"]_D!vars
    BY StepKeepsSnapshot
<1> QED
    BY <1>1, Invariance, PTL DEF D!Spec, D!FailureKeepsSnapshot

-----------------------------------------------------------------------------
(* The probe cache of a provider without a catalog, which any number of    *)
(* threads ask about any number of models.                                 *)

(* What of the state the verdicts depend on; the order of the entries, by  *)
(* which they are evicted, is not.                                         *)
ProbeShape ==
  /\ verdict \in [Models -> {"none", "LIVE", "DEAD"}]
  /\ at \in [Probers -> {"idle", "lookup", "probe", "wait"}]
  /\ slug \in [Probers -> Models]
  /\ forced \in [Probers -> BOOLEAN]
  /\ word \in [Probers -> {"none", "LIVE", "DEAD", "UNKNOWN"}]
  /\ why \in [Probers -> {"none", "failed", "timeout", "lost"}]
  /\ known \in [Probers -> SUBSET BOOLEAN]
  /\ probed \in [Models -> SUBSET BOOLEAN]

(* Only who waits is woken, or loses the entry it waits for. *)
Waiters == \A t \in Probers : t \in woken \/ t \in lost => at[t] = "wait"

(* Who is woken and finds no entry had it dropped or was told why. *)
Explained ==
  \A t \in Probers :
    at[t] = "wait" /\ t \in woken /\ t \notin lost /\ verdict[slug[t]] = "none" => why[t] # "none"

(* What a refreshing call knows covers what is, and what the probe in      *)
(* flight may find.                                                        *)
KnowsWhatIs ==
  \A t \in Probers : forced[t] /\ at[t] # "idle" =>
    /\ slug[t] \in lives => TRUE \in known[t]
    /\ slug[t] \notin lives => FALSE \in known[t]
    /\ TRUE \in probed[slug[t]] => TRUE \in known[t]
    /\ FALSE \in probed[slug[t]] => FALSE \in known[t]

(* It drops the entry first: one that is there later is newer. *)
EntryIsNew ==
  \A t \in Probers : forced[t] /\ at[t] \in {"probe", "wait"} =>
    /\ verdict[slug[t]] = "LIVE" => TRUE \in known[t]
    /\ verdict[slug[t]] = "DEAD" => FALSE \in known[t]

ProbeInv ==
  /\ ProbeShape /\ Waiters /\ Explained /\ KnowsWhatIs /\ EntryIsNew
  /\ P!UnknownIsHonest /\ P!RefreshProbes

-----------------------------------------------------------------------------
(* Nothing is known of any model initially. *)
LEMMA ProbeInit ==
  ASSUME Models # {}, P!Init
  PROVE  ProbeInv
<1>1. /\ verdict = [s \in Models |-> "none"] /\ at = [t \in Probers |-> "idle"]
      /\ slug = [t \in Probers |-> CHOOSE s \in Models : TRUE]
      /\ forced = [t \in Probers |-> FALSE] /\ word = [t \in Probers |-> "none"]
      /\ woken = {} /\ lost = {} /\ why = [t \in Probers |-> "none"]
      /\ known = [t \in Probers |-> {}] /\ probed = [s \in Models |-> {}]
  BY DEF P!Init
<1>2. (CHOOSE s \in Models : TRUE) \in Models
  OBVIOUS
<1>3. ProbeShape
  BY <1>1, <1>2 DEF ProbeShape
<1>4. Waiters /\ Explained /\ KnowsWhatIs /\ EntryIsNew
  BY <1>1 DEF Waiters, Explained, KnowsWhatIs, EntryIsNew
<1>5. P!UnknownIsHonest /\ P!RefreshProbes
  BY <1>1 DEF P!UnknownIsHonest, P!RefreshProbes
<1> QED
  BY <1>3, <1>4, <1>5 DEF ProbeInv

(* A refreshing call begins with what is and what is being probed. *)
LEMMA CallProbes ==
  ASSUME ProbeInv, NEW t \in Probers, P!Call(t)
  PROVE  ProbeInv'
<1>1. PICK s \in Models, f \in BOOLEAN :
        /\ slug' = [slug EXCEPT ![t] = s] /\ forced' = [forced EXCEPT ![t] = f]
        /\ known' = [known EXCEPT ![t] = IF f THEN {(s \in lives)} \cup probed[s] ELSE {}]
  BY Zenon DEF P!Call
<1>2. /\ at[t] = "idle" /\ at' = [at EXCEPT ![t] = "lookup"]
      /\ word' = [word EXCEPT ![t] = "none"] /\ why' = [why EXCEPT ![t] = "none"]
      /\ UNCHANGED lives /\ UNCHANGED verdict /\ UNCHANGED woken /\ UNCHANGED lost
      /\ UNCHANGED probed
  BY DEF P!Call, P!Goes, P!cache
<1> DEFINE K == IF f THEN {(s \in lives)} \cup probed[s] ELSE {}
<1>3. K \subseteq BOOLEAN
  <2>1. probed[s] \subseteq BOOLEAN
      BY DEF ProbeInv, ProbeShape
  <2>2. (s \in lives) \in BOOLEAN
      OBVIOUS
  <2> QED
      BY <2>1, <2>2, Zenon
<1>4. f => /\ s \in lives => TRUE \in K
           /\ s \notin lives => FALSE \in K
           /\ TRUE \in probed[s] => TRUE \in K
           /\ FALSE \in probed[s] => FALSE \in K
  <2>1. s \in lives => TRUE \in {(s \in lives)}
      BY Zenon
  <2>2. s \notin lives => FALSE \in {(s \in lives)}
      <3>1. s \notin lives => (s \in lives) = FALSE
          OBVIOUS
      <3> QED
          BY <3>1, Zenon
  <2>3. f => K = {(s \in lives)} \cup probed[s]
      BY Zenon
  <2> QED
      BY <2>1, <2>2, <2>3, Zenon
<1> HIDE DEF K
<1>5. known' = [known EXCEPT ![t] = K]
  BY <1>1 DEF K
<1>6. ProbeShape'
  BY <1>1, <1>2, <1>3, <1>5 DEF ProbeInv, ProbeShape
<1>7. /\ slug'[t] = s /\ forced'[t] = f /\ known'[t] = K /\ at'[t] = "lookup"
      /\ word'[t] = "none"
      /\ \A u \in Probers \ {t} :
           /\ slug'[u] = slug[u] /\ forced'[u] = forced[u] /\ known'[u] = known[u]
           /\ at'[u] = at[u] /\ word'[u] = word[u] /\ why'[u] = why[u]
  BY <1>1, <1>2, <1>5 DEF ProbeInv, ProbeShape
<1>8. Waiters' /\ Explained'
  BY <1>2, <1>7 DEF ProbeInv, Waiters, Explained
<1>9. KnowsWhatIs' /\ EntryIsNew'
  BY ZenonT(40), <1>2, <1>4, <1>7 DEF ProbeInv, KnowsWhatIs, EntryIsNew
<1>10. P!UnknownIsHonest' /\ P!RefreshProbes'
  BY ZenonT(40), <1>2, <1>7 DEF ProbeInv, P!UnknownIsHonest, P!RefreshProbes
<1> QED
  BY <1>6, <1>8, <1>9, <1>10 DEF ProbeInv

(* A hit answers a call that does not refresh. *)
LEMMA HitProbes ==
  ASSUME ProbeInv, NEW t \in Probers, P!LookupHit(t)
  PROVE  ProbeInv'
<1>1. /\ at[t] = "lookup" /\ ~forced[t] /\ at' = [at EXCEPT ![t] = "idle"]
      /\ word' = [word EXCEPT ![t] = verdict[slug[t]]]
      /\ UNCHANGED lives /\ UNCHANGED verdict /\ UNCHANGED slug /\ UNCHANGED forced
      /\ UNCHANGED woken /\ UNCHANGED lost /\ UNCHANGED why /\ UNCHANGED known /\ UNCHANGED probed
  BY DEF P!LookupHit, P!Hit, P!Returns, P!Goes, P!cache
<1>2. verdict[slug[t]] \in {"none", "LIVE", "DEAD"}
  BY DEF ProbeInv, ProbeShape
<1>3. ProbeShape'
  BY <1>1, <1>2 DEF ProbeInv, ProbeShape
<1>4. /\ at'[t] = "idle" /\ word'[t] # "UNKNOWN"
      /\ \A u \in Probers \ {t} : at'[u] = at[u] /\ word'[u] = word[u]
  BY <1>1, <1>2 DEF ProbeInv, ProbeShape
<1>5. Waiters' /\ Explained' /\ KnowsWhatIs' /\ EntryIsNew'
  BY <1>1, <1>4 DEF ProbeInv, Waiters, Explained, KnowsWhatIs, EntryIsNew
<1>6. P!UnknownIsHonest' /\ P!RefreshProbes'
  BY <1>1, <1>4 DEF ProbeInv, P!UnknownIsHonest, P!RefreshProbes
<1> QED
  BY <1>3, <1>5, <1>6 DEF ProbeInv

(* A miss drops the entry, and the waiters lose it. *)
LEMMA MissProbes ==
  ASSUME ProbeInv, NEW t \in Probers, P!LookupMiss(t)
  PROVE  ProbeInv'
<1> DEFINE s == slug[t]
<1>0. s \in Models
  BY DEF ProbeInv, ProbeShape
<1>1. /\ at[t] = "lookup" /\ verdict' = [verdict EXCEPT ![s] = "none"]
      /\ lost' = lost \cup P!WaitersOf(s)
      /\ UNCHANGED lives /\ UNCHANGED slug /\ UNCHANGED forced /\ UNCHANGED word
      /\ UNCHANGED woken /\ UNCHANGED why /\ UNCHANGED known
      /\ \/ at' = [at EXCEPT ![t] = "wait"] /\ UNCHANGED probed
         \/ at' = [at EXCEPT ![t] = "probe"] /\ probed' = [probed EXCEPT ![s] = {(s \in lives)}]
  BY Zenon DEF P!LookupMiss, P!DropEntry, P!Goes
<1>2. {(s \in lives)} \subseteq BOOLEAN
  <2>1. (s \in lives) \in BOOLEAN
      OBVIOUS
  <2> QED
      BY <2>1, Zenon
<1>3. /\ TRUE \in {(s \in lives)} => s \in lives
      /\ FALSE \in {(s \in lives)} => s \notin lives
  BY Zenon
<1> DEFINE L == {(s \in lives)}
<1>4. /\ L \subseteq BOOLEAN
      /\ TRUE \in L => s \in lives
      /\ FALSE \in L => s \notin lives
      /\ \/ at' = [at EXCEPT ![t] = "wait"] /\ UNCHANGED probed
         \/ at' = [at EXCEPT ![t] = "probe"] /\ probed' = [probed EXCEPT ![s] = L]
  BY <1>1, <1>2, <1>3, Zenon
<1> HIDE DEF L
<1>5. ProbeShape'
  BY <1>0, <1>1, <1>4 DEF ProbeInv, ProbeShape
<1>6. /\ at'[t] \in {"wait", "probe"} /\ \A u \in Probers \ {t} : at'[u] = at[u]
      /\ verdict'[s] = "none" /\ \A m \in Models \ {s} : verdict'[m] = verdict[m]
      /\ \A m \in Models \ {s} : probed'[m] = probed[m]
      /\ probed'[s] = probed[s] \/ probed'[s] = L
      /\ \A u \in Probers : slug[u] \in Models
  BY <1>0, <1>1, <1>4 DEF ProbeInv, ProbeShape
<1>7. t \notin woken /\ t \notin lost
  BY <1>1 DEF ProbeInv, Waiters
<1>8. Waiters' /\ Explained'
  BY <1>1, <1>6, <1>7 DEF ProbeInv, Waiters, Explained, P!WaitersOf
<1>9. KnowsWhatIs'
  <2> SUFFICES ASSUME NEW u \in Probers, forced[u], at'[u] # "idle"
               PROVE  /\ slug[u] \in lives => TRUE \in known[u]
                      /\ slug[u] \notin lives => FALSE \in known[u]
                      /\ TRUE \in probed'[slug[u]] => TRUE \in known[u]
                      /\ FALSE \in probed'[slug[u]] => FALSE \in known[u]
      BY <1>1 DEF KnowsWhatIs
  <2>1. at[u] # "idle"
      BY <1>1, <1>6
  <2>2. /\ slug[u] \in lives => TRUE \in known[u]
        /\ slug[u] \notin lives => FALSE \in known[u]
        /\ TRUE \in probed[slug[u]] => TRUE \in known[u]
        /\ FALSE \in probed[slug[u]] => FALSE \in known[u]
      BY <2>1 DEF ProbeInv, KnowsWhatIs
  <2>3. slug[u] # s => probed'[slug[u]] = probed[slug[u]]
      BY <1>6
  <2> QED
      BY <2>2, <2>3, <1>4, <1>6
<1>10. EntryIsNew'
  <2> SUFFICES ASSUME NEW u \in Probers, forced[u], at'[u] \in {"probe", "wait"}
               PROVE  /\ verdict'[slug[u]] = "LIVE" => TRUE \in known[u]
                      /\ verdict'[slug[u]] = "DEAD" => FALSE \in known[u]
      BY <1>1 DEF EntryIsNew
  <2>1. CASE slug[u] = s
      BY <2>1, <1>6
  <2>2. CASE slug[u] # s
      <3>1. verdict'[slug[u]] = verdict[slug[u]] /\ at'[u] = at[u]
          BY <2>2, <1>6
      <3> QED
          BY <3>1 DEF ProbeInv, EntryIsNew
  <2> QED
      BY <2>1, <2>2
<1>11. P!UnknownIsHonest' /\ P!RefreshProbes'
  BY <1>1, <1>6 DEF ProbeInv, P!UnknownIsHonest, P!RefreshProbes
<1> QED
  BY <1>5, <1>8, <1>9, <1>10, <1>11 DEF ProbeInv

(* A verdict is stored, and whoever waits for an evicted one loses it.     *)
LEMMA Stored ==
  ASSUME ProbeInv, NEW s \in Models, NEW v \in {"LIVE", "DEAD"}, P!Store(s, v)
  PROVE  \E out : /\ verdict' = [x \in Models |->
                                   IF x \in out THEN "none" ELSE IF x = s THEN v ELSE verdict[x]]
                  /\ lost' = lost \cup UNION {P!WaitersOf(x) : x \in out}
BY Zenon DEF P!Store

(* A probe finds what was true while it was in flight. *)
LEMMA AnswerProbes ==
  ASSUME ProbeInv, NEW t \in Probers, P!ProbeAnswers(t)
  PROVE  ProbeInv'
<1> DEFINE s == slug[t]
<1>0. s \in Models /\ probed[s] \subseteq BOOLEAN
  BY DEF ProbeInv, ProbeShape
<1>1. PICK live \in probed[s] : P!Publish(s, P!Word(live)) /\ P!Returns(t, P!Word(live))
  BY Zenon DEF P!ProbeAnswers
<1> DEFINE v == P!Word(live)
<1>2. \/ v = "LIVE" /\ TRUE \in probed[s]
      \/ v = "DEAD" /\ FALSE \in probed[s]
  <2>1. live = TRUE \/ live = FALSE
      BY <1>0, <1>1
  <2>2. CASE live = TRUE
      BY <2>2, <1>1 DEF P!Word
  <2>3. CASE live = FALSE
      BY <2>3, <1>1 DEF P!Word
  <2> QED
      BY <2>1, <2>2, <2>3
<1> HIDE DEF v
<1>3. /\ at[t] = "probe" /\ at' = [at EXCEPT ![t] = "idle"] /\ word' = [word EXCEPT ![t] = v]
      /\ probed' = [probed EXCEPT ![s] = {}]
      /\ woken' = woken \cup P!WaitersOf(s) /\ P!Store(s, v)
      /\ UNCHANGED lives /\ UNCHANGED slug /\ UNCHANGED forced /\ UNCHANGED why /\ UNCHANGED known
  BY <1>1, <1>2 DEF P!ProbeAnswers, P!Publish, P!Returns, P!Goes, v
<1>4. PICK out : /\ verdict' = [x \in Models |->
                                  IF x \in out THEN "none" ELSE IF x = s THEN v ELSE verdict[x]]
                 /\ lost' = lost \cup UNION {P!WaitersOf(x) : x \in out}
  <2>1. v \in {"LIVE", "DEAD"}
      BY <1>2
  <2> QED
      BY <2>1, <1>0, <1>3, Stored, Zenon
<1>5. /\ \A u \in Probers : slug[u] \in Models
      /\ at'[t] = "idle" /\ word'[t] = v /\ probed'[s] = {}
      /\ \A u \in Probers \ {t} : at'[u] = at[u] /\ word'[u] = word[u]
      /\ \A m \in Models \ {s} : probed'[m] = probed[m]
      /\ \A m \in Models :
           verdict'[m] = IF m \in out THEN "none" ELSE IF m = s THEN v ELSE verdict[m]
  BY <1>0, <1>3, <1>4 DEF ProbeInv, ProbeShape
<1>6. ProbeShape'
  <2>1. verdict' \in [Models -> {"none", "LIVE", "DEAD"}]
      BY <1>0, <1>2, <1>4 DEF ProbeInv, ProbeShape
  <2> QED
      BY <2>1, <1>0, <1>2, <1>3 DEF ProbeInv, ProbeShape
<1>7. \A u \in Probers : /\ u \in lost' <=> u \in lost \/ (at[u] = "wait" /\ slug[u] \in out)
                         /\ u \in woken' <=> u \in woken \/ (at[u] = "wait" /\ slug[u] = s)
  BY <1>3, <1>4 DEF P!WaitersOf
<1>8. t \notin lost' /\ t \notin woken'
  BY <1>3, <1>7 DEF ProbeInv, Waiters
<1>9. Waiters'
  BY <1>5, <1>7, <1>8 DEF ProbeInv, Waiters
<1>10. Explained'
  <2> SUFFICES ASSUME NEW u \in Probers, at'[u] = "wait", u \in woken', u \notin lost',
                      verdict'[slug[u]] = "none"
               PROVE  why[u] # "none"
      BY <1>3 DEF Explained
  <2>1. u # t /\ at[u] = "wait" /\ u \notin lost /\ slug[u] \notin out
      BY <1>5, <1>7
  <2>2. verdict[slug[u]] = "none" /\ slug[u] # s
      BY <2>1, <1>2, <1>5
  <2>3. u \in woken
      BY <2>2, <1>7
  <2> QED
      BY <2>1, <2>2, <2>3 DEF ProbeInv, Explained
<1>11. KnowsWhatIs'
  <2> SUFFICES ASSUME NEW u \in Probers, u # t, forced[u], at[u] # "idle"
               PROVE  /\ slug[u] \in lives => TRUE \in known[u]
                      /\ slug[u] \notin lives => FALSE \in known[u]
                      /\ TRUE \in probed'[slug[u]] => TRUE \in known[u]
                      /\ FALSE \in probed'[slug[u]] => FALSE \in known[u]
      BY <1>3, <1>5 DEF KnowsWhatIs
  <2>1. /\ slug[u] \in lives => TRUE \in known[u]
        /\ slug[u] \notin lives => FALSE \in known[u]
        /\ TRUE \in probed[slug[u]] => TRUE \in known[u]
        /\ FALSE \in probed[slug[u]] => FALSE \in known[u]
      BY DEF ProbeInv, KnowsWhatIs
  <2>2. probed'[slug[u]] = {} \/ probed'[slug[u]] = probed[slug[u]]
      BY <1>5
  <2> QED
      BY <2>1, <2>2
<1>12. EntryIsNew'
  <2> SUFFICES ASSUME NEW u \in Probers, u # t, forced[u], at[u] \in {"probe", "wait"}
               PROVE  /\ verdict'[slug[u]] = "LIVE" => TRUE \in known[u]
                      /\ verdict'[slug[u]] = "DEAD" => FALSE \in known[u]
      BY <1>3, <1>5 DEF EntryIsNew
  <2>1. /\ verdict[slug[u]] = "LIVE" => TRUE \in known[u]
        /\ verdict[slug[u]] = "DEAD" => FALSE \in known[u]
        /\ TRUE \in probed[slug[u]] => TRUE \in known[u]
        /\ FALSE \in probed[slug[u]] => FALSE \in known[u]
      BY DEF ProbeInv, EntryIsNew, KnowsWhatIs
  <2> QED
      BY <2>1, <1>2, <1>5
<1>13. P!UnknownIsHonest'
  BY <1>2, <1>3, <1>5 DEF ProbeInv, P!UnknownIsHonest
<1>14. P!RefreshProbes'
  <2>1. forced[t] => /\ TRUE \in probed[s] => TRUE \in known[t]
                     /\ FALSE \in probed[s] => FALSE \in known[t]
      BY <1>3 DEF ProbeInv, KnowsWhatIs
  <2> QED
      BY ZenonT(40), <2>1, <1>2, <1>3, <1>5 DEF ProbeInv, P!RefreshProbes
<1> QED
  BY <1>6, <1>9, <1>10, <1>11, <1>12, <1>13, <1>14 DEF ProbeInv

(* A failed probe tells its waiters why. *)
LEMMA FailProbes ==
  ASSUME ProbeInv, NEW t \in Probers, P!ProbeFails(t)
  PROVE  ProbeInv'
<1> DEFINE s == slug[t]
<1>0. s \in Models
  BY DEF ProbeInv, ProbeShape
<1>1. PICK a \in {"UNKNOWN", "none"} : P!Returns(t, a)
  BY Zenon DEF P!ProbeFails
<1>2. /\ at[t] = "probe" /\ at' = [at EXCEPT ![t] = "idle"] /\ word' = [word EXCEPT ![t] = a]
      /\ probed' = [probed EXCEPT ![s] = {}]
      /\ woken' = woken \cup P!WaitersOf(s)
      /\ why' = [w \in Probers |-> IF w = t \/ w \in P!WaitersOf(s) THEN "failed" ELSE why[w]]
      /\ UNCHANGED verdict /\ UNCHANGED lost
      /\ UNCHANGED lives /\ UNCHANGED slug /\ UNCHANGED forced /\ UNCHANGED known
  BY <1>1 DEF P!ProbeFails, P!Publish, P!Returns, P!Goes, P!cache
<1>3. ProbeShape'
  BY <1>0, <1>2 DEF ProbeInv, ProbeShape
<1>4. /\ \A u \in Probers : slug[u] \in Models
      /\ at'[t] = "idle" /\ word'[t] = a /\ probed'[s] = {} /\ why'[t] = "failed"
      /\ \A u \in Probers \ {t} : at'[u] = at[u] /\ word'[u] = word[u]
      /\ \A m \in Models \ {s} : probed'[m] = probed[m]
      /\ \A u \in Probers : /\ u \in woken' <=> u \in woken \/ (at[u] = "wait" /\ slug[u] = s)
                            /\ why'[u] = why[u] \/ why'[u] = "failed"
                            /\ at[u] = "wait" /\ slug[u] = s => why'[u] = "failed"
  BY <1>0, <1>2 DEF ProbeInv, ProbeShape, P!WaitersOf
<1>5. t \notin lost' /\ t \notin woken'
  BY <1>2, <1>4 DEF ProbeInv, Waiters
<1>6. Waiters' /\ Explained'
  BY <1>2, <1>4, <1>5 DEF ProbeInv, Waiters, Explained
<1>7. KnowsWhatIs'
  <2> SUFFICES ASSUME NEW u \in Probers, u # t, forced[u], at[u] # "idle"
               PROVE  /\ slug[u] \in lives => TRUE \in known[u]
                      /\ slug[u] \notin lives => FALSE \in known[u]
                      /\ TRUE \in probed'[slug[u]] => TRUE \in known[u]
                      /\ FALSE \in probed'[slug[u]] => FALSE \in known[u]
      BY ZenonT(40), <1>2, <1>4 DEF KnowsWhatIs
  <2>1. /\ slug[u] \in lives => TRUE \in known[u]
        /\ slug[u] \notin lives => FALSE \in known[u]
        /\ TRUE \in probed[slug[u]] => TRUE \in known[u]
        /\ FALSE \in probed[slug[u]] => FALSE \in known[u]
      BY DEF ProbeInv, KnowsWhatIs
  <2>2. probed'[slug[u]] = {} \/ probed'[slug[u]] = probed[slug[u]]
      BY <1>4
  <2> QED
      BY <2>1, <2>2
<1>8. EntryIsNew'
  BY ZenonT(40), <1>2, <1>4 DEF ProbeInv, EntryIsNew
<1>9. P!UnknownIsHonest'
  <2>1. \A u \in Probers : why[u] # "none" => why'[u] # "none"
      BY <1>4
  <2> QED
      BY <2>1, <1>4 DEF ProbeInv, P!UnknownIsHonest
<1>10. P!RefreshProbes'
  <2> SUFFICES ASSUME NEW u \in Probers, forced[u], at'[u] = "idle"
               PROVE  /\ word'[u] = "LIVE" => TRUE \in known[u]
                      /\ word'[u] = "DEAD" => FALSE \in known[u]
      BY <1>2 DEF P!RefreshProbes
  <2>1. CASE u = t
      BY <2>1, <1>1, <1>4
  <2>2. CASE u # t
      BY <2>2, <1>4 DEF ProbeInv, P!RefreshProbes
  <2> QED
      BY <2>1, <2>2
<1> QED
  BY <1>3, <1>6, <1>7, <1>8, <1>9, <1>10 DEF ProbeInv

(* A waiter reads what is in the cache then. *)
LEMMA WaitProbes ==
  ASSUME ProbeInv, NEW t \in Probers, P!WaitEnds(t)
  PROVE  ProbeInv'
<1> DEFINE s == slug[t]
           a == IF verdict[s] = "none" THEN "UNKNOWN" ELSE verdict[s]
           r == IF t \notin woken THEN "timeout" ELSE IF t \in lost THEN "lost" ELSE why[t]
<1>0. s \in Models /\ verdict[s] \in {"none", "LIVE", "DEAD"}
  BY DEF ProbeInv, ProbeShape
<1>1. /\ at[t] = "wait" /\ at' = [at EXCEPT ![t] = "idle"] /\ word' = [word EXCEPT ![t] = a]
      /\ why' = [why EXCEPT ![t] = r]
      /\ woken' = woken \ {t} /\ lost' = lost \ {t}
      /\ UNCHANGED lives /\ UNCHANGED verdict /\ UNCHANGED slug /\ UNCHANGED forced
      /\ UNCHANGED known /\ UNCHANGED probed
  BY DEF P!WaitEnds, P!Returns, P!Goes, P!cache
<1>2. /\ a = "UNKNOWN" => r # "none"
      /\ a \in {"LIVE", "DEAD", "UNKNOWN"} /\ r \in {"none", "failed", "timeout", "lost"}
      /\ a \in {"LIVE", "DEAD"} => a = verdict[s]
  BY <1>0, <1>1 DEF ProbeInv, ProbeShape, Explained
<1> HIDE DEF a, r
<1>3. ProbeShape'
  BY <1>0, <1>1, <1>2 DEF ProbeInv, ProbeShape
<1>4. /\ at'[t] = "idle" /\ word'[t] = a /\ why'[t] = r
      /\ \A u \in Probers \ {t} : at'[u] = at[u] /\ word'[u] = word[u] /\ why'[u] = why[u]
  BY <1>1 DEF ProbeInv, ProbeShape
<1>5. Waiters' /\ Explained' /\ KnowsWhatIs' /\ EntryIsNew'
  BY ZenonT(40), <1>1, <1>4 DEF ProbeInv, Waiters, Explained, KnowsWhatIs, EntryIsNew
<1>6. P!UnknownIsHonest'
  BY <1>1, <1>2, <1>4 DEF ProbeInv, P!UnknownIsHonest
<1>7. P!RefreshProbes'
  <2>1. forced[t] => /\ verdict[s] = "LIVE" => TRUE \in known[t]
                     /\ verdict[s] = "DEAD" => FALSE \in known[t]
      BY <1>1 DEF ProbeInv, EntryIsNew
  <2> QED
      BY ZenonT(40), <2>1, <1>1, <1>2, <1>4 DEF ProbeInv, P!RefreshProbes
<1> QED
  BY <1>3, <1>5, <1>6, <1>7 DEF ProbeInv

(* Whoever refreshes sees a model come and go. *)
LEMMA WorldProbes ==
  ASSUME ProbeInv, P!ModelChanges
  PROVE  ProbeInv'
<1>1. PICK s \in Models :
        /\ lives' = (lives \ {s}) \cup ({s} \ lives)
        /\ probed' = [probed EXCEPT ![s] = IF s \in prober THEN BOOLEAN ELSE {}]
        /\ known' = [t \in Probers |->
             IF at[t] # "idle" /\ forced[t] /\ slug[t] = s THEN BOOLEAN ELSE known[t]]
  BY Zenon DEF P!ModelChanges
<1>2. /\ UNCHANGED verdict /\ UNCHANGED at /\ UNCHANGED slug /\ UNCHANGED forced /\ UNCHANGED word
      /\ UNCHANGED woken /\ UNCHANGED lost /\ UNCHANGED why
  BY DEF P!ModelChanges, P!cache
<1>3. ProbeShape'
  BY <1>1, <1>2 DEF ProbeInv, ProbeShape
<1>4. /\ \A t \in Probers : slug[t] \in Models
      /\ \A t \in Probers : IF at[t] # "idle" /\ forced[t] /\ slug[t] = s
                            THEN known'[t] = BOOLEAN ELSE known'[t] = known[t]
      /\ \A m \in Models \ {s} : probed'[m] = probed[m]
      /\ \A m \in Models : m # s => (m \in lives' <=> m \in lives)
  BY <1>1 DEF ProbeInv, ProbeShape
<1>5. Waiters' /\ Explained' /\ P!UnknownIsHonest'
  BY <1>2 DEF ProbeInv, Waiters, Explained, P!UnknownIsHonest
<1>6. KnowsWhatIs'
  BY <1>2, <1>4 DEF ProbeInv, KnowsWhatIs
<1>7. EntryIsNew'
  BY <1>2, <1>4 DEF ProbeInv, EntryIsNew
<1>8. P!RefreshProbes'
  BY <1>2, <1>4 DEF ProbeInv, P!RefreshProbes
<1> QED
  BY <1>3, <1>5, <1>6, <1>7, <1>8 DEF ProbeInv

(* Age does not count for who refreshes. *)
LEMMA TtlProbes ==
  ASSUME ProbeInv, P!TtlExpires \/ UNCHANGED P!vars
  PROVE  ProbeInv'
BY DEF P!TtlExpires, P!vars, P!cache, ProbeInv, ProbeShape, Waiters, Explained, KnowsWhatIs,
       EntryIsNew, P!UnknownIsHonest, P!RefreshProbes

(* The probe cache, for any threads, models and size of the cache. *)
THEOREM ProbeInvariance ==
  ASSUME Models # {}
  PROVE  /\ P!Spec => []ProbeInv
         /\ MCSpec => []ProbeInv
<1>1. P!Init => ProbeInv
  BY ProbeInit
<1>2. ProbeInv /\ [P!Next]_P!vars => ProbeInv'
  <2> SUFFICES ASSUME ProbeInv, [P!Next]_P!vars PROVE ProbeInv'
      OBVIOUS
  <2>1. ASSUME NEW t \in Probers,
               \/ P!Call(t) \/ P!LookupHit(t) \/ P!LookupMiss(t)
               \/ P!ProbeAnswers(t) \/ P!ProbeFails(t) \/ P!WaitEnds(t)
        PROVE  ProbeInv'
      BY <2>1, CallProbes, HitProbes, MissProbes, AnswerProbes, FailProbes, WaitProbes
  <2> QED
      BY <2>1, WorldProbes, TtlProbes DEF P!Next
<1> QED
  BY <1>1, <1>2, Machines, PTL DEF P!Spec, MCSpec

(* UNKNOWN is told for a reason only: a failed probe, lost patience, or an *)
(* entry that another call dropped; and a refreshing call is told what was *)
(* true while it ran or while the probe that it found in flight did.       *)
THEOREM ProbesHonest ==
  ASSUME Models # {}
  PROVE  /\ P!Spec => [](P!UnknownIsHonest /\ P!RefreshProbes)
         /\ MCSpec => []ProbesAreHonest
<1>1. ProbeInv => P!UnknownIsHonest /\ P!RefreshProbes
  BY DEF ProbeInv
<1>2. P!UnknownIsHonest /\ P!RefreshProbes => ProbesAreHonest
  BY DEF ProbesAreHonest
<1> QED
  BY <1>1, <1>2, ProbeInvariance, PTL

-----------------------------------------------------------------------------
(* Names: whose catalog a registry's verdicts are about, for any registries *)
(* and instances, whatever their users register, fork and discover.        *)

(* A registry that some instances have got asks the client of one of them, *)
(* and what it knows is the catalog of the client it asked.                *)
Follows(reg1, who) ==
  /\ reg1 = [live |-> reg1.live, user |-> reg1.user, families |-> reg1.families,
             cache |-> reg1.cache, parent |-> reg1.parent]
  /\ reg1.cache = [owner |-> reg1.cache.owner, known |-> reg1.cache.known,
                   slugs |-> reg1.cache.slugs]
  /\ reg1.cache.known => \E o \in reg1.cache.owner : reg1.cache.slugs = accounts[o]
  /\ who # {} => reg1.live /\ \E j \in who : reg1.cache.owner = {j}

(* The instances that have a registry. *)
UsersOf(r) == {i \in Instances : r \in uses[i]}

(* Every registry does. *)
CachesFollow ==
  /\ DOMAIN reg = Registries /\ reg = [r \in Registries |-> reg[r]]
  /\ uses \in [Instances -> SUBSET Registries]
  /\ \A r \in Registries : Follows(reg[r], UsersOf(r))

(* A step that changes one registry, and at most who uses that one. *)
LEMMA OneRegistry ==
  ASSUME CachesFollow, NEW r \in Registries, NEW x, reg' = [reg EXCEPT ![r] = x],
         uses' \in [Instances -> SUBSET Registries], UNCHANGED accounts,
         \A q \in Registries \ {r} : UsersOf(q)' = UsersOf(q),
         Follows(x, UsersOf(r)')
  PROVE  CachesFollow'
<1>1. /\ DOMAIN reg' = Registries /\ reg' = [q \in Registries |-> reg'[q]]
      /\ reg'[r] = x /\ \A q \in Registries \ {r} : reg'[q] = reg[q]
  BY DEF CachesFollow
<1>2. ASSUME NEW q \in Registries PROVE Follows(reg[q], UsersOf(q))'
  <2>1. CASE q = r
    BY <1>1, <2>1 DEF Follows
  <2>2. CASE q # r
    <3>1. Follows(reg[q], UsersOf(q)) /\ reg'[q] = reg[q] /\ UsersOf(q)' = UsersOf(q)
      BY <1>1, <2>2 DEF CachesFollow
    <3>2. QED
      BY <3>1 DEF Follows
  <2>3. QED
    BY <2>1, <2>2
<1>3. QED
  BY <1>1, <1>2 DEF CachesFollow

(* A registry whose cache is left alone. *)
LEMMA CacheStays ==
  ASSUME CachesFollow, NEW r \in Registries, NEW u, NEW f,
         \/ reg' = [reg EXCEPT ![r].user = u]
         \/ reg' = [reg EXCEPT ![r].families = f],
         UNCHANGED <<uses, accounts>>
  PROVE  CachesFollow'
<1>1. Follows(reg[r], UsersOf(r)) /\ \A q : UsersOf(q)' = UsersOf(q)
  BY DEF CachesFollow, UsersOf
<1>2. ASSUME NEW x, x \in {[reg[r] EXCEPT !.user = u], [reg[r] EXCEPT !.families = f]},
             reg' = [reg EXCEPT ![r] = x]
      PROVE  CachesFollow'
  <2>1. /\ x = [live |-> x.live, user |-> x.user, families |-> x.families,
                cache |-> x.cache, parent |-> x.parent]
        /\ x.cache = reg[r].cache /\ x.live = reg[r].live
    <3>1. CASE x = [reg[r] EXCEPT !.user = u]
      <4>1. x = [live |-> reg[r].live, user |-> u, families |-> reg[r].families,
                 cache |-> reg[r].cache, parent |-> reg[r].parent]
        BY <1>1, <3>1 DEF Follows
      <4>2. QED
        BY <4>1
    <3>2. CASE x = [reg[r] EXCEPT !.families = f]
      <4>1. x = [live |-> reg[r].live, user |-> reg[r].user, families |-> f,
                 cache |-> reg[r].cache, parent |-> reg[r].parent]
        BY <1>1, <3>2 DEF Follows
      <4>2. QED
        BY <4>1
    <3>3. QED
      BY <1>2, <3>1, <3>2
  <2>2. Follows(x, UsersOf(r))
    BY <1>1, <2>1 DEF Follows
  <2>3. QED
    BY <1>1, <1>2, <2>2, OneRegistry DEF CachesFollow, Follows
<1>3. QED
  BY <1>2

(* At first only the default registry lives and nobody has it. *)
LEMMA NamesInit == R!Init => CachesFollow
<1> SUFFICES ASSUME R!Init PROVE CachesFollow
  OBVIOUS
<1>1. /\ reg = [r \in Registries |-> IF r = Shared THEN [R!Dead EXCEPT !.live = TRUE] ELSE R!Dead]
      /\ uses = [i \in Instances |-> {}]
  BY DEF R!Init
<1>2. ASSUME NEW r \in Registries PROVE Follows(reg[r], UsersOf(r))
  <2>1. UsersOf(r) = {}
    BY <1>1 DEF UsersOf
  <2>2. reg[r] = [R!Dead EXCEPT !.live = TRUE] \/ reg[r] = R!Dead
    BY <1>1
  <2>3. PICK b : reg[r] = [live |-> b, user |-> <<>>, families |-> 0, cache |-> R!NoCache,
                           parent |-> Shared]
    BY <2>2 DEF R!Dead
  <2>4. /\ R!NoCache.owner = {} /\ R!NoCache.known = FALSE /\ R!NoCache.slugs = {}
        /\ R!NoCache = [owner |-> R!NoCache.owner, known |-> R!NoCache.known,
                        slugs |-> R!NoCache.slugs]
    BY Zenon DEF R!NoCache
  <2>5. /\ reg[r].live = b /\ reg[r].user = <<>> /\ reg[r].families = 0
        /\ reg[r].cache = R!NoCache /\ reg[r].parent = Shared
    BY <2>3
  <2>6. QED
    BY <2>1, <2>3, <2>4, <2>5, Zenon DEF Follows
<1>3. QED
  BY <1>1, <1>2 DEF CachesFollow

(* A fork asks the client of its parent, and knows nothing at first. *)
LEMMA ForkFollows ==
  ASSUME CachesFollow, NEW r \in Registries, NEW c \in Registries, R!Fork(r, c)
  PROVE  CachesFollow'
<1>1. reg' = [reg EXCEPT ![c] = R!Clone(r)] /\ ~reg[c].live /\ UNCHANGED <<uses, accounts>>
  BY DEF R!Fork, R!Changed
<1> DEFINE own == reg[r].cache.owner
           cache == [R!NoCache EXCEPT !.owner = own]
           filed == R!Refiled(reg[r].user)
           fams == reg[r].families
           yes == TRUE
           no == FALSE
<1>2. R!Clone(r) = [live |-> yes, user |-> filed, families |-> fams, cache |-> cache,
                    parent |-> r]
  BY Zenon DEF R!Clone
<1>11. R!NoCache = [owner |-> {}, known |-> no, slugs |-> {}]
  BY Zenon DEF R!NoCache
<1> HIDE DEF own, yes, no
<1>3. cache = [owner |-> own, known |-> no, slugs |-> {}]
  BY <1>11
<1> HIDE DEF cache, filed, fams
<1>4. UsersOf(c) = {} /\ \A q : UsersOf(q)' = UsersOf(q)
  <2>1. Follows(reg[c], UsersOf(c))
    BY DEF CachesFollow
  <2>2. QED
    BY <1>1, <2>1 DEF Follows, UsersOf
<1>5. cache.known = no /\ cache.owner = own /\ cache.slugs = {} /\ ~no
  BY <1>3, Zenon DEF no
<1> DEFINE x == R!Clone(r)
<1>6. x.live = yes /\ x.user = filed /\ x.families = fams /\ x.cache = cache /\ x.parent = r
  BY <1>2
<1>7. Follows(x, UsersOf(c)')
  BY <1>2, <1>3, <1>4, <1>5, <1>6, Zenon DEF Follows
<1> HIDE DEF x
<1>8. reg' = [reg EXCEPT ![c] = x]
  BY <1>1 DEF x
<1>9. uses' \in [Instances -> SUBSET Registries]
  BY <1>1 DEF CachesFollow
<1>10. QED
  BY <1>1, <1>4, <1>7, <1>8, <1>9, OneRegistry

(* A constructor's cache replaces the one before. *)
LEMMA ConstructFollows ==
  ASSUME CachesFollow, NEW r \in R!Live, NEW i \in Instances, R!Construct(i, r)
  PROVE  CachesFollow'
<1> DEFINE cache == R!Installed(i, r)
           x == [reg[r] EXCEPT !.cache = cache]
<1>1. /\ reg' = [reg EXCEPT ![r] = x] /\ UNCHANGED accounts
      /\ uses[i] = {} /\ uses' = [uses EXCEPT ![i] = {r}]
      /\ r \in Registries /\ reg[r].live
  BY DEF R!Construct, R!Live
<1> DEFINE no == FALSE
<1>8. R!NoCache = [owner |-> {}, known |-> no, slugs |-> {}]
  BY Zenon DEF R!NoCache
<1> HIDE DEF no
<1>2. cache = [owner |-> {i}, known |-> no, slugs |-> {}]
  BY <1>8 DEF R!Installed
<1> HIDE DEF cache
<1>3. cache.owner = {i} /\ cache.known = no /\ cache.slugs = {} /\ ~no
  BY <1>2, Zenon DEF no
<1>4. /\ uses' \in [Instances -> SUBSET Registries] /\ i \in UsersOf(r)'
      /\ \A q \in Registries \ {r} : UsersOf(q)' = UsersOf(q)
  BY <1>1 DEF CachesFollow, UsersOf
<1>5. x = [live |-> reg[r].live, user |-> reg[r].user, families |-> reg[r].families,
           cache |-> cache, parent |-> reg[r].parent]
  <2>1. reg[r] = [live |-> reg[r].live, user |-> reg[r].user, families |-> reg[r].families,
                  cache |-> reg[r].cache, parent |-> reg[r].parent]
    BY <1>1, Zenon DEF CachesFollow, Follows
  <2>2. QED
    BY <2>1
<1> HIDE DEF x
<1>6. /\ x.live = reg[r].live /\ x.user = reg[r].user /\ x.families = reg[r].families
      /\ x.cache = cache /\ x.parent = reg[r].parent
  BY <1>5, Zenon
<1>7. Follows(x, UsersOf(r)')
  BY <1>1, <1>2, <1>3, <1>4, <1>5, <1>6, Zenon DEF Follows
<1>9. QED
  BY <1>1, <1>4, <1>7, OneRegistry

(* What is discovered is the catalog of the client that is asked. *)
LEMMA DiscoverFollows ==
  ASSUME CachesFollow, NEW i \in Instances, R!Discover(i)
  PROVE  CachesFollow'
<1>1. PICK r \in uses[i] : \E o \in reg[r].cache.owner :
        /\ reg' = [reg EXCEPT ![r].cache = [@ EXCEPT !.known = TRUE, !.slugs = accounts[o]]]
        /\ UNCHANGED <<uses, accounts, ops>>
  BY DEF R!Discover
<1>2. PICK o \in reg[r].cache.owner :
        /\ reg' = [reg EXCEPT ![r].cache = [@ EXCEPT !.known = TRUE, !.slugs = accounts[o]]]
        /\ UNCHANGED <<uses, accounts, ops>>
  BY <1>1
<1>3. r \in Registries
  BY DEF CachesFollow
<1>4. Follows(reg[r], UsersOf(r))
  BY <1>3 DEF CachesFollow
<1> DEFINE yes == TRUE
           cache == [reg[r].cache EXCEPT !.known = yes, !.slugs = accounts[o]]
           x == [reg[r] EXCEPT !.cache = cache]
<1>5. reg' = [reg EXCEPT ![r] = x]
  BY <1>2
<1> HIDE DEF yes
<1>6. cache = [owner |-> reg[r].cache.owner, known |-> yes, slugs |-> accounts[o]]
  <2>1. reg[r].cache = [owner |-> reg[r].cache.owner, known |-> reg[r].cache.known,
                        slugs |-> reg[r].cache.slugs]
    BY <1>4, Zenon DEF Follows
  <2> DEFINE old == reg[r].cache
             owner == old.owner
             wasKnown == old.known
             slugs == old.slugs
             news == accounts[o]
  <2>2. old = [owner |-> owner, known |-> wasKnown, slugs |-> slugs]
    BY <2>1, Zenon
  <2>3. cache = [old EXCEPT !.known = yes, !.slugs = news]
    BY Zenon
  <2> HIDE DEF old, owner, wasKnown, slugs, news, cache
  <2>4. cache = [owner |-> owner, known |-> yes, slugs |-> news]
    BY <2>2, <2>3
  <2>5. QED
    BY <2>4, Zenon DEF old, owner, news
<1> HIDE DEF cache
<1>7. cache.owner = reg[r].cache.owner /\ cache.known = yes /\ cache.slugs = accounts[o]
  BY <1>6, Zenon
<1>8. x = [live |-> reg[r].live, user |-> reg[r].user, families |-> reg[r].families,
           cache |-> cache, parent |-> reg[r].parent]
  BY <1>4 DEF Follows
<1> HIDE DEF x
<1>9. /\ x.live = reg[r].live /\ x.user = reg[r].user /\ x.families = reg[r].families
      /\ x.cache = cache /\ x.parent = reg[r].parent
  BY <1>8, Zenon
<1>10. Follows(x, UsersOf(r))
  BY <1>4, <1>6, <1>7, <1>8, <1>9, Zenon DEF Follows
<1>11. \A q : UsersOf(q)' = UsersOf(q)
  BY <1>2 DEF UsersOf
<1>12. Follows(x, UsersOf(r)')
  BY <1>10, <1>11, Zenon
<1>13. uses' \in [Instances -> SUBSET Registries]
  BY <1>2 DEF CachesFollow
<1>14. QED
  BY <1>2, <1>3, <1>5, <1>11, <1>12, <1>13, OneRegistry

(* Every step of the registries keeps it so. *)
LEMMA NamesNext == CachesFollow /\ [R!Next]_R!vars => CachesFollow'
<1> SUFFICES ASSUME CachesFollow, [R!Next]_R!vars PROVE CachesFollow'
  OBVIOUS
<1>1. ASSUME NEW r \in R!Live, NEW spec \in R!OwnSpecs, R!Register(r, spec) PROVE CachesFollow'
  <2>1. r \in Registries /\ UNCHANGED <<uses, accounts>>
    BY <1>1 DEF R!Live, R!Register, R!Changed
  <2>2. PICK u : reg' = [reg EXCEPT ![r].user = u]
    BY <1>1 DEF R!Register
  <2>3. QED
    BY <2>1, <2>2, CacheStays
<1>2. ASSUME NEW r \in R!Live, NEW id \in Names, R!RegisterPricing(r, id) PROVE CachesFollow'
  <2>1. r \in Registries /\ UNCHANGED <<uses, accounts>>
    BY <1>2 DEF R!Live, R!RegisterPricing, R!Changed
  <2>2. PICK u : reg' = [reg EXCEPT ![r].user = u]
    BY <1>2 DEF R!RegisterPricing
  <2>3. QED
    BY <2>1, <2>2, CacheStays
<1>3. ASSUME NEW r \in R!Live, R!RegisterFamily(r) PROVE CachesFollow'
  <2>1. r \in Registries /\ UNCHANGED <<uses, accounts>>
    BY <1>3 DEF R!Live, R!RegisterFamily, R!Changed
  <2>2. PICK f : reg' = [reg EXCEPT ![r].families = f]
    BY <1>3 DEF R!RegisterFamily
  <2>3. QED
    BY <2>1, <2>2, CacheStays
<1>4. ASSUME NEW r \in R!Live, NEW c \in Registries, R!Fork(r, c) PROVE CachesFollow'
  BY <1>4, ForkFollows DEF R!Live
<1>5. ASSUME NEW r \in R!Live, NEW i \in Instances, R!Construct(i, r) PROVE CachesFollow'
  BY <1>5, ConstructFollows
<1>6. ASSUME NEW i \in Instances, R!Discover(i) PROVE CachesFollow'
  BY <1>6, DiscoverFollows
<1>7. CASE UNCHANGED R!vars
  <2>1. UNCHANGED <<reg, uses, accounts>>
    BY <1>7 DEF R!vars
  <2>2. QED
    BY <2>1 DEF CachesFollow, Follows, UsersOf
<1>8. QED
  BY <1>1, <1>2, <1>3, <1>4, <1>5, <1>6, <1>7 DEF R!Next

(* What a name is looked up by in the catalog is what a submit of it sends, *)
(* unless only an alias resolves it.                                       *)
LEMMA LookedUpIsSent ==
  ASSUME NEW reg1, NEW id, id \notin R!Keys(reg1),
         ~(R!Uncovered(reg1, id) /\ R!Get(reg1, id) # R!Fallback)
  PROVE  R!Wire(reg1, id) = R!Normalized(reg1, id)
<1>1. CASE R!Matches(reg1, id)
  <2>1. R!Get(reg1, id) = R!FamilySpec(reg1, id)
    BY <1>1 DEF R!Get
  <2>2. /\ R!FamilySpec(reg1, id).wire = R!Normalized(reg1, id)
        /\ R!FamilySpec(reg1, id).contract \in {"users", "family"}
    BY DEF R!FamilySpec, R!Spec0
  <2>3. R!Fallback.contract = "fallback"
    BY DEF R!Fallback, R!Spec0
  <2>4. R!FamilySpec(reg1, id) # R!Fallback
    BY <2>2, <2>3
  <2>5. QED
    BY <2>1, <2>2, <2>4 DEF R!Wire
<1>2. CASE ~R!Matches(reg1, id)
  <2>1. R!Get(reg1, id) = R!Fallback
    BY <1>2 DEF R!Uncovered
  <2>2. R!Normalized(reg1, id) = id
    BY <1>2 DEF R!Normalized, R!Matches
  <2>3. QED
    BY <2>1, <2>2 DEF R!Wire
<1>3. QED
  BY <1>1, <1>2

(* As long as no other instance has the registry, a verdict of discovery   *)
(* is about the slug that is sent and this instance's own catalog.         *)
THEOREM VerdictsAreOurs ==
  /\ R!Spec => []R!VerdictIsAboutTheWire
  /\ MCSpec => []VerdictIsAboutTheWire
<1>1. CachesFollow => R!VerdictIsAboutTheWire
  <2> SUFFICES ASSUME CachesFollow, NEW i \in Instances, NEW r \in uses[i], NEW id \in Names,
                      R!Alone(i, r), R!Validate(reg[r], id).source = "discovery",
                      ~(R!Uncovered(reg[r], id) /\ R!Get(reg[r], id) # R!Fallback)
               PROVE  (R!Validate(reg[r], id).outcome = "authoritative")
                        <=> R!Wire(reg[r], id) \in accounts[i]
    BY DEF R!VerdictIsAboutTheWire
  <2>1. Follows(reg[r], UsersOf(r)) /\ UsersOf(r) = {i}
    BY DEF CachesFollow, UsersOf, R!Alone
  <2>2. reg[r].cache.owner = {i}
    BY <2>1 DEF Follows
  <2> DEFINE found == IF R!Normalized(reg[r], id) \in reg[r].cache.slugs
                      THEN "authoritative" ELSE "not found"
  <2>3. /\ id \notin R!Keys(reg[r]) /\ reg[r].cache.known
        /\ R!Validate(reg[r], id) = R!Verdict(found, "discovery")
    BY DEF R!Validate, R!Verdict
  <2>8. found = "authoritative" <=> R!Normalized(reg[r], id) \in reg[r].cache.slugs
    BY Zenon
  <2> HIDE DEF found
  <2>4. R!Validate(reg[r], id).outcome = found
    BY <2>3 DEF R!Verdict
  <2>5. reg[r].cache.slugs = accounts[i]
    BY <2>1, <2>2, <2>3 DEF Follows
  <2>6. R!Wire(reg[r], id) = R!Normalized(reg[r], id)
    BY <2>3, LookedUpIsSent
  <2>7. QED
    BY <2>4, <2>5, <2>6, <2>8
<1>2. R!VerdictIsAboutTheWire => VerdictIsAboutTheWire
  BY DEF VerdictIsAboutTheWire
<1> QED
  BY <1>1, <1>2, NamesInit, NamesNext, Machines, PTL DEF R!Spec, MCSpec

-----------------------------------------------------------------------------
(* Names: what a name stands for, when it is priced and in a fork.         *)

(* The entries of a user layer.                                            *)
Slugs == Names \cup Covered
ModelSpecs == [wire : Slugs, contract : {"own", "bare", "users", "family"}, priced : BOOLEAN,
               aliases : SUBSET Old, deprecated : SUBSET Old]
Entries == [key : Slugs, spec : ModelSpecs]

(* A name has one entry.                                                   *)
Apart(U) == \A i, j \in DOMAIN U : U[i].key = U[j].key => i = j

(* An entry whose spec sends another name than its key is the price of a   *)
(* name that its family rewrites, and nobody's alias.                      *)
Rewritten(e) ==
  /\ e.key \in Covered /\ e.spec.wire = Canonical[e.key]
  /\ e.spec.aliases = {} /\ e.spec.deprecated = {}

(* A layer in which that is all.                                           *)
Filed(U) ==
  /\ U \in Seq(Entries) /\ Apart(U)
  /\ \A i \in DOMAIN U : U[i].key # U[i].spec.wire => Rewritten(U[i])

(* V is U with the entry e in place of the one of its key, or last.        *)
Puts(U, V, e, here) ==
  /\ V[here] = e
  /\ DOMAIN V = DOMAIN U \cup {here}
  /\ \A i \in DOMAIN U : i # here => V[i] = U[i] /\ U[i].key # e.key
  /\ here = Len(U) + 1 \/ (here \in DOMAIN U /\ U[here].key = e.key)

(* Filing an entry does that.                                              *)
LEMMA PutSays ==
  ASSUME NEW S, NEW U \in Seq(S), Apart(U), NEW key, NEW spec,
         NEW e \in S, e = [key |-> key, spec |-> spec]
  PROVE  R!Put(U, key, spec) \in Seq(S) /\ \E here : Puts(U, R!Put(U, key, spec), e, here)
<1> DEFINE V == R!Put(U, key, spec)
<1>1. Len(U) \in Nat /\ DOMAIN U = 1..Len(U) /\ e.key = key
  OBVIOUS
<1>2. CASE \E i \in DOMAIN U : U[i].key = key
  <2>1. PICK here \in DOMAIN U : U[here].key = key
    BY <1>2
  <2>2. V = [i \in DOMAIN U |-> IF U[i].key = key THEN e ELSE U[i]]
    BY <1>2 DEF R!Put
  <2> HIDE DEF V
  <2>3. DOMAIN V = DOMAIN U /\ V[here] = e
    BY <2>1, <2>2
  <2>4. \A i \in DOMAIN U : i # here => V[i] = U[i] /\ U[i].key # key
    BY <2>1, <2>2 DEF Apart
  <2>5. V \in Seq(S)
    <3>1. \A i \in DOMAIN U : V[i] \in S
      BY <2>2
    <3>2. V = [i \in 1..Len(U) |-> V[i]]
      BY <1>1, <2>2
    <3> QED
      BY <1>1, <3>1, <3>2
  <2>6. Puts(U, V, e, here)
    BY <1>1, <2>1, <2>3, <2>4 DEF Puts
  <2> QED
    BY <2>5, <2>6 DEF V
<1>3. CASE ~ \E i \in DOMAIN U : U[i].key = key
  <2>1. V = Append(U, e)
    BY <1>3 DEF R!Put
  <2> HIDE DEF V
  <2> DEFINE here == Len(U) + 1
  <2>2. DOMAIN V = 1..(Len(U) + 1) /\ V[here] = e /\ V \in Seq(S)
    BY <1>1, <2>1
  <2>3. \A i \in DOMAIN U : V[i] = U[i] /\ U[i].key # key
    BY <1>1, <1>3, <2>1
  <2>4. DOMAIN V = DOMAIN U \cup {here}
    BY <1>1, <2>2
  <2>5. Puts(U, V, e, here)
    BY <1>1, <2>2, <2>3, <2>4 DEF Puts
  <2> QED
    BY <2>2, <2>5 DEF V
<1> QED
  BY <1>2, <1>3

(* It gives no two entries of the layer the same key.                      *)
LEMMA PutsApart ==
  ASSUME NEW U, NEW V, NEW e, NEW here, Apart(U), Puts(U, V, e, here)
  PROVE  Apart(V)
<1>1. \A i \in DOMAIN V : i # here => i \in DOMAIN U /\ V[i] = U[i] /\ V[i].key # e.key
  BY DEF Puts
<1> QED
  BY <1>1 DEF Puts, Apart

(* A layer stays filed.                                                    *)
LEMMA PutFiled ==
  ASSUME NEW U, Filed(U), NEW key \in Slugs, NEW spec \in ModelSpecs,
         NEW e, e = [key |-> key, spec |-> spec], key # spec.wire => Rewritten(e)
  PROVE  Filed(R!Put(U, key, spec))
<1> DEFINE V == R!Put(U, key, spec)
<1>1. U \in Seq(Entries) /\ Apart(U) /\ e \in Entries
  BY DEF Filed, Entries
<1>2. V \in Seq(Entries) /\ \E here : Puts(U, V, e, here)
  BY <1>1, PutSays
<1> HIDE DEF V
<1>3. PICK here : Puts(U, V, e, here)
  BY <1>2
<1>4. Apart(V)
  BY <1>1, <1>3, PutsApart
<1>5. e.key = key /\ e.spec = spec
  OBVIOUS
<1>6. ASSUME NEW i \in DOMAIN V, V[i].key # V[i].spec.wire PROVE Rewritten(V[i])
  <2>1. CASE i = here
    BY <1>3, <1>5, <1>6, <2>1 DEF Puts
  <2>2. CASE i # here
    BY <1>3, <1>6, <2>2 DEF Filed, Puts
  <2> QED
    BY <2>1, <2>2
<1>7. Filed(V)
  BY <1>2, <1>4, <1>6 DEF Filed
<1> QED
  BY <1>7 DEF V

(* A set of numbers that has 0, and the next of each it has, has them all. *)
LEMMA CountUp ==
  ASSUME NEW T, 0 \in T, \A n \in Nat : n \in T => n + 1 \in T
  PROVE  Nat \subseteq T
<1> DEFINE Out == {n \in Nat : n \notin T}
<1>1. Out \subseteq Nat
  OBVIOUS
<1>2. ASSUME Out # {} PROVE FALSE
  <2>1. PICK x \in Out : \A y \in Out : ~(<<y, x>> \in OpToRel(<, Nat))
    BY <1>1, <1>2, NatLessThanWellFounded, WFMin
  <2>2. x \in Nat /\ x # 0 /\ x - 1 \in Nat /\ x - 1 < x /\ (x - 1) + 1 = x
    OBVIOUS
  <2>3. <<x - 1, x>> \in OpToRel(<, Nat)
    BY <2>2, Zenon DEF OpToRel
  <2>4. x - 1 \in T
    BY <2>1, <2>2, <2>3
  <2> QED
    BY <2>1, <2>2, <2>4
<1> QED
  BY <1>2

(* The loop of fork(): every spec is filed under its own model_id, in turn. *)
IsRefiling(U, f) ==
  f = [n \in 0..Len(U) |->
         IF n = 0 THEN <<>> ELSE R!Put(f[n - 1], U[n].spec.wire, U[n].spec)]

(* The loop can be unrolled.                                               *)
LEMMA RefilingUnrolls ==
  ASSUME NEW U, Len(U) \in Nat
  PROVE  \E f : IsRefiling(U, f) /\ R!Refiled(U) = f[Len(U)]
<1> DEFINE top == Len(U)
           Turn(f, n) == IF n = 0 THEN <<>> ELSE R!Put(f[n - 1], U[n].spec.wire, U[n].spec)
           Upto(f, k) == f = [n \in 0..k |-> Turn(f, n)]
           T == {k \in Nat : \E f : Upto(f, k)}
<1>1. 0 \in T
  <2>1. Upto([n \in 0..0 |-> <<>>], 0)
    <3>1. \A n \in 0..0 : n = 0
      OBVIOUS
    <3> QED
      BY <3>1
  <2> QED
    BY <2>1
<1>2. ASSUME NEW k \in Nat, k \in T PROVE k + 1 \in T
  <2>1. PICK f : Upto(f, k)
    BY <1>2
  <2> DEFINE last == R!Put(f[k], U[k + 1].spec.wire, U[k + 1].spec)
             g == [n \in 0..(k + 1) |-> IF n = k + 1 THEN last ELSE f[n]]
  <2>2. \A n \in 0..(k + 1) : g[n] = Turn(g, n)
    <3> SUFFICES ASSUME NEW n \in 0..(k + 1) PROVE g[n] = Turn(g, n)
      OBVIOUS
    <3>1. CASE n = k + 1
      <4>1. n # 0 /\ n - 1 = k /\ k \in 0..(k + 1) /\ k # k + 1
        BY <3>1
      <4>2. g[n] = last /\ g[n - 1] = f[k]
        BY <3>1, <4>1
      <4> HIDE DEF last, g
      <4> QED
        BY <3>1, <4>1, <4>2 DEF last
    <3>2. CASE n # k + 1
      <4>1. n \in 0..k /\ f[n] = Turn(f, n) /\ g[n] = f[n]
        BY <2>1, <3>2
      <4>2. n # 0 => n - 1 \in 0..(k + 1) /\ n - 1 # k + 1
        BY <3>2
      <4>3. n # 0 => g[n - 1] = f[n - 1]
        BY <4>2
      <4> HIDE DEF g
      <4> QED
        BY <4>1, <4>3
    <3> QED
      BY <3>1, <3>2
  <2>3. g = [n \in 0..(k + 1) |-> g[n]]
    OBVIOUS
  <2>4. Upto(g, k + 1)
    <3> HIDE DEF g, Turn
    <3> QED
      BY <2>2, <2>3
  <2> HIDE DEF g, Upto
  <2> QED
    BY <2>4
<1>3. top \in T
  <2> HIDE DEF T
  <2>1. Nat \subseteq T
    BY <1>1, <1>2, CountUp
  <2> QED
    BY <2>1
<1>4. PICK f0 : Upto(f0, top)
  BY <1>3
<1> DEFINE upTo == CHOOSE f : Upto(f, top)
<1>5. Upto(upTo, top)
  <2> HIDE DEF Upto
  <2> QED
    BY <1>4, Zenon
<1>6. R!Refiled(U) = upTo[top]
  BY Zenon DEF R!Refiled
<1> QED
  <2> HIDE DEF upTo
  <2> QED
    BY <1>5, <1>6 DEF IsRefiling

(* What the first n turns of the loop have made of a layer: per model_id   *)
(* the last spec of it, in the order in which each was first met.          *)
SentBy(U, n, k) == {i \in 1..n : U[i].spec.wire = k}

Folded(U, n, W) ==
  /\ W \in Seq(Entries) /\ Apart(W)
  /\ \A j \in DOMAIN W :
       /\ W[j].key = W[j].spec.wire
       /\ \E i \in SentBy(U, n, W[j].key) :
            W[j].spec = U[i].spec /\ \A m \in SentBy(U, n, W[j].key) : m <= i
  /\ \A i \in 1..n : \E j \in DOMAIN W : W[j].key = U[i].spec.wire
  /\ \A j, l \in DOMAIN W : j < l =>
       \E i \in SentBy(U, n, W[j].key) : \A m \in SentBy(U, n, W[l].key) : i < m

(* One turn.                                                               *)
LEMMA OneTurn ==
  ASSUME NEW U \in Seq(Entries), NEW n \in 0..(Len(U) - 1), NEW W, Folded(U, n, W)
  PROVE  Folded(U, n + 1, R!Put(W, U[n + 1].spec.wire, U[n + 1].spec))
<1> DEFINE spec == U[n + 1].spec
           wire == spec.wire
           V == R!Put(W, wire, spec)
           e == [key |-> wire, spec |-> spec]
<1>1. /\ Len(U) \in Nat /\ n \in Nat /\ n + 1 \in 1..Len(U)
      /\ spec \in ModelSpecs /\ wire \in Slugs
  <2>1. Len(U) \in Nat /\ n \in Nat /\ n + 1 \in 1..Len(U)
    OBVIOUS
  <2>2. U[n + 1] \in Entries
    BY <2>1
  <2>3. spec \in ModelSpecs
    BY <2>2 DEF Entries
  <2> HIDE DEF spec
  <2>4. wire \in Slugs
    BY <2>3 DEF ModelSpecs
  <2> QED
    BY <2>1, <2>3, <2>4
<1>2. e \in Entries /\ e.key = wire /\ e.spec = spec
  BY <1>1 DEF Entries
<1>3. W \in Seq(Entries) /\ Apart(W)
  BY DEF Folded
<1>4. V \in Seq(Entries) /\ \E here : Puts(W, V, e, here)
  BY <1>2, <1>3, PutSays
<1> HIDE DEF V, e
<1>5. PICK here : Puts(W, V, e, here)
  BY <1>4
<1>6. Apart(V)
  BY <1>3, <1>5, PutsApart
<1>7. /\ V[here] = e /\ here \in DOMAIN V
      /\ \A j \in DOMAIN V : j # here => j \in DOMAIN W /\ V[j] = W[j] /\ V[j].key # wire
      /\ \A j \in DOMAIN W : j \in DOMAIN V /\ V[j].key = W[j].key
  BY <1>2, <1>5 DEF Puts
<1>8. \A k : /\ SentBy(U, n, k) \subseteq SentBy(U, n + 1, k)
             /\ \A m \in SentBy(U, n + 1, k) : m \in SentBy(U, n, k) \/ (m = n + 1 /\ k = wire)
  BY <1>1 DEF SentBy
<1>9. n + 1 \in SentBy(U, n + 1, wire) /\ \A k : SentBy(U, n + 1, k) \subseteq 1..(n + 1)
  BY <1>1 DEF SentBy
<1>10. ASSUME NEW j \in DOMAIN V
       PROVE  /\ V[j].key = V[j].spec.wire
              /\ \E i \in SentBy(U, n + 1, V[j].key) :
                   V[j].spec = U[i].spec /\ \A m \in SentBy(U, n + 1, V[j].key) : m <= i
  <2>1. CASE j = here
    <3>1. V[j].key = wire /\ V[j].spec = spec
      BY <1>2, <1>7, <2>1
    <3>2. \A m \in SentBy(U, n + 1, wire) : m <= n + 1
      BY <1>1, <1>9
    <3> QED
      BY <1>9, <3>1, <3>2
  <2>2. CASE j # here
    <3>1. j \in DOMAIN W /\ V[j] = W[j] /\ V[j].key # wire
      BY <1>7, <2>2
    <3>2. PICK i \in SentBy(U, n, W[j].key) :
            W[j].spec = U[i].spec /\ \A m \in SentBy(U, n, W[j].key) : m <= i
      BY <3>1 DEF Folded
    <3>3. V[j].key = V[j].spec.wire
      BY <3>1 DEF Folded
    <3> QED
      BY <1>8, <3>1, <3>2, <3>3
  <2> QED
    BY <2>1, <2>2
<1>11. ASSUME NEW i \in 1..(n + 1) PROVE \E j \in DOMAIN V : V[j].key = U[i].spec.wire
  <2>1. CASE i = n + 1
    BY <1>2, <1>7, <2>1
  <2>2. CASE i # n + 1
    <3>1. i \in 1..n
      BY <1>1, <2>2
    <3> QED
      BY <1>7, <3>1 DEF Folded
  <2> QED
    BY <2>1, <2>2
<1>12. ASSUME NEW j \in DOMAIN V, NEW l \in DOMAIN V, j < l
       PROVE  \E i \in SentBy(U, n + 1, V[j].key) : \A m \in SentBy(U, n + 1, V[l].key) : i < m
  <2>1. Len(W) \in Nat /\ DOMAIN W = 1..Len(W) /\ j \in Nat /\ l \in Nat
    BY <1>3, <1>4
  <2>2. CASE l \in DOMAIN W
    <3>1. j \in DOMAIN W
      BY <1>5, <1>12, <2>1, <2>2 DEF Puts
    <3>2. PICK i \in SentBy(U, n, W[j].key) : \A m \in SentBy(U, n, W[l].key) : i < m
      BY <1>12, <2>2, <3>1 DEF Folded
    <3>3. i \in 1..n
      BY <3>2 DEF SentBy
    <3>4. \A m \in SentBy(U, n + 1, W[l].key) : i < m
      BY <1>1, <1>8, <3>2, <3>3
    <3> QED
      BY <1>7, <1>8, <2>2, <3>1, <3>2, <3>4
  <2>3. CASE l \notin DOMAIN W
    <3>1. l = here /\ here = Len(W) + 1 /\ j \in DOMAIN W
      BY <1>5, <1>12, <2>1, <2>3 DEF Puts
    <3>2. \A k \in DOMAIN W : W[k].key # wire
      BY <1>2, <1>5, <2>1, <3>1 DEF Puts
    <3>3. SentBy(U, n, wire) = {}
      BY <3>2 DEF Folded, SentBy
    <3>4. V[l].key = wire /\ V[j].key = W[j].key
      BY <1>2, <1>7, <3>1
    <3>5. PICK i \in SentBy(U, n, W[j].key) : TRUE
      BY <3>1 DEF Folded
    <3>6. i \in 1..n
      BY <3>5 DEF SentBy
    <3>7. \A m \in SentBy(U, n + 1, wire) : m = n + 1
      BY <1>8, <3>3
    <3> QED
      BY <1>1, <1>8, <3>4, <3>5, <3>6, <3>7
  <2> QED
    BY <2>2, <2>3
<1> HIDE DEF wire, spec
<1>13. Folded(U, n + 1, V)
  BY <1>4, <1>6, <1>10, <1>11, <1>12 DEF Folded
<1> QED
  BY <1>13 DEF V, wire, spec

(* What fork() makes of a layer.                                           *)
LEMMA RefiledSays ==
  ASSUME NEW U \in Seq(Entries) PROVE Folded(U, Len(U), R!Refiled(U))
<1>1. Len(U) \in Nat
  OBVIOUS
<1>2. PICK f : IsRefiling(U, f) /\ R!Refiled(U) = f[Len(U)]
  BY <1>1, RefilingUnrolls
<1> DEFINE T == {n \in Nat : n <= Len(U) => Folded(U, n, f[n])}
<1>3. 0 \in T
  <2>1. f[0] = <<>>
    BY <1>1, <1>2 DEF IsRefiling
  <2>2. Folded(U, 0, <<>>)
    BY DEF Folded, Apart
  <2> QED
    BY <2>1, <2>2
<1>4. ASSUME NEW n \in Nat, n \in T PROVE n + 1 \in T
  <2> SUFFICES ASSUME n + 1 <= Len(U) PROVE Folded(U, n + 1, f[n + 1])
    OBVIOUS
  <2>1. n \in 0..(Len(U) - 1) /\ Folded(U, n, f[n])
    BY <1>1, <1>4
  <2>2. n + 1 \in 0..Len(U) /\ n + 1 # 0 /\ (n + 1) - 1 = n
    BY <1>1
  <2>3. f[n + 1] = R!Put(f[n], U[n + 1].spec.wire, U[n + 1].spec)
    BY <1>2, <2>2 DEF IsRefiling
  <2> QED
    BY <2>1, <2>3, OneTurn
<1>5. Len(U) \in T
  <2> HIDE DEF T
  <2> QED
    BY <1>1, <1>3, <1>4, CountUp
<1> QED
  BY <1>2, <1>5

(* Of some numbers up to n, one is the greatest.                           *)
LEMMA OneIsLast ==
  ASSUME NEW n \in Nat, NEW T, T \subseteq 1..n, T # {}
  PROVE  \E i \in T : \A j \in T : j <= i
<1> DEFINE Good(k) == \A S \in SUBSET (1..k) : S # {} => \E i \in S : \A j \in S : j <= i
           G == {k \in Nat : Good(k)}
<1>1. 0 \in G
  BY 1..0 = {}
<1>2. ASSUME NEW k \in Nat, k \in G PROVE k + 1 \in G
  <2> SUFFICES ASSUME NEW S \in SUBSET (1..(k + 1)), S # {}
               PROVE  \E i \in S : \A j \in S : j <= i
    OBVIOUS
  <2>1. CASE k + 1 \in S
    BY <2>1
  <2>2. CASE k + 1 \notin S
    <3>1. S \in SUBSET (1..k)
      BY <2>2
    <3> QED
      BY <1>2, <3>1
  <2> QED
    BY <2>1, <2>2
<1>3. n \in G
  <2> HIDE DEF G
  <2> QED
    BY <1>1, <1>2, CountUp
<1>4. Good(n)
  BY <1>3
<1> QED
  BY <1>4

(* Whom a name of several claims stands for: the last.                     *)
LEMMA LastIs ==
  ASSUME NEW X, NEW T, T \subseteq Nat, NEW i \in T, \A j \in T : j <= i
  PROVE  R!LastOf(X, T) = X.user[i].spec
<1> DEFINE last == CHOOSE k \in T : \A j \in T : j <= k
<1>1. last \in T /\ \A j \in T : j <= last
  OBVIOUS
<1>2. last = i
  <2> HIDE DEF last
  <2>1. last \in Nat /\ i \in Nat /\ last <= i /\ i <= last
    BY <1>1
  <2> QED
    BY <2>1
<1> QED
  BY <1>2 DEF R!LastOf

(* The keys of a registry are those of its entries.                        *)
LEMMA KeysAre ==
  ASSUME NEW X, NEW id
  PROVE  id \in R!Keys(X) <=> \E i \in DOMAIN X.user : X.user[i].key = id
  BY DEF R!Keys, R!ToSet

(* The spec of a key is that of the one entry that has the key.            *)
LEMMA UserIs ==
  ASSUME NEW X, Apart(X.user), NEW i \in DOMAIN X.user
  PROVE  LET e == X.user[i] IN e.key \in R!Keys(X) /\ R!User(X, e.key) = e.spec
<1> DEFINE U == X.user
<1> DEFINE key == U[i].key
           it == CHOOSE e \in R!ToSet(X.user) : e.key = key
<1>1. U[i] \in R!ToSet(X.user)
  BY DEF R!ToSet
<1>2. it \in R!ToSet(X.user) /\ it.key = key
  <2> HIDE DEF key
  <2>1. U[i].key = key
    BY DEF key
  <2> QED
    BY <1>1, <2>1
<1>3. PICK j \in DOMAIN U : it = U[j]
  BY <1>2 DEF R!ToSet
<1>4. it = U[i]
  BY <1>2, <1>3 DEF Apart
<1>5. R!User(X, key) = it.spec
  BY Zenon DEF R!User
<1> HIDE DEF it
<1> QED
  BY <1>4, <1>5, KeysAre

(* Refiling keeps whose claim is the last, if the spec that has it is the  *)
(* only one under its model_id.                                            *)
LEMMA ClaimMoves ==
  ASSUME NEW U \in Seq(Entries), Apart(U), NEW V, Folded(U, Len(U), V),
         NEW B, NEW i \in DOMAIN U, U[i].spec \in B,
         \A k \in DOMAIN U : U[k].spec \in B => k <= i,
         \A m \in DOMAIN U : U[m].spec.wire = U[i].spec.wire => U[m].key = U[m].spec.wire
  PROVE  \E j \in DOMAIN V :
           V[j].spec = U[i].spec /\ \A l \in DOMAIN V : V[l].spec \in B => l <= j
<1> DEFINE w == U[i].spec.wire
           n == Len(U)
<1>1. n \in Nat /\ DOMAIN U = 1..n /\ V \in Seq(Entries)
  BY DEF Folded
<1>2. i \in SentBy(U, n, w) /\ \A m \in SentBy(U, n, w) : m = i
  BY <1>1 DEF SentBy, Apart
<1>3. PICK j \in DOMAIN V : V[j].key = w
  BY <1>1 DEF Folded
<1>4. V[j].spec = U[i].spec
  BY <1>2, <1>3 DEF Folded
<1>5. ASSUME NEW l \in DOMAIN V, V[l].spec \in B, ~(l <= j) PROVE FALSE
  <2>1. PICK k \in SentBy(U, n, V[l].key) : V[l].spec = U[k].spec
    BY DEF Folded
  <2>2. j < l
    BY <1>1, <1>5
  <2>3. PICK p \in SentBy(U, n, V[j].key) : \A m \in SentBy(U, n, V[l].key) : p < m
    BY <2>2 DEF Folded
  <2>4. p = i /\ i < k
    BY <1>2, <1>3, <2>1, <2>3
  <2>5. k \in DOMAIN U /\ k <= i
    BY <1>1, <1>5, <2>1 DEF SentBy
  <2> QED
    BY <1>1, <2>4, <2>5
<1> QED
  BY <1>4, <1>5

(* A layer consists of specs.                                              *)
LEMMA EntriesHaveSpecs ==
  ASSUME NEW U \in Seq(Entries), NEW i \in DOMAIN U PROVE U[i].spec \in ModelSpecs
<1>1. U[i] \in Entries
  OBVIOUS
<1> QED
  BY <1>1 DEF Entries

(* What a fork's layer says of a key.                                      *)
LEMMA KeySays ==
  ASSUME NEW U \in Seq(Entries), NEW V, Folded(U, Len(U), V), NEW j \in DOMAIN V
  PROVE  \E i \in DOMAIN U : V[j].spec = U[i].spec /\ U[i].spec.wire = V[j].key
<1>1. Len(U) \in Nat /\ DOMAIN U = 1..Len(U)
  OBVIOUS
<1> QED
  BY <1>1 DEF Folded, SentBy

(* A fork gives every name the meaning its parent gives it, unless the     *)
(* name or what it is sent as was priced under a name that is rewritten.   *)
LEMMA CloneMeans ==
  ASSUME NEW U, Filed(U), NEW X, NEW C, X.user = U, C.user = R!Refiled(U),
         C.families = X.families, NEW id, ~R!Misfiled(X, id)
  PROVE  R!Get(C, id) = R!Get(X, id)
<1> DEFINE V == R!Refiled(U)
<1>1. /\ U \in Seq(Entries) /\ Apart(U) /\ Folded(U, Len(U), V)
      /\ Len(U) \in Nat /\ DOMAIN U = 1..Len(U)
  BY RefiledSays DEF Filed
<1>2. C.user = V
  OBVIOUS
<1> HIDE DEF V
<1>3. /\ R!Matches(C, id) <=> R!Matches(X, id)
      /\ R!FamilySpec(C, id) = R!FamilySpec(X, id)
  <2>1. R!UserMatch(C, id) <=> R!UserMatch(X, id)
    BY DEF R!UserMatch
  <2>2. R!Normalized(C, id) = R!Normalized(X, id)
    BY <2>1 DEF R!Normalized
  <2> QED
    BY <2>1, <2>2 DEF R!Matches, R!FamilySpec
<1>4. \A i \in DOMAIN U : U[i].key # U[i].spec.wire =>
        id # U[i].key /\ R!Get(X, id).wire # U[i].spec.wire
  BY DEF R!Misfiled, R!ToSet
<1>5. \A j \in DOMAIN V : \E i \in DOMAIN U : V[j].spec = U[i].spec /\ U[i].spec.wire = V[j].key
  BY <1>1, KeySays
<1>6. V \in Seq(Entries) /\ Apart(V)
  BY <1>1 DEF Folded
<1>7. CASE id \in R!Keys(X)
  <2>1. PICK i \in DOMAIN U : U[i].key = id
    BY <1>7, KeysAre
  <2>2. R!Get(X, id) = U[i].spec
    BY <1>1, <1>7, <2>1, UserIs DEF R!Get
  <2>3. U[i].spec.wire = id
    BY <1>4, <2>1
  <2>4. \A m \in DOMAIN U : U[m].spec.wire = id => m = i
    BY <1>1, <1>4, <2>1, <2>2, <2>3 DEF Apart
  <2>5. PICK j \in DOMAIN V : V[j].key = id
    BY <1>1, <2>3 DEF Folded
  <2>6. V[j].spec = U[i].spec
    BY <1>5, <2>4, <2>5
  <2>7. V[j].key \in R!Keys(C) /\ R!User(C, V[j].key) = V[j].spec
    <3>1. Apart(C.user) /\ j \in DOMAIN C.user
      BY <1>2, <1>6
    <3>2. C.user[j].key \in R!Keys(C) /\ R!User(C, C.user[j].key) = C.user[j].spec
      BY <3>1, UserIs
    <3> QED
      BY <1>2, <3>2
  <2> QED
    BY <2>2, <2>5, <2>6, <2>7 DEF R!Get
<1>8. CASE id \notin R!Keys(X)
  <2>1. \A i \in DOMAIN U : U[i].key # id
    BY <1>8, KeysAre
  <2>2. ASSUME id \in R!Keys(C) PROVE FALSE
    <3>1. PICK j \in DOMAIN V : V[j].key = id
      BY <1>2, <2>2, KeysAre
    <3>2. PICK i \in DOMAIN U : U[i].spec.wire = id
      BY <1>5, <3>1
    <3>3. U[i].key \in Covered /\ id = Canonical[U[i].key]
      BY <2>1, <3>2 DEF Filed, Rewritten
    <3>4. id \in Covered /\ Canonical[id] = id
      BY <3>3, CanonicalIsFixed
    <3>5. R!Matches(X, id) /\ R!Normalized(X, id) = id
      BY <3>4 DEF R!Matches, R!Normalized
    <3>6. R!Get(X, id).wire = id
      BY <1>8, <3>5 DEF R!Get, R!FamilySpec, R!Spec0
    <3> QED
      BY <1>4, <2>1, <3>2, <3>6
  <2>3. CASE R!Matches(X, id)
    BY <1>3, <1>8, <2>2, <2>3 DEF R!Get
  <2>4. CASE ~R!Matches(X, id)
    <3>1. ASSUME NEW B, NEW TU, NEW TV,
                 TU = {i \in DOMAIN U : U[i].spec \in B},
                 TV = {j \in DOMAIN V : V[j].spec \in B},
                 \A i \in TU : ~Rewritten(U[i]),
                 TU # {} => R!Get(X, id) = R!LastOf(X, TU)
          PROVE  /\ TU = {} <=> TV = {}
                 /\ TU # {} => R!LastOf(C, TV) = R!LastOf(X, TU)
      <4>1. CASE TU = {}
        <5>1. TV = {}
          BY <1>5, <3>1, <4>1
        <5> QED
          BY <4>1, <5>1
      <4>2. CASE TU # {}
        <5>1. PICK i \in TU : \A k \in TU : k <= i
          BY <1>1, <3>1, <4>2, OneIsLast
        <5>2. R!LastOf(X, TU) = U[i].spec
          BY <1>1, <3>1, <5>1, LastIs
        <5>3. R!Get(X, id).wire = U[i].spec.wire
          BY <3>1, <4>2, <5>2
        <5>4. \A m \in DOMAIN U : U[m].spec.wire = U[i].spec.wire => U[m].key = U[m].spec.wire
          BY <1>4, <5>3
        <5>5. i \in DOMAIN U /\ U[i].spec \in B /\ \A k \in DOMAIN U : U[k].spec \in B => k <= i
          BY <3>1, <5>1
        <5>6. PICK j \in DOMAIN V :
                V[j].spec = U[i].spec /\ \A l \in DOMAIN V : V[l].spec \in B => l <= j
          BY <1>1, <5>4, <5>5, ClaimMoves
        <5>7. j \in TV /\ \A l \in TV : l <= j
          BY <3>1, <5>5, <5>6
        <5>8. TV \subseteq Nat
          BY <1>6, <3>1
        <5>9. R!LastOf(C, TV) = V[j].spec
          BY <1>2, <5>7, <5>8, LastIs
        <5> QED
          BY <4>2, <5>2, <5>6, <5>7, <5>9
      <4> QED
        BY <4>1, <4>2
    <3> DEFINE A == {s \in ModelSpecs : id \in s.aliases}
               O == {s \in ModelSpecs : id \in s.deprecated}
    <3>2. /\ \A i \in DOMAIN U : U[i].spec \in ModelSpecs
          /\ \A j \in DOMAIN V : V[j].spec \in ModelSpecs
      BY <1>1, <1>6, EntriesHaveSpecs
    <3>3. /\ R!Claims(X, id) = {i \in DOMAIN U : U[i].spec \in A}
          /\ R!Claims(C, id) = {j \in DOMAIN V : V[j].spec \in A}
          /\ R!OldClaims(X, id) = {i \in DOMAIN U : U[i].spec \in O}
          /\ R!OldClaims(C, id) = {j \in DOMAIN V : V[j].spec \in O}
      BY <1>2, <3>2 DEF R!Claims, R!OldClaims
    <3>4. \A i \in R!Claims(X, id) \cup R!OldClaims(X, id) : ~Rewritten(U[i])
      BY DEF R!Claims, R!OldClaims, Rewritten
    <3> HIDE DEF A, O
    <3> DEFINE newX == R!Claims(X, id)
               newC == R!Claims(C, id)
               oldX == R!OldClaims(X, id)
               oldC == R!OldClaims(C, id)
    <3>5. newX # {} => R!Get(X, id) = R!LastOf(X, newX)
      BY <1>8, <2>4 DEF R!Get
    <3>6. /\ newX = {} <=> newC = {}
          /\ newX # {} => R!LastOf(C, newC) = R!LastOf(X, newX)
      <4>1. \A i \in newX : ~Rewritten(U[i])
        BY <3>4
      <4>2. /\ newX = {i \in DOMAIN U : U[i].spec \in A}
            /\ newC = {j \in DOMAIN V : V[j].spec \in A}
        BY <3>3
      <4> HIDE DEF newX, newC
      <4> QED
        BY <3>1, <3>5, <4>1, <4>2, Zenon
    <3>7. newX = {} /\ oldX # {} => R!Get(X, id) = R!LastOf(X, oldX)
      BY <1>8, <2>4 DEF R!Get
    <3>8. newX = {} =>
            /\ oldX = {} <=> oldC = {}
            /\ oldX # {} => R!LastOf(C, oldC) = R!LastOf(X, oldX)
      <4>1. \A i \in oldX : ~Rewritten(U[i])
        BY <3>4
      <4>2. /\ oldX = {i \in DOMAIN U : U[i].spec \in O}
            /\ oldC = {j \in DOMAIN V : V[j].spec \in O}
        BY <3>3
      <4> HIDE DEF oldX, oldC, newX
      <4> QED
        BY <3>1, <3>7, <4>1, <4>2, Zenon
    <3> QED
      BY <1>3, <1>8, <2>2, <2>4, <3>6, <3>8 DEF R!Get
  <2> QED
    BY <2>3, <2>4
<1> QED
  BY <1>7, <1>8

-----------------------------------------------------------------------------
(* What a step does to the names of the registries.                        *)
Files(r, key, spec) ==
  /\ reg'[r].user = R!Put(reg[r].user, key, spec) /\ reg'[r].live = reg[r].live
  /\ \A q \in Registries \ {r} : reg'[q] = reg[q]

Forks(r, c) ==
  /\ ~reg[c].live
  /\ reg'[c].user = R!Refiled(reg[r].user) /\ reg'[c].families = reg[r].families
  /\ reg'[c].parent = r
  /\ \A q \in Registries \ {c} : reg'[q] = reg[q]

Still(q) == reg'[q].user = reg[q].user /\ reg'[q].live = reg[q].live

(* A field of a registry that is written.                                  *)
LEMMA FieldIsWritten ==
  ASSUME CachesFollow, NEW r \in Registries, NEW u
  PROVE  /\ reg' = [reg EXCEPT ![r].user = u] =>
              reg'[r].user = u /\ reg'[r].live = reg[r].live
         /\ reg' = [reg EXCEPT ![r].families = u] \/ reg' = [reg EXCEPT ![r].cache = u] =>
              Still(r)
<1>1. /\ DOMAIN reg = Registries
      /\ reg[r] = [live |-> reg[r].live, user |-> reg[r].user, families |-> reg[r].families,
                   cache |-> reg[r].cache, parent |-> reg[r].parent]
  BY DEF CachesFollow, Follows
<1>2. ASSUME reg' = [reg EXCEPT ![r].user = u]
      PROVE  reg'[r].user = u /\ reg'[r].live = reg[r].live
  <2>1. reg'[r] = [reg[r] EXCEPT !.user = u]
    BY <1>1, <1>2
  <2>2. reg'[r] = [live |-> reg[r].live, user |-> u, families |-> reg[r].families,
                   cache |-> reg[r].cache, parent |-> reg[r].parent]
    BY <1>1, <2>1
  <2> QED
    BY <2>2
<1>3. ASSUME reg' = [reg EXCEPT ![r].families = u] PROVE Still(r)
  <2>1. reg'[r] = [reg[r] EXCEPT !.families = u]
    BY <1>1, <1>3
  <2>2. reg'[r] = [live |-> reg[r].live, user |-> reg[r].user, families |-> u,
                   cache |-> reg[r].cache, parent |-> reg[r].parent]
    BY <1>1, <2>1
  <2> QED
    BY <2>2 DEF Still
<1>4. ASSUME reg' = [reg EXCEPT ![r].cache = u] PROVE Still(r)
  <2>1. reg'[r] = [reg[r] EXCEPT !.cache = u]
    BY <1>1, <1>4
  <2>2. reg'[r] = [live |-> reg[r].live, user |-> reg[r].user, families |-> reg[r].families,
                   cache |-> u, parent |-> reg[r].parent]
    BY <1>1, <2>1
  <2> QED
    BY <2>2 DEF Still
<1> QED
  BY <1>2, <1>3, <1>4

(* There are four kinds of steps.                                          *)
LEMMA NamesChange ==
  ASSUME CachesFollow, [R!Next]_R!vars
  PROVE  \/ \E r \in R!Live, spec \in R!OwnSpecs : Files(r, spec.wire, spec)
         \/ \E r \in R!Live, id \in Names : Files(r, id, R!Priced(reg[r], id))
         \/ \A q \in Registries : Still(q)
         \/ \E r \in R!Live, c \in Registries : Forks(r, c)
<1>1. R!Live \subseteq Registries /\ DOMAIN reg = Registries
  BY DEF R!Live, CachesFollow
<1>2. ASSUME NEW r \in R!Live, NEW spec \in R!OwnSpecs, R!Register(r, spec)
      PROVE  Files(r, spec.wire, spec)
  <2>1. reg' = [reg EXCEPT ![r].user = R!Put(reg[r].user, spec.wire, spec)]
    BY <1>2 DEF R!Register
  <2> QED
    BY <1>1, <2>1, FieldIsWritten DEF Files
<1>3. ASSUME NEW r \in R!Live, NEW id \in Names, R!RegisterPricing(r, id)
      PROVE  Files(r, id, R!Priced(reg[r], id))
  <2>1. reg' = [reg EXCEPT ![r].user = R!Put(reg[r].user, id, R!Priced(reg[r], id))]
    BY <1>3 DEF R!RegisterPricing
  <2> QED
    BY <1>1, <2>1, FieldIsWritten DEF Files
<1>4. ASSUME NEW r \in Registries, NEW u,
             reg' = [reg EXCEPT ![r].families = u] \/ reg' = [reg EXCEPT ![r].cache = u]
      PROVE  \A q \in Registries : Still(q)
  <2>1. Still(r)
    BY <1>4, FieldIsWritten
  <2>2. \A q \in Registries \ {r} : reg'[q] = reg[q]
    BY <1>1, <1>4
  <2> QED
    BY <2>1, <2>2 DEF Still
<1>5. ASSUME NEW r \in R!Live, R!RegisterFamily(r) PROVE \A q \in Registries : Still(q)
  <2>1. PICK u : reg' = [reg EXCEPT ![r].families = u]
    BY <1>5 DEF R!RegisterFamily
  <2> QED
    BY <1>1, <1>4, <2>1
<1>6. ASSUME NEW r \in R!Live, NEW c \in Registries, R!Fork(r, c) PROVE Forks(r, c)
  <2>1. ~reg[c].live /\ reg' = [reg EXCEPT ![c] = R!Clone(r)]
    BY <1>6 DEF R!Fork
  <2>2. reg'[c] = R!Clone(r) /\ \A q \in Registries \ {c} : reg'[q] = reg[q]
    BY <1>1, <2>1
  <2>3. /\ R!Clone(r).user = R!Refiled(reg[r].user) /\ R!Clone(r).families = reg[r].families
        /\ R!Clone(r).parent = r
    BY Zenon DEF R!Clone
  <2> QED
    BY <2>1, <2>2, <2>3 DEF Forks
<1>7. ASSUME NEW r \in R!Live, NEW i \in Instances, R!Construct(i, r)
      PROVE  \A q \in Registries : Still(q)
  <2>1. PICK u : reg' = [reg EXCEPT ![r].cache = u]
    BY <1>7 DEF R!Construct
  <2> QED
    BY <1>1, <1>4, <2>1
<1>8. ASSUME NEW i \in Instances, R!Discover(i) PROVE \A q \in Registries : Still(q)
  <2>1. PICK r \in uses[i] : \E u : reg' = [reg EXCEPT ![r].cache = u]
    BY <1>8 DEF R!Discover
  <2>2. r \in Registries
    BY DEF CachesFollow
  <2> QED
    BY <1>4, <2>1, <2>2
<1>9. CASE UNCHANGED R!vars
  BY <1>9 DEF R!vars, Still
<1> QED
  BY <1>2, <1>3, <1>5, <1>6, <1>7, <1>8, <1>9 DEF R!Next

(* The layers of all registries are filed.                                 *)
AllFiled == \A r \in Registries : Filed(reg[r].user)

(* What register() is given is a spec under its own model_id.              *)
LEMMA OwnIsSpec ==
  ASSUME NEW spec \in R!OwnSpecs
  PROVE  spec \in ModelSpecs /\ spec.contract = "own"
<1>1. spec \in [wire : R!Upstream, contract : {"own"}, priced : {FALSE},
                aliases : SUBSET Old, deprecated : SUBSET Old]
  BY DEF R!OwnSpecs
<1>2. R!Upstream \subseteq Slugs
  BY DEF R!Upstream, Slugs
<1> QED
  BY <1>1, <1>2 DEF ModelSpecs

(* What a family says of a name is a spec of nobody's alias.               *)
LEMMA FamilyIsSpec ==
  ASSUME NEW X, NEW id \in Names, R!Matches(X, id)
  PROVE  LET s == R!FamilySpec(X, id)
         IN /\ s \in ModelSpecs /\ s.aliases = {} /\ s.deprecated = {}
            /\ s.wire # id => id \in Covered /\ s.wire = Canonical[id]
<1> DEFINE no == FALSE
           w == R!Normalized(X, id)
           c == IF R!UserMatch(X, id) THEN "users" ELSE "family"
<1>1. R!FamilySpec(X, id) = [wire |-> w, contract |-> c, priced |-> no,
                             aliases |-> {}, deprecated |-> {}]
  BY Zenon DEF R!FamilySpec, R!Spec0
<1>2. no \in BOOLEAN /\ c \in {"users", "family"}
  OBVIOUS
<1>3. w \in Slugs /\ (w # id => id \in Covered /\ w = Canonical[id])
  BY CanonicalIsFixed DEF R!Normalized, Slugs
<1> HIDE DEF no, c, w
<1> QED
  BY <1>1, <1>2, <1>3 DEF ModelSpecs

(* A spec with a price.                                                    *)
LEMMA PriceOnly ==
  ASSUME NEW s \in ModelSpecs
  PROVE  LET p == [s EXCEPT !.priced = TRUE]
         IN /\ p \in ModelSpecs /\ p.wire = s.wire /\ p.contract = s.contract
            /\ p.aliases = s.aliases /\ p.deprecated = s.deprecated
            /\ s.priced => p = s
<1> DEFINE yes == TRUE
           p == [s EXCEPT !.priced = yes]
<1>1. /\ s = [wire |-> s.wire, contract |-> s.contract, priced |-> s.priced,
              aliases |-> s.aliases, deprecated |-> s.deprecated]
      /\ s.wire \in Slugs /\ s.contract \in {"own", "bare", "users", "family"}
      /\ s.aliases \in SUBSET Old /\ s.deprecated \in SUBSET Old
  BY DEF ModelSpecs
<1>2. yes \in BOOLEAN
  OBVIOUS
<1>3. s.priced => s.priced = yes
  <2>1. s.priced \in BOOLEAN
    BY DEF ModelSpecs
  <2> QED
    BY <2>1
<1> HIDE DEF yes
<1>4. p = [wire |-> s.wire, contract |-> s.contract, priced |-> yes,
           aliases |-> s.aliases, deprecated |-> s.deprecated]
  BY <1>1
<1> HIDE DEF p
<1>5. /\ p.wire = s.wire /\ p.contract = s.contract
      /\ p.aliases = s.aliases /\ p.deprecated = s.deprecated
  BY <1>4
<1>6. p \in ModelSpecs
  BY <1>1, <1>2, <1>4 DEF ModelSpecs
<1>7. s.priced => p = s
  <2>1. ASSUME s.priced = yes PROVE p = s
    BY <1>1, <1>4, <2>1
  <2> QED
    BY <1>3, <2>1
<1> QED
  BY <1>5, <1>6, <1>7 DEF p, yes

(* A price is filed as a spec; under another name than it sends, only if   *)
(* its family rewrites the name.                                           *)
LEMMA PricedIsSpec ==
  ASSUME NEW X, Filed(X.user), NEW id \in Names, NEW e, e = [key |-> id, spec |-> R!Priced(X, id)]
  PROVE  e.spec \in ModelSpecs /\ (id # e.spec.wire => Rewritten(e))
<1> DEFINE p == R!Priced(X, id)
<1>1. e.key = id /\ e.spec = p
  OBVIOUS
<1> DEFINE Fine(s) ==
             /\ s \in ModelSpecs
             /\ id # s.wire => /\ id \in Covered /\ s.wire = Canonical[id]
                               /\ s.aliases = {} /\ s.deprecated = {}
<1>2. PICK s : p = [s EXCEPT !.priced = TRUE] /\ Fine(s)
  <2>1. CASE id \in R!Keys(X)
    <3>1. PICK i \in DOMAIN X.user : X.user[i].key = id
      BY <2>1, KeysAre
    <3>2. R!User(X, id) = X.user[i].spec
      BY <3>1, UserIs DEF Filed
    <3>3. X.user[i].spec \in ModelSpecs
      BY EntriesHaveSpecs DEF Filed
    <3>4. Fine(X.user[i].spec)
      BY <3>1, <3>3 DEF Filed, Rewritten
    <3>5. p = [X.user[i].spec EXCEPT !.priced = TRUE]
      BY <2>1, <3>2 DEF R!Priced
    <3> QED
      BY <3>4, <3>5
  <2>2. CASE id \notin R!Keys(X) /\ R!Matches(X, id)
    <3>1. p = [R!FamilySpec(X, id) EXCEPT !.priced = TRUE]
      BY <2>2 DEF R!Priced
    <3>2. Fine(R!FamilySpec(X, id))
      BY <2>2, FamilyIsSpec
    <3> HIDE DEF Fine
    <3> QED
      BY <3>1, <3>2
  <2>3. CASE id \notin R!Keys(X) /\ ~R!Matches(X, id)
    <3> DEFINE no == FALSE
    <3>1. p = [R!Spec0(id, "bare") EXCEPT !.priced = TRUE]
      BY <2>3 DEF R!Priced
    <3>2. R!Spec0(id, "bare") = [wire |-> id, contract |-> "bare", priced |-> no,
                                 aliases |-> {}, deprecated |-> {}]
      BY Zenon DEF R!Spec0
    <3>3. no \in BOOLEAN /\ id \in Slugs
      BY DEF Slugs
    <3> HIDE DEF no
    <3>4. R!Spec0(id, "bare") \in ModelSpecs /\ R!Spec0(id, "bare").wire = id
      BY <3>2, <3>3 DEF ModelSpecs
    <3>5. Fine(R!Spec0(id, "bare"))
      BY <3>4
    <3> HIDE DEF Fine
    <3> QED
      BY <3>1, <3>5
  <2> QED
    BY <2>1, <2>2, <2>3
<1>3. /\ p \in ModelSpecs /\ p.wire = s.wire
      /\ p.aliases = s.aliases /\ p.deprecated = s.deprecated
  BY <1>2, PriceOnly
<1> HIDE DEF p
<1> QED
  BY <1>1, <1>2, <1>3 DEF Rewritten

(* A fork's layer is filed: every spec under its own model_id.             *)
LEMMA RefiledIsFiled ==
  ASSUME NEW U, Filed(U) PROVE Filed(R!Refiled(U))
<1>1. Folded(U, Len(U), R!Refiled(U))
  BY RefiledSays DEF Filed
<1> QED
  BY <1>1 DEF Folded, Filed

(* Empty layers are filed.                                                 *)
LEMMA AllFiledInit == R!Init => AllFiled
<1> SUFFICES ASSUME R!Init, NEW r \in Registries PROVE Filed(reg[r].user)
  BY DEF AllFiled
<1>1. reg[r] = [R!Dead EXCEPT !.live = TRUE] \/ reg[r] = R!Dead
  BY DEF R!Init
<1>2. reg[r].user = <<>>
  BY <1>1 DEF R!Dead
<1>3. Filed(<<>>)
  BY DEF Filed, Apart
<1> QED
  BY <1>2, <1>3

(* Every step of the registries keeps their layers filed.                  *)
LEMMA AllFiledNext == CachesFollow /\ AllFiled /\ [R!Next]_R!vars => AllFiled'
<1> SUFFICES ASSUME CachesFollow, AllFiled, [R!Next]_R!vars PROVE AllFiled'
  OBVIOUS
<1>1. \A r \in R!Live : r \in Registries
  BY DEF R!Live
<1>2. ASSUME NEW r \in R!Live, NEW key, NEW spec, Files(r, key, spec),
             Filed(R!Put(reg[r].user, key, spec))
      PROVE  AllFiled'
  BY <1>2 DEF AllFiled, Files
<1>3. ASSUME NEW r \in R!Live, NEW spec \in R!OwnSpecs, Files(r, spec.wire, spec) PROVE AllFiled'
  <2>1. spec \in ModelSpecs /\ Filed(reg[r].user)
    BY <1>1, OwnIsSpec DEF AllFiled
  <2>2. spec.wire \in Slugs
    BY <2>1 DEF ModelSpecs
  <2>3. Filed(R!Put(reg[r].user, spec.wire, spec))
    BY <2>1, <2>2, PutFiled
  <2> QED
    BY <1>2, <1>3, <2>3
<1>4. ASSUME NEW r \in R!Live, NEW id \in Names, Files(r, id, R!Priced(reg[r], id)) PROVE AllFiled'
  <2> DEFINE p == R!Priced(reg[r], id)
             e == [key |-> id, spec |-> p]
  <2>1. Filed(reg[r].user)
    BY <1>1 DEF AllFiled
  <2>2. e.spec \in ModelSpecs /\ (id # e.spec.wire => Rewritten(e))
    BY <2>1, PricedIsSpec
  <2>3. e.spec = p /\ id \in Slugs
    BY DEF Slugs
  <2> HIDE DEF p
  <2>4. p \in ModelSpecs /\ (id # p.wire => Rewritten(e))
    BY <2>2, <2>3
  <2>5. Filed(R!Put(reg[r].user, id, p))
    BY <2>1, <2>3, <2>4, PutFiled
  <2> QED
    BY <1>2, <1>4, <2>5 DEF p
<1>5. CASE \A q \in Registries : Still(q)
  BY <1>5 DEF AllFiled, Still
<1>6. ASSUME NEW r \in R!Live, NEW c \in Registries, Forks(r, c) PROVE AllFiled'
  <2>1. Filed(reg[r].user)
    BY <1>1 DEF AllFiled
  <2>2. Filed(reg'[c].user)
    BY <1>6, <2>1, RefiledIsFiled DEF Forks
  <2> QED
    BY <1>6, <2>2 DEF AllFiled, Forks
<1> QED
  BY <1>3, <1>4, <1>5, <1>6, NamesChange

-----------------------------------------------------------------------------
(* Every step that makes a fork makes one that means the same.             *)
ClonesMeanTheSame ==
  \A c \in Registries : R!Forked(c) =>
    LET X == reg[reg'[c].parent]
    IN \A id \in Names : R!Misfiled(X, id) \/ R!Get(reg'[c], id) = R!Get(X, id)

(* So it is of every step: the others make no fork.                        *)
LEMMA ForksMeanTheSame ==
  ASSUME CachesFollow, AllFiled, [R!Next]_R!vars PROVE ClonesMeanTheSame
<1> SUFFICES ASSUME NEW c \in Registries, R!Forked(c), NEW id \in Names,
                    ~R!Misfiled(reg[reg'[c].parent], id)
             PROVE  R!Get(reg'[c], id) = R!Get(reg[reg'[c].parent], id)
  BY DEF ClonesMeanTheSame
<1>1. ~reg[c].live /\ reg'[c].live
  BY DEF R!Forked
<1>2. PICK r \in R!Live, d \in Registries : Forks(r, d)
  <2>1. ASSUME NEW r \in R!Live, NEW key, NEW spec, Files(r, key, spec) PROVE FALSE
    BY <1>1, <2>1 DEF Files
  <2>2. CASE \A q \in Registries : Still(q)
    BY <1>1, <2>2 DEF Still
  <2> QED
    BY <2>1, <2>2, NamesChange
<1>3. d = c /\ reg'[c].parent = r
  BY <1>1, <1>2 DEF Forks
<1>4. Filed(reg[r].user)
  BY DEF AllFiled, R!Live
<1>5. reg'[c].user = R!Refiled(reg[r].user) /\ reg'[c].families = reg[r].families
  BY <1>2, <1>3 DEF Forks
<1> QED
  BY <1>3, <1>4, <1>5, CloneMeans

(* A key whose entry is left alone keeps its spec.                         *)
LEMMA EntryStays ==
  ASSUME NEW X, NEW Z, Filed(X.user), Filed(Z.user), NEW id,
         NEW i \in DOMAIN X.user, NEW j \in DOMAIN Z.user, Z.user[j] = X.user[i], X.user[i].key = id,
         R!User(Z, id).priced
  PROVE  R!Get(Z, id) = [R!Get(X, id) EXCEPT !.priced = TRUE]
<1> DEFINE s == X.user[i].spec
<1>1. id \in R!Keys(X) /\ R!User(X, id) = s /\ s \in ModelSpecs
  BY UserIs, EntriesHaveSpecs DEF Filed
<1>2. id \in R!Keys(Z) /\ R!User(Z, id) = s
  <2>1. Z.user[j].key \in R!Keys(Z) /\ R!User(Z, Z.user[j].key) = Z.user[j].spec
    BY UserIs DEF Filed
  <2> QED
    BY <2>1
<1>3. R!Get(X, id) = s /\ R!Get(Z, id) = s /\ s.priced
  BY <1>1, <1>2 DEF R!Get
<1> HIDE DEF s
<1>4. [s EXCEPT !.priced = TRUE] = s
  BY <1>1, <1>3, PriceOnly
<1> QED
  BY <1>3, <1>4

(* Every step that prices a name prices it and no more.                    *)
PricesAreOnlyPrices ==
  \A r \in R!Live, id \in Names :
    R!PricedNow(r, id) /\ reg'[r].families = reg[r].families /\ ~R!Uncovered(reg[r], id) =>
      \/ R!Get(reg'[r], id) = [R!Get(reg[r], id) EXCEPT !.priced = TRUE]
      \/ R!Get(reg'[r], id).contract = "own"

(* So it is of every step: what the others leave alone was priced before.  *)
LEMMA PricesChangeNoMeaning ==
  ASSUME CachesFollow, AllFiled, [R!Next]_R!vars PROVE PricesAreOnlyPrices
<1> SUFFICES ASSUME NEW r \in R!Live, NEW id \in Names, R!PricedNow(r, id),
                    ~R!Uncovered(reg[r], id)
             PROVE  \/ R!Get(reg'[r], id) = [R!Get(reg[r], id) EXCEPT !.priced = TRUE]
                    \/ R!Get(reg'[r], id).contract = "own"
  BY DEF PricesAreOnlyPrices
<1> DEFINE X == reg[r]
           Z == reg'[r]
           U == reg[r].user
           V == reg'[r].user
<1>1. id \in R!Keys(Z) /\ R!User(Z, id).priced
  BY DEF R!PricedNow
<1>2. r \in Registries /\ X.live /\ Filed(X.user) /\ Filed(Z.user)
  BY AllFiledNext DEF AllFiled, R!Live
<1>3. PICK j \in DOMAIN Z.user : Z.user[j].key = id
  BY <1>1, KeysAre
<1>4. ASSUME NEW i \in DOMAIN X.user, Z.user[j] = X.user[i]
      PROVE  R!Get(Z, id) = [R!Get(X, id) EXCEPT !.priced = TRUE]
  <2>1. X.user[i].key = id
    BY <1>3, <1>4
  <2> HIDE DEF X, Z
  <2> QED
    BY <1>1, <1>2, <1>3, <1>4, <2>1, EntryStays
<1>5. ASSUME NEW key, NEW spec, Z.user = R!Put(X.user, key, spec),
             key \in Slugs, spec \in ModelSpecs
      PROVE  \/ \E i \in DOMAIN X.user : Z.user[j] = X.user[i]
             \/ key = id /\ R!Get(Z, id) = spec
  <2> DEFINE e == [key |-> key, spec |-> spec]
  <2>1. X.user \in Seq(Entries) /\ Apart(X.user) /\ e \in Entries
    BY <1>2, <1>5 DEF Filed, Entries
  <2>2. e.key = key /\ e.spec = spec
    OBVIOUS
  <2> HIDE DEF e
  <2>3. PICK here : Puts(X.user, Z.user, e, here)
    <3>1. e = [key |-> key, spec |-> spec]
      BY DEF e
    <3>2. \E here : Puts(X.user, R!Put(X.user, key, spec), e, here)
      BY <2>1, <3>1, PutSays
    <3> QED
      BY <1>5, <3>2
  <2>4. CASE j = here
    <3>1. Z.user[j] = e /\ key = id
      BY <1>3, <2>2, <2>3, <2>4 DEF Puts
    <3>2. R!User(Z, Z.user[j].key) = Z.user[j].spec
      BY <1>2, UserIs DEF Filed
    <3> QED
      BY <1>1, <1>3, <2>2, <3>1, <3>2 DEF R!Get
  <2>5. CASE j # here
    BY <2>3, <2>5 DEF Puts
  <2> QED
    BY <2>4, <2>5
<1>6. ASSUME NEW q \in R!Live, NEW spec \in R!OwnSpecs, Files(q, spec.wire, spec)
      PROVE  \/ \E i \in DOMAIN X.user : Z.user[j] = X.user[i]
             \/ R!Get(Z, id).contract = "own"
  <2>1. CASE q = r
    <3>1. Z.user = R!Put(X.user, spec.wire, spec)
      BY <1>6, <2>1 DEF Files
    <3>2. spec \in ModelSpecs /\ spec.contract = "own"
      BY OwnIsSpec
    <3>3. spec.wire \in Slugs
      BY <3>2 DEF ModelSpecs
    <3> HIDE DEF X, Z
    <3> QED
      BY <1>5, <3>1, <3>2, <3>3
  <2>2. CASE q # r
    BY <1>2, <1>3, <1>6, <2>2 DEF Files
  <2> QED
    BY <2>1, <2>2
<1>7. ASSUME NEW q \in R!Live, NEW k \in Names, Files(q, k, R!Priced(reg[q], k))
      PROVE  \/ \E i \in DOMAIN X.user : Z.user[j] = X.user[i]
             \/ R!Get(Z, id) = [R!Get(X, id) EXCEPT !.priced = TRUE]
  <2>1. CASE q = r
    <3> DEFINE p == R!Priced(X, k)
               e == [key |-> k, spec |-> p]
    <3>1. Z.user = R!Put(X.user, k, p)
      BY <1>7, <2>1 DEF Files
    <3>2. e.spec \in ModelSpecs
      BY <1>2, PricedIsSpec
    <3>3. p \in ModelSpecs /\ k \in Slugs
      BY <3>2 DEF Slugs
    <3>4. k = id => p = [R!Get(X, id) EXCEPT !.priced = TRUE]
      BY DEF R!Priced, R!Get, R!Uncovered
    <3> HIDE DEF X, Z, p
    <3> QED
      BY <1>5, <3>1, <3>3, <3>4
  <2>2. CASE q # r
    BY <1>2, <1>3, <1>7, <2>2 DEF Files
  <2> QED
    BY <2>1, <2>2
<1>8. CASE \A q \in Registries : Still(q)
  <2>1. Z.user = X.user
    BY <1>2, <1>8 DEF Still
  <2>2. j \in DOMAIN X.user /\ Z.user[j] = X.user[j]
    BY <1>3, <2>1
  <2> QED
    BY <1>4, <2>2
<1>9. ASSUME NEW q \in R!Live, NEW c \in Registries, Forks(q, c)
      PROVE  \E i \in DOMAIN X.user : Z.user[j] = X.user[i]
  <2>1. Z = X
    BY <1>2, <1>9 DEF Forks
  <2> QED
    BY <1>3, <2>1
<1> HIDE DEF X, Z
<1> QED
  BY <1>4, <1>6, <1>7, <1>8, <1>9, NamesChange DEF X, Z

(* A name keeps its meaning in a fork, and when it is priced, for any      *)
(* registries, whatever their users register, price and fork.              *)
THEOREM NamesMeanTheSame ==
  /\ R!Spec => R!ForkIsAClone /\ R!PricingKeepsContract
  /\ MCSpec => NamesKeepTheirMeaning
<1>1. CachesFollow /\ AllFiled /\ [R!Next]_R!vars =>
        [ClonesMeanTheSame]_R!vars /\ [PricesAreOnlyPrices]_R!vars
  BY ForksMeanTheSame, PricesChangeNoMeaning
<1>2. R!Spec => [][ClonesMeanTheSame]_R!vars /\ [][PricesAreOnlyPrices]_R!vars
  BY <1>1, NamesInit, NamesNext, AllFiledInit, AllFiledNext, PTL DEF R!Spec
<1>3. MCSpec => R!Spec
  BY Machines, PTL DEF R!Spec, MCSpec
<1>4. R!Spec => R!ForkIsAClone
  BY <1>2, PTL DEF R!ForkIsAClone, ClonesMeanTheSame
<1>5. R!Spec => R!PricingKeepsContract
  BY <1>2, PTL DEF R!PricingKeepsContract, PricesAreOnlyPrices
<1> QED
  BY <1>3, <1>4, <1>5, PTL DEF NamesKeepTheirMeaning

=============================================================================
