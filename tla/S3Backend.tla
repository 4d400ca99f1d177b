----------------------------- MODULE S3Backend -----------------------------
(***************************************************************************)
(* S3StorageBackend over one bucket, used by several threads at once.  The *)
(* first operation verifies the bucket's region with a HeadBucket under a  *)
(* lock (_ensure_region_verified); a Backblaze redirect moves the client,  *)
(* a permanent refusal is kept and raised to every later caller, a passing *)
(* one is forgotten.  Operations are single requests, but delete_many() is *)
(* one per batch and delete_prefix() one per page and batch.               *)
(*                                                                         *)
(* AsyncS3StorageBackend.from_sync() copies a backend while its threads go *)
(* on: it reads one attribute after the other and takes no lock.           *)
(*                                                                         *)
(* A key is its place in the listing order.  What an object holds, the     *)
(* encryption and lock arguments and the progress callbacks are left out,  *)
(* and so is the region a request is signed for: its endpoint decides.     *)
(***************************************************************************)
EXTENDS Naturals, FiniteSets, FiniteSetsExt

CONSTANTS
  Threads,
  Walkers,   \* bound: the threads that call delete_prefix() and delete_many()
  Programs,  \* bound: the sets of operations that a program uses together
  Regions,   \* the regions of the service (_B2_REGIONS)
  LastKey,   \* keys are 1..LastKey
  PageSize,  \* max_keys of list()
  BatchMax,  \* _DELETE_BATCH_MAX
  MaxFaults  \* bound: transient failures of the service

Keys == 1..LastKey
Nobody == {}
NoError == [kind |-> "none", region |-> {}]

VARIABLES
  bucket,    \* external: where it is, who may use it, what a wrong region answers
  config,    \* endpoint kind and region the backend was constructed with, and
             \* what the program uses
  region, endpoint, client,   \* _region, _endpoint_url, and where _client sends
  verified,  \* _region_verified
  refusal,   \* _preflight_error
  lock,      \* holder of _region_lock
  native,    \* where the native client of the async backend sends
  copy,      \* what from_sync() has read of the backend, and how far it is
  mixed,     \* history: the backend was copied while its source was corrected
  pc, op,    \* where each thread is, and in which operation
  result,    \* outcome of each thread's last operation
  walk,      \* locals of delete_prefix() and delete_many()
  objects,   \* the keys in the bucket
  urls,      \* history: regions named by the durable URLs handed out
  faults     \* history: transient failures so far

preflight == <<region, endpoint, client, verified, refusal, lock>>
made == <<config, native, copy, mixed>>
vars == <<bucket, preflight, made, pc, op, result, walk, objects, urls, faults>>

Walks == {"delete_many", "delete_prefix", "dry_run"}
Gated == {"put", "get", "exists", "delete", "presigned_url", "durable_url"} \cup Walks

NoCopy == [stage |-> "none", client |-> Nobody, region |-> Nobody, endpoint |-> Nobody,
           verified |-> FALSE, mixed |-> FALSE]

Stages == {"none", "client", "verified", "region", "endpoint"}

NoWalk == [token |-> 0, todo |-> {}, deleted |-> {}, errors |-> {}, steady |-> {}, listed |-> FALSE]

TypeOK ==
  /\ bucket \in [home : Regions \cup {Nobody}, allowed : BOOLEAN, elsewhere : [Regions -> {"301", "403", "404"}]]
  /\ config \in [b2 : BOOLEAN, region : Regions, uses : Programs]
  /\ {region, endpoint, client, native} \subseteq Regions
  /\ copy \in [stage : Stages, client : Regions \cup {Nobody}, region : Regions \cup {Nobody},
                endpoint : Regions \cup {Nobody}, verified : BOOLEAN, mixed : BOOLEAN]
  /\ verified \in BOOLEAN /\ mixed \in BOOLEAN
  /\ refusal \in [kind : {"none", "lives_in", "missing", "generic"}, region : Regions \cup {Nobody}]
  /\ lock \in Threads \cup {Nobody}
  /\ pc \in [Threads -> {"idle", "peek", "check", "wait", "head", "move", "point", "swap", "vouch",
                       "seal", "go"}]
  /\ op \in [Threads -> Gated \cup {"none", "aget"}]
  /\ result \in [Threads -> {"none", "ok", "no", "error", "preflight", "redirect", "partial"}]
  /\ walk \in [Threads -> [token : 0..LastKey, todo : SUBSET Keys, deleted : SUBSET Keys,
                           errors : SUBSET Keys, steady : SUBSET Keys, listed : BOOLEAN]]
  /\ objects \subseteq Keys
  /\ urls \subseteq Regions
  /\ faults \in 0..MaxFaults

Init ==
  /\ bucket \in [home : Regions \cup {Nobody}, allowed : BOOLEAN, elsewhere : [Regions -> {"301", "403", "404"}]]
  /\ \A r \in Regions : r = bucket.home => bucket.elsewhere[r] = "301"   \* not asked
  /\ config \in [b2 : BOOLEAN, region : Regions, uses : Programs]
  /\ region = config.region /\ endpoint = region /\ client = region /\ native = region
  /\ copy = NoCopy
  /\ mixed = FALSE
  /\ verified = FALSE
  /\ refusal = NoError
  /\ lock = Nobody
  /\ pc = [t \in Threads |-> "idle"]
  /\ op = [t \in Threads |-> "none"]
  /\ result = [t \in Threads |-> "none"]
  /\ walk = [t \in Threads |-> NoWalk]
  /\ objects = IF bucket.home = Nobody THEN {} ELSE Keys
  /\ urls = {}
  /\ faults = 0

Goes(t, where) == pc' = [pc EXCEPT ![t] = where]
Ends(t, how) == Goes(t, "idle") /\ result' = [result EXCEPT ![t] = how]

(* delete_prefix() turns a failed list() into a partial result. *)
InList(t) == op[t] \in {"delete_prefix", "dry_run"} /\ walk[t].todo = {}
Fails(t, how) == Ends(t, IF InList(t) THEN "partial" ELSE how)

Fault == faults < MaxFaults /\ faults' = faults + 1

-----------------------------------------------------------------------------
(* An operation begins.  The native aget() and astream() of the async      *)
(* backend do not verify the region.                                       *)
Call(t) ==
  /\ pc[t] = "idle"
  /\ \E o \in (Gated \cup {"aget"}) \cap config.uses :
       /\ o \in Walks => t \in Walkers
       /\ op' = [op EXCEPT ![t] = o]
       /\ Goes(t, IF o \in Gated THEN "peek" ELSE "go")
       /\ walk' = [walk EXCEPT ![t] =
            IF o \in Walks
            THEN [NoWalk EXCEPT !.steady = objects,
                                !.todo = IF o = "delete_many" THEN Keys ELSE {}]
            ELSE NoWalk]
  /\ result' = [result EXCEPT ![t] = "none"]
  /\ UNCHANGED <<bucket, made, preflight, objects, urls, faults>>

Check_Verified(t) ==
  /\ pc[t] = "check"
  /\ Goes(t, "go")
  /\ UNCHANGED <<bucket, made, preflight, op, result, walk, objects, urls, faults>>

(* The fast path reads _region_verified, then _preflight_error, unlocked. *)
Peek(t) ==
  /\ pc[t] = "peek"
  /\ Goes(t, IF verified THEN "check" ELSE "wait")
  /\ UNCHANGED <<bucket, made, preflight, op, result, walk, objects, urls, faults>>

Check(t) ==
  /\ pc[t] = "check"
  /\ IF refusal # NoError THEN Fails(t, "preflight") ELSE Goes(t, "go") /\ UNCHANGED result
  /\ UNCHANGED <<bucket, made, preflight, op, walk, objects, urls, faults>>

(* The second look, under the lock. *)
Acquire(t) ==
  /\ pc[t] = "wait"
  /\ lock = Nobody
  /\ IF verified
     THEN /\ IF refusal # NoError THEN Fails(t, "preflight") ELSE Goes(t, "go") /\ UNCHANGED result
          /\ UNCHANGED lock
     ELSE lock' = t /\ Goes(t, "head") /\ UNCHANGED result
  /\ UNCHANGED <<bucket, made, region, endpoint, client, verified, refusal, op, walk, objects,
                 urls, faults>>

(* External: what the service says of a HeadBucket sent to region r: a     *)
(* region the bucket is not in redirects, hides it or does not know it.    *)
Answer(r) ==
  CASE bucket.home = r -> IF bucket.allowed THEN "200" ELSE "403"
    [] bucket.home = Nobody /\ bucket.elsewhere[r] = "301" -> "404"
    [] OTHER -> bucket.elsewhere[r]

(* _build_b2_region_probe_error(): every other region is asked, each once  *)
(* and briefly, so any of them may stay silent.                            *)
Probed(r, blips) ==
  LET others == Regions \ {r}
      said(q) == IF q \in blips THEN "silent" ELSE Answer(q)
      match == {q \in others : said(q) = "200"}
  IN  IF Cardinality(match) = 1
      THEN [kind |-> "lives_in", region |-> CHOOSE q \in match : TRUE]
      ELSE IF others # {} /\ \A q \in others : said(q) = "404"
           THEN [kind |-> "missing", region |-> {}]
           ELSE [kind |-> "generic", region |-> {}]

Verified ==
  /\ verified' = TRUE
  /\ lock' = Nobody

(* is_sticky_preflight_error(): a redirect and a busy service are not. *)
Sticky(answer) == answer \in {"403", "404"}

(* HeadBucket under the lock, and what becomes of its answer.  A redirect  *)
(* to the region the backend thinks it is in moves nothing.                *)
HeadBucket(t) ==
  LET moves == config.b2 /\ bucket.home # region
  IN
  /\ pc[t] = "head"
  /\ \E answer \in {Answer(client), "503", "unreachable"} :
       /\ IF answer \in {"503", "unreachable"} THEN Fault ELSE UNCHANGED faults
       /\ \/ /\ answer = "200"
             /\ Verified
             /\ Goes(t, "go")
             /\ UNCHANGED <<refusal, result>>
          \/ /\ answer = "301"
             /\ moves
             /\ Goes(t, "move")
             /\ UNCHANGED <<verified, refusal, lock, result>>
          \/ /\ answer = "unreachable"   \* not a ClientError
             /\ lock' = Nobody
             /\ Fails(t, "error")
             /\ UNCHANGED <<verified, refusal>>
          \/ /\ answer \in {"403", "404", "503"} \cup (IF moves THEN {} ELSE {"301"})
             /\ IF Sticky(answer)
                THEN /\ \E blips \in SUBSET Regions :
                          refusal' = IF config.b2 /\ answer = "403" THEN Probed(client, blips)
                                     ELSE [kind |-> "generic", region |-> {}]
                     /\ Goes(t, "seal")
                     /\ UNCHANGED <<lock, result>>
                ELSE /\ lock' = Nobody
                     /\ Fails(t, "preflight")
                     /\ UNCHANGED refusal
             /\ UNCHANGED verified
  /\ UNCHANGED <<bucket, made, region, endpoint, client, op, walk, objects, urls>>

(* _reconfigure_for_region(): _region, _endpoint_url and the client change *)
(* one after the other; a copy under way may have read some of them.       *)
Reconfigure(t) ==
  /\ \/ pc[t] = "move"  /\ region' = bucket.home   /\ Goes(t, "point") /\ UNCHANGED <<endpoint, client>>
     \/ pc[t] = "point" /\ endpoint' = bucket.home /\ Goes(t, "swap")  /\ UNCHANGED <<region, client>>
     \/ pc[t] = "swap"  /\ client' = bucket.home   /\ Goes(t, "vouch") /\ UNCHANGED <<region, endpoint>>
  /\ copy' = [copy EXCEPT !.mixed = copy.stage # "none"]
  /\ UNCHANGED <<bucket, config, native, mixed, verified, refusal, lock, op, result, walk, objects,
                 urls, faults>>

(* Only then is it used. *)
Vouch(t) ==
  /\ pc[t] = "vouch"
  /\ Verified
  /\ Goes(t, "go")
  /\ UNCHANGED <<bucket, made, region, endpoint, client, refusal, op, result, walk, objects, urls,
                 faults>>

(* The refusal is in place before _region_verified lets others read it. *)
Seal(t) ==
  /\ pc[t] = "seal"
  /\ Verified
  /\ Fails(t, "preflight")
  /\ UNCHANGED <<bucket, made, region, endpoint, client, refusal, op, walk, objects, urls, faults>>

-----------------------------------------------------------------------------
(* The operations, past the preflight. *)

(* Where the request of thread t is sent. *)
Target(t) == IF op[t] = "aget" THEN native ELSE client

Reaches(t) == Target(t) = bucket.home /\ bucket.allowed

(* A key another operation puts or removes is no longer steady. *)
Unsteady(k) == [t \in Threads |-> [walk[t] EXCEPT !.steady = @ \ {k}]]

(* The service answers the request of an operation on key k. *)
Serve(t, k) ==
  \/ /\ op[t] = "put"
     /\ objects' = objects \cup {k}
     /\ walk' = Unsteady(k)
     /\ Ends(t, "ok")
     /\ UNCHANGED urls
  \/ /\ op[t] = "delete"
     /\ objects' = objects \ {k}
     /\ walk' = Unsteady(k)
     /\ Ends(t, "ok")
     /\ UNCHANGED urls
  \/ /\ op[t] \in {"get", "aget", "exists"}
     /\ Ends(t, IF k \in objects THEN "ok" ELSE IF op[t] = "exists" THEN "no" ELSE "error")
     /\ UNCHANGED <<objects, walk, urls>>

Request(t) ==
  /\ pc[t] = "go"
  /\ op[t] \in {"put", "delete", "get", "aget", "exists"}
  /\ Reaches(t)
  /\ \E k \in Keys : Serve(t, k)
  /\ UNCHANGED <<bucket, made, preflight, op, faults>>

(* A request is refused, lost, or answered with a redirect. *)
RequestFails(t) ==
  /\ pc[t] = "go"
  /\ op[t] \notin {"presigned_url", "durable_url"} \cup Walks
  /\ \/ ~Reaches(t) /\ Ends(t, IF Target(t) # bucket.home THEN "redirect" ELSE "error") /\ UNCHANGED faults
     \/ Fault /\ Ends(t, "error")
  /\ UNCHANGED <<bucket, made, preflight, op, walk, objects, urls>>

(* A URL is made of the client's endpoint: no request is sent. *)
MakeUrl(t) ==
  /\ pc[t] = "go"
  /\ op[t] \in {"presigned_url", "durable_url"}
  /\ urls' = IF op[t] = "durable_url" THEN urls \cup {client} ELSE urls
  /\ Ends(t, IF client = bucket.home THEN "ok" ELSE "redirect")
  /\ UNCHANGED <<bucket, made, preflight, op, walk, objects, faults>>

KeyFromUrl_SameHost(named) == named = client

(* key_from_url() of a durable URL that names a region: any Backblaze host *)
(* with the bucket's name is the bucket's.                                 *)
KeyFromUrl(named) == named = client \/ config.b2

-----------------------------------------------------------------------------
(* delete_prefix() and delete_many() *)

FirstKeys(S, n) == {k \in S : Cardinality({j \in S : j < k}) < n}

(* list(): a page of the keys after the token. *)
ListPage(t) ==
  LET after == {k \in objects : k > walk[t].token}
      page == FirstKeys(after, PageSize)
      more == page # after
  IN  /\ pc[t] = "go"
      /\ InList(t)
      /\ Reaches(t)
      /\ walk' = [walk EXCEPT
           ![t].token = IF more THEN Max(page) ELSE @,
           ![t].listed = ~more,
           ![t].todo = IF op[t] = "dry_run" THEN {} ELSE page,
           ![t].deleted = IF op[t] = "dry_run" THEN @ \cup page ELSE @]
      /\ IF more \/ (op[t] = "delete_prefix" /\ page # {})
         THEN Goes(t, "peek") /\ UNCHANGED result
         ELSE Ends(t, "ok")
      /\ UNCHANGED <<bucket, made, preflight, op, objects, urls, faults>>

ListFails(t) ==
  /\ pc[t] = "go"
  /\ InList(t)
  /\ Fault \/ (~Reaches(t) /\ UNCHANGED faults)
  /\ Ends(t, IF Target(t) # bucket.home THEN "redirect" ELSE "partial")
  /\ UNCHANGED <<bucket, made, preflight, op, walk, objects, urls>>

BatchErrors_Lost(batch, refused) == IF refused = batch THEN {} ELSE refused

(* A failed request leaves an error for every key of its batch. *)
BatchErrors(batch, refused) == refused

(* delete_objects(): the service removes a part of the batch; when the     *)
(* request fails that part is empty or, the answer lost, unknown.          *)
DeleteBatch(t) ==
  LET batch == FirstKeys(walk[t].todo, BatchMax)
      rest == walk[t].todo \ batch
      over == rest = {} /\ (op[t] = "delete_many" \/ walk[t].listed)
  IN  /\ pc[t] = "go"
      /\ op[t] \in Walks
      /\ walk[t].todo # {}
      /\ \E gone, refused \in SUBSET batch :
           /\ gone \cup refused = batch
           /\ gone \cap refused # {} => refused = batch
           /\ IF refused = {} THEN UNCHANGED faults
              ELSE IF Reaches(t) THEN Fault
              ELSE refused = batch /\ gone = {} /\ UNCHANGED faults
           /\ Reaches(t) \/ gone = {}
           /\ objects' = objects \ gone
           /\ walk' = [s \in Threads |->
                IF s = t
                THEN [walk[t] EXCEPT !.todo = rest,
                                     !.deleted = @ \cup (batch \ refused),
                                     !.errors = @ \cup BatchErrors(batch, refused)]
                ELSE [walk[s] EXCEPT !.steady = @ \ gone]]
      /\ IF over THEN Ends(t, "ok")
         ELSE Goes(t, IF rest = {} THEN "peek" ELSE "go") /\ UNCHANGED result
      /\ UNCHANGED <<bucket, made, preflight, op, urls>>

-----------------------------------------------------------------------------
(* The program goes on with another backend, in which nobody is yet.       *)
Renewed ==
  /\ lock' = Nobody
  /\ copy' = NoCopy
  /\ pc' = [t \in Threads |-> "idle"]
  /\ op' = [t \in Threads |-> "none"]
  /\ result' = [t \in Threads |-> "none"]
  /\ walk' = [t \in Threads |-> NoWalk]
  /\ UNCHANGED <<bucket, config, objects, urls, faults>>

(* Another process: a backend constructed as the first one was. *)
Restart ==
  /\ region' = config.region /\ endpoint' = config.region /\ client' = config.region
  /\ native' = config.region
  /\ verified' = FALSE
  /\ refusal' = NoError
  /\ mixed' = FALSE
  /\ Renewed

(* from_sync() constructs a backend, and with it a client, for the         *)
(* endpoint it reads first.                                                *)
CopyClient ==
  /\ copy.stage = "none"
  /\ "from_sync" \in config.uses
  /\ copy' = [NoCopy EXCEPT !.stage = "client", !.client = endpoint,
                            !.mixed = \E t \in Threads : pc[t] \in {"point", "swap"}]
  /\ UNCHANGED <<bucket, config, native, mixed, preflight, pc, op, result, walk, objects, urls, faults>>

(* Then it copies the flag, the region and the endpoint over it. *)
CopyNext(after, f, value) ==
  /\ copy.stage = after
  /\ copy' = [copy EXCEPT !.stage = f, ![f] = value]
  /\ UNCHANGED <<bucket, config, native, mixed, preflight, pc, op, result, walk, objects, urls, faults>>

(* Last comes the refusal; the native client is built for the endpoint     *)
(* copied.  The program goes on with the copy, and what other threads have *)
(* under way in the source is like the work of another process.            *)
FromSync ==
  /\ copy.stage = "endpoint"
  /\ region' = copy.region /\ endpoint' = copy.endpoint /\ client' = copy.client
  /\ native' = copy.endpoint
  /\ verified' = copy.verified
  /\ refusal' = refusal
  /\ mixed' = (mixed \/ copy.mixed)
  /\ Renewed

Copying ==
  \/ CopyClient
  \/ CopyNext("client", "verified", verified)
  \/ CopyNext("verified", "region", region)
  \/ CopyNext("region", "endpoint", endpoint)
  \/ FromSync

Step(t) ==
  \/ Peek(t) \/ Check(t) \/ Acquire(t) \/ HeadBucket(t) \/ Reconfigure(t) \/ Vouch(t)
  \/ Seal(t)
  \/ Request(t) \/ RequestFails(t) \/ MakeUrl(t)
  \/ ListPage(t) \/ ListFails(t) \/ DeleteBatch(t)

Next ==
  \/ \E t \in Threads : Call(t) \/ Step(t)
  \/ Restart
  \/ Copying

Spec == Init /\ [][Next]_vars

-----------------------------------------------------------------------------
(* No operation passes the preflight in vain.  Nothing is sent to, or      *)
(* signed for, a region the bucket is not in: the client is moved before   *)
(* another thread gets through.  And once a refusal is kept nothing gets   *)
(* through: who reads _region_verified finds it.  Only the native reads of *)
(* the async backend skip the preflight; and a backend that from_sync()    *)
(* copied in the middle of a correction may go astray.                     *)
PreflightShields ==
  \A t \in Threads :
    /\ result[t] = "redirect" => IF op[t] = "aget" THEN native # bucket.home ELSE mixed
    /\ pc[t] = "go" /\ op[t] # "aget" => refusal = NoError /\ (client = bucket.home \/ mixed)

(* A refusal that is kept for good is true: the credentials do not open    *)
(* the bucket where the client points, and a hint about another region is  *)
(* right, whatever probe was lost.  (A bucket of the client's own region   *)
(* that refuses the credentials may be called missing.)                    *)
RefusalIsTrue ==
  /\ refusal # NoError => ~(bucket.allowed /\ bucket.home = client)
  /\ refusal.kind = "lives_in" => refusal.region = bucket.home
  /\ refusal.kind = "missing" => bucket.home \in {Nobody, client}

(* No operation is turned away without a refusal that is kept, a failure   *)
(* of the service, or a redirect that is not Backblaze's: an endpoint of   *)
(* the wrong region is corrected, unless it was copied meanwhile.          *)
TurnedAwayForCause ==
  \A t \in Threads : result[t] = "preflight" =>
    refusal # NoError \/ faults > 0 \/ mixed \/ (~config.b2 /\ Answer(client) = "301")

(* The preflight lets through what may pass, and refuses what may not. *)
PreflightIsRight == PreflightShields /\ RefusalIsTrue /\ TurnedAwayForCause

(* A walk that was not cut short accounts for every key that was there all *)
(* along: deleted or reported as an error, across pages and batches.       *)
WalkAccounts ==
  \A t \in Threads : op[t] \in Walks /\ pc[t] = "idle" /\ result[t] = "ok" =>
    walk[t].steady \subseteq walk[t].deleted \cup walk[t].errors

(* A durable URL of the bucket is recognised by every later backend,       *)
(* before and after the region is corrected.                               *)
UrlsStayOurs == \A named \in urls : KeyFromUrl(named)

=============================================================================
