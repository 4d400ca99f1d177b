---------------------------- MODULE CustodyProofs ----------------------------
(***************************************************************************)
(* Proofs about Custody, for any requests, jobs and number of edits: what  *)
(* a manifest that verifies vouches for, what it still verifies after, and *)
(* that the order of an ingest is no part of its hash; and about Rebuild,  *)
(* for any plans and number of steps: what is built again of a manifest,   *)
(* or of a template, asks for what was asked for.                          *)
(***************************************************************************)
EXTENDS MCPipeline, Integers, SequenceTheorems, WellFoundedInduction, TLAPS

(* The job ids of providers are not the "none" of an ingest. *)
JobsAreNamed == "none" \notin Jobs

(* What stands where a digest belongs, and the rest of what a manifest is    *)
(* made of.                                                                  *)
Shas == {M!NoSha, M!Malformed} \cup {M!Digest(thing, o) : thing \in Makes \cup {"edited"},
  o \in M!Objects}

Assets ==
  [id : Seq(Nat), url : [at : M!Places, of : M!Objects, signed : BOOLEAN], sha : Shas, meta : M!Metas]

Attempts == [what : {"primary", "edited"}, ops : {0, 1}]

RunRecords ==
  [id : Nat, ops : {0, 1}, made : Makes \cup {"edited"}, job : Jobs \cup {"none", "edited"},
   shape : {"before", "today"}, attempts : Seq(Attempts), outputs : Seq(Assets)]

(* A manifest has these fields, whatever is in them. *)
IsManifest(m) ==
  /\ m = [schema |-> m.schema, run |-> m.run, hash |-> m.hash, sig |-> m.sig, scheme |-> m.scheme,
          uri |-> m.uri, failures |-> m.failures]
  /\ m.run \in RunRecords

(* The manifest in memory is hashed as it stands, and can be read back. *)
MemoryKept ==
  mem # M!Nothing =>
    /\ IsManifest(mem) /\ M!HashVerifies(mem)
    /\ mem.run.made \in Makes /\ mem.run.shape = "today"
    /\ mem.run.made \in Secret => mem.scheme
    /\ mem.schema \in {"1.3", "1.5"}

(* No edit touches the hash or the signature of the document. *)
HashIsTheOrigins ==
  doc # M!Nothing =>
    /\ IsManifest(doc) /\ origin.run \in RunRecords
    /\ doc.hash = M!HashPayload(origin.schema, origin.run)
    /\ origin.sealed => doc.sig = M!HashPayload(origin.schema, origin.run)

(* The names that edits are known by. *)
Hows ==
  {"ops", "ids", "made", "job", "nulls", "uri", "failures", "scheme", "lost", "schema", "attempt",
    "assetId", "presigned",
   "mirrored", "sha", "meta"}

(* Only operational edits were made. *)
Untouched == \A k \in DOMAIN edits : edits[k] \in M!Operational

(* What a reader hashes of a run. *)
ReadPayload(s, r) == M!HashPayload(s, M!Parsed(r))

(* Operational edits leave what a reader hashes as it was written. *)
PayloadIsTheOrigins ==
  /\ edits \in Seq(Hows \cup {"bytes"})
  /\ doc # M!Nothing /\ Untouched =>
       /\ M!Version(doc) = origin.schema
       /\ ReadPayload(origin.schema, doc.run) = ReadPayload(origin.schema, origin.run)
       /\ doc.run.made \in Secret => doc.scheme

(* What an ingest made. *)
Ingested(m) ==
  m # M!Nothing /\ m.run.job = "none" =>
    /\ m.schema = "1.5" /\ m.run \in RunRecords /\ m.run.shape = "today" /\ M!HashVerifies(m)
    /\ m.run.attempts = <<>>
    /\ {m.run.outputs[k].url.of : k \in DOMAIN m.run.outputs} = 1..Len(m.run.outputs)
    /\ Len(m.run.outputs) > 0
    /\ \A k \in DOMAIN m.run.outputs : m.run.outputs[k].meta = "none"
    /\ \/ \A k \in DOMAIN m.run.outputs : m.run.outputs[k].sha = M!NoSha
       \/ \A k \in DOMAIN m.run.outputs : m.run.outputs[k].sha = M!Digest(m.run.made, k)

(* The inductive invariant. *)
CustodyInv ==
  /\ MemoryKept /\ HashIsTheOrigins /\ PayloadIsTheOrigins
  /\ Ingested(fresh) /\ Ingested(prior)
  /\ prior # M!Nothing => fresh # M!Nothing

-----------------------------------------------------------------------------
(* Records with one field changed. *)
WithRun(d, r) == [d EXCEPT !.run = r]
WithUri(d, v) == [d EXCEPT !.uri = v]
WithFailures(d, v) == [d EXCEPT !.failures = v]
WithScheme(d, v) == [d EXCEPT !.scheme = v]
WithSchema(d, v) == [d EXCEPT !.schema = v]
WithHash(d, v) == [d EXCEPT !.hash = v]
WithSig(d, v) == [d EXCEPT !.sig = v]

(* A manifest with one field changed is a manifest with the other fields as  *)
(* they were.                                                                *)
LEMMA ManifestEdits ==
  ASSUME NEW d, IsManifest(d), NEW v
  PROVE  /\ LET e == WithRun(d, v)
            IN  (v \in RunRecords => IsManifest(e)) /\ e.run = v /\ e.schema = d.schema
                /\ e.hash = d.hash
                /\ e.sig = d.sig /\ e.scheme = d.scheme
         /\ LET e == WithUri(d, v)
            IN  IsManifest(e) /\ e.run = d.run /\ e.schema = d.schema /\ e.hash = d.hash
                /\ e.sig = d.sig
                /\ e.scheme = d.scheme
         /\ LET e == WithFailures(d, v)
            IN  IsManifest(e) /\ e.run = d.run /\ e.schema = d.schema /\ e.hash = d.hash
                /\ e.sig = d.sig
                /\ e.scheme = d.scheme
         /\ LET e == WithScheme(d, v)
            IN  IsManifest(e) /\ e.run = d.run /\ e.schema = d.schema /\ e.hash = d.hash
                /\ e.sig = d.sig
         /\ LET e == WithSchema(d, v)
            IN  IsManifest(e) /\ e.run = d.run /\ e.hash = d.hash /\ e.sig = d.sig
                /\ e.scheme = d.scheme
                /\ e.schema = v
         /\ LET e == WithHash(d, v)
            IN  IsManifest(e) /\ e.run = d.run /\ e.schema = d.schema /\ e.hash = v /\ e.sig = d.sig
                /\ e.scheme = d.scheme
         /\ LET e == WithSig(d, v)
            IN  IsManifest(e) /\ e.run = d.run /\ e.schema = d.schema /\ e.hash = d.hash /\ e.sig = v
                /\ e.scheme = d.scheme
<1>0. WithRun(d, v) = [schema |-> d.schema, run |-> v, hash |-> d.hash, sig |-> d.sig,
                       scheme |-> d.scheme, uri |-> d.uri, failures |-> d.failures]
  BY DEF IsManifest, WithRun
<1>1. WithUri(d, v) = [schema |-> d.schema, run |-> d.run, hash |-> d.hash, sig |-> d.sig,
                       scheme |-> d.scheme, uri |-> v, failures |-> d.failures]
  BY DEF IsManifest, WithUri
<1>2. WithFailures(d, v) = [schema |-> d.schema, run |-> d.run, hash |-> d.hash, sig |-> d.sig,
                            scheme |-> d.scheme, uri |-> d.uri, failures |-> v]
  BY DEF IsManifest, WithFailures
<1>3. WithScheme(d, v) = [schema |-> d.schema, run |-> d.run, hash |-> d.hash, sig |-> d.sig,
                          scheme |-> v, uri |-> d.uri, failures |-> d.failures]
  BY DEF IsManifest, WithScheme
<1>4. WithSchema(d, v) = [schema |-> v, run |-> d.run, hash |-> d.hash, sig |-> d.sig,
                          scheme |-> d.scheme, uri |-> d.uri, failures |-> d.failures]
  BY DEF IsManifest, WithSchema
<1>5. WithHash(d, v) = [schema |-> d.schema, run |-> d.run, hash |-> v, sig |-> d.sig,
                        scheme |-> d.scheme, uri |-> d.uri, failures |-> d.failures]
  BY DEF IsManifest, WithHash
<1>6. WithSig(d, v) = [schema |-> d.schema, run |-> d.run, hash |-> d.hash, sig |-> v,
                       scheme |-> d.scheme, uri |-> d.uri, failures |-> d.failures]
  BY DEF IsManifest, WithSig
<1> QED
  BY <1>0, <1>1, <1>2, <1>3, <1>4, <1>5, <1>6 DEF IsManifest

RunWith(ops, ident, thing, ticket, shape, attempts, outputs) ==
  [id |-> ident, ops |-> ops, made |-> thing, job |-> ticket, shape |-> shape,
   attempts |-> attempts, outputs |-> outputs]

(* So is a run. *)
LEMMA RunFields ==
  ASSUME NEW r \in RunRecords
  PROVE  /\ r.ops \in {0, 1} /\ r.id \in Nat /\ r.made \in Makes \cup {"edited"}
         /\ r.job \in Jobs \cup {"none", "edited"} /\ r.attempts \in Seq(Attempts)
              /\ r.outputs \in Seq(Assets) /\ r.shape \in {"before", "today"}
         /\ \A v : [r EXCEPT !.ops = v] = RunWith(v, r.id, r.made, r.job, r.shape, r.attempts, r.outputs)
         /\ \A v : [r EXCEPT !.id = v] = RunWith(r.ops, v, r.made, r.job, r.shape, r.attempts, r.outputs)
         /\ \A v : [r EXCEPT !.made = v] = RunWith(r.ops, r.id, v, r.job, r.shape, r.attempts, r.outputs)
         /\ \A v : [r EXCEPT !.job = v] = RunWith(r.ops, r.id, r.made, v, r.shape, r.attempts, r.outputs)
         /\ \A v : [r EXCEPT !.shape = v] = RunWith(r.ops, r.id, r.made, r.job, v, r.attempts, r.outputs)
         /\ \A v : [r EXCEPT !.attempts = v] = RunWith(r.ops, r.id, r.made, r.job, r.shape, v, r.outputs)
         /\ \A v : [r EXCEPT !.outputs = v] = RunWith(r.ops, r.id, r.made, r.job, r.shape, r.attempts, v)
<1>1. \A v : [r EXCEPT !.ops = v] = RunWith(v, r.id, r.made, r.job, r.shape, r.attempts, r.outputs)
  BY DEF RunRecords, RunWith
<1>2. \A v : [r EXCEPT !.id = v] = RunWith(r.ops, v, r.made, r.job, r.shape, r.attempts, r.outputs)
  BY DEF RunRecords, RunWith
<1>3. \A v : [r EXCEPT !.made = v] = RunWith(r.ops, r.id, v, r.job, r.shape, r.attempts, r.outputs)
  BY DEF RunRecords, RunWith
<1>4. \A v : [r EXCEPT !.job = v] = RunWith(r.ops, r.id, r.made, v, r.shape, r.attempts, r.outputs)
  BY DEF RunRecords, RunWith
<1>5. \A v : [r EXCEPT !.shape = v] = RunWith(r.ops, r.id, r.made, r.job, v, r.attempts, r.outputs)
  BY DEF RunRecords, RunWith
<1>6. \A v : [r EXCEPT !.attempts = v] = RunWith(r.ops, r.id, r.made, r.job, r.shape, v, r.outputs)
  BY DEF RunRecords, RunWith
<1>7. \A v : [r EXCEPT !.outputs = v] = RunWith(r.ops, r.id, r.made, r.job, r.shape, r.attempts, v)
  BY DEF RunRecords, RunWith
<1> QED
  BY <1>1, <1>2, <1>3, <1>4, <1>5, <1>6, <1>7 DEF RunRecords

(* And an asset, its address included. *)
LEMMA AssetEdits ==
  ASSUME NEW a \in Assets
  PROVE  /\ \A v \in Seq(Nat) : LET e == [a EXCEPT !.id = v]
            IN  e \in Assets /\ e.sha = a.sha /\ e.meta = a.meta /\ e.url = a.url
         /\ LET e == [a EXCEPT !.url.signed = ~@]
            IN  e \in Assets /\ e.sha = a.sha /\ e.meta = a.meta /\ e.url.at = a.url.at
                /\ e.url.of = a.url.of
         /\ LET e == [a EXCEPT !.url.at = "mirror"]
            IN  e \in Assets /\ e.sha = a.sha /\ e.meta = a.meta
         /\ \A v \in {M!NoSha, M!Malformed, M!Digest("edited", 1)} : [a EXCEPT !.sha = v] \in Assets
         /\ \A v \in M!Metas : LET e == [a EXCEPT !.meta = v]
            IN  e \in Assets /\ e.sha = a.sha /\ e.id = a.id /\ e.url = a.url /\ e.meta = v
<1>1. \A v \in {M!NoSha, M!Malformed, M!Digest("edited", 1)} : [a EXCEPT !.sha = v] \in Assets
  BY DEF Assets, Shas, M!Objects
<1>2. \A v \in M!Metas : LET e == [a EXCEPT !.meta = v]
        IN  e \in Assets /\ e.sha = a.sha /\ e.id = a.id /\ e.url = a.url /\ e.meta = v
  BY DEF Assets
<1>3. \A v \in Seq(Nat) : LET e == [a EXCEPT !.id = v]
        IN  e \in Assets /\ e.sha = a.sha /\ e.meta = a.meta /\ e.url = a.url
  <2>1. \A v : [a EXCEPT !.id = v] = [id |-> v, url |-> a.url, sha |-> a.sha, meta |-> a.meta]
    BY DEF Assets
  <2>2. \A v \in Seq(Nat) : [id |-> v, url |-> a.url, sha |-> a.sha, meta |-> a.meta] \in Assets
    BY DEF Assets
  <2> QED
    BY <2>1, <2>2
<1>4. LET e == [a EXCEPT !.url.signed = ~@]
      IN  e \in Assets /\ e.sha = a.sha /\ e.meta = a.meta /\ e.url.at = a.url.at /\ e.url.of = a.url.of
  <2>1. PICK b \in BOOLEAN : b = ~a.url.signed
    OBVIOUS
  <2>2. [a EXCEPT !.url.signed = ~@]
          = [id |-> a.id, url |-> [at |-> a.url.at, of |-> a.url.of, signed |-> b], sha |-> a.sha,
            meta |-> a.meta]
    BY <2>1 DEF Assets
  <2> HIDE DEF Assets
  <2>3. /\ a.url.at \in M!Places /\ a.url.of \in M!Objects /\ a.id \in Seq(Nat) /\ a.sha \in Shas
        /\ a.meta \in M!Metas
    BY DEF Assets
  <2>4. [id |-> a.id, url |-> [at |-> a.url.at, of |-> a.url.of, signed |-> b], sha |-> a.sha,
        meta |-> a.meta]
          \in Assets
    BY <2>1, <2>3 DEF Assets
  <2> QED
    BY <2>2, <2>4
<1>5. LET e == [a EXCEPT !.url.at = "mirror"]
      IN  e \in Assets /\ e.sha = a.sha /\ e.meta = a.meta
  <2>1. [a EXCEPT !.url.at = "mirror"]
          = [id |-> a.id, url |-> [at |-> "mirror", of |-> a.url.of, signed |-> a.url.signed],
            sha |-> a.sha,
             meta |-> a.meta]
    BY DEF Assets
  <2> QED
    BY <2>1 DEF Assets, M!Places
<1> QED
  BY <1>1, <1>2, <1>3, <1>4, <1>5

-----------------------------------------------------------------------------
(* What a payload tells of a run, and what it depends on. *)
LEMMA AssetTells ==
  ASSUME NEW s, NEW a \in Assets, NEW b \in Assets, M!HashedAsset(s, a) = M!HashedAsset(s, b)
  PROVE  a.sha = b.sha /\ M!Normal(a.meta) = M!Normal(b.meta)
<1>0. \A c \in Assets : \A v : [c EXCEPT !.meta = v] = [id |-> c.id, url |-> c.url, sha |-> c.sha,
      meta |-> v]
  <2> SUFFICES ASSUME NEW c \in Assets, NEW v
               PROVE  [c EXCEPT !.meta = v] = [id |-> c.id, url |-> c.url, sha |-> c.sha, meta |-> v]
    OBVIOUS
  <2>1. DOMAIN c = {"id", "url", "sha", "meta"} /\ c = [x \in DOMAIN c |-> c[x]]
    BY DEF Assets
  <2> QED
    BY <2>1
<1>1. CASE M!Policy(s).randomIds
  <2> DEFINE n(c) == [id |-> c.id, url |-> c.url, sha |-> c.sha, meta |-> M!Normal(c.meta)]
  <2>1. ASSUME NEW c \in Assets PROVE [c EXCEPT !.meta = M!Normal(@)] = n(c)
    BY <1>0
  <2>2. n(a) = n(b)
    <3> HIDE DEF n
    <3>1. \A c \in Assets : M!HashedAsset(s, c) = n(c)
      BY <1>1, <2>1 DEF M!HashedAsset
    <3> QED
      BY <3>1
  <2> QED
    BY <2>2
<1>2. CASE ~M!Policy(s).randomIds
  BY <1>2 DEF M!HashedAsset, M!StripAsset
<1> QED
  BY <1>1, <1>2

(* What a payload tells of its run. *)
Tells(s, z, r, w) ==
  /\ s = z /\ r.made = w.made /\ r.job = w.job
  /\ r.outputs # <<>> => r.shape = w.shape
  /\ DOMAIN r.attempts = DOMAIN w.attempts
  /\ \A k \in DOMAIN r.attempts : r.attempts[k].what = w.attempts[k].what
  /\ DOMAIN r.outputs = DOMAIN w.outputs
  /\ \A k \in DOMAIN r.outputs :
       r.outputs[k].sha = w.outputs[k].sha
         /\ M!Normal(r.outputs[k].meta) = M!Normal(w.outputs[k].meta)

(* Equal payloads are of equal content, whatever the versions: the hash is   *)
(* injective in what SameContent compares.                                   *)
LEMMA PayloadTells ==
  \A s, z : \A r, w \in RunRecords : M!HashPayload(s, r) = M!HashPayload(z, w) => Tells(s, z, r, w)
<1> SUFFICES ASSUME NEW s, NEW z, NEW r \in RunRecords, NEW w \in RunRecords,
                    M!HashPayload(s, r) = M!HashPayload(z, w)
             PROVE  Tells(s, z, r, w)
  OBVIOUS
<1>1. /\ s = z /\ r.made = w.made /\ r.job = w.job
      /\ (IF r.outputs = <<>> THEN "none" ELSE r.shape) = (IF w.outputs = <<>> THEN "none" ELSE w.shape)
      /\ [k \in DOMAIN r.attempts |-> r.attempts[k].what] =
           [k \in DOMAIN w.attempts |-> w.attempts[k].what]
      /\ [k \in DOMAIN r.outputs |-> M!HashedAsset(s, r.outputs[k])]
          = [k \in DOMAIN w.outputs |-> M!HashedAsset(z, w.outputs[k])]
  BY DEF M!HashPayload
<1>2. DOMAIN r.attempts = DOMAIN w.attempts /\ DOMAIN r.outputs = DOMAIN w.outputs
  BY <1>1
<1>3. \A k \in DOMAIN r.attempts : r.attempts[k].what = w.attempts[k].what
  BY <1>1, <1>2
<1>4. \A k \in DOMAIN r.outputs : M!HashedAsset(s, r.outputs[k]) = M!HashedAsset(s, w.outputs[k])
  BY <1>1, <1>2
<1>5. \A k \in DOMAIN r.outputs : r.outputs[k] \in Assets /\ w.outputs[k] \in Assets
  BY <1>2 DEF RunRecords
<1>6. r.outputs # <<>> => r.shape = w.shape
  <2>1. r.shape # "none" /\ w.shape # "none"
    BY RunFields
  <2> QED
    BY <1>1, <2>1
<1> QED
  BY <1>1, <1>2, <1>3, <1>4, <1>5, <1>6, AssetTells DEF Tells

(* A manifest with another run. *)
LEMMA WithRunIs ==
  \A d : \A r \in RunRecords : IsManifest(d) =>
    /\ IsManifest(WithRun(d, r)) /\ WithRun(d, r).run = r /\ WithRun(d, r).schema = d.schema
    /\ WithRun(d, r).hash = d.hash /\ WithRun(d, r).sig = d.sig /\ WithRun(d, r).scheme = d.scheme
<1> SUFFICES ASSUME NEW d, NEW r \in RunRecords, IsManifest(d)
             PROVE  /\ IsManifest(WithRun(d, r)) /\ WithRun(d, r).run = r
                    /\ WithRun(d, r).schema = d.schema /\ WithRun(d, r).hash = d.hash
                    /\ WithRun(d, r).sig = d.sig /\ WithRun(d, r).scheme = d.scheme
  OBVIOUS
<1>1. WithRun(d, r) = [schema |-> d.schema, run |-> r, hash |-> d.hash, sig |-> d.sig,
                       scheme |-> d.scheme, uri |-> d.uri, failures |-> d.failures]
  BY DEF IsManifest, WithRun
<1> QED
  BY <1>1 DEF IsManifest

(* What is parsed is the run with the fields of today. *)
LEMMA ParsedIs ==
  ASSUME NEW r \in RunRecords
  PROVE  LET p == M!Parsed(r)
         IN  /\ p \in RunRecords /\ p.id = r.id /\ p.ops = r.ops /\ p.made = r.made /\ p.job = r.job
             /\ p.attempts = r.attempts /\ p.outputs = r.outputs /\ p.shape = "today"
             /\ r.shape = "today" => p = r
<1>1. M!Parsed(r) = RunWith(r.ops, r.id, r.made, r.job, "today", r.attempts, r.outputs)
  BY RunFields DEF M!Parsed
<1>2. r = RunWith(r.ops, r.id, r.made, r.job, r.shape, r.attempts, r.outputs)
  BY DEF RunRecords, RunWith
<1>3. M!Parsed(r) \in RunRecords
  BY <1>1, RunFields DEF RunWith, RunRecords
<1> QED
  BY <1>1, <1>2, <1>3 DEF RunWith

(* What is read tells of the outputs. *)
LEMMA ReadTells ==
  ASSUME NEW s, NEW r \in RunRecords, NEW w \in RunRecords, ReadPayload(s, r) = ReadPayload(s, w)
  PROVE  /\ DOMAIN r.outputs = DOMAIN w.outputs
         /\ \A k \in DOMAIN r.outputs : r.outputs[k].sha = w.outputs[k].sha
<1> DEFINE p == M!Parsed(r)
           q == M!Parsed(w)
<1>1. p \in RunRecords /\ q \in RunRecords /\ p.outputs = r.outputs /\ q.outputs = w.outputs
  BY ParsedIs
<1>2. M!HashPayload(s, p) = M!HashPayload(s, q)
  BY DEF ReadPayload
<1> HIDE DEF p, q
<1>3. Tells(s, s, p, q)
  BY <1>1, <1>2, PayloadTells, Zenon
<1> QED
  BY <1>1, <1>3 DEF Tells

(* And what the version does not hash does not change the payload, nor does  *)
(* what the reader fills in.                                                 *)
LEMMA SamePayload ==
  ASSUME NEW s, NEW r \in RunRecords, NEW w \in RunRecords,
         r.made = w.made, r.job = w.job, M!Policy(s).randomIds => r.id = w.id,
         DOMAIN r.attempts = DOMAIN w.attempts,
         \A k \in DOMAIN r.attempts : r.attempts[k].what = w.attempts[k].what,
         DOMAIN r.outputs = DOMAIN w.outputs,
         \A k \in DOMAIN r.outputs : M!HashedAsset(s, r.outputs[k]) = M!HashedAsset(s, w.outputs[k])
  PROVE  ReadPayload(s, r) = ReadPayload(s, w)
<1> DEFINE p == M!Parsed(r)
           q == M!Parsed(w)
<1>1. /\ p.id = r.id /\ p.made = r.made /\ p.job = r.job /\ p.attempts = r.attempts
      /\ p.outputs = r.outputs /\ p.shape = "today"
  BY ParsedIs
<1>2. /\ q.id = w.id /\ q.made = w.made /\ q.job = w.job /\ q.attempts = w.attempts
      /\ q.outputs = w.outputs /\ q.shape = "today"
  BY ParsedIs
<1>3. r.outputs = <<>> <=> w.outputs = <<>>
  <2>1. r.outputs \in Seq(Assets) /\ w.outputs \in Seq(Assets)
    BY RunFields
  <2> QED
    BY <2>1
<1> HIDE DEF p, q
<1>4. M!HashPayload(s, p) = M!HashPayload(s, q)
  BY <1>1, <1>2, <1>3 DEF M!HashPayload
<1> QED
  BY <1>4 DEF ReadPayload, p, q

(* A migration gives a document a version and the fields of today, and       *)
(* changes nothing else.                                                     *)
LEMMA MigratedKeeps ==
  ASSUME NEW d, IsManifest(d)
  PROVE  /\ M!Migrated(d).schema = M!Version(d)
         /\ IsManifest(M!Migrated(d)) /\ M!Migrated(d).run = M!Parsed(d.run)
         /\ M!Migrated(d).hash = d.hash /\ M!Migrated(d).sig = d.sig /\ M!Migrated(d).scheme = d.scheme
         /\ M!Migrated(d).run.made = d.run.made /\ M!Migrated(d).run.outputs = d.run.outputs
<1> DEFINE p == M!Parsed(d.run)
           v == M!Version(d)
           e == WithSchema(d, v)
<1>1. p \in RunRecords /\ p.made = d.run.made /\ p.outputs = d.run.outputs
  BY ParsedIs DEF IsManifest
<1>2. M!Migrated(d) = [d EXCEPT !.schema = v, !.run = p]
  BY DEF M!Migrated
<1>3. M!Migrated(d) = WithRun(e, p)
  BY <1>2 DEF WithRun, WithSchema
<1> HIDE DEF p, v
<1>4. /\ IsManifest(e) /\ e.run = d.run /\ e.hash = d.hash /\ e.sig = d.sig /\ e.scheme = d.scheme
      /\ e.schema = v
  BY ManifestEdits
<1> HIDE DEF e
<1>5. /\ IsManifest(WithRun(e, p)) /\ WithRun(e, p).run = p /\ WithRun(e, p).schema = e.schema
      /\ WithRun(e, p).hash = e.hash /\ WithRun(e, p).sig = e.sig
      /\ WithRun(e, p).scheme = e.scheme
  BY <1>1, <1>4, WithRunIs, Zenon
<1> DEFINE f == WithRun(e, p)
<1>6. /\ IsManifest(f) /\ f.run = p /\ f.schema = v
      /\ f.hash = d.hash /\ f.sig = d.sig /\ f.scheme = d.scheme
  BY <1>4, <1>5
<1>7. M!Migrated(d) = f
  BY <1>3
<1> HIDE DEF f
<1> QED
  BY <1>1, <1>6, <1>7 DEF p, v

-----------------------------------------------------------------------------
(* An edit leaves the hash and the signature alone. *)

(* What an operational edit may be, of a document written at version s. *)
Harmless(how, s, d) ==
  \/ how \in {"ops", "uri", "failures", "nulls"}
  \/ how \in {"ids", "assetId", "presigned"} /\ ~M!Policy(s).randomIds
  \/ /\ how = "mirrored" /\ ~M!Policy(s).randomIds
     /\ M!Policy(s).markUnhashed => \A k \in DOMAIN d.run.outputs : M!ValidSha(d.run.outputs[k].sha)

(* An edit that leaves the hash as it is, and the payload too when it is     *)
(* harmless.                                                                 *)
EditIsFair(s, d, how, e) ==
  /\ IsManifest(e) /\ e.hash = d.hash /\ e.sig = d.sig /\ how \in Hows
  /\ Harmless(how, s, d) =>
       /\ e.schema = d.schema /\ e.scheme = d.scheme /\ e.run.made = d.run.made
       /\ ReadPayload(s, e.run) = ReadPayload(s, d.run)

(* These are never harmless, so only the hash has to be as it was. *)
LEMMA Harmful ==
  \A s, d : \A how \in {"made", "job", "lost", "scheme", "schema", "attempt", "sha", "meta"} :
    ~Harmless(how, s, d) /\ how \in Hows
BY DEF Harmless, Hows

(* An edit of the run is fair when a harmless one keeps the payload of the   *)
(* run.                                                                      *)
LEMMA RunIsFair ==
  ASSUME NEW s, NEW d, IsManifest(d), NEW r \in RunRecords, NEW how \in Hows,
         Harmless(how, s, d) => r.made = d.run.made /\ ReadPayload(s, r) = ReadPayload(s, d.run)
  PROVE  EditIsFair(s, d, how, WithRun(d, r))
<1>1. LET e == WithRun(d, r)
      IN  IsManifest(e) /\ e.run = r /\ e.schema = d.schema /\ e.hash = d.hash
          /\ e.sig = d.sig /\ e.scheme = d.scheme
  BY ManifestEdits
<1> QED
  BY <1>1 DEF EditIsFair

(* The edits of a run's own fields are fair. *)
LEMMA RunEditsFair ==
  ASSUME NEW s, NEW d, IsManifest(d)
  PROVE  /\ EditIsFair(s, d, "ops", [d EXCEPT !.run.ops = 1 - @])
         /\ EditIsFair(s, d, "ids", [d EXCEPT !.run.id = 9])
         /\ EditIsFair(s, d, "made", [d EXCEPT !.run.made = "edited"])
         /\ EditIsFair(s, d, "job", [d EXCEPT !.run.job = "edited"])
         /\ EditIsFair(s, d, "nulls",
              [d EXCEPT !.run.shape = IF @ = "today" THEN "before" ELSE "today"])
         /\ EditIsFair(s, d, "lost", [d EXCEPT !.run.outputs = IF @ = <<>> THEN @ ELSE Tail(@)])
<1> DEFINE r == d.run
           lost == IF r.outputs = <<>> THEN r.outputs ELSE Tail(r.outputs)
           rOps == [r EXCEPT !.ops = 1 - @]
           rIds == [r EXCEPT !.id = 9]
           rMade == [r EXCEPT !.made = "edited"]
           rJob == [r EXCEPT !.job = "edited"]
           other == IF r.shape = "today" THEN "before" ELSE "today"
           rNulls == [r EXCEPT !.shape = other]
           rLost == [r EXCEPT !.outputs = lost]
<1>1. /\ [d EXCEPT !.run.ops = 1 - @] = WithRun(d, rOps)
      /\ [d EXCEPT !.run.id = 9] = WithRun(d, rIds)
      /\ [d EXCEPT !.run.made = "edited"] = WithRun(d, rMade)
      /\ [d EXCEPT !.run.job = "edited"] = WithRun(d, rJob)
      /\ [d EXCEPT !.run.shape = IF @ = "today" THEN "before" ELSE "today"] = WithRun(d, rNulls)
      /\ [d EXCEPT !.run.outputs = IF @ = <<>> THEN @ ELSE Tail(@)] = WithRun(d, rLost)
  BY DEF WithRun
<1>2. r \in RunRecords
  BY DEF IsManifest
<1>3. /\ rOps = RunWith(1 - r.ops, r.id, r.made, r.job, r.shape, r.attempts, r.outputs)
      /\ rIds = RunWith(r.ops, 9, r.made, r.job, r.shape, r.attempts, r.outputs)
      /\ rMade = RunWith(r.ops, r.id, "edited", r.job, r.shape, r.attempts, r.outputs)
      /\ rJob = RunWith(r.ops, r.id, r.made, "edited", r.shape, r.attempts, r.outputs)
      /\ rLost = RunWith(r.ops, r.id, r.made, r.job, r.shape, r.attempts, lost)
      /\ rNulls = RunWith(r.ops, r.id, r.made, r.job, other, r.attempts, r.outputs)
  <2> HIDE DEF r, lost, other
  <2>1. rOps = RunWith(1 - r.ops, r.id, r.made, r.job, r.shape, r.attempts, r.outputs)
    BY <1>2, RunFields
  <2>2. rIds = RunWith(r.ops, 9, r.made, r.job, r.shape, r.attempts, r.outputs)
    BY <1>2, RunFields
  <2>3. rMade = RunWith(r.ops, r.id, "edited", r.job, r.shape, r.attempts, r.outputs)
    BY <1>2, RunFields
  <2>4. rJob = RunWith(r.ops, r.id, r.made, "edited", r.shape, r.attempts, r.outputs)
    BY <1>2, RunFields
  <2>5. rLost = RunWith(r.ops, r.id, r.made, r.job, r.shape, r.attempts, lost)
    BY <1>2, RunFields
  <2>6. rNulls = RunWith(r.ops, r.id, r.made, r.job, other, r.attempts, r.outputs)
    BY <1>2, RunFields
  <2> QED
    BY <2>1, <2>2, <2>3, <2>4, <2>5, <2>6
<1>4. other \in {"before", "today"} /\ 1 - r.ops \in {0, 1} /\ lost \in Seq(Assets)
  <2> HIDE DEF r
  <2>1. r.ops \in {0, 1} /\ r.outputs \in Seq(Assets)
    BY <1>2, RunFields
  <2> QED
    BY <2>1
<1> HIDE DEF r, lost, other, rOps, rIds, rMade, rJob, rLost, rNulls
<1>5. /\ r.ops \in {0, 1} /\ r.id \in Nat /\ r.made \in Makes \cup {"edited"}
      /\ r.job \in Jobs \cup {"none", "edited"} /\ r.attempts \in Seq(Attempts)
           /\ r.outputs \in Seq(Assets) /\ r.shape \in {"before", "today"}
  BY <1>2, RunFields
<1>6. /\ rOps \in RunRecords /\ rOps.id = r.id /\ rOps.made = r.made /\ rOps.job = r.job
           /\ rOps.attempts = r.attempts
      /\ rOps.outputs = r.outputs
  BY <1>2, <1>3, <1>4, <1>5 DEF RunWith, RunRecords
<1>7. /\ rIds \in RunRecords /\ rIds.made = r.made /\ rIds.job = r.job /\ rIds.attempts = r.attempts
      /\ rIds.outputs = r.outputs
  BY <1>2, <1>3, <1>5 DEF RunWith, RunRecords
<1>8. rMade \in RunRecords /\ rJob \in RunRecords /\ rLost \in RunRecords
  BY <1>2, <1>3, <1>4, <1>5 DEF RunWith, RunRecords
<1>14. /\ rNulls \in RunRecords /\ rNulls.id = r.id /\ rNulls.made = r.made /\ rNulls.job = r.job
       /\ rNulls.attempts = r.attempts /\ rNulls.outputs = r.outputs
  BY <1>2, <1>3, <1>4, <1>5 DEF RunWith, RunRecords
<1>15. ReadPayload(s, rNulls) = ReadPayload(s, r)
  BY <1>2, <1>14, SamePayload
<1>9. ReadPayload(s, rOps) = ReadPayload(s, r)
  BY <1>2, <1>6, SamePayload
<1>10. Harmless("ids", s, d) => ReadPayload(s, rIds) = ReadPayload(s, r)
  BY <1>2, <1>7, SamePayload DEF Harmless
<1>11. EditIsFair(s, d, "ops", WithRun(d, rOps))
  BY <1>6, <1>9, RunIsFair DEF r, Hows
<1>12. EditIsFair(s, d, "ids", WithRun(d, rIds))
  BY <1>7, <1>10, RunIsFair DEF r, Hows
<1>13. /\ EditIsFair(s, d, "made", WithRun(d, rMade)) /\ EditIsFair(s, d, "job", WithRun(d, rJob))
       /\ EditIsFair(s, d, "lost", WithRun(d, rLost))
  BY <1>8, RunIsFair, Harmful
<1>16. EditIsFair(s, d, "nulls", WithRun(d, rNulls))
  BY <1>14, <1>15, RunIsFair DEF r, Hows
<1> QED
  BY <1>1, <1>11, <1>12, <1>13, <1>16

(* The edits of the manifest's own fields are fair. *)
LEMMA FieldEditsFair ==
  ASSUME NEW s, NEW d, IsManifest(d)
  PROVE  /\ EditIsFair(s, d, "uri", [d EXCEPT !.uri = ~@])
         /\ EditIsFair(s, d, "failures", [d EXCEPT !.failures = {1} \ @])
         /\ EditIsFair(s, d, "scheme", [d EXCEPT !.scheme = ~@])
         /\ \A v : EditIsFair(s, d, "schema", [d EXCEPT !.schema = v])
<1>1. \A v : EditIsFair(s, d, "uri", WithUri(d, v))
  BY ManifestEdits DEF EditIsFair, Hows
<1>2. \A v : EditIsFair(s, d, "failures", WithFailures(d, v))
  BY ManifestEdits DEF EditIsFair, Hows
<1>3. \A v : EditIsFair(s, d, "scheme", WithScheme(d, v))
  BY ManifestEdits, Harmful DEF EditIsFair
<1>4. \A v : EditIsFair(s, d, "schema", WithSchema(d, v))
  BY ManifestEdits, Harmful DEF EditIsFair
<1> QED
  BY <1>1, <1>2, <1>3, <1>4, Zenon DEF WithUri, WithFailures, WithScheme, WithSchema

(* The edits of an attempt are fair. *)
LEMMA AttemptEditsFair ==
  ASSUME NEW s, NEW d, IsManifest(d), NEW k \in DOMAIN d.run.attempts
  PROVE  /\ EditIsFair(s, d, "attempt", [d EXCEPT !.run.attempts[k].what = "edited"])
         /\ EditIsFair(s, d, "ops", [d EXCEPT !.run.attempts[k].ops = 1 - @])
<1> DEFINE r == d.run
           w == [r.attempts EXCEPT ![k].what = "edited"]
           o == [r.attempts EXCEPT ![k].ops = 1 - @]
           rWhat == [r EXCEPT !.attempts = w]
           rOps == [r EXCEPT !.attempts = o]
<1>1. /\ [d EXCEPT !.run.attempts[k].what = "edited"] = WithRun(d, rWhat)
      /\ [d EXCEPT !.run.attempts[k].ops = 1 - @] = WithRun(d, rOps)
  BY DEF WithRun
<1>2. r \in RunRecords /\ k \in DOMAIN r.attempts
  BY DEF IsManifest
<1> HIDE DEF r
<1>3. /\ r.ops \in {0, 1} /\ r.id \in Nat /\ r.made \in Makes \cup {"edited"}
      /\ r.job \in Jobs \cup {"none", "edited"} /\ r.attempts \in Seq(Attempts)
           /\ r.outputs \in Seq(Assets) /\ r.shape \in {"before", "today"}
  BY <1>2, RunFields
<1>4. w \in Seq(Attempts) /\ o \in Seq(Attempts) /\ DOMAIN o = DOMAIN r.attempts
      /\ \A j \in DOMAIN r.attempts : o[j].what = r.attempts[j].what
  <2>1. /\ [r.attempts[k] EXCEPT !.what = "edited"] \in Attempts
        /\ [r.attempts[k] EXCEPT !.ops = 1 - @] \in Attempts
        /\ [r.attempts[k] EXCEPT !.ops = 1 - @].what = r.attempts[k].what
    <3>1. r.attempts[k] \in Attempts
      BY <1>2, <1>3
    <3>2. \A a \in Attempts : /\ [a EXCEPT !.what = "edited"] \in Attempts
                             /\ [a EXCEPT !.ops = 1 - @] \in Attempts
                             /\ [a EXCEPT !.ops = 1 - @].what = a.what
      BY DEF Attempts
    <3> QED
      BY <3>1, <3>2
  <2>2. /\ w = [r.attempts EXCEPT ![k] = [r.attempts[k] EXCEPT !.what = "edited"]]
        /\ o = [r.attempts EXCEPT ![k] = [r.attempts[k] EXCEPT !.ops = 1 - @]]
    OBVIOUS
  <2> HIDE DEF w, o
  <2> QED
    BY <1>2, <1>3, <2>1, <2>2
<1> HIDE DEF w, o
<1>5. /\ rWhat = RunWith(r.ops, r.id, r.made, r.job, r.shape, w, r.outputs)
      /\ rOps = RunWith(r.ops, r.id, r.made, r.job, r.shape, o, r.outputs)
  <2>1. rWhat = RunWith(r.ops, r.id, r.made, r.job, r.shape, w, r.outputs)
    BY <1>2, RunFields
  <2>2. rOps = RunWith(r.ops, r.id, r.made, r.job, r.shape, o, r.outputs)
    BY <1>2, RunFields
  <2> QED
    BY <2>1, <2>2
<1> HIDE DEF rWhat, rOps
<1>6. /\ rWhat \in RunRecords /\ rOps \in RunRecords /\ rOps.id = r.id /\ rOps.made = r.made
           /\ rOps.job = r.job
      /\ rOps.attempts = o /\ rOps.outputs = r.outputs
  BY <1>2, <1>3, <1>4, <1>5 DEF RunWith, RunRecords
<1>7. ReadPayload(s, rOps) = ReadPayload(s, r)
  BY <1>2, <1>4, <1>6, SamePayload
<1>8. EditIsFair(s, d, "attempt", WithRun(d, rWhat))
  BY <1>6, RunIsFair, Harmful
<1>9. EditIsFair(s, d, "ops", WithRun(d, rOps))
  BY <1>6, <1>7, RunIsFair DEF r, Hows
<1> QED
  BY <1>1, <1>8, <1>9

(* One output is replaced. *)
LEMMA OutputIsFair ==
  ASSUME NEW s, NEW d, IsManifest(d), NEW k \in DOMAIN d.run.outputs, NEW b \in Assets,
         NEW how \in Hows,
         Harmless(how, s, d) => M!HashedAsset(s, b) = M!HashedAsset(s, d.run.outputs[k])
  PROVE  EditIsFair(s, d, how, [d EXCEPT !.run.outputs[k] = b])
<1> DEFINE r == d.run
           o == [r.outputs EXCEPT ![k] = b]
           q == [r EXCEPT !.outputs = o]
<1>1. [d EXCEPT !.run.outputs[k] = b] = WithRun(d, q)
  BY DEF WithRun
<1>2. /\ r \in RunRecords /\ k \in DOMAIN r.outputs
      /\ Harmless(how, s, d) => M!HashedAsset(s, b) = M!HashedAsset(s, r.outputs[k])
  BY DEF IsManifest
<1> HIDE DEF r
<1>3. /\ r.ops \in {0, 1} /\ r.id \in Nat /\ r.made \in Makes \cup {"edited"}
      /\ r.job \in Jobs \cup {"none", "edited"} /\ r.attempts \in Seq(Attempts)
           /\ r.outputs \in Seq(Assets) /\ r.shape \in {"before", "today"}
  BY <1>2, RunFields
<1>4. /\ o \in Seq(Assets) /\ DOMAIN o = DOMAIN r.outputs
      /\ Harmless(how, s, d) => \A j \in DOMAIN o : M!HashedAsset(s, o[j]) = M!HashedAsset(s,
           r.outputs[j])
  BY <1>2, <1>3
<1> HIDE DEF o
<1>5. q = RunWith(r.ops, r.id, r.made, r.job, r.shape, r.attempts, o)
  BY <1>2, RunFields
<1> HIDE DEF q
<1>6. /\ q \in RunRecords /\ q.id = r.id /\ q.made = r.made /\ q.job = r.job
      /\ q.attempts = r.attempts /\ q.outputs = o
  BY <1>2, <1>3, <1>4, <1>5 DEF RunWith, RunRecords
<1>7. Harmless(how, s, d) => ReadPayload(s, q) = ReadPayload(s, r)
  BY <1>2, <1>4, <1>6, SamePayload
<1>8. EditIsFair(s, d, how, WithRun(d, q))
  BY <1>6, <1>7, RunIsFair DEF r
<1> QED
  BY <1>1, <1>8

(* The edits of an output are fair. *)
LEMMA OutputEditsFair ==
  ASSUME NEW s, NEW d, IsManifest(d), NEW k \in DOMAIN d.run.outputs
  PROVE  /\ EditIsFair(s, d, "assetId", [d EXCEPT !.run.outputs[k].id = <<9, k>>])
         /\ EditIsFair(s, d, "presigned", [d EXCEPT !.run.outputs[k].url.signed = ~@])
         /\ EditIsFair(s, d, "mirrored", [d EXCEPT !.run.outputs[k].url.at = "mirror"])
         /\ \A sha \in {M!NoSha, M!Malformed, M!Digest("edited", 1)} :
              EditIsFair(s, d, "sha", [d EXCEPT !.run.outputs[k].sha = sha])
         /\ \A meta \in M!Metas : EditIsFair(s, d, "meta", [d EXCEPT !.run.outputs[k].meta = meta])
<1> DEFINE a == d.run.outputs[k]
           fair(how, b) == EditIsFair(s, d, how, [d EXCEPT !.run.outputs[k] = b])
<1>1. a \in Assets /\ k \in Nat /\ <<9, k>> \in Seq(Nat)
  BY DEF IsManifest, RunRecords
<1>2. ASSUME NEW b \in Assets, NEW how \in Hows,
             Harmless(how, s, d) => M!HashedAsset(s, b) = M!HashedAsset(s, a)
      PROVE  fair(how, b)
  BY <1>2, OutputIsFair
<1>3. Harmless("mirrored", s, d) => ~M!Policy(s).randomIds
      /\ (M!Policy(s).markUnhashed => M!ValidSha(a.sha))
  BY DEF Harmless
<1>4. /\ [d EXCEPT !.run.outputs[k].id = <<9, k>>] = [d EXCEPT !.run.outputs[k] = [a EXCEPT !.id =
           <<9, k>>]]
      /\ [d EXCEPT !.run.outputs[k].url.signed = ~@]
           = [d EXCEPT !.run.outputs[k] = [a EXCEPT !.url.signed = ~@]]
      /\ [d EXCEPT !.run.outputs[k].url.at = "mirror"]
           = [d EXCEPT !.run.outputs[k] = [a EXCEPT !.url.at = "mirror"]]
      /\ \A sha : [d EXCEPT !.run.outputs[k].sha = sha] = [d EXCEPT !.run.outputs[k] =
           [a EXCEPT !.sha = sha]]
      /\ \A meta : [d EXCEPT !.run.outputs[k].meta = meta] = [d EXCEPT !.run.outputs[k] =
           [a EXCEPT !.meta = meta]]
  OBVIOUS
<1> HIDE DEF a, fair
<1>5. fair("assetId", [a EXCEPT !.id = <<9, k>>])
  <2> DEFINE b == [a EXCEPT !.id = <<9, k>>]
  <2>1. b \in Assets /\ b.sha = a.sha /\ b.meta = a.meta /\ b.url = a.url
    BY <1>1, AssetEdits
  <2> HIDE DEF b
  <2>2. Harmless("assetId", s, d) => M!HashedAsset(s, b) = M!HashedAsset(s, a)
    BY <2>1 DEF Harmless, M!HashedAsset, M!StripAsset
  <2>3. fair("assetId", b)
    BY <1>2, <2>1, <2>2 DEF Hows
  <2> QED
    BY <2>3 DEF b
<1>6. fair("presigned", [a EXCEPT !.url.signed = ~@])
  <2> DEFINE b == [a EXCEPT !.url.signed = ~@]
  <2>1. b \in Assets /\ b.sha = a.sha /\ b.meta = a.meta /\ b.url.at = a.url.at /\ b.url.of = a.url.of
    BY <1>1, AssetEdits
  <2> HIDE DEF b
  <2>2. Harmless("presigned", s, d) => M!HashedAsset(s, b) = M!HashedAsset(s, a)
    BY <2>1 DEF Harmless, M!HashedAsset, M!StripAsset
  <2>3. fair("presigned", b)
    BY <1>2, <2>1, <2>2 DEF Hows
  <2> QED
    BY <2>3 DEF b
<1>7. fair("mirrored", [a EXCEPT !.url.at = "mirror"])
  <2> DEFINE b == [a EXCEPT !.url.at = "mirror"]
  <2>1. b \in Assets /\ b.sha = a.sha /\ b.meta = a.meta
    BY <1>1, AssetEdits
  <2> HIDE DEF b
  <2>2. Harmless("mirrored", s, d) => M!HashedAsset(s, b) = M!HashedAsset(s, a)
    BY <1>3, <2>1 DEF M!HashedAsset, M!StripAsset
  <2>3. fair("mirrored", b)
    BY <1>2, <2>1, <2>2 DEF Hows
  <2> QED
    BY <2>3 DEF b
<1>8. \A sha \in {M!NoSha, M!Malformed, M!Digest("edited", 1)} : fair("sha", [a EXCEPT !.sha = sha])
  <2> SUFFICES ASSUME NEW sha \in {M!NoSha, M!Malformed, M!Digest("edited", 1)} PROVE fair("sha",
                      [a EXCEPT !.sha = sha])
    OBVIOUS
  <2>1. [a EXCEPT !.sha = sha] \in Assets
    BY <1>1, AssetEdits
  <2> QED
    BY <1>2, <2>1, Harmful
<1>9. \A meta \in M!Metas : fair("meta", [a EXCEPT !.meta = meta])
  <2> SUFFICES ASSUME NEW meta \in M!Metas PROVE fair("meta", [a EXCEPT !.meta = meta])
    OBVIOUS
  <2>1. [a EXCEPT !.meta = meta] \in Assets
    BY <1>1, AssetEdits
  <2> QED
    BY <1>2, <2>1, Harmful
<1> QED
  <2> USE DEF fair
  <2>1. EditIsFair(s, d, "assetId", [d EXCEPT !.run.outputs[k].id = <<9, k>>])
    BY <1>5 DEF a
  <2>2. EditIsFair(s, d, "presigned", [d EXCEPT !.run.outputs[k].url.signed = ~@])
    BY <1>6 DEF a
  <2>3. EditIsFair(s, d, "mirrored", [d EXCEPT !.run.outputs[k].url.at = "mirror"])
    BY <1>7 DEF a
  <2>4. \A sha \in {M!NoSha, M!Malformed, M!Digest("edited", 1)} :
          EditIsFair(s, d, "sha", [d EXCEPT !.run.outputs[k].sha = sha])
    BY <1>8 DEF a
  <2>5. \A meta \in M!Metas : EditIsFair(s, d, "meta", [d EXCEPT !.run.outputs[k].meta = meta])
    BY <1>9 DEF a
  <2> QED
    BY <2>1, <2>2, <2>3, <2>4, <2>5

(* So every edit there is, is fair. *)
LEMMA AmendedIsFair ==
  ASSUME NEW s, NEW d, IsManifest(d), NEW a \in M!Amended(d)
  PROVE  EditIsFair(s, d, a.how, a.d)
<1> DEFINE ops == [d EXCEPT !.run.ops = 1 - @]
           ids == [d EXCEPT !.run.id = 9]
           thing == [d EXCEPT !.run.made = "edited"]
           ticket == [d EXCEPT !.run.job = "edited"]
           nulls == [d EXCEPT !.run.shape = IF @ = "today" THEN "before" ELSE "today"]
           uri == [d EXCEPT !.uri = ~@]
           failures == [d EXCEPT !.failures = {1} \ @]
           scheme == [d EXCEPT !.scheme = ~@]
           lost == [d EXCEPT !.run.outputs = IF @ = <<>> THEN @ ELSE Tail(@)]
           schema(v) == [d EXCEPT !.schema = v]
           what(k) == [d EXCEPT !.run.attempts[k].what = "edited"]
           anew(k) == [d EXCEPT !.run.attempts[k].ops = 1 - @]
           assetId(k) == [d EXCEPT !.run.outputs[k].id = <<9, k>>]
           presigned(k) == [d EXCEPT !.run.outputs[k].url.signed = ~@]
           mirrored(k) == [d EXCEPT !.run.outputs[k].url.at = "mirror"]
           sha(k, v) == [d EXCEPT !.run.outputs[k].sha = v]
           meta(k, v) == [d EXCEPT !.run.outputs[k].meta = v]
<1>0. M!Amended(d) =
        {[how |-> "ops", d |-> ops], [how |-> "ids", d |-> ids], [how |-> "made", d |-> thing],
         [how |-> "job", d |-> ticket], [how |-> "nulls", d |-> nulls], [how |-> "uri", d |-> uri],
         [how |-> "failures", d |-> failures], [how |-> "scheme", d |-> scheme], [how |-> "lost",
           d |-> lost]}
        \cup {[how |-> "schema", d |-> schema(z)] : z \in M!SupportedSchemas \cup {"missing", "2.0"}}
        \cup {[how |-> "attempt", d |-> what(k)] : k \in DOMAIN d.run.attempts}
        \cup {[how |-> "ops", d |-> anew(k)] : k \in DOMAIN d.run.attempts}
        \cup UNION {
           {[how |-> "assetId", d |-> assetId(k)], [how |-> "presigned", d |-> presigned(k)],
            [how |-> "mirrored", d |-> mirrored(k)]}
           \cup {[how |-> "sha", d |-> sha(k, v)] : v \in {M!NoSha, M!Malformed, M!Digest("edited", 1)}}
           \cup {[how |-> "meta", d |-> meta(k, v)] : v \in M!Metas}
           : k \in DOMAIN d.run.outputs}
  BY Zenon DEF M!Amended
<1>1. \/ a \in {[how |-> "ops", d |-> ops], [how |-> "ids", d |-> ids], [how |-> "made", d |-> thing],
                [how |-> "job", d |-> ticket], [how |-> "nulls", d |-> nulls],
                [how |-> "uri", d |-> uri],
                [how |-> "failures", d |-> failures], [how |-> "scheme", d |-> scheme],
                [how |-> "lost", d |-> lost]}
      \/ \E v \in M!SupportedSchemas \cup {"missing", "2.0"} : a = [how |-> "schema", d |-> schema(v)]
      \/ \E k \in DOMAIN d.run.attempts : a = [how |-> "attempt", d |-> what(k)]
      \/ \E k \in DOMAIN d.run.attempts : a = [how |-> "ops", d |-> anew(k)]
      \/ \E k \in DOMAIN d.run.outputs :
           \/ a \in {[how |-> "assetId", d |-> assetId(k)], [how |-> "presigned", d |-> presigned(k)],
                     [how |-> "mirrored", d |-> mirrored(k)]}
           \/ \E v \in {M!NoSha, M!Malformed, M!Digest("edited", 1)} : a = [how |-> "sha",
                d |-> sha(k, v)]
           \/ \E v \in M!Metas : a = [how |-> "meta", d |-> meta(k, v)]
  <2> HIDE DEF ops, ids, thing, ticket, nulls, uri, failures, scheme, lost, schema, what, anew, assetId,
               presigned, mirrored,
               sha, meta
  <2> QED
    BY <1>0
<1>2. /\ EditIsFair(s, d, "ops", ops) /\ EditIsFair(s, d, "ids", ids) /\ EditIsFair(s, d, "made", thing)
      /\ EditIsFair(s, d, "job", ticket) /\ EditIsFair(s, d, "lost", lost)
      /\ EditIsFair(s, d, "nulls", nulls)
  BY RunEditsFair
<1>3. /\ EditIsFair(s, d, "uri", uri) /\ EditIsFair(s, d, "failures", failures)
      /\ EditIsFair(s, d, "scheme", scheme) /\ \A v : EditIsFair(s, d, "schema", schema(v))
  BY FieldEditsFair
<1>4. \A k \in DOMAIN d.run.attempts : EditIsFair(s, d, "attempt", what(k))
      /\ EditIsFair(s, d, "ops", anew(k))
  BY AttemptEditsFair
<1>5. \A k \in DOMAIN d.run.outputs :
        /\ EditIsFair(s, d, "assetId", assetId(k)) /\ EditIsFair(s, d, "presigned", presigned(k))
        /\ EditIsFair(s, d, "mirrored", mirrored(k))
        /\ \A v \in {M!NoSha, M!Malformed, M!Digest("edited", 1)} : EditIsFair(s, d, "sha", sha(k, v))
        /\ \A v \in M!Metas : EditIsFair(s, d, "meta", meta(k, v))
  BY OutputEditsFair
<1> HIDE DEF ops, ids, thing, ticket, nulls, uri, failures, scheme, lost, schema, what, anew, assetId,
             presigned, mirrored,
             sha, meta
<1> QED
  BY <1>1, <1>2, <1>3, <1>4, <1>5

-----------------------------------------------------------------------------
(* Manifests in memory. *)
LEMMA NewIsHashed ==
  ASSUME NEW s, NEW r \in RunRecords, NEW scheme
  PROVE  LET m == M!NewManifest(s, r, scheme)
         IN  IsManifest(m) /\ m.schema = s /\ m.run = r /\ m.hash = M!HashPayload(s, r)
             /\ m.scheme = scheme
<1> DEFINE no == FALSE
           m == [schema |-> s, run |-> r, hash |-> M!NoHash, sig |-> M!NoHash, scheme |-> scheme,
             uri |-> no,
                 failures |-> {}]
           h == M!HashPayload(m.schema, m.run)
           n == [schema |-> s, run |-> r, hash |-> h, sig |-> M!NoHash, scheme |-> scheme, uri |-> no,
                 failures |-> {}]
<1>1. h = M!HashPayload(s, r)
  OBVIOUS
<1>2. M!NewManifest(s, r, scheme) = [m EXCEPT !.hash = h]
  BY DEF M!NewManifest, M!Hashed
<1> HIDE DEF h, no
<1>3. DOMAIN m = DOMAIN n /\ \A x \in DOMAIN n : n[x] = IF x = "hash" THEN h ELSE m[x]
  OBVIOUS
<1>4. [m EXCEPT !.hash = h] = n
  BY <1>3
<1> QED
  BY <1>1, <1>2, <1>4 DEF IsManifest

(* Hashing a manifest again changes its hash alone. *)
LEMMA HashedIsHashed ==
  ASSUME NEW m, IsManifest(m)
  PROVE  LET h == M!Hashed(m)
         IN  IsManifest(h) /\ h.schema = m.schema /\ h.run = m.run
             /\ h.hash = M!HashPayload(m.schema, m.run)
             /\ h.scheme = m.scheme
<1>1. M!Hashed(m) = WithHash(m, M!HashPayload(m.schema, m.run))
  BY DEF M!Hashed, WithHash
<1> QED
  BY <1>1, ManifestEdits

(* A document that is kept as it is written. *)
Consistent(m) ==
  /\ IsManifest(m) /\ m.hash = M!HashPayload(M!Version(m), m.run)
  /\ m.run.made \in Secret => m.scheme

(* Such a document is its own origin. *)
LEMMA KeptIsTheOrigins ==
  ASSUME NEW m, Consistent(m), M!Keep(m)
  PROVE  HashIsTheOrigins' /\ PayloadIsTheOrigins'
<1>1. /\ doc' = m /\ edits' = <<>>
      /\ origin'.run = m.run /\ origin'.schema = M!Version(m)
      /\ origin'.sealed => m.sig = M!HashPayload(M!Version(m), m.run)
  BY DEF M!Keep, M!Written
<1>2. IsManifest(m) /\ m.run \in RunRecords
  BY DEF Consistent, IsManifest
<1>3. HashIsTheOrigins'
  BY <1>1, <1>2 DEF HashIsTheOrigins, Consistent
<1>4. PayloadIsTheOrigins'
  <2>1. M!Version(doc)' = M!Version(m) /\ <<>> \in Seq(Hows \cup {"bytes"})
    BY <1>1 DEF M!Version
  <2> QED
    BY <1>1, <2>1 DEF PayloadIsTheOrigins, Consistent
<1> QED
  BY <1>3, <1>4

(* Nothing is asked of a document that does not exist. *)
LEMMA NoDocument ==
  ASSUME doc' = M!Nothing, edits' = <<>>
  PROVE  HashIsTheOrigins' /\ PayloadIsTheOrigins'
<1>1. <<>> \in Seq(Hows \cup {"bytes"})
  OBVIOUS
<1> QED
  BY <1>1 DEF HashIsTheOrigins, PayloadIsTheOrigins

(* A step that leaves the document alone keeps what is asked of it. *)
LEMMA DocumentStill ==
  ASSUME HashIsTheOrigins, PayloadIsTheOrigins, UNCHANGED <<doc, origin, edits>>
  PROVE  HashIsTheOrigins' /\ PayloadIsTheOrigins'
<1>1. HashIsTheOrigins'
  BY DEF HashIsTheOrigins
<1>2. Untouched' <=> Untouched
  BY DEF Untouched, M!Operational
<1>3. PayloadIsTheOrigins'
  BY <1>2 DEF PayloadIsTheOrigins, M!Version
<1> QED
  BY <1>1, <1>3

(* A new run takes the place of the one before. *)
LEMMA NewRunKept ==
  ASSUME CustodyInv, fresh' = mem', prior' = fresh, mem' # M!Nothing, Ingested(mem)'
  PROVE  Ingested(fresh)' /\ Ingested(prior)' /\ fresh' # M!Nothing
<1>1. Ingested(prior)' <=> Ingested(fresh)
  BY DEF Ingested
<1>2. Ingested(fresh)' <=> Ingested(mem)'
  BY DEF Ingested
<1> QED
  BY <1>1, <1>2 DEF CustodyInv

(* RunRecords are numbered. *)
LEMMA SerialIsNat ==
  ASSUME CustodyInv PROVE M!Serial \in Nat
BY DEF CustodyInv, MemoryKept, M!Serial, IsManifest, RunRecords

(* What a provider or a caller hands in is an asset. *)
LEMMA AssetIs ==
  ASSUME NEW i \in Seq(Nat), NEW o \in M!Objects, NEW sha \in Shas, NEW meta \in M!Metas
  PROVE  /\ M!Asset(i, o, sha, meta) \in Assets
         /\ M!Asset(i, o, sha, meta).url.of = o /\ M!Asset(i, o, sha, meta).sha = sha
         /\ M!Asset(i, o, sha, meta).meta = meta
BY DEF M!Asset, Assets, M!Places

(* A transfer gives an asset an address in the bucket and the digest of its  *)
(* bytes.                                                                    *)
LEMMA MovedIs ==
  ASSUME NEW a \in Assets, NEW thing \in Makes \cup {"edited"}
  PROVE  /\ M!Moved(a, thing) \in Assets
         /\ M!Moved(a, thing).url.of = a.url.of /\ M!Moved(a, thing).sha = M!Digest(thing, a.url.of)
         /\ M!Moved(a, thing).meta = a.meta
<1>1. /\ a.url.of \in M!Objects /\ a.id \in Seq(Nat) /\ a.meta \in M!Metas
  BY DEF Assets
<1>2. M!Moved(a, thing) = [id |-> a.id, url |-> [at |-> "bucket", of |-> a.url.of, signed |-> FALSE],
                        sha |-> M!Digest(thing, a.url.of), meta |-> a.meta]
  <2>1. \A u, v : [a EXCEPT !.url = u, !.sha = v] = [id |-> a.id, url |-> u, sha |-> v, meta |-> a.meta]
    <3> SUFFICES ASSUME NEW u, NEW v
                 PROVE  [a EXCEPT !.url = u, !.sha = v] = [id |-> a.id, url |-> u, sha |-> v,
                        meta |-> a.meta]
      OBVIOUS
    <3>1. DOMAIN a = {"id", "url", "sha", "meta"} /\ a = [x \in DOMAIN a |-> a[x]]
      BY DEF Assets
    <3> DEFINE b == [x \in DOMAIN a |-> IF x = "url" THEN u ELSE a[x]]
               c == [x \in DOMAIN a |-> IF x = "sha" THEN v ELSE b[x]]
    <3>2. [a EXCEPT !.url = u, !.sha = v] = c
      BY <3>1
    <3>3. c = [id |-> a.id, url |-> u, sha |-> v, meta |-> a.meta]
      BY <3>1
    <3> QED
      BY <3>2, <3>3
  <2> QED
    BY <2>1 DEF M!Moved
<1>3. M!Digest(thing, a.url.of) \in Shas
  BY <1>1 DEF Shas
<1> HIDE DEF M!Digest
<1> QED
  BY <1>1, <1>2, <1>3 DEF Assets, M!Places

(* A run that is made keeps the invariant. *)
LEMMA ExecuteKept ==
  ASSUME JobsAreNamed, CustodyInv,
         NEW s \in {"1.3", "1.5"}, NEW thing \in Makes, NEW ticket \in Jobs, NEW n \in 0..2,
           NEW declared \in BOOLEAN,
         NEW rescued \in BOOLEAN, M!Execute(s, thing, ticket, n, declared, rescued)
  PROVE  CustodyInv'
<1> DEFINE r == M!Generated(thing, ticket, n, declared, rescued)
<1>1. r \in RunRecords /\ r.job = ticket /\ r.made = thing /\ r.shape = "today"
  <2>1. M!Serial \in Nat
    BY SerialIsNat
  <2>2. \A k \in 1..n : M!Asset(<<M!Serial, k>>, k, IF declared THEN M!Digest(thing, k)
        ELSE M!NoSha, "fit") \in Assets
    <3> SUFFICES ASSUME NEW k \in 1..n
                 PROVE  M!Asset(<<M!Serial, k>>, k, IF declared THEN M!Digest(thing, k)
                        ELSE M!NoSha, "fit") \in Assets
      OBVIOUS
    <3>1. <<M!Serial, k>> \in Seq(Nat) /\ k \in M!Objects /\ "fit" \in M!Metas
      BY <2>1 DEF M!Objects, M!Metas
    <3>2. (IF declared THEN M!Digest(thing, k) ELSE M!NoSha) \in Shas
      BY <3>1 DEF Shas
    <3> QED
      BY <3>1, <3>2, AssetIs
  <2>3. [k \in 1..n |-> M!Asset(<<M!Serial, k>>, k, IF declared THEN M!Digest(thing, k)
        ELSE M!NoSha, "fit")] \in Seq(Assets)
    <3> HIDE DEF M!Asset
    <3> QED
      BY <2>2
  <2>4. (IF rescued THEN <<[what |-> "primary", ops |-> 0]>> ELSE <<>>) \in Seq(Attempts)
    <3>1. [what |-> "primary", ops |-> 0] \in Attempts
      BY DEF Attempts
    <3> QED
      BY <3>1
  <2> QED
    BY <2>1, <2>3, <2>4 DEF M!Generated, RunRecords
<1> HIDE DEF r
<1>2. PICK scheme \in {thing \in Secret} : mem' = M!NewManifest(s, r, scheme)
  BY DEF M!Execute, r
<1>3. thing \in Secret => scheme
  BY <1>2, Zenon
<1>4. /\ IsManifest(mem') /\ mem'.schema = s /\ mem'.run = r /\ mem'.hash = M!HashPayload(s, r)
      /\ mem'.scheme = scheme
  BY <1>1, <1>2, NewIsHashed
<1>5. MemoryKept'
  BY <1>1, <1>3, <1>4 DEF MemoryKept, M!HashVerifies
<1>6. mem' # M!Nothing
  BY <1>4 DEF M!Nothing
<1>7. Ingested(mem)'
  BY <1>1, <1>4 DEF Ingested, JobsAreNamed
<1>8. fresh' = mem' /\ prior' = fresh /\ doc' = M!Nothing /\ edits' = <<>>
  BY DEF M!Execute
<1> QED
  BY <1>5, <1>6, <1>7, <1>8, NoDocument, NewRunKept DEF CustodyInv

-----------------------------------------------------------------------------
(* One or two assets are sorted. *)
LEMMA KeyIsNat ==
  ASSUME NEW a \in Assets PROVE M!ProvenanceKey("1.5", a) \in Int
<1>1. M!Policy("1.5").markUnhashed = FALSE
  BY DEF M!Policy
<1>2. /\ M!StripAsset(a, M!Policy("1.5").markUnhashed).sha = a.sha
      /\ M!StripAsset(a, M!Policy("1.5").markUnhashed).meta = M!Normal(a.meta)
  BY DEF M!StripAsset
<1>3. M!Normal(a.meta) \in {"none", "fit", "zero"}
  BY DEF Assets, M!Metas, M!Normal
<1>4. M!ValidSha(a.sha) => a.sha[2] \in Int
  BY DEF Assets, Shas, M!ValidSha, M!NoSha, M!Malformed, M!Digest, M!Objects
<1> QED
  BY <1>2, <1>3, <1>4 DEF M!ProvenanceKey

(* Of two outputs, sorting swaps them or leaves them, and puts the smaller   *)
(* key first.                                                                *)
LEMMA SortedIs ==
  ASSUME NEW out \in Seq(Assets), Len(out) \in {1, 2}
  PROVE  /\ M!Sorted(out) \in Seq(Assets) /\ Len(M!Sorted(out)) = Len(out)
         /\ \/ \A k \in 1..Len(out) : M!Sorted(out)[k] = out[k]
            \/ Len(out) = 2 /\ M!Sorted(out)[1] = out[2] /\ M!Sorted(out)[2] = out[1]
         /\ Len(out) = 2 => M!ProvenanceKey("1.5", M!Sorted(out)[1]) <= M!ProvenanceKey("1.5",
              M!Sorted(out)[2])
<1> DEFINE D == 1..Len(out)
           key(k) == M!ProvenanceKey("1.5", out[k])
           P(p) == \A j, k \in D : j < k => M!Before(out, p[j], p[k])
           order == CHOOSE p \in [D -> D] : P(p)
<1>1. DOMAIN out = D /\ \A k \in D : key(k) \in Int
  BY KeyIsNat
<1>2. M!Sorted(out) = [k \in D |-> out[order[k]]]
  BY <1>1 DEF M!Sorted
<1>3. \A j, k : M!Before(out, j, k) <=> (key(j) < key(k) \/ (key(j) = key(k) /\ j < k))
  BY DEF M!Before
<1> HIDE DEF key
<1>4. \E p \in [D -> D] : P(p)
  <2>1. CASE Len(out) = 1
    <3>1. [k \in D |-> k] \in [D -> D] /\ P([k \in D |-> k])
      BY <2>1
    <3> QED
      BY <3>1
  <2>2. CASE Len(out) = 2
    <3>1. D = {1, 2}
      BY <2>2
    <3>2. CASE key(2) < key(1)
      <4>1. [k \in D |-> 3 - k] \in [D -> D] /\ P([k \in D |-> 3 - k])
        BY <1>1, <1>3, <3>1, <3>2
      <4> QED
        BY <4>1
    <3>3. CASE ~(key(2) < key(1))
      <4>1. [k \in D |-> k] \in [D -> D] /\ P([k \in D |-> k])
        BY <1>1, <1>3, <3>1, <3>3
      <4> QED
        BY <4>1
    <3> QED
      BY <3>2, <3>3
  <2> QED
    BY <2>1, <2>2
<1>5. order \in [D -> D] /\ P(order)
  BY <1>4
<1> HIDE DEF order
<1>6. M!Sorted(out) \in Seq(Assets) /\ Len(M!Sorted(out)) = Len(out)
  BY <1>2, <1>5
<1>7. CASE Len(out) = 1
  BY <1>2, <1>5, <1>6, <1>7
<1>8. CASE Len(out) = 2
  <2>1. /\ D = {1, 2} /\ order[1] \in D /\ order[2] \in D /\ M!Before(out, order[1], order[2])
        /\ M!Sorted(out)[1] = out[order[1]] /\ M!Sorted(out)[2] = out[order[2]]
    BY <1>2, <1>5, <1>8
  <2>2. key(order[1]) <= key(order[2]) /\ order[1] # order[2]
    BY <1>1, <1>3, <2>1
  <2>3. M!ProvenanceKey("1.5", M!Sorted(out)[1]) <= M!ProvenanceKey("1.5", M!Sorted(out)[2])
    BY <2>1, <2>2 DEF key
  <2> QED
    BY <1>6, <1>8, <2>1, <2>2, <2>3
<1> QED
  BY <1>7, <1>8

(* A digest is the key of an asset of which nothing else is known. *)
LEMMA KeyOfDigest ==
  ASSUME NEW thing, NEW o \in M!Objects, NEW a \in Assets, a.sha = M!Digest(thing, o), a.meta = "none"
  PROVE  M!ProvenanceKey("1.5", a) = 10 * o
<1>1. /\ M!StripAsset(a, M!Policy("1.5").markUnhashed).sha = M!Digest(thing, o)
      /\ M!StripAsset(a, M!Policy("1.5").markUnhashed).meta = "none"
  BY DEF M!StripAsset, M!Normal
<1>2. M!ValidSha(M!Digest(thing, o)) /\ M!Digest(thing, o)[2] = o /\ o \in Int
  BY DEF M!ValidSha, M!Digest, M!Objects
<1> QED
  BY <1>1, <1>2 DEF M!ProvenanceKey

(* Ingested outputs are sorted by what they are: with digests, the kth is    *)
(* object k in whatever order they came.                                     *)
LEMMA SortedIsByContent ==
  ASSUME NEW thing, NEW order \in {<<1, 2>>, <<2, 1>>, << 1 >>}, NEW out \in Seq(Assets), Len(out) =
         Len(order),
         \A k \in 1..Len(order) : out[k].url.of = order[k] /\ out[k].meta = "none",
         \/ \A k \in 1..Len(order) : out[k].sha = M!NoSha
         \/ \A k \in 1..Len(order) : out[k].sha = M!Digest(thing, order[k])
  PROVE  /\ M!Sorted(out) \in Seq(Assets) /\ Len(M!Sorted(out)) > 0
         /\ {M!Sorted(out)[k].url.of : k \in DOMAIN M!Sorted(out)} = 1..Len(M!Sorted(out))
         /\ \A k \in DOMAIN M!Sorted(out) : M!Sorted(out)[k].meta = "none"
         /\ \/ \A k \in DOMAIN M!Sorted(out) : M!Sorted(out)[k].sha = M!NoSha
            \/ \A k \in DOMAIN M!Sorted(out) : M!Sorted(out)[k].sha = M!Digest(thing, k)
<1> DEFINE sorted == M!Sorted(out)
<1>1. Len(order) \in {1, 2} /\ Len(out) \in {1, 2}
  OBVIOUS
<1>2. /\ sorted \in Seq(Assets) /\ Len(sorted) = Len(out) /\ DOMAIN sorted = 1..Len(out)
      /\ \/ \A k \in 1..Len(out) : sorted[k] = out[k]
         \/ Len(out) = 2 /\ sorted[1] = out[2] /\ sorted[2] = out[1]
      /\ Len(out) = 2 => M!ProvenanceKey("1.5", sorted[1]) <= M!ProvenanceKey("1.5", sorted[2])
  <2>1. /\ sorted \in Seq(Assets) /\ Len(sorted) = Len(out)
        /\ \/ \A k \in 1..Len(out) : sorted[k] = out[k]
           \/ Len(out) = 2 /\ sorted[1] = out[2] /\ sorted[2] = out[1]
        /\ Len(out) = 2 => M!ProvenanceKey("1.5", sorted[1]) <= M!ProvenanceKey("1.5", sorted[2])
    BY <1>1, SortedIs
  <2> HIDE DEF sorted
  <2>2. DOMAIN sorted = 1..Len(out)
    BY <2>1
  <2> QED
    BY <2>1, <2>2
<1> HIDE DEF sorted
<1>3. CASE order = <<1>>
  <2>1. /\ DOMAIN sorted = {1} /\ Len(sorted) = 1 /\ sorted[1] = out[1] /\ 1..Len(sorted) = {1}
        /\ out[1].url.of = 1 /\ out[1].meta = "none"
        /\ out[1].sha = M!NoSha \/ out[1].sha = M!Digest(thing, 1)
    BY <1>2, <1>3
  <2> QED
    BY <1>2, <2>1 DEF sorted
<1>4. CASE order \in {<<1, 2>>, <<2, 1>>}
  <2>1. /\ DOMAIN sorted = {1, 2} /\ Len(sorted) = 2 /\ 1..Len(sorted) = {1, 2} /\ Len(out) = 2
        /\ order[1] \in M!Objects /\ order[2] \in M!Objects /\ {order[1], order[2]} = {1, 2}
        /\ out[1] \in Assets /\ out[2] \in Assets
    BY <1>2, <1>4 DEF M!Objects
  <2>2. /\ out[1].url.of = order[1] /\ out[2].url.of = order[2] /\ out[1].meta = "none"
             /\ out[2].meta = "none"
        /\ \/ out[1].sha = M!NoSha /\ out[2].sha = M!NoSha
           \/ out[1].sha = M!Digest(thing, order[1]) /\ out[2].sha = M!Digest(thing, order[2])
    BY <1>4
  <2>3. /\ {sorted[1].url.of, sorted[2].url.of} = {1, 2} /\ sorted[1].meta = "none"
             /\ sorted[2].meta = "none"
        /\ (sorted[1] = out[1] /\ sorted[2] = out[2]) \/ (sorted[1] = out[2] /\ sorted[2] = out[1])
    <3>1. CASE sorted[1] = out[1] /\ sorted[2] = out[2]
      BY <2>1, <2>2, <3>1
    <3>2. CASE sorted[1] = out[2] /\ sorted[2] = out[1]
      BY <2>1, <2>2, <3>2
    <3>3. (\A k \in 1..Len(out) : sorted[k] = out[k]) => sorted[1] = out[1] /\ sorted[2] = out[2]
      BY <2>1
    <3> QED
      BY <1>2, <3>1, <3>2, <3>3
  <2>4. {sorted[k].url.of : k \in DOMAIN sorted} = 1..Len(sorted)
    BY <2>1, <2>3
  <2>5. CASE out[1].sha = M!NoSha /\ out[2].sha = M!NoSha
    BY <1>2, <2>1, <2>3, <2>4, <2>5 DEF sorted
  <2>6. CASE out[1].sha = M!Digest(thing, order[1]) /\ out[2].sha = M!Digest(thing, order[2])
    <3>1. M!ProvenanceKey("1.5", out[1]) = 10 * order[1]
          /\ M!ProvenanceKey("1.5", out[2]) = 10 * order[2]
      BY <2>1, <2>2, <2>6, KeyOfDigest
    <3>2. \/ order[1] = 1 /\ order[2] = 2 /\ sorted[1] = out[1] /\ sorted[2] = out[2]
          \/ order[1] = 2 /\ order[2] = 1 /\ sorted[1] = out[2] /\ sorted[2] = out[1]
      BY <1>2, <1>4, <2>1, <2>3, <3>1
    <3>3. sorted[1].sha = M!Digest(thing, 1) /\ sorted[2].sha = M!Digest(thing, 2)
      BY <2>6, <3>2
    <3> QED
      BY <1>2, <2>1, <2>3, <2>4, <3>3 DEF sorted
  <2> QED
    BY <2>2, <2>5, <2>6
<1> QED
  BY <1>3, <1>4

(* An ingest keeps the invariant. *)
LEMMA IngestKept ==
  ASSUME CustodyInv, NEW thing \in Makes, NEW order \in {<<1, 2>>, <<2, 1>>, << 1 >>},
         NEW hashed \in BOOLEAN,
         NEW sink \in BOOLEAN, M!Ingest(thing, order, hashed, sink)
  PROVE  CustodyInv'
<1> DEFINE given == [k \in 1..Len(order) |->
                       M!Asset(<<M!Serial, k>>, order[k], IF hashed THEN M!Digest(thing,
                         order[k]) ELSE M!NoSha, "none")]
           put == [k \in DOMAIN given |-> IF sink THEN M!Moved(given[k], thing) ELSE given[k]]
           out == [k \in DOMAIN given |-> put[k]]
           r == [id |-> M!Serial, ops |-> 0, made |-> thing, job |-> "none", shape |-> "today",
                 attempts |-> <<>>, outputs |-> M!Sorted(out)]
           no == FALSE
           written == M!NewManifest("1.5", r, no)
<1>1. /\ mem' = [written EXCEPT !.uri = sink] /\ thing \notin Secret
      /\ fresh' = mem' /\ prior' = fresh
      /\ IF sink THEN M!Keep(mem') ELSE doc' = M!Nothing /\ origin' = M!Nothing /\ edits' = <<>>
  BY DEF M!Ingest, M!InOrderOfContent
<1>2. M!Serial \in Nat
  BY SerialIsNat
<1>3. \A k \in 1..Len(order) :
        /\ order[k] \in M!Objects /\ <<M!Serial, k>> \in Seq(Nat) /\ "none" \in M!Metas
        /\ (IF hashed THEN M!Digest(thing, order[k]) ELSE M!NoSha) \in Shas
  <2>1. \A k \in 1..Len(order) : order[k] \in M!Objects /\ k \in Nat
    BY DEF M!Objects
  <2> QED
    BY <1>2, <2>1 DEF Shas, M!Metas
<1>4. /\ DOMAIN given = 1..Len(order)
      /\ \A k \in 1..Len(order) :
           /\ given[k] \in Assets /\ given[k].url.of = order[k] /\ given[k].meta = "none"
           /\ given[k].sha = IF hashed THEN M!Digest(thing, order[k]) ELSE M!NoSha
  <2>1. DOMAIN given = 1..Len(order)
    OBVIOUS
  <2>2. ASSUME NEW k \in 1..Len(order)
        PROVE  /\ given[k] \in Assets /\ given[k].url.of = order[k] /\ given[k].meta = "none"
               /\ given[k].sha = IF hashed THEN M!Digest(thing, order[k]) ELSE M!NoSha
    <3> DEFINE sha == IF hashed THEN M!Digest(thing, order[k]) ELSE M!NoSha
               i == <<M!Serial, k>>
               o == order[k]
    <3>1. given[k] = M!Asset(i, o, sha, "none")
      OBVIOUS
    <3>2. o \in M!Objects /\ i \in Seq(Nat) /\ "none" \in M!Metas /\ sha \in Shas
      BY <1>3
    <3> HIDE DEF given, sha, i, o
    <3>3. /\ M!Asset(i, o, sha, "none") \in Assets /\ M!Asset(i, o, sha, "none").url.of = o
          /\ M!Asset(i, o, sha, "none").meta = "none" /\ M!Asset(i, o, sha, "none").sha = sha
      BY <3>2, AssetIs
    <3> QED
      BY <3>1, <3>3 DEF sha, o
  <2> QED
    BY <2>1, <2>2
<1> HIDE DEF given
<1>5. /\ DOMAIN put = 1..Len(order)
      /\ \A k \in 1..Len(order) :
           /\ put[k] \in Assets /\ put[k].url.of = order[k] /\ put[k].meta = "none"
           /\ put[k].sha = IF hashed \/ sink THEN M!Digest(thing, order[k]) ELSE M!NoSha
  <2>1. \A k \in 1..Len(order) : put[k] = IF sink THEN M!Moved(given[k], thing) ELSE given[k]
    BY <1>4
  <2> HIDE DEF put
  <2>2. CASE sink
    BY <1>4, <2>1, <2>2, MovedIs DEF put
  <2>3. CASE ~sink
    BY <1>4, <2>1, <2>3 DEF put
  <2> QED
    BY <2>2, <2>3
<1> HIDE DEF put
<1>6. /\ out \in Seq(Assets) /\ Len(out) = Len(order)
      /\ \A k \in 1..Len(order) : out[k].url.of = order[k] /\ out[k].meta = "none"
      /\ \/ \A k \in 1..Len(order) : out[k].sha = M!NoSha
         \/ \A k \in 1..Len(order) : out[k].sha = M!Digest(thing, order[k])
  BY <1>4, <1>5
<1> HIDE DEF out
<1>7. /\ M!Sorted(out) \in Seq(Assets) /\ Len(M!Sorted(out)) > 0
      /\ {M!Sorted(out)[k].url.of : k \in DOMAIN M!Sorted(out)} = 1..Len(M!Sorted(out))
      /\ \A k \in DOMAIN M!Sorted(out) : M!Sorted(out)[k].meta = "none"
      /\ \/ \A k \in DOMAIN M!Sorted(out) : M!Sorted(out)[k].sha = M!NoSha
         \/ \A k \in DOMAIN M!Sorted(out) : M!Sorted(out)[k].sha = M!Digest(thing, k)
  BY <1>6, SortedIsByContent
<1>8. /\ r \in RunRecords /\ r.job = "none" /\ r.made = thing /\ r.attempts = <<>>
           /\ r.shape = "today" /\ r.outputs = M!Sorted(out)
  BY <1>2, <1>7 DEF RunRecords
<1> HIDE DEF r, no
<1>9. /\ IsManifest(written) /\ written.schema = "1.5" /\ written.run = r
      /\ written.hash = M!HashPayload("1.5", r)
  BY <1>8, NewIsHashed
<1> HIDE DEF written
<1>10. /\ IsManifest(mem') /\ mem'.schema = "1.5" /\ mem'.run = r /\ mem'.hash = M!HashPayload("1.5", r)
  <2>1. mem' = WithUri(written, sink)
    BY <1>1 DEF WithUri
  <2> QED
    BY <1>9, <2>1, ManifestEdits
<1>11. MemoryKept'
  BY <1>1, <1>8, <1>10 DEF MemoryKept, M!HashVerifies
<1>12. Ingested(mem)'
  BY <1>7, <1>8, <1>10 DEF Ingested, M!HashVerifies
<1>13. mem' # M!Nothing
  BY <1>10 DEF M!Nothing
<1>14. HashIsTheOrigins' /\ PayloadIsTheOrigins'
  <2>1. CASE sink
    <3>1. Consistent(mem')
      BY <1>1, <1>8, <1>10 DEF Consistent, M!Version
    <3> QED
      BY <1>1, <2>1, <3>1, KeptIsTheOrigins
  <2>2. CASE ~sink
    BY <1>1, <2>2, NoDocument
  <2> QED
    BY <2>1, <2>2
<1> QED
  BY <1>1, <1>11, <1>12, <1>13, <1>14, NewRunKept DEF CustodyInv

(* The sink keeps the invariant, whichever transfers fail. *)
LEMMA WriteRunKept ==
  ASSUME CustodyInv, NEW failed, M!WriteRun(failed) PROVE CustodyInv'
<1> DEFINE its == mem.run
           unsent == {k \in DOMAIN its.outputs : ~M!Transferred(its.outputs[k])}
           sent == unsent \ failed
           outs == [k \in DOMAIN its.outputs |-> IF k \in sent THEN M!Moved(its.outputs[k], its.made)
                                                 ELSE its.outputs[k]]
           after == [mem EXCEPT
                       !.run.outputs = [k \in DOMAIN @ |-> IF k \in sent THEN M!Moved(@[k],
                         its.made) ELSE @[k]],
                       !.failures = failed]
           r == [its EXCEPT !.outputs = outs]
           yes == TRUE
<1>1. /\ mem # M!Nothing /\ UNCHANGED <<fresh, prior>>
      /\ IF failed # {} THEN mem' = M!Hashed(after) /\ UNCHANGED <<doc, origin, edits>>
         ELSE /\ mem' = [M!Hashed(after) EXCEPT !.uri = yes]
              /\ IF doc = M!Nothing THEN M!Keep(M!Hashed(after)) ELSE UNCHANGED <<doc, origin, edits>>
  BY DEF M!WriteRun
<1>2. after = WithFailures(WithRun(mem, r), failed)
  BY DEF WithRun, WithFailures
<1> HIDE DEF after, yes
<1>3. /\ IsManifest(mem) /\ its \in RunRecords /\ its.made \in Makes /\ its.shape = "today"
      /\ its.made \in Secret => mem.scheme
      /\ mem.schema \in {"1.3", "1.5"}
  BY <1>1 DEF CustodyInv, MemoryKept, IsManifest
<1>4. outs \in Seq(Assets)
  <2>1. its.outputs \in Seq(Assets) /\ its.made \in Makes \cup {"edited"}
    BY <1>3, RunFields
  <2> HIDE DEF its, sent
  <2>2. \A k \in DOMAIN its.outputs : M!Moved(its.outputs[k], its.made) \in Assets
    BY <2>1, MovedIs
  <2> QED
    BY <2>1, <2>2
<1> HIDE DEF outs
<1>5. r \in RunRecords /\ r.made = its.made /\ r.shape = its.shape
  <2>1. r = RunWith(its.ops, its.id, its.made, its.job, its.shape, its.attempts, outs)
    BY <1>3, RunFields
  <2>2. /\ its.ops \in {0, 1} /\ its.id \in Nat /\ its.made \in Makes \cup {"edited"}
        /\ its.job \in Jobs \cup {"none", "edited"} /\ its.attempts \in Seq(Attempts)
        /\ its.shape \in {"before", "today"}
    BY <1>3, RunFields
  <2> HIDE DEF r, its
  <2> QED
    BY <1>4, <2>1, <2>2 DEF RunWith, RunRecords
<1> HIDE DEF r
<1>6. IsManifest(after) /\ after.run = r /\ after.schema = mem.schema /\ after.scheme = mem.scheme
  <2> DEFINE w == WithRun(mem, r)
  <2>1. IsManifest(w) /\ w.run = r /\ w.schema = mem.schema /\ w.scheme = mem.scheme
    BY <1>3, <1>5, ManifestEdits
  <2> HIDE DEF w
  <2>2. after = WithFailures(w, failed)
    BY <1>2 DEF w
  <2> QED
    BY <2>1, <2>2, ManifestEdits
<1> DEFINE h == M!Hashed(after)
<1>7. /\ IsManifest(h) /\ h.run = r /\ h.schema = mem.schema /\ h.hash = M!HashPayload(mem.schema, r)
      /\ h.scheme = mem.scheme
  BY <1>6, HashedIsHashed
<1>8. mem' = h \/ mem' = WithUri(h, yes)
  BY <1>1 DEF WithUri
<1> HIDE DEF h
<1>9. /\ IsManifest(mem') /\ mem'.run = r /\ mem'.schema = mem.schema
           /\ mem'.hash = M!HashPayload(mem.schema, r)
      /\ mem'.scheme = mem.scheme
  BY <1>7, <1>8, ManifestEdits
<1>10. MemoryKept'
  BY <1>3, <1>5, <1>9 DEF MemoryKept, M!HashVerifies
<1>11. HashIsTheOrigins' /\ PayloadIsTheOrigins'
  <2>1. CASE UNCHANGED <<doc, origin, edits>>
    BY <2>1, DocumentStill DEF CustodyInv
  <2>2. CASE M!Keep(h)
    <3>1. Consistent(h)
      BY <1>3, <1>5, <1>7 DEF Consistent, M!Version
    <3> QED
      BY <2>2, <3>1, KeptIsTheOrigins
  <2> QED
    BY <1>1, <2>1, <2>2 DEF h
<1>12. Ingested(fresh)' /\ Ingested(prior)'
  BY <1>1 DEF CustodyInv, Ingested, M!HashVerifies
<1> QED
  BY <1>1, <1>10, <1>11, <1>12 DEF CustodyInv

(* A step on the document alone keeps the invariant if it keeps what is      *)
(* asked of the document.                                                    *)
LEMMA MemoryStill ==
  ASSUME CustodyInv, UNCHANGED <<mem, fresh, prior>>, HashIsTheOrigins', PayloadIsTheOrigins'
  PROVE  CustodyInv'
BY DEF CustodyInv, MemoryKept, Ingested, M!HashVerifies

(* Publishing keeps the invariant. *)
LEMMA PublishKept ==
  ASSUME CustodyInv, M!Publish PROVE CustodyInv'
<1>1. mem # M!Nothing /\ M!Keep(mem) /\ UNCHANGED <<mem, fresh, prior>>
  BY DEF M!Publish
<1>2. Consistent(mem)
  <2>1. mem.schema # "missing"
    BY <1>1 DEF CustodyInv, MemoryKept
  <2> QED
    BY <1>1, <2>1 DEF CustodyInv, MemoryKept, M!HashVerifies, Consistent, M!Version
<1> QED
  BY <1>1, <1>2, KeptIsTheOrigins, MemoryStill

(* So does a writer of another version. *)
LEMMA PublishedElsewhereKept ==
  ASSUME CustodyInv, NEW s \in {"missing", "1.6", "2.0"}, NEW meta \in M!Metas,
         NEW shape \in {"before", "today"}, M!PublishedElsewhere(s, meta, shape)
  PROVE  CustodyInv'
<1> DEFINE a == [mem.run.outputs[1] EXCEPT !.meta = meta]
           outs == [mem.run.outputs EXCEPT ![1] = a]
           w == [mem.run EXCEPT !.outputs = outs]
           r == [w EXCEPT !.shape = shape]
           z == IF s = "missing" THEN "1.0" ELSE s
           m == M!NewManifest(z, r, mem.scheme)
<1>1. /\ mem # M!Nothing /\ mem.run.outputs # <<>> /\ UNCHANGED <<mem, fresh, prior>>
      /\ M!Keep(WithSchema(m, s))
  BY DEF M!PublishedElsewhere, WithSchema
<1>2. mem.run \in RunRecords /\ (mem.run.made \in Secret => mem.scheme)
  BY <1>1 DEF CustodyInv, MemoryKept, IsManifest
<1>3. outs \in Seq(Assets)
  <2>1. mem.run.outputs \in Seq(Assets) /\ mem.run.outputs[1] \in Assets
    BY <1>1, <1>2, RunFields
  <2>2. a \in Assets
    BY <2>1, AssetEdits
  <2> HIDE DEF a
  <2> DEFINE q == mem.run.outputs
  <2>3. q \in Seq(Assets) /\ q # <<>>
    BY <1>1, <2>1
  <2> HIDE DEF q
  <2>4. 1 \in 1..Len(q)
    BY <2>3
  <2>5. [q EXCEPT ![1] = a] \in Seq(Assets)
    BY <2>2, <2>3, <2>4, ExceptSeq
  <2> QED
    BY <2>5 DEF q
<1> HIDE DEF outs
<1>4. r \in RunRecords /\ r.made = mem.run.made
  <2> DEFINE its == mem.run
  <2>4. /\ w = RunWith(its.ops, its.id, its.made, its.job, its.shape, its.attempts, outs)
        /\ its.shape \in {"before", "today"}
    BY <1>2, RunFields
  <2>3. w \in RunRecords
    <3>1. /\ its.ops \in {0, 1} /\ its.id \in Nat /\ its.made \in Makes \cup {"edited"}
          /\ its.job \in Jobs \cup {"none", "edited"} /\ its.attempts \in Seq(Attempts)
      BY <1>2, RunFields
    <3> HIDE DEF w, its
    <3> QED
      BY <1>3, <2>4, <3>1 DEF RunWith, RunRecords
  <2> HIDE DEF w
  <2>5. r = RunWith(w.ops, w.id, w.made, w.job, shape, w.attempts, w.outputs)
    BY <2>3, RunFields
  <2>1. r = RunWith(its.ops, its.id, its.made, its.job, shape, its.attempts, outs)
    BY <2>4, <2>5 DEF RunWith
  <2> HIDE DEF its, r
  <2> USE DEF its
  <2>2. /\ mem.run.ops \in {0, 1} /\ mem.run.id \in Nat /\ mem.run.made \in Makes \cup {"edited"}
        /\ mem.run.job \in Jobs \cup {"none", "edited"} /\ mem.run.attempts \in Seq(Attempts)
    BY <1>2, RunFields
  <2> HIDE DEF r
  <2> QED
    BY <1>3, <2>1, <2>2 DEF RunWith, RunRecords
<1> HIDE DEF r
<1>5. IsManifest(m) /\ m.schema = z /\ m.run = r /\ m.hash = M!HashPayload(z, r)
      /\ m.scheme = mem.scheme
  BY <1>4, NewIsHashed
<1> HIDE DEF m
<1> DEFINE d == WithSchema(m, s)
<1>6. IsManifest(d) /\ d.schema = s /\ d.run = r /\ d.hash = M!HashPayload(z, r)
      /\ d.scheme = mem.scheme
  BY <1>5, ManifestEdits
<1> HIDE DEF d, z
<1>7. Consistent(d)
  <2>1. M!Version(d) = z
    BY <1>6 DEF M!Version, z
  <2> QED
    BY <1>2, <1>4, <1>6, <2>1 DEF Consistent
<1>8. HashIsTheOrigins' /\ PayloadIsTheOrigins'
  BY <1>1, <1>7, KeptIsTheOrigins DEF d
<1> QED
  BY <1>1, <1>8, MemoryStill

(* So does signing. *)
LEMMA SignKept ==
  ASSUME CustodyInv, M!Sign PROVE CustodyInv'
<1> DEFINE h == M!HashPayload(mem.schema, mem.run)
<1>1. mem # M!Nothing /\ mem' = WithSig(mem, h) /\ UNCHANGED <<fresh, prior, doc, origin, edits>>
  BY DEF M!Sign, WithSig
<1> HIDE DEF h
<1>2. IsManifest(mem)
  BY <1>1 DEF CustodyInv, MemoryKept
<1>3. /\ IsManifest(mem') /\ mem'.run = mem.run /\ mem'.schema = mem.schema /\ mem'.hash = mem.hash
      /\ mem'.scheme = mem.scheme
  BY <1>1, <1>2, ManifestEdits
<1>4. MemoryKept'
  BY <1>1, <1>3 DEF CustodyInv, MemoryKept, M!HashVerifies
<1>5. HashIsTheOrigins' /\ PayloadIsTheOrigins'
  BY <1>1, DocumentStill DEF CustodyInv
<1>6. Ingested(fresh)' /\ Ingested(prior)'
  BY <1>1 DEF CustodyInv, Ingested, M!HashVerifies
<1> QED
  BY <1>1, <1>4, <1>5, <1>6 DEF CustodyInv

-----------------------------------------------------------------------------
(* What is done to the document. *)
LEMMA OperationalIsHarmless ==
  ASSUME CustodyInv, doc # M!Nothing, Untouched, NEW how \in Hows, how \in M!Operational
  PROVE  Harmless(how, origin.schema, doc)
<1>1. CASE how \in {"ops", "uri", "failures", "nulls"}
  BY <1>1 DEF Harmless
<1>2. CASE how \in {"ids", "assetId", "presigned"}
  BY <1>2 DEF Harmless, M!Operational
<1>3. CASE how = "mirrored"
  <2>1. /\ ~M!Policy(origin.schema).randomIds
        /\ M!Policy(origin.schema).markUnhashed =>
             \A k \in DOMAIN origin.run.outputs : M!ValidSha(origin.run.outputs[k].sha)
    BY <1>3 DEF M!Operational
  <2>2. /\ doc.run \in RunRecords /\ origin.run \in RunRecords
        /\ ReadPayload(origin.schema, doc.run) = ReadPayload(origin.schema, origin.run)
    BY DEF CustodyInv, HashIsTheOrigins, PayloadIsTheOrigins, IsManifest
  <2>3. /\ DOMAIN doc.run.outputs = DOMAIN origin.run.outputs
        /\ \A k \in DOMAIN doc.run.outputs : doc.run.outputs[k].sha = origin.run.outputs[k].sha
    <3> DEFINE x == doc.run
               w == origin.run
               z == origin.schema
    <3>1. x \in RunRecords /\ w \in RunRecords /\ ReadPayload(z, x) = ReadPayload(z, w)
      BY <2>2
    <3> HIDE DEF x, w, z
    <3>2. /\ DOMAIN x.outputs = DOMAIN w.outputs
          /\ \A k \in DOMAIN x.outputs : x.outputs[k].sha = w.outputs[k].sha
      BY <3>1, ReadTells
    <3> QED
      BY <3>2 DEF x, w
  <2> QED
    BY <1>3, <2>1, <2>3 DEF Harmless
<1> QED
  BY <1>1, <1>2, <1>3 DEF Hows, M!Operational

(* So does an edit by hand, which may end what is asked of the payload,      *)
(* never of the hash.                                                        *)
LEMMA AmendKept ==
  ASSUME CustodyInv, M!Amend PROVE CustodyInv'
<1>1. doc # M!Nothing /\ IsManifest(doc) /\ edits \in Seq(Hows \cup {"bytes"})
      /\ UNCHANGED <<mem, fresh, prior, origin>>
  BY DEF M!Amend, M!MayChange, CustodyInv, HashIsTheOrigins, PayloadIsTheOrigins
<1>2. PICK a \in M!Amended(doc) : doc' = a.d /\ edits' = Append(edits, a.how)
  BY DEF M!Amend
<1> DEFINE how == a.how
<1>3. EditIsFair(origin.schema, doc, how, doc')
  BY <1>1, <1>2, AmendedIsFair
<1>4. HashIsTheOrigins'
  BY <1>1, <1>3 DEF CustodyInv, HashIsTheOrigins, EditIsFair
<1>5. edits' = Append(edits, how) /\ how \in Hows
  BY <1>2, <1>3 DEF EditIsFair
<1> HIDE DEF how
<1>6. edits' \in Seq(Hows \cup {"bytes"})
  BY <1>1, <1>5
<1>7. Untouched' => Untouched /\ how \in M!Operational
  <2>1. /\ DOMAIN edits' = 1..(Len(edits) + 1) /\ DOMAIN edits = 1..Len(edits) /\ Len(edits) \in Nat
        /\ edits'[Len(edits) + 1] = how /\ \A k \in 1..Len(edits) : edits'[k] = edits[k]
    BY <1>1, <1>5
  <2>2. M!Operational' = M!Operational
    BY <1>1 DEF M!Operational
  <2> QED
    BY <2>1, <2>2 DEF Untouched
<1>8. PayloadIsTheOrigins'
  <2> SUFFICES ASSUME Untouched'
               PROVE  /\ M!Version(doc') = origin.schema
                      /\ ReadPayload(origin.schema, doc'.run) = ReadPayload(origin.schema,
                           origin.run)
                      /\ doc'.run.made \in Secret => doc'.scheme
    BY <1>1, <1>6 DEF PayloadIsTheOrigins, M!Version
  <2>1. Harmless(how, origin.schema, doc)
    BY <1>1, <1>5, <1>7, OperationalIsHarmless
  <2>2. /\ IsManifest(doc') /\ doc'.schema = doc.schema /\ doc'.scheme = doc.scheme
        /\ doc'.run.made = doc.run.made
        /\ ReadPayload(origin.schema, doc'.run) = ReadPayload(origin.schema, doc.run)
    BY <1>3, <2>1 DEF EditIsFair
  <2>3. /\ M!Version(doc) = origin.schema
        /\ ReadPayload(origin.schema, doc.run) = ReadPayload(origin.schema, origin.run)
        /\ doc.run.made \in Secret => doc.scheme
    BY <1>1, <1>7 DEF CustodyInv, PayloadIsTheOrigins
  <2>4. M!Version(doc') = M!Version(doc)
    BY <2>2 DEF M!Version
  <2> QED
    BY <2>2, <2>3, <2>4
<1> QED
  BY <1>1, <1>4, <1>8, MemoryStill

(* So does a reader that saves what it parsed: the payload normalises what   *)
(* it writes.                                                                *)
LEMMA ResaveKept ==
  ASSUME CustodyInv, M!Resave PROVE CustodyInv'
<1> DEFINE m == M!Migrated(doc)
           outs == [k \in DOMAIN m.run.outputs |->
                      [m.run.outputs[k] EXCEPT !.meta = M!Normal(m.run.outputs[k].meta)]]
           r == [m.run EXCEPT !.outputs = outs]
<1>1. doc # M!Nothing /\ doc' = WithRun(m, r) /\ UNCHANGED <<mem, fresh, prior, origin, edits>>
  <2>1. /\ doc # M!Nothing /\ UNCHANGED <<mem, fresh, prior, origin, edits>>
        /\ doc' = [m EXCEPT !.run.outputs = [k \in DOMAIN doc.run.outputs |->
                     [doc.run.outputs[k] EXCEPT !.meta = M!Normal(doc.run.outputs[k].meta)]]]
    BY DEF M!Resave
  <2>2. m.run.outputs = doc.run.outputs
    BY <2>1, MigratedKeeps DEF CustodyInv, HashIsTheOrigins
  <2>3. doc' = [m EXCEPT !.run = [m.run EXCEPT !.outputs = outs]]
    BY <2>1, <2>2
  <2> QED
    BY <2>1, <2>3 DEF WithRun
<1>2. /\ IsManifest(m) /\ m.run = M!Parsed(doc.run) /\ m.hash = doc.hash /\ m.sig = doc.sig
           /\ m.scheme = doc.scheme /\ m.run.made = doc.run.made
      /\ m.schema = M!Version(doc) /\ doc.run \in RunRecords
  BY <1>1, MigratedKeeps DEF CustodyInv, HashIsTheOrigins, IsManifest
<1> HIDE DEF m
<1>3. m.run \in RunRecords /\ m.run.outputs \in Seq(Assets)
  BY <1>2, RunFields DEF IsManifest
<1>4. /\ outs \in Seq(Assets) /\ DOMAIN outs = DOMAIN m.run.outputs
      /\ \A s : \A k \in DOMAIN outs : M!HashedAsset(s, outs[k]) = M!HashedAsset(s, m.run.outputs[k])
  <2>1. ASSUME NEW a \in Assets, NEW s
        PROVE  /\ [a EXCEPT !.meta = M!Normal(a.meta)] \in Assets
               /\ M!HashedAsset(s, [a EXCEPT !.meta = M!Normal(a.meta)]) = M!HashedAsset(s, a)
    <3> DEFINE b == [a EXCEPT !.meta = M!Normal(a.meta)]
    <3>1. M!Normal(a.meta) \in M!Metas /\ M!Normal(M!Normal(a.meta)) = M!Normal(a.meta)
      BY DEF Assets, M!Normal, M!Metas
    <3>2. b \in Assets /\ b.sha = a.sha /\ b.id = a.id /\ b.url = a.url /\ b.meta = M!Normal(a.meta)
      BY <3>1, AssetEdits
    <3> HIDE DEF b
    <3>3. M!StripAsset(b, M!Policy(s).markUnhashed) = M!StripAsset(a, M!Policy(s).markUnhashed)
      BY <3>1, <3>2 DEF M!StripAsset
    <3>4. [b EXCEPT !.meta = M!Normal(b.meta)] = [a EXCEPT !.meta = M!Normal(a.meta)]
      <4>1. \A c \in Assets : c = [id |-> c.id, url |-> c.url, sha |-> c.sha, meta |-> c.meta]
        BY DEF Assets
      <4>2. [b EXCEPT !.meta = M!Normal(b.meta)] = b
        <5>1. M!Normal(b.meta) = b.meta
          BY <3>1, <3>2
        <5> QED
          BY <3>2, <5>1 DEF Assets
      <4> QED
        BY <4>2 DEF b
    <3> QED
      BY <3>2, <3>3, <3>4 DEF M!HashedAsset, b
  <2>2. \A k \in DOMAIN m.run.outputs : m.run.outputs[k] \in Assets
    BY <1>3
  <2>3. \A k \in DOMAIN m.run.outputs : outs[k] \in Assets
    BY <2>1, <2>2
  <2>4. \A s : \A k \in DOMAIN m.run.outputs : M!HashedAsset(s, outs[k]) = M!HashedAsset(s,
        m.run.outputs[k])
    BY <2>1, <2>2
  <2>5. DOMAIN outs = DOMAIN m.run.outputs
    OBVIOUS
  <2>6. outs = [k \in DOMAIN m.run.outputs |-> outs[k]]
    OBVIOUS
  <2> HIDE DEF outs
  <2>7. outs \in Seq(Assets)
    BY <1>3, <2>3, <2>6
  <2> QED
    BY <2>4, <2>5, <2>7
<1> HIDE DEF outs
<1>5. /\ r \in RunRecords /\ r.id = m.run.id /\ r.made = m.run.made /\ r.job = m.run.job
           /\ r.attempts = m.run.attempts
      /\ r.outputs = outs
  <2>1. r = RunWith(m.run.ops, m.run.id, m.run.made, m.run.job, m.run.shape, m.run.attempts, outs)
    BY <1>3, RunFields
  <2>2. /\ m.run.ops \in {0, 1} /\ m.run.id \in Nat /\ m.run.made \in Makes \cup {"edited"}
        /\ m.run.job \in Jobs \cup {"none", "edited"} /\ m.run.attempts \in Seq(Attempts)
        /\ m.run.shape \in {"before", "today"}
    BY <1>3, RunFields
  <2> HIDE DEF r
  <2> QED
    BY <1>4, <2>1, <2>2 DEF RunWith, RunRecords
<1> HIDE DEF r
<1>6. ReadPayload(origin.schema, r) = ReadPayload(origin.schema, doc.run)
  <2> DEFINE q == m.run
  <2>1. q = M!Parsed(doc.run) /\ doc.run \in RunRecords /\ q \in RunRecords
    BY <1>2, <1>3
  <2>2. M!Parsed(q) = q
    BY <2>1, ParsedIs
  <2>3. ReadPayload(origin.schema, r) = ReadPayload(origin.schema, q)
    BY <1>3, <1>4, <1>5, SamePayload
  <2> HIDE DEF q
  <2>4. ReadPayload(origin.schema, q) = ReadPayload(origin.schema, doc.run)
    BY <2>1, <2>2 DEF ReadPayload
  <2> QED
    BY <2>3, <2>4
<1>7. /\ IsManifest(doc') /\ doc'.run = r /\ doc'.schema = m.schema /\ doc'.hash = m.hash
           /\ doc'.sig = m.sig
      /\ doc'.scheme = m.scheme
  <2> DEFINE e == WithRun(m, r)
  <2>1. IsManifest(m) /\ r \in RunRecords
    BY <1>2, <1>5
  <2>2. /\ IsManifest(e) /\ e.run = r /\ e.schema = m.schema /\ e.hash = m.hash /\ e.sig = m.sig
        /\ e.scheme = m.scheme
    BY <2>1, ManifestEdits
  <2> HIDE DEF e
  <2>3. doc' = e
    BY <1>1 DEF e
  <2> QED
    BY <2>2, <2>3
<1>8. HashIsTheOrigins'
  BY <1>1, <1>2, <1>7 DEF CustodyInv, HashIsTheOrigins
<1>9. Untouched' <=> Untouched
  BY <1>1 DEF Untouched, M!Operational
<1>10. M!Version(doc') = m.schema
  BY <1>2, <1>7 DEF M!Version
<1>11. PayloadIsTheOrigins'
  <2> SUFFICES ASSUME Untouched
               PROVE  /\ M!Version(doc') = origin.schema
                      /\ ReadPayload(origin.schema, doc'.run) = ReadPayload(origin.schema,
                           origin.run)
                      /\ doc'.run.made \in Secret => doc'.scheme
    BY <1>1, <1>9 DEF CustodyInv, PayloadIsTheOrigins, M!Version
  <2>1. /\ m.schema = origin.schema
        /\ ReadPayload(origin.schema, doc.run) = ReadPayload(origin.schema, origin.run)
        /\ doc.run.made \in Secret => doc.scheme
    BY <1>1, <1>2 DEF CustodyInv, PayloadIsTheOrigins
  <2> QED
    BY <1>2, <1>5, <1>6, <1>7, <1>10, <2>1
<1> QED
  BY <1>1, <1>8, <1>11, MemoryStill

(* So does a change of stored bytes. *)
LEMMA RotKept ==
  ASSUME CustodyInv, M!Rot PROVE CustodyInv'
<1>1. edits \in Seq(Hows \cup {"bytes"}) /\ edits' = Append(edits, "bytes")
      /\ UNCHANGED <<mem, fresh, prior, doc, origin>>
  BY DEF M!Rot, CustodyInv, PayloadIsTheOrigins
<1>2. edits' \in Seq(Hows \cup {"bytes"})
  BY <1>1
<1>3. Untouched' => Untouched
  <2>1. /\ DOMAIN edits' = 1..(Len(edits) + 1) /\ DOMAIN edits = 1..Len(edits) /\ Len(edits) \in Nat
        /\ \A k \in 1..Len(edits) : edits'[k] = edits[k]
    BY <1>1
  <2>2. M!Operational' = M!Operational
    BY <1>1 DEF M!Operational
  <2> QED
    BY <2>1, <2>2 DEF Untouched
<1>4. HashIsTheOrigins'
  BY <1>1 DEF CustodyInv, HashIsTheOrigins
<1>5. PayloadIsTheOrigins'
  BY <1>1, <1>2, <1>3 DEF CustodyInv, PayloadIsTheOrigins, M!Version
<1> QED
  BY <1>1, <1>4, <1>5, MemoryStill

(* It holds at first. *)
LEMMA CustodyStarts == M!Init => CustodyInv
<1> SUFFICES ASSUME M!Init PROVE CustodyInv
  OBVIOUS
<1>1. edits \in Seq(Hows \cup {"bytes"})
  BY DEF M!Init
<1> QED
  BY <1>1 DEF M!Init, CustodyInv, MemoryKept, HashIsTheOrigins, PayloadIsTheOrigins, Ingested

(* The invariant holds of every manifest, for any requests and jobs and any  *)
(* number of edits.                                                          *)
THEOREM CustodyInvariance ==
  ASSUME JobsAreNamed
  PROVE  /\ M!Spec => []CustodyInv
         /\ MCSpec => []CustodyInv
<1>1. CustodyInv /\ [M!Next]_M!vars => CustodyInv'
  <2> SUFFICES ASSUME CustodyInv, [M!Next]_M!vars PROVE CustodyInv'
    OBVIOUS
  <2>1. CASE UNCHANGED M!vars
    BY <2>1, DocumentStill, MemoryStill DEF M!vars, CustodyInv
  <2>2. ASSUME NEW s \in {"1.3", "1.5"}, NEW thing \in Makes, NEW ticket \in Jobs, NEW n \in 0..2,
               NEW declared \in BOOLEAN,
               M!Execute(s, thing, ticket, n, declared, n = 1)
        PROVE  CustodyInv'
    <3>1. (n = 1) \in BOOLEAN
      OBVIOUS
    <3> QED
      BY <2>2, <3>1, ExecuteKept, Zenon
  <2> QED
    BY <2>1, <2>2, IngestKept, WriteRunKept, PublishKept, PublishedElsewhereKept, SignKept, AmendKept,
       ResaveKept,
       RotKept DEF M!Next
<1>2. MCInit => M!Init
  BY DEF MCInit
<1>3. [MCNext]_all => [M!Next]_M!vars
  <2>1. OneCustody => M!Next
    BY DEF OneCustody, M!Next
  <2> QED
    BY <2>1 DEF MCNext, Sinking, all, custodyVars, M!vars
<1> QED
  BY <1>1, <1>2, <1>3, CustodyStarts, PTL DEF M!Spec, MCSpec

-----------------------------------------------------------------------------
(* A hash that verifies, or a signature that was made of the original, is of *)
(* the content that was written.                                             *)
LEMMA VerifiedIsTheOrigins ==
  ASSUME CustodyInv, doc # M!Nothing,
         M!HashVerifies(M!Migrated(doc)) \/ (origin.sealed /\ M!Sealed(M!Migrated(doc)))
  PROVE  M!SameContent(doc.run)
<1> DEFINE p == M!Parsed(doc.run)
<1>3. /\ p \in RunRecords /\ p.made = doc.run.made /\ p.job = doc.run.job
      /\ p.attempts = doc.run.attempts /\ p.outputs = doc.run.outputs
  BY ParsedIs DEF CustodyInv, HashIsTheOrigins, IsManifest
<1>1. /\ doc.run \in RunRecords /\ origin.run \in RunRecords
      /\ M!Migrated(doc).run = p /\ M!Migrated(doc).hash = doc.hash
           /\ M!Migrated(doc).sig = doc.sig
      /\ doc.hash = M!HashPayload(origin.schema, origin.run)
      /\ origin.sealed => doc.sig = M!HashPayload(origin.schema, origin.run)
  BY MigratedKeeps DEF CustodyInv, HashIsTheOrigins, IsManifest
<1> HIDE DEF p
<1>2. M!HashPayload(M!Migrated(doc).schema, p) = M!HashPayload(origin.schema, origin.run)
  BY <1>1 DEF M!HashVerifies, M!Sealed
<1> DEFINE w == origin.run
<1>4. p \in RunRecords /\ w \in RunRecords
  BY <1>1, <1>3
<1>5. Tells(M!Migrated(doc).schema, origin.schema, p, w)
  BY <1>2, <1>4, PayloadTells, Zenon
<1> QED
  BY <1>3, <1>5 DEF Tells, M!SameContent

(* Whatever was edited, and whoever saved it again, a document that verifies *)
(* holds what its writer hashed, for any number of edits                     *)
(* (manifest.py:194-249, sink.py:128-166, verify.py:102-231).                *)
THEOREM WhatVerifiesWasMade ==
  ASSUME JobsAreNamed
  PROVE  /\ M!Spec => []M!VerifiedIsWhatWasMade
         /\ MCSpec => []M!VerifiedIsWhatWasMade
<1>1. CustodyInv => M!VerifiedIsWhatWasMade
  <2> SUFFICES ASSUME CustodyInv, doc # M!Nothing PROVE M!VerifiedIsWhatWasMade
    BY DEF M!VerifiedIsWhatWasMade
  <2>1. M!Migrated(doc).run.outputs = doc.run.outputs
    BY MigratedKeeps DEF CustodyInv, HashIsTheOrigins
  <2>2. ASSUME M!HashVerifies(M!Migrated(doc)) PROVE M!SameContent(doc.run)
    BY <2>2, VerifiedIsTheOrigins
  <2>3. ASSUME M!HashVerifies(M!Migrated(doc)), M!Unhashed(M!Migrated(doc)) = {}
        PROVE  \A k \in DOMAIN doc.run.outputs : M!ValidSha(origin.run.outputs[k].sha)
    <3>1. \A k \in DOMAIN doc.run.outputs : M!ValidSha(doc.run.outputs[k].sha)
      BY <2>1, <2>3 DEF M!Unhashed, M!Outputs
    <3> QED
      BY <2>2, <2>3, <3>1 DEF M!SameContent
  <2>4. ASSUME M!HashVerifies(M!Migrated(doc)), M!Fetched(M!Migrated(doc)),
               NEW k \in DOMAIN doc.run.outputs
        PROVE  LET url == doc.run.outputs[k].url IN world[url.at][url.of] = origin.run.outputs[k].sha
    <3>1. LET url == doc.run.outputs[k].url IN world[url.at][url.of] = doc.run.outputs[k].sha
      BY <2>1, <2>4 DEF M!Fetched, M!Outputs
    <3> QED
      BY <2>2, <2>4, <3>1 DEF M!SameContent
  <2>5. ASSUME origin.sealed, M!BundleVerifies(doc) PROVE M!SameContent(doc.run)
    BY <2>5, VerifiedIsTheOrigins DEF M!BundleVerifies
  <2>6. M!CliVerify(doc, "hash-only") => M!SameContent(doc.run)
    BY <2>2 DEF M!CliVerify
  <2>7. M!CliVerify(doc, "default") =>
          M!SameContent(doc.run)
            /\ \A k \in DOMAIN doc.run.outputs : M!ValidSha(origin.run.outputs[k].sha)
    BY <2>2, <2>3 DEF M!CliVerify, M!Verify
  <2>8. M!CliVerify(doc, "fetch") =>
          \A k \in DOMAIN doc.run.outputs :
            LET url == doc.run.outputs[k].url IN world[url.at][url.of] = origin.run.outputs[k].sha
    BY <2>4 DEF M!CliVerify
  <2>9. M!ReadManifest(doc, TRUE, FALSE) =>
          M!SameContent(doc.run)
            /\ \A k \in DOMAIN doc.run.outputs : M!ValidSha(origin.run.outputs[k].sha)
    BY <2>2, <2>3 DEF M!ReadManifest
  <2> HIDE DEF M!CliVerify, M!ReadManifest, M!BundleVerifies
  <2> QED
    BY <2>5, <2>6, <2>7, <2>8, <2>9 DEF M!VerifiedIsWhatWasMade
<1> QED
  BY <1>1, CustodyInvariance, PTL

(* What was written with the fields of today still verifies after any number *)
(* of operational edits, moves, migrations and resaves; what was written     *)
(* with assets that lack some of them never does (manifest.py:123-132,       *)
(* 218-226, 423-534).                                                        *)
THEOREM OperationalEditsVerify ==
  ASSUME JobsAreNamed
  PROVE  /\ M!Spec => []M!CustodyKeepsTheHash
         /\ MCSpec => []M!CustodyKeepsTheHash
<1>1. CustodyInv => M!CustodyKeepsTheHash
  <2> SUFFICES ASSUME CustodyInv, doc # M!Nothing, origin.schema \in M!SupportedSchemas,
                      \A k \in DOMAIN edits : edits[k] \in M!Operational
               PROVE  /\ M!CliVerify(doc, "hash-only") <=> M!HashedAsToday(origin.run)
                      /\ M!ReadManifest(doc, FALSE, FALSE) <=> M!HashedAsToday(origin.run)
                      /\ origin.sealed /\ M!HashedAsToday(origin.run) => M!BundleVerifies(doc)
    BY Zenon DEF M!CustodyKeepsTheHash
  <2> DEFINE p == M!Parsed(doc.run)
             q == M!Parsed(origin.run)
             s == origin.schema
  <2>1. /\ M!Migrated(doc).run = p /\ M!Migrated(doc).hash = doc.hash
             /\ M!Migrated(doc).sig = doc.sig /\ M!Migrated(doc).schema = M!Version(doc)
        /\ M!Migrated(doc).run.made = doc.run.made /\ M!Migrated(doc).scheme = doc.scheme
        /\ doc.hash = M!HashPayload(s, origin.run) /\ origin.run \in RunRecords /\ doc.run \in RunRecords
        /\ origin.sealed => doc.sig = M!HashPayload(s, origin.run)
    BY MigratedKeeps DEF CustodyInv, HashIsTheOrigins, IsManifest
  <2>2. /\ M!Version(doc) = s
        /\ M!HashPayload(s, p) = M!HashPayload(s, q)
        /\ doc.run.made \in Secret => doc.scheme
    BY DEF CustodyInv, PayloadIsTheOrigins, Untouched, ReadPayload
  <2>3. M!Readable(doc)
    BY <2>1, <2>2 DEF M!Readable
  <2>4. /\ p \in RunRecords /\ q \in RunRecords /\ p.shape = "today" /\ p.outputs = doc.run.outputs
        /\ q.outputs = origin.run.outputs /\ q.shape = "today"
        /\ q.made = origin.run.made /\ q.job = origin.run.job /\ q.id = origin.run.id
        /\ q.attempts = origin.run.attempts
    BY <2>1, ParsedIs
  <2> HIDE DEF p, q, s
  <2>5. ASSUME M!HashedAsToday(origin.run) PROVE M!HashPayload(s, q) = M!HashPayload(s, origin.run)
    <3>1. (IF q.outputs = <<>> THEN "none" ELSE q.shape)
            = (IF origin.run.outputs = <<>> THEN "none" ELSE origin.run.shape)
      BY <2>4, <2>5 DEF M!HashedAsToday
    <3> QED
      BY <2>4, <3>1 DEF M!HashPayload
  <2>6. ASSUME M!HashPayload(s, p) = M!HashPayload(s, origin.run) PROVE M!HashedAsToday(origin.run)
    <3>0. p \in RunRecords /\ origin.run \in RunRecords
      BY <2>1, <2>4
    <3>5. Tells(s, s, p, origin.run)
      BY <2>6, <3>0, PayloadTells, Zenon
    <3>1. p.outputs # <<>> => p.shape = origin.run.shape
      BY <3>5 DEF Tells
    <3>2. DOMAIN p.outputs = DOMAIN origin.run.outputs
      BY <3>5 DEF Tells
    <3>3. p.outputs \in Seq(Assets) /\ origin.run.outputs \in Seq(Assets)
      BY <2>1, <2>4, RunFields
    <3>4. origin.run.outputs # <<>> => p.outputs # <<>>
      BY <3>2, <3>3
    <3> QED
      BY <2>4, <3>1, <3>4 DEF M!HashedAsToday
  <2>7. M!HashVerifies(M!Migrated(doc)) <=> M!HashPayload(s, p) = M!HashPayload(s, origin.run)
    BY <2>1, <2>2 DEF M!HashVerifies
  <2>8. M!HashVerifies(M!Migrated(doc)) <=> M!HashedAsToday(origin.run)
    BY <2>2, <2>5, <2>6, <2>7
  <2>9. origin.sealed /\ M!HashedAsToday(origin.run) => M!Sealed(M!Migrated(doc))
    BY <2>1, <2>2, <2>5 DEF M!Sealed
  <2>10. M!CliVerify(doc, "hash-only") <=> M!HashedAsToday(origin.run)
    BY <2>3, <2>8 DEF M!CliVerify
  <2>11. M!ReadManifest(doc, FALSE, FALSE) <=> M!HashedAsToday(origin.run)
    BY <2>3, <2>8 DEF M!ReadManifest
  <2>12. origin.sealed /\ M!HashedAsToday(origin.run) => M!BundleVerifies(doc)
    BY <2>3, <2>9 DEF M!BundleVerifies
  <2> QED
    BY <2>10, <2>11, <2>12
<1> QED
  BY <1>1, CustodyInvariance, PTL

(* The same assets ingested again in another order give the same hash        *)
(* (ingest.py:203-214).                                                      *)
THEOREM IngestsAreOrderFree ==
  ASSUME JobsAreNamed
  PROVE  /\ M!Spec => []M!IngestIsOrderFree
         /\ MCSpec => []M!IngestIsOrderFree
<1>1. CustodyInv => M!IngestIsOrderFree
  <2> DEFINE f == fresh.run
             p == prior.run
             tf == M!Content(fresh)
             tp == M!Content(prior)
  <2> SUFFICES ASSUME CustodyInv, prior # M!Nothing, f.job = "none", p.job = "none", f.made = p.made,
                      {tf[k] : k \in DOMAIN tf} = {tp[k] : k \in DOMAIN tp}
               PROVE  fresh.hash = prior.hash
    BY DEF M!IngestIsOrderFree
  <2>0. /\ DOMAIN tf = DOMAIN f.outputs /\ DOMAIN tp = DOMAIN p.outputs
        /\ \A k \in DOMAIN f.outputs : tf[k] = <<f.outputs[k].url.of, f.outputs[k].sha>>
        /\ \A k \in DOMAIN p.outputs : tp[k] = <<p.outputs[k].url.of, p.outputs[k].sha>>
    BY DEF M!Content
  <2> HIDE DEF tf, tp
  <2>1. /\ fresh.schema = "1.5" /\ f \in RunRecords /\ fresh.hash = M!HashPayload("1.5", f)
             /\ f.attempts = <<>> /\ f.shape = "today"
        /\ {f.outputs[k].url.of : k \in DOMAIN f.outputs} = 1..Len(f.outputs) /\ Len(f.outputs) > 0
        /\ \A k \in DOMAIN f.outputs : f.outputs[k].meta = "none"
        /\ \/ \A k \in DOMAIN f.outputs : f.outputs[k].sha = M!NoSha
           \/ \A k \in DOMAIN f.outputs : f.outputs[k].sha = M!Digest(f.made, k)
    BY DEF CustodyInv, Ingested, M!HashVerifies
  <2>2. /\ prior.schema = "1.5" /\ p \in RunRecords /\ prior.hash = M!HashPayload("1.5", p)
             /\ p.attempts = <<>> /\ p.shape = "today"
        /\ {p.outputs[k].url.of : k \in DOMAIN p.outputs} = 1..Len(p.outputs) /\ Len(p.outputs) > 0
        /\ \A k \in DOMAIN p.outputs : p.outputs[k].meta = "none"
        /\ \/ \A k \in DOMAIN p.outputs : p.outputs[k].sha = M!NoSha
           \/ \A k \in DOMAIN p.outputs : p.outputs[k].sha = M!Digest(p.made, k)
    BY DEF CustodyInv, Ingested, M!HashVerifies
  <2> HIDE DEF f, p
  <2>3. /\ \A k \in DOMAIN f.outputs : \E j \in DOMAIN p.outputs :
             f.outputs[k].url.of = p.outputs[j].url.of /\ f.outputs[k].sha = p.outputs[j].sha
        /\ \A j \in DOMAIN p.outputs : \E k \in DOMAIN f.outputs :
             f.outputs[k].url.of = p.outputs[j].url.of /\ f.outputs[k].sha = p.outputs[j].sha
    <3>1. \A k \in DOMAIN tf : \E j \in DOMAIN tp : tf[k] = tp[j]
      OBVIOUS
    <3>2. \A j \in DOMAIN tp : \E k \in DOMAIN tf : tf[k] = tp[j]
      OBVIOUS
    <3>3. \A k \in DOMAIN f.outputs, j \in DOMAIN p.outputs : tf[k] = tp[j] =>
            f.outputs[k].url.of = p.outputs[j].url.of /\ f.outputs[k].sha = p.outputs[j].sha
      BY <2>0
    <3> QED
      BY <2>0, <3>1, <3>2, <3>3
  <2>4. f.outputs \in Seq(Assets) /\ p.outputs \in Seq(Assets)
    BY <2>1, <2>2, RunFields
  <2>5. {f.outputs[k].url.of : k \in DOMAIN f.outputs} = {p.outputs[k].url.of : k \in DOMAIN p.outputs}
    <3>1. \A x : x \in {f.outputs[k].url.of : k \in DOMAIN f.outputs}
                   <=> x \in {p.outputs[k].url.of : k \in DOMAIN p.outputs}
      BY <2>3
    <3> QED
      BY <3>1
  <2>6. DOMAIN f.outputs = DOMAIN p.outputs /\ 1 \in DOMAIN f.outputs
    <3>1. 1..Len(f.outputs) = 1..Len(p.outputs)
      BY <2>1, <2>2, <2>5, Zenon
    <3>2. Len(f.outputs) \in Nat /\ Len(p.outputs) \in Nat
      BY <2>4
    <3>3. DOMAIN f.outputs = 1..Len(f.outputs) /\ DOMAIN p.outputs = 1..Len(p.outputs)
      BY <2>4
    <3>4. 1 \in 1..Len(f.outputs)
      BY <2>1, <3>2
    <3> QED
      BY <3>1, <3>3, <3>4
  <2>7. \A thing, o : M!Digest(thing, o) # M!NoSha
    BY DEF M!Digest, M!NoSha
  <2>8. \A k \in DOMAIN f.outputs : f.outputs[k].sha = p.outputs[k].sha
    <3> HIDE DEF M!Digest, M!NoSha
    <3>1. CASE \A k \in DOMAIN f.outputs : f.outputs[k].sha = M!NoSha
      <4>1. \A j \in DOMAIN p.outputs : p.outputs[j].sha = M!NoSha
        BY <2>3, <3>1
      <4> QED
        BY <2>6, <3>1, <4>1
    <3>2. CASE \A k \in DOMAIN f.outputs : f.outputs[k].sha = M!Digest(f.made, k)
      <4>1. \A j \in DOMAIN p.outputs : p.outputs[j].sha # M!NoSha
        BY <2>3, <2>7, <3>2
      <4>2. \A j \in DOMAIN p.outputs : p.outputs[j].sha = M!Digest(p.made, j)
        BY <2>2, <2>6, <4>1
      <4> QED
        BY <2>6, <3>2, <4>2
    <3> QED
      BY <2>1, <3>1, <3>2
  <2>9. \A k \in DOMAIN f.outputs : M!HashedAsset("1.5", f.outputs[k]) = M!HashedAsset("1.5",
        p.outputs[k])
    <3>1. ~M!Policy("1.5").randomIds /\ ~M!Policy("1.5").markUnhashed
      BY DEF M!Policy
    <3> QED
      BY <2>1, <2>2, <2>6, <2>8, <3>1 DEF M!HashedAsset, M!StripAsset
  <2>10. ~M!Policy("1.5").randomIds
    BY DEF M!Policy
  <2>11. M!HashPayload("1.5", f) = M!HashPayload("1.5", p)
    <3>1. f \in RunRecords /\ p \in RunRecords /\ f.shape = "today" /\ p.shape = "today"
      BY <2>1, <2>2
    <3>2. ReadPayload("1.5", f) = ReadPayload("1.5", p)
      BY <2>1, <2>2, <2>6, <2>9, <2>10, SamePayload
    <3>3. M!Parsed(f) = f /\ M!Parsed(p) = p
      BY <3>1, ParsedIs
    <3> QED
      BY <3>2, <3>3 DEF ReadPayload
  <2> QED
    BY <2>1, <2>2, <2>11
<1> QED
  BY <1>1, CustodyInvariance, PTL

(* Together: what the runs check of the custody of a manifest.               *)
THEOREM CustodyIsKept ==
  ASSUME JobsAreNamed
  PROVE  MCSpec => []CustodyKeepsTheHash
<1>1. M!CustodyKeepsTheHash /\ M!IngestIsOrderFree /\ M!VerifiedIsWhatWasMade => CustodyKeepsTheHash
  BY DEF CustodyKeepsTheHash
<1> QED
  BY <1>1, WhatVerifiesWasMade, OperationalEditsVerify, IngestsAreOrderFree, PTL

-----------------------------------------------------------------------------
(* Rebuild, for any plans, any number of steps and whatever becomes of them.  *)

(* step() is called with a list of step numbers or none, and three flags.     *)
PlansAreCalls ==
  Plans \subseteq [from : SUBSET Seq(Int), external : BOOLEAN, fallback : BOOLEAN, takes : BOOLEAN]

ModelNames == {"first", "fallback"}

StepPlans ==
  [from : SUBSET Seq(Int), external : BOOLEAN, model : ModelNames, fallback : BOOLEAN, takes : BOOLEAN]

StepRecords ==
  [from : SUBSET Seq(Int), fallback : BOOLEAN, model : ModelNames, inputs : Seq(Int),
   status : {"SUCCEEDED", "FAILED"}, assets : Seq(Nat)]

(* Pipelines. *)
Builds == [chain : BOOLEAN, failFast : BOOLEAN, steps : Seq(StepPlans)]

(* The first n of a sequence. *)
Cut(s, n) == [k \in 1..n |-> s[k]]

(* One turn of the loop of Steps. *)
Grown(p, n, done) ==
  IF p.failFast /\ \E i \in 1..Len(done) : ~R!Good(done[i]) THEN done
  ELSE Append(done, R!Executed(p, n, done))

(* Each step of s is what becomes of it after the ones before. *)
Built(p, s) == \A i \in 1..Len(s) : s[i] = R!Executed(p, i, Cut(s, i - 1))

(* The run is that of the pipeline, and what is built of it is built again   *)
(* from that run.                                                             *)
RebuildInv ==
  /\ built \in Builds
  /\ \A i \in 1..Len(built.steps) : built.steps[i].model = "first"
  /\ made = R!Nothing \/ made = R!RunOf(built)
  /\ via \in {"none", "template", "replay"}
  /\ via = "none" => rerun = R!Nothing
  /\ via # "none" => made # R!Nothing /\ made.status = "run"
  /\ via = "template" => again = R!FromTemplate(built)
  /\ via = "replay" => again = R!Replayed(made.steps)
  /\ rerun = R!Nothing \/ rerun = R!RunOf(again)

-----------------------------------------------------------------------------
(* A set of numbers that has 0, and the next of each it has, has them all:    *)
(* the least it lacks would be the next of one it has.                        *)
LEMMA Induct ==
  ASSUME NEW T, 0 \in T, \A n \in Nat : n \in T => n + 1 \in T
  PROVE  Nat \subseteq T
<1> DEFINE Out == {n \in Nat : n \notin T}
<1>1. Out \subseteq Nat
  OBVIOUS
<1>2. ASSUME Out # {} PROVE FALSE
  <2>1. PICK x \in Out : \A y \in Out : ~(<<y, x>> \in OpToRel(<, Nat))
    BY <1>1, <1>2, NatLessThanWellFounded, WFMin
  <2>2. x \in Nat /\ x # 0 /\ x - 1 \in Nat /\ x - 1 < x /\ (x - 1) + 1 = x
    OBVIOUS
  <2>3. <<x - 1, x>> \in OpToRel(<, Nat)
    BY <2>2, Zenon DEF OpToRel
  <2>4. x - 1 \in T
    BY <2>1, <2>2, <2>3
  <2> QED
    BY <2>1, <2>2, <2>4
<1> QED
  BY <1>2

(* The loop of Steps, as the function of its turns. *)
IsLoop(p, f) ==
  f = [n \in 0..Len(p.steps) |-> IF n = 0 THEN <<>> ELSE Grown(p, n, f[n - 1])]

(* The loop of Steps is well defined: it can be unrolled. *)
LEMMA StepsUnroll ==
  ASSUME NEW p, Len(p.steps) \in Nat
  PROVE  \E f : IsLoop(p, f) /\ R!Steps(p) = f[Len(p.steps)]
<1> DEFINE top == Len(p.steps)
           Turn(f, n) == IF n = 0 THEN <<>> ELSE Grown(p, n, f[n - 1])
           Upto(f, k) == f = [n \in 0..k |-> Turn(f, n)]
           T == {k \in Nat : \E f : Upto(f, k)}
<1>1. 0 \in T
  <2>1. Upto([n \in 0..0 |-> <<>>], 0)
    <3>1. \A n \in 0..0 : n = 0
      OBVIOUS
    <3> QED
      BY <3>1
  <2> QED
    BY <2>1
<1>2. ASSUME NEW k \in Nat, k \in T PROVE k + 1 \in T
  <2>1. PICK f : Upto(f, k)
    BY <1>2
  <2> DEFINE last == Grown(p, k + 1, f[k])
             g == [n \in 0..(k + 1) |-> IF n = k + 1 THEN last ELSE f[n]]
  <2>2. \A n \in 0..(k + 1) : g[n] = Turn(g, n)
    <3> SUFFICES ASSUME NEW n \in 0..(k + 1) PROVE g[n] = Turn(g, n)
      OBVIOUS
    <3>1. CASE n = k + 1
      <4>1. n # 0 /\ n - 1 = k /\ k \in 0..(k + 1) /\ k # k + 1
        BY <3>1
      <4>2. g[n] = last /\ g[n - 1] = f[k]
        BY <3>1, <4>1
      <4> HIDE DEF last, g
      <4> QED
        BY <3>1, <4>1, <4>2 DEF last
    <3>2. CASE n # k + 1
      <4>1. n \in 0..k /\ f[n] = Turn(f, n) /\ g[n] = f[n]
        BY <2>1, <3>2
      <4>2. n # 0 => n - 1 \in 0..(k + 1) /\ n - 1 # k + 1
        BY <3>2
      <4>3. n # 0 => g[n - 1] = f[n - 1]
        BY <4>2
      <4> HIDE DEF g
      <4> QED
        BY <4>1, <4>3
    <3> QED
      BY <3>1, <3>2
  <2>3. g = [n \in 0..(k + 1) |-> g[n]]
    OBVIOUS
  <2>4. Upto(g, k + 1)
    <3> HIDE DEF g, Turn
    <3> QED
      BY <2>2, <2>3
  <2> HIDE DEF g, Upto
  <2> QED
    BY <2>4
<1>3. top \in T
  <2> HIDE DEF T
  <2>1. Nat \subseteq T
    BY <1>1, <1>2, Induct
  <2> QED
    BY <2>1
<1>4. PICK f0 : Upto(f0, top)
  BY <1>3
<1> DEFINE after == CHOOSE f : Upto(f, top)
<1>5. Upto(after, top)
  <2> HIDE DEF Upto
  <2> QED
    BY <1>4, Zenon
<1>6. R!Steps(p) = after[top]
  BY Zenon DEF R!Steps, Grown
<1> QED
  <2> HIDE DEF after
  <2> QED
    BY <1>5, <1>6 DEF IsLoop

(* What a provider is asked for, and what becomes of it, is a record of a     *)
(* step.                                                                      *)
LEMMA ExecutedIsRecord ==
  ASSUME NEW p \in Builds, NEW n \in 1..Len(p.steps), NEW done \in Seq(StepRecords),
         n > 1 => n - 1 \in 1..Len(done)
  PROVE  /\ R!Executed(p, n, done) \in StepRecords
         /\ R!Good(R!Executed(p, n, done)) \/ R!Executed(p, n, done).assets = <<>>
<1> DEFINE asked == p.steps[n]
           step == R!Executed(p, n, done)
<1>1. asked \in StepPlans
  BY DEF Builds
<1>2. /\ asked.from \in SUBSET Seq(Int) /\ asked.fallback \in BOOLEAN /\ asked.model \in ModelNames
      /\ R!Routed(asked) => R!Sources(asked) \in Seq(Int)
  BY <1>1 DEF StepPlans, R!Routed, R!Sources
<1>3. n \in Nat /\ <<n>> \in Seq(Nat) /\ <<>> \in Seq(Nat) /\ <<>> \in Seq(Int)
      /\ <<R!Outside>> \in Seq(Int)
  BY DEF R!Outside
<1>4. n > 1 => done[n - 1].assets \in Seq(Int)
  <2>1. n > 1 => done[n - 1] \in StepRecords
    OBVIOUS
  <2>2. \A s \in Seq(Nat) : s \in Seq(Int)
    OBVIOUS
  <2> QED
    BY <2>1, <2>2 DEF StepRecords
<1>5. R!Inputs(p, n, done) \in Seq(Int)
  BY <1>2, <1>3, <1>4 DEF R!Inputs
<1>6. \A inputs \in Seq(Int), rescued \in BOOLEAN, status \in {"SUCCEEDED", "FAILED"},
        outs \in Seq(Nat) : R!Record(p, n, inputs, rescued, status, outs) \in StepRecords
  <2> SUFFICES ASSUME NEW inputs \in Seq(Int), NEW rescued \in BOOLEAN,
                      NEW status \in {"SUCCEEDED", "FAILED"}, NEW outs \in Seq(Nat)
               PROVE  R!Record(p, n, inputs, rescued, status, outs) \in StepRecords
    OBVIOUS
  <2> DEFINE model == IF rescued THEN "fallback" ELSE asked.model
  <2>1. model \in ModelNames
    BY <1>2 DEF ModelNames
  <2> HIDE DEF model, asked
  <2>2. [from |-> asked.from, fallback |-> asked.fallback, model |-> model, inputs |-> inputs,
         status |-> status, assets |-> outs] \in StepRecords
    BY <1>2, <2>1 DEF StepRecords
  <2> QED
    BY <2>2 DEF R!Record, model, asked
<1>7. \E inputs \in Seq(Int), rescued \in BOOLEAN, status \in {"SUCCEEDED", "FAILED"},
        outs \in Seq(Nat) :
        /\ step = R!Record(p, n, inputs, rescued, status, outs)
        /\ status = "SUCCEEDED" \/ outs = <<>>
  <2> HIDE DEF asked
  <2> QED
    BY <1>3, <1>5 DEF R!Executed
<1>8. \A inputs, rescued, status, outs :
        /\ R!Record(p, n, inputs, rescued, status, outs).status = status
        /\ R!Record(p, n, inputs, rescued, status, outs).assets = outs
  BY DEF R!Record
<1> HIDE DEF step
<1>9. step \in StepRecords /\ (R!Good(step) \/ step.assets = <<>>)
  BY <1>6, <1>7, <1>8 DEF R!Good
<1> QED
  BY <1>9 DEF step

(* A step that is added leaves the ones before it.                            *)
LEMMA CutAppend ==
  ASSUME NEW Of, NEW d \in Seq(Of), NEW e \in Of
  PROVE  /\ \A k \in 0..Len(d) : Cut(Append(d, e), k) = Cut(d, k)
         /\ Cut(d, Len(d)) = d
<1>1. \A k \in 0..Len(d) : Cut(Append(d, e), k) = Cut(d, k)
  <2> SUFFICES ASSUME NEW k \in 0..Len(d) PROVE Cut(Append(d, e), k) = Cut(d, k)
    OBVIOUS
  <2>1. \A i \in 1..k : Append(d, e)[i] = d[i]
    OBVIOUS
  <2> QED
    BY <2>1 DEF Cut
<1>2. Cut(d, Len(d)) = d
  BY DEF Cut
<1> QED
  BY <1>1, <1>2

(* After n turns of the loop: the steps so far, cut short only by fail_fast   *)
(* after a failure.                                                           *)
Shape(p, n, s) ==
  /\ s \in Seq(StepRecords) /\ Len(s) <= n
  /\ Len(s) < n => p.failFast /\ \E i \in 1..Len(s) : ~R!Good(s[i])
  /\ Built(p, s)
  /\ \A i \in 1..Len(s) : R!Good(s[i]) \/ s[i].assets = <<>>

(* One turn keeps that. *)
LEMMA GrownShape ==
  ASSUME NEW p \in Builds, NEW n \in 1..Len(p.steps), NEW d, Shape(p, n - 1, d)
  PROVE  Shape(p, n, Grown(p, n, d))
<1>1. d \in Seq(StepRecords) /\ Len(d) \in Nat /\ Len(d) <= n - 1 /\ n \in Nat
  BY DEF Shape, Builds
<1>2. CASE p.failFast /\ \E i \in 1..Len(d) : ~R!Good(d[i])
  BY <1>1, <1>2 DEF Grown, Shape
<1>3. CASE ~(p.failFast /\ \E i \in 1..Len(d) : ~R!Good(d[i]))
  <2>1. Len(d) = n - 1
    BY <1>1, <1>3 DEF Shape
  <2> DEFINE e == R!Executed(p, n, d)
             s == Append(d, e)
  <2>2. e \in StepRecords /\ (R!Good(e) \/ e.assets = <<>>)
    BY <1>1, <2>1, ExecutedIsRecord
  <2>3. Grown(p, n, d) = s
    BY <1>3, Zenon DEF Grown
  <2>4. e = R!Executed(p, n, d)
    OBVIOUS
  <2> HIDE DEF e
  <2>5. /\ s \in Seq(StepRecords) /\ Len(s) = n /\ s[n] = e
        /\ \A i \in 1..(n - 1) : s[i] = d[i]
    BY <1>1, <2>1, <2>2
  <2>6. /\ \A k \in 0..(n - 1) : Cut(s, k) = Cut(d, k)
        /\ Cut(d, n - 1) = d
    BY <1>1, <2>1, <2>2, CutAppend
  <2> HIDE DEF s
  <2>7. Built(p, s)
    <3> SUFFICES ASSUME NEW i \in 1..n PROVE s[i] = R!Executed(p, i, Cut(s, i - 1))
      BY <2>5 DEF Built
    <3>1. i - 1 \in 0..(n - 1) /\ (i # n => i \in 1..(n - 1))
      BY <1>1
    <3>2. Cut(s, i - 1) = Cut(d, i - 1)
      BY <2>6, <3>1
    <3>3. CASE i = n
      BY <2>4, <2>5, <2>6, <3>2, <3>3
    <3>4. CASE i # n
      <4>1. d[i] = R!Executed(p, i, Cut(d, i - 1))
        BY <2>1, <3>1, <3>4 DEF Shape, Built
      <4> QED
        BY <2>5, <3>1, <3>2, <3>4, <4>1
    <3> QED
      BY <3>3, <3>4
  <2>8. \A i \in 1..n : R!Good(s[i]) \/ s[i].assets = <<>>
    <3> SUFFICES ASSUME NEW i \in 1..n PROVE R!Good(s[i]) \/ s[i].assets = <<>>
      OBVIOUS
    <3>1. CASE i = n
      BY <2>2, <2>5, <3>1
    <3>2. CASE i # n
      <4>1. i \in 1..(n - 1)
        BY <1>1, <3>2
      <4> QED
        BY <2>1, <2>5, <4>1 DEF Shape
    <3> QED
      BY <3>1, <3>2
  <2> QED
    BY <1>1, <2>3, <2>5, <2>7, <2>8 DEF Shape
<1> QED
  BY <1>2, <1>3

(* The whole run. *)
LEMMA RunIsBuilt ==
  ASSUME NEW p \in Builds
  PROVE  Shape(p, Len(p.steps), R!Steps(p))
<1> DEFINE top == Len(p.steps)
<1>1. top \in Nat
  BY DEF Builds
<1>2. PICK f : IsLoop(p, f) /\ R!Steps(p) = f[top]
  BY <1>1, StepsUnroll
<1>3. /\ 0 \in 0..top /\ f[0] = <<>>
      /\ \A n \in 1..top : f[n] = Grown(p, n, f[n - 1])
  <2>1. 0 \in 0..top /\ \A n \in 1..top : n \in 0..top /\ n # 0
    BY <1>1
  <2>2. \A n \in 0..top : f[n] = IF n = 0 THEN <<>> ELSE Grown(p, n, f[n - 1])
    BY <1>2, Zenon DEF IsLoop
  <2> HIDE DEF top
  <2> QED
    BY <2>1, <2>2
<1> DEFINE T == {n \in Nat : n <= top => Shape(p, n, f[n])}
<1>4. 0 \in T
  <2>1. Shape(p, 0, <<>>)
    BY DEF Shape, Built
  <2> QED
    BY <1>3, <2>1
<1>5. ASSUME NEW n \in Nat, n \in T PROVE n + 1 \in T
  <2> SUFFICES ASSUME n + 1 <= top PROVE Shape(p, n + 1, f[n + 1])
    OBVIOUS
  <2>1. n + 1 \in 1..top /\ (n + 1) - 1 = n /\ n <= top
    BY <1>1
  <2>2. Shape(p, n, f[n])
    BY <1>5, <2>1
  <2>3. f[n + 1] = Grown(p, n + 1, f[n])
    BY <1>3, <2>1
  <2>4. Shape(p, (n + 1) - 1, f[n])
    BY <2>1, <2>2
  <2> QED
    BY <2>1, <2>3, <2>4, GrownShape
<1> HIDE DEF T
<1>6. Nat \subseteq T
  BY <1>4, <1>5, Induct
<1>7. top \in T
  BY <1>1, <1>6
<1> QED
  BY <1>1, <1>2, <1>7 DEF T

(* A run without a failure is the run of every pipeline that does the same    *)
(* at each step.                                                              *)
LEMMA BuiltIsRun ==
  ASSUME NEW q, NEW s \in Seq(StepRecords), Len(q.steps) = Len(s), Built(q, s),
         \A i \in 1..Len(s) : R!Good(s[i])
  PROVE  R!Steps(q) = s
<1> DEFINE top == Len(s)
<1>1. top \in Nat
  OBVIOUS
<1>2. PICK f : IsLoop(q, f) /\ R!Steps(q) = f[top]
  BY <1>1, StepsUnroll
<1>3. /\ 0 \in 0..top /\ f[0] = <<>>
      /\ \A n \in 1..top : f[n] = Grown(q, n, f[n - 1])
  BY <1>1, <1>2 DEF IsLoop
<1> DEFINE T == {n \in Nat : n <= top => f[n] = Cut(s, n)}
<1>4. 0 \in T
  <2>1. Cut(s, 0) = <<>>
    BY DEF Cut
  <2> QED
    BY <1>3, <2>1
<1>5. ASSUME NEW n \in Nat, n \in T PROVE n + 1 \in T
  <2> SUFFICES ASSUME n + 1 <= top PROVE f[n + 1] = Cut(s, n + 1)
    OBVIOUS
  <2>1. n + 1 \in 1..top /\ (n + 1) - 1 = n /\ n <= top
    BY <1>1
  <2> DEFINE d == Cut(s, n)
  <2>2. d \in Seq(StepRecords) /\ Len(d) = n /\ \A i \in 1..n : d[i] = s[i]
    BY <1>1, <2>1 DEF Cut
  <2>3. f[n + 1] = Grown(q, n + 1, d)
    BY <1>3, <1>5, <2>1
  <2>4. \A i \in 1..n : i \in 1..Len(s)
    BY <2>1
  <2>5. s[n + 1] = R!Executed(q, n + 1, d)
    <3>1. s[n + 1] = R!Executed(q, n + 1, Cut(s, (n + 1) - 1))
      BY <2>1 DEF Built
    <3> QED
      BY <2>1, <3>1
  <2>6. Cut(s, n + 1) = Append(d, s[n + 1])
    BY <2>1 DEF Cut
  <2> HIDE DEF d
  <2>7. ~\E i \in 1..Len(d) : ~R!Good(d[i])
    BY <2>2, <2>4
  <2>8. Grown(q, n + 1, d) = Append(d, R!Executed(q, n + 1, d))
    BY <2>7, Zenon DEF Grown
  <2> QED
    BY <2>3, <2>5, <2>6, <2>8
<1> HIDE DEF T
<1>6. Nat \subseteq T
  BY <1>4, <1>5, Induct
<1>7. f[top] = Cut(s, top)
  BY <1>1, <1>6 DEF T
<1>8. Cut(s, top) = s
  BY DEF Cut
<1> QED
  BY <1>2, <1>7, <1>8

-----------------------------------------------------------------------------
(* A step finds its inputs, and one of its models answers. *)
Delivers(p, i, d) ==
  LET asked == p.steps[i]
  IN  /\ ~asked.external /\ R!Routed(asked) => R!Resolves(asked, i, d)
      /\ \/ fate[i] = "ok"
         \/ fate[i] = "MODEL_ERROR" /\ (asked.model # "first" \/ asked.fallback)

(* What the manifest has of it then. *)
Delivered(p, i, d) ==
  LET asked == p.steps[i]
  IN  [from |-> asked.from, fallback |-> asked.fallback,
       model |-> IF fate[i] = "MODEL_ERROR" /\ asked.model = "first" THEN "fallback" ELSE asked.model,
       inputs |-> R!Inputs(p, i, d), status |-> "SUCCEEDED", assets |-> <<i>>]

(* A step has made something when it delivered, and only then. *)
LEMMA DeliveryIsTheStep ==
  ASSUME NEW p, NEW i, NEW d
  PROVE  /\ Delivers(p, i, d) => R!Executed(p, i, d) = Delivered(p, i, d)
         /\ ~Delivers(p, i, d) => R!Executed(p, i, d).assets = <<>>
<1> DEFINE asked == p.steps[i]
           inputs == R!Inputs(p, i, d)
           lost == ~asked.external /\ R!Routed(asked) /\ ~R!Resolves(asked, i, d)
           rescued == fate[i] = "MODEL_ERROR" /\ asked.model = "first" /\ asked.fallback
<1>1. \A given, status, outs :
        /\ R!Record(p, i, given, FALSE, status, outs) =
             [from |-> asked.from, fallback |-> asked.fallback, model |-> asked.model,
              inputs |-> given, status |-> status, assets |-> outs]
        /\ R!Record(p, i, given, TRUE, status, outs) =
             [from |-> asked.from, fallback |-> asked.fallback, model |-> "fallback",
              inputs |-> given, status |-> status, assets |-> outs]
  BY DEF R!Record
<1>2. R!Executed(p, i, d) =
        IF lost THEN R!Record(p, i, <<>>, FALSE, "FAILED", <<>>)
        ELSE CASE fate[i] = "ok"    -> R!Record(p, i, inputs, FALSE, "SUCCEEDED", <<i>>)
               [] fate[i] = "empty" -> R!Record(p, i, inputs, FALSE, "SUCCEEDED", <<>>)
               [] rescued           -> R!Record(p, i, inputs, TRUE, "SUCCEEDED", <<i>>)
               [] fate[i] = "MODEL_ERROR" /\ asked.model # "first" ->
                                       R!Record(p, i, inputs, FALSE, "SUCCEEDED", <<i>>)
               [] OTHER             -> R!Record(p, i, inputs, FALSE, "FAILED", <<>>)
  BY DEF R!Executed
<1>3. Delivers(p, i, d) <=>
        /\ ~lost
        /\ \/ fate[i] = "ok"
           \/ fate[i] = "MODEL_ERROR" /\ (asked.model # "first" \/ asked.fallback)
  BY DEF Delivers
<1>4. Delivered(p, i, d) =
        [from |-> asked.from, fallback |-> asked.fallback,
         model |-> IF fate[i] = "MODEL_ERROR" /\ asked.model = "first" THEN "fallback"
                   ELSE asked.model,
         inputs |-> inputs, status |-> "SUCCEEDED", assets |-> <<i>>]
  BY DEF Delivered
<1> HIDE DEF lost, inputs, asked
<1>5. ASSUME Delivers(p, i, d) PROVE R!Executed(p, i, d) = Delivered(p, i, d)
  <2>1. CASE fate[i] = "ok"
    BY <1>1, <1>2, <1>3, <1>4, <1>5, <2>1
  <2>2. CASE fate[i] = "MODEL_ERROR" /\ asked.model = "first" /\ asked.fallback
    BY <1>1, <1>2, <1>3, <1>4, <1>5, <2>2
  <2>3. CASE fate[i] = "MODEL_ERROR" /\ asked.model # "first"
    BY <1>1, <1>2, <1>3, <1>4, <1>5, <2>3
  <2> QED
    BY <1>3, <1>5, <2>1, <2>2, <2>3
<1>6. ASSUME ~Delivers(p, i, d) PROVE R!Executed(p, i, d).assets = <<>>
  <2>1. \A given, status : R!Record(p, i, given, FALSE, status, <<>>).assets = <<>>
    BY DEF R!Record
  <2>2. CASE lost
    <3>1. R!Executed(p, i, d) = R!Record(p, i, <<>>, FALSE, "FAILED", <<>>)
      BY <1>2, <2>2
    <3> QED
      BY <2>1, <3>1
  <2>3. CASE ~lost /\ fate[i] = "empty"
    <3>1. R!Executed(p, i, d) = R!Record(p, i, inputs, FALSE, "SUCCEEDED", <<>>)
      BY <1>2, <2>3
    <3> QED
      BY <2>1, <3>1
  <2>4. CASE ~lost /\ fate[i] # "empty"
    <3>1. R!Executed(p, i, d) = R!Record(p, i, inputs, FALSE, "FAILED", <<>>)
      BY <1>2, <1>3, <1>6, <2>4
    <3> QED
      BY <2>1, <3>1
  <2> QED
    BY <2>2, <2>3, <2>4
<1> QED
  BY <1>5, <1>6

(* A step keeps what it was called with, and is handed inputs only as its     *)
(* plan asks.                                                                 *)
LEMMA ExecutedKeeps ==
  ASSUME NEW p, NEW i, NEW d
  PROVE  LET e == R!Executed(p, i, d)
             asked == p.steps[i]
         IN  /\ e.from = asked.from /\ e.fallback = asked.fallback
             /\ e.inputs # <<>> => asked.external \/ (p.chain /\ i > 1) \/ R!Routed(asked)
<1> DEFINE asked == p.steps[i]
           inputs == R!Inputs(p, i, d)
           e == R!Executed(p, i, d)
<1>1. inputs # <<>> => asked.external \/ (p.chain /\ i > 1) \/ R!Routed(asked)
  BY DEF R!Inputs
<1>2. \E given \in {<<>>, inputs} : \E saved, status, outs :
        e = R!Record(p, i, given, saved, status, outs)
  <2> HIDE DEF asked, inputs
  <2>1. e = IF ~asked.external /\ R!Routed(asked) /\ ~R!Resolves(asked, i, d)
            THEN R!Record(p, i, <<>>, FALSE, "FAILED", <<>>)
            ELSE CASE fate[i] = "ok"    -> R!Record(p, i, inputs, FALSE, "SUCCEEDED", <<i>>)
                   [] fate[i] = "empty" -> R!Record(p, i, inputs, FALSE, "SUCCEEDED", <<>>)
                   [] fate[i] = "MODEL_ERROR" /\ asked.model = "first" /\ asked.fallback ->
                                           R!Record(p, i, inputs, TRUE, "SUCCEEDED", <<i>>)
                   [] fate[i] = "MODEL_ERROR" /\ asked.model # "first" ->
                                           R!Record(p, i, inputs, FALSE, "SUCCEEDED", <<i>>)
                   [] OTHER             -> R!Record(p, i, inputs, FALSE, "FAILED", <<>>)
    BY DEF R!Executed, asked, inputs
  <2> HIDE DEF e
  <2> QED
    BY <2>1
<1>3. PICK given \in {<<>>, inputs} : \E saved, status, outs :
        e = R!Record(p, i, given, saved, status, outs)
  BY <1>2
<1>4. \A saved, status, outs :
        LET kept == R!Record(p, i, given, saved, status, outs)
        IN  kept.from = asked.from /\ kept.fallback = asked.fallback /\ kept.inputs = given
  BY DEF R!Record
<1> HIDE DEF e, inputs
<1>5. e.from = asked.from /\ e.fallback = asked.fallback /\ e.inputs = given
  BY <1>3, <1>4
<1> QED
  BY <1>1, <1>5 DEF e, inputs

(* No step of a run is handed inputs that its provider does not take.         *)
LEMMA TakenByTheRun ==
  ASSUME NEW p \in Builds
  PROVE  \A i \in 1..Len(R!RunOf(p).steps) :
           /\ i \in 1..Len(p.steps)
           /\ R!RunOf(p).steps[i].inputs # <<>> => p.steps[i].takes
<1> DEFINE s == R!RunOf(p).steps
<1>1. CASE ~R!Capable(p)
  <2>1. s = <<>>
    BY <1>1 DEF R!RunOf
  <2> QED
    BY <2>1
<1>2. CASE R!Capable(p)
  <2>1. s = R!Steps(p)
    BY <1>2 DEF R!RunOf
  <2>2. Shape(p, Len(p.steps), s)
    BY <2>1, RunIsBuilt
  <2> HIDE DEF s
  <2>3. Len(s) \in Nat /\ Len(s) <= Len(p.steps) /\ Len(p.steps) \in Nat
    BY <2>2 DEF Shape, Builds
  <2> SUFFICES ASSUME NEW i \in 1..Len(s)
               PROVE  i \in 1..Len(p.steps) /\ (s[i].inputs # <<>> => p.steps[i].takes)
    BY DEF s
  <2>4. i \in 1..Len(p.steps)
    BY <2>3
  <2>5. s[i] = R!Executed(p, i, Cut(s, i - 1))
    BY <2>2 DEF Shape, Built
  <2>6. s[i].inputs # <<>> => p.steps[i].external \/ (p.chain /\ i > 1) \/ R!Routed(p.steps[i])
    BY <2>5, ExecutedKeeps, Zenon
  <2> QED
    BY <1>2, <2>4, <2>6 DEF R!Capable
<1> QED
  BY <1>1, <1>2

(* A run has steps only of a pipeline that no step of is refused.             *)
LEMMA RanIsCapable ==
  ASSUME NEW p, R!RunOf(p).status = "run"
  PROVE  R!Capable(p) /\ R!RunOf(p).steps = R!Steps(p)
BY DEF R!RunOf

(* What replay builds of a run is a pipeline, and none of its steps is        *)
(* refused: what it takes to be chained was.                                  *)
LEMMA ReplayedIsBuild ==
  ASSUME NEW s, built \in Builds, R!Capable(built), Shape(built, Len(built.steps), s)
  PROVE  /\ R!Replayed(s) \in Builds
         /\ Len(R!Replayed(s).steps) = Len(s)
         /\ \A i \in 1..Len(s) : R!Replayed(s).steps[i].takes = built.steps[i].takes
         /\ R!Capable(R!Replayed(s))
<1> DEFINE q == R!Replayed(s)
           asked(i) == [from |-> s[i].from, external |-> FALSE, model |-> s[i].model,
                       fallback |-> s[i].fallback, takes |-> built.steps[i].takes]
           plans == [i \in 1..Len(s) |-> asked(i)]
<1>1. /\ s \in Seq(StepRecords) /\ Len(s) \in Nat /\ Len(s) <= Len(built.steps)
      /\ built.steps \in Seq(StepPlans) /\ Len(built.steps) \in Nat
      /\ \A i \in 1..Len(s) : s[i] \in StepRecords /\ built.steps[i] \in StepPlans
  BY DEF Shape, Builds
<1>2. \A i \in 1..Len(s) : asked(i) \in StepPlans
  <2> SUFFICES ASSUME NEW i \in 1..Len(s) PROVE asked(i) \in StepPlans
    OBVIOUS
  <2>1. /\ s[i].from \in SUBSET Seq(Int) /\ s[i].model \in ModelNames /\ s[i].fallback \in BOOLEAN
        /\ built.steps[i].takes \in BOOLEAN
    BY <1>1, Zenon DEF StepRecords, StepPlans
  <2> QED
    BY <2>1, Zenon DEF StepPlans
<1>3. q = [chain |-> R!Chained(s), failFast |-> TRUE, steps |-> plans]
  BY DEF R!Replayed
<1>4. R!Chained(s) \in BOOLEAN
  BY Zenon DEF R!Chained
<1>5. /\ plans \in Seq(StepPlans) /\ Len(plans) = Len(s)
      /\ \A i \in 1..Len(s) : plans[i] = asked(i)
  BY <1>1, <1>2
<1> HIDE DEF plans, q
<1>6. q.chain = R!Chained(s) /\ q.failFast = TRUE /\ q.steps = plans
  BY <1>3, Zenon
<1>7. q \in Builds
  BY <1>3, <1>4, <1>5, Zenon DEF Builds
<1>8. ASSUME NEW i \in 1..Len(s)
      PROVE  /\ s[i].from = built.steps[i].from
             /\ s[i].inputs # <<>> => built.steps[i].takes
  <2>1. s[i] = R!Executed(built, i, Cut(s, i - 1))
    BY DEF Shape, Built
  <2>2. /\ s[i].from = built.steps[i].from
        /\ s[i].inputs # <<>> =>
             built.steps[i].external \/ (built.chain /\ i > 1) \/ R!Routed(built.steps[i])
    BY <2>1, ExecutedKeeps, Zenon
  <2>3. i \in 1..Len(built.steps)
    BY <1>1
  <2> QED
    BY <2>2, <2>3 DEF R!Capable
<1>9. R!Capable(q)
  <2> SUFFICES ASSUME NEW i \in 1..Len(q.steps),
                      \/ q.steps[i].external
                      \/ q.chain /\ i > 1
                      \/ R!Routed(q.steps[i])
               PROVE  q.steps[i].takes
    BY DEF R!Capable
  <2>1. /\ i \in 1..Len(s) /\ q.steps[i] = asked(i) /\ i \in 1..Len(built.steps)
    BY <1>1, <1>5, <1>6
  <2>2. CASE q.chain /\ i > 1
    <3>1. R!Chained(s)
      BY <1>6, <2>2, Zenon
    <3>2. i \in 2..Len(s)
      BY <1>1, <2>1, <2>2
    <3>3. s[i].inputs # <<>>
      BY <3>1, <3>2, Zenon DEF R!Chained
    <3> QED
      BY <1>8, <2>1, <3>3
  <2>3. CASE R!Routed(q.steps[i])
    <3>1. R!Routed(built.steps[i])
      BY <1>8, <2>1, <2>3 DEF R!Routed
    <3> QED
      BY <2>1, <3>1 DEF R!Capable
  <2>4. ~q.steps[i].external
    BY <2>1
  <2> QED
    BY <2>2, <2>3, <2>4
<1>10. \A i \in 1..Len(s) : q.steps[i].takes = built.steps[i].takes
  <2>1. \A i : asked(i).takes = built.steps[i].takes
    BY Zenon
  <2> QED
    BY <1>5, <1>6, <2>1, Zenon
<1> QED
  BY <1>5, <1>6, <1>7, <1>9, <1>10 DEF q

(* A step of q asks for what that of p did, of the model that answered it.    *)
AsksTheSame(p, q, i, d) ==
  /\ p.steps[i].model = "first" /\ ~p.steps[i].external /\ ~q.steps[i].external
  /\ q.steps[i].from = p.steps[i].from /\ q.steps[i].fallback = p.steps[i].fallback
  /\ q.steps[i].model = Delivered(p, i, d).model
  /\ ~R!Routed(p.steps[i]) /\ i > 1 => (q.chain <=> p.chain)

(* What a step made is made again, when what it asks for is the same.         *)
LEMMA SameDelivery ==
  ASSUME NEW p, NEW q, NEW i, NEW d, Delivers(p, i, d), AsksTheSame(p, q, i, d)
  PROVE  R!Executed(q, i, d) = R!Executed(p, i, d)
<1>0. /\ p.steps[i].model = "first" /\ ~p.steps[i].external /\ ~q.steps[i].external
      /\ q.steps[i].from = p.steps[i].from /\ q.steps[i].fallback = p.steps[i].fallback
      /\ q.steps[i].model = Delivered(p, i, d).model
      /\ ~R!Routed(p.steps[i]) /\ i > 1 => (q.chain <=> p.chain)
  BY Zenon DEF AsksTheSame
<1>1. /\ R!Routed(q.steps[i]) <=> R!Routed(p.steps[i])
      /\ R!Sources(q.steps[i]) = R!Sources(p.steps[i])
      /\ R!Resolves(q.steps[i], i, d) <=> R!Resolves(p.steps[i], i, d)
  BY <1>0 DEF R!Routed, R!Sources, R!Resolves
<1>2. R!Inputs(q, i, d) = R!Inputs(p, i, d)
  <2>1. CASE R!Routed(p.steps[i])
    <3>1. R!Inputs(q, i, d) = R!Sources(q.steps[i])
      BY <1>0, <1>1, <2>1 DEF R!Inputs
    <3>2. R!Inputs(p, i, d) = R!Sources(p.steps[i])
      BY <1>0, <2>1 DEF R!Inputs
    <3> QED
      BY <1>1, <3>1, <3>2
  <2>2. CASE ~R!Routed(p.steps[i]) /\ p.chain /\ i > 1
    <3>1. R!Inputs(q, i, d) = d[i - 1].assets
      BY <1>0, <1>1, <2>2 DEF R!Inputs
    <3>2. R!Inputs(p, i, d) = d[i - 1].assets
      BY <1>0, <2>2 DEF R!Inputs
    <3> QED
      BY <3>1, <3>2
  <2>3. CASE ~R!Routed(p.steps[i]) /\ ~(p.chain /\ i > 1)
    <3>1. ~(q.chain /\ i > 1)
      BY <1>0, <2>3
    <3>2. R!Inputs(q, i, d) = <<>>
      BY <1>0, <1>1, <2>3, <3>1 DEF R!Inputs
    <3>3. R!Inputs(p, i, d) = <<>>
      BY <1>0, <2>3 DEF R!Inputs
    <3> QED
      BY <3>2, <3>3
  <2> QED
    BY <1>0, <2>1, <2>2, <2>3
<1>3. Delivered(p, i, d).model =
        IF fate[i] = "MODEL_ERROR" /\ p.steps[i].model = "first" THEN "fallback" ELSE p.steps[i].model
  BY DEF Delivered
<1>4. Delivers(q, i, d)
  BY <1>0, <1>1, <1>3 DEF Delivers
<1>5. Delivered(q, i, d) = Delivered(p, i, d)
  <2>1. (IF fate[i] = "MODEL_ERROR" /\ q.steps[i].model = "first" THEN "fallback"
         ELSE q.steps[i].model)
          = (IF fate[i] = "MODEL_ERROR" /\ p.steps[i].model = "first" THEN "fallback"
             ELSE p.steps[i].model)
    BY <1>0, <1>3
  <2> QED
    BY <1>0, <1>2, <2>1, Zenon DEF Delivered
<1> QED
  BY <1>4, <1>5, DeliveryIsTheStep

(* What is replayed of a run that is telling is that run again.               *)
LEMMA ReplayMakesTheSame ==
  ASSUME built \in Builds, \A i \in 1..Len(built.steps) : built.steps[i].model = "first",
         made = R!RunOf(built), made.status = "run", R!Telling
  PROVE  R!RunOf(R!Replayed(made.steps)).steps = made.steps
<1> DEFINE s == made.steps
           q == R!Replayed(s)
<1>1. R!Capable(built) /\ s = R!Steps(built)
  BY RanIsCapable
<1>2. Shape(built, Len(built.steps), s)
  BY <1>1, RunIsBuilt
<1>3. /\ Len(s) = Len(built.steps)
      /\ \A i \in 1..Len(s) : s[i].assets # <<>> /\ ~built.steps[i].external
      /\ built.chain => \A i \in 1..Len(s) : ~R!Routed(built.steps[i])
  BY DEF R!Telling
<1>4. /\ R!Capable(q) /\ Len(q.steps) = Len(s)
      /\ \A i \in 1..Len(s) : ~q.steps[i].external /\ q.steps[i].from = s[i].from
           /\ q.steps[i].fallback = s[i].fallback /\ q.steps[i].model = s[i].model
      /\ q.chain = R!Chained(s)
  <2>1. R!Capable(q) /\ Len(q.steps) = Len(s)
    BY <1>1, <1>2, ReplayedIsBuild
  <2>2. q.chain = R!Chained(s)
    BY Zenon DEF R!Replayed
  <2>3. \A i \in 1..Len(s) : ~q.steps[i].external /\ q.steps[i].from = s[i].from
           /\ q.steps[i].fallback = s[i].fallback /\ q.steps[i].model = s[i].model
    BY DEF R!Replayed
  <2> QED
    BY <2>1, <2>2, <2>3
<1> HIDE DEF q, s
<1>5. /\ s \in Seq(StepRecords) /\ Len(s) \in Nat
      /\ \A i \in 1..Len(s) : R!Good(s[i])
  BY <1>2, <1>3 DEF Shape
<1>6. ASSUME NEW i \in 1..Len(s)
      PROVE  LET d == Cut(s, i - 1)
             IN  /\ s[i] = R!Executed(built, i, d)
                 /\ Delivers(built, i, d) /\ s[i] = Delivered(built, i, d)
  <2> DEFINE d == Cut(s, i - 1)
  <2>1. s[i] = R!Executed(built, i, d)
    BY <1>2 DEF Shape, Built
  <2> HIDE DEF d
  <2>2. Delivers(built, i, d)
    BY <1>3, <2>1, DeliveryIsTheStep
  <2>3. s[i] = Delivered(built, i, d)
    BY <2>1, <2>2, DeliveryIsTheStep
  <2> QED
    BY <2>1, <2>2, <2>3 DEF d
<1>7. ASSUME NEW i \in 1..Len(s)
      PROVE  /\ s[i].from = built.steps[i].from /\ s[i].fallback = built.steps[i].fallback
             /\ s[i].inputs # <<>> => (built.chain /\ i > 1) \/ R!Routed(built.steps[i])
             /\ built.chain /\ i > 1 => s[i].inputs = s[i - 1].assets
  <2> DEFINE d == Cut(s, i - 1)
  <2>1. s[i] = R!Executed(built, i, d) /\ s[i] = Delivered(built, i, d)
    BY <1>6
  <2>2. ~built.steps[i].external
    BY <1>3
  <2>3. i > 1 => d[i - 1] = s[i - 1]
    BY <1>5 DEF Cut
  <2> HIDE DEF d
  <2>4. /\ s[i].from = built.steps[i].from /\ s[i].fallback = built.steps[i].fallback
        /\ s[i].inputs # <<>> => (built.chain /\ i > 1) \/ R!Routed(built.steps[i])
    <3>1. LET e == R!Executed(built, i, d)
              asked == built.steps[i]
          IN  /\ e.from = asked.from /\ e.fallback = asked.fallback
              /\ e.inputs # <<>> => asked.external \/ (built.chain /\ i > 1) \/ R!Routed(asked)
      BY ExecutedKeeps
    <3> QED
      BY <2>1, <2>2, <3>1
  <2>5. s[i].inputs = R!Inputs(built, i, d)
    BY <2>1 DEF Delivered
  <2>6. built.chain /\ i > 1 => s[i].inputs = s[i - 1].assets
    BY <1>3, <2>2, <2>3, <2>5 DEF R!Inputs
  <2> QED
    BY <2>4, <2>6
<1>8. ASSUME NEW i \in 1..Len(s), ~R!Routed(built.steps[i]), i > 1
      PROVE  R!Chained(s) <=> built.chain
  <2>1. ASSUME R!Chained(s) PROVE built.chain
    <3>1. i \in 2..Len(s)
      BY <1>5, <1>8
    <3>2. s[i].inputs # <<>>
      BY <2>1, <3>1, Zenon DEF R!Chained
    <3> QED
      BY <1>7, <1>8, <3>2
  <2>2. ASSUME built.chain PROVE R!Chained(s)
    <3>1. \A j \in 1..Len(s) : s[j].from = {}
      BY <1>3, <1>7, <2>2 DEF R!Routed
    <3>2. Len(s) > 1
      BY <1>5, <1>8
    <3>3. ASSUME NEW j \in 2..Len(s) PROVE s[j].inputs # <<>>
      <4>1. j \in 1..Len(s) /\ j - 1 \in 1..Len(s) /\ j > 1
        BY <1>5
      <4>2. s[j].inputs = s[j - 1].assets
        BY <1>7, <2>2, <4>1
      <4> QED
        BY <1>3, <4>1, <4>2
    <3> QED
      BY <3>1, <3>2, <3>3 DEF R!Chained
  <2> QED
    BY <2>1, <2>2
<1>9. Built(q, s)
  <2> SUFFICES ASSUME NEW i \in 1..Len(s) PROVE s[i] = R!Executed(q, i, Cut(s, i - 1))
    BY DEF Built
  <2> DEFINE d == Cut(s, i - 1)
  <2>1. s[i] = R!Executed(built, i, d) /\ Delivers(built, i, d) /\ s[i] = Delivered(built, i, d)
    BY <1>6
  <2> HIDE DEF d
  <2>2. /\ built.steps[i].model = "first" /\ ~built.steps[i].external /\ ~q.steps[i].external
        /\ q.steps[i].from = built.steps[i].from /\ q.steps[i].fallback = built.steps[i].fallback
        /\ q.steps[i].model = Delivered(built, i, d).model
    BY <1>3, <1>4, <1>7, <2>1
  <2>3. ~R!Routed(built.steps[i]) /\ i > 1 => (q.chain <=> built.chain)
    BY <1>4, <1>8, Zenon
  <2>4. AsksTheSame(built, q, i, d)
    BY <2>2, <2>3, Zenon DEF AsksTheSame
  <2>5. R!Executed(q, i, d) = R!Executed(built, i, d)
    <3>1. Delivers(built, i, d) /\ AsksTheSame(built, q, i, d)
            => R!Executed(q, i, d) = R!Executed(built, i, d)
      BY SameDelivery
    <3>2. Delivers(built, i, d)
      BY <2>1
    <3> QED
      BY <2>4, <3>1, <3>2, Zenon
  <2> QED
    BY <2>1, <2>5 DEF d
<1>10. R!Steps(q) = s
  BY <1>4, <1>5, <1>9, BuiltIsRun
<1>11. R!RunOf(q).steps = R!Steps(q)
  BY <1>4 DEF R!RunOf
<1> QED
  BY <1>10, <1>11 DEF q, s

(* What is instantiated of a template of a pipeline runs as it did, when it   *)
(* ran without a failure.                                                     *)
LEMMA TemplateMakesTheSame ==
  ASSUME built \in Builds, made = R!RunOf(built), made.status = "run",
         \A i \in 1..Len(made.steps) : R!Good(made.steps[i])
  PROVE  R!RunOf(R!FromTemplate(built)).steps = made.steps
<1> DEFINE s == made.steps
           q == R!FromTemplate(built)
<1>1. R!Capable(built) /\ s = R!Steps(built)
  BY RanIsCapable
<1>2. Shape(built, Len(built.steps), s)
  BY <1>1, RunIsBuilt
<1>3. q.steps = built.steps /\ q.chain = built.chain
  BY DEF R!FromTemplate, Builds
<1> HIDE DEF q, s
<1>4. s \in Seq(StepRecords) /\ Len(s) = Len(q.steps) /\ \A i \in 1..Len(s) : R!Good(s[i])
  <2>1. \A i \in 1..Len(s) : R!Good(s[i])
    BY DEF s
  <2>2. Len(s) \in Nat /\ Len(built.steps) \in Nat
    BY <1>2 DEF Shape, Builds
  <2> QED
    BY <1>2, <1>3, <2>1, <2>2 DEF Shape
<1>5. R!Capable(q)
  BY <1>1, <1>3 DEF R!Capable
<1>6. \A i, d : R!Executed(q, i, d) = R!Executed(built, i, d)
  BY <1>3 DEF R!Executed, R!Inputs, R!Record
<1>7. Built(q, s)
  BY <1>2, <1>6, Zenon DEF Shape, Built
<1>8. R!Steps(q) = s
  BY <1>4, <1>7, BuiltIsRun
<1> QED
  BY <1>5, <1>8 DEF R!RunOf, q, s

-----------------------------------------------------------------------------
(* The frames: a run is the same while the pipeline and its providers are.    *)
LEMMA BuiltFrame ==
  ASSUME UNCHANGED <<fate, built>>
  PROVE  R!RunOf(built)' = R!RunOf(built)
<1>1. fate' = fate /\ built' = built
  OBVIOUS
<1> QED
  BY <1>1, SMT DEF R!RunOf, R!Capable, R!Steps, R!Executed, R!Inputs, R!Record, R!Resolves, R!Good,
     R!Routed, R!Sources, R!Outside

(* So is the run of what is built again. *)
LEMMA AgainFrame ==
  ASSUME UNCHANGED <<fate, again>>
  PROVE  R!RunOf(again)' = R!RunOf(again)
<1>1. fate' = fate /\ again' = again
  OBVIOUS
<1> QED
  BY <1>1, SMT DEF R!RunOf, R!Capable, R!Steps, R!Executed, R!Inputs, R!Record, R!Resolves, R!Good,
     R!Routed, R!Sources, R!Outside

(* And what is built again of them. *)
LEMMA BuildFrame ==
  ASSUME UNCHANGED <<built, made>>
  PROVE  /\ R!FromTemplate(built)' = R!FromTemplate(built)
         /\ R!Replayed(made.steps)' = R!Replayed(made.steps)
<1>1. built' = built /\ made' = made
  OBVIOUS
<1> QED
  BY <1>1 DEF R!FromTemplate, R!Replayed, R!Chained

(* RebuildInv holds at the start. *)
LEMMA RebuildStarts == R!Init => RebuildInv
<1> SUFFICES ASSUME R!Init PROVE RebuildInv
  OBVIOUS
<1>1. built \in [chain : BOOLEAN, failFast : BOOLEAN, steps : {<<>>}]
  BY DEF R!Init
<1>2. built \in Builds /\ built.steps = <<>>
  <2>1. built.steps = <<>> /\ <<>> \in Seq(StepPlans)
    BY <1>1
  <2>2. {<<>>} \subseteq Seq(StepPlans)
    BY <2>1
  <2>3. built \in Builds
    BY <1>1, <2>2, Zenon DEF Builds
  <2> QED
    BY <2>1, <2>3
<1>3. \A i \in 1..Len(built.steps) : built.steps[i].model = "first"
  BY <1>2
<1> QED
  BY <1>2, <1>3 DEF R!Init, RebuildInv

(* And is kept by step(). *)
LEMMA AddStepKept ==
  ASSUME PlansAreCalls, RebuildInv, R!AddStep
  PROVE  RebuildInv'
<1>1. PICK asked \in Plans :
        built' = [built EXCEPT !.steps = Append(@,
                    [from |-> asked.from, external |-> asked.external, model |-> "first",
                     fallback |-> asked.fallback, takes |-> asked.takes])]
  BY Zenon DEF R!AddStep
<1> DEFINE added == [from |-> asked.from, external |-> asked.external, model |-> "first",
                     fallback |-> asked.fallback, takes |-> asked.takes]
<1>2. added \in StepPlans /\ added.model = "first"
  <2>1. /\ asked.from \in SUBSET Seq(Int) /\ asked.external \in BOOLEAN /\ asked.fallback \in BOOLEAN
        /\ asked.takes \in BOOLEAN
    BY Zenon DEF PlansAreCalls
  <2> QED
    BY <2>1, Zenon DEF StepPlans, ModelNames
<1> HIDE DEF added
<1>3. built \in Builds /\ \A i \in 1..Len(built.steps) : built.steps[i].model = "first"
  BY DEF RebuildInv
<1>4. built' = [chain |-> built.chain, failFast |-> built.failFast, steps |-> Append(built.steps,
      added)]
  BY <1>1, <1>3 DEF Builds, added
<1>5. built.steps \in Seq(StepPlans) /\ built.chain \in BOOLEAN /\ built.failFast \in BOOLEAN
  BY <1>3, Zenon DEF Builds
<1>6. Append(built.steps, added) \in Seq(StepPlans)
  BY <1>2, <1>5
<1>7. built' \in Builds
  BY <1>4, <1>5, <1>6, Zenon DEF Builds
<1>8. \A i \in 1..Len(built'.steps) : built'.steps[i].model = "first"
  BY <1>2, <1>3, <1>4, <1>5
<1>9. made = R!Nothing /\ made' = made /\ via' = via /\ again' = again /\ rerun' = rerun /\ fate' = fate
  BY DEF R!AddStep
<1>10. R!Nothing' = R!Nothing
  BY DEF R!Nothing
<1>11. via = "none" /\ rerun = R!Nothing
  BY <1>9 DEF RebuildInv
<1> QED
  BY <1>7, <1>8, <1>9, <1>10, <1>11 DEF RebuildInv

(* By run(). *)
LEMMA RunKept ==
  ASSUME RebuildInv, R!Run
  PROVE  RebuildInv'
<1>1. /\ made = R!Nothing /\ made' = R!RunOf(built)
      /\ built' = built /\ fate' = fate /\ via' = via /\ again' = again /\ rerun' = rerun
  BY DEF R!Run
<1>2. R!RunOf(built)' = R!RunOf(built)
  BY <1>1, BuiltFrame
<1>3. R!Nothing' = R!Nothing
  BY DEF R!Nothing
<1>4. via = "none" /\ rerun = R!Nothing
  BY <1>1 DEF RebuildInv
<1> QED
  BY <1>1, <1>2, <1>3, <1>4 DEF RebuildInv

(* By instantiate() and replay. *)
LEMMA RebuiltKept ==
  ASSUME RebuildInv, R!Instantiate \/ R!Replay
  PROVE  RebuildInv'
<1>1. /\ made.status = "run" /\ via = "none"
      /\ \/ via' = "template" /\ again' = R!FromTemplate(built)
         \/ via' = "replay" /\ again' = R!Replayed(made.steps)
      /\ built' = built /\ fate' = fate /\ made' = made /\ rerun' = rerun
  BY DEF R!Instantiate, R!Replay
<1>2. R!RunOf(built)' = R!RunOf(built)
  BY <1>1, BuiltFrame
<1>3. /\ R!FromTemplate(built)' = R!FromTemplate(built)
      /\ R!Replayed(made.steps)' = R!Replayed(made.steps)
  BY <1>1, BuildFrame
<1>4. R!Nothing' = R!Nothing /\ made # R!Nothing
  BY <1>1 DEF R!Nothing
<1>5. rerun = R!Nothing
  BY <1>1 DEF RebuildInv
<1> QED
  BY <1>1, <1>2, <1>3, <1>4, <1>5 DEF RebuildInv

(* By the run of what was built again. *)
LEMMA RunAgainKept ==
  ASSUME RebuildInv, R!RunAgain
  PROVE  RebuildInv'
<1>1. /\ via # "none" /\ rerun' = R!RunOf(again)
      /\ built' = built /\ fate' = fate /\ made' = made /\ via' = via /\ again' = again
  BY DEF R!RunAgain
<1>2. R!RunOf(built)' = R!RunOf(built) /\ R!RunOf(again)' = R!RunOf(again)
  BY <1>1, BuiltFrame, AgainFrame
<1>3. /\ R!FromTemplate(built)' = R!FromTemplate(built)
      /\ R!Replayed(made.steps)' = R!Replayed(made.steps)
  BY <1>1, BuildFrame
<1>4. R!Nothing' = R!Nothing
  BY DEF R!Nothing
<1> QED
  BY <1>1, <1>2, <1>3, <1>4 DEF RebuildInv

(* And by a step of another machine. *)
LEMMA RebuildStutters ==
  ASSUME RebuildInv, UNCHANGED R!vars
  PROVE  RebuildInv'
<1>1. /\ built' = built /\ fate' = fate /\ made' = made /\ via' = via /\ again' = again
      /\ rerun' = rerun
  BY DEF R!vars
<1>2. R!RunOf(built)' = R!RunOf(built) /\ R!RunOf(again)' = R!RunOf(again)
  BY <1>1, BuiltFrame, AgainFrame
<1>3. /\ R!FromTemplate(built)' = R!FromTemplate(built)
      /\ R!Replayed(made.steps)' = R!Replayed(made.steps)
  BY <1>1, BuildFrame
<1>4. R!Nothing' = R!Nothing
  BY DEF R!Nothing
<1> QED
  BY <1>1, <1>2, <1>3, <1>4 DEF RebuildInv

(* RebuildInv is enough: what is built again was built from the run, so it    *)
(* is what the lemmas above speak of.                                         *)
LEMMA RebuildInvIsEnough == RebuildInv => R!RebuiltAsksTheSame /\ R!InputsAreTaken
<1> SUFFICES ASSUME RebuildInv PROVE R!RebuiltAsksTheSame /\ R!InputsAreTaken
  OBVIOUS
<1>1. /\ built \in Builds
      /\ \A i \in 1..Len(built.steps) : built.steps[i].model = "first"
      /\ made = R!Nothing \/ made = R!RunOf(built)
      /\ via \in {"none", "template", "replay"}
      /\ via = "none" => rerun = R!Nothing
      /\ via # "none" => made # R!Nothing /\ made.status = "run"
      /\ via = "template" => again = R!FromTemplate(built)
      /\ via = "replay" => again = R!Replayed(made.steps)
      /\ rerun = R!Nothing \/ rerun = R!RunOf(again)
  BY DEF RebuildInv
<1>2. R!Nothing.status = "nothing" /\ R!Nothing.steps = <<>>
  BY DEF R!Nothing
<1>3. R!RebuiltAsksTheSame
  <2> SUFFICES ASSUME rerun.status # "nothing"
               PROVE  /\ via = "replay" /\ R!Telling => rerun.steps = made.steps
                      /\ via = "template" /\ (\A i \in 1..Len(made.steps) : R!Good(made.steps[i]))
                           => rerun.steps = made.steps
    BY DEF R!RebuiltAsksTheSame
  <2>1. rerun = R!RunOf(again) /\ made = R!RunOf(built) /\ made.status = "run"
    BY <1>1, <1>2
  <2>2. ASSUME via = "replay", R!Telling PROVE rerun.steps = made.steps
    <3>1. R!RunOf(R!Replayed(made.steps)).steps = made.steps
      BY <1>1, <2>1, <2>2, ReplayMakesTheSame
    <3> QED
      BY <1>1, <2>1, <2>2, <3>1
  <2>3. ASSUME via = "template", \A i \in 1..Len(made.steps) : R!Good(made.steps[i])
        PROVE  rerun.steps = made.steps
    <3>1. R!RunOf(R!FromTemplate(built)).steps = made.steps
      BY <1>1, <2>1, <2>3, TemplateMakesTheSame
    <3> QED
      BY <1>1, <2>1, <2>3, <3>1
  <2> QED
    BY <2>2, <2>3
<1>4. R!InputsAreTaken
  <2>1. \A i \in 1..Len(made.steps) : made.steps[i].inputs # <<>> => built.steps[i].takes
    <3>1. CASE made = R!Nothing
      BY <1>2, <3>1
    <3>2. CASE made = R!RunOf(built)
      BY <1>1, <3>2, TakenByTheRun
    <3> QED
      BY <1>1, <3>1, <3>2
  <2>2. \A i \in 1..Len(rerun.steps) : rerun.steps[i].inputs # <<>> => built.steps[i].takes
    <3>1. CASE rerun = R!Nothing
      BY <1>2, <3>1
    <3>2. CASE rerun # R!Nothing
      <4>1. /\ rerun = R!RunOf(again) /\ via \in {"template", "replay"}
            /\ made = R!RunOf(built) /\ made.status = "run"
        BY <1>1, <3>2
      <4>2. /\ again \in Builds
            /\ \A i \in 1..Len(again.steps) : again.steps[i].takes => built.steps[i].takes
        <5>1. CASE via = "template"
          <6>1. again \in Builds /\ again.steps = built.steps
            BY <1>1, <5>1 DEF R!FromTemplate, Builds
          <6> QED
            BY <6>1
        <5>2. CASE via = "replay"
          <6>1. R!Capable(built) /\ made.steps = R!Steps(built)
            BY <4>1, RanIsCapable
          <6>2. Shape(built, Len(built.steps), made.steps)
            BY <1>1, <6>1, RunIsBuilt
          <6> DEFINE q == R!Replayed(made.steps)
          <6>3. /\ q \in Builds /\ Len(q.steps) = Len(made.steps)
                /\ \A i \in 1..Len(made.steps) : q.steps[i].takes = built.steps[i].takes
            BY <1>1, <6>1, <6>2, ReplayedIsBuild
          <6>4. again = q
            BY <1>1, <5>2
          <6> HIDE DEF q
          <6> QED
            BY <6>3, <6>4, Zenon
        <5> QED
          BY <4>1, <5>1, <5>2
      <4>3. \A i \in 1..Len(rerun.steps) :
              i \in 1..Len(again.steps) /\ (rerun.steps[i].inputs # <<>> => again.steps[i].takes)
        BY <4>1, <4>2, TakenByTheRun
      <4> QED
        BY <4>2, <4>3
    <3> QED
      BY <3>1, <3>2
  <2> QED
    BY <2>1, <2>2 DEF R!InputsAreTaken
<1> QED
  BY <1>3, <1>4

(* A pipeline built again from a run that tells where its inputs came from,   *)
(* or from a template of a pipeline that ran without a failure, hands every   *)
(* step what it had and asks the model that answered; and no step is ever     *)
(* handed inputs that its provider does not take (replay.py, template.py,     *)
(* pipeline.py:850-894, 1041-1091).                                           *)
THEOREM RebuiltRunsAreTheSame ==
  ASSUME PlansAreCalls
  PROVE  /\ R!Spec => [](R!RebuiltAsksTheSame /\ R!InputsAreTaken)
         /\ MCSpec => []RebuiltAsksTheSame
<1>1. RebuildInv /\ [R!Next]_R!vars => RebuildInv'
  <2> SUFFICES ASSUME RebuildInv, [R!Next]_R!vars PROVE RebuildInv'
    OBVIOUS
  <2>1. CASE UNCHANGED R!vars
    BY <2>1, RebuildStutters
  <2> QED
    BY <2>1, AddStepKept, RunKept, RebuiltKept, RunAgainKept, Zenon DEF R!Next
<1>2. MCInit => R!Init
  BY DEF MCInit
<1>3. [MCNext]_all => [R!Next]_R!vars
  BY DEF MCNext, Sinking, all, againVars, R!vars
<1>4. R!RebuiltAsksTheSame /\ R!InputsAreTaken => RebuiltAsksTheSame
  BY DEF RebuiltAsksTheSame
<1>5. R!Spec => []RebuildInv
  BY <1>1, RebuildStarts, PTL DEF R!Spec
<1>6. MCSpec => []RebuildInv
  BY <1>1, <1>2, <1>3, RebuildStarts, PTL DEF MCSpec
<1> QED
  BY <1>4, <1>5, <1>6, RebuildInvIsEnough, PTL

=============================================================================
