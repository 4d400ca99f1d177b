------------------------------ MODULE Custody ------------------------------
(* The life of a provenance manifest (models/manifest.py): a run is made or   *)
(* assets are ingested, the manifest is hashed, signed, and written, by the   *)
(* sink after it moved the assets into the bucket or by to_canonical_json();  *)
(* the document is then kept, edited by hand, saved again by a reader, and    *)
(* read and verified by the sink, the CLI or a holder of its signature.       *)
(*                                                                            *)
(* A hash is the payload it is computed from; a digest is the object it is    *)
(* of.  An asset's width, height, duration, ... are one value, its "meta";    *)
(* the timestamps, errors, retries and costs of a run are its "ops"; what was *)
(* asked for (provider, model, prompt, params, the caller's metadata) is its  *)
(* "made".  The inputs of a step are hashed as its outputs are.  The "shape"  *)
(* of a run is which fields its assets have: those of today, null ones too,   *)
(* or those of before video and audio (1.0 to 1.2).  Nobody who edits a       *)
(* document recomputes its hash: only a signature would tell.                 *)
EXTENDS Integers, Sequences

CONSTANTS
  Makes,    \* what a run may be asked for
  Secret,   \* those of Makes whose prompt visibility is ENCRYPTED
  Jobs,     \* job ids that a provider may assign
  Edits     \* bound: changes made to a document by hand; its outputs count too

VARIABLES
  mem,      \* the manifest in the memory of the process that made the run
  fresh,    \* what it was when the run was made
  prior,    \* what that of the run before was
  doc,      \* the document in custody
  origin,   \* what the writer of the document wrote
  edits,    \* what was changed in it by hand since
  world     \* place to object to the digest of the bytes that are there

vars == <<mem, fresh, prior, doc, origin, edits, world>>

Nothing == [schema |-> "nothing"]

Places == {"origin", "bucket", "mirror"}

Objects == 1..2

\* A malformed sha256 is tolerated on construction and on load.
NoSha == <<>>
Malformed == <<"malformed">>
Digest(made, o) == <<made, o>>
Gone == <<"gone">>
ValidSha(sha) == Len(sha) = 2

\* "inf" stands for NaN and Infinity, which canonical JSON writes as null, "none".
Metas == {"none", "fit", "zero", "inf"}
Normal(meta) == IF meta = "inf" THEN "none" ELSE meta
ValidMeta(meta) == meta \in {"none", "fit"}

-----------------------------------------------------------------------------
(* The hash. *)

WriteSchemas == {"1.0", "1.3", "1.5"}
SupportedSchemas == WriteSchemas \cup {"1.6"}

Policy(s) == [randomIds |-> s \in {"1.0", "1.3"}, markUnhashed |-> s = "1.6"]

StripAsset(a, mark) ==
  [sha |-> a.sha, meta |-> Normal(a.meta),
   marker |-> IF mark /\ ~ValidSha(a.sha) THEN <<a.url.at, a.url.of>> ELSE <<>>]

HashedAsset(s, a) ==
  IF Policy(s).randomIds THEN [a EXCEPT !.meta = Normal(@)]
  ELSE StripAsset(a, Policy(s).markUnhashed)

HashPayload_NoAttempts(s, run) ==
  [schema   |-> s,
   made     |-> run.made,
   job      |-> run.job,
   ids      |-> IF Policy(s).randomIds THEN <<run.id>> ELSE <<>>,
   attempts |-> Len(run.attempts),
   fields   |-> IF run.outputs = <<>> THEN "none" ELSE run.shape,
   outputs  |-> [k \in DOMAIN run.outputs |-> HashedAsset(s, run.outputs[k])]]

\* Of the step's metadata, the hash covers the provider's job id too; of an asset,
\* the null fields as the others.
HashPayload(s, run) ==
  [schema   |-> s,
   made     |-> run.made,
   job      |-> run.job,
   ids      |-> IF Policy(s).randomIds THEN <<run.id>> ELSE <<>>,
   attempts |-> [k \in DOMAIN run.attempts |-> run.attempts[k].what],
   fields   |-> IF run.outputs = <<>> THEN "none" ELSE run.shape,
   outputs  |-> [k \in DOMAIN run.outputs |-> HashedAsset(s, run.outputs[k])]]

Hashed(m) == [m EXCEPT !.hash = HashPayload(m.schema, m.run)]

HashVerifies(m) == m.hash = HashPayload(m.schema, m.run)

Outputs(m) == {m.run.outputs[k] : k \in DOMAIN m.run.outputs}

Unhashed(m) == {a \in Outputs(m) : ~ValidSha(a.sha)}

OutOfSpec(m) == {a \in Outputs(m) : ~ValidMeta(a.meta)}

\* Manifest.verify().
Verify(m) == HashVerifies(m) /\ Unhashed(m) = {} /\ OutOfSpec(m) = {}

NoHash == [schema |-> "unhashed"]

NewManifest(s, run, scheme) ==
  Hashed([schema |-> s, run |-> run, hash |-> NoHash, sig |-> NoHash, scheme |-> scheme,
          uri |-> FALSE, failures |-> {}])

Sealed(m) == m.sig = HashPayload(m.schema, m.run)

-----------------------------------------------------------------------------
(* Reading. *)

\* A document without a version is of the oldest.
Version(d) == IF d.schema = "missing" THEN "1.0" ELSE d.schema

\* What is parsed has every field of today: a migration, or the model's default, adds
\* null for those that the document lacks.  The version is left alone.
Parsed(run) == [run EXCEPT !.shape = "today"]

Migrated(d) == [d EXCEPT !.schema = Version(d), !.run = Parsed(d.run)]

Readable(d) ==
  /\ Migrated(d).schema \in SupportedSchemas
  /\ d.run.made \in Secret => d.scheme

\* ObjectStorageSink.read_manifest(verify=True) and _verify_stored_manifest().
ReadManifest(d, strict, allow) ==
  /\ Readable(d)
  /\ HashVerifies(Migrated(d))
  /\ strict /\ ~allow => Unhashed(Migrated(d)) = {}

\* _fetch_and_compare(): what cannot be fetched is a failure.
Fetched(m) == \A a \in Outputs(m) : world[a.url.at][a.url.of] = a.sha

\* `genblaze verify`, with --hash-only, with neither option, or with --fetch.
CliVerify(d, mode) ==
  /\ Readable(d)
  /\ HashVerifies(Migrated(d))
  /\ mode # "hash-only" => Verify(Migrated(d))
  /\ mode = "fetch" => Fetched(Migrated(d))

\* verify_signature_bundle() does not look at canonical_hash.
BundleVerifies(d) == Readable(d) /\ Sealed(Migrated(d))

-----------------------------------------------------------------------------
(* Writing. *)

\* Manifests of a version that is only read are not written.
Writable(m) == m.schema \in WriteSchemas

Written(d) == [run |-> d.run, schema |-> Version(d),
               sealed |-> d.sig = HashPayload(Version(d), d.run)]

Keep(d) == doc' = d /\ origin' = Written(d) /\ edits' = <<>>

Asset(i, o, sha, meta) ==
  [id |-> i, url |-> [at |-> "origin", of |-> o, signed |-> FALSE], sha |-> sha, meta |-> meta]

Serial == IF mem = Nothing THEN 1 ELSE mem.run.id + 1

\* What the provider leaves at its own URLs; it may declare a digest.
Generated(made, job, n, declared, rescued) ==
  [id |-> Serial, ops |-> 0, made |-> made, job |-> job, shape |-> "today",
   attempts |-> IF rescued THEN <<[what |-> "primary", ops |-> 0]>> ELSE <<>>,
   outputs |-> [k \in 1..n |->
     Asset(<<Serial, k>>, k, IF declared THEN Digest(made, k) ELSE NoSha, "fit")]]

\* The bytes of a new run are at its provider and nowhere else.
Served(made) ==
  world' = [p \in Places |-> [o \in Objects |-> IF p = "origin" THEN Digest(made, o) ELSE Gone]]

\* Manifest.from_run(), at another version when the caller names one.
Execute(s, made, job, n, declared, rescued) ==
  /\ Serial <= 2
  /\ \E scheme \in {made \in Secret} :
       mem' = NewManifest(s, Generated(made, job, n, declared, rescued), scheme)
  /\ fresh' = mem' /\ prior' = fresh /\ doc' = Nothing /\ origin' = Nothing /\ edits' = <<>>
  /\ Served(made)

Moved(a, made) ==
  [a EXCEPT !.url = [at |-> "bucket", of |-> a.url.of, signed |-> FALSE],
            !.sha = Digest(made, a.url.of)]

Store(w, run, moved) ==
  [w EXCEPT !["bucket"] = [o \in Objects |->
     IF \E k \in moved : run.outputs[k].url.of = o THEN Digest(run.made, o) ELSE @[o]]]

\* _asset_already_transferred(): it points into the bucket and has a digest.
Transferred(a) == a.url.at = "bucket" /\ ValidSha(a.sha)

\* ObjectStorageSink.write_run(): the document of a run is put once; a failed
\* transfer keeps it from being put.
WriteRun(failed) ==
  LET run     == mem.run
      pending == {k \in DOMAIN run.outputs : ~Transferred(run.outputs[k])}
      moved   == pending \ failed
      after   == [mem EXCEPT
                    !.run.outputs = [k \in DOMAIN @ |->
                       IF k \in moved THEN Moved(@[k], run.made) ELSE @[k]],
                    !.failures = failed]
  IN /\ mem # Nothing /\ Writable(mem) /\ (doc = Nothing \/ mem.uri)
     /\ failed \subseteq pending
     /\ world' = Store(world, run, moved)
     /\ IF failed # {} THEN mem' = Hashed(after) /\ UNCHANGED <<doc, origin, edits>>
        ELSE /\ mem' = [Hashed(after) EXCEPT !.uri = TRUE]
             /\ IF doc = Nothing THEN Keep(Hashed(after)) ELSE UNCHANGED <<doc, origin, edits>>
     /\ UNCHANGED <<fresh, prior>>

\* to_canonical_json(), or to_embed_json() in full, by the caller.
Publish ==
  /\ mem # Nothing /\ doc = Nothing /\ Writable(mem)
  /\ Keep(mem)
  /\ UNCHANGED <<mem, fresh, prior, world>>

\* A newer release, which writes 1.6, or an older or foreign writer, which may leave
\* the version out, or values that this one refuses to construct; an old one hashed
\* the fields that it knew.
PublishedElsewhere(s, meta, shape) ==
  /\ shape = "before" => s = "missing"
  /\ mem # Nothing /\ mem = fresh /\ mem.schema = "1.5" /\ mem.run.outputs # <<>>
  /\ doc = Nothing
  /\ LET run == [mem.run EXCEPT !.outputs[1].meta = meta, !.shape = shape]
         m   == NewManifest(IF s = "missing" THEN "1.0" ELSE s, run, mem.scheme)
     IN Keep([m EXCEPT !.schema = s])
  /\ UNCHANGED <<mem, fresh, prior, world>>

\* Ed25519Signer.sign_manifest(), of what the manifest holds now.
Sign ==
  /\ mem # Nothing /\ mem.sig = NoHash
  /\ mem' = [mem EXCEPT !.sig = HashPayload(mem.schema, mem.run)]
  /\ UNCHANGED <<fresh, prior, doc, origin, edits, world>>

\* asset_provenance_key(), as a number: by digest, then by what else is hashed.
ProvenanceKey(s, a) ==
  LET kept == StripAsset(a, Policy(s).markUnhashed)
  IN 10 * (IF ValidSha(kept.sha) THEN kept.sha[2] ELSE 0)
     + (CASE kept.meta = "none" -> 0 [] kept.meta = "fit" -> 1 [] kept.meta = "zero" -> 2)

\* sorted(): what has the same key stays in the order it came in.
Before(outputs, j, k) ==
  LET key(i) == ProvenanceKey("1.5", outputs[i])
  IN key(j) < key(k) \/ (key(j) = key(k) /\ j < k)

Sorted(outputs) ==
  LET order == CHOOSE p \in [DOMAIN outputs -> DOMAIN outputs] :
                 \A j, k \in DOMAIN outputs : j < k => Before(outputs, p[j], p[k])
  IN [k \in DOMAIN outputs |-> outputs[order[k]]]

InOrderOfContent_SortedFirst(outputs, put) ==
  LET sorted == Sorted(outputs)
  IN [k \in DOMAIN sorted |-> put[CHOOSE j \in DOMAIN put : put[j].id = sorted[k].id]]

\* Each asset is put, and only then are they put in the order of their content.
InOrderOfContent(outputs, put) == Sorted([k \in DOMAIN outputs |-> put[k]])

\* ingest_assets(), with a sink that takes assets or with none: a step for each asset.
Ingest(made, order, known, sink) ==
  LET given   == [k \in 1..Len(order) |->
                   Asset(<<Serial, k>>, order[k],
                         IF known THEN Digest(made, order[k]) ELSE NoSha, "none")]
      put     == [k \in DOMAIN given |-> IF sink THEN Moved(given[k], made) ELSE given[k]]
      run     == [id |-> Serial, ops |-> 0, made |-> made, job |-> "none", shape |-> "today",
                  attempts |-> <<>>, outputs |-> InOrderOfContent(given, put)]
      written == NewManifest("1.5", run, FALSE)
  IN /\ Serial <= 2 /\ made \notin Secret
     /\ mem' = [written EXCEPT !.uri = sink]
     /\ fresh' = mem' /\ prior' = fresh
     /\ IF sink THEN Keep(mem') ELSE doc' = Nothing /\ origin' = Nothing /\ edits' = <<>>
     /\ world' = [p \in Places |-> [o \in Objects |->
          IF p = "origin" \/ (p = "bucket" /\ sink) THEN Digest(made, o) ELSE Gone]]

-----------------------------------------------------------------------------
(* Custody. *)

\* A change to one field, by an editor or a tool that knows nothing of the hash.
Amended(d) ==
  {[how |-> "ops", d |-> [d EXCEPT !.run.ops = 1 - @]],
   [how |-> "ids", d |-> [d EXCEPT !.run.id = 9]],
   [how |-> "made", d |-> [d EXCEPT !.run.made = "edited"]],
   [how |-> "job", d |-> [d EXCEPT !.run.job = "edited"]],
   [how |-> "nulls", d |-> [d EXCEPT !.run.shape = IF @ = "today" THEN "before" ELSE "today"]],
   [how |-> "uri", d |-> [d EXCEPT !.uri = ~@]],
   [how |-> "failures", d |-> [d EXCEPT !.failures = {1} \ @]],
   [how |-> "scheme", d |-> [d EXCEPT !.scheme = ~@]],
   [how |-> "lost", d |-> [d EXCEPT !.run.outputs = IF @ = <<>> THEN @ ELSE Tail(@)]]}
  \cup {[how |-> "schema", d |-> [d EXCEPT !.schema = s]] :
          s \in SupportedSchemas \cup {"missing", "2.0"}}
  \cup {[how |-> "attempt", d |-> [d EXCEPT !.run.attempts[k].what = "edited"]] :
          k \in DOMAIN d.run.attempts}
  \cup {[how |-> "ops", d |-> [d EXCEPT !.run.attempts[k].ops = 1 - @]] :
          k \in DOMAIN d.run.attempts}
  \cup UNION {
     {[how |-> "assetId", d |-> [d EXCEPT !.run.outputs[k].id = <<9, k>>]],
      [how |-> "presigned", d |-> [d EXCEPT !.run.outputs[k].url.signed = ~@]],
      [how |-> "mirrored", d |-> [d EXCEPT !.run.outputs[k].url.at = "mirror"]]}
     \cup {[how |-> "sha", d |-> [d EXCEPT !.run.outputs[k].sha = sha]] :
             sha \in {NoSha, Malformed, Digest("edited", 1)}}
     \cup {[how |-> "meta", d |-> [d EXCEPT !.run.outputs[k].meta = meta]] : meta \in Metas}
     : k \in DOMAIN d.run.outputs}

MayChange ==
  doc # Nothing /\ Len(edits) < Edits /\ Len(edits) + Len(origin.run.outputs) <= Edits

Amend ==
  /\ MayChange
  /\ \E a \in Amended(doc) :
       /\ a.d # doc
       /\ doc' = a.d
       /\ edits' = Append(edits, a.how)
  /\ UNCHANGED <<mem, fresh, prior, origin, world>>

\* `genblaze extract -o`: what a reader saves, at any version it reads, is what it
\* parsed; canonical JSON has no Infinity.
Resave ==
  LET outputs == doc.run.outputs
  IN /\ doc # Nothing /\ Readable(doc)
     /\ doc' = [Migrated(doc) EXCEPT !.run.outputs =
                  [k \in DOMAIN outputs |-> [outputs[k] EXCEPT !.meta = Normal(@)]]]
     /\ UNCHANGED <<mem, fresh, prior, origin, edits, world>>

\* Stored bytes are replaced or go; a mirror serves something.
Rot ==
  /\ MayChange
  /\ \E a \in Outputs(doc), b \in {Gone, Digest("edited", 1)} :
       /\ world[a.url.at][a.url.of] # b
       /\ world' = [world EXCEPT ![a.url.at][a.url.of] = b]
  /\ edits' = Append(edits, "bytes")
  /\ UNCHANGED <<mem, fresh, prior, doc, origin>>

Init ==
  /\ mem = Nothing /\ fresh = Nothing /\ prior = Nothing
  /\ doc = Nothing /\ origin = Nothing /\ edits = <<>>
  /\ world = [p \in Places |-> [o \in Objects |-> Gone]]

Next ==
  \/ \E s \in {"1.3", "1.5"}, made \in Makes, job \in Jobs, n \in 0..2,
        declared \in BOOLEAN : Execute(s, made, job, n, declared, n = 1)
  \/ \E made \in Makes, order \in {<<1, 2>>, <<2, 1>>, <<1>>}, known, sink \in BOOLEAN :
       Ingest(made, order, known, sink)
  \/ \E failed \in SUBSET Objects : WriteRun(failed)
  \/ Publish
  \/ \E s \in {"missing", "1.6", "2.0"}, meta \in Metas, shape \in {"before", "today"} :
       PublishedElsewhere(s, meta, shape)
  \/ Sign
  \/ Amend
  \/ Resave
  \/ Rot

Spec == Init /\ [][Next]_vars
-----------------------------------------------------------------------------
(* What the manifest promises. *)

SameContent(run) ==
  LET was == origin.run
  IN /\ run.made = was.made /\ run.job = was.job
     /\ DOMAIN run.attempts = DOMAIN was.attempts
     /\ \A k \in DOMAIN run.attempts : run.attempts[k].what = was.attempts[k].what
     /\ DOMAIN run.outputs = DOMAIN was.outputs
     /\ \A k \in DOMAIN run.outputs :
          /\ run.outputs[k].sha = was.outputs[k].sha
          /\ Normal(run.outputs[k].meta) = Normal(was.outputs[k].meta)

(* Whatever was edited, and whichever reader saved it again, a document that  *)
(* verifies holds the request, the failed attempts and the outputs that its   *)
(* writer hashed, each output with a digest; --fetch also vouches for the     *)
(* bytes that are there now, and so does a signature for the content          *)
(* (manifest.py:194-249, sink.py:128-166, verify.py:102-231, ed25519.py).     *)
VerifiedIsWhatWasMade ==
  doc # Nothing =>
    LET run == doc.run
    IN /\ CliVerify(doc, "hash-only") => SameContent(run)
       /\ CliVerify(doc, "default") =>
            /\ SameContent(run)
            /\ \A k \in DOMAIN run.outputs : ValidSha(origin.run.outputs[k].sha)
       /\ CliVerify(doc, "fetch") =>
            \A k \in DOMAIN run.outputs :
              LET url == run.outputs[k].url
              IN world[url.at][url.of] = origin.run.outputs[k].sha
       /\ ReadManifest(doc, TRUE, FALSE) =>
            /\ SameContent(run)
            /\ \A k \in DOMAIN run.outputs : ValidSha(origin.run.outputs[k].sha)
       /\ BundleVerifies(doc) /\ origin.sealed => SameContent(run)

\* Edits of what manifest-provenance.md calls operational or transport-only.
Operational ==
  {"ops", "uri", "failures", "bytes", "nulls"}
  \cup (IF Policy(origin.schema).randomIds THEN {} ELSE {"ids", "assetId", "presigned"})
  \cup (IF ~Policy(origin.schema).randomIds
           /\ (~Policy(origin.schema).markUnhashed
               \/ \A k \in DOMAIN origin.run.outputs : ValidSha(origin.run.outputs[k].sha))
         THEN {"mirrored"} ELSE {})

\* Its writer hashed the fields that a reader of today hashes.
HashedAsToday(run) == run.outputs # <<>> => run.shape = "today"

(* What a writer of today's fields wrote verifies when it is read, at every   *)
(* version: after partial transfers, a move of the assets, a presigned URL,   *)
(* new operational values, null fields left out and filled in again; a        *)
(* signature made of it verifies as well.  A document with assets by a        *)
(* writer of 1.0 to 1.2 never does: the nulls that its migration adds are     *)
(* hashed (manifest.py:123-132, 218-226, 423-534; sink.py:739-783).           *)
CustodyKeepsTheHash ==
  doc # Nothing /\ origin.schema \in SupportedSchemas
  /\ (\A k \in DOMAIN edits : edits[k] \in Operational) =>
    /\ CliVerify(doc, "hash-only") <=> HashedAsToday(origin.run)
    /\ ReadManifest(doc, FALSE, FALSE) <=> HashedAsToday(origin.run)
    /\ origin.sealed /\ HashedAsToday(origin.run) => BundleVerifies(doc)

Content(m) == [k \in DOMAIN m.run.outputs |->
                 <<m.run.outputs[k].url.of, m.run.outputs[k].sha>>]

(* The same assets ingested again, in another order, give the same hash       *)
(* (ingest.py:203-214; docs/features/ingest-workflows.md:206).                *)
IngestIsOrderFree ==
  prior # Nothing /\ fresh.run.job = "none" /\ prior.run.job = "none"
  /\ fresh.run.made = prior.run.made
  /\ {Content(fresh)[k] : k \in DOMAIN Content(fresh)}
      = {Content(prior)[k] : k \in DOMAIN Content(prior)}
    => fresh.hash = prior.hash

(* The same request, with the same outcome, gives the same hash: the job id   *)
(* does not enter it (base.py:1707-1710, trust-modes.md:21).                  *)
RerunsHashAlike ==
  prior # Nothing
  /\ ~Policy(fresh.schema).randomIds /\ fresh.schema = prior.schema
  /\ fresh.run.made = prior.run.made
  /\ fresh.run.attempts = prior.run.attempts
  /\ Content(fresh) = Content(prior) /\ Content(fresh) # <<>>
  /\ (fresh.run.job = "none") = (prior.run.job = "none")
  /\ fresh.run.job # "none"
    => fresh.hash = prior.hash
=============================================================================
