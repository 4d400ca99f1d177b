------------------------------ MODULE MCStores ------------------------------
(* What is written to disk or to a bucket by several requests: one of the     *)
(* four machines runs in each behaviour, on values of its own.                *)
EXTENDS ParquetSink, MediaFormats

CONSTANTS
  m1, m2, m3, u1, u2,   \* manifests, and tenants
  Paths, Files, MaxCalls,                                          \* those of MediaEmbed,
  Writers, Assets, Indexed, Tenants, Bytes, Manifests, TenantOf,   \* of AssetStore,
  Threads, Walkers, Programs, Regions, LastKey, PageSize, BatchMax,          \* of S3Backend,
  MaxFaults                                                        \* and of each of them

VARIABLES
  store,     \* the machine that runs: "media", "assets", "parquet" or "backend"
  media, sidecar, stage, embed, told, first, calls,
  slips,     \* those of MediaEmbed
  pipelined, final, temp, ties, legacy, at, asset, manifest, read, met, sure, excused,
  lost,      \* those of AssetStore
  bucket, config, region, endpoint, client, verified, refusal, lock, native, copy, mixed, where, op, result, walk, objects, urls,
  faulty     \* those of S3Backend

mediaVars == <<media, sidecar, stage, embed, told, first, calls, slips>>
assetVars == <<pipelined, final, temp, ties, legacy, at, asset, manifest, read, met, sure,
               excused, lost>>
backendVars == <<bucket, config, region, endpoint, client, verified, refusal, lock, native, copy,
                 mixed, where, op, result, walk, objects, urls, faulty>>
all == <<store, vars, mediaVars, assetVars, backendVars>>

MCSizeOf == [m \in {m1, m2, m3} |->
               CASE m = m1 -> "small" [] m = m2 -> "large" [] m = m3 -> "huge"]

\* With or without other metadata; whole, with a tail, or with an open last chunk.
Shape(f, middle, open, last) ==
  [format |-> f,
   chunks |-> <<Chunk("head")>> \o middle \o <<[Chunk("body") EXCEPT !.open = open]>> \o last]

Middles(f) ==
  {<<>>, <<Chunk("info")>>} \cup
  IF f \in {"jpeg", "webp"} THEN {<<Chunk("info"), Holding("merged", m1)>>} ELSE {}

MCFiles ==
  UNION {{Shape(f, middle, FALSE, last) : middle \in Middles(f), last \in {<<>>, <<Chunk("tail")>>}}
         \cup {Shape(f, middle, TRUE, <<>>) : middle \in Middles(f)}
         : f \in {"png", "jpeg", "webp", "wav", "rf64", "mp4", "m4a", "flac", "mp3", "other"}}

\* A file has one chunk that comes first and at most one that trails; an MP4
\* has no manifest yet.
ASSUME FilesAreMedia ==
  /\ Files \subseteq
       [format : STRING, chunks : Seq([tag : Tags, manifest : {{}} \cup Manifests, open : BOOLEAN])]
  /\ \A f \in Files :
       /\ f.chunks # <<>> /\ Head(f.chunks).tag = "head"
       /\ \A i \in DOMAIN f.chunks : f.chunks[i].tag = "tail" => i = Len(f.chunks)
       /\ f.format = "mp4" => \A i \in DOMAIN f.chunks : f.chunks[i].tag # "own"

ASSUME ManifestsAreSome == Raised \notin Manifests

E == INSTANCE MediaEmbed WITH pc <- stage, call <- embed, faults <- slips

\* Two assets of different bytes; two manifests of one tenant, one of another.
MCBytes == [a \in Assets |-> a]
MCTenantOf == [m \in Manifests |-> IF m = m3 THEN u2 ELSE u1]

A == INSTANCE AssetStore WITH index <- ties, pc <- at, faults <- lost

\* A program that walks a bucket which others change, one of single requests, and
\* one that copies its backend.
MCPrograms ==
  {{"put", "delete", "delete_many", "delete_prefix", "dry_run"},
   {"put", "get", "exists", "delete", "presigned_url", "durable_url", "aget"},
   {"durable_url", "aget", "from_sync"}}

B == INSTANCE S3Backend WITH pc <- where, faults <- faulty

Still == [v \in Versions |-> CHOOSE c \in Contents : c.assets]

\* The machines that do not run stand still in one of their initial states.
MCInit ==
  /\ store \in {"media", "assets", "parquet", "backend"}
  /\ E!Init /\ (store = "media" \/ (first = (CHOOSE f \in Files : TRUE) /\ media[CHOOSE p \in Paths : TRUE] = first))
  /\ A!Init /\ (store = "assets" \/ (~pipelined /\ \A a \in Assets : legacy[a] = A!Nothing))
  /\ Init   /\ (store = "parquet" \/ (latest = 0 /\ content = Still))
  /\ B!Init /\ config.region = (CHOOSE r \in Regions : TRUE)   \* they are interchangeable
  /\ store = "backend" \/ (bucket.home = B!Nobody /\ ~bucket.allowed /\ ~config.b2 /\ config.uses = (CHOOSE p \in Programs : TRUE))
  /\ store = "backend" \/ \A r \in Regions : bucket.elsewhere[r] = "404"

MCNext ==
  /\ UNCHANGED store
  /\ \/ store = "media"   /\ E!Next /\ UNCHANGED <<vars, assetVars, backendVars>>
     \/ store = "assets"  /\ A!Next /\ UNCHANGED <<vars, mediaVars, backendVars>>
     \/ store = "parquet" /\ Next   /\ UNCHANGED <<mediaVars, assetVars, backendVars>>
     \/ store = "backend" /\ B!Next /\ UNCHANGED <<vars, mediaVars, assetVars>>

MCSpec == MCInit /\ [][MCNext]_all

(* An embedded file is what it was, with a manifest: MediaEmbed.  *)
EmbedIsFaithful == E!MediaKept /\ E!ReadsBack

(* Content keys and the temporary ones before them: AssetStore. *)
CasIsContent == A!CasIsContent /\ A!TempIsTidy

(* An asset stays tied to its manifest: AssetStore. *)
IndexStays == A!IndexStays

(* No request goes astray and only true refusals are kept: S3Backend. *)
PreflightIsRight == B!PreflightIsRight

(* A prefix is deleted or accounted for: S3Backend. *)
WalkAccounts == B!WalkAccounts

(* A durable URL is recognised later: S3Backend. *)
UrlsStayOurs == B!UrlsStayOurs
=============================================================================
