----------------------------- MODULE MediaEmbed -----------------------------
(***************************************************************************)
(* SmartEmbedder.embed() on two paths of one disk, again and again: inline *)
(* by the format's handler, else a sidecar file, or a pointer sidecar when *)
(* the policy asks for it, in place or to another path.  Every file is     *)
(* filled under a temporary name and moved over its target (atomic_write); *)
(* filling may fail and the process may die between any two steps.  What   *)
(* `genblaze extract` then finds is ExtractManifest.                       *)
(***************************************************************************)
EXTENDS MediaFormats

CONSTANTS
  Paths,
  Manifests,
  Files,      \* the media files the first path may hold
  MaxCalls,   \* bound: calls of embed()
  MaxFaults   \* bound: failed writes and deaths

Nothing == [kind |-> "none", manifest |-> {}, mime |-> "none"]
Idle == [source |-> {}, output |-> {}, manifest |-> {}, mode |-> "none", mime |-> "none"]
Absent == [kind |-> "none", manifest |-> {}]
NoFile == [format |-> "none", chunks |-> <<>>]

VARIABLES
  media,    \* path to media file
  sidecar,  \* path to what its .genblaze.json holds
  pc,
  call,     \* the running embed()
  told,     \* history: path to the method and manifest of the last embed() that returned for it
  first,    \* history: the file the disk held at first
  calls, faults

vars == <<media, sidecar, pc, call, told, first, calls, faults>>

Methods == {"inline", "sidecar", "pointer"}

TypeOK ==
  /\ \A p \in Paths : media[p] = NoFile \/ media[p].format = first.format
  /\ sidecar \in [Paths -> {Absent} \cup [kind : {"full", "pointer"}, manifest : Manifests]]
  /\ pc \in {"idle", "fill_inline", "move_inline", "fill_copy", "move_copy", "fill_side", "move_side"}
  /\ told \in [Paths -> {Nothing} \cup [kind : Methods, manifest : Manifests, mime : {"none", "aac"}]]
  /\ calls \in 0..MaxCalls
  /\ faults \in 0..MaxFaults

Init ==
  /\ first \in Files
  /\ \E p \in Paths : media = [q \in Paths |-> IF q = p THEN first ELSE NoFile]
  /\ sidecar = [p \in Paths |-> Absent]
  /\ pc = "idle"
  /\ call = Idle
  /\ told = [p \in Paths |-> Nothing]
  /\ calls = 0
  /\ faults = 0

-----------------------------------------------------------------------------
TheHandler == IF call.mime = "none" THEN Handler(media[call.source].format) ELSE call.mime

Embedded == EmbedWith(TheHandler, media[call.source], call.manifest)

(* After the inline attempt: the copy is made only for another output. *)
Fallback == IF call.source = call.output THEN "fill_side" ELSE "fill_copy"

Returns(method) ==
  /\ pc' = "idle"
  /\ call' = Idle
  /\ told' = [told EXCEPT ![call.output] = 
                 [kind |-> method, manifest |-> call.manifest, mime |-> call.mime]]

Raises ==
  /\ pc' = "idle"
  /\ call' = Idle
  /\ UNCHANGED told

(* A policy that redacts raises in full mode, and mode none does nothing:  *)
(* neither is a call here.                                                 *)
Embed ==
  /\ pc = "idle"
  /\ calls < MaxCalls
  /\ calls' = calls + 1
  /\ \E p, q \in Paths : \E m \in Manifests : \E mode \in {"full", "pointer"} :
     \E mime \in {"none"} \cup IF media[p].format = "m4a" THEN {"aac"} ELSE {} :
       /\ media[p] # NoFile
       /\ call' = [source |-> p, output |-> q, manifest |-> m, mode |-> mode, mime |-> mime]
       /\ pc' = IF mode = "pointer" THEN IF p = q THEN "fill_side" ELSE "fill_copy"
                ELSE "fill_inline"
  /\ UNCHANGED <<media, sidecar, told, first, faults>>

(* The handler computes the new bytes before it opens a temporary file. *)
FillInline ==
  /\ pc = "fill_inline"
  /\ pc' = IF Embedded = Raised THEN Fallback ELSE "move_inline"
  /\ UNCHANGED <<media, sidecar, call, told, first, calls, faults>>

(* os.replace() *)
MoveInline ==
  /\ pc = "move_inline"
  /\ media' = [media EXCEPT ![call.output] =
                 [format |-> media[call.source].format, chunks |-> Embedded]]
  /\ Returns("inline")
  /\ UNCHANGED <<sidecar, first, calls, faults>>

FillCopy ==
  /\ pc = "fill_copy"
  /\ pc' = "move_copy"
  /\ UNCHANGED <<media, sidecar, call, told, first, calls, faults>>

(* From here on the output is other media than what it was told of. *)
MoveCopy ==
  /\ pc = "move_copy"
  /\ media' = [media EXCEPT ![call.output] = media[call.source]]
  /\ told' = [told EXCEPT ![call.output] = Nothing]
  /\ pc' = "fill_side"
  /\ UNCHANGED <<sidecar, call, first, calls, faults>>

FillSide ==
  /\ pc = "fill_side"
  /\ pc' = "move_side"
  /\ UNCHANGED <<media, sidecar, call, told, first, calls, faults>>

MoveSide ==
  /\ pc = "move_side"
  /\ sidecar' = [sidecar EXCEPT ![call.output] = [kind |-> call.mode, manifest |-> call.manifest]]
  /\ Returns(IF call.mode = "pointer" THEN "pointer" ELSE "sidecar")
  /\ UNCHANGED <<media, first, calls, faults>>

Fault == faults < MaxFaults /\ faults' = faults + 1

(* A write that fails: the temporary file is unlinked.  The embedder takes *)
(* a failed handler for a reason to write a sidecar.                       *)
WriteFails ==
  /\ pc # "idle"
  /\ Fault
  /\ IF pc \in {"fill_inline", "move_inline"}
     THEN pc' = Fallback /\ UNCHANGED <<call, told>>
     ELSE Raises
  /\ UNCHANGED <<media, sidecar, first, calls>>

Dies ==
  /\ pc # "idle"
  /\ Fault
  /\ Raises
  /\ UNCHANGED <<media, sidecar, first, calls>>

Next ==
  \/ Embed
  \/ FillInline \/ MoveInline \/ FillCopy \/ MoveCopy \/ FillSide \/ MoveSide
  \/ WriteFails \/ Dies

Spec == Init /\ [][Next]_vars

-----------------------------------------------------------------------------
(* What a reader finds. *)

SidecarExtract(p) ==
  IF sidecar[p].kind = "full" /\ SizeOf[sidecar[p].manifest] \in Capped
  THEN sidecar[p].manifest ELSE Raised

(* extract_manifest() of the command line: the media first, then the       *)
(* sidecar.                                                                *)
ExtractManifest(p) ==
  LET inline == ExtractWith(Handler(media[p].format), media[p])
  IN  IF inline # Raised THEN inline ELSE SidecarExtract(p)

-----------------------------------------------------------------------------
(* Whatever was embedded, failed or died half-way, the media of every file *)
(* is the media there was, in order: nothing but manifests, and in a WAV   *)
(* its INFO lists, comes and goes.  In an MP4 nothing even moves, or the   *)
(* sample offsets in moov would be wrong.                                  *)
MediaKept ==
  \A p \in Paths : media[p] # NoFile =>
    LET ours == {"own", "tag", "tail"} \cup IF first.format = "wav" THEN {"info"} ELSE {}
    IN  /\ Without(media[p].chunks, ours) = Without(first.chunks, ours)
        /\ first.format = "mp4" =>
             IsPrefix(Without(first.chunks, {"tail"}), media[p].chunks)

(* embed() tells where the manifest is, and that is where a reader finds   *)
(* it, replacing whatever manifest was there; as long as the file had      *)
(* whole chunks, the manifest is not over the readers' limit, and the      *)
(* caller left the format to be found from the content.                    *)
ReadsBack ==
  \A p \in Paths :
    LET is == told[p]
    IN  /\ is.kind = "inline" /\ is.mime = "none" /\ ~Broken(first.chunks)
             /\ SizeOf[is.manifest] \in Capped
           => ExtractManifest(p) = is.manifest
        /\ is.kind = "sidecar" /\ SizeOf[is.manifest] \in Capped
           => SidecarExtract(p) = is.manifest
        /\ is.kind = "pointer" => sidecar[p] = [kind |-> "pointer", manifest |-> is.manifest]

=============================================================================
