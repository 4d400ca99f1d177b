---------------------------- MODULE MediaFormats ----------------------------
(***************************************************************************)
(* What the media handlers of genblaze_core.media do to a file.  A file is *)
(* a format and a sequence of chunks: the PNG chunks, JPEG segments, RIFF  *)
(* chunks and MP4 boxes that the handlers walk.  A handler's embed() and   *)
(* extract() are functions of the chunks; both may raise.                  *)
(*                                                                         *)
(* A chunk has a tag:                                                      *)
(*   "head"    what must come first: IHDR, APP0, EXIF, VP8X, fmt, ftyp     *)
(*   "body"    the media: IDAT, the scan and what follows, VP8, data, mdat *)
(*   "own"     the place of a manifest: iTXt, XMP packet, LIST/IMFL, uuid  *)
(*   "tag"     the place of a manifest in the formats mutagen writes       *)
(*   "merged"  another tool's XMP packet that has our <mf:manifest> in it  *)
(*   "info"    other metadata of the kind the handler replaces             *)
(*   "tail"    8 bytes or less after everything else                       *)
(* and is open when its stated size does not end where the next chunk      *)
(* begins: an MP4 box of size 0 (to the end of the file), a truncated      *)
(* chunk, a streamed WAV's unknown size, an odd WAV chunk without padding. *)
(***************************************************************************)
EXTENDS Naturals, Sequences, SequencesExt

CONSTANT
  SizeOf   \* manifest to "small" (fits an XMP packet), "large", "huge" (over MAX_MANIFEST_BYTES)

Tags == {"head", "body", "own", "tag", "merged", "info", "tail"}

Raised == <<>>

Chunk(tag) == [tag |-> tag, manifest |-> {}, open |-> FALSE]
Holding(tag, m) == [tag |-> tag, manifest |-> m, open |-> FALSE]

Without(chunks, tags) ==
  LET kept[n \in 0..Len(chunks)] ==
        IF n = 0 THEN <<>>
        ELSE IF chunks[n].tag \in tags THEN kept[n - 1] ELSE Append(kept[n - 1], chunks[n])
  IN  kept[Len(chunks)]

(* The least of some positions, 0 if there is none. *)
First(places) == IF places = {} THEN 0 ELSE CHOOSE k \in places : \A i \in places : k <= i

Find(chunks, tag) == First({i \in DOMAIN chunks : chunks[i].tag = tag})

(* The chunks before the k-th; all of them when k is 0. *)
Before(chunks, k) == IF k = 0 THEN chunks ELSE SubSeq(chunks, 1, k - 1)
From(chunks, k) == IF k = 0 THEN <<>> ELSE SubSeq(chunks, k, Len(chunks))

Broken(chunks) == \E i \in DOMAIN chunks : chunks[i].open

(* The lenient walkers (WAV, MP4) stop at the first chunk that is open and *)
(* take the rest of the file as it is.                                     *)
FirstOpen(chunks) == First({i \in DOMAIN chunks : chunks[i].open})
Reached(chunks) == Before(chunks, FirstOpen(chunks))
Unreached(chunks) == From(chunks, FirstOpen(chunks))

(* The first manifest under a tag, if a reader of capped payloads takes it. *)
Payload(chunks, tag, sizes) ==
  LET k == Find(chunks, tag)
  IN  IF k # 0 /\ SizeOf[chunks[k].manifest] \in sizes THEN chunks[k].manifest ELSE Raised

Capped == {"small", "large"}
AnySize == Capped \cup {"huge"}

-----------------------------------------------------------------------------
(* PNG: every chunk must be whole, to the last byte. *)
PngEmbed(chunks, m) ==
  IF Broken(chunks) \/ Find(chunks, "tail") # 0 \/ Head(chunks).tag # "head"
  THEN Raised
  ELSE <<Head(chunks), Holding("own", m)>> \o Without(Tail(chunks), {"own"})

PngExtract(chunks) ==
  IF Broken(Before(chunks, Find(chunks, "own"))) THEN Raised
  ELSE Payload(chunks, "own", Capped)

(* JPEG: only the segments before the scan are walked. *)
JpegHeader(chunks) == Before(chunks, Find(chunks, "body"))
JpegScan(chunks) == From(chunks, Find(chunks, "body"))

JpegEmbed(chunks, m) ==
  LET kept == Without(JpegHeader(chunks), {"own"})
      k    == First({i \in DOMAIN kept : kept[i].tag # "head"})
  IN  IF Broken(JpegHeader(chunks)) \/ Find(chunks, "body") = 0 \/ SizeOf[m] # "small"
      THEN Raised
      ELSE Before(kept, k) \o <<Holding("own", m)>> \o From(kept, k) \o JpegScan(chunks)

(* Our own packet anywhere wins over one another tool has merged. *)
FromPackets(chunks) ==
  IF Find(chunks, "own") # 0 THEN Payload(chunks, "own", Capped)
  ELSE Payload(chunks, "merged", Capped)

JpegExtract(chunks) ==
  LET header == JpegHeader(chunks)
  IN  IF Broken(Before(header, Find(header, "own"))) THEN Raised ELSE FromPackets(header)

(* WebP: every chunk of the RIFF container; what trails it is copied. *)
WebpChunks(chunks) == Before(chunks, Find(chunks, "tail"))

WebpEmbed(chunks, m) ==
  IF Broken(WebpChunks(chunks)) \/ Head(chunks).tag # "head" \/ SizeOf[m] # "small"
  THEN Raised
  ELSE Without(WebpChunks(chunks), {"own"}) \o <<Holding("own", m)>>
       \o From(chunks, Find(chunks, "tail"))

WebpExtract(chunks) ==
  LET riff == WebpChunks(chunks)
  IN  IF Broken(Before(riff, Find(riff, "own"))) THEN Raised ELSE FromPackets(riff)

(* WAV: all INFO lists go, ours or not, and a tail is not copied. *)
WavEmbed(chunks, m) ==
  Without(Reached(chunks), {"own", "info", "tail"}) \o Unreached(chunks) \o <<Holding("own", m)>>

WavExtract(chunks) == Payload(Reached(chunks), "own", Capped)

(* MP4: the same walk, and nothing else of the file moves. *)
Mp4Embed_KeepsOld(chunks, m) ==
  Without(Reached(chunks), {"tail"}) \o Unreached(chunks) \o <<Holding("own", m)>>

Mp4Embed(chunks, m) ==
  Without(Reached(chunks), {"own", "tail"}) \o Unreached(chunks) \o <<Holding("own", m)>>

Mp4Extract(chunks) == Payload(Reached(chunks), "own", Capped)

(* mutagen finds the place by itself: ID3 TXXX, Vorbis comment, freeform   *)
(* atom.                                                                   *)
TagEmbed(chunks, m) ==
  <<Head(chunks), Holding("tag", m)>> \o Without(Tail(chunks), {"tag"})

TagExtract(chunks, sizes) == Payload(chunks, "tag", sizes)

-----------------------------------------------------------------------------
(* get_handler(guess_mime(path)): by content.  An M4A file is taken for a  *)
(* video unless the caller says otherwise, and RF64 for a WAV by its name. *)
Handler(format) ==
  CASE format = "m4a" -> "mp4"
    [] format = "rf64" -> "wav"
    [] OTHER -> format

EmbedWith(handler, file, m) ==
  CASE handler = "png" -> PngEmbed(file.chunks, m)
    [] handler = "jpeg" -> JpegEmbed(file.chunks, m)
    [] handler = "webp" -> WebpEmbed(file.chunks, m)
    [] handler = "wav" -> IF file.format = "rf64" THEN Raised ELSE WavEmbed(file.chunks, m)
    [] handler = "mp4" -> Mp4Embed(file.chunks, m)
    [] handler \in {"aac", "flac", "mp3"} -> TagEmbed(file.chunks, m)
    [] OTHER -> Raised

ExtractWith(handler, file) ==
  CASE handler = "png" -> PngExtract(file.chunks)
    [] handler = "jpeg" -> JpegExtract(file.chunks)
    [] handler = "webp" -> WebpExtract(file.chunks)
    [] handler = "wav" -> IF file.format = "rf64" THEN Raised ELSE WavExtract(file.chunks)
    [] handler = "mp4" -> Mp4Extract(file.chunks)
    [] handler \in {"aac", "flac"} -> TagExtract(file.chunks, Capped)
    [] handler = "mp3" -> TagExtract(file.chunks, AnySize)
    [] OTHER -> Raised
=============================================================================
