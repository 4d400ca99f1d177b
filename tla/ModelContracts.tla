--------------------------- MODULE ModelContracts ---------------------------
(***************************************************************************)
(* The parameter contracts of the model families: which names a model      *)
(* accepts, under which spelling, of which types and within which limits,  *)
(* and where the assets of earlier steps go.  One entry per distinct       *)
(* contract of the connectors; families that share one share the entry.    *)
(*                                                                         *)
(* A parameter value is its Python type and a token: Int("8"), Str("8")    *)
(* and Float("8") are 8, "8" and 8.0; Pointed("8") is the string "8.0".    *)
(***************************************************************************)
EXTENDS Naturals, Sequences, FiniteSets, TLC

Value(type, token) == [as |-> type, is |-> token, of |-> <<>>]
Int(n) == Value("int", n)
Float(x) == Value("float", x)
Str(s) == Value("str", s)
Pointed(n) == Value("pointed", n)
Bool(b) == Value("bool", b)
Nested(type, s) == [as |-> type, is |-> "", of |-> s]

(* What the numeric tokens count, in quarters. *)
Quarters == "0" :> 0 @@ "0.25" :> 1 @@ "0.5" :> 2 @@ "1" :> 4 @@ "4" :> 16 @@ "5" :> 20 @@
            "6" :> 24 @@ "8" :> 32 @@ "8.5" :> 34 @@ "10" :> 40 @@ "12" :> 48 @@ "60" :> 240 @@
            "61" :> 244 @@ "190" :> 760
Numeric(v) == v.is \in DOMAIN Quarters
Whole(v) == Numeric(v) /\ Quarters[v.is] % 4 = 0

Nothing == <<>>                     \* an empty dict
All == {}                           \* an allowlist of None: everything passes
(* A spec that sets nothing: is_permissive. *)
Permissive ==
  [aliases |-> Nothing, transformer |-> "none", routes |-> <<>>, coercers |-> Nothing,
   defaults |-> Nothing, schemas |-> Nothing, required |-> {}, constraints |-> <<>>,
   allowlist |-> All]

(* Parameter schemas. *)
IntIn(lo, hi) == [schema |-> "int", lo |-> Quarters[lo], hi |-> Quarters[hi], values |-> {}]
FloatIn(lo, hi) == [schema |-> "float", lo |-> Quarters[lo], hi |-> Quarters[hi], values |-> {}]
EnumOf(S) == [schema |-> "enum", lo |-> 0, hi |-> 0, values |-> S]
BoolOnly == [schema |-> "bool", lo |-> 0, hi |-> 0, values |-> {}]
Strings(lo, hi) == [schema |-> "string", lo |-> lo, hi |-> hi, values |-> {}]
ListOf(lo, hi) == [schema |-> "list", lo |-> lo, hi |-> hi, values |-> {}]

(* Constraints: the value of a key is one of a few strings, or an integer  *)
(* of a few, which the check stores back converted.                        *)
OneOf(key, S) == [key |-> key, of |-> S, converts |-> FALSE]
IntOf(key, S) == [key |-> key, of |-> S, converts |-> TRUE]

(* Where the assets of step.inputs go, and what is over. *)
Dropped == "dropped"
Images(slots, overflow) == [route |-> "images", slots |-> slots, overflow |-> overflow]
First(kind, slot) == [route |-> kind, slots |-> <<slot>>, overflow |-> Dropped]
Keyframes(frames) == [route |-> "keyframes", slots |-> frames, overflow |-> "keyframes"]

-----------------------------------------------------------------------------
(* ParamSurface: the allowlist of a modality, extended by a family. *)
BaseParams == {"prompt", "negative_prompt", "seed"}
ModalityDefaults ==
  [image |-> BaseParams \cup {"aspect_ratio", "resolution", "number_of_images", "image",
                              "image_url"},
   video |-> BaseParams \cup {"aspect_ratio", "resolution", "duration", "cfg_scale", "image",
                              "image_url", "video", "video_url"},
   audio |-> BaseParams \cup {"voice_id", "language", "duration", "output_format",
                              "reference_audio"}]

(* for_modality(m).extend(more).with_aliases(aliases).build() *)
Surface(modality, more, aliases) ==
  [Permissive EXCEPT
     !.aliases = aliases,
     !.allowlist = ModalityDefaults[modality] \cup more \cup {aliases[c] : c \in DOMAIN aliases}]

Guidance == [guidance_scale |-> "cfg_scale"]
WholeSeconds == [duration |-> "whole"]
UpToAMinute == [duration |-> IntIn("1", "60")]

GmiVideo(more, slots) ==
  [Surface("video", more, Guidance) EXCEPT
     !.coercers = WholeSeconds, !.schemas = UpToAMinute, !.routes = <<Images(slots, Dropped)>>]

GmiMusic == Surface("audio", {"style_weight", "duration_seconds", "tempo"},
                    [voice |-> "voice_id", prompt |-> "lyrics"])
GmiClone == [Surface("audio", {"pitch", "emotion", "speed", "stability", "similarity"},
                     [voice |-> "voice_id"]) EXCEPT
               !.routes = <<First("audio", "reference_audio")>>]
GmiTts == Surface("audio", {}, [voice |-> "voice_id", prompt |-> "text"])
GmiEdit == [Permissive EXCEPT !.allowlist = {"prompt", "image", "image_url"},
                              !.routes = <<Images(<<"image">>, Dropped)>>]

(* A family GMICloud does not know: anything goes, seconds are checked. *)
GmiOpen == [GmiVideo({}, <<"image">>) EXCEPT !.allowlist = All]

NvidiaImage == [Permissive EXCEPT !.aliases = Guidance, !.routes = <<Images(<<"image">>, Dropped)>>]
NvidiaSdxl == [NvidiaImage EXCEPT !.transformer = "sdxl"]
NvidiaVideo == [Permissive EXCEPT !.aliases = Guidance, !.routes = <<First("video", "video")>>]

Veo == [Permissive EXCEPT
          !.aliases = [duration |-> "duration_seconds"],
          !.coercers = [duration_seconds |-> "str"],
          !.constraints = <<OneOf("aspect_ratio", {"16:9", "9:16"}),
                            OneOf("resolution", {"720p", "1080p", "4k"}),
                            OneOf("duration_seconds", {"4", "6", "8"})>>]
Imagen == [Permissive EXCEPT
             !.constraints = <<OneOf("aspect_ratio", {"1:1", "3:4", "4:3", "9:16", "16:9"})>>]

Sora == [Permissive EXCEPT
           !.transformer = "sora",
           !.constraints = <<IntOf("seconds", {"4", "8", "12"}),
                             OneOf("size", {"720x1280", "1280x720", "1024x1792", "1792x1024"})>>,
           !.routes = <<Images(<<"image">>, Dropped)>>]

Luma == [Permissive EXCEPT
           !.coercers = [loop |-> "bool"],
           !.constraints = <<OneOf("aspect_ratio",
                                   {"1:1", "3:4", "4:3", "9:16", "16:9", "21:9", "9:21"})>>,
           !.allowlist = {"prompt", "aspect_ratio", "loop", "resolution", "duration", "keyframes"},
           !.routes = <<Keyframes(<<"frame0">>)>>]

RunwayOpen == [Permissive EXCEPT
                 !.aliases = [aspect_ratio |-> "ratio"],
                 !.routes = <<Images(<<"prompt_image">>, Dropped)>>]
RunwayTurbo == [RunwayOpen EXCEPT
                  !.constraints = <<IntOf("duration", {"5", "10"}),
                                    OneOf("ratio", {"1280:720", "720:1280", "1104:832", "832:1104",
                                                    "960:960", "1584:672", "1080:1920", "1920:1080",
                                                    "768:1280", "1280:768"})>>]

Voiced == [voice_id |-> "voice", output_format |-> "format"]
Hume == [Permissive EXCEPT
           !.aliases = Voiced,
           !.coercers = [speed |-> "float", temperature |-> "float",
                         trailing_silence |-> "float"]]
Lmnt == [Permissive EXCEPT !.aliases = Voiced]
OpenAITts == [Permissive EXCEPT
                !.coercers = [speed |-> "float"],
                !.schemas = [voice |-> EnumOf({"alloy", "nova"}),
                             response_format |-> EnumOf({"mp3", "opus", "aac", "flac", "wav", "pcm"}),
                             speed |-> FloatIn("0.25", "4")]]
StableAudio == [Permissive EXCEPT
                  !.coercers = [duration |-> "float"],
                  !.schemas = [output_format |-> EnumOf({"mp3", "wav", "ogg"}),
                               duration |-> FloatIn("0.5", "190")]]
DecartVideo == [Permissive EXCEPT
                  !.coercers = [enhance_prompt |-> "bool"],
                  !.schemas = [resolution |-> EnumOf({"480p", "720p"}),
                               enhance_prompt |-> BoolOnly]]

ByMedia(image, video, audio) ==
  <<First("image", image), First("video", video), First("audio", audio)>>
FalMedia == [Permissive EXCEPT !.routes = ByMedia("image_url", "video_url", "audio_url")]
FalAudio == [Permissive EXCEPT !.aliases = [duration |-> "seconds_total"]]
Replicate == [Permissive EXCEPT !.routes = ByMedia("image", "video", "audio")]

(* A spec a user registered, with the fields no connector sets. *)
Custom == [Permissive EXCEPT
             !.aliases = [image_url |-> "image"],
             !.routes = <<Images(<<"image">>, "references"), First("audio", "voice")>>,
             !.coercers = [steps |-> "whole"],
             !.defaults = [steps |-> Int("8"), quality |-> Str("high")],
             !.schemas = [steps |-> IntIn("4", "10"), prompt |-> Strings(1, 4),
                          references |-> ListOf(1, 1)],
             !.required = {"image"},
             !.allowlist = {"prompt", "image", "references", "voice", "steps", "quality"}]

Contract ==
  [gmi_video |-> GmiVideo({"quality"}, <<"image">>),
   gmi_seedance |-> GmiVideo({"first_frame", "last_frame"}, <<"first_frame", "last_frame">>),
   gmi_open |-> GmiOpen, gmi_music |-> GmiMusic, gmi_clone |-> GmiClone, gmi_tts |-> GmiTts,
   gmi_edit |-> GmiEdit, nvidia_image |-> NvidiaImage, nvidia_sdxl |-> NvidiaSdxl,
   nvidia_video |-> NvidiaVideo, veo |-> Veo, imagen |-> Imagen, sora |-> Sora, luma |-> Luma,
   runway_open |-> RunwayOpen, runway_gen45 |-> RunwayOpen, runway_turbo |-> RunwayTurbo,
   runway_gen3a |-> RunwayTurbo, hume |-> Hume, lmnt |-> Lmnt,
   openai_tts |-> OpenAITts, stable_audio |-> StableAudio, decart |-> DecartVideo,
   fal_media |-> FalMedia, fal_audio |-> FalAudio, replicate |-> Replicate, custom |-> Custom]
=============================================================================
