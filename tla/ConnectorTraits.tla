--------------------------- MODULE ConnectorTraits ---------------------------
(***************************************************************************)
(* What tells one provider connector from another, as far as the shared    *)
(* lifecycle of a step can see it: one record per provider class, with the *)
(* same fields, translated from its submit/poll/fetch_output or generate.  *)
(*                                                                         *)
(*   kind    "job": submit() starts a job, poll() watches it;              *)
(*           "call": a SyncProvider, generate() does all in submit()       *)
(*   ends    the statuses at which poll() returns True                     *)
(*   fails   the codes fetch_output() may raise for an ended job           *)
(*   empty   what it does with an answer that carries no output            *)
(*   asks    what it asks upstream beyond the status: nothing, one result, *)
(*           or a download per output                                      *)
(*   attach  how outputs reach step.assets: one by one, all at the end, or *)
(*           replacing what is there                                       *)
(*   place   where output bytes go: nowhere (a hosted URL), a file named   *)
(*           after the step that is overwritten, a file that must be new,  *)
(*           a file with a random name                                     *)
(*   most    the most outputs one generation has                           *)
(*   images  input images it downloads to temporary files at most          *)
(*   tries   attempts the retry policy allows poll() and fetch_output()    *)
(*   inline  submit() may be answered with the output itself               *)
(*   ceiling poll() fails a job that has not ended for too long            *)
(*                                                                         *)
(* Error codes matter by their class only: "transient" (TIMEOUT,           *)
(* RATE_LIMIT, SERVER_ERROR, the default RetryPolicy's retryable codes) or *)
(* "permanent" (every other).  A code read from an error text may be both. *)
(***************************************************************************)
EXTENDS Naturals

CONSTANTS
  Tries,     \* attempts of a poll or fetch phase under the default policy
  MaxOutputs \* outputs of one generation, for connectors that allow several

Codes == {"transient", "permanent"}

Statuses == {"succeeded", "failed", "cancelled", "timeout"}

(* No failure status but those listed: what fetch_output() raises. *)
Failing(S, codes) == [s \in S |-> codes]

Job == [kind |-> "job", ends |-> {"succeeded", "failed"},
        fails |-> Failing({"failed"}, {"permanent"}), empty |-> "permanent",
        asks |-> "status", attach |-> "each", place |-> "url", most |-> 1,
        images |-> 0, tries |-> Tries, inline |-> FALSE, ceiling |-> FALSE]

Replicate ==
  [Job EXCEPT !.ends = {"succeeded", "failed", "cancelled"},
              !.fails = [s \in {"failed", "cancelled"} |->
                           IF s = "failed" THEN Codes ELSE {"permanent"}],
              !.empty = "ok", !.most = MaxOutputs]

Runway == Job

Luma == Job

DecartVideo == [Job EXCEPT !.asks = "result", !.place = "step"]

Sora == [Job EXCEPT !.asks = "result", !.place = "step", !.images = 1]

Fal ==
  [Job EXCEPT !.asks = "result", !.attach = "all", !.most = MaxOutputs]

GMICloud ==
  [Job EXCEPT !.ends = {"succeeded", "failed", "cancelled"},
              !.fails = Failing({"failed", "cancelled"}, {"permanent"}),
              !.ceiling = TRUE]

GMIVideo == GMICloud

GMIAudio == GMICloud

GMIImage == [GMICloud EXCEPT !.attach = "all", !.most = MaxOutputs]

(* NVCF reports a failed request as an HTTP status, which poll() raises.   *)
(* A 200 answer to the submission itself is kept for fetch_output().       *)
NvidiaVideo ==
  [Job EXCEPT !.ends = {"succeeded"}, !.fails = Failing({"failed"}, Codes),
              !.empty = "transient", !.place = "random",
              !.most = MaxOutputs, !.inline = TRUE]

(* Each video is downloaded, written and attached in turn, the file with   *)
(* O_EXCL when the provider has an output_dir.                             *)
Veo ==
  [Job EXCEPT !.asks = "each", !.place = "new", !.empty = "ok",
              !.most = MaxOutputs]

AssemblyAI ==
  [Job EXCEPT !.fails = Failing({"failed"}, Codes), !.attach = "replace"]

AtlasCloud ==
  [Job EXCEPT !.ends = Statuses,
              !.fails = Failing(Statuses \ {"succeeded"}, {"permanent"}),
              !.most = MaxOutputs, !.tries = 1]

(* A SyncProvider's submit() is generate(): one paid request, then files   *)
(* named after the step.                                                   *)
Call == [Job EXCEPT !.kind = "call", !.place = "step"]

OpenAITTS == Call

(* Hosted answers are downloaded one at a time, after the paid request; an *)
(* entry with neither bytes nor URL is skipped.                            *)
Dalle ==
  [Call EXCEPT !.asks = "each", !.empty = "ok", !.most = MaxOutputs,
               !.images = 2]

ElevenLabs == Call

ElevenLabsSFX == Call

Hume == Call

LMNT == Call

StabilityAudio == Call

DecartImage == Call

Imagen == [Call EXCEPT !.most = MaxOutputs]

GeminiImage == [Call EXCEPT !.most = MaxOutputs]

(* The completion is one text asset, which replaces step.assets. *)
NvidiaChat == [Call EXCEPT !.place = "url", !.attach = "replace"]

(* ffmpeg instead of a service: a run that is cut off is a TIMEOUT, other  *)
(* failures are permanent, and -y writes over what a failed run left.      *)
Tool == Call

Transform == Tool

Compositor == Tool

(* A 202 answer is waited for inside generate(). *)
NvidiaImage ==
  [Call EXCEPT !.asks = "result", !.attach = "all", !.empty = "transient",
               !.place = "random", !.most = MaxOutputs]

NvidiaAudio == NvidiaImage

Connector ==
  [replicate |-> Replicate, runway |-> Runway, luma |-> Luma, fal |-> Fal,
   decart |-> DecartVideo, openai_sora |-> Sora, gmicloud |-> GMIVideo,
   gmicloud_audio |-> GMIAudio, gmicloud_image |-> GMIImage,
   nvidia_video |-> NvidiaVideo, google_veo |-> Veo, hume |-> Hume,
   assemblyai |-> AssemblyAI, atlascloud |-> AtlasCloud, lmnt |-> LMNT,
   openai_tts |-> OpenAITTS, openai_dalle |-> Dalle,
   elevenlabs |-> ElevenLabs, elevenlabs_sfx |-> ElevenLabsSFX,
   stability_audio |-> StabilityAudio, decart_image |-> DecartImage,
   google_imagen |-> Imagen, google_gemini_image |-> GeminiImage,
   nvidia_image |-> NvidiaImage, nvidia_audio |-> NvidiaAudio,
   nvidia_chat |-> NvidiaChat, ffmpeg_transform |-> Transform,
   ffmpeg_compositor |-> Compositor]

=============================================================================
