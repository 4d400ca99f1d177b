------------------------------ MODULE MCPayload ------------------------------
(* The requests for which Payload is checked: for every contract, at most two *)
(* of the parameters it says something about, and a few lists of inputs.      *)
EXTENDS ModelContracts

Mine == Value("url", "mine")
Candidates ==
  [duration |-> {Int("8"), Str("8"), Float("5"), Str("8.5"), Int("61")},
   duration_seconds |-> {Str("8"), Int("6")},
   seconds |-> {Int("4"), Float("8.5"), Str("5")},
   aspect_ratio |-> {Str("16:9"), Str("960:960")},
   ratio |-> {Str("960:960"), Str("wide")},
   resolution |-> {Str("720p"), Str("4k")},
   size |-> {Str("1792x1024")},
   voice |-> {Str("nova")},
   voice_id |-> {Str("alloy"), Str("echo")},
   output_format |-> {Str("wav"), Str("ogg")},
   response_format |-> {Str("flac"), Str("ogg")},
   number_of_videos |-> {Str("4"), Float("8.5"), Str("8.5")},
   number_of_images |-> {Float("4")},
   seed |-> {Int("6")},
   lyrics |-> {Str("la")},
   text |-> {Str("hi")},
   speed |-> {Str("4"), Int("5"), Str("fast")},
   guidance_scale |-> {Int("5")},
   cfg_scale |-> {Float("8")},
   image |-> {Mine}, image_url |-> {Value("url", "his")}, prompt_image |-> {Mine},
   video |-> {Mine}, reference_audio |-> {Mine}, keyframes |-> {Nested("dict", <<>>)},
   loop |-> {Str("False"), Bool("False")},
   enhance_prompt |-> {Str("False"), Int("0")},
   prompt |-> {Str("horse")},
   negative_prompt |-> {Str("dog")},
   steps |-> {Str("10"), Int("12")}]

\* What the connector converts, or takes from the step.
Told(model) ==
  CASE model = "veo" -> {"number_of_videos", "enhance_prompt", "seed"}
    [] model = "imagen" -> {"number_of_images"}
    [] model \in {"decart", "stable_audio", "runway_open", "gmi_video"} -> {"seed"}
    [] OTHER -> {}

NamesIn(f) == DOMAIN f \cup {f[k] : k \in DOMAIN f}
Relevant(model) ==
  LET s == Contract[model]
      shaped == CASE s.transformer = "sora" -> {"seconds", "resolution", "size", "aspect_ratio"}
                  [] s.transformer = "sdxl" -> {"negative_prompt"}
                  [] OTHER -> {}
      slots == UNION {{s.routes[i].slots[j] : j \in DOMAIN s.routes[i].slots} : i \in DOMAIN s.routes}
  IN DOMAIN Candidates \cap
       (NamesIn(s.aliases) \cup DOMAIN s.coercers \cup DOMAIN s.schemas \cup s.required \cup shaped
          \cup slots \cup {s.constraints[i].key : i \in DOMAIN s.constraints}
          \cup {"prompt", "duration"} \cup Told(model))

Params(model) ==
  UNION {{p \in [S -> UNION {Candidates[k] : k \in S}] : \A k \in S : p[k] \in Candidates[k]} :
           S \in {T \in SUBSET Relevant(model) : Cardinality(T) <= 2}}

\* What the step itself says.
Owns(model) ==
  {[prompt |-> Str("cat")]} \cup
  (IF "seed" \in Told(model) THEN {[prompt |-> Str("cat"), seed |-> Int("5")]} ELSE {}) \cup
  (IF model = "nvidia_sdxl" THEN {[prompt |-> Str("cat"), negative_prompt |-> Str("rat")]} ELSE {})

Prices(model) ==
  IF model \in {"runway_open", "runway_gen45", "gmi_video", "replicate"}
  THEN {"per_unit", "per_input_chars", "per_output_second", "by_param", "by_model_and_param",
        "tiered", "bucketed_by_duration", "first_match"}
  ELSE {"none"}

PayloadRequests ==
  UNION {[model : {m}, own : Owns(m), params : Params(m), price : Prices(m),
          inputs : {<<>>, <<"image", "image">>, <<"audio", "video", "image">>, <<"http">>}] :
           m \in DOMAIN Contract}
=============================================================================
