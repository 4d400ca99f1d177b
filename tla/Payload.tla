------------------------------- MODULE Payload -------------------------------
(***************************************************************************)
(* What a step asks the provider for, and what it costs: the parameters of *)
(* the user go through prepare_payload() under the model's contract, the   *)
(* connector takes its part of what came out, converts and completes it,   *)
(* and the price is computed before the run (estimate_cost) and after it   *)
(* (compute_cost).  A request that is lost is prepared and sent again,     *)
(* from the same step.                                                     *)
(***************************************************************************)
EXTENDS ModelContracts

CONSTANTS
  Requests,   \* [model, own, params, inputs, price] that callers make
  MaxSends    \* bound: attempts of one step

VARIABLES
  request,   \* what the caller configured
  params,    \* step.params: the caller's, and what the connector adds
  phase,     \* "new", "waiting", "refused", "billed" or "failed"
  sent,      \* the requests sent, in order
  estimate,  \* Pipeline.estimated_cost(): at most one number
  rendered,  \* the assets: their durations, each known or not
  bill       \* step.cost_usd: at most one number

vars == <<request, params, phase, sent, estimate, rendered, bill>>

Known(S) == S # {}
The(S) == CHOOSE x \in S : TRUE
Get(p, key) == IF key \in DOMAIN p THEN {p[key]} ELSE {}

(* Dicts: what p says, and q of the keys p lacks. *)
Over(p, q) ==
  [k \in DOMAIN p \cup DOMAIN q |-> IF k \in DOMAIN p THEN p[k] ELSE q[k]]

-----------------------------------------------------------------------------
(* The stages of ModelRegistry.prepare_payload. *)

(* A canonical name becomes the native one, unless the caller used both:   *)
(* then the native value stays and the canonical one is dropped.           *)
Aliased(spec, p) ==
  LET C == DOMAIN spec.aliases \cap DOMAIN p
      natives == {spec.aliases[c] : c \in C}
  IN [k \in (DOMAIN p \ C) \cup natives |->
        IF k \in DOMAIN p THEN p[k] ELSE p[CHOOSE c \in C : spec.aliases[c] = k]]

Without(p, S) == [k \in DOMAIN p \ S |-> p[k]]

(* Sora: seconds for duration, a size for resolution and aspect_ratio. *)
Sizes == "16:9" :> "1280x720" @@ "9:16" :> "720x1280"
SoraShape(p) ==
  LET timed == IF "duration" \in DOMAIN p /\ "seconds" \notin DOMAIN p
               THEN Over(Without(p, {"duration"}), [seconds |-> p["duration"]]) ELSE p
      ratio == IF "aspect_ratio" \in DOMAIN p THEN p["aspect_ratio"].is ELSE "16:9"
      size == IF p["resolution"].is \in {"720p", "1080p"} /\ ratio \in DOMAIN Sizes
              THEN [size |-> Str(Sizes[ratio])] ELSE Nothing
  IN IF "resolution" \in DOMAIN p /\ "size" \notin DOMAIN p
     THEN Over(Without(timed, {"resolution", "aspect_ratio"}), size) ELSE timed

(* SDXL: both prompts in one weighted list. *)
SdxlShape(p) ==
  LET prompts == [i \in {n \in {"prompt", "negative_prompt"} : n \in DOMAIN p} |-> p[i]]
      list == SelectSeq(<<"prompt", "negative_prompt">>, LAMBDA n : n \in DOMAIN prompts)
  IN IF list = <<>> THEN p
     ELSE Over(Without(p, DOMAIN prompts),
               [text_prompts |-> Nested("list", [i \in DOMAIN list |-> prompts[list[i]]])])

Transformed(spec, p) ==
  CASE spec.transformer = "sora" -> SoraShape(p)
    [] spec.transformer = "sdxl" -> SdxlShape(p)
    [] OTHER -> p

Link(i) == Value("url", ToString(i))   \* of the i-th input
Urls(inputs, kind) ==
  LET of == SelectSeq([i \in DOMAIN inputs |-> [kind |-> inputs[i], at |-> i]],
                      LAMBDA a : a.kind = kind)
  IN [i \in DOMAIN of |-> Link(of[i].at)]

(* route_images, route_video, route_audio, route_keyframes. *)
Routed(r, inputs) ==
  LET kind == IF r.route = "keyframes" THEN "image" ELSE
              IF r.route = "images" THEN "image" ELSE r.route
      urls == Urls(inputs, kind)
      filled == {i \in DOMAIN r.slots : i <= Len(urls)}
      slots == [s \in {r.slots[i] : i \in filled} |-> urls[CHOOSE i \in filled : r.slots[i] = s]]
      beyond == SubSeq(urls, Len(r.slots) + 1, Len(urls))
  IN IF urls = <<>> THEN Nothing
     ELSE IF r.route = "keyframes"
          THEN [k \in {r.overflow} |-> Nested("dict", [i \in filled |-> urls[i]])]
     ELSE IF r.overflow # Dropped /\ beyond # <<>>
          THEN Over(slots, [k \in {r.overflow} |-> Nested("list", beyond)])
     ELSE slots

(* chain_routers: the later router has its way. *)
Chain(spec, inputs) ==
  LET given == [i \in DOMAIN spec.routes |-> Routed(spec.routes[i], inputs)]
      giving(k) == {i \in DOMAIN given : k \in DOMAIN given[i]}
      last(k) == CHOOSE i \in giving(k) : \A j \in giving(k) : j <= i
  IN [k \in UNION {DOMAIN given[i] : i \in DOMAIN given} |-> given[last(k)][k]]

WithInputs_ChainWins(spec, inputs, p) == Over(Chain(spec, inputs), p)

(* What the caller set wins over the inputs of the step. *)
WithInputs(spec, inputs, p) == Over(p, Chain(spec, inputs))

(* int("8") and int(8.5) are 8; int("8.5") fails. *)
AsInt(v) == CASE v.as = "int" -> {v}
              [] v.as = "str" /\ Whole(v) -> {Int(v.is)}
              [] v.as = "float" /\ v.is = "8.5" -> {Int("8")}
              [] v.as = "float" /\ Whole(v) -> {Int(v.is)}
              [] OTHER -> {}

Truthy(v) == v \notin {Str(""), Int("0"), Bool("False")}
Convertible(name, v) ==
  CASE name = "float" -> v.as \in {"int", "float", "str"} /\ Numeric(v)
    [] name = "int" -> AsInt(v) # {}
    [] OTHER -> TRUE
Converted(name, v) ==
  CASE name = "whole" -> IF v.as \in {"float", "str"} /\ Whole(v) THEN Int(v.is) ELSE v
    [] name = "int" -> The(AsInt(v))
    [] name = "float" -> Float(v.is)
    [] name = "bool" -> Bool(IF Truthy(v) THEN "True" ELSE "False")
    [] name = "str" -> IF v.as = "float" /\ Whole(v) THEN Pointed(v.is) ELSE Str(v.is)

Coerced(spec, p) ==
  [k \in DOMAIN p |-> IF k \in DOMAIN spec.coercers /\ Convertible(spec.coercers[k], p[k])
                      THEN Converted(spec.coercers[k], p[k]) ELSE p[k]]
CoercionFails(spec, p) ==
  \E k \in DOMAIN spec.coercers \cap DOMAIN p : ~ Convertible(spec.coercers[k], p[k])

Defaulted(spec, p) == Over(p, spec.defaults)

Between(s, n) == s.lo <= n /\ n <= s.hi
Fits(s, v) ==
  CASE s.schema = "int" -> v.as = "int" /\ Between(s, Quarters[v.is])
    [] s.schema = "float" -> v.as \in {"int", "float"} /\ Between(s, Quarters[v.is])
    [] s.schema = "enum" -> v.as = "str" /\ v.is \in s.values
    [] s.schema = "bool" -> v.as = "bool"
    [] s.schema = "string" -> v.as = "str" /\ Between(s, Len(v.is))
    [] s.schema = "list" -> v.as = "list" /\ Between(s, Len(v.of))
SchemasHold(spec, p) == \A k \in DOMAIN spec.schemas \cap DOMAIN p : Fits(spec.schemas[k], p[k])

Meets(c, p) ==
  c.key \in DOMAIN p =>
    IF c.converts THEN \E n \in AsInt(p[c.key]) : n.is \in c.of
    ELSE p[c.key].as = "str" /\ p[c.key].is \in c.of
ConstraintsHold(spec, p) == \A i \in DOMAIN spec.constraints : Meets(spec.constraints[i], p)

(* A check that converts stores the number back. *)
Checked(spec, p) ==
  [k \in DOMAIN p |->
     IF \E i \in DOMAIN spec.constraints : spec.constraints[i].key = k /\ spec.constraints[i].converts
     THEN The(AsInt(p[k])) ELSE p[k]]

(* No registry of the connectors is strict: extras are left out. *)
Allowed(spec, p) ==
  IF spec.allowlist = All THEN p ELSE Without(p, DOMAIN p \ spec.allowlist)

(* prepare_payload(): at most one payload, none if it raises. *)
PayloadOf(spec, inputs, p) ==
  LET routed == WithInputs(spec, inputs, Transformed(spec, Aliased(spec, p)))
      full == Defaulted(spec, Coerced(spec, routed))
  IN IF \/ CoercionFails(spec, routed)
        \/ ~ SchemasHold(spec, full)
        \/ ~ (spec.required \subseteq DOMAIN full)
        \/ ~ ConstraintsHold(spec, full)
     THEN {} ELSE {Allowed(spec, Checked(spec, full))}

-----------------------------------------------------------------------------
(* What the connector takes out of the payload; the others send all of it. *)
Forwards ==
  [sora |-> {"prompt", "seconds", "size", "image"},
   veo |-> {"prompt", "aspect_ratio", "resolution", "duration_seconds", "person_generation",
            "number_of_videos", "enhance_prompt"},
   imagen |-> {"prompt", "number_of_images", "aspect_ratio", "person_generation",
               "safety_filter_level", "output_mime_type"},
   hume |-> {"prompt", "voice", "format", "description", "speed", "temperature",
             "trailing_silence"},
   lmnt |-> {"prompt", "voice", "format", "language"},
   openai_tts |-> {"prompt", "voice", "response_format", "speed", "instructions"},
   stable_audio |-> {"prompt", "output_format", "duration"},
   decart |-> {"prompt", "resolution", "enhance_prompt"},
   runway_open |-> {"prompt", "duration", "ratio", "seed", "prompt_image"},
   runway_gen45 |-> {"prompt", "duration", "ratio", "seed", "prompt_image"},
   runway_turbo |-> {"prompt", "duration", "ratio", "seed", "prompt_image"},
   runway_gen3a |-> {"prompt", "duration", "ratio", "seed", "prompt_image"}]

Passed(model, key) == model \in DOMAIN Forwards => key \in Forwards[model]

(* What it converts, whatever the contract made of it. *)
Wires ==
  [sora |-> [seconds |-> "str"],
   veo |-> [number_of_videos |-> "int", enhance_prompt |-> "bool"],
   imagen |-> [number_of_images |-> "int"],
   stable_audio |-> [duration |-> "str"]]
Wired(model, key) == model \in DOMAIN Wires /\ key \in DOMAIN Wires[model]

Taken_AsIs(model, p) == Without(p, {k \in DOMAIN p : ~Passed(model, k)})

Taken(model, p) ==
  [k \in {n \in DOMAIN p : Passed(model, n)} |->
     IF Wired(model, k) THEN Converted(Wires[model][k], p[k]) ELSE p[k]]

(* What it adds to what it took: a ratio and, where the endpoint wants     *)
(* them, seconds (Runway); a voice, a format; the seed of the step; the    *)
(* first of the inputs, of whatever kind (Decart).                         *)
Seed(own) == [k \in {"seed"} \cap DOMAIN own |-> own[k]]
Fill(model, own, inputs, p) ==
  CASE model = "runway_turbo" -> [ratio |-> Str("1280:720")]
    [] model = "runway_gen3a" -> [ratio |-> Str("1280:768")]
    [] model = "runway_gen45" -> [ratio |-> Str("1280:720"), duration |-> Int("8")]
    [] model = "runway_open" ->
         IF "prompt_image" \in DOMAIN p THEN [ratio |-> Str("1280:720")]
         ELSE [ratio |-> Str("1280:720"), duration |-> Int("8")]
    [] model = "veo" -> Seed(own)
    [] model = "decart" -> IF inputs = <<>> THEN Seed(own) ELSE Over(Seed(own), [data |-> Link(1)])
    [] model = "stable_audio" ->
         Over([output_format |-> Str("mp3")], [k \in DOMAIN Seed(own) |-> Converted("str", own[k])])
    [] model = "openai_tts" -> [voice |-> Str("alloy"), response_format |-> Str("mp3")]
    [] model = "lmnt" -> [voice |-> Str("lily")]
    [] model = "hume" -> [format |-> Str("mp3")]
    [] OTHER -> Nothing

(* Runway's turbo models need an image, and its text-to-video knows fewer  *)
(* ratios; Hume has three formats; what is converted must allow it.        *)
ImageOnly == {"runway_turbo", "runway_gen3a"}
Runways == ImageOnly \cup {"runway_open", "runway_gen45"}
TextRatios == {"1280:720", "720:1280", "1080:1920", "1920:1080"}
HumeFormats == {"mp3", "wav", "pcm"}
Acceptable(model, p) ==
  /\ model \in Runways =>
       \/ "prompt_image" \in DOMAIN p
       \/ (model \notin ImageOnly /\ Meets(OneOf("ratio", TextRatios), p))
  /\ model = "hume" => Meets(OneOf("format", HumeFormats), p)
  /\ \A k \in DOMAIN p : Wired(model, k) => Convertible(Wires[model][k], p[k])

(* BaseProvider.prepare_payload: the step's parameters, over its prompt,   *)
(* its negative prompt and its seed.                                       *)
Base(p, own) == Over(p, own)

(* submit(): at most one request.  A chained URL must be https or file.    *)
RequestOf(model, own, inputs, p) ==
  {Over(Taken(model, payload), Fill(model, own, inputs, payload)) :
     payload \in {q \in PayloadOf(Contract[model], inputs, Base(p, own)) :
                    Acceptable(model, q) /\ \A i \in DOMAIN inputs : inputs[i] # "http"}}

-----------------------------------------------------------------------------
(* Prices: a strategy reads the step, and the assets' number and lengths.  *)
Total(durations) ==
  LET upTo[n \in 0..Len(durations)] ==
        IF n = 0 THEN 0
        ELSE upTo[n - 1] + (IF Known(durations[n]) THEN The(durations[n]) ELSE 0)
  IN IF \E i \in DOMAIN durations : Known(durations[i]) THEN {upTo[Len(durations)]} ELSE {}

NumberAt(p, key) == {Quarters[v.is] : v \in {w \in Get(p, key) : Numeric(w)}}
Times(S, n) == {x * n : x \in S}
AtLeastOne(n) == IF n = 0 THEN 1 ELSE n

(* bucketed_by_duration: the length, or the length that was asked for. *)
Length(ctx) ==
  LET asked == NumberAt(ctx.params, "duration_seconds") \ {0}
  IN IF Known(Total(ctx.durations)) THEN Total(ctx.durations)
     ELSE IF Known(asked) THEN asked ELSE NumberAt(ctx.params, "duration")

ByDuration == "5" :> 5 @@ "8" :> 9
Price(strategy, ctx) ==
  LET n == Len(ctx.durations)
      listed == {v \in Get(ctx.params, "duration") : v.as \in {"int", "float"} /\ v.is \in DOMAIN ByDuration}
      perUnit == IF n = 0 THEN {} ELSE {7 * n}
      perSecond == Times(Total(ctx.durations), 3)
  IN CASE strategy = "per_unit" -> perUnit
       [] strategy = "per_input_chars" -> {ctx.chars} \ {0}
       [] strategy = "per_output_second" -> perSecond
       [] strategy = "by_model_and_param" -> {ByDuration[v.is] * AtLeastOne(n) : v \in listed}
       [] strategy = "by_param" ->
            IF Known(listed) THEN {ByDuration[v.is] * AtLeastOne(n) : v \in listed}
            ELSE {4 * AtLeastOne(n)}
       [] strategy = "tiered" ->
            {11 * AtLeastOne(n) : v \in Get(ctx.params, "resolution") \cap {Str("720p")}}
       [] strategy = "bucketed_by_duration" ->
            {IF d < 20 THEN 2 ELSE 3 : d \in {x \in Length(ctx) : x < 40}}
       [] strategy = "first_match" -> IF Known(perSecond) THEN perSecond ELSE perUnit
       [] OTHER -> {}

(* The characters of a prompt. *)
Letters(p) == IF "prompt" \in DOMAIN p THEN Len(p["prompt"].is) ELSE 0

(* estimate_cost(model, params): one asset, as long as params say. *)
Estimate(p) == [params |-> p, chars |-> Letters(p), durations |-> <<NumberAt(p, "duration")>>]

-----------------------------------------------------------------------------
Init ==
  /\ request \in Requests
  /\ params = request.params
  /\ phase = "new"
  /\ sent = <<>>
  /\ estimate = {}
  /\ rendered = <<>>
  /\ bill = {}

Foresee ==
  /\ phase = "new" /\ sent = <<>>
  /\ estimate' = Price(request.price, Estimate(request.params))
  /\ UNCHANGED <<request, params, phase, sent, rendered, bill>>

Submit_Unnoted ==
  LET asked == RequestOf(request.model, request.own, request.inputs, params)
  IN /\ phase = "new"
     /\ Len(sent) < MaxSends
     /\ phase' = IF Known(asked) THEN "waiting" ELSE "refused"
     /\ sent' = IF Known(asked) THEN Append(sent, The(asked)) ELSE sent
     /\ UNCHANGED <<request, params, estimate, rendered, bill>>

(* submit(): Runway notes the length it asked for in step.params. *)
Submit ==
  LET asked == RequestOf(request.model, request.own, request.inputs, params)
      noted == IF request.model \in Runways /\ Known(asked)
               THEN Without(The(asked), DOMAIN The(asked) \ {"duration"}) ELSE Nothing
  IN /\ phase = "new"
     /\ Len(sent) < MaxSends
     /\ phase' = IF Known(asked) THEN "waiting" ELSE "refused"
     /\ sent' = IF Known(asked) THEN Append(sent, The(asked)) ELSE sent
     /\ params' = Over(params, noted)
     /\ UNCHANGED <<request, estimate, rendered, bill>>

(* A transient failure: the retry submits the step as it is now. *)
Lost ==
  /\ phase = "waiting"
  /\ phase' = "new"
  /\ UNCHANGED <<request, params, sent, estimate, rendered, bill>>

(* What is delivered: Runway's one video is said to be as long as the step *)
(* asks, in whole seconds; the others deliver what they deliver.           *)
Lengths(p) ==
  IF request.model \in Runways THEN {<<{Quarters[n.is]}>> : n \in AsInt(p["duration"])}
  ELSE UNION {[1..n -> {{}, {20}, {32}}] : n \in 0..2}

(* fetch_output(), then _apply_registry_pricing().  Runway notes a length  *)
(* if none was asked for; one that is not a number fails there.            *)
Fetch ==
  /\ phase = "waiting"
  /\ params' = IF request.model \in Runways THEN Over(params, [duration |-> Int("5")]) ELSE params
  /\ \/ \E durations \in Lengths(params') :
          /\ rendered' = durations
          /\ bill' = Price(request.price, [params |-> params', chars |-> Letters(request.own),
                                           durations |-> durations])
          /\ phase' = "billed"
     \/ /\ Lengths(params') = {}
        /\ phase' = "failed"
        /\ UNCHANGED <<rendered, bill>>
  /\ UNCHANGED <<request, sent, estimate>>

Next == Foresee \/ Submit \/ Lost \/ Fetch

Spec == Init /\ [][Next]_vars

-----------------------------------------------------------------------------
(* A number that the connector sends as text. *)
Printed(model, key) == Wired(model, key) /\ Wires[model][key] = "str"

(* Nothing leaves that the model's contract forbids: every name is one the *)
(* model has, every value is of its type and within its limits, a number   *)
(* is a number, or the text of one where the service wants that, and what  *)
(* is required is there; so is what the connector adds of its own.         *)
SentIsLegal ==
  \A i \in DOMAIN sent :
    LET q == sent[i]
        model == request.model
        spec == Contract[model]
    IN /\ spec.allowlist = All \/ DOMAIN q \subseteq spec.allowlist
       /\ spec.required \subseteq DOMAIN q
       /\ DOMAIN spec.aliases \cap DOMAIN q \subseteq {spec.aliases[c] : c \in DOMAIN spec.aliases}
       /\ \A k \in DOMAIN spec.schemas \cap DOMAIN q :
            Fits(spec.schemas[k], IF Printed(model, k) THEN Float(q[k].is) ELSE q[k])
       /\ \A j \in DOMAIN spec.constraints :
            LET c == spec.constraints[j]
            IN c.key \in DOMAIN q =>
                 /\ q[c.key].is \in c.of
                 /\ q[c.key].as = IF c.converts /\ ~Printed(model, c.key) THEN "int" ELSE "str"
       /\ model \in ImageOnly => "prompt_image" \in DOMAIN q
       /\ model \in Runways => "prompt_image" \in DOMAIN q \/ q["ratio"].is \in TextRatios
       /\ model = "hume" => q["format"].is \in HumeFormats

(* The names under which a caller may set a parameter, the best one first. *)
Spellings(model, key) ==
  LET spec == Contract[model]
      old == {c \in DOMAIN spec.aliases : spec.aliases[c] = key}
  IN (IF key \in DOMAIN spec.aliases THEN {} ELSE {<<key, 1>>})
       \cup {<<c, 2>> : c \in old} \cup (IF model = "sora" /\ key = "seconds" THEN {<<"duration", 2>>} ELSE {})

(* The value a caller set for a parameter, however spelled. *)
Wish(model, p, key) ==
  LET used == {s \in Spellings(model, key) : s[1] \in DOMAIN p}
  IN {p[s[1]] : s \in {u \in used : \A v \in used : u[2] <= v[2]}}

(* v became w on its way: a number may have changed its type, or lost its  *)
(* fraction where an integer is wanted.                                    *)
Means(v, w) ==
  \/ w.is = v.is
  \/ \E n \in AsInt(v) : w.is = n.is
  \/ (w.as = "bool" /\ w = Converted("bool", v))

(* What a caller set is what the model is asked, whichever spelling was    *)
(* used, before what earlier steps provide, and that before any default;   *)
(* a wish is dropped only if the model does not have the parameter.  The   *)
(* connectors that take the seed of the step send that one.  A retry asks  *)
(* for the same.                                                           *)
SentIsWanted ==
  \A i \in DOMAIN sent :
    LET q == sent[i]
        model == request.model
        spec == Contract[model]
        p == Base(request.params, request.own)
        chain == Chain(spec, request.inputs)
        fill == Fill(model, request.own, request.inputs, q)
        wished == {k \in DOMAIN q : Passed(model, k) /\ Known(Wish(model, p, k))}
    IN /\ q = sent[1]
       /\ \A k \in wished : Means(The(Wish(model, p, k)), q[k])
       /\ \A k \in (DOMAIN q \cap DOMAIN chain) \ wished : Means(chain[k], q[k])
       /\ \A k \in DOMAIN q \ (wished \cup DOMAIN chain) :
            k \in DOMAIN spec.defaults \cup {"size", "text_prompts"} \cup DOMAIN fill
       /\ \A k \in DOMAIN p \ DOMAIN spec.aliases :
            \/ k \in DOMAIN q
            \/ spec.transformer # "none"
            \/ ~ Passed(model, k)
            \/ spec.allowlist # All /\ k \notin spec.allowlist
       /\ \A k \in DOMAIN chain : k \in DOMAIN q \/ ~ Passed(model, k) \/ k \notin spec.allowlist
       /\ "seed" \in DOMAIN fill => q["seed"].is = request.own["seed"].is

(* What prices look at, written by the caller as it was sent: under the    *)
(* name the model has for it, a length as a number.                        *)
SentAsWritten(q) ==
  /\ "prompt" \notin DOMAIN request.params
  /\ {"prompt", "duration", "duration_seconds", "resolution"}
       \cap DOMAIN Base(request.params, request.own) \subseteq DOMAIN q
  /\ "duration" \in DOMAIN request.params => request.params["duration"].as \in {"int", "float"}

(* A step is billed for what the provider was asked: a length that the     *)
(* connector chose counts like one the caller set, and a caller who writes *)
(* what prices look at as the model has it pays for what was sent.  With   *)
(* whole seconds set by the caller, a video of Runway costs what was       *)
(* foreseen.                                                               *)
BilledAsSent ==
  LET q == sent[Len(sent)]
      asked == IF request.model \in Runways THEN Over(q, [duration |-> Int("5")]) ELSE q
  IN phase = "billed" /\ SentAsWritten(q) =>
       /\ bill = Price(request.price, [params |-> asked, chars |-> Letters(q), durations |-> rendered])
       /\ request.model \in Runways /\ "duration" \in DOMAIN request.params
            /\ Whole(request.params["duration"]) /\ Known(estimate) => bill = estimate
=============================================================================
