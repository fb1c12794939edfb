---------------------------- MODULE ShowDocument ----------------------------
(* The strict loader of authored shows (light_engine/show/loader.py).

   A document is what yaml.safe_load returns: records whose fields may be
   absent, sequences, strings and numbers.  Junk stands for any value of the
   wrong type, non finite numbers included.  Numbers are integers: times in
   ticks, levels in fractions of One (One is 1.0).  The text of the errors and
   their paths are left out: a document is accepted or it is not. *)
EXTENDS Integers, Sequences, FiniteSets

CONSTANTS
    Junk,          \* a value of the wrong type
    One,           \* the level 1.0
    Zones,         \* ids of the layout's analog zones
    PixelCount,    \* [strip id -> its number of pixels]
    LayoutPaths,   \* [layout path id -> its segments, a sequence of [light, pixels]]
    Registry,      \* [effect id -> [specs, ordered, support]], specs the
                   \* [parameter -> its ParameterSpec], ordered the rules of its
                   \* validator: low is at most high, each with its default
    SourcesOfRaw,  \* audio sources without a natural range
    ScalarSources  \* normalized sources, cue_progress included

ASSUME ValueAssumption == Junk \notin Int /\ One \in Nat \ {0}

Strips == DOMAIN PixelCount

(* No strip of a layout is empty, and its paths lead over its strips
   (light_engine/mapping). *)
ASSUME LayoutAssumption ==
    /\ \A s \in Strips : PixelCount[s] \in Nat \ {0}
    /\ \A id \in DOMAIN LayoutPaths :
          \A k \in DOMAIN LayoutPaths[id] : LayoutPaths[id][k].light \in Strips

V1Kinds == {"analog_zone", "digital_strip", "analog_group", "digital_group",
            "virtual_path", "all_analog", "all_digital", "all"}
V2Kinds == {"analog_zone", "digital_strip", "digital_set", "digital_group",
            "virtual_path"}
Origins == {"start", "end", "center", "edges"}
AudioStates == {"silence", "calm", "flowing", "ambient", "rhythmic",
                "energetic", "impact", "transition"}
PaletteSources == {"spatial_palette", "audio_spectrum_palette",
                   "dominant_frequency_palette"}
LiveSources == {"video_average", "video_dominant", "audio_spectrum_palette",
                "dominant_frequency_palette"}
ColorSources == {"timeline"} \cup PaletteSources \cup LiveSources
Channels == {"brightness", "speed", "intensity"}
CommonControls == Channels

Huge == 1000000    \* above every number a document holds

ParameterKinds == {"float", "integer", "boolean", "enum", "rgb", "scalar_source",
                   "color_timeline", "id_list", "object"}

(* What ParameterSpec and register_effect demand of the contracts that the
   effects register when they are imported; Huge stands for no limit. *)
SpecOk(name, spec) ==
    /\ name # "" /\ spec.kind \in ParameterKinds
    /\ {spec.minimum, spec.maximum} \subseteq Int /\ spec.minimum <= spec.maximum
    /\ spec.kind = "enum" <=> spec.choices # {}
    /\ spec.modulatable => spec.runtime_mutable /\ spec.kind = "float" /\ name \notin CommonControls
Registers(e) ==
    /\ Registry[e].support \in {"GLOBAL", "POSITIONAL", "EVENT", "NOT_APPLICABLE"}
    /\ \A p \in DOMAIN Registry[e].specs : SpecOk(p, Registry[e].specs[p])
    /\ \A rule \in Registry[e].ordered :
          /\ \A p \in {rule.low, rule.high} :
                p \in DOMAIN Registry[e].specs /\ Registry[e].specs[p].kind \in {"float", "integer"}
          /\ rule.low # rule.high
          /\ rule.low_default \in Int /\ rule.high_default \in Int
ASSUME RegistryAssumption == \A e \in DOMAIN Registry : Registers(e)

-----------------------------------------------------------------------------
(* Scalars and containers *)

IsMap(v) == v # Junk
IsList(v) == v # Junk /\ Len(v) \in Nat /\ DOMAIN v = 1..Len(v)
Known(r, fields) == IsMap(r) /\ DOMAIN r \subseteq fields
Get(r, field, default) == IF field \in DOMAIN r THEN r[field] ELSE default
NonEmptyStr(v) == v # Junk /\ v # ""
Choice(v, choices) == v # Junk /\ v \in choices
Number(v, least, most) == v \in least..most

Distinct(s) == \A i, j \in DOMAIN s : s[i] = s[j] => i = j
Members(s) == {s[i] : i \in DOMAIN s}
RgbColor(v) == IsList(v) /\ Len(v) = 3 /\ \A c \in DOMAIN v : Number(v[c], 0, One)
Palette(r, field) ==
    LET colors == Get(r, field, Junk)
    IN  IsList(colors) /\ colors # <<>> /\ \A i \in DOMAIN colors : RgbColor(colors[i])

-----------------------------------------------------------------------------
(* Keyframes *)

(* At least two keyframes, their times strictly increasing. *)
Increasing(frames, last) ==
    /\ IsList(frames) /\ Len(frames) >= 2
    /\ \A i \in DOMAIN frames : IsMap(frames[i]) /\ Number(Get(frames[i], "time", Junk), 0, last)
    /\ \A i \in 1..(Len(frames) - 1) : frames[i].time < frames[i + 1].time

ColorTimelineOk(timeline) ==
    LET frames == Get(timeline, "keyframes", Junk)
    IN  /\ Choice(Get(timeline, "interpolation", Junk), {"rgb_linear"})
        /\ Increasing(frames, Huge)
        /\ \A i \in DOMAIN frames :
              Known(frames[i], {"time", "color"}) /\ RgbColor(Get(frames[i], "color", Junk))

-----------------------------------------------------------------------------
(* Targets.  `paths` are the path ids a target may name. *)

Catalogue(kind, paths) ==
    CASE kind = "analog_zone" -> Zones
      [] kind = "digital_strip" -> Strips
      [] kind = "virtual_path" -> paths
      [] OTHER -> {}           \* TargetCatalog.from_layout names no group

OneId(t, paths) ==
    /\ "ids" \notin DOMAIN t
    /\ NonEmptyStr(Get(t, "id", Junk))
    /\ t.id \in Catalogue(t.type, paths)

StripSet(t) ==
    LET ids == Get(t, "ids", Junk)
    IN  /\ "id" \notin DOMAIN t
        /\ IsList(ids) /\ ids # <<>> /\ Distinct(ids)
        /\ Members(ids) \subseteq Strips

GroupMembers(t) ==
    /\ t.type \in {"analog_group", "digital_group"}
    /\ "ids" \in DOMAIN t
    /\ IsList(t.ids)
    /\ Members(t.ids) \subseteq (IF t.type = "analog_group" THEN Zones ELSE Strips)

TargetOk(t, version, paths) ==
    /\ Known(t, {"type", "id", "ids"})
    /\ Choice(Get(t, "type", Junk), IF version = 2 THEN V2Kinds ELSE V1Kinds)
    /\ \/ version = 2 /\ t.type = "digital_set" /\ StripSet(t)
       \/ version = 2 /\ t.type # "digital_set" /\ OneId(t, paths)
       \/ /\ version = 1
          /\ \/ t.type \in {"all_analog", "all_digital", "all"} /\ DOMAIN t = {"type"}
             \/ GroupMembers(t)
             \/ t.type \notin {"all_analog", "all_digital", "all"} /\ OneId(t, paths)

-----------------------------------------------------------------------------
(* Effects and their parameters *)

(* _validate_parameter_value.  An integer is a whole multiple of One; a value
   of another kind than its parameter's is Junk. *)
ValueOk(spec, v) ==
    CASE spec.kind = "float" -> Number(v, spec.minimum, spec.maximum)
      [] spec.kind = "integer" -> Number(v, spec.minimum, spec.maximum) /\ v % One = 0
      [] spec.kind = "boolean" -> v # Junk /\ v \in BOOLEAN
      [] spec.kind = "enum" -> Choice(v, spec.choices)
      [] spec.kind = "rgb" -> RgbColor(v)
      [] OTHER -> v # Junk        \* names, lists and maps

(* The validator an effect registers: each parameter as its spec says, and the
   relational rules between parameters, given or by default. *)
ValidParams(effect, params) ==
    /\ \A p \in DOMAIN params : ValueOk(Registry[effect].specs[p], params[p])
    /\ \A rule \in Registry[effect].ordered :
          Get(params, rule.low, rule.low_default) <= Get(params, rule.high, rule.high_default)

Readable(param, v) == IF param = "color_timeline" THEN IsMap(v) /\ ColorTimelineOk(v) ELSE v # Junk

ParametersOk(params, effect) ==
    /\ Known(params, DOMAIN Registry[effect].specs)
    /\ \A p \in DOMAIN params : Readable(p, params[p])
    /\ ValidParams(effect, params)

EffectName(v) == NonEmptyStr(v) /\ v \in DOMAIN Registry

FixedEffect(e, idKey, paramsKey) ==
    /\ {"allowed", "fallback"} \cap DOMAIN e = {}
    /\ EffectName(Get(e, idKey, Junk))
    /\ ParametersOk(Get(e, paramsKey, <<>>), e[idKey])

AdaptiveEffect(e, idKey, paramsKey) ==
    LET allowed == Get(e, "allowed", Junk)
    IN  /\ {idKey, paramsKey} \cap DOMAIN e = {}
        /\ Known(allowed, AudioStates)
        /\ \A s \in DOMAIN allowed : EffectName(allowed[s])
        /\ Get(e, "fallback", Junk) \in {allowed[s] : s \in DOMAIN allowed}

EffectOk(e, version) ==
    LET idKey == IF version = 2 THEN "id" ELSE "name"
        paramsKey == IF version = 2 THEN "params" ELSE "parameters"
    IN  /\ Known(e, {"mode", idKey, paramsKey, "allowed", "fallback"}
                    \cup (IF version = 2 THEN {"speed", "intensity"} ELSE {}))
        /\ Choice(Get(e, "mode", Junk), {"fixed", "adaptive"})
        /\ \A f \in {"speed", "intensity"} : Number(Get(e, f, One), 0, Huge)
        /\ \/ e.mode = "fixed" /\ FixedEffect(e, idKey, paramsKey)
           \/ e.mode = "adaptive" /\ AdaptiveEffect(e, idKey, paramsKey)

(* The parts of an effect the rest of the cue is validated against. *)
EffectId(e) == Get(e, "id", Get(e, "name", Junk))
ParamsOf(e) == Get(e, "params", Get(e, "parameters", <<>>))

-----------------------------------------------------------------------------
(* Modulation of effect parameters by live sources *)

BindingFields == {"target", "mode", "source", "output_min", "output_max",
                  "input_min", "input_max", "fallback", "smoothing_seconds"}

InputRangeOk(b) ==
    IF b.source \in SourcesOfRaw
    THEN /\ {"input_min", "input_max"} \subseteq DOMAIN b
         /\ Number(b.input_min, -Huge, Huge) /\ Number(b.input_max, -Huge, Huge)
         /\ b.input_min < b.input_max
    ELSE b.source \in ScalarSources /\ {"input_min", "input_max"} \cap DOMAIN b = {}

OutputRangeOk(b) ==
    /\ Number(b.output_min, -Huge, Huge) /\ Number(b.output_max, -Huge, Huge)
    /\ b.output_min <= b.output_max
    /\ b.mode = "modulate" => b.output_min >= 0
    /\ b.mode = "drive" /\ b.source # "cue_progress" => "fallback" \in DOMAIN b
    /\ "fallback" \in DOMAIN b => Number(b.fallback, b.output_min, b.output_max)

(* The parameters of an effect a binding may drive. *)
Approved(effect) ==
    {p \in DOMAIN Registry[effect].specs :
        LET spec == Registry[effect].specs[p]
        IN  spec.kind = "float" /\ spec.runtime_mutable /\ spec.modulatable}

BindingOk(b, e) ==
    /\ Known(b, BindingFields)
    /\ {"target", "mode", "source", "output_min", "output_max"} \subseteq DOMAIN b
    /\ b.target \notin CommonControls
    /\ b.target \in Approved(EffectId(e))
    /\ Choice(b.mode, {"modulate", "drive"})
    /\ b.mode = "modulate" => b.target \in DOMAIN ParamsOf(e)
    /\ InputRangeOk(b)
    /\ OutputRangeOk(b)
    /\ Number(Get(b, "smoothing_seconds", 0), 0, Huge)

(* What a binding may hand to the effect: the ends of its range, its fallback,
   and the authored value itself when a modulate binding has no fallback. *)
BindingOutputs(b) ==
    {b.output_min, b.output_max}
       \cup (IF "fallback" \in DOMAIN b THEN {b.fallback}
             ELSE IF b.mode = "modulate" THEN {One} ELSE {})

(* The parameters an effect receives when binding i yields outputs[i]. *)
Modulated(params, bindings, outputs) ==
    [p \in DOMAIN params \cup {bindings[i].target : i \in DOMAIN bindings} |->
        IF \E i \in DOMAIN bindings : bindings[i].target = p
        THEN LET i == CHOOSE i \in DOMAIN bindings : bindings[i].target = p
             IN  IF bindings[i].mode = "modulate"
                 THEN (params[p] * outputs[i]) \div One ELSE outputs[i]
        ELSE params[p]]

OutputCombinationsOk(bindings, e) ==
    \A outputs \in [DOMAIN bindings -> UNION {BindingOutputs(bindings[i]) : i \in DOMAIN bindings}] :
        (\A i \in DOMAIN bindings : outputs[i] \in BindingOutputs(bindings[i]))
            => ValidParams(EffectId(e), Modulated(ParamsOf(e), bindings, outputs))

ParameterModulationOk(bindings, e) ==
    /\ e.mode = "fixed"
    /\ IsList(bindings) /\ bindings # <<>>
    /\ \A i \in DOMAIN bindings : BindingOk(bindings[i], e)
    /\ Distinct([i \in DOMAIN bindings |-> bindings[i].target])
    /\ OutputCombinationsOk(bindings, e)

-----------------------------------------------------------------------------
(* Colours *)

ColorSpecOk(c) ==
    /\ Known(c, {"mode", "color", "colors"})
    /\ \/ Get(c, "mode", Junk) = "effect_default" /\ DOMAIN c = {"mode"}
       \/ Get(c, "mode", Junk) = "solid" /\ "colors" \notin DOMAIN c
             /\ RgbColor(Get(c, "color", Junk))
       \/ Get(c, "mode", Junk) = "palette" /\ "color" \notin DOMAIN c /\ Palette(c, "colors")

ColorSourceFields(type) ==
    {"type"} \cup (IF type = "timeline" THEN {"interpolation", "keyframes"} ELSE {})
             \cup (IF type \in PaletteSources THEN {"palette"} ELSE {})
             \cup (IF type \in LiveSources THEN {"fallback"} ELSE {})
             \cup (IF type = "dominant_frequency_palette"
                   THEN {"frequency_min_hz", "frequency_max_hz"} ELSE {})

ColorSourceOk(c, e) ==
    /\ IsMap(c) /\ Choice(Get(c, "type", Junk), ColorSources)
    /\ e.mode = "fixed"
    /\ Registry[EffectId(e)].support # "NOT_APPLICABLE"
    /\ Known(c, ColorSourceFields(c.type))
    /\ c.type = "timeline" => ColorTimelineOk(c)
    /\ c.type \in PaletteSources => Palette(c, "palette")
    /\ c.type \in LiveSources => RgbColor(Get(c, "fallback", Junk))
    /\ c.type = "dominant_frequency_palette" =>
          /\ Number(Get(c, "frequency_min_hz", Junk), 0, Huge)
          /\ Number(Get(c, "frequency_max_hz", Junk), c.frequency_min_hz + 1, Huge)

-----------------------------------------------------------------------------
(* Transitions and audio control *)

TransitionOk(t) ==
    /\ Known(t, {"fade_in", "fade_out", "blend", "min_effect_hold", "switch_cooldown"})
    /\ \A f \in DOMAIN t \ {"blend"} : Number(t[f], 0, Huge)
    /\ Choice(Get(t, "blend", "replace"), {"replace", "add"})

(* The fields of t, those it lacks from the show's defaults. *)
TransitionOf(t, defaults) ==
    [fade_in |-> Get(t, "fade_in", Get(defaults, "fade_in", 0)),
     fade_out |-> Get(t, "fade_out", Get(defaults, "fade_out", 0)),
     blend |-> Get(t, "blend", Get(defaults, "blend", "replace")),
     min_effect_hold |-> Get(t, "min_effect_hold", Get(defaults, "min_effect_hold", 0)),
     switch_cooldown |-> Get(t, "switch_cooldown", Get(defaults, "switch_cooldown", 0))]

AudioControlOk(a) ==
    /\ Known(a, {"tempo_sync", "tempo_confidence_min", "beat_regularity_min",
                 "beats_per_cycle", "beat_subdivision", "speed_smoothing_seconds",
                 "state_confirmation_seconds", "min_effect_hold", "switch_cooldown"})
    /\ Choice(Get(a, "tempo_sync", "off"), {"off", "auto"})
    /\ \A f \in {"tempo_confidence_min", "beat_regularity_min"} : Number(Get(a, f, 0), 0, One)
    /\ "beats_per_cycle" \in DOMAIN a => Number(a.beats_per_cycle, 1, Huge)
    /\ "beat_subdivision" \in DOMAIN a =>
          a.beat_subdivision # Junk /\ 4 * a.beat_subdivision \in {n * One : n \in {1, 2, 4, 8, 16}}
    /\ \A f \in {"speed_smoothing_seconds", "state_confirmation_seconds",
                 "min_effect_hold", "switch_cooldown"} : Number(Get(a, f, 0), 0, Huge)

ChannelFields == {"source", "amount", "min_multiplier", "max_multiplier", "smoothing_seconds"}

ChannelOk(c) ==
    /\ Known(c, ChannelFields) /\ ChannelFields \subseteq DOMAIN c
    /\ NonEmptyStr(c.source)
    /\ Number(c.amount, 0, One)
    /\ Number(c.min_multiplier, 0, 10 * One)
    /\ Number(c.max_multiplier, c.min_multiplier, 10 * One)
    /\ Number(c.smoothing_seconds, 0, Huge)

AudioModulationOk(m) ==
    /\ Known(m, {"enabled"} \cup Channels)
    /\ Get(m, "enabled", TRUE) \in BOOLEAN
    /\ \A c \in DOMAIN m \cap Channels : ChannelOk(m[c])
    /\ Get(m, "enabled", TRUE) => DOMAIN m \cap Channels # {}

-----------------------------------------------------------------------------
(* Paths, branches, brightness tracks *)

VirtualPathOk(p) ==
    LET targets == Get(p, "targets", Junk)
    IN  /\ Known(p, {"id", "targets", "origin"})
        /\ NonEmptyStr(Get(p, "id", Junk)) /\ p.id \notin DOMAIN LayoutPaths
        /\ IsList(targets) /\ targets # <<>>
        /\ \A i \in DOMAIN targets :
              /\ TargetOk(targets[i], 2, DOMAIN LayoutPaths)
              /\ targets[i].type \in {"analog_zone", "digital_strip"}
        /\ Distinct([i \in DOMAIN targets |-> targets[i].id])
        /\ Choice(Get(p, "origin", "start"), Origins)

VirtualPathsOk(ps) ==
    /\ IsList(ps)
    /\ \A i \in DOMAIN ps : VirtualPathOk(ps[i])
    /\ Distinct([i \in DOMAIN ps |-> ps[i].id])

BranchOk(b, paths) ==
    LET after == Get(b, "after", Junk)
    IN  /\ Known(b, {"after", "target", "origin", "lifecycle"})
        /\ Known(after, {"virtual_path", "target"})
        /\ Get(after, "virtual_path", Junk) \in paths
        /\ NonEmptyStr(Get(after, "target", Junk))
        /\ TargetOk(Get(b, "target", Junk), 2, paths)
        /\ Choice(Get(b, "origin", "start"), Origins)
        /\ Choice(Get(b, "lifecycle", "start_on_release"), {"start_on_release", "pre_roll"})

(* Mutant: any member will do. *)
BranchAnchoredSomewhere(b, ps) ==
    /\ b.target.type = "digital_set"
    /\ \E i \in DOMAIN ps : ps[i].id = b.after.virtual_path
(* What a branch must satisfy once the authored paths are known: it releases a
   digital_set, after a member of a path of this document. *)
BranchAnchored(b, ps) ==
    /\ b.target.type = "digital_set"
    /\ \E i \in DOMAIN ps :
          /\ ps[i].id = b.after.virtual_path
          /\ \E k \in DOMAIN ps[i].targets : ps[i].targets[k].id = b.after.target

TrackStart(k) == Get(k, "start", k.keyframes[1].time)
TrackEnd(k) == Get(k, "end", k.keyframes[Len(k.keyframes)].time)

BrightnessTrackOk(k, duration, paths) ==
    LET frames == Get(k, "keyframes", Junk)
    IN  /\ Known(k, {"id", "target", "start", "end", "interpolation", "keyframes"})
        /\ NonEmptyStr(Get(k, "id", Junk))
        /\ Increasing(frames, duration)
        /\ \A i \in DOMAIN frames :
              Known(frames[i], {"time", "value"}) /\ Number(Get(frames[i], "value", Junk), 0, One)
        /\ Number(TrackStart(k), 0, duration) /\ Number(TrackEnd(k), 0, duration)
        /\ TrackStart(k) < TrackEnd(k)
        /\ TrackStart(k) <= frames[1].time /\ frames[Len(frames)].time <= TrackEnd(k)
        /\ TargetOk(Get(k, "target", Junk), 2, paths)
        /\ Choice(Get(k, "interpolation", "linear"), {"linear", "step"})

BrightnessTracksOk(ks, duration, paths) ==
    /\ IsList(ks)
    /\ \A i \in DOMAIN ks : BrightnessTrackOk(ks[i], duration, paths)
    /\ Distinct([i \in DOMAIN ks |-> ks[i].id])

-----------------------------------------------------------------------------
(* Cues and the whole document *)

CueFields(version) ==
    {"id", "start", "end", "priority", "target", "effect", "transition",
     "audio_control", "audio_modulation"}
      \cup (IF version = 2
            THEN {"color", "color_source", "origin", "branches", "parameter_modulation"}
            ELSE {})

CueOk(c, version, duration, paths) ==
    /\ Known(c, CueFields(version))
    /\ NonEmptyStr(Get(c, "id", Junk))
    /\ Number(Get(c, "start", Junk), 0, Huge)
    /\ Number(Get(c, "end", Junk), c.start + 1, duration)
    /\ Number(Get(c, "priority", 0), 0, Huge)
    /\ EffectOk(Get(c, "effect", Junk), version)
    /\ "parameter_modulation" \in DOMAIN c => ParameterModulationOk(c.parameter_modulation, c.effect)
    /\ "color_source" \in DOMAIN c => ColorSourceOk(c.color_source, c.effect)
    /\ TargetOk(Get(c, "target", Junk), version, paths)
    /\ "color" \in DOMAIN c => ColorSpecOk(c.color)
    /\ "origin" \in DOMAIN c => Choice(c.origin, Origins)
    /\ IsList(Get(c, "branches", <<>>))
    /\ \A i \in DOMAIN Get(c, "branches", <<>>) : BranchOk(c.branches[i], paths)
    /\ TransitionOk(Get(c, "transition", <<>>))
    /\ "audio_control" \in DOMAIN c => AudioControlOk(c.audio_control)
    /\ "audio_modulation" \in DOMAIN c => AudioModulationOk(c.audio_modulation)

CuesOk(cs, version, duration, paths) ==
    /\ IsList(cs)
    /\ \A i \in DOMAIN cs : CueOk(cs[i], version, duration, paths)
    /\ Distinct([i \in DOMAIN cs |-> cs[i].id])

BranchesAnchored(cs, ps) ==
    \A i \in DOMAIN cs :
        LET branches == Get(cs[i], "branches", <<>>)
        IN  /\ branches # <<>> => cs[i].effect.mode = "fixed"
            /\ \A b \in DOMAIN branches : BranchAnchored(branches[b], ps)

PathsOf(show) == Get(show, "virtual_paths", <<>>)
TracksOf(show) == Get(show, "brightness_tracks", <<>>)

(* validate_show_data *)
Accepted(doc) ==
    LET version == Get(doc, "schema_version", Junk)
        show == Get(doc, "show", Junk)
        ps == PathsOf(show)
        paths == DOMAIN LayoutPaths \cup {ps[i].id : i \in DOMAIN ps}
    IN  /\ Known(doc, {"schema_version", "show"})
        /\ Choice(version, {1, 2})
        /\ Known(show, {"id", "duration", "defaults", "cues"}
                       \cup (IF version = 2 THEN {"virtual_paths", "brightness_tracks"} ELSE {}))
        /\ NonEmptyStr(Get(show, "id", Junk))
        /\ Number(Get(show, "duration", Junk), 1, Huge)
        /\ TransitionOk(Get(show, "defaults", <<>>))
        /\ VirtualPathsOk(ps)
        /\ CuesOk(Get(show, "cues", Junk), version, show.duration, paths)
        /\ BrightnessTracksOk(TracksOf(show), show.duration, paths)
        /\ version = 2 => BranchesAnchored(show.cues, ps)
=============================================================================
