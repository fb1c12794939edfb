----------------------------- MODULE ShowRuntime -----------------------------
(* A show document, from its loading to its frames: ShowDocument accepts it,
   the constructor of ShowRuntime resolves it (light_engine/show/compositor.py)
   and render composes one frame per timestamp, in any audio and music.

   A cue is rendered by worker 0 and its branches by workers 1, 2, ...: each
   has an effect instance and its own modulation state, all share the motion
   clock of the cue.  An effect is the number of frames its instance has
   processed; a pixel is the stack of contributions that can be seen in it. *)
EXTENDS ShowDocument, AdaptiveSelector, SequencesExt

CONSTANTS
    Documents,     \* what load_show may be given
    Inputs,        \* [live, level, music]: live features or none, music state
    Skip,          \* frames are at most this many ticks apart
    Horizon        \* render is asked for timestamps up to this one

ASSUME TimesAssumption == Skip \in Nat /\ Horizon \in Nat
ASSUME InputsAssumption == \A input \in Inputs : input.live \in BOOLEAN /\ input.level \in 0..One

VARIABLES
    doc,           \* the document
    phase,         \* how far the document has come, from "read" to "running" or "failed"
    last,          \* _last_timestamp, None before the first frame
    cues,          \* [cue -> [sel, clock, workers]], the jobs and their state
    frame,         \* _last_frame: [zone or strip -> [seen, level]]
    heard          \* history: [cue -> the music state heard without
                   \* interruption and since when, the effect that plays and
                   \* since when]

vars == <<doc, phase, last, cues, frame, heard>>

Show == doc.show
Cue(i) == Show.cues[i]
CueIds == DOMAIN Show.cues
Branches(i) == Get(Cue(i), "branches", <<>>)
Workers(i) == 0..Len(Branches(i))
Transition(i) == TransitionOf(Get(Cue(i), "transition", <<>>), Get(Show, "defaults", <<>>))
(* The audio control of a cue with the defaults of AudioControlSpec, its
   thresholds in hundredths. *)
AudioControl(i) ==
    LET a == Get(Cue(i), "audio_control", <<>>)
    IN  [tempo_sync |-> Get(a, "tempo_sync", "off"),
         tempo_confidence_min |-> (100 * Get(a, "tempo_confidence_min", 0)) \div One,
         beat_regularity_min |-> (100 * Get(a, "beat_regularity_min", 0)) \div One,
         speed_smoothing_seconds |-> Get(a, "speed_smoothing_seconds", 0),
         state_confirmation_seconds |-> Get(a, "state_confirmation_seconds", 0),
         min_effect_hold |-> Get(a, "min_effect_hold", 0),
         switch_cooldown |-> Get(a, "switch_cooldown", 0)]

Adaptive(i) == Cue(i).effect.mode = "adaptive"
Bindings(i) == Get(Cue(i), "parameter_modulation", <<>>)
TargetOf(i, w) == IF w = 0 THEN Cue(i).target ELSE Branches(i)[w].target

-----------------------------------------------------------------------------
(* TargetResolver *)

AuthoredPath(id) ==
    LET ps == PathsOf(Show) IN {i \in DOMAIN ps : ps[i].id = id}
PathTargets(id) == PathsOf(Show)[CHOOSE i \in AuthoredPath(id) : TRUE].targets

(* The lights along a path with their numbers of pixels; an authored path goes
   before one of the layout. *)
Parts(id) ==
    IF AuthoredPath(id) = {} THEN LayoutPaths[id]
    ELSE [k \in DOMAIN PathTargets(id) |->
             LET member == PathTargets(id)[k]
             IN  [light |-> member.id,
                  pixels |-> IF member.type = "digital_strip" THEN PixelCount[member.id] ELSE 1]]

Lights == Zones \cup Strips

(* The zones and strips a target selects. *)
Resolve(t) ==
    CASE t.type \in {"analog_zone", "digital_strip"} -> {t.id}
      [] t.type \in {"digital_set", "analog_group", "digital_group"} ->
            Members(Get(t, "ids", <<>>))
      [] t.type = "virtual_path" -> {Parts(t.id)[k].light : k \in DOMAIN Parts(t.id)}
      [] t.type = "all_analog" -> Zones
      [] t.type = "all_digital" -> Strips
      [] OTHER -> Lights

Resolvable(t) ==
    /\ t.type = "virtual_path" => AuthoredPath(t.id) # {} \/ t.id \in DOMAIN LayoutPaths
    /\ Resolve(t) \subseteq Lights

(* How many pixels the first n parts of a path have. *)
Cursor(parts) ==
    [n \in {0} \cup DOMAIN parts |-> Cardinality(UNION {{k} \X (1..parts[k].pixels) : k \in 1..n})]

(* The pixels an effect draws for a target, strip by strip: a path is one
   strip, as long as its parts together. *)
Canvas(t) ==
    IF t.type = "virtual_path" THEN [path \in {t.id} |-> Cursor(Parts(path))[Len(Parts(path))]]
    ELSE [s \in Resolve(t) \cap Strips |-> PixelCount[s]]

(* The pixels of its path's strip that member k is cut from. *)
Span(parts, k) == Cursor(parts)[k - 1] .. Cursor(parts)[k] - 1

(* The pixel of the effect that pixel c of a strip of n shows. *)
Laid(origin, n, c) ==
    CASE origin = "start" -> c
      [] origin = "end" -> n - 1 - c
      [] origin = "center" -> Least(n - 1, Magnitude(2 * c - (n - 1)))
      [] OTHER -> Least(n - 1, 2 * Least(c, n - 1 - c))

(* A cue's own origin, else the origin of its path. *)
OriginOf(i) ==
    LET t == Cue(i).target
    IN  CASE "origin" \in DOMAIN Cue(i) -> Cue(i).origin
          [] "origin" \notin DOMAIN Cue(i) /\ t.type = "virtual_path" /\ AuthoredPath(t.id) # {} ->
                Get(PathsOf(Show)[CHOOSE p \in AuthoredPath(t.id) : TRUE], "origin", "start")
          [] OTHER -> "start"

MemberOf(branch) ==
    LET targets == PathTargets(branch.after.virtual_path)
    IN  CHOOSE k \in DOMAIN targets : targets[k].id = branch.after.target

(* The cue progress, a fraction, at which a member of a path is complete. *)
ReleaseProgress(branch) ==
    LET path == PathsOf(Show)[CHOOSE i \in AuthoredPath(branch.after.virtual_path) : TRUE]
        along == Cursor(Parts(path.id))
        total == along[Len(path.targets)]
        start == along[MemberOf(branch) - 1]
        end == along[MemberOf(branch)]
        origin == Get(path, "origin", "start")
    IN  CASE origin = "start" -> [num |-> end, den |-> total]
          [] origin = "end" -> [num |-> total - start, den |-> total]
          [] origin = "center" ->
                [num |-> Most(Magnitude(2 * start - total), Magnitude(2 * end - total)), den |-> total]
          [] OTHER -> IF 2 * start <= total /\ total <= 2 * end THEN [num |-> 1, den |-> 1]
                      ELSE [num |-> 2 * Least(end, total - start), den |-> total]

Released(i, w, t) ==
    LET at == ReleaseProgress(Branches(i)[w])
    IN  (t - Cue(i).start) * at.den >= at.num * (Cue(i).end - Cue(i).start)

-----------------------------------------------------------------------------
(* The constructor.  It raises on what it cannot resolve, and on brightness
   tracks that overlap in time on a target. *)

Tracks == TracksOf(Show)
Overlap(a, b) ==
    /\ Most(TrackStart(a), TrackStart(b)) < Least(TrackEnd(a), TrackEnd(b))
    /\ Resolve(a.target) \cap Resolve(b.target) # {}
TracksOverlap == \E a, b \in DOMAIN Tracks : a < b /\ Overlap(Tracks[a], Tracks[b])

BranchBuilds(b) ==
    /\ Resolvable(b.target)
    /\ AuthoredPath(b.after.virtual_path) # {}
    /\ \E k \in DOMAIN PathTargets(b.after.virtual_path) :
          PathTargets(b.after.virtual_path)[k].id = b.after.target

ModulatorBuilds(i) ==
    "parameter_modulation" \in DOMAIN Cue(i) =>
        /\ Bindings(i) # <<>>
        /\ \A b \in DOMAIN Bindings(i) :
              LET binding == Bindings(i)[b]
              IN  /\ binding.target \in Approved(EffectId(Cue(i).effect)) \ CommonControls
                  /\ binding.mode \in {"modulate", "drive"}
                  /\ binding.mode = "modulate" => binding.target \in DOMAIN ParamsOf(Cue(i).effect)
        /\ Distinct([b \in DOMAIN Bindings(i) |-> Bindings(i)[b].target])

JobBuilds(i) ==
    LET e == Cue(i).effect
    IN  /\ Resolvable(Cue(i).target)
        /\ e.mode = "fixed" => EffectId(e) \in DOMAIN Registry
        /\ e.mode = "adaptive" => /\ "fallback" \in DOMAIN e
                                  /\ {"parameter_modulation", "color_source"} \cap DOMAIN Cue(i) = {}
        /\ ModulatorBuilds(i)
        /\ "color_source" \in DOMAIN Cue(i) =>
              /\ Registry[EffectId(e)].support # "NOT_APPLICABLE"
              /\ Cue(i).color_source.type \in PaletteSources => Palette(Cue(i).color_source, "palette")
              /\ Cue(i).color_source.type \in LiveSources => "fallback" \in DOMAIN Cue(i).color_source
        /\ \A w \in DOMAIN Branches(i) : BranchBuilds(Branches(i)[w])

Builds ==
    /\ \A k \in DOMAIN Tracks : Resolvable(Tracks[k].target)
    /\ ~TracksOverlap
    /\ \A i \in CueIds : JobBuilds(i)

Absent == Junk     \* no output: nothing to read, and no fallback

NewEffect(name) == [name |-> name, processed |-> 0]
NewClock == [motion |-> 0, from |-> 0, at |-> None]
NewWorker(i) ==
    [effect |-> NewEffect(IF Adaptive(i) THEN NoEffect ELSE EffectId(Cue(i).effect)),
     levels |-> [c \in Channels |-> None],
     outputs |-> [b \in DOMAIN Bindings(i) |-> Absent],
     moved |-> <<0, 0>>]
NewJobs ==
    [i \in CueIds |-> [sel |-> NewSelector, clock |-> NewClock,
                       workers |-> [w \in Workers(i) |-> NewWorker(i)]]]

-----------------------------------------------------------------------------
(* One worker's render *)

Clamp(v, least, most) == Most(least, Least(most, v))

(* CueAudioModulator: the multiplier of a channel; None is no history. *)
ChannelLevel(spec, level, input, elapsed) ==
    IF ~input.live THEN None
    ELSE LET goal == Clamp(One + (spec.amount * (2 * input.level - One)) \div One,
                           spec.min_multiplier, spec.max_multiplier)
             before == IF level = None THEN One ELSE level
         IN  Clamp(Smoothed(before, goal, elapsed, spec.smoothing_seconds),
                   spec.min_multiplier, spec.max_multiplier)

NextLevels(i, levels, input, elapsed) ==
    LET m == Get(Cue(i), "audio_modulation", <<>>)
    IN  [c \in Channels |->
            IF c \in DOMAIN m /\ Get(m, "enabled", TRUE)
            THEN ChannelLevel(m[c], levels[c], input, elapsed) ELSE None]

Multiplier(level) == IF level = None THEN One ELSE level

CueProgress(i, t) == Clamp((One * (t - Cue(i).start)) \div (Cue(i).end - Cue(i).start), 0, One)

(* The normalized value a binding reads, None when there is no live input. *)
SourceValue(i, b, t, input) ==
    LET normal == IF b.source \in SourcesOfRaw
                  THEN Clamp((One * (input.level - b.input_min)) \div (b.input_max - b.input_min), 0, One)
                  ELSE input.level
    IN  IF b.source = "cue_progress" THEN CueProgress(i, t)
        ELSE IF input.live THEN normal ELSE None

(* CueParameterModulator._smooth.  The exponential approach is stood in for by
   a fraction that like it grows with the elapsed time and stays below one. *)
SmoothOutput(b, before, goal, elapsed) ==
    LET initial == IF b.mode = "modulate" THEN One ELSE Get(b, "fallback", goal)
        from == IF before = Absent THEN initial ELSE before
        smoothing == Get(b, "smoothing_seconds", 0)
    IN  Clamp(IF smoothing = 0 THEN goal
              ELSE from + ((goal - from) * elapsed) \div (elapsed + smoothing),
              b.output_min, b.output_max)

NextOutput(i, b, before, t, input, elapsed) ==
    LET value == SourceValue(i, b, t, input)
        goal == IF value = None THEN Get(b, "fallback", Absent)
                ELSE b.output_min + ((b.output_max - b.output_min) * value) \div One
    IN  IF goal = Absent THEN Absent ELSE SmoothOutput(b, before, goal, elapsed)

(* What the effect is handed: a modulate binding without input leaves the
   authored value. *)
RuntimeParams(i, outputs) ==
    Modulated(ParamsOf(Cue(i).effect), Bindings(i),
              [b \in DOMAIN Bindings(i) |-> IF outputs[b] = Absent THEN One ELSE outputs[b]])

Speed(i, sel, levels) ==
    LET base == IF Adaptive(i) THEN sel.speed ELSE DefaultSpeed
        authored == Get(Cue(i).effect, "speed", One)
    IN  Clamp((((base * authored) \div One) * Multiplier(levels["speed"])) \div One, 0, 10 * DefaultSpeed)

AdvanceEachCall(clock, cueTime, speed) ==  \* mutant
    [motion |-> clock.motion + (cueTime - (IF clock.at = None THEN 0 ELSE clock.at)) * speed,
     from |-> clock.motion, at |-> cueTime]
(* CueMotionClock.advance: a second call in the same frame changes nothing. *)
Advance(clock, cueTime, speed) ==
    IF clock.at = cueTime THEN clock
    ELSE [motion |-> clock.motion + (cueTime - (IF clock.at = None THEN 0 ELSE clock.at)) * speed,
          from |-> clock.motion, at |-> cueTime]

Interval(clock) == <<clock.from, clock.motion>>

EffectAfter(i, effect, sel) ==
    LET name == IF Adaptive(i) THEN sel.effect ELSE effect.name
        instance == IF effect.name = name THEN effect ELSE NewEffect(name)
    IN  [instance EXCEPT !.processed = @ + 1]

RenderWorker(i, worker, sel, clock, t, input, elapsed) ==
    LET levels == NextLevels(i, worker.levels, input, elapsed)
    IN  [effect |-> EffectAfter(i, worker.effect, sel),
         levels |-> levels,
         outputs |-> [b \in DOMAIN Bindings(i) |->
                         NextOutput(i, Bindings(i)[b], worker.outputs[b], t, input, elapsed)],
         moved |-> Interval(Advance(clock, t - Cue(i).start, Speed(i, sel, levels)))]

-----------------------------------------------------------------------------
(* One cue's render: the parent first, then each branch that is released or
   rolls from the start of the cue. *)

Renders(i, w, t) ==
    \/ w = 0
    \/ Get(Branches(i)[w], "lifecycle", "start_on_release") = "pre_roll"
    \/ Released(i, w, t)

SelectorAfter(i, sel, t, input) ==
    IF Adaptive(i)
    THEN Evaluate(sel, t, input.music, Cue(i).effect, Transition(i), AudioControl(i))
    ELSE sel

RenderJob(i, job, t, input, elapsed) ==
    LET sel == SelectorAfter(i, job.sel, t, input)
        levels == NextLevels(i, job.workers[0].levels, input, elapsed)
        clock == Advance(job.clock, t - Cue(i).start, Speed(i, sel, levels))
    IN  [sel |-> sel, clock |-> clock,
         workers |-> [w \in Workers(i) |->
             IF ~Renders(i, w, t) THEN job.workers[w]
             ELSE RenderWorker(i, job.workers[w], sel, IF w = 0 THEN job.clock ELSE clock,
                               t, input, elapsed)]]

(* A render raises when a driven parameter has nothing to be driven by, or
   modulation hands an effect what its validator rejects. *)
WorkerRaises(i, outputs) ==
    \/ \E b \in DOMAIN Bindings(i) : Bindings(i)[b].mode = "drive" /\ outputs[b] = Absent
    \/ ~ValidParams(EffectId(Cue(i).effect), RuntimeParams(i, outputs))
JobRaises(i, job, t) ==
    /\ Bindings(i) # <<>>
    /\ \E w \in Workers(i) : Renders(i, w, t) /\ WorkerRaises(i, job.workers[w].outputs)

-----------------------------------------------------------------------------
(* Composition *)

Active(i, t) == Cue(i).start <= t /\ t < Cue(i).end

FadeWeight(i, t) ==
    LET tr == Transition(i)
        in == IF tr.fade_in = 0 THEN One ELSE Clamp((One * (t - Cue(i).start)) \div tr.fade_in, 0, One)
        out == IF tr.fade_out = 0 THEN One ELSE Clamp((One * (Cue(i).end - t)) \div tr.fade_out, 0, One)
    IN  Least(in, out)

(* The declaration index of a branch counts on from that of its cue. *)
Contribution(i, w, t) ==
    [cue |-> i, worker |-> w, priority |-> Get(Cue(i), "priority", 0),
     index |-> (i - 1) + w, blend |-> Transition(i).blend, weight |-> FadeWeight(i, t)]

Contributions(t) ==
    UNION {{Contribution(i, w, t) : w \in {0} \cup {b \in DOMAIN Branches(i) : Released(i, b, t)}} :
              i \in {j \in CueIds : Active(j, t)}}

(* By priority, then declaration index; the sort is stable, and jobs and then
   their branches are rendered in the order of the document. *)
Before(a, b) ==
    \/ a.priority < b.priority
    \/ a.priority = b.priority /\ a.index < b.index
    \/ a.priority = b.priority /\ a.index = b.index /\ a.cue < b.cue

Ordered(contributions) == SetToSortSeq(contributions, Before)

(* The contributions that can be seen in x, lowest first: what reaches it with
   some weight, from the last that replaces all below it. *)
SeenIn(x, order) ==
    LET reaching == SelectSeq(order, LAMBDA c : c.weight > 0 /\ x \in Resolve(TargetOf(c.cue, c.worker)))
        covers == {k \in DOMAIN reaching : reaching[k].blend = "replace" /\ reaching[k].weight = One}
    IN  IF covers = {} THEN reaching
        ELSE SubSeq(reaching, CHOOSE k \in covers : \A j \in covers : j <= k, Len(reaching))

(* evaluate_brightness_track, for a time inside the track's interval. *)
TrackLevel(k, t) ==
    LET frames == k.keyframes
        past == {n \in DOMAIN frames : frames[n].time <= t}
        n == CHOOSE n \in past : \A m \in past : m <= n
    IN  IF past = {} THEN frames[1].value
        ELSE IF n = Len(frames) \/ Get(k, "interpolation", "linear") = "step" THEN frames[n].value
        ELSE frames[n].value + ((frames[n + 1].value - frames[n].value) * (t - frames[n].time))
                                  \div (frames[n + 1].time - frames[n].time)

TracksOn(x, t) ==
    {n \in DOMAIN Tracks : /\ TrackStart(Tracks[n]) <= t /\ t < TrackEnd(Tracks[n])
                           /\ x \in Resolve(Tracks[n].target)}

(* The last track of the list that is active wins. *)
LevelOf(x, t) ==
    LET on == TracksOn(x, t)
    IN  IF on = {} THEN One ELSE TrackLevel(Tracks[CHOOSE n \in on : \A m \in on : m <= n], t)

FrameAt(t) ==
    LET order == Ordered(Contributions(t))
    IN  [x \in Lights |-> [seen |-> SeenIn(x, order), level |-> LevelOf(x, t)]]

-----------------------------------------------------------------------------
(* Behaviour *)

Init ==
    /\ doc \in Documents
    /\ phase = "read" /\ last = None /\ cues = <<>> /\ frame = <<>> /\ heard = <<>>

NothingHeard == [i \in CueIds |-> [state |-> NoEffect, since |-> None, effect |-> NoEffect, switched |-> None]]

Load ==
    /\ phase = "read"
    /\ phase' = IF Accepted(doc) THEN "accepted" ELSE "rejected"
    /\ UNCHANGED <<doc, last, cues, frame, heard>>

Construct ==
    /\ phase = "accepted"
    /\ IF Builds
       THEN phase' = "running" /\ cues' = NewJobs /\ heard' = NothingHeard
       ELSE phase' = "unbuildable" /\ UNCHANGED <<cues, heard>>
    /\ UNCHANGED <<doc, last, frame>>

(* The observer of an adaptive cue: the state heard without interruption, the
   effect that plays. *)
Hear(h, i, t, input, effect) ==
    LET state == Classify(input.music, AudioControl(i))
    IN  [state |-> state, since |-> IF state = h.state THEN h.since ELSE t,
         effect |-> effect, switched |-> IF effect = h.effect THEN h.switched ELSE t]

Draw(t, input) ==
    LET elapsed == IF last = None THEN 1 ELSE t - last
        jobs == [i \in CueIds |-> IF Active(i, t) THEN RenderJob(i, cues[i], t, input, elapsed) ELSE cues[i]]
    IN  IF \E i \in CueIds : Active(i, t) /\ JobRaises(i, jobs[i], t)
        THEN phase' = "failed" /\ UNCHANGED <<last, cues, frame, heard>>
        ELSE /\ last' = t /\ cues' = jobs /\ frame' = FrameAt(t)
             /\ heard' = [i \in CueIds |-> IF Active(i, t) /\ Adaptive(i)
                                           THEN Hear(heard[i], i, t, input, jobs[i].workers[0].effect.name)
                                           ELSE heard[i]]
             /\ UNCHANGED phase

InShow(t) == 0 <= t /\ t < Show.duration

(* ShowRuntime.render.  Outside the show the base frame is returned, a step
   back raises, the same timestamp returns the last frame once more. *)
Render(t, input) ==
    /\ phase = "running"
    /\ IF InShow(t) /\ (last = None \/ t > last)
       THEN Draw(t, input)
       ELSE UNCHANGED <<phase, last, cues, frame, heard>>
    /\ UNCHANGED doc

Reset ==
    /\ phase = "running"
    /\ cues' = NewJobs /\ last' = None /\ frame' = <<>> /\ heard' = NothingHeard
    /\ UNCHANGED <<doc, phase>>

Times == {t \in 0..Horizon : last = None \/ t <= last + Skip}

Next ==
    \/ Load
    \/ Construct
    \/ \E t \in Times, input \in Inputs : Render(t, input)
    \/ Reset

Spec == Init /\ [][Next]_vars

-----------------------------------------------------------------------------
(* Properties *)

(* The two layers agree: a document load_show accepts is built, unless two of
   its brightness tracks overlap, and no frame of it raises. *)
AcceptedRuns ==
    /\ phase = "unbuildable" => TracksOverlap
    /\ phase # "failed"

(* A branch is timed by the sweep of its path: a cue that draws along the path
   from the path's own origin has laid out every pixel of the member when the
   branch is released, and at most one pixel more than it needs for that. *)
FollowsSweep(i, w) ==
    LET branch == Branches(i)[w]
        parts == Parts(branch.after.virtual_path)
        n == Canvas(Cue(i).target)[branch.after.virtual_path]
        swept == {Laid(OriginOf(i), n, c) + 1 : c \in Span(parts, MemberOf(branch))}
        at == ReleaseProgress(branch)
    IN  /\ \A pixels \in swept : pixels * at.den <= n * at.num
        /\ \E pixels \in swept : n * at.num <= (pixels + 1) * at.den

(* A pre_roll branch has processed the frames of its parent, a
   start_on_release branch none before its release, and both have moved over
   the same interval of the cue's motion clock. *)
InStep(i, w) ==
    LET parent == cues[i].workers[0]
        branch == cues[i].workers[w]
        preRoll == Get(Branches(i)[w], "lifecycle", "start_on_release") = "pre_roll"
        released == cues[i].clock.at # None /\ Released(i, w, Cue(i).start + cues[i].clock.at)
    IN  /\ preRoll => branch.effect.processed = parent.effect.processed
        /\ ~preRoll => (branch.effect.processed > 0 <=> released)
        /\ branch.effect.processed > 0 => branch.moved = parent.moved

DrawsAlongPath(i, w) ==
    /\ Cue(i).target.type = "virtual_path"
    /\ Cue(i).target.id = Branches(i)[w].after.virtual_path
    /\ "origin" \notin DOMAIN Cue(i)

(* Branches keep step with their cue, and their release with the sweep of the
   cue along their path. *)
BranchesInStep ==
    phase = "running" =>
        \A i \in CueIds : \A w \in DOMAIN Branches(i) :
            InStep(i, w) /\ (DrawsAlongPath(i, w) => FollowsSweep(i, w))

(* Cue i confirms another state only after hearing it without interruption
   for the confirmation time, and changes its effect only after the one that
   plays has been held. *)
SwitchesCalmly(i) ==
    LET before == heard[i]  after == heard'[i]  audio == AudioControl(i)
        was == cues[i].sel.confirmed  is == cues'[i].sel.confirmed
    IN  /\ was # NoEffect /\ is # was =>
              after.state = is /\ last' - after.since >= audio.state_confirmation_seconds
        /\ before.effect # NoEffect /\ after.effect # before.effect =>
              /\ last' - before.switched >= HoldSeconds(Transition(i), audio)
              /\ last' - before.switched >= CooldownSeconds(Transition(i), audio)

(* An adaptive cue follows the music calmly, whatever it hears and whenever
   frames are asked for. *)
MusicSwitchesCalmly ==
    [][phase = "running" /\ last' # None => \A i \in CueIds : SwitchesCalmly(i)]_vars

=============================================================================
