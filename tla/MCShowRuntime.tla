---------------------------- MODULE MCShowRuntime ----------------------------
(* Documents for ShowRuntime: three shows the loader accepts, one for branches
   and motion, one for music, one for modulation and brightness tracks, a
   version 1 show, and each of them with one field changed. *)
EXTENDS ShowRuntime

CONSTANT MCJunk

MCOne == 4
MCZones == {"z1"}
MCPixelCount == [s1 |-> 1, s2 |-> 2, s3 |-> 1]
MCLayoutPaths == [lp |-> <<[light |-> "s1", pixels |-> 1], [light |-> "s2", pixels |-> 1]>>]

ParameterSpec(kind, maximum, choices, driven) ==
    [kind |-> kind, minimum |-> 0, maximum |-> maximum, choices |-> choices,
     runtime_mutable |-> driven, modulatable |-> driven]
MCRegistry ==
    [chase |-> [specs |-> [tail |-> ParameterSpec("integer", 8, {}, FALSE), mirror |-> ParameterSpec("boolean", 0, {}, FALSE),
                           shape |-> ParameterSpec("enum", 0, {"dot", "comet"}, FALSE),
                           tint |-> ParameterSpec("rgb", 0, {}, FALSE)],
                ordered |-> {}, support |-> "POSITIONAL"],
     bands |-> [specs |-> [base |-> ParameterSpec("float", 8, {}, TRUE), high |-> ParameterSpec("float", 8, {}, TRUE)],
                ordered |-> {[low |-> "base", high |-> "high", low_default |-> 1, high_default |-> 5]}, support |-> "GLOBAL"],
     wave |-> [specs |-> [span |-> ParameterSpec("float", 4, {}, TRUE),
                          color_timeline |-> ParameterSpec("color_timeline", 0, {}, FALSE)],
               ordered |-> {}, support |-> "NOT_APPLICABLE"]]
MCSourcesOfRaw == {"audio.raw_level"}
MCScalarSources == {"cue_progress", "audio.rms"}

Music(energy, motion, period) ==
    [energy |-> energy, transient |-> 0, bass_pulse |-> 0, bass_ambient |-> 0,
     spectral_motion |-> motion, energy_trend |-> 0, beat_strength |-> 50,
     period |-> period, tempo_confidence |-> 75, beat_regularity |-> 75]
MCInputs ==
    {[live |-> FALSE, level |-> 0, music |-> Music(2, 0, 0)],
     [live |-> TRUE, level |-> 1, music |-> Music(30, 0, 2)],
     [live |-> TRUE, level |-> 4, music |-> Music(80, 40, 8)]}

Strip(s) == [type |-> "digital_strip", id |-> s]
Zone(z) == [type |-> "analog_zone", id |-> z]
Set(ids) == [type |-> "digital_set", ids |-> ids]
Path(p) == [type |-> "virtual_path", id |-> p]
Frames(from, to, low, high) == <<[time |-> from, value |-> low], [time |-> to, value |-> high]>>
White == <<4, 4, 4>>
Blend(to) == [interpolation |-> "rgb_linear",
              keyframes |-> <<[time |-> 0, color |-> White], [time |-> to, color |-> White]>>]

Chase == [mode |-> "fixed", id |-> "chase", params |-> [tail |-> 4], speed |-> 6]
Loud == [source |-> "audio.rms", amount |-> 4, min_multiplier |-> 1, max_multiplier |-> 7, smoothing_seconds |-> 2]

Document(version, show) == [schema_version |-> version, show |-> show]

-----------------------------------------------------------------------------
BranchAfter(path, member, lifecycle) ==
    [after |-> [virtual_path |-> path, target |-> member], target |-> Set(<<"s3">>), lifecycle |-> lifecycle]
AlongPath(branches) ==
    [id |-> "along", start |-> 1, end |-> 5, target |-> Path("vp"), effect |-> Chase,
     audio_modulation |-> [speed |-> Loud], branches |-> branches]
BranchShow(cue, origin) ==
    Document(2, [id |-> "branches", duration |-> 5, defaults |-> [fade_in |-> 2],
                 virtual_paths |-> <<[id |-> "vp", targets |-> <<Strip("s1"), Strip("s2"), Zone("z1")>>,
                                      origin |-> origin]>>,
                 cues |-> <<cue, [id |-> "after", start |-> 2, end |-> 5, target |-> Strip("s3"),
                                  effect |-> [mode |-> "fixed", id |-> "wave"]]>>])
BranchShows ==
    {BranchShow(AlongPath(<<BranchAfter("vp", m, l), BranchAfter("vp", "s1", "pre_roll")>>), o) :
        o \in Origins, m \in {"s1", "s2", "z1"}, l \in {"start_on_release", "pre_roll"}}
BranchEdits ==
    LET b == BranchAfter("vp", "s1", "pre_roll")
        bad == {[b EXCEPT !.after.virtual_path = "lp"], [b EXCEPT !.after.target = "s3"],
                [b EXCEPT !.target = Strip("s3")], [b EXCEPT !.target = Set(<<"s9">>)],
                [b EXCEPT !.target = Set(<<>>)], [b EXCEPT !.lifecycle = "sometimes"],
                [b EXCEPT !.target = Set(<<"s1", "s1">>)], [b EXCEPT !.after = MCJunk]}
        cue == AlongPath(<<b>>)
    IN  {BranchShow(AlongPath(<<x>>), "start") : x \in bad}
          \cup {BranchShow([cue EXCEPT !.effect = e], "start") : e \in
                  {[mode |-> "adaptive", allowed |-> [calm |-> "wave"], fallback |-> "wave"],
                   [Chase EXCEPT !.id = "none"], [Chase EXCEPT !.params = [width |-> 1]],
                   [Chase EXCEPT !.params = [tail |-> 12]], [Chase EXCEPT !.params = [tail |-> 3]],
                   [Chase EXCEPT !.params = [mirror |-> TRUE, shape |-> "comet", tint |-> White]],
                   [Chase EXCEPT !.params = [mirror |-> MCJunk]], [Chase EXCEPT !.params = [shape |-> "ring"]],
                   [Chase EXCEPT !.params = [tint |-> <<4, 5, 4>>]], [Chase EXCEPT !.speed = -1]}}
          \cup {BranchShow([cue EXCEPT !.effect = [mode |-> "fixed", id |-> "wave",
                                                  params |-> [color_timeline |-> Blend(k)]]], "start") : k \in {0, 1}}
          \cup {BranchShow([cue EXCEPT !.target = t], "start") : t \in
                  {Path("nowhere"), Path("lp"), Zone("s1"), Strip("z1"), [type |-> "all"], MCJunk}}
          \cup {BranchShow([cue EXCEPT !.end = t], "start") : t \in {1, 6, MCJunk}}
          \cup {BranchShow([cue EXCEPT !.id = "after"], "start"), BranchShow(cue, "middle")}

-----------------------------------------------------------------------------
AdaptiveCue(control, transition) ==
    [id |-> "music", start |-> 0, end |-> 8, target |-> Set(<<"s1", "s2">>), transition |-> transition,
     effect |-> [mode |-> "adaptive", allowed |-> [silence |-> "wave", energetic |-> "bands"],
                 fallback |-> "wave"],
     audio_control |-> control]
MusicShow(cue) == Document(2, [id |-> "music", duration |-> 8, cues |-> <<cue>>])
MusicShows ==
    {MusicShow(AdaptiveCue([tempo_sync |-> sync, state_confirmation_seconds |-> 2, switch_cooldown |-> c,
                            speed_smoothing_seconds |-> 2, tempo_confidence_min |-> 2],
                           [min_effect_hold |-> h])) :
        sync \in {"off", "auto"}, c \in {0, 2}, h \in {0, 3}}
MusicEdits ==
    LET cue == AdaptiveCue([tempo_sync |-> "auto"], <<>>)
    IN  {MusicShow([cue EXCEPT !.effect = e]) : e \in
            {[mode |-> "adaptive", allowed |-> [calm |-> "wave"], fallback |-> "bands"],
             [mode |-> "adaptive", allowed |-> [loud |-> "wave"], fallback |-> "wave"],
             [mode |-> "adaptive", allowed |-> [calm |-> "wave"], fallback |-> "wave", id |-> "wave"],
             [mode |-> "adaptive", allowed |-> MCJunk, fallback |-> "wave"]}}
          \cup {MusicShow([cue EXCEPT !.audio_control = a]) : a \in
                  {[tempo_sync |-> "on"], [beat_subdivision |-> 3], [tempo_confidence_min |-> 5],
                   [beats_per_cycle |-> 0], [min_effect_hold |-> -1]}}

-----------------------------------------------------------------------------
Binding(target, mode, source, low, high) ==
    [target |-> target, mode |-> mode, source |-> source, output_min |-> low, output_max |-> high,
     fallback |-> low, smoothing_seconds |-> 2]
Modulating(bindings) ==
    [id |-> "bound", start |-> 0, end |-> 4, target |-> Strip("s2"), priority |-> 1,
     effect |-> [mode |-> "fixed", id |-> "bands", params |-> [base |-> 2, high |-> 4]],
     parameter_modulation |-> bindings,
     color_source |-> [type |-> "video_average", fallback |-> White]]
Track(id, target, from, to) ==
    [id |-> id, target |-> target, interpolation |-> "linear", keyframes |-> Frames(from, to, 1, 3)]
ModulationShow(cue, tracks) ==
    Document(2, [id |-> "bound", duration |-> 4, brightness_tracks |-> tracks,
                 cues |-> <<cue, [id |-> "under", start |-> 0, end |-> 3, target |-> Strip("s2"),
                                  effect |-> [mode |-> "fixed", id |-> "wave"],
                                  transition |-> [blend |-> "add", fade_out |-> 2]]>>])
OneTrack == <<Track("a", Strip("s2"), 0, 2)>>
ModulationShows ==
    {ModulationShow(Modulating(b), OneTrack) : b \in
        {<<Binding("high", "drive", "audio.rms", 3, 7)>>,
         <<Binding("high", "modulate", "cue_progress", 2, 8), Binding("base", "drive", "audio.rms", 0, 2)>>,
         <<Binding("high", "modulate", "cue_progress", 0, 8), Binding("base", "drive", "audio.rms", 0, 2)>>,
         <<Binding("high", "drive", "audio.rms", 1, 7)>>,
         <<Binding("high", "modulate", "audio.rms", 2, 8)>>,
         <<[Binding("base", "drive", "audio.rms", 0, 3) EXCEPT !.fallback = 5]>>,
         <<Binding("high", "drive", "audio.rms", 3, 9)>>,
         <<Binding("high", "drive", "audio.raw_level", 3, 7)>>,
         <<Binding("tail", "drive", "audio.rms", 3, 7)>>,
         <<Binding("speed", "drive", "audio.rms", 3, 7)>>,
         <<Binding("high", "drive", "audio.rms", 3, 7), Binding("high", "drive", "audio.rms", 3, 7)>>,
         <<>>}}
      \cup {ModulationShow([Modulating(<<Binding("high", "drive", "audio.rms", 1, 7)>>) EXCEPT !.effect.params = p],
                           OneTrack) : p \in {<<>>, [high |-> 0], [base |-> 6]}}
      \cup {ModulationShow([Modulating(OneBinding) EXCEPT !.color_source = c], OneTrack) :
              OneBinding \in {<<Binding("high", "drive", "audio.rms", 3, 7)>>},
              c \in {[type |-> "video_average"], [type |-> "spatial_palette", palette |-> <<>>],
                     [type |-> "spatial_palette", palette |-> <<White>>],
                     [type |-> "dominant_frequency_palette", palette |-> <<White>>, fallback |-> White,
                      frequency_min_hz |-> 2, frequency_max_hz |-> 2],
                     [type |-> "timeline", interpolation |-> "rgb_linear",
                      keyframes |-> <<[time |-> 0, color |-> White], [time |-> 0, color |-> White]>>]}}
TrackShows ==
    {ModulationShow(Modulating(<<Binding("high", "drive", "audio.rms", 3, 7)>>), <<Track("a", Strip("s2"), 0, 2), k>>) :
        k \in {Track("b", Strip("s2"), 2, 4), Track("b", Strip("s2"), 1, 4), Track("b", Set(<<"s1", "s2">>), 1, 3),
               Track("b", Path("lp"), 0, 1), Track("b", Zone("z1"), 0, 4), Track("a", Zone("z1"), 0, 4),
               Track("b", Zone("z1"), 2, 2), Track("b", Zone("z1"), 2, 5), Track("b", Path("vp"), 0, 4),
               Track("b", Zone("z1"), 1, 3) @@ [start |-> 2], Track("b", Strip("s2"), 2, 3) @@ [start |-> 1, end |-> 4],
               [Track("b", Strip("s2"), 2, 3) EXCEPT !.interpolation = "step"]}}

-----------------------------------------------------------------------------
LegacyShow(target, transition) ==
    Document(1, [id |-> "legacy", duration |-> 3,
                 cues |-> <<[id |-> "one", start |-> 0, end |-> 3, target |-> target, transition |-> transition,
                             effect |-> [mode |-> "fixed", name |-> "chase", parameters |-> [tail |-> 4]]]>>])
LegacyShows ==
    {LegacyShow(t, [blend |-> b]) : b \in {"replace", "add", "mix"}, t \in
        {[type |-> "all"], [type |-> "all_digital"], [type |-> "all_analog", id |-> "z1"], Path("lp"),
         [type |-> "digital_group", ids |-> <<"s1", "s3">>], [type |-> "digital_group", id |-> "g1"],
         [type |-> "analog_group", ids |-> <<"s1">>], Set(<<"s1">>), Strip("s3")}}
    \cup {[LegacyShow(Strip("s1"), <<>>) EXCEPT !.schema_version = v] : v \in {2, 3, MCJunk}}

MCDocuments == BranchShows \cup BranchEdits \cup MusicShows \cup MusicEdits \cup ModulationShows
                 \cup TrackShows \cup LegacyShows \cup {MCJunk}
=============================================================================
