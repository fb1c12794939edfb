--------------------------- MODULE AdaptiveSelector ---------------------------
(* The state machine that chooses the effect of an adaptive cue from the music
   (light_engine/show/adaptive_selector.py): candidate state, confirmation
   timer, confirmed state, allowed mapping, hold and cooldown gates.

   Music features, thresholds and speeds are in hundredths, times in ticks.  A
   music record holds the features classify_music_state reads and, when the
   tempo is usable, the period of one cycle; 0 is a tempo that is not. *)
EXTENDS Integers

None == -1          \* no time, no period
NoEffect == "none"

DefaultSpeed == 100
MinSpeed == 10
MaxSpeed == 400
ReferencePeriod == 4

Least(a, b) == IF a < b THEN a ELSE b
Most(a, b) == IF a > b THEN a ELSE b
Magnitude(n) == IF n < 0 THEN -n ELSE n

NewSelector ==
    [effect |-> NoEffect, confirmed |-> NoEffect, pending |-> NoEffect,
     since |-> None, switched |-> None, period |-> None,
     speed |-> DefaultSpeed, at |-> None]

BeatReady(music, audio) ==
    /\ audio.tempo_sync # "off"
    /\ music.period > 0
    /\ music.tempo_confidence >= audio.tempo_confidence_min
    /\ music.beat_regularity >= audio.beat_regularity_min

Classify(music, audio) ==
    IF music.energy <= 3 /\ music.transient <= 5 THEN "silence"
    ELSE IF music.energy >= 15 /\ (music.bass_pulse >= 65 \/ music.transient >= 85) THEN "impact"
    ELSE IF music.energy >= 72 /\ music.spectral_motion >= 35 THEN "energetic"
    ELSE IF BeatReady(music, audio) /\ music.beat_strength >= 35 THEN "rhythmic"
    ELSE IF Magnitude(music.energy_trend) >= 25 \/ music.spectral_motion >= 50 THEN "transition"
    ELSE IF music.bass_ambient >= 55 /\ music.bass_pulse < 35 THEN "ambient"
    ELSE IF \/ music.energy >= 18 \/ music.spectral_motion >= 18
            \/ Magnitude(music.energy_trend) >= 12 THEN "flowing"
    ELSE IF music.energy >= 4 THEN "calm"
    ELSE "silence"

BoundedSpeed(v) == Least(MaxSpeed, Most(MinSpeed, v))

SpeedForPeriod(period) ==
    IF period <= 0 THEN DefaultSpeed ELSE BoundedSpeed((100 * ReferencePeriod) \div period)

(* From current towards target, all the way once `smoothing` has passed. *)
Smoothed(current, target, elapsed, smoothing) ==
    IF smoothing <= 0 \/ elapsed <= 0 \/ elapsed >= smoothing THEN target
    ELSE current + ((target - current) * elapsed) \div smoothing

NextPeriod(sel, music, audio, elapsed) ==
    IF ~BeatReady(music, audio) THEN sel.period
    ELSE IF sel.period = None THEN music.period
    ELSE Smoothed(sel.period, music.period, elapsed, audio.speed_smoothing_seconds)

(* choose_sync: what the music can be followed by, and the speed it asks for. *)
SyncSpeed(sel, music, audio, period) ==
    IF BeatReady(music, audio) THEN SpeedForPeriod(period)
    ELSE IF music.transient >= 45 \/ music.bass_pulse >= 45 THEN Most(sel.speed, MinSpeed)
    ELSE IF Magnitude(music.energy_trend) >= 8 \/ music.spectral_motion >= 12
         THEN BoundedSpeed(100 + music.energy_trend \div 2 + music.spectral_motion \div 2)
    ELSE DefaultSpeed

(* Mutant: a candidate that comes back keeps the time it was first heard. *)
ConfirmIntermittent(sel, t, candidate, confirmation) ==
    LET since == IF candidate = sel.pending THEN sel.since ELSE t
    IN  IF sel.confirmed = NoEffect
        THEN [confirmed |-> candidate, pending |-> candidate, since |-> t, waiting |-> FALSE]
        ELSE IF candidate = sel.confirmed
        THEN [confirmed |-> candidate, pending |-> sel.pending, since |-> sel.since, waiting |-> FALSE]
        ELSE IF t - since >= confirmation
        THEN [confirmed |-> candidate, pending |-> candidate, since |-> since, waiting |-> FALSE]
        ELSE [confirmed |-> sel.confirmed, pending |-> candidate, since |-> since, waiting |-> TRUE]
(* _confirm_state: the new confirmed and pending states, and whether a
   candidate is still waiting. *)
Confirm(sel, t, candidate, confirmation) ==
    LET since == IF candidate = sel.pending THEN sel.since ELSE t
    IN  IF sel.confirmed = NoEffect \/ candidate = sel.confirmed
        THEN [confirmed |-> candidate, pending |-> candidate, since |-> t, waiting |-> FALSE]
        ELSE IF t - since >= confirmation
        THEN [confirmed |-> candidate, pending |-> candidate, since |-> since, waiting |-> FALSE]
        ELSE [confirmed |-> sel.confirmed, pending |-> candidate, since |-> since, waiting |-> TRUE]

EffectForState(effect, state) ==
    IF state \in DOMAIN effect.allowed THEN effect.allowed[state] ELSE effect.fallback

HoldSeconds(transition, audio) ==
    IF audio.min_effect_hold > 0 THEN audio.min_effect_hold ELSE transition.min_effect_hold
CooldownSeconds(transition, audio) ==
    IF audio.switch_cooldown > 0 THEN audio.switch_cooldown ELSE transition.switch_cooldown

GateActive(t, switched, seconds) == switched # None /\ seconds > 0 /\ t - switched < seconds

(* One evaluation, for the effect block, the transition and the audio control
   of a cue. *)
Evaluate(sel, t, music, effect, transition, audio) ==
    LET confirm == Confirm(sel, t, Classify(music, audio), audio.state_confirmation_seconds)
        elapsed == IF sel.at = None THEN 0 ELSE Most(0, t - sel.at)
        period == NextPeriod(sel, music, audio, elapsed)
        target == EffectForState(effect, confirm.confirmed)
        held == \/ GateActive(t, sel.switched, HoldSeconds(transition, audio))
                \/ GateActive(t, sel.switched, CooldownSeconds(transition, audio))
        switch == \/ sel.effect = NoEffect
                  \/ ~confirm.waiting /\ target # sel.effect /\ ~held
    IN  [effect |-> IF switch THEN target ELSE sel.effect,
         confirmed |-> confirm.confirmed,
         pending |-> confirm.pending,
         since |-> confirm.since,
         switched |-> IF switch THEN t ELSE sel.switched,
         period |-> period,
         speed |-> BoundedSpeed(Smoothed(sel.speed, SyncSpeed(sel, music, audio, period), elapsed,
                                         audio.speed_smoothing_seconds)),
         at |-> t]
=============================================================================
