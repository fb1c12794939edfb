-------------------------- MODULE ShowRuntimeProofs --------------------------
(* Theorems about ShowRuntime, for any documents, registry and layout, any   *)
(* music and any distance of the frames.                                     *)
EXTENDS ShowRuntime, TLAPS, FiniteSetTheorems, SequenceTheorems

(* A document that was not accepted is never played. *)
OnlyAccepted == phase \in {"accepted", "running"} => Accepted(doc)

----------------------------------------------------------------------------
(* What the loader promises *)

LEMMA AcceptedShow ==
    ASSUME Accepted(doc)
    PROVE  /\ TransitionOk(Get(Show, "defaults", <<>>))
           /\ \A i \in CueIds : \E version, duration, paths : CueOk(Cue(i), version, duration, paths)
<1>1. Show = Get(doc, "show", Junk)
  BY DEF Accepted, Known, IsMap, Get, Show
<1>2. TransitionOk(Get(Show, "defaults", <<>>))
  BY <1>1 DEF Accepted
<1>3. \E version, duration, paths : CuesOk(Get(Show, "cues", Junk), version, duration, paths)
  BY <1>1 DEF Accepted
<1>4. PICK version, duration, paths : CuesOk(Get(Show, "cues", Junk), version, duration, paths)
  BY <1>3
<1>5. Get(Show, "cues", Junk) = Show.cues
  BY <1>4 DEF CuesOk, IsList, Get
<1>6. \A i \in CueIds : CueOk(Cue(i), version, duration, paths)
  BY <1>4, <1>5 DEF CuesOk, CueIds, Cue
<1> QED
  BY <1>2, <1>6

LEMMA SecondsKnown ==
    ASSUME NEW a, NEW f, \A g \in {f} : Number(Get(a, g, 0), 0, Huge)
    PROVE  Get(a, f, 0) \in Nat
  BY DEF Number

LEMMA TransitionSeconds ==
    ASSUME NEW t, TransitionOk(t), NEW f \in {"min_effect_hold", "switch_cooldown"}, NEW d \in Nat
    PROVE  Get(t, f, d) \in Nat
<1>1. f \in DOMAIN t => Number(t[f], 0, Huge)
  BY DEF TransitionOk
<1> QED
  BY <1>1 DEF Number, Get

(* The times an adaptive cue is held for are numbers, whether the document *)
(* gives them or not.                                                      *)
LEMMA TimesKnown ==
    ASSUME Accepted(doc), NEW i \in CueIds
    PROVE  /\ AudioControl(i).state_confirmation_seconds \in Nat
           /\ HoldSeconds(Transition(i), AudioControl(i)) \in Nat
           /\ CooldownSeconds(Transition(i), AudioControl(i)) \in Nat
           /\ Len(Branches(i)) \in Nat /\ DOMAIN Branches(i) = 1..Len(Branches(i))
<1>1. PICK version, duration, paths : CueOk(Cue(i), version, duration, paths)
  BY AcceptedShow
<1> DEFINE a == Get(Cue(i), "audio_control", <<>>)
<1>2. a = <<>> \/ AudioControlOk(a)
  BY <1>1 DEF CueOk, Get
<1>3. \A f \in {"state_confirmation_seconds", "min_effect_hold", "switch_cooldown"} : Get(a, f, 0) \in Nat
  <2> SUFFICES ASSUME NEW f \in {"state_confirmation_seconds", "min_effect_hold", "switch_cooldown"}
               PROVE  Get(a, f, 0) \in Nat
    OBVIOUS
  <2>1. CASE a = <<>>
    <3>1. f \notin DOMAIN a
      BY <2>1
    <3> QED
      BY <3>1 DEF Get
  <2>2. CASE AudioControlOk(a)
    <3>1. Number(Get(a, f, 0), 0, Huge)
      BY <2>2 DEF AudioControlOk
    <3> QED
      BY <3>1 DEF Number
  <2> QED
    BY <1>2, <2>1, <2>2
<1>4. /\ AudioControl(i).state_confirmation_seconds \in Nat
      /\ AudioControl(i).min_effect_hold \in Nat /\ AudioControl(i).switch_cooldown \in Nat
  BY <1>3 DEF AudioControl
<1>5. TransitionOk(Get(Cue(i), "transition", <<>>)) /\ TransitionOk(Get(Show, "defaults", <<>>))
  BY <1>1, AcceptedShow DEF CueOk
<1>6. Transition(i).min_effect_hold \in Nat /\ Transition(i).switch_cooldown \in Nat
  BY <1>5, TransitionSeconds DEF Transition, TransitionOf
<1>7. IsList(Branches(i))
  BY <1>1 DEF CueOk, Branches
<1> QED
  BY <1>4, <1>6, <1>7 DEF HoldSeconds, CooldownSeconds, IsList

----------------------------------------------------------------------------
(* The selector of an adaptive cue and its observer *)

(* An effect is an instance of what it is called. *)
Plays(effect, name) == effect = [name |-> name, processed |-> effect.processed]

(* What job of an adaptive cue knows of the music, and h of what it heard, at *)
(* the time of the last frame: the candidate is the state that is heard, its  *)
(* time is no earlier, and the effect that plays is the one that was chosen.  *)
Listens(job, h, now) ==
    /\ Plays(job.workers[0].effect, job.sel.effect)
    /\ h.effect = job.sel.effect
    /\ h.state = job.sel.pending
    /\ job.sel.pending = NoEffect <=> job.sel.confirmed = NoEffect
    /\ job.sel.confirmed # NoEffect =>
          h.since \in Int /\ job.sel.since \in Int /\ h.since <= job.sel.since /\ h.since <= now
    /\ job.sel.effect # NoEffect =>
          job.sel.switched = h.switched /\ h.switched \in Nat /\ h.switched <= now

MusicInv ==
    /\ OnlyAccepted
    /\ last \in Int
    /\ phase = "running" => \A i \in CueIds : Adaptive(i) => Listens(cues[i], heard[i], last)

LEMMA StateIsHeard == ASSUME NEW music, NEW audio PROVE Classify(music, audio) # NoEffect
  BY DEF Classify, NoEffect

LEMMA Confirming ==
    ASSUME NEW sel, NEW t \in Int, NEW candidate, NEW confirmation, candidate # NoEffect,
           sel.confirmed # NoEffect => sel.since \in Int
    PROVE  LET c == Confirm(sel, t, candidate, confirmation)
           IN  /\ c.pending = candidate /\ c.confirmed # NoEffect
               /\ c.since = t \/ (candidate = sel.pending /\ sel.confirmed # NoEffect /\ c.since = sel.since)
               /\ sel.confirmed # NoEffect /\ c.confirmed # sel.confirmed =>
                     c.confirmed = candidate /\ t - c.since >= confirmation
  BY DEF Confirm

LEMMA Evaluating ==
    ASSUME NEW sel, NEW t, NEW music, NEW effect, NEW transition, NEW audio
    PROVE  LET e == Evaluate(sel, t, music, effect, transition, audio)
               c == Confirm(sel, t, Classify(music, audio), audio.state_confirmation_seconds)
           IN  /\ e.pending = c.pending /\ e.confirmed = c.confirmed /\ e.since = c.since
               /\ \/ e.effect = sel.effect /\ e.switched = sel.switched /\ sel.effect # NoEffect
                  \/ e.switched = t /\ sel.effect = NoEffect
                  \/ /\ e.switched = t /\ e.effect # sel.effect
                     /\ ~GateActive(t, sel.switched, HoldSeconds(transition, audio))
                     /\ ~GateActive(t, sel.switched, CooldownSeconds(transition, audio))
  BY DEF Evaluate

LEMMA GateOpen ==
    ASSUME NEW t \in Int, NEW switched \in Nat, NEW seconds \in Nat, switched <= t,
           ~GateActive(t, switched, seconds)
    PROVE  t - switched >= seconds
  BY DEF GateActive, None

(* What a frame at time t does to an adaptive cue. *)
CalmStep(i, job, h, newJob, newHeard, t) ==
    /\ job.sel.confirmed # NoEffect /\ newJob.sel.confirmed # job.sel.confirmed =>
          /\ newHeard.state = newJob.sel.confirmed
          /\ t - newHeard.since >= AudioControl(i).state_confirmation_seconds
    /\ h.effect # NoEffect /\ newHeard.effect # h.effect =>
          /\ t - h.switched >= HoldSeconds(Transition(i), AudioControl(i))
          /\ t - h.switched >= CooldownSeconds(Transition(i), AudioControl(i))

LEMMA EffectOfWorker ==
    ASSUME NEW i, NEW effect, NEW name, Plays(effect, name), NEW sel, Adaptive(i)
    PROVE  Plays(EffectAfter(i, effect, sel), sel.effect)
<1> DEFINE instance == IF effect.name = sel.effect THEN effect ELSE NewEffect(sel.effect)
<1>1. instance = [name |-> sel.effect, processed |-> instance.processed]
  <2>1. CASE effect.name = sel.effect
    BY <2>1 DEF Plays
  <2>2. CASE effect.name # sel.effect
    BY <2>2 DEF NewEffect
  <2> QED
    BY <2>1, <2>2
<1>2. EffectAfter(i, effect, sel) = [instance EXCEPT !.processed = @ + 1]
  BY DEF EffectAfter
<1> HIDE DEF instance
<1> QED
  BY <1>1, <1>2 DEF Plays

LEMMA Rendering ==
    ASSUME NEW i, Len(Branches(i)) \in Nat, NEW job, NEW t, NEW input, NEW elapsed, Adaptive(i),
           Plays(job.workers[0].effect, job.sel.effect)
    PROVE  LET e == Evaluate(job.sel, t, input.music, Cue(i).effect, Transition(i), AudioControl(i))
               after == RenderJob(i, job, t, input, elapsed)
           IN  /\ after.sel = e
               /\ Plays(after.workers[0].effect, e.effect)
<1> DEFINE e == Evaluate(job.sel, t, input.music, Cue(i).effect, Transition(i), AudioControl(i))
<1> DEFINE after == RenderJob(i, job, t, input, elapsed)
<1>1. after.sel = e
  BY DEF RenderJob, SelectorAfter
<1>2. 0 \in Workers(i) /\ Renders(i, 0, t)
  BY DEF Workers, Renders
<1>3. after.workers[0] = RenderWorker(i, job.workers[0], e, job.clock, t, input, elapsed)
  BY <1>2 DEF RenderJob, SelectorAfter
<1>4. after.workers[0].effect = EffectAfter(i, job.workers[0].effect, e)
  BY <1>3 DEF RenderWorker
<1> HIDE DEF e
<1>5. Plays(EffectAfter(i, job.workers[0].effect, e), e.effect)
  BY EffectOfWorker
<1> QED
  BY <1>1, <1>4, <1>5 DEF e

LEMMA Listening ==
    ASSUME Accepted(doc), NEW i \in CueIds, Adaptive(i), NEW job, NEW h, NEW now \in Int, NEW t \in Nat,
           Listens(job, h, now), now = None \/ now < t, NEW input, NEW elapsed
    PROVE  LET after == RenderJob(i, job, t, input, elapsed)
               newHeard == Hear(h, i, t, input, after.workers[0].effect.name)
           IN  /\ Listens(after, newHeard, t)
               /\ CalmStep(i, job, h, after, newHeard, t)
<1> DEFINE e == Evaluate(job.sel, t, input.music, Cue(i).effect, Transition(i), AudioControl(i))
<1> DEFINE after == RenderJob(i, job, t, input, elapsed)
<1> DEFINE newHeard == Hear(h, i, t, input, after.workers[0].effect.name)
<1> DEFINE state == Classify(input.music, AudioControl(i))
<1> DEFINE conf == AudioControl(i).state_confirmation_seconds
<1> DEFINE c == Confirm(job.sel, t, state, conf)
<1>1. after.sel = e /\ Plays(after.workers[0].effect, e.effect)
  <2>0. Plays(job.workers[0].effect, job.sel.effect)
    BY DEF Listens
  <2>1. Len(Branches(i)) \in Nat
    BY TimesKnown
  <2> QED
    BY <2>0, <2>1, Rendering
<1>2. after.workers[0].effect.name = e.effect
  BY <1>1 DEF Plays
<1>3. /\ newHeard.state = state /\ newHeard.effect = e.effect
      /\ newHeard.since = IF state = h.state THEN h.since ELSE t
      /\ newHeard.switched = IF e.effect = h.effect THEN h.switched ELSE t
  BY <1>2 DEF Hear
<1>4. state # NoEffect
  BY StateIsHeard
<1>5. /\ c.pending = state /\ c.confirmed # NoEffect
      /\ c.since = t \/ (state = job.sel.pending /\ job.sel.confirmed # NoEffect /\ c.since = job.sel.since)
      /\ job.sel.confirmed # NoEffect /\ c.confirmed # job.sel.confirmed =>
            c.confirmed = state /\ t - c.since >= conf
  BY <1>4, Confirming DEF Listens
<1>6. /\ e.pending = c.pending /\ e.confirmed = c.confirmed /\ e.since = c.since
      /\ \/ e.effect = job.sel.effect /\ e.switched = job.sel.switched /\ job.sel.effect # NoEffect
         \/ e.switched = t /\ job.sel.effect = NoEffect
         \/ /\ e.switched = t /\ e.effect # job.sel.effect
            /\ ~GateActive(t, job.sel.switched, HoldSeconds(Transition(i), AudioControl(i)))
            /\ ~GateActive(t, job.sel.switched, CooldownSeconds(Transition(i), AudioControl(i)))
  BY Evaluating
<1>7. now < t
  BY DEF None
<1>8. /\ conf \in Nat /\ HoldSeconds(Transition(i), AudioControl(i)) \in Nat
      /\ CooldownSeconds(Transition(i), AudioControl(i)) \in Nat
  BY TimesKnown
<1> HIDE DEF e, after, newHeard, state, conf, c
<1>9. newHeard.since \in Int /\ c.since \in Int /\ newHeard.since <= c.since /\ newHeard.since <= t
  <2>1. CASE job.sel.confirmed = NoEffect
    <3>1. state # h.state /\ c.since = t
      BY <1>4, <1>5, <2>1 DEF Listens
    <3> QED
      BY <1>3, <3>1
  <2>2. CASE job.sel.confirmed # NoEffect
    <3>1. /\ h.since \in Int /\ job.sel.since \in Int /\ h.since <= job.sel.since /\ h.since <= now
          /\ h.state = job.sel.pending
      BY <2>2 DEF Listens
    <3>2. CASE state = h.state
      <4>1. newHeard.since = h.since
        BY <1>3, <3>2
      <4>2. c.since = t \/ c.since = job.sel.since
        BY <1>5
      <4> QED
        BY ONLY <1>7, <3>1, <4>1, <4>2, now \in Int, t \in Nat
    <3>3. CASE state # h.state
      <4>1. newHeard.since = t /\ c.since = t
        BY <1>3, <1>5, <3>1, <3>3
      <4> QED
        BY <4>1
    <3> QED
      BY <3>2, <3>3
  <2> QED
    BY <2>1, <2>2
<1>10. newHeard.effect # NoEffect =>
          e.switched = newHeard.switched /\ newHeard.switched \in Nat /\ newHeard.switched <= t
  <2> SUFFICES ASSUME e.effect # NoEffect
               PROVE  e.switched = newHeard.switched /\ newHeard.switched \in Nat /\ newHeard.switched <= t
    BY <1>3
  <2>1. CASE e.effect = job.sel.effect
    <3>1. e.effect = h.effect /\ job.sel.effect # NoEffect
      BY <2>1 DEF Listens
    <3>2. newHeard.switched = h.switched /\ e.switched = job.sel.switched
      BY <1>3, <1>6, <2>1, <3>1
    <3>3. job.sel.switched = h.switched /\ h.switched \in Nat /\ h.switched <= now
      BY <3>1 DEF Listens
    <3> QED
      BY <1>7, <3>2, <3>3
  <2>2. CASE e.effect # job.sel.effect
    <3>1. newHeard.switched = t
      BY <1>3, <2>2 DEF Listens
    <3>2. e.switched = t
      BY <1>6, <2>2
    <3> QED
      BY <3>1, <3>2
  <2> QED
    BY <2>1, <2>2
<1>11. Listens(after, newHeard, t)
  <2>1. newHeard.effect = after.sel.effect /\ newHeard.state = after.sel.pending
    BY <1>1, <1>3, <1>5, <1>6
  <2>2. after.sel.pending # NoEffect /\ after.sel.confirmed # NoEffect
    BY <1>1, <1>4, <1>5, <1>6
  <2>3. /\ newHeard.since \in Int /\ after.sel.since \in Int /\ newHeard.since <= after.sel.since
        /\ newHeard.since <= t
    BY <1>1, <1>6, <1>9
  <2>4. after.sel.effect # NoEffect =>
          after.sel.switched = newHeard.switched /\ newHeard.switched \in Nat /\ newHeard.switched <= t
    BY <1>1, <1>3, <1>10
  <2> QED
    BY <1>1, <2>1, <2>2, <2>3, <2>4 DEF Listens
<1>12. ASSUME job.sel.confirmed # NoEffect, after.sel.confirmed # job.sel.confirmed
       PROVE  newHeard.state = after.sel.confirmed /\ t - newHeard.since >= conf
  <2>1. c.confirmed = state /\ t - c.since >= conf
    BY <1>1, <1>5, <1>6, <1>12
  <2>2. t - newHeard.since >= conf
    BY <1>8, <1>9, <2>1
  <2> QED
    BY <1>1, <1>3, <1>6, <2>1, <2>2
<1>13. ASSUME h.effect # NoEffect, newHeard.effect # h.effect
       PROVE  /\ t - h.switched >= HoldSeconds(Transition(i), AudioControl(i))
              /\ t - h.switched >= CooldownSeconds(Transition(i), AudioControl(i))
  <2>1. /\ job.sel.switched = h.switched /\ h.switched \in Nat /\ h.switched <= now
        /\ h.effect = job.sel.effect
    BY <1>13 DEF Listens
  <2>2. e.effect # job.sel.effect /\ job.sel.effect # NoEffect
    BY <1>3, <1>13, <2>1
  <2>3. /\ ~GateActive(t, h.switched, HoldSeconds(Transition(i), AudioControl(i)))
        /\ ~GateActive(t, h.switched, CooldownSeconds(Transition(i), AudioControl(i)))
    BY <1>6, <2>1, <2>2
  <2>4. h.switched <= t
    BY <1>7, <2>1
  <2> QED
    BY <1>8, <2>1, <2>3, <2>4, GateOpen
<1>14. CalmStep(i, job, h, after, newHeard, t)
  BY <1>12, <1>13 DEF CalmStep, conf
<1> QED
  BY <1>11, <1>14 DEF after, newHeard

----------------------------------------------------------------------------
(* Frames *)

NewlyStarted == cues' = NewJobs /\ heard' = NothingHeard

LEMMA StartsUnheard ==
    ASSUME NEW i \in CueIds, Adaptive(i), Len(Branches(i)) \in Nat, NEW now
    PROVE  Listens(NewJobs[i], NothingHeard[i], now)
<1>1. 0 \in Workers(i)
  BY DEF Workers
<1>2. NewJobs[i].sel = NewSelector /\ NewJobs[i].workers[0] = NewWorker(i)
  BY <1>1 DEF NewJobs
<1>3. NewWorker(i).effect = NewEffect(NoEffect)
  BY DEF NewWorker
<1>4. NothingHeard[i] = [state |-> NoEffect, since |-> None, effect |-> NoEffect, switched |-> None]
  BY DEF NothingHeard
<1>5. Plays(NewEffect(NoEffect), NoEffect)
  BY DEF Plays, NewEffect
<1>6. NewSelector.effect = NoEffect /\ NewSelector.confirmed = NoEffect /\ NewSelector.pending = NoEffect
  BY DEF NewSelector
<1> QED
  BY <1>2, <1>3, <1>4, <1>5, <1>6 DEF Listens

(* What a frame leaves of a cue: it is played on, or it is as it was. *)
Played(t, input, elapsed) ==
    \A i \in CueIds :
        IF Active(i, t)
        THEN /\ cues'[i] = RenderJob(i, cues[i], t, input, elapsed)
             /\ heard'[i] = IF Adaptive(i) THEN Hear(heard[i], i, t, input, cues'[i].workers[0].effect.name)
                            ELSE heard[i]
        ELSE cues'[i] = cues[i] /\ heard'[i] = heard[i]

(* A step of a show that runs: a frame is drawn, or nothing is changed, or it *)
(* starts afresh.                                                            *)
LEMMA ShowSteps ==
    ASSUME [Next]_vars, phase = "running", phase' = "running", last \in Int
    PROVE  /\ doc' = doc
           /\ \/ UNCHANGED <<last, cues, heard>>
              \/ NewlyStarted /\ last' = None
              \/ \E t \in Nat, input \in Inputs, elapsed \in Nat :
                    last' = t /\ (last = None \/ last < t) /\ Played(t, input, elapsed)
<1>1. CASE UNCHANGED vars
  BY <1>1 DEF vars
<1>2. CASE Load \/ Construct
  BY <1>2 DEF Load, Construct
<1>3. CASE Reset
  BY <1>3 DEF Reset, NewlyStarted
<1>4. ASSUME NEW t \in Times, NEW input \in Inputs, Render(t, input)
      PROVE  /\ doc' = doc
             /\ \/ UNCHANGED <<last, cues, heard>>
                \/ \E u \in Nat, sound \in Inputs, elapsed \in Nat :
                      last' = u /\ (last = None \/ last < u) /\ Played(u, sound, elapsed)
  <2>1. t \in Nat
    BY <1>4, TimesAssumption DEF Times
  <2>2. CASE ~(InShow(t) /\ (last = None \/ t > last))
    BY <1>4, <2>2 DEF Render
  <2>3. CASE InShow(t) /\ (last = None \/ t > last)
    <3>1. Draw(t, input) /\ doc' = doc
      BY <1>4, <2>3 DEF Render
    <3> DEFINE elapsed == IF last = None THEN 1 ELSE t - last
    <3> DEFINE jobs == [i \in CueIds |-> IF Active(i, t) THEN RenderJob(i, cues[i], t, input, elapsed) ELSE cues[i]]
    <3>2. /\ last' = t /\ cues' = jobs
          /\ heard' = [i \in CueIds |-> IF Active(i, t) /\ Adaptive(i)
                                        THEN Hear(heard[i], i, t, input, jobs[i].workers[0].effect.name)
                                        ELSE heard[i]]
      BY <3>1 DEF Draw
    <3>3. elapsed \in Nat
      BY <2>1, <2>3
    <3> HIDE DEF elapsed
    <3>4. Played(t, input, elapsed)
      BY <3>2 DEF Played
    <3> QED
      BY <2>1, <2>3, <3>1, <3>2, <3>3, <3>4
  <2> QED
    BY <2>2, <2>3
<1> QED
  BY <1>1, <1>2, <1>3, <1>4 DEF Next

(* What a frame does to an adaptive cue, active or not. *)
LEMMA FrameHeard ==
    ASSUME Accepted(doc), NEW i \in CueIds, Adaptive(i), Listens(cues[i], heard[i], last), last \in Int,
           NEW t \in Nat, last = None \/ last < t, NEW input, NEW elapsed, Played(t, input, elapsed)
    PROVE  Listens(cues'[i], heard'[i], t) /\ CalmStep(i, cues[i], heard[i], cues'[i], heard'[i], t)
<1>1. CASE Active(i, t)
  <2>1. /\ cues'[i] = RenderJob(i, cues[i], t, input, elapsed)
        /\ heard'[i] = Hear(heard[i], i, t, input, cues'[i].workers[0].effect.name)
    BY <1>1 DEF Played
  <2> QED
    BY <2>1, Listening
<1>2. CASE ~Active(i, t)
  <2>1. cues'[i] = cues[i] /\ heard'[i] = heard[i]
    BY <1>2 DEF Played
  <2>2. last < t
    BY DEF None
  <2>3. Listens(cues[i], heard[i], t)
    BY <2>2 DEF Listens
  <2>4. CalmStep(i, cues[i], heard[i], cues[i], heard[i], t)
    BY DEF CalmStep
  <2> QED
    BY <2>1, <2>3, <2>4
<1> QED
  BY <1>1, <1>2

----------------------------------------------------------------------------
(* Adaptive cues follow the music calmly *)

LEMMA MusicStart == Init => MusicInv
  BY DEF Init, MusicInv, OnlyAccepted, None

LEMMA AcceptedStays == OnlyAccepted /\ [Next]_vars => OnlyAccepted'
<1> SUFFICES ASSUME OnlyAccepted, [Next]_vars, phase' \in {"accepted", "running"}
             PROVE  Accepted(doc)'
  BY DEF OnlyAccepted
<1>1. doc' = doc
  BY DEF Next, vars, Load, Construct, Render, Reset
<1>2. Accepted(doc)
  <2>1. CASE Load
    BY <2>1 DEF Load
  <2>2. CASE Construct
    BY <2>2 DEF Construct, OnlyAccepted
  <2>3. CASE Reset \/ \E t \in Times, input \in Inputs : Render(t, input)
    BY <2>3 DEF Reset, Render, OnlyAccepted
  <2>4. CASE UNCHANGED vars
    BY <2>4 DEF vars, OnlyAccepted
  <2> QED
    BY <2>1, <2>2, <2>3, <2>4 DEF Next
<1> QED
  BY <1>1, <1>2

LEMMA LastKnown == last \in Int /\ [Next]_vars => last' \in Int
<1> SUFFICES ASSUME last \in Int, [Next]_vars
             PROVE  last' \in Int
  OBVIOUS
<1>1. ASSUME NEW t \in Times, NEW input \in Inputs, Render(t, input)
      PROVE  last' \in Int
  <2>1. t \in Nat
    BY TimesAssumption DEF Times
  <2> QED
    BY <1>1, <2>1 DEF Render, Draw
<1>2. CASE Load \/ Construct \/ UNCHANGED vars
  BY <1>2 DEF Load, Construct, vars
<1>3. CASE Reset
  BY <1>3 DEF Reset, None
<1> QED
  BY <1>1, <1>2, <1>3 DEF Next

LEMMA MusicStep == MusicInv /\ [Next]_vars => MusicInv'
<1> SUFFICES ASSUME MusicInv, [Next]_vars
             PROVE  MusicInv'
  OBVIOUS
<1>1. OnlyAccepted' /\ last \in Int /\ last' \in Int
  BY AcceptedStays, LastKnown DEF MusicInv
<1>2. ASSUME phase' = "running", NEW i \in CueIds', Adaptive(i)'
      PROVE  Listens(cues'[i], heard'[i], last')
  <2>1. Accepted(doc) /\ doc' = doc
    <3>1. doc' = doc
      BY DEF Next, vars, Load, Construct, Render, Reset
    <3>2. Accepted(doc)'
      BY <1>1, <1>2 DEF OnlyAccepted
    <3> QED
      BY <3>1, <3>2
  <2>2. i \in CueIds /\ Adaptive(i)
    BY <1>2, <2>1 DEF CueIds, Adaptive, Cue, Show
  <2>3. Len(Branches(i)) \in Nat
    BY <2>1, <2>2, TimesKnown
  <2>4. NewlyStarted => Listens(cues'[i], heard'[i], last')
    BY <2>2, <2>3, StartsUnheard DEF NewlyStarted
  <2>5. CASE phase = "running"
    <3>1. Listens(cues[i], heard[i], last)
      BY <2>2, <2>5 DEF MusicInv
    <3>2. CASE UNCHANGED <<last, cues, heard>>
      BY <3>1, <3>2
    <3>3. ASSUME NEW t \in Nat, NEW input, NEW elapsed,
                 last' = t, last = None \/ last < t, Played(t, input, elapsed)
          PROVE  Listens(cues'[i], heard'[i], last')
      BY <2>1, <2>2, <3>1, <3>3, FrameHeard DEF MusicInv
    <3> QED
      BY <1>1, <1>2, <2>4, <2>5, <3>2, <3>3, ShowSteps
  <2>6. CASE phase # "running"
    <3>1. NewlyStarted
      BY <1>2, <2>6 DEF Next, vars, Load, Construct, Render, Reset, NewlyStarted
    <3> QED
      BY <2>4, <3>1
  <2> QED
    BY <2>5, <2>6
<1> QED
  BY <1>1, <1>2 DEF MusicInv

LEMMA ShowIsCalm ==
    ASSUME MusicInv, [Next]_vars, phase = "running", last' # None, NEW i \in CueIds
    PROVE  CalmStep(i, cues[i], heard[i], cues'[i], heard'[i], last')
<1>1. CASE UNCHANGED <<cues, heard>>
  BY <1>1 DEF CalmStep
<1>2. CASE phase' # "running"
  <2>1. UNCHANGED <<cues, heard>>
    BY <1>2 DEF Next, vars, Load, Construct, Render, Draw, Reset
  <2> QED
    BY <1>1, <2>1
<1>3. ASSUME NEW t \in Nat, NEW input, NEW elapsed,
             last' = t, last = None \/ last < t, Played(t, input, elapsed)
      PROVE  CalmStep(i, cues[i], heard[i], cues'[i], heard'[i], last')
  <2>1. CASE Adaptive(i)
    <3>1. Listens(cues[i], heard[i], last) /\ last \in Int /\ Accepted(doc)
      BY <2>1 DEF MusicInv, OnlyAccepted
    <3> QED
      BY <1>3, <2>1, <3>1, FrameHeard
  <2>2. CASE ~Adaptive(i)
    <3>1. RenderJob(i, cues[i], t, input, elapsed).sel = cues[i].sel
      BY <2>2 DEF RenderJob, SelectorAfter
    <3>2. cues'[i].sel = cues[i].sel /\ heard'[i] = heard[i]
      BY <1>3, <2>2, <3>1 DEF Played
    <3> QED
      BY <3>2 DEF CalmStep
  <2> QED
    BY <2>1, <2>2
<1>4. last \in Int
  BY DEF MusicInv
<1> QED
  BY <1>1, <1>2, <1>3, <1>4, ShowSteps

(* An adaptive cue confirms a state only after hearing it for its confirmation *)
(* time, and its effect changes only after the one that plays has been held   *)
(* (AdaptiveSelector.evaluate), for any documents, music and distance of the   *)
(* frames.                                                                    *)
THEOREM SelectorCalm == Spec => MusicSwitchesCalmly
<1>1. MusicInv /\ [Next]_vars =>
        [phase = "running" /\ last' # None => \A i \in CueIds : SwitchesCalmly(i)]_vars
  BY ShowIsCalm DEF SwitchesCalmly, CalmStep
<1>2. Spec => []MusicInv
  BY MusicStart, MusicStep, PTL DEF Spec
<1> QED
  BY <1>1, <1>2, PTL DEF Spec, MusicSwitchesCalmly

----------------------------------------------------------------------------
(* Branches of an accepted document *)

PathOf(i, w) == Branches(i)[w].after.virtual_path

(* The path a branch is released by, as the loader has checked it. *)
PathSound(id) ==
    /\ AuthoredPath(id) # {}
    /\ \A p \in AuthoredPath(id) : VirtualPathOk(PathsOf(Show)[p])

LEMMA AcceptedPaths ==
    ASSUME Accepted(doc)
    PROVE  /\ \A p \in DOMAIN PathsOf(Show) : VirtualPathOk(PathsOf(Show)[p])
           /\ \A i, j \in DOMAIN PathsOf(Show) : PathsOf(Show)[i].id = PathsOf(Show)[j].id => i = j
<1>1. Show = Get(doc, "show", Junk)
  BY DEF Accepted, Known, IsMap, Get, Show
<1>2. VirtualPathsOk(PathsOf(Show))
  BY <1>1 DEF Accepted
<1> QED
  BY <1>2 DEF VirtualPathsOk, Distinct

LEMMA AcceptedBranches ==
    ASSUME Accepted(doc), NEW i \in CueIds, NEW w \in DOMAIN Branches(i)
    PROVE  /\ Cue(i).effect.mode = "fixed"
           /\ BranchAnchored(Branches(i)[w], PathsOf(Show))
<1>1. Show = Get(doc, "show", Junk)
  BY DEF Accepted, Known, IsMap, Get, Show
<1> DEFINE version == Get(doc, "schema_version", Junk)
<1>2. /\ version \in {1, 2}
      /\ version = 2 => BranchesAnchored(Show.cues, PathsOf(Show))
      /\ \E duration, paths : CuesOk(Get(Show, "cues", Junk), version, duration, paths)
  BY <1>1 DEF Accepted, Choice
<1>3. PICK duration, paths : CuesOk(Get(Show, "cues", Junk), version, duration, paths)
  BY <1>2
<1> HIDE DEF version
<1>4. Get(Show, "cues", Junk) = Show.cues
  BY <1>3 DEF CuesOk, IsList, Get
<1>5. CueOk(Cue(i), version, duration, paths)
  BY <1>3, <1>4 DEF CuesOk, CueIds, Cue
<1>6. "branches" \in DOMAIN Cue(i)
  BY DEF Branches, Get
<1>7. version = 2
  <2>1. DOMAIN Cue(i) \subseteq CueFields(version)
    BY <1>5 DEF CueOk, Known
  <2>2. "branches" \notin CueFields(1)
    BY DEF CueFields
  <2> QED
    BY <1>2, <1>6, <2>1, <2>2
<1>8. BranchesAnchored(Show.cues, PathsOf(Show))
  BY <1>2, <1>7
<1>9. Branches(i) # <<>>
  OBVIOUS
<1> QED
  BY <1>8, <1>9 DEF BranchesAnchored, Branches, Cue, CueIds

LEMMA CueTimes ==
    ASSUME Accepted(doc), NEW i \in CueIds
    PROVE  Cue(i).start \in Nat /\ Cue(i).end \in Nat /\ Cue(i).start < Cue(i).end
<1>1. PICK version, duration, paths : CueOk(Cue(i), version, duration, paths)
  BY AcceptedShow
<1>2. Get(Cue(i), "start", Junk) \in Nat /\ Number(Get(Cue(i), "end", Junk), Cue(i).start + 1, duration)
  BY <1>1 DEF CueOk, Number
<1> QED
  BY <1>2, ValueAssumption DEF Get, Number

(* Along a path of parts that are not empty the cursor grows. *)
LEMMA CursorGrows ==
    ASSUME NEW parts, NEW n \in Nat, DOMAIN parts = 1..n, \A k \in 1..n : parts[k].pixels \in Nat \ {0}
    PROVE  /\ \A k \in 0..n : Cursor(parts)[k] \in Nat
           /\ \A k \in 1..n : Cursor(parts)[k - 1] < Cursor(parts)[k] /\ Cursor(parts)[k] <= Cursor(parts)[n]
<1> DEFINE Of(k) == {k} \X (1..parts[k].pixels)
<1> DEFINE First(m) == UNION {Of(k) : k \in 1..m}
<1>1. \A m \in 0..n : Cursor(parts)[m] = Cardinality(First(m))
  <2>1. {0} \cup DOMAIN parts = 0..n
    OBVIOUS
  <2> QED
    BY <2>1 DEF Cursor
<1>2. ASSUME NEW m \in 0..n
      PROVE  IsFiniteSet(First(m))
  <2> DEFINE S == {Of(k) : k \in 1..m}
  <2> DEFINE f == [k \in 1..m |-> Of(k)]
  <2>1. f \in Surjection(1..m, S)
    BY DEF Surjection
  <2>2. IsFiniteSet(1..m)
    BY FS_Interval
  <2>3. IsFiniteSet(S)
    <3> HIDE DEF f, S
    <3> QED
      BY <2>1, <2>2, FS_Surjection DEF ExistsSurjection
  <2>4. \A T \in S : IsFiniteSet(T)
    <3> SUFFICES ASSUME NEW k \in 1..m
                 PROVE  IsFiniteSet(Of(k))
      OBVIOUS
    <3>1. IsFiniteSet({k}) /\ IsFiniteSet(1..parts[k].pixels)
      <4>1. k \in 1..n
        OBVIOUS
      <4>2. PICK p \in Int : p = parts[k].pixels
        BY <4>1
      <4> QED
        <5>1. IsFiniteSet({k})
          BY FS_Singleton
        <5>2. IsFiniteSet(1..p)
          BY FS_Interval
        <5> QED
          BY <4>2, <5>1, <5>2
    <3> QED
      BY <3>1, FS_Product
  <2> QED
    BY <2>3, <2>4, FS_UNION
<1>3. \A m \in 0..n : Cardinality(First(m)) \in Nat
  BY <1>2, FS_CardinalityType
<1>4. ASSUME NEW k \in 0..n, NEW m \in 0..n, k <= m
      PROVE  First(k) \subseteq First(m)
  BY <1>4
<1>5. ASSUME NEW k \in 0..n, NEW m \in 0..n, k <= m
      PROVE  Cardinality(First(k)) <= Cardinality(First(m))
  BY <1>2, <1>4, <1>5, FS_Subset
<1>6. ASSUME NEW k \in 1..n
      PROVE  Cardinality(First(k - 1)) < Cardinality(First(k))
  <2>1. <<k, 1>> \in First(k)
    OBVIOUS
  <2>2. <<k, 1>> \notin First(k - 1)
    OBVIOUS
  <2>3. First(k - 1) \subseteq First(k) /\ First(k - 1) # First(k)
    BY <1>4, <2>1, <2>2
  <2>0. k - 1 \in 0..n /\ k \in 0..n
    OBVIOUS
  <2>4. Cardinality(First(k - 1)) \in Nat /\ Cardinality(First(k)) \in Nat /\ IsFiniteSet(First(k))
    BY <1>2, <1>3, <2>0
  <2> HIDE DEF First
  <2>5. Cardinality(First(k - 1)) <= Cardinality(First(k)) /\ Cardinality(First(k - 1)) # Cardinality(First(k))
    BY <2>3, <2>4, FS_Subset
  <2> QED
    BY <2>4, <2>5
<1> HIDE DEF First
<1> QED
  BY <1>1, <1>3, <1>5, <1>6

(* ReleaseProgress, by the pixels where a member begins and ends. *)
ReleaseAt(origin, start, end, total) ==
    CASE origin = "start" -> [num |-> end, den |-> total]
      [] origin = "end" -> [num |-> total - start, den |-> total]
      [] origin = "center" ->
            [num |-> Most(Magnitude(2 * start - total), Magnitude(2 * end - total)), den |-> total]
      [] OTHER -> IF 2 * start <= total /\ total <= 2 * end THEN [num |-> 1, den |-> 1]
                  ELSE [num |-> 2 * Least(end, total - start), den |-> total]

LEMMA LaidKnown ==
    ASSUME NEW origin, NEW n \in Nat, NEW c \in Nat
    PROVE  Laid(origin, n, c) \in Int
  BY DEF Laid, Least, Magnitude

(* Whatever part of a path is covered, and from wherever the sweep begins, it *)
(* is complete at the progress of its release, and not two pixels before.     *)
LEMMA SweepTime ==
    ASSUME NEW origin, NEW n \in Nat \ {0}, NEW a \in Nat, NEW b \in Nat, a < b, b <= n,
           NEW at, at = ReleaseAt(origin, a, b, n)
    PROVE  /\ \A c \in a..(b - 1) : (Laid(origin, n, c) + 1) * at.den <= n * at.num
           /\ \E c \in a..(b - 1) : n * at.num <= (Laid(origin, n, c) + 2) * at.den
<1> DEFINE Covered(num) ==
        /\ num \in Int
        /\ \A c \in a..(b - 1) : Laid(origin, n, c) + 1 <= num
        /\ \E c \in a..(b - 1) : num <= Laid(origin, n, c) + 2
<1>1. ASSUME at.den = n, Covered(at.num)
      PROVE  /\ \A c \in a..(b - 1) : (Laid(origin, n, c) + 1) * at.den <= n * at.num
             /\ \E c \in a..(b - 1) : n * at.num <= (Laid(origin, n, c) + 2) * at.den
  <2>0. PICK y \in Int : y = at.num
    BY <1>1
  <2>1. ASSUME NEW c \in a..(b - 1)
        PROVE  (Laid(origin, n, c) + 1) * at.den <= n * at.num
    <3>1. PICK x \in Int : x = Laid(origin, n, c) + 1
      BY LaidKnown
    <3>2. x <= y
      BY <1>1, <2>0, <3>1
    <3>3. x * n <= n * y
      BY ONLY <3>2, n \in Nat, x \in Int, y \in Int
    <3> QED
      BY <1>1, <2>0, <3>1, <3>3
  <2>2. PICK c \in a..(b - 1) : at.num <= Laid(origin, n, c) + 2
    BY <1>1
  <2>3. PICK x \in Int : x = Laid(origin, n, c) + 2
    BY LaidKnown
  <2>4. n * y <= x * n
    <3>1. y <= x
      BY <2>0, <2>2, <2>3
    <3> QED
      BY ONLY <3>1, n \in Nat, x \in Int, y \in Int
  <2>5. n * at.num <= (Laid(origin, n, c) + 2) * at.den
    BY <1>1, <2>0, <2>3, <2>4
  <2> QED
    BY <2>1, <2>5
<1> HIDE DEF Covered
<1>2. CASE origin = "start"
  <2>1. at = [num |-> b, den |-> n]
    BY <1>2 DEF ReleaseAt
  <2>2. \A c \in a..(b - 1) : Laid(origin, n, c) = c
    BY <1>2 DEF Laid
  <2>3. Covered(b)
    BY <2>2 DEF Covered
  <2> QED
    BY <1>1, <2>1, <2>3
<1>3. CASE origin = "end"
  <2>1. at = [num |-> n - a, den |-> n]
    BY <1>3 DEF ReleaseAt
  <2>2. \A c \in a..(b - 1) : Laid(origin, n, c) = n - 1 - c
    BY <1>3 DEF Laid
  <2>3. Covered(n - a)
    BY <2>2 DEF Covered
  <2> QED
    BY <1>1, <2>1, <2>3
<1>4. CASE origin = "center"
  <2> DEFINE num == Most(Magnitude(2 * a - n), Magnitude(2 * b - n))
  <2>1. at = [num |-> num, den |-> n]
    BY <1>4 DEF ReleaseAt
  <2>2. \A c \in a..(b - 1) : Laid(origin, n, c) = Least(n - 1, Magnitude(2 * c - (n - 1)))
    BY <1>4 DEF Laid
  <2>3. num \in Int /\ (num = Magnitude(2 * a - n) \/ num = Magnitude(2 * b - n))
        /\ Magnitude(2 * a - n) <= num /\ Magnitude(2 * b - n) <= num
    BY DEF Most, Magnitude
  <2> HIDE DEF num
  <2>4. \A c \in a..(b - 1) : Laid(origin, n, c) + 1 <= num
    BY <2>2, <2>3 DEF Least, Magnitude
  <2>5. \E c \in a..(b - 1) : num <= Laid(origin, n, c) + 2
    <3>1. CASE num = Magnitude(2 * a - n)
      <4>1. a \in a..(b - 1)
        OBVIOUS
      <4>2. num <= Laid(origin, n, a) + 2
        BY <2>2, <3>1, <4>1 DEF Least, Magnitude
      <4> QED
        BY <4>1, <4>2
    <3>2. CASE num = Magnitude(2 * b - n)
      <4>1. b - 1 \in a..(b - 1)
        OBVIOUS
      <4>2. num <= Laid(origin, n, b - 1) + 2
        BY <2>2, <3>2, <4>1 DEF Least, Magnitude
      <4> QED
        BY <4>1, <4>2
    <3> QED
      BY <2>3, <3>1, <3>2
  <2> QED
    BY <1>1, <2>1, <2>3, <2>4, <2>5 DEF Covered
<1>5. CASE origin \notin {"start", "end", "center"}
  <2>1. \A c \in a..(b - 1) : Laid(origin, n, c) = Least(n - 1, 2 * Least(c, n - 1 - c))
    BY <1>5 DEF Laid
  <2>2. CASE 2 * a <= n /\ n <= 2 * b
    <3>1. at = [num |-> 1, den |-> 1]
      BY <1>5, <2>2 DEF ReleaseAt
    <3>2. \A c \in a..(b - 1) : Laid(origin, n, c) + 1 <= n
      BY <2>1 DEF Least
    <3>3. \E c \in a..(b - 1) : n <= Laid(origin, n, c) + 2
      <4>1. PICK m \in a..(b - 1) : 2 * m <= n /\ n <= 2 * m + 2
        <5>1. CASE n <= 2 * a + 1
          BY <2>2, <5>1
        <5>2. CASE n > 2 * a + 1
          <6>1. PICK k \in Nat : n = 2 * k \/ n = 2 * k + 1
            <7>1. n = 2 * (n \div 2) \/ n = 2 * (n \div 2) + 1
              OBVIOUS
            <7>2. n \div 2 \in Nat
              OBVIOUS
            <7> QED
              BY <7>1, <7>2
          <6>2. CASE k <= b - 1
            BY <5>2, <6>1, <6>2
          <6>3. CASE k > b - 1
            BY <2>2, <5>2, <6>1, <6>3
          <6> QED
            BY <6>2, <6>3
        <5> QED
          BY <5>1, <5>2
      <4>2. n <= Laid(origin, n, m) + 2
        BY <2>1, <4>1 DEF Least
      <4> QED
        BY <4>2
    <3>4. \A c \in a..(b - 1) : Laid(origin, n, c) \in Int
      BY LaidKnown
    <3> QED
      BY <3>1, <3>2, <3>3, <3>4
  <2>3. CASE ~(2 * a <= n /\ n <= 2 * b)
    <3> DEFINE num == 2 * Least(b, n - a)
    <3>1. at = [num |-> num, den |-> n]
      BY <1>5, <2>3 DEF ReleaseAt
    <3>2. num \in Int /\ num <= 2 * b /\ num <= 2 * (n - a)
      BY DEF Least
    <3> HIDE DEF num
    <3>3. \A c \in a..(b - 1) : Laid(origin, n, c) + 1 <= num
      BY <2>1 DEF Least, num
    <3>4. \E c \in a..(b - 1) : num <= Laid(origin, n, c) + 2
      <4>1. CASE 2 * b < n
        <5>1. b - 1 \in a..(b - 1) /\ Laid(origin, n, b - 1) = 2 * (b - 1)
          BY <2>1, <4>1 DEF Least
        <5> QED
          BY <3>2, <5>1
      <4>2. CASE 2 * a > n
        <5>1. a \in a..(b - 1) /\ Laid(origin, n, a) = 2 * (n - 1 - a)
          BY <2>1, <4>2 DEF Least
        <5> QED
          BY <3>2, <5>1
      <4> QED
        BY <2>3, <4>1, <4>2
    <3> QED
      BY <1>1, <3>1, <3>2, <3>3, <3>4 DEF Covered
  <2> QED
    BY <2>2, <2>3
<1> QED
  BY <1>2, <1>3, <1>4, <1>5

ChosenPath(id) == PathsOf(Show)[CHOOSE p \in AuthoredPath(id) : TRUE]

LEMMA ChosenIsSound ==
    ASSUME Accepted(doc), NEW id, AuthoredPath(id) # {}
    PROVE  /\ ChosenPath(id).id = id /\ VirtualPathOk(ChosenPath(id))
           /\ PathTargets(id) = ChosenPath(id).targets
           /\ \A p \in AuthoredPath(id) : PathsOf(Show)[p] = ChosenPath(id)
<1> DEFINE chosen == CHOOSE p \in AuthoredPath(id) : TRUE
<1>1. chosen \in AuthoredPath(id)
  OBVIOUS
<1>2. \A p \in AuthoredPath(id) : p \in DOMAIN PathsOf(Show) /\ PathsOf(Show)[p].id = id
  BY DEF AuthoredPath
<1>3. \A p \in AuthoredPath(id) : p = chosen
  BY <1>1, <1>2, AcceptedPaths
<1> HIDE DEF chosen
<1>4. ChosenPath(id) = PathsOf(Show)[chosen]
  BY DEF ChosenPath, chosen
<1>5. PathTargets(id) = ChosenPath(id).targets
  BY DEF PathTargets, ChosenPath
<1> QED
  BY <1>1, <1>2, <1>3, <1>4, <1>5, AcceptedPaths

(* The members of a path, the part of the layout they stand for, none empty. *)
LEMMA PathMembers ==
    ASSUME Accepted(doc), NEW id, AuthoredPath(id) # {}
    PROVE  /\ Len(PathTargets(id)) \in Nat /\ DOMAIN PathTargets(id) = 1..Len(PathTargets(id))
           /\ DOMAIN Parts(id) = 1..Len(PathTargets(id))
           /\ Len(Parts(id)) = Len(PathTargets(id))
           /\ \A k \in DOMAIN Parts(id) : Parts(id)[k].pixels \in Nat \ {0}
<1> DEFINE targets == PathTargets(id)
<1>1. targets = Get(ChosenPath(id), "targets", Junk) /\ IsList(targets)
  <2>1. IsList(Get(ChosenPath(id), "targets", Junk))
    BY ChosenIsSound DEF VirtualPathOk
  <2>2. Get(ChosenPath(id), "targets", Junk) = ChosenPath(id).targets
    BY <2>1 DEF IsList, Get
  <2> QED
    BY <2>1, <2>2, ChosenIsSound
<1>2. \A k \in DOMAIN targets : /\ TargetOk(targets[k], 2, DOMAIN LayoutPaths)
                               /\ targets[k].type \in {"analog_zone", "digital_strip"}
  BY <1>1, ChosenIsSound DEF VirtualPathOk
<1>3. Len(targets) \in Nat /\ DOMAIN targets = 1..Len(targets)
  BY <1>1 DEF IsList
<1> HIDE DEF targets
<1>4. Parts(id) = [k \in DOMAIN targets |->
                      [light |-> targets[k].id,
                       pixels |-> IF targets[k].type = "digital_strip" THEN PixelCount[targets[k].id] ELSE 1]]
  BY DEF Parts, targets
<1>5. ASSUME NEW k \in DOMAIN targets
      PROVE  Parts(id)[k].pixels \in Nat \ {0}
  <2>1. CASE targets[k].type = "digital_strip"
    <3>1. OneId(targets[k], DOMAIN LayoutPaths)
      BY <1>2, <2>1 DEF TargetOk
    <3>2. targets[k].id \in Strips
      BY <2>1, <3>1 DEF OneId, Catalogue
    <3> QED
      BY <1>4, <2>1, <3>2, LayoutAssumption
  <2>2. CASE targets[k].type # "digital_strip"
    BY <1>4, <2>2
  <2> QED
    BY <2>1, <2>2
<1>6. Len(Parts(id)) = Len(targets)
  <2> DEFINE S == {Parts(id)[k] : k \in 1..Len(targets)}
  <2>1. Parts(id) \in [1..Len(targets) -> S]
    BY <1>3, <1>4
  <2>2. Parts(id) \in Seq(S)
    <3> HIDE DEF S
    <3> QED
      BY <1>3, <2>1
  <2> QED
    BY <1>3, <2>1, <2>2, LenProperties
<1> QED
  BY <1>3, <1>4, <1>5, <1>6 DEF targets

LEMMA MemberOfPath ==
    ASSUME Accepted(doc), NEW i \in CueIds, NEW w \in DOMAIN Branches(i)
    PROVE  /\ AuthoredPath(PathOf(i, w)) # {}
           /\ MemberOf(Branches(i)[w]) \in DOMAIN PathTargets(PathOf(i, w))
<1> DEFINE branch == Branches(i)[w]
<1>1. PICK p \in DOMAIN PathsOf(Show) :
          /\ PathsOf(Show)[p].id = branch.after.virtual_path
          /\ \E k \in DOMAIN PathsOf(Show)[p].targets : PathsOf(Show)[p].targets[k].id = branch.after.target
  BY AcceptedBranches DEF BranchAnchored
<1>2. p \in AuthoredPath(PathOf(i, w))
  BY <1>1 DEF AuthoredPath, PathOf
<1>3. PathTargets(PathOf(i, w)) = PathsOf(Show)[p].targets
  BY <1>2, ChosenIsSound
<1>4. \E k \in DOMAIN PathTargets(PathOf(i, w)) : PathTargets(PathOf(i, w))[k].id = branch.after.target
  BY <1>1, <1>3
<1> HIDE DEF branch
<1>5. MemberOf(branch) = CHOOSE k \in DOMAIN PathTargets(PathOf(i, w)) :
                            PathTargets(PathOf(i, w))[k].id = branch.after.target
  BY DEF MemberOf, PathOf, branch
<1> QED
  BY <1>2, <1>4, <1>5 DEF branch

LEMMA ReleasedAt ==
    ASSUME Accepted(doc), NEW i \in CueIds, NEW w \in DOMAIN Branches(i)
    PROVE  LET id == PathOf(i, w)
               along == Cursor(Parts(id))
               m == MemberOf(Branches(i)[w])
           IN  ReleaseProgress(Branches(i)[w])
                 = ReleaseAt(Get(ChosenPath(id), "origin", "start"), along[m - 1], along[m], along[Len(Parts(id))])
<1>1. ChosenPath(PathOf(i, w)).id = PathOf(i, w)
      /\ Len(ChosenPath(PathOf(i, w)).targets) = Len(Parts(PathOf(i, w)))
  BY MemberOfPath, ChosenIsSound, PathMembers
<1>2. PathOf(i, w) = Branches(i)[w].after.virtual_path
  BY DEF PathOf
<1> QED
  BY <1>1, <1>2 DEF ReleaseProgress, ReleaseAt, ChosenPath

(* Where the member that releases a branch lies on its path. *)
LEMMA MemberLies ==
    ASSUME Accepted(doc), NEW i \in CueIds, NEW w \in DOMAIN Branches(i)
    PROVE  LET along == Cursor(Parts(PathOf(i, w)))
               n == Len(Parts(PathOf(i, w)))
               m == MemberOf(Branches(i)[w])
           IN  /\ along[n] \in Nat \ {0} /\ along[m - 1] \in Nat /\ along[m] \in Nat
               /\ along[m - 1] < along[m] /\ along[m] <= along[n]
<1> DEFINE parts == Parts(PathOf(i, w))
<1> DEFINE m == MemberOf(Branches(i)[w])
<1>1. /\ Len(parts) \in Nat /\ DOMAIN parts = 1..Len(parts) /\ m \in 1..Len(parts)
      /\ \A k \in 1..Len(parts) : parts[k].pixels \in Nat \ {0}
  BY MemberOfPath, PathMembers
<1> HIDE DEF parts, m
<1>2. /\ \A k \in 0..Len(parts) : Cursor(parts)[k] \in Nat
      /\ \A k \in 1..Len(parts) : /\ Cursor(parts)[k - 1] < Cursor(parts)[k]
                                  /\ Cursor(parts)[k] <= Cursor(parts)[Len(parts)]
  BY <1>1, CursorGrows
<1>3. m \in 0..Len(parts) /\ m - 1 \in 0..Len(parts) /\ Len(parts) \in 0..Len(parts)
  BY <1>1
<1>4. /\ Cursor(parts)[m - 1] \in Nat /\ Cursor(parts)[m] \in Nat /\ Cursor(parts)[Len(parts)] \in Nat
      /\ Cursor(parts)[m - 1] < Cursor(parts)[m] /\ Cursor(parts)[m] <= Cursor(parts)[Len(parts)]
  BY <1>1, <1>2, <1>3
<1> QED
  BY <1>4 DEF parts, m

LEMMA ReleaseKnown ==
    ASSUME Accepted(doc), NEW i \in CueIds, NEW w \in DOMAIN Branches(i)
    PROVE  ReleaseProgress(Branches(i)[w]).num \in Int /\ ReleaseProgress(Branches(i)[w]).den \in Nat
<1> DEFINE along == Cursor(Parts(PathOf(i, w)))
<1> DEFINE m == MemberOf(Branches(i)[w])
<1>1. PICK a \in Nat, b \in Nat, n \in Nat :
          a = along[m - 1] /\ b = along[m] /\ n = along[Len(Parts(PathOf(i, w)))]
  BY MemberLies
<1>2. ReleaseProgress(Branches(i)[w]) = ReleaseAt(Get(ChosenPath(PathOf(i, w)), "origin", "start"), a, b, n)
  BY <1>1, ReleasedAt
<1>3. \A origin : ReleaseAt(origin, a, b, n).num \in Int /\ ReleaseAt(origin, a, b, n).den \in Nat
  BY DEF ReleaseAt, Most, Least, Magnitude
<1> QED
  BY <1>2, <1>3

(* What is released stays released. *)
LEMMA ReleaseStays ==
    ASSUME Accepted(doc), NEW i \in CueIds, NEW w \in DOMAIN Branches(i), NEW s \in Int, NEW t \in Int,
           s <= t, Released(i, w, s)
    PROVE  Released(i, w, t)
<1>1. PICK num \in Int, den \in Nat :
          num = ReleaseProgress(Branches(i)[w]).num /\ den = ReleaseProgress(Branches(i)[w]).den
  BY ReleaseKnown
<1>2. PICK from \in Nat, to \in Nat : from = Cue(i).start /\ to = Cue(i).end
  BY CueTimes
<1>3. (s - from) * den >= num * (to - from)
  BY <1>1, <1>2 DEF Released
<1>4. (s - from) * den <= (t - from) * den
  <2>1. PICK x \in Int, y \in Int : x = s - from /\ y = t - from
    OBVIOUS
  <2>2. x <= y
    BY <2>1
  <2>3. x * den <= y * den
    BY ONLY <2>2, den \in Nat, x \in Int, y \in Int
  <2> QED
    BY <2>1, <2>3
<1>5. PICK x \in Int, y \in Int, z \in Int :
          x = (s - from) * den /\ y = (t - from) * den /\ z = num * (to - from)
  OBVIOUS
<1>6. y >= z
  BY <1>3, <1>4, <1>5
<1> QED
  BY <1>1, <1>2, <1>5, <1>6 DEF Released

(* A cue that draws along the path of a branch is followed by it. *)
LEMMA SweepFollowed ==
    ASSUME Accepted(doc), NEW i \in CueIds, NEW w \in DOMAIN Branches(i), DrawsAlongPath(i, w)
    PROVE  FollowsSweep(i, w)
<1> DEFINE id == PathOf(i, w)
<1> DEFINE along == Cursor(Parts(id))
<1> DEFINE m == MemberOf(Branches(i)[w])
<1> DEFINE origin == Get(ChosenPath(id), "origin", "start")
<1> DEFINE at == ReleaseProgress(Branches(i)[w])
<1>1. id = Branches(i)[w].after.virtual_path
  BY DEF PathOf
<1>2. Cue(i).target.type = "virtual_path" /\ Cue(i).target.id = id /\ "origin" \notin DOMAIN Cue(i)
  BY <1>1 DEF DrawsAlongPath
<1>3. Canvas(Cue(i).target)[id] = along[Len(Parts(id))]
  BY <1>2 DEF Canvas
<1>4. OriginOf(i) = origin
  BY <1>2, MemberOfPath DEF OriginOf, ChosenPath
<1>5. PICK a \in Nat, b \in Nat, n \in Nat \ {0} :
          /\ a = along[m - 1] /\ b = along[m] /\ n = along[Len(Parts(id))]
          /\ a < b /\ b <= n
  BY MemberLies
<1>6. Span(Parts(id), m) = a..(b - 1)
  BY <1>5 DEF Span
<1>7. at = ReleaseAt(origin, a, b, n)
  BY <1>5, ReleasedAt
<1> HIDE DEF id, along, m, origin, at
<1>8. /\ \A c \in a..(b - 1) : (Laid(origin, n, c) + 1) * at.den <= n * at.num
      /\ \E c \in a..(b - 1) : n * at.num <= (Laid(origin, n, c) + 2) * at.den
  BY <1>5, <1>7, SweepTime
<1> DEFINE swept == {Laid(OriginOf(i), Canvas(Cue(i).target)[id], c) + 1 : c \in Span(Parts(id), m)}
<1>9. swept = {Laid(origin, n, c) + 1 : c \in a..(b - 1)}
  BY <1>3, <1>4, <1>5, <1>6
<1>10. \A pixels \in swept : pixels * at.den <= n * at.num
  BY <1>8, <1>9
<1>11. \E pixels \in swept : n * at.num <= (pixels + 1) * at.den
  <2>1. PICK c \in a..(b - 1) : n * at.num <= (Laid(origin, n, c) + 2) * at.den
    BY <1>8
  <2>2. Laid(origin, n, c) \in Int
    BY LaidKnown
  <2>3. (Laid(origin, n, c) + 1) + 1 = Laid(origin, n, c) + 2
    BY <2>2
  <2>4. Laid(origin, n, c) + 1 \in swept
    BY <1>9
  <2> HIDE DEF swept
  <2> QED
    BY <2>1, <2>3, <2>4
<1>12. Canvas(Cue(i).target)[id] = n
  BY <1>3, <1>5
<1> QED
  BY <1>1, <1>10, <1>11, <1>12 DEF FollowsSweep, at, m, id

----------------------------------------------------------------------------
(* A cue and its branches *)

PreRolls(i, w) == Get(Branches(i)[w], "lifecycle", "start_on_release") = "pre_roll"

(* InStep, for the state of any job of cue i. *)
Keeps(i, w, job) ==
    LET parent == job.workers[0]
        branch == job.workers[w]
        released == job.clock.at # None /\ Released(i, w, Cue(i).start + job.clock.at)
    IN  /\ PreRolls(i, w) => branch.effect.processed = parent.effect.processed
        /\ ~PreRolls(i, w) => (branch.effect.processed > 0 <=> released)
        /\ branch.effect.processed > 0 => branch.moved = parent.moved

WorkersKnown(i, job) ==
    \A w \in Workers(i) :
        LET effect == job.workers[w].effect
        IN  Plays(effect, effect.name) /\ effect.processed \in Nat

ClockKnown(i, job, now) ==
    job.clock.at = None \/ (job.clock.at \in Nat /\ Cue(i).start + job.clock.at <= now)

RunsInStep(i, job, now) ==
    /\ WorkersKnown(i, job)
    /\ ClockKnown(i, job, now)
    /\ \A w \in DOMAIN Branches(i) : Keeps(i, w, job)

BranchInv ==
    /\ OnlyAccepted
    /\ last \in Int
    /\ phase = "running" => \A i \in CueIds : DOMAIN Branches(i) # {} => RunsInStep(i, cues[i], last)

LEMMA BranchesKnown ==
    ASSUME Accepted(doc), NEW i \in CueIds
    PROVE  /\ 0 \in Workers(i)
           /\ \A w \in DOMAIN Branches(i) : w \in Workers(i) /\ w # 0
           /\ DOMAIN Branches(i) # {} => ~Adaptive(i)
<1>1. Len(Branches(i)) \in Nat /\ DOMAIN Branches(i) = 1..Len(Branches(i))
  BY TimesKnown
<1>2. ASSUME DOMAIN Branches(i) # {}
      PROVE  ~Adaptive(i)
  <2>1. PICK w \in DOMAIN Branches(i) : TRUE
    BY <1>2
  <2> QED
    BY <2>1, AcceptedBranches DEF Adaptive
<1> QED
  BY <1>1, <1>2 DEF Workers

LEMMA FixedEffectAfter ==
    ASSUME NEW i, ~Adaptive(i), NEW effect, NEW sel, Plays(effect, effect.name), effect.processed \in Nat
    PROVE  LET after == EffectAfter(i, effect, sel)
           IN  Plays(after, after.name) /\ after.processed = effect.processed + 1
<1>1. EffectAfter(i, effect, sel) = [effect EXCEPT !.processed = @ + 1]
  BY DEF EffectAfter
<1>2. PICK name, n : effect = [name |-> name, processed |-> n]
  BY DEF Plays
<1>3. EffectAfter(i, effect, sel) = [name |-> name, processed |-> n + 1]
  BY <1>1, <1>2
<1> QED
  BY <1>2, <1>3 DEF Plays

LEMMA AdvanceOnce ==
    ASSUME NEW clock, NEW time, NEW speed, NEW other
    PROVE  /\ Advance(clock, time, speed).at = time
           /\ Advance(Advance(clock, time, speed), time, other) = Advance(clock, time, speed)
  BY DEF Advance

(* What a frame makes of a cue with branches, worker by worker. *)
LEMMA WorkersAfter ==
    ASSUME Accepted(doc), NEW i \in CueIds, DOMAIN Branches(i) # {}, NEW job, WorkersKnown(i, job),
           NEW t, NEW input, NEW elapsed, NEW w \in Workers(i)
    PROVE  LET after == RenderJob(i, job, t, input, elapsed)
           IN  /\ after.clock.at = t - Cue(i).start
               /\ Plays(after.workers[w].effect, after.workers[w].effect.name)
               /\ IF Renders(i, w, t)
                  THEN /\ after.workers[w].effect.processed = job.workers[w].effect.processed + 1
                       /\ after.workers[w].moved = Interval(after.clock)
                  ELSE after.workers[w] = job.workers[w]
<1> DEFINE after == RenderJob(i, job, t, input, elapsed)
<1> DEFINE sel == SelectorAfter(i, job.sel, t, input)
<1> DEFINE speed == Speed(i, sel, NextLevels(i, job.workers[0].levels, input, elapsed))
<1> DEFINE clock == Advance(job.clock, t - Cue(i).start, speed)
<1> DEFINE rendered == RenderWorker(i, job.workers[w], sel, IF w = 0 THEN job.clock ELSE clock, t, input, elapsed)
<1>1. ~Adaptive(i)
  BY BranchesKnown
<1>2. /\ after.clock = clock
      /\ after.workers[w] = IF ~Renders(i, w, t) THEN job.workers[w] ELSE rendered
  BY DEF RenderJob
<1>3. rendered.effect = EffectAfter(i, job.workers[w].effect, sel)
  BY DEF RenderWorker
<1>4. rendered.moved = Interval(clock)
  <2>1. CASE w = 0
    BY <2>1 DEF RenderWorker
  <2>2. CASE w # 0
    <3>1. \A other : Advance(clock, t - Cue(i).start, other) = clock
      BY AdvanceOnce
    <3> QED
      BY <2>2, <3>1 DEF RenderWorker
  <2> QED
    BY <2>1, <2>2
<1>5. after.clock.at = t - Cue(i).start
  BY <1>2, AdvanceOnce
<1>6. Plays(job.workers[w].effect, job.workers[w].effect.name) /\ job.workers[w].effect.processed \in Nat
  BY DEF WorkersKnown
<1> HIDE DEF rendered, clock, speed, sel, after
<1>7. /\ Plays(rendered.effect, rendered.effect.name)
      /\ rendered.effect.processed = job.workers[w].effect.processed + 1
  BY <1>1, <1>3, <1>6, FixedEffectAfter
<1> QED
  BY <1>2, <1>4, <1>5, <1>6, <1>7 DEF after

LEMMA Stepping ==
    ASSUME Accepted(doc), NEW i \in CueIds, DOMAIN Branches(i) # {}, NEW job, NEW now \in Int,
           RunsInStep(i, job, now), NEW t \in Nat, now < t, Active(i, t), NEW input, NEW elapsed
    PROVE  RunsInStep(i, RenderJob(i, job, t, input, elapsed), t)
<1> DEFINE after == RenderJob(i, job, t, input, elapsed)
<1>1. Cue(i).start \in Nat /\ Cue(i).start <= t
  BY CueTimes DEF Active
<1>2. WorkersKnown(i, job) /\ ClockKnown(i, job, now) /\ 0 \in Workers(i) /\ Renders(i, 0, t)
  BY BranchesKnown DEF RunsInStep, Renders
<1>3. ASSUME NEW w \in Workers(i)
      PROVE  /\ after.clock.at = t - Cue(i).start
             /\ Plays(after.workers[w].effect, after.workers[w].effect.name)
             /\ IF Renders(i, w, t)
                THEN /\ after.workers[w].effect.processed = job.workers[w].effect.processed + 1
                     /\ after.workers[w].moved = Interval(after.clock)
                ELSE after.workers[w] = job.workers[w]
  BY <1>2, WorkersAfter
<1> HIDE DEF after
<1>4. \A w \in Workers(i) : job.workers[w].effect.processed \in Nat
  BY <1>2 DEF WorkersKnown
<1>5. WorkersKnown(i, after)
  <2> SUFFICES ASSUME NEW w \in Workers(i)
               PROVE  /\ Plays(after.workers[w].effect, after.workers[w].effect.name)
                      /\ after.workers[w].effect.processed \in Nat
    BY DEF WorkersKnown
  <2> QED
    BY <1>3, <1>4
<1>6. ClockKnown(i, after, t) /\ after.clock.at # None /\ Cue(i).start + after.clock.at = t
  <2>1. after.clock.at = t - Cue(i).start
    BY <1>2, <1>3
  <2> QED
    BY <1>1, <2>1 DEF ClockKnown, None
<1>7. ASSUME NEW w \in DOMAIN Branches(i)
      PROVE  Keeps(i, w, after)
  <2>1. w \in Workers(i) /\ w # 0
    BY BranchesKnown
  <2>2. Keeps(i, w, job)
    BY DEF RunsInStep
  <2>3. Renders(i, w, t) <=> PreRolls(i, w) \/ Released(i, w, t)
    BY <2>1 DEF Renders, PreRolls
  <2>4. /\ after.workers[0].effect.processed = job.workers[0].effect.processed + 1
        /\ after.workers[0].moved = Interval(after.clock)
    BY <1>2, <1>3
  <2>5. CASE Renders(i, w, t)
    <3>1. /\ after.workers[w].effect.processed = job.workers[w].effect.processed + 1
          /\ after.workers[w].moved = Interval(after.clock)
      BY <1>3, <2>1, <2>5
    <3>2. after.workers[w].effect.processed > 0
      BY <1>4, <2>1, <3>1
    <3>3. PreRolls(i, w) => after.workers[w].effect.processed = after.workers[0].effect.processed
      BY <2>2, <2>4, <3>1 DEF Keeps
    <3> QED
      BY <1>6, <2>3, <2>4, <2>5, <3>1, <3>2, <3>3 DEF Keeps
  <2>6. CASE ~Renders(i, w, t)
    <3>1. after.workers[w] = job.workers[w] /\ ~PreRolls(i, w) /\ ~Released(i, w, t)
      BY <1>3, <2>1, <2>3, <2>6
    <3>2. ~(job.clock.at # None /\ Released(i, w, Cue(i).start + job.clock.at))
      <4> SUFFICES ASSUME job.clock.at # None, Released(i, w, Cue(i).start + job.clock.at)
                   PROVE  FALSE
        OBVIOUS
      <4>1. PICK s \in Int : s = Cue(i).start + job.clock.at /\ s <= t
        BY <1>1, <1>2 DEF ClockKnown
      <4> QED
        BY <3>1, <4>1, ReleaseStays
    <3>3. ~(job.workers[w].effect.processed > 0)
      BY <2>2, <3>1, <3>2 DEF Keeps
    <3> QED
      BY <1>6, <3>1, <3>3 DEF Keeps
  <2> QED
    BY <2>5, <2>6
<1> QED
  BY <1>5, <1>6, <1>7 DEF RunsInStep, after

LEMMA SameRelease ==
    ASSUME doc' = doc, NEW branch
    PROVE  ReleaseProgress(branch)' = ReleaseProgress(branch)
<1>1. Show' = Show
  BY DEF Show
<1>2. PathsOf(Show)' = PathsOf(Show)
  BY <1>1 DEF PathsOf
<1>3. \A id : AuthoredPath(id)' = AuthoredPath(id)
  BY <1>2 DEF AuthoredPath
<1>4. \A id : ChosenPath(id)' = ChosenPath(id)
  BY <1>2, <1>3 DEF ChosenPath
<1>5. \A id : PathTargets(id)' = PathTargets(id)
  BY <1>2, <1>3 DEF PathTargets
<1>6. \A id : Parts(id)' = Parts(id)
  BY <1>3, <1>5 DEF Parts
<1>7. MemberOf(branch)' = MemberOf(branch)
  BY <1>5 DEF MemberOf
<1> QED
  BY <1>4, <1>6, <1>7 DEF ReleaseProgress, ChosenPath

LEMMA SameStep ==
    ASSUME doc' = doc, NEW i, RunsInStep(i, cues'[i], last')
    PROVE  RunsInStep(i, cues[i], last)'
<1>1. Cue(i)' = Cue(i) /\ Branches(i)' = Branches(i)
  BY DEF Branches, Cue, Show
<1>2. Workers(i)' = Workers(i)
  BY <1>1 DEF Workers
<1>3. WorkersKnown(i, cues[i])' /\ ClockKnown(i, cues[i], last)'
  BY <1>1, <1>2 DEF RunsInStep, WorkersKnown, ClockKnown
<1>4. ASSUME NEW w \in DOMAIN Branches(i)
      PROVE  Keeps(i, w, cues[i])'
  <2>1. ReleaseProgress(Branches(i)[w])' = ReleaseProgress(Branches(i)[w])
    <3>1. PICK branch : branch = Branches(i)[w]
      OBVIOUS
    <3>2. ReleaseProgress(branch)' = ReleaseProgress(branch)
      BY SameRelease
    <3> QED
      BY <1>1, <3>1, <3>2
  <2>2. \A t : Released(i, w, t)' <=> Released(i, w, t)
    BY <1>1, <2>1 DEF Released
  <2>3. PreRolls(i, w)' <=> PreRolls(i, w)
    BY <1>1 DEF PreRolls
  <2>4. Keeps(i, w, cues'[i])
    BY DEF RunsInStep
  <2> QED
    BY <1>1, <2>2, <2>3, <2>4 DEF Keeps
<1> QED
  BY <1>1, <1>3, <1>4 DEF RunsInStep

LEMMA StartsInStep ==
    ASSUME Accepted(doc), NEW i \in CueIds, NEW now
    PROVE  RunsInStep(i, NewJobs[i], now)
<1>1. NewJobs[i].clock.at = None
  BY DEF NewJobs, NewClock
<1>2. \A w \in Workers(i) : NewJobs[i].workers[w] = NewWorker(i)
  BY DEF NewJobs
<1>3. NewWorker(i).effect.processed = 0 /\ Plays(NewWorker(i).effect, NewWorker(i).effect.name)
  <2>1. \A name : NewEffect(name).processed = 0 /\ Plays(NewEffect(name), NewEffect(name).name)
    BY DEF NewEffect, Plays
  <2> QED
    BY <2>1 DEF NewWorker
<1>4. WorkersKnown(i, NewJobs[i])
  BY <1>2, <1>3 DEF WorkersKnown
<1>5. ASSUME NEW w \in DOMAIN Branches(i)
      PROVE  Keeps(i, w, NewJobs[i])
  <2>1. /\ NewJobs[i].workers[w].effect.processed = 0
        /\ NewJobs[i].workers[0].effect.processed = 0
    BY <1>2, <1>3, BranchesKnown
  <2> QED
    BY <1>1, <2>1 DEF Keeps
<1> QED
  BY <1>1, <1>4, <1>5 DEF RunsInStep, ClockKnown

LEMMA BranchStart == Init => BranchInv
  BY DEF Init, BranchInv, OnlyAccepted, None

LEMMA BranchStep == BranchInv /\ [Next]_vars => BranchInv'
<1> SUFFICES ASSUME BranchInv, [Next]_vars
             PROVE  BranchInv'
  OBVIOUS
<1>1. OnlyAccepted' /\ last \in Int /\ last' \in Int
  BY AcceptedStays, LastKnown DEF BranchInv
<1>2. ASSUME phase' = "running", NEW i \in CueIds', (DOMAIN Branches(i) # {})'
      PROVE  RunsInStep(i, cues[i], last)'
  <2>1. Accepted(doc) /\ doc' = doc
    <3>1. doc' = doc
      BY DEF Next, vars, Load, Construct, Render, Reset
    <3>2. Accepted(doc)'
      BY <1>1, <1>2 DEF OnlyAccepted
    <3> QED
      BY <3>1, <3>2
  <2>2. i \in CueIds /\ DOMAIN Branches(i) # {}
    BY <1>2, <2>1 DEF CueIds, Branches, Cue, Show
  <2>3. SUFFICES RunsInStep(i, cues'[i], last')
    BY <2>1, SameStep
  <2>4. NewlyStarted => RunsInStep(i, cues'[i], last')
    BY <2>1, <2>2, StartsInStep DEF NewlyStarted
  <2>5. CASE phase = "running"
    <3>1. RunsInStep(i, cues[i], last)
      BY <2>2, <2>5 DEF BranchInv
    <3>2. CASE UNCHANGED <<last, cues, heard>>
      BY <3>1, <3>2
    <3>3. ASSUME NEW t \in Nat, NEW input, NEW elapsed,
                 last' = t, last = None \/ last < t, Played(t, input, elapsed)
          PROVE  RunsInStep(i, cues'[i], last')
      <4>1. last \in Int /\ last < t
        BY <3>3 DEF BranchInv, None
      <4>2. CASE Active(i, t)
        <5>1. cues'[i] = RenderJob(i, cues[i], t, input, elapsed)
          BY <2>2, <3>3, <4>2 DEF Played
        <5> QED
          BY <2>1, <2>2, <3>1, <3>3, <4>1, <4>2, <5>1, Stepping
      <4>3. CASE ~Active(i, t)
        <5>1. cues'[i] = cues[i]
          BY <2>2, <3>3, <4>3 DEF Played
        <5>2. Cue(i).start \in Nat
          BY <2>1, <2>2, CueTimes
        <5>3. ClockKnown(i, cues[i], t)
          BY <3>1, <4>1, <5>2 DEF RunsInStep, ClockKnown
        <5> QED
          BY <3>1, <3>3, <5>1, <5>3 DEF RunsInStep
      <4> QED
        BY <4>2, <4>3
    <3> QED
      BY <1>1, <1>2, <2>4, <2>5, <3>2, <3>3, ShowSteps
  <2>6. CASE phase # "running"
    <3>1. NewlyStarted
      BY <1>2, <2>6 DEF Next, vars, Load, Construct, Render, Reset, NewlyStarted
    <3> QED
      BY <2>4, <3>1
  <2> QED
    BY <2>5, <2>6
<1> QED
  BY <1>1, <1>2 DEF BranchInv

(* Branches of every document that is accepted keep step with their cue: a    *)
(* pre_roll branch has processed the frames of its cue, another none before   *)
(* its release, both have moved with one motion clock (CueMotionClock), and   *)
(* the release follows the sweep (TargetResolver.release_progress).           *)
THEOREM BranchesKeepStep == Spec => []BranchesInStep
<1>1. BranchInv => BranchesInStep
  <2> SUFFICES ASSUME BranchInv, phase = "running", NEW i \in CueIds, NEW w \in DOMAIN Branches(i)
               PROVE  InStep(i, w) /\ (DrawsAlongPath(i, w) => FollowsSweep(i, w))
    BY DEF BranchesInStep
  <2>1. Accepted(doc) /\ Keeps(i, w, cues[i])
    BY DEF BranchInv, OnlyAccepted, RunsInStep
  <2> QED
    BY <2>1, SweepFollowed DEF Keeps, InStep, PreRolls
<1> QED
  BY <1>1, BranchStart, BranchStep, PTL DEF Spec


----------------------------------------------------------------------------
(* What the loader accepts the constructor can build                         *)

(* The paths a target of the show may name. *)
NamedPaths == DOMAIN LayoutPaths \cup {PathsOf(Show)[p].id : p \in DOMAIN PathsOf(Show)}

LEMMA AcceptedParts ==
    ASSUME Accepted(doc)
    PROVE  /\ \E version \in {1, 2} : \E duration :
                 \A i \in CueIds : CueOk(Cue(i), version, duration, NamedPaths)
           /\ \E duration : BrightnessTracksOk(Tracks, duration, NamedPaths)
<1>1. Show = Get(doc, "show", Junk)
  BY DEF Accepted, Known, IsMap, Get, Show
<1>2. PICK version, duration :
          version \in {1, 2} /\ CuesOk(Get(Show, "cues", Junk), version, duration, NamedPaths)
  <2>1. /\ Get(doc, "schema_version", Junk) \in {1, 2}
        /\ CuesOk(Get(Show, "cues", Junk), Get(doc, "schema_version", Junk), Show.duration, NamedPaths)
    BY <1>1 DEF Accepted, Choice, NamedPaths
  <2> QED
    BY <2>1
<1>3. Get(Show, "cues", Junk) = Show.cues
  BY <1>2 DEF CuesOk, IsList, Get
<1>4. \A i \in CueIds : CueOk(Cue(i), version, duration, NamedPaths)
  BY <1>2, <1>3 DEF CuesOk, CueIds, Cue
<1>5. \E span : BrightnessTracksOk(Tracks, span, NamedPaths)
  BY <1>1 DEF Accepted, NamedPaths, Tracks
<1> QED
  BY <1>2, <1>4, <1>5

LEMMA PathLights ==
    ASSUME Accepted(doc), NEW id \in NamedPaths
    PROVE  /\ AuthoredPath(id) # {} \/ id \in DOMAIN LayoutPaths
           /\ \A k \in DOMAIN Parts(id) : Parts(id)[k].light \in Lights
<1>1. CASE AuthoredPath(id) = {}
  <2>1. \A p \in DOMAIN PathsOf(Show) : PathsOf(Show)[p].id # id
    BY <1>1 DEF AuthoredPath
  <2>2. id \in DOMAIN LayoutPaths
    BY <2>1 DEF NamedPaths
  <2>3. Parts(id) = LayoutPaths[id]
    BY <1>1 DEF Parts
  <2> QED
    BY <2>2, <2>3, LayoutAssumption DEF Lights
<1>2. CASE AuthoredPath(id) # {}
  <2> DEFINE targets == PathTargets(id)
  <2>1. targets = Get(ChosenPath(id), "targets", Junk)
    <3>1. IsList(Get(ChosenPath(id), "targets", Junk))
      BY <1>2, ChosenIsSound DEF VirtualPathOk
    <3>2. Get(ChosenPath(id), "targets", Junk) = ChosenPath(id).targets
      BY <3>1 DEF IsList, Get
    <3> QED
      BY <1>2, <3>2, ChosenIsSound
  <2>2. \A k \in DOMAIN targets : /\ TargetOk(targets[k], 2, DOMAIN LayoutPaths)
                                 /\ targets[k].type \in {"analog_zone", "digital_strip"}
    BY <1>2, <2>1, ChosenIsSound DEF VirtualPathOk
  <2>3. Parts(id) = [k \in DOMAIN targets |->
                        [light |-> targets[k].id,
                         pixels |-> IF targets[k].type = "digital_strip" THEN PixelCount[targets[k].id] ELSE 1]]
    BY <1>2 DEF Parts
  <2> HIDE DEF targets
  <2>4. ASSUME NEW k \in DOMAIN targets
        PROVE  targets[k].id \in Lights
    <3>1. OneId(targets[k], DOMAIN LayoutPaths)
      BY <2>2 DEF TargetOk
    <3>2. targets[k].id \in Catalogue(targets[k].type, DOMAIN LayoutPaths)
      BY <3>1 DEF OneId
    <3>3. CASE targets[k].type = "analog_zone"
      BY <3>2, <3>3 DEF Catalogue, Lights
    <3>4. CASE targets[k].type = "digital_strip"
      BY <3>2, <3>4 DEF Catalogue, Lights
    <3> QED
      BY <2>2, <3>3, <3>4
  <2>5. \A k \in DOMAIN Parts(id) : Parts(id)[k].light = targets[k].id /\ k \in DOMAIN targets
    BY <2>3
  <2> QED
    BY <1>2, <2>4, <2>5
<1> QED
  BY <1>1, <1>2

(* Every target the loader lets pass resolves to lights of the layout. *)
LEMMA TargetsResolve ==
    ASSUME Accepted(doc), NEW version \in {1, 2}, NEW t, TargetOk(t, version, NamedPaths)
    PROVE  Resolvable(t)
<1>1. t.type \in V1Kinds \cup V2Kinds
  <2>1. Get(t, "type", Junk) # Junk /\ Get(t, "type", Junk) \in V1Kinds \cup V2Kinds
    BY DEF TargetOk, Choice
  <2> QED
    BY <2>1 DEF Get
<1>2. CASE t.type \in {"analog_zone", "digital_strip", "virtual_path"}
  <2>1. OneId(t, NamedPaths)
    BY <1>2 DEF TargetOk, GroupMembers
  <2>2. t.id \in Catalogue(t.type, NamedPaths)
    BY <2>1 DEF OneId
  <2>3. CASE t.type = "analog_zone"
    BY <2>2, <2>3 DEF Catalogue, Resolvable, Resolve, Lights
  <2>4. CASE t.type = "digital_strip"
    BY <2>2, <2>4 DEF Catalogue, Resolvable, Resolve, Lights
  <2>5. CASE t.type = "virtual_path"
    <3>1. t.id \in NamedPaths
      BY <2>2, <2>5 DEF Catalogue
    <3>2. Resolve(t) = {Parts(t.id)[k].light : k \in DOMAIN Parts(t.id)}
      BY <2>5 DEF Resolve
    <3> QED
      BY <3>1, <3>2, PathLights DEF Resolvable
  <2> QED
    BY <1>2, <2>3, <2>4, <2>5
<1>3. CASE t.type = "digital_set"
  <2>1. StripSet(t) \/ OneId(t, NamedPaths)
    BY <1>3 DEF TargetOk, GroupMembers
  <2>2. ~OneId(t, NamedPaths)
    BY <1>3 DEF OneId, Catalogue
  <2>3. Members(Get(t, "ids", Junk)) \subseteq Strips /\ IsList(Get(t, "ids", Junk))
    BY <2>1, <2>2 DEF StripSet
  <2>4. Get(t, "ids", <<>>) = Get(t, "ids", Junk)
    BY <2>3 DEF IsList, Get
  <2>5. Resolve(t) = Members(Get(t, "ids", <<>>))
    BY <1>3 DEF Resolve
  <2> QED
    BY <1>3, <2>3, <2>4, <2>5 DEF Resolvable, Lights
<1>4. CASE t.type \in {"analog_group", "digital_group"}
  <2>1. GroupMembers(t)
    BY <1>4 DEF TargetOk, OneId, Catalogue
  <2>2. Members(Get(t, "ids", <<>>)) \subseteq Lights
    BY <2>1 DEF GroupMembers, Get, Lights
  <2>3. Resolve(t) = Members(Get(t, "ids", <<>>))
    BY <1>4 DEF Resolve
  <2> QED
    BY <1>4, <2>2, <2>3 DEF Resolvable
<1>5. CASE t.type \in {"all_analog", "all_digital", "all"}
  <2>1. Resolve(t) \subseteq Lights
    BY <1>5 DEF Resolve, Lights
  <2> QED
    BY <1>5, <2>1 DEF Resolvable
<1> QED
  BY <1>1, <1>2, <1>3, <1>4, <1>5 DEF V1Kinds, V2Kinds

LEMMA TracksResolve ==
    ASSUME Accepted(doc), NEW k \in DOMAIN Tracks
    PROVE  Resolvable(Tracks[k].target)
<1>1. PICK duration : BrightnessTracksOk(Tracks, duration, NamedPaths)
  BY AcceptedParts
<1>2. TargetOk(Get(Tracks[k], "target", Junk), 2, NamedPaths)
  BY <1>1 DEF BrightnessTracksOk, BrightnessTrackOk
<1>3. Get(Tracks[k], "target", Junk) = Tracks[k].target
  BY <1>2 DEF TargetOk, Known, IsMap, Get
<1> QED
  BY <1>2, <1>3, TargetsResolve

(* The effect of a cue that is fixed, in the words of the runtime. *)
LEMMA FixedEffects ==
    ASSUME NEW version \in {1, 2}, NEW e, EffectOk(e, version), e.mode = "fixed"
    PROVE  EffectId(e) \in DOMAIN Registry /\ ParametersOk(ParamsOf(e), EffectId(e))
<1> DEFINE idKey == IF version = 2 THEN "id" ELSE "name"
<1> DEFINE paramsKey == IF version = 2 THEN "params" ELSE "parameters"
<1>1. FixedEffect(e, idKey, paramsKey)
  BY DEF EffectOk
<1>2. DOMAIN e \subseteq {"mode", idKey, paramsKey, "allowed", "fallback", "speed", "intensity"}
  BY DEF EffectOk, Known
<1>3. Get(e, idKey, Junk) # Junk /\ Get(e, idKey, Junk) \in DOMAIN Registry
  BY <1>1 DEF FixedEffect, EffectName, NonEmptyStr
<1>4. idKey \in DOMAIN e /\ e[idKey] \in DOMAIN Registry
  BY <1>3 DEF Get
<1>5. CASE version = 2
  <2>1. EffectId(e) = e[idKey]
    BY <1>4, <1>5 DEF EffectId, Get
  <2>2. ParamsOf(e) = Get(e, paramsKey, <<>>)
    BY <1>2, <1>5 DEF ParamsOf, Get
  <2> QED
    BY <1>1, <1>4, <2>1, <2>2 DEF FixedEffect
<1>6. CASE version = 1
  <2>1. EffectId(e) = e[idKey]
    BY <1>2, <1>4, <1>6 DEF EffectId, Get
  <2>2. ParamsOf(e) = Get(e, paramsKey, <<>>)
    BY <1>2, <1>6 DEF ParamsOf, Get
  <2> QED
    BY <1>1, <1>4, <2>1, <2>2 DEF FixedEffect
<1> QED
  BY <1>5, <1>6

LEMMA BranchesBuild ==
    ASSUME Accepted(doc), NEW i \in CueIds, NEW w \in DOMAIN Branches(i)
    PROVE  BranchBuilds(Branches(i)[w])
<1> DEFINE branch == Branches(i)[w]
<1>1. PICK version, duration : version \in {1, 2} /\ CueOk(Cue(i), version, duration, NamedPaths)
  BY AcceptedParts
<1>2. Branches(i) = Cue(i).branches /\ w \in DOMAIN Get(Cue(i), "branches", <<>>)
  BY DEF Branches, Get
<1>3. BranchOk(branch, NamedPaths)
  BY <1>1, <1>2 DEF CueOk
<1>4. TargetOk(Get(branch, "target", Junk), 2, NamedPaths)
  BY <1>3 DEF BranchOk
<1>5. Get(branch, "target", Junk) = branch.target
  BY <1>4 DEF TargetOk, Known, IsMap, Get
<1>6. Resolvable(branch.target)
  BY <1>4, <1>5, TargetsResolve
<1>7. PICK p \in DOMAIN PathsOf(Show) :
          /\ PathsOf(Show)[p].id = branch.after.virtual_path
          /\ \E k \in DOMAIN PathsOf(Show)[p].targets : PathsOf(Show)[p].targets[k].id = branch.after.target
  BY AcceptedBranches DEF BranchAnchored
<1>8. p \in AuthoredPath(branch.after.virtual_path)
  BY <1>7 DEF AuthoredPath
<1>9. PathTargets(branch.after.virtual_path) = PathsOf(Show)[p].targets
  BY <1>8, ChosenIsSound
<1> HIDE DEF branch
<1>10. BranchBuilds(branch)
  BY <1>6, <1>7, <1>8, <1>9 DEF BranchBuilds
<1> QED
  BY <1>10 DEF branch

LEMMA JobsBuild ==
    ASSUME Accepted(doc), NEW i \in CueIds
    PROVE  JobBuilds(i)
<1> DEFINE c == Cue(i)
<1> DEFINE e == c.effect
<1>1. PICK version, duration : version \in {1, 2} /\ CueOk(c, version, duration, NamedPaths)
  BY AcceptedParts
<1>2. Resolvable(c.target)
  <2>1. TargetOk(Get(c, "target", Junk), version, NamedPaths)
    BY <1>1 DEF CueOk
  <2>2. Get(c, "target", Junk) = c.target
    BY <2>1 DEF TargetOk, Known, IsMap, Get
  <2> QED
    BY <1>1, <2>1, <2>2, TargetsResolve
<1>3. EffectOk(e, version)
  <2>1. EffectOk(Get(c, "effect", Junk), version)
    BY <1>1 DEF CueOk
  <2>2. Get(c, "effect", Junk) = c.effect
    BY <2>1 DEF EffectOk, Known, IsMap, Get
  <2> QED
    BY <2>1, <2>2
<1>4. e.mode = "fixed" => EffectId(e) \in DOMAIN Registry
  BY <1>1, <1>3, FixedEffects
<1>5. /\ "parameter_modulation" \in DOMAIN c => ParameterModulationOk(c.parameter_modulation, e)
      /\ "color_source" \in DOMAIN c => ColorSourceOk(c.color_source, e)
  BY <1>1 DEF CueOk
<1>6. e.mode = "adaptive" => "fallback" \in DOMAIN e
  <2> SUFFICES ASSUME e.mode = "adaptive", "fallback" \notin DOMAIN e
               PROVE  FALSE
    OBVIOUS
  <2>1. PICK idKey, paramsKey : AdaptiveEffect(e, idKey, paramsKey)
    BY <1>3 DEF EffectOk
  <2>2. Get(e, "fallback", Junk) # Junk
    BY <2>1 DEF AdaptiveEffect, EffectName, NonEmptyStr
  <2> QED
    BY <2>2 DEF Get
<1>7. e.mode = "adaptive" => {"parameter_modulation", "color_source"} \cap DOMAIN c = {}
  BY <1>5 DEF ParameterModulationOk, ColorSourceOk
<1>8. ModulatorBuilds(i)
  <2> SUFFICES ASSUME "parameter_modulation" \in DOMAIN c
               PROVE  /\ Bindings(i) # <<>>
                      /\ \A b \in DOMAIN Bindings(i) :
                            LET binding == Bindings(i)[b]
                            IN  /\ binding.target \in Approved(EffectId(e)) \ CommonControls
                                /\ binding.mode \in {"modulate", "drive"}
                                /\ binding.mode = "modulate" => binding.target \in DOMAIN ParamsOf(e)
                      /\ Distinct([b \in DOMAIN Bindings(i) |-> Bindings(i)[b].target])
    BY DEF ModulatorBuilds
  <2>1. Bindings(i) = c.parameter_modulation
    BY DEF Bindings, Get
  <2>2. ParameterModulationOk(Bindings(i), e)
    BY <1>5, <2>1
  <2> QED
    BY <2>2 DEF ParameterModulationOk, BindingOk, Choice
<1>9. "color_source" \in DOMAIN c =>
         /\ Registry[EffectId(e)].support # "NOT_APPLICABLE"
         /\ c.color_source.type \in PaletteSources => Palette(c.color_source, "palette")
         /\ c.color_source.type \in LiveSources => "fallback" \in DOMAIN c.color_source
  <2> SUFFICES ASSUME "color_source" \in DOMAIN c
               PROVE  /\ Registry[EffectId(e)].support # "NOT_APPLICABLE"
                      /\ c.color_source.type \in PaletteSources => Palette(c.color_source, "palette")
                      /\ c.color_source.type \in LiveSources => "fallback" \in DOMAIN c.color_source
    OBVIOUS
  <2>1. ColorSourceOk(c.color_source, e)
    BY <1>5
  <2>2. c.color_source.type \in LiveSources => Get(c.color_source, "fallback", Junk) # Junk
    BY <2>1 DEF ColorSourceOk, RgbColor, IsList
  <2> QED
    BY <2>1, <2>2 DEF ColorSourceOk, Get
<1>10. \A w \in DOMAIN Branches(i) : BranchBuilds(Branches(i)[w])
  BY BranchesBuild
<1> QED
  BY <1>2, <1>4, <1>6, <1>7, <1>8, <1>9, <1>10 DEF JobBuilds

LEMMA AcceptedBuilds ==
    ASSUME Accepted(doc)
    PROVE  Builds \/ TracksOverlap
  BY TracksResolve, JobsBuild DEF Builds

----------------------------------------------------------------------------
(* What a binding yields                                                     *)

LEMMA Clamped ==
    ASSUME NEW v \in Int, NEW least \in Int, NEW most \in Int, least <= most
    PROVE  Clamp(v, least, most) \in least..most
  BY DEF Clamp, Most, Least

LEMMA ClampedLevel == ASSUME NEW v \in Int PROVE Clamp(v, 0, One) \in 0..One
  BY ValueAssumption DEF Clamp, Most, Least

(* The bindings of a cue, as the loader and the registry leave them. *)
Bound(b) ==
    /\ b.output_min \in Int /\ b.output_max \in Int /\ b.output_min <= b.output_max
    /\ b.mode \in {"modulate", "drive"}
    /\ "fallback" \in DOMAIN b => b.fallback \in b.output_min..b.output_max
    /\ b.mode = "drive" /\ b.source # "cue_progress" => "fallback" \in DOMAIN b
    /\ Get(b, "smoothing_seconds", 0) \in Nat
    /\ b.source \in SourcesOfRaw => /\ b.input_min \in Int /\ b.input_max \in Int
                                    /\ b.input_min < b.input_max

LEMMA BindingsBound ==
    ASSUME NEW b, NEW e, BindingOk(b, e)
    PROVE  Bound(b)
<1>1. Get(b, "smoothing_seconds", 0) \in Nat
  <2>1. Number(Get(b, "smoothing_seconds", 0), 0, Huge)
    BY DEF BindingOk
  <2> QED
    BY <2>1 DEF Number
<1>2. OutputRangeOk(b) /\ InputRangeOk(b)
  BY DEF BindingOk
<1>3. b.mode \in {"modulate", "drive"}
  BY DEF BindingOk, Choice
<1>4. /\ b.output_min \in Int /\ b.output_max \in Int /\ b.output_min <= b.output_max
      /\ "fallback" \in DOMAIN b => b.fallback \in b.output_min..b.output_max
      /\ b.mode = "drive" /\ b.source # "cue_progress" => "fallback" \in DOMAIN b
  BY <1>2 DEF OutputRangeOk, Number
<1>5. b.source \in SourcesOfRaw =>
         b.input_min \in Int /\ b.input_max \in Int /\ b.input_min < b.input_max
  BY <1>2 DEF InputRangeOk, Number
<1> QED
  BY <1>1, <1>3, <1>4, <1>5 DEF Bound

(* A quotient is a number. *)
LEMMA Quotient ==
    ASSUME NEW a \in Int, NEW b \in Int, b > 0
    PROVE  a \div b \in Int
  OBVIOUS

LEMMA SourceInRange ==
    ASSUME Accepted(doc), NEW i \in CueIds, NEW b, Bound(b), NEW t \in Int, NEW input \in Inputs
    PROVE  /\ SourceValue(i, b, t, input) \in (0..One) \cup {None}
           /\ b.source = "cue_progress" => SourceValue(i, b, t, input) \in 0..One
<1>1. One \in Int /\ 0 <= One /\ input.level \in 0..One
  BY ValueAssumption, InputsAssumption
<1>2. CueProgress(i, t) \in 0..One
  <2>1. PICK start \in Int, end \in Int : start = Cue(i).start /\ end = Cue(i).end /\ start < end
    BY CueTimes
  <2>2. (One * (t - start)) \div (end - start) \in Int
    <3>1. One * (t - start) \in Int /\ end - start \in Int /\ end - start > 0
      BY ONLY <2>1, <1>1, t \in Int
    <3> QED
      BY <3>1, Quotient
  <2>3. PICK quotient \in Int : quotient = (One * (t - start)) \div (end - start)
    BY <2>2
  <2>4. CueProgress(i, t) = Clamp(quotient, 0, One)
    BY <2>1, <2>3 DEF CueProgress
  <2> QED
    BY <2>4, ClampedLevel
<1>3. b.source \in SourcesOfRaw =>
         Clamp((One * (input.level - b.input_min)) \div (b.input_max - b.input_min), 0, One) \in 0..One
  <2> SUFFICES ASSUME b.source \in SourcesOfRaw
               PROVE  Clamp((One * (input.level - b.input_min)) \div (b.input_max - b.input_min), 0, One) \in 0..One
    OBVIOUS
  <2>1. PICK from \in Int, to \in Int : from = b.input_min /\ to = b.input_max /\ from < to
    BY DEF Bound
  <2>2. PICK level \in Int : level = input.level
    BY <1>1
  <2>3. One * (level - from) \in Int /\ to - from \in Int /\ to - from > 0
    BY ONLY <2>1, <2>2, <1>1
  <2>4. (One * (level - from)) \div (to - from) \in Int
    BY <2>3, Quotient
  <2>5. PICK quotient \in Int : quotient = (One * (level - from)) \div (to - from)
    BY <2>4
  <2>6. quotient = (One * (input.level - b.input_min)) \div (b.input_max - b.input_min)
    BY <2>1, <2>2, <2>5
  <2>7. Clamp(quotient, 0, One) \in 0..One
    BY ClampedLevel
  <2> QED
    BY ONLY <2>6, <2>7
<1> QED
  BY <1>1, <1>2, <1>3 DEF SourceValue

(* What a worker holds of a binding: nothing yet, nothing to read, or a number. *)
LEMMA OutputInRange ==
    ASSUME Accepted(doc), NEW i \in CueIds, NEW b, Bound(b), NEW before, before \in Int \/ before = Absent,
           NEW t \in Int, NEW input \in Inputs, NEW elapsed \in Nat
    PROVE  LET after == NextOutput(i, b, before, t, input, elapsed)
           IN  \/ after \in b.output_min..b.output_max
               \/ after = Absent /\ b.mode = "modulate" /\ "fallback" \notin DOMAIN b
<1> DEFINE value == SourceValue(i, b, t, input)
<1> DEFINE goal == IF value = None THEN Get(b, "fallback", Absent)
                   ELSE b.output_min + ((b.output_max - b.output_min) * value) \div One
<1>1. value \in (0..One) \cup {None} /\ (b.source = "cue_progress" => value \in 0..One)
  BY SourceInRange
<1>2. None \notin 0..One /\ One \in Int /\ One > 0 /\ Absent \notin Int
  BY ValueAssumption DEF None, Absent
<1>3. PICK least \in Int, most \in Int : least = b.output_min /\ most = b.output_max /\ least <= most
  BY DEF Bound
<1> HIDE DEF value
<1>4. goal \in Int \/ (goal = Absent /\ b.mode = "modulate" /\ "fallback" \notin DOMAIN b)
  <2>1. CASE value = None
    <3>1. b.source # "cue_progress"
      BY <1>1, <1>2, <2>1
    <3>2. goal = Get(b, "fallback", Absent)
      BY <2>1
    <3>3. CASE "fallback" \in DOMAIN b
      <4>1. b.fallback \in least..most
        BY <1>3, <3>3 DEF Bound
      <4>2. goal = b.fallback
        BY <3>2, <3>3 DEF Get
      <4>3. b.fallback \in Int
        BY <4>1
      <4> HIDE DEF goal
      <4> QED
        BY <4>2, <4>3
    <3>4. CASE "fallback" \notin DOMAIN b
      BY <3>1, <3>2, <3>4 DEF Get, Bound
    <3> QED
      BY <3>3, <3>4
  <2>2. CASE value # None
    <3>1. PICK v \in Int : v = value
      BY <1>1, <2>2
    <3>2. (most - least) * v \in Int
      BY ONLY <1>3, <3>1
    <3>3. ((most - least) * v) \div One \in Int
      BY <1>2, <3>2, Quotient
    <3>4. least + ((most - least) * v) \div One \in Int
      BY <3>3
    <3>5. goal = least + ((most - least) * v) \div One
      BY <1>3, <2>2, <3>1
    <3> HIDE DEF goal
    <3> QED
      BY <3>4, <3>5
  <2> QED
    BY <2>1, <2>2
<1>5. NextOutput(i, b, before, t, input, elapsed)
        = IF goal = Absent THEN Absent ELSE SmoothOutput(b, before, goal, elapsed)
  BY DEF NextOutput, value
<1> HIDE DEF goal
<1>6. ASSUME goal \in Int
      PROVE  SmoothOutput(b, before, goal, elapsed) \in least..most
  <2> DEFINE initial == IF b.mode = "modulate" THEN One ELSE Get(b, "fallback", goal)
  <2> DEFINE from == IF before = Absent THEN initial ELSE before
  <2>1. PICK smoothing \in Nat : smoothing = Get(b, "smoothing_seconds", 0)
    BY DEF Bound
  <2>2. initial \in Int
    BY <1>2, <1>3, <1>6 DEF Get, Bound
  <2>3. from \in Int
    BY <2>2
  <2> HIDE DEF from
  <2>4. smoothing # 0 => from + ((goal - from) * elapsed) \div (elapsed + smoothing) \in Int
    <3> SUFFICES ASSUME smoothing # 0
                 PROVE  from + ((goal - from) * elapsed) \div (elapsed + smoothing) \in Int
      OBVIOUS
    <3>1. (goal - from) * elapsed \in Int /\ elapsed + smoothing \in Int /\ elapsed + smoothing > 0
      BY ONLY <1>6, <2>3, elapsed \in Nat, smoothing \in Nat, smoothing # 0
    <3>2. ((goal - from) * elapsed) \div (elapsed + smoothing) \in Int
      BY <3>1, Quotient
    <3> QED
      BY <2>3, <3>2
  <2>5. SmoothOutput(b, before, goal, elapsed)
          = Clamp(IF smoothing = 0 THEN goal
                  ELSE from + ((goal - from) * elapsed) \div (elapsed + smoothing), least, most)
    BY <1>3, <2>1 DEF SmoothOutput, from
  <2>6. PICK aim \in Int : aim = IF smoothing = 0 THEN goal
                                ELSE from + ((goal - from) * elapsed) \div (elapsed + smoothing)
    BY <1>6, <2>4
  <2>7. SmoothOutput(b, before, goal, elapsed) = Clamp(aim, least, most)
    BY <2>5, <2>6
  <2>8. Clamp(aim, least, most) \in least..most
    BY ONLY <1>3, aim \in Int, least \in Int, most \in Int, Clamped
  <2> QED
    BY <2>7, <2>8
<1> QED
  BY <1>2, <1>3, <1>4, <1>5, <1>6

----------------------------------------------------------------------------
(* The loader tries the ends of the ranges, and that is enough               *)

(* What binding b makes of an output x. *)
Made(params, b, x) == IF b.mode = "modulate" THEN (params[b.target] * x) \div One ELSE x

(* The parameters an effect is handed, one by one. *)
HandedOn(params, bindings, outputs, handed) ==
    /\ DOMAIN handed = DOMAIN params \cup {bindings[b].target : b \in DOMAIN bindings}
    /\ \A b \in DOMAIN bindings : handed[bindings[b].target] = Made(params, bindings[b], outputs[b])
    /\ \A p \in DOMAIN handed :
          (\A b \in DOMAIN bindings : bindings[b].target # p) =>
             p \in DOMAIN params /\ handed[p] = params[p]

LEMMA ModulatedAt ==
    ASSUME NEW params, NEW bindings, NEW outputs,
           Distinct([b \in DOMAIN bindings |-> bindings[b].target])
    PROVE  HandedOn(params, bindings, outputs, Modulated(params, bindings, outputs))
<1> DEFINE handed == Modulated(params, bindings, outputs)
<1>1. DOMAIN handed = DOMAIN params \cup {bindings[b].target : b \in DOMAIN bindings}
  BY DEF Modulated
<1>2. ASSUME NEW b \in DOMAIN bindings
      PROVE  handed[bindings[b].target] = Made(params, bindings[b], outputs[b])
  <2> DEFINE chosen == CHOOSE i \in DOMAIN bindings : bindings[i].target = bindings[b].target
  <2>1. chosen \in DOMAIN bindings /\ bindings[chosen].target = bindings[b].target
    OBVIOUS
  <2> HIDE DEF chosen
  <2>2. \A i, j \in DOMAIN bindings : bindings[i].target = bindings[j].target => i = j
    BY DEF Distinct
  <2>3. chosen = b
    BY <2>1, <2>2
  <2>4. handed[bindings[b].target]
          = IF bindings[chosen].mode = "modulate"
            THEN (params[bindings[b].target] * outputs[chosen]) \div One ELSE outputs[chosen]
    BY DEF Modulated, chosen
  <2> QED
    BY <2>3, <2>4 DEF Made
<1>3. ASSUME NEW p \in DOMAIN handed, \A b \in DOMAIN bindings : bindings[b].target # p
      PROVE  p \in DOMAIN params /\ handed[p] = params[p]
  BY <1>1, <1>3 DEF Modulated
<1> QED
  BY <1>1, <1>2, <1>3 DEF HandedOn

(* A quotient grows with its dividend. *)
LEMMA QuotientGrows ==
    ASSUME NEW a \in Int, NEW b \in Int, NEW d \in Int, d > 0, a <= b
    PROVE  a \div d <= b \div d
  OBVIOUS

(* Between two outputs a binding makes what lies between what it makes of them. *)
LEMMA MadeBetween ==
    ASSUME NEW c \in Int, NEW least \in Int, NEW x \in Int, NEW most \in Int, least <= x, x <= most
    PROVE  /\ (c * least) \div One \in Int /\ (c * x) \div One \in Int /\ (c * most) \div One \in Int
           /\ \/ /\ (c * least) \div One <= (c * x) \div One
                 /\ (c * x) \div One <= (c * most) \div One
              \/ /\ (c * most) \div One <= (c * x) \div One
                 /\ (c * x) \div One <= (c * least) \div One
<1>1. One \in Int /\ One > 0
  BY ValueAssumption
<1>2. PICK a \in Int, m \in Int, z \in Int : a = c * least /\ m = c * x /\ z = c * most
  OBVIOUS
<1>3. (a <= m /\ m <= z) \/ (z <= m /\ m <= a)
  <2>1. CASE c >= 0
    <3>1. c * least <= c * x
      BY ONLY <2>1, c \in Int, least \in Int, x \in Int, least <= x
    <3>2. c * x <= c * most
      BY ONLY <2>1, c \in Int, most \in Int, x \in Int, x <= most
    <3> QED
      BY <1>2, <3>1, <3>2
  <2>2. CASE c < 0
    <3>1. c * x <= c * least
      BY ONLY <2>2, c \in Int, least \in Int, x \in Int, least <= x
    <3>2. c * most <= c * x
      BY ONLY <2>2, c \in Int, most \in Int, x \in Int, x <= most
    <3> QED
      BY <1>2, <3>1, <3>2
  <2> QED
    BY <2>1, <2>2
<1>4. a \div One \in Int /\ m \div One \in Int /\ z \div One \in Int
  BY <1>1, Quotient
<1>5. \/ a \div One <= m \div One /\ m \div One <= z \div One
      \/ z \div One <= m \div One /\ m \div One <= a \div One
  BY <1>1, <1>3, QuotientGrows
<1> QED
  BY ONLY <1>2, <1>4, <1>5

(* What a binding may hand on while a cue runs. *)
Yields(b, x) == x \in b.output_min..b.output_max \/ x \in BindingOutputs(b)

(* Whatever a binding yields, it lies between two outputs that were tried. *)
LEMMA TriedAround ==
    ASSUME NEW params, NEW b, Bound(b), b.mode = "modulate" => params[b.target] \in Int,
           NEW x, Yields(b, x)
    PROVE  /\ Made(params, b, x) \in Int
           /\ \E low \in BindingOutputs(b) : Made(params, b, low) <= Made(params, b, x)
           /\ \E high \in BindingOutputs(b) : Made(params, b, x) <= Made(params, b, high)
<1>1. PICK least \in Int, most \in Int : least = b.output_min /\ most = b.output_max /\ least <= most
  BY DEF Bound
<1>2. One \in Int /\ One > 0
  BY ValueAssumption
<1>3. least \in BindingOutputs(b) /\ most \in BindingOutputs(b)
  BY <1>1 DEF BindingOutputs
<1>4. BindingOutputs(b) \subseteq Int
  BY <1>1, <1>2 DEF BindingOutputs, Bound
<1>5. x \in Int
  BY <1>1, <1>4 DEF Yields
<1>6. \A y \in Int : Made(params, b, y) \in Int
  <2>1. CASE b.mode = "modulate"
    <3>1. PICK c \in Int : c = params[b.target]
      BY <2>1
    <3>2. \A y \in Int : (c * y) \div One \in Int
      BY <1>2, <3>1, Quotient
    <3> QED
      BY <2>1, <3>1, <3>2 DEF Made
  <2>2. CASE b.mode # "modulate"
    BY <2>2 DEF Made
  <2> QED
    BY <2>1, <2>2
<1>7. CASE x \in BindingOutputs(b)
  BY <1>5, <1>6, <1>7
<1>8. CASE x \in least..most
  <2>1. CASE b.mode = "modulate"
    <3>1. PICK c \in Int : c = params[b.target]
      BY <2>1
    <3>2. \/ /\ (c * least) \div One <= (c * x) \div One
             /\ (c * x) \div One <= (c * most) \div One
          \/ /\ (c * most) \div One <= (c * x) \div One
             /\ (c * x) \div One <= (c * least) \div One
      <4>1. least <= x /\ x <= most
        BY <1>5, <1>8
      <4> QED
        BY <1>5, <4>1, MadeBetween, Zenon
    <3>3. \A y : Made(params, b, y) = (c * y) \div One
      BY <2>1, <3>1 DEF Made
    <3>4. \/ /\ Made(params, b, least) <= Made(params, b, x)
             /\ Made(params, b, x) <= Made(params, b, most)
          \/ /\ Made(params, b, most) <= Made(params, b, x)
             /\ Made(params, b, x) <= Made(params, b, least)
      BY ONLY <3>2, <3>3
    <3> QED
      BY <1>3, <1>5, <1>6, <3>4
  <2>2. CASE b.mode # "modulate"
    <3>1. \A y : Made(params, b, y) = y
      BY <2>2 DEF Made
    <3> QED
      BY <1>3, <1>5, <1>8, <3>1
  <2> QED
    BY <2>1, <2>2
<1> QED
  BY <1>1, <1>7, <1>8 DEF Yields

LEMMA Present == ASSUME NEW r, NEW p \in DOMAIN r, NEW default PROVE Get(r, p, default) = r[p]
  BY DEF Get

LEMMA SameRead ==
    ASSUME NEW r, NEW s, NEW p, NEW default,
           p \in DOMAIN r <=> p \in DOMAIN s, p \in DOMAIN r => r[p] = s[p]
    PROVE  Get(r, p, default) = Get(s, p, default)
  BY DEF Get

(* The validator passes everything the bindings can yield. *)
LEMMA CornersSuffice ==
    ASSUME NEW e, EffectId(e) \in DOMAIN Registry, ParametersOk(ParamsOf(e), EffectId(e)),
           NEW bindings, ParameterModulationOk(bindings, e),
           NEW outputs, \A b \in DOMAIN bindings : Yields(bindings[b], outputs[b])
    PROVE  ValidParams(EffectId(e), Modulated(ParamsOf(e), bindings, outputs))
<1> DEFINE effect == EffectId(e)
<1> DEFINE params == ParamsOf(e)
<1> DEFINE Handed(o) == Modulated(params, bindings, o)
<1> DEFINE Tried(b) == BindingOutputs(bindings[b])
<1> DEFINE At(b, x) == Made(params, bindings[b], x)
<1> DEFINE Specs == Registry[effect].specs
<1>1. Distinct([b \in DOMAIN bindings |-> bindings[b].target])
  BY DEF ParameterModulationOk
<1>2. \A b \in DOMAIN bindings :
         /\ Bound(bindings[b]) /\ bindings[b].target \in Approved(effect)
         /\ bindings[b].mode = "modulate" => bindings[b].target \in DOMAIN params
  <2> SUFFICES ASSUME NEW b \in DOMAIN bindings
               PROVE  /\ Bound(bindings[b]) /\ bindings[b].target \in Approved(effect)
                      /\ bindings[b].mode = "modulate" => bindings[b].target \in DOMAIN params
    OBVIOUS
  <2>1. BindingOk(bindings[b], e)
    BY DEF ParameterModulationOk
  <2> QED
    BY <2>1, BindingsBound DEF BindingOk
<1>3. /\ \A p \in DOMAIN Specs : SpecOk(p, Specs[p])
      /\ \A rule \in Registry[effect].ordered :
            /\ \A p \in {rule.low, rule.high} : p \in DOMAIN Specs /\ Specs[p].kind \in {"float", "integer"}
            /\ rule.low # rule.high
            /\ rule.low_default \in Int /\ rule.high_default \in Int
  BY RegistryAssumption DEF Registers
<1>4. DOMAIN params \subseteq DOMAIN Specs /\ ValidParams(effect, params)
  BY DEF ParametersOk, Known
<1>5. \A p \in DOMAIN Specs : \A v :
         /\ Specs[p].kind \in {"float", "integer"} /\ ValueOk(Specs[p], v) => v \in Int
         /\ Specs[p].kind = "float" =>
               (ValueOk(Specs[p], v) <=> v \in Specs[p].minimum..Specs[p].maximum)
         /\ Specs[p].minimum \in Int /\ Specs[p].maximum \in Int
  <2> SUFFICES ASSUME NEW p \in DOMAIN Specs, NEW v
               PROVE  /\ Specs[p].kind \in {"float", "integer"} /\ ValueOk(Specs[p], v) => v \in Int
                      /\ Specs[p].kind = "float" =>
                            (ValueOk(Specs[p], v) <=> v \in Specs[p].minimum..Specs[p].maximum)
                      /\ Specs[p].minimum \in Int /\ Specs[p].maximum \in Int
    OBVIOUS
  <2>1. Specs[p].minimum \in Int /\ Specs[p].maximum \in Int
    BY <1>3 DEF SpecOk
  <2>2. Specs[p].kind = "float" => (ValueOk(Specs[p], v) <=> v \in Specs[p].minimum..Specs[p].maximum)
    BY DEF ValueOk, Number
  <2>3. Specs[p].kind = "integer" => (ValueOk(Specs[p], v) => v \in Specs[p].minimum..Specs[p].maximum)
    BY DEF ValueOk, Number
  <2> QED
    BY <2>1, <2>2, <2>3
<1>6. \A b \in DOMAIN bindings : /\ bindings[b].target \in DOMAIN Specs
                                /\ Specs[bindings[b].target].kind = "float"
  BY <1>2 DEF Approved
<1>7. \A p \in DOMAIN params : ValueOk(Specs[p], params[p])
  BY <1>4 DEF ValidParams
<1>8. ASSUME NEW b \in DOMAIN bindings
      PROVE  /\ At(b, outputs[b]) \in Int
             /\ \E x \in Tried(b) : At(b, x) <= At(b, outputs[b])
             /\ \E x \in Tried(b) : At(b, outputs[b]) <= At(b, x)
  <2>1. bindings[b].mode = "modulate" => params[bindings[b].target] \in Int
    BY <1>2, <1>5, <1>6, <1>7
  <2>2. Bound(bindings[b]) /\ Yields(bindings[b], outputs[b])
    BY <1>2
  <2> HIDE DEF params
  <2> QED
    BY <2>1, <2>2, TriedAround
<1> HIDE DEF params, effect
<1> DEFINE lows == [b \in DOMAIN bindings |-> CHOOSE x \in Tried(b) : At(b, x) <= At(b, outputs[b])]
<1> DEFINE highs == [b \in DOMAIN bindings |-> CHOOSE x \in Tried(b) : At(b, outputs[b]) <= At(b, x)]
<1>9. \A b \in DOMAIN bindings :
         /\ lows[b] \in Tried(b) /\ At(b, lows[b]) <= At(b, outputs[b])
         /\ highs[b] \in Tried(b) /\ At(b, outputs[b]) <= At(b, highs[b])
  BY <1>8
<1> HIDE DEF lows, highs
<1> DEFINE Mix(q) == [b \in DOMAIN bindings |-> IF bindings[b].target = q THEN highs[b] ELSE lows[b]]
<1> DEFINE Tops == [b \in DOMAIN bindings |-> highs[b]]
<1> DEFINE Bottoms == [b \in DOMAIN bindings |-> lows[b]]
<1>10. /\ \A q : ValidParams(effect, Handed(Mix(q)))
       /\ ValidParams(effect, Handed(Tops)) /\ ValidParams(effect, Handed(Bottoms))
  <2> DEFINE Every == UNION {BindingOutputs(bindings[b]) : b \in DOMAIN bindings}
  <2>1. \A o \in [DOMAIN bindings -> Every] :
           (\A b \in DOMAIN bindings : o[b] \in Tried(b)) => ValidParams(effect, Handed(o))
    BY DEF ParameterModulationOk, OutputCombinationsOk, params, effect
  <2>2. \A b \in DOMAIN bindings : Tried(b) \subseteq Every
    OBVIOUS
  <2> HIDE DEF Every
  <2>3. \A q : Mix(q) \in [DOMAIN bindings -> Every] /\ \A b \in DOMAIN bindings : Mix(q)[b] \in Tried(b)
    BY <1>9, <2>2
  <2>4. /\ Tops \in [DOMAIN bindings -> Every] /\ \A b \in DOMAIN bindings : Tops[b] \in Tried(b)
        /\ Bottoms \in [DOMAIN bindings -> Every] /\ \A b \in DOMAIN bindings : Bottoms[b] \in Tried(b)
    BY <1>9, <2>2
  <2> QED
    BY <2>1, <2>3, <2>4
<1> DEFINE Targets == {bindings[b].target : b \in DOMAIN bindings}
<1>11. \A o : /\ DOMAIN Handed(o) = DOMAIN params \cup Targets
              /\ \A b \in DOMAIN bindings : Handed(o)[bindings[b].target] = At(b, o[b])
              /\ \A p : p \notin Targets =>
                    /\ p \in DOMAIN Handed(o) <=> p \in DOMAIN params
                    /\ p \in DOMAIN Handed(o) => Handed(o)[p] = params[p]
  <2> SUFFICES ASSUME NEW o
               PROVE  /\ DOMAIN Handed(o) = DOMAIN params \cup Targets
                      /\ \A b \in DOMAIN bindings : Handed(o)[bindings[b].target] = At(b, o[b])
                      /\ \A p : p \notin Targets =>
                            /\ p \in DOMAIN Handed(o) <=> p \in DOMAIN params
                            /\ p \in DOMAIN Handed(o) => Handed(o)[p] = params[p]
    OBVIOUS
  <2>1. HandedOn(params, bindings, o, Handed(o))
    BY <1>1, ModulatedAt
  <2>2. \A p : p \notin Targets => \A b \in DOMAIN bindings : bindings[b].target # p
    OBVIOUS
  <2> HIDE DEF Handed
  <2> QED
    BY <2>1, <2>2 DEF HandedOn
<1>12. ASSUME NEW p \in DOMAIN Handed(outputs)
       PROVE  ValueOk(Specs[p], Handed(outputs)[p])
  <2>1. CASE p \in Targets
    <3>1. PICK b \in DOMAIN bindings : bindings[b].target = p
      BY <2>1
    <3>2. /\ Handed(outputs)[p] = At(b, outputs[b])
          /\ Handed(Tops)[p] = At(b, highs[b]) /\ Handed(Bottoms)[p] = At(b, lows[b])
      BY <1>11, <3>1
    <3>3. ValueOk(Specs[p], At(b, highs[b])) /\ ValueOk(Specs[p], At(b, lows[b]))
      <4>1. p \in DOMAIN Handed(Tops) /\ p \in DOMAIN Handed(Bottoms)
        BY <1>11, <2>1
      <4> QED
        BY <1>10, <3>2, <4>1 DEF ValidParams
    <3>4. /\ At(b, lows[b]) <= At(b, outputs[b]) /\ At(b, outputs[b]) <= At(b, highs[b])
          /\ At(b, outputs[b]) \in Int
      BY <1>8, <1>9, <3>1
    <3>5. /\ p \in DOMAIN Specs /\ Specs[p].kind = "float"
      BY <1>6, <3>1
    <3> HIDE DEF At, Handed
    <3>6. /\ At(b, lows[b]) \in Specs[p].minimum..Specs[p].maximum
          /\ At(b, highs[b]) \in Specs[p].minimum..Specs[p].maximum
          /\ Specs[p].minimum \in Int /\ Specs[p].maximum \in Int
      BY <1>5, <3>3, <3>5
    <3>7. At(b, outputs[b]) \in Specs[p].minimum..Specs[p].maximum
      BY ONLY <3>4, <3>6
    <3> QED
      BY <1>5, <3>2, <3>5, <3>7
  <2>2. CASE p \notin Targets
    BY <1>7, <1>11, <2>2
  <2> QED
    BY <2>1, <2>2
<1>13. ASSUME NEW rule \in Registry[effect].ordered
       PROVE  Get(Handed(outputs), rule.low, rule.low_default) <= Get(Handed(outputs), rule.high, rule.high_default)
  <2> DEFINE mix == Mix(rule.low)
  <2> DEFINE Low(o) == Get(Handed(o), rule.low, rule.low_default)
  <2> DEFINE High(o) == Get(Handed(o), rule.high, rule.high_default)
  <2>1. Low(mix) <= High(mix)
    BY <1>10 DEF ValidParams
  <2>2. \A p \in {rule.low, rule.high} : p \in DOMAIN Specs /\ Specs[p].kind \in {"float", "integer"}
    BY <1>3
  <2>3. Low(outputs) \in Int /\ Low(mix) \in Int /\ High(outputs) \in Int /\ High(mix) \in Int
    <3>1. \A p \in {rule.low, rule.high} :
             /\ p \in DOMAIN Handed(outputs) => Handed(outputs)[p] \in Int
             /\ p \in DOMAIN Handed(mix) => Handed(mix)[p] \in Int
      <4>1. \A p \in DOMAIN Handed(mix) : ValueOk(Specs[p], Handed(mix)[p])
        BY <1>10 DEF ValidParams
      <4> HIDE DEF Handed, mix
      <4> QED
        BY <1>5, <1>12, <2>2, <4>1
    <3>2. rule.low_default \in Int /\ rule.high_default \in Int
      BY <1>3
    <3> QED
      BY <3>1, <3>2 DEF Get
  <2>4. Low(outputs) <= Low(mix)
    <3>1. CASE rule.low \in Targets
      <4>1. PICK b \in DOMAIN bindings : bindings[b].target = rule.low
        BY <3>1
      <4>2. mix[b] = highs[b]
        BY <4>1
      <4>3. \A o : rule.low \in DOMAIN Handed(o) /\ Handed(o)[rule.low] = At(b, o[b])
        BY <1>11, <3>1, <4>1
      <4>4. \A o : Low(o) = At(b, o[b])
        BY <4>3, Present
      <4> QED
        BY <1>9, <4>2, <4>4
    <3>2. CASE rule.low \notin Targets
      <4>1. \A o : /\ rule.low \in DOMAIN Handed(o) <=> rule.low \in DOMAIN params
                   /\ rule.low \in DOMAIN Handed(o) => Handed(o)[rule.low] = params[rule.low]
        BY <1>11, <3>2
      <4>2. \A o : Low(o) = Get(params, rule.low, rule.low_default)
        BY <4>1, SameRead
      <4>3. Low(outputs) = Low(mix)
        BY ONLY <4>2
      <4> QED
        BY <2>3, <4>3
    <3> QED
      BY <3>1, <3>2
  <2>5. High(mix) <= High(outputs)
    <3>1. CASE rule.high \in Targets
      <4>1. PICK b \in DOMAIN bindings : bindings[b].target = rule.high
        BY <3>1
      <4>2. mix[b] = lows[b]
        BY <1>3, <4>1
      <4>3. \A o : rule.high \in DOMAIN Handed(o) /\ Handed(o)[rule.high] = At(b, o[b])
        BY <1>11, <3>1, <4>1
      <4>4. \A o : High(o) = At(b, o[b])
        BY <4>3, Present
      <4> QED
        BY <1>9, <4>2, <4>4
    <3>2. CASE rule.high \notin Targets
      <4>1. \A o : /\ rule.high \in DOMAIN Handed(o) <=> rule.high \in DOMAIN params
                   /\ rule.high \in DOMAIN Handed(o) => Handed(o)[rule.high] = params[rule.high]
        BY <1>11, <3>2
      <4>2. \A o : High(o) = Get(params, rule.high, rule.high_default)
        BY <4>1, SameRead
      <4>3. High(outputs) = High(mix)
        BY ONLY <4>2
      <4> QED
        BY <2>3, <4>3
    <3> QED
      BY <3>1, <3>2
  <2> HIDE DEF Low, High, mix
  <2>6. Low(outputs) <= High(outputs)
    BY ONLY <2>1, <2>3, <2>4, <2>5
  <2> QED
    BY <2>6 DEF Low, High
<1>14. ValidParams(effect, Handed(outputs))
  BY <1>12, <1>13 DEF ValidParams
<1> QED
  BY <1>14 DEF effect, params

----------------------------------------------------------------------------
(* No frame of an accepted document raises                                   *)

(* What a worker remembers of its bindings is a number, or nothing. *)
OutputsKnown(i, job) ==
    \A w \in Workers(i), b \in DOMAIN Bindings(i) :
        job.workers[w].outputs[b] \in Int \/ job.workers[w].outputs[b] = Absent

RunInv ==
    /\ OnlyAccepted
    /\ last \in Int
    /\ phase # "failed"
    /\ phase = "unbuildable" => TracksOverlap
    /\ phase = "running" => \A i \in CueIds : OutputsKnown(i, cues[i])

LEMMA ModulatedCue ==
    ASSUME Accepted(doc), NEW i \in CueIds, Bindings(i) # <<>>
    PROVE  /\ EffectId(Cue(i).effect) \in DOMAIN Registry
           /\ ParametersOk(ParamsOf(Cue(i).effect), EffectId(Cue(i).effect))
           /\ ParameterModulationOk(Bindings(i), Cue(i).effect)
           /\ \A b \in DOMAIN Bindings(i) : Bound(Bindings(i)[b])
<1>1. PICK version, duration : version \in {1, 2} /\ CueOk(Cue(i), version, duration, NamedPaths)
  BY AcceptedParts
<1>2. "parameter_modulation" \in DOMAIN Cue(i) /\ Bindings(i) = Cue(i).parameter_modulation
  BY DEF Bindings, Get
<1>3. ParameterModulationOk(Bindings(i), Cue(i).effect)
  BY <1>1, <1>2 DEF CueOk
<1>4. EffectOk(Cue(i).effect, version)
  <2>1. EffectOk(Get(Cue(i), "effect", Junk), version)
    BY <1>1 DEF CueOk
  <2>2. Get(Cue(i), "effect", Junk) = Cue(i).effect
    BY <2>1 DEF EffectOk, Known, IsMap, Get
  <2> QED
    BY <2>1, <2>2
<1>5. /\ \A b \in DOMAIN Bindings(i) : BindingOk(Bindings(i)[b], Cue(i).effect)
      /\ Cue(i).effect.mode = "fixed"
  BY <1>3 DEF ParameterModulationOk
<1> QED
  BY <1>1, <1>3, <1>4, <1>5, FixedEffects, BindingsBound

LEMMA SomeBinding == ASSUME NEW i, NEW b \in DOMAIN Bindings(i) PROVE Bindings(i) # <<>>
  OBVIOUS

LEMMA NothingRaised ==
    ASSUME Accepted(doc), NEW i \in CueIds, Bindings(i) # <<>>, NEW outputs,
           \A b \in DOMAIN Bindings(i) :
              \/ outputs[b] \in Bindings(i)[b].output_min..Bindings(i)[b].output_max
              \/ /\ outputs[b] = Absent
                 /\ Bindings(i)[b].mode = "modulate" /\ "fallback" \notin DOMAIN Bindings(i)[b]
    PROVE  ~WorkerRaises(i, outputs)
<1> DEFINE handed == [b \in DOMAIN Bindings(i) |-> IF outputs[b] = Absent THEN One ELSE outputs[b]]
<1>1. \A b \in DOMAIN Bindings(i) : Yields(Bindings(i)[b], handed[b])
  <2> SUFFICES ASSUME NEW b \in DOMAIN Bindings(i)
               PROVE  Yields(Bindings(i)[b], handed[b])
    OBVIOUS
  <2>1. CASE outputs[b] = Absent
    <3>1. handed[b] = One
      BY <2>1
    <3>2. Absent \notin Int /\ Bound(Bindings(i)[b])
      BY ValueAssumption, ModulatedCue DEF Absent
    <3>3. PICK least \in Int, most \in Int :
              least = Bindings(i)[b].output_min /\ most = Bindings(i)[b].output_max
      BY <3>2 DEF Bound
    <3>4. Absent \notin least..most
      BY <3>2
    <3>5. Bindings(i)[b].mode = "modulate" /\ "fallback" \notin DOMAIN Bindings(i)[b]
      BY <2>1, <3>3, <3>4
    <3>6. One \in BindingOutputs(Bindings(i)[b])
      BY <3>5 DEF BindingOutputs
    <3> QED
      BY <3>1, <3>6 DEF Yields
  <2>2. CASE outputs[b] # Absent
    <3>1. handed[b] = outputs[b]
      BY <2>2
    <3> QED
      BY <2>2, <3>1 DEF Yields
  <2> QED
    BY <2>1, <2>2
<1> HIDE DEF handed
<1>2. ValidParams(EffectId(Cue(i).effect), Modulated(ParamsOf(Cue(i).effect), Bindings(i), handed))
  BY <1>1, ModulatedCue, CornersSuffice
<1>3. ~\E a \in DOMAIN Bindings(i) : Bindings(i)[a].mode = "drive" /\ outputs[a] = Absent
  <2> SUFFICES ASSUME NEW a \in DOMAIN Bindings(i), Bindings(i)[a].mode = "drive", outputs[a] = Absent
               PROVE  FALSE
    OBVIOUS
  <2>1. Absent \notin Int /\ Bound(Bindings(i)[a])
    BY ValueAssumption, ModulatedCue DEF Absent
  <2>2. PICK least \in Int, most \in Int :
            least = Bindings(i)[a].output_min /\ most = Bindings(i)[a].output_max
    BY <2>1 DEF Bound
  <2>3. Absent \notin least..most
    BY <2>1
  <2> QED
    BY <2>2, <2>3
<1>4. RuntimeParams(i, outputs) = Modulated(ParamsOf(Cue(i).effect), Bindings(i), handed)
  BY DEF RuntimeParams, handed
<1> QED
  BY <1>2, <1>3, <1>4 DEF WorkerRaises

(* A frame of a cue raises nothing, and leaves numbers behind. *)
LEMMA CueRuns ==
    ASSUME Accepted(doc), NEW i \in CueIds, NEW job, OutputsKnown(i, job),
           NEW t \in Int, NEW input \in Inputs, NEW elapsed \in Nat
    PROVE  LET after == RenderJob(i, job, t, input, elapsed)
           IN  OutputsKnown(i, after) /\ ~JobRaises(i, after, t)
<1> DEFINE after == RenderJob(i, job, t, input, elapsed)
<1>1. ASSUME NEW w \in Workers(i)
      PROVE  after.workers[w].outputs =
                IF Renders(i, w, t)
                THEN [b \in DOMAIN Bindings(i) |->
                         NextOutput(i, Bindings(i)[b], job.workers[w].outputs[b], t, input, elapsed)]
                ELSE job.workers[w].outputs
  <2> DEFINE sel == SelectorAfter(i, job.sel, t, input)
  <2> DEFINE clock == Advance(job.clock, t - Cue(i).start,
                              Speed(i, sel, NextLevels(i, job.workers[0].levels, input, elapsed)))
  <2> DEFINE rendered == RenderWorker(i, job.workers[w], sel, IF w = 0 THEN job.clock ELSE clock, t, input, elapsed)
  <2>1. after.workers[w] = IF ~Renders(i, w, t) THEN job.workers[w] ELSE rendered
    BY DEF RenderJob
  <2>2. rendered.outputs = [b \in DOMAIN Bindings(i) |->
                               NextOutput(i, Bindings(i)[b], job.workers[w].outputs[b], t, input, elapsed)]
    BY DEF RenderWorker
  <2> HIDE DEF rendered, after
  <2> QED
    BY <2>1, <2>2
<1> HIDE DEF after
<1>2. ASSUME NEW w \in Workers(i), Renders(i, w, t), NEW b \in DOMAIN Bindings(i)
      PROVE  \/ after.workers[w].outputs[b] \in Bindings(i)[b].output_min..Bindings(i)[b].output_max
             \/ /\ after.workers[w].outputs[b] = Absent
                /\ Bindings(i)[b].mode = "modulate" /\ "fallback" \notin DOMAIN Bindings(i)[b]
  <2>1. after.workers[w].outputs[b] = NextOutput(i, Bindings(i)[b], job.workers[w].outputs[b], t, input, elapsed)
    BY <1>1, <1>2
  <2>2. Bound(Bindings(i)[b])
    BY SomeBinding, ModulatedCue
  <2>3. job.workers[w].outputs[b] \in Int \/ job.workers[w].outputs[b] = Absent
    BY DEF OutputsKnown
  <2>4. LET made == NextOutput(i, Bindings(i)[b], job.workers[w].outputs[b], t, input, elapsed)
        IN  \/ made \in Bindings(i)[b].output_min..Bindings(i)[b].output_max
            \/ made = Absent /\ Bindings(i)[b].mode = "modulate" /\ "fallback" \notin DOMAIN Bindings(i)[b]
    BY <2>2, <2>3, OutputInRange
  <2> QED
    BY <2>1, <2>4
<1>3. OutputsKnown(i, after)
  <2> SUFFICES ASSUME NEW w \in Workers(i), NEW b \in DOMAIN Bindings(i)
               PROVE  after.workers[w].outputs[b] \in Int \/ after.workers[w].outputs[b] = Absent
    BY DEF OutputsKnown
  <2>1. CASE Renders(i, w, t)
    <3>1. PICK least \in Int, most \in Int :
              least = Bindings(i)[b].output_min /\ most = Bindings(i)[b].output_max
      BY SomeBinding, ModulatedCue DEF Bound
    <3>2. after.workers[w].outputs[b] \in least..most \/ after.workers[w].outputs[b] = Absent
      BY <1>2, <2>1, <3>1
    <3> QED
      BY <3>2
  <2>2. CASE ~Renders(i, w, t)
    BY <1>1, <2>2 DEF OutputsKnown
  <2> QED
    BY <2>1, <2>2
<1>4. ~JobRaises(i, after, t)
  BY <1>2, NothingRaised DEF JobRaises
<1> QED
  BY <1>3, <1>4 DEF after

LEMMA StartsKnown ==
    ASSUME NEW i \in CueIds
    PROVE  OutputsKnown(i, NewJobs[i])
  BY DEF NewJobs, NewWorker, OutputsKnown

LEMMA SameOutputs ==
    ASSUME doc' = doc, NEW i, OutputsKnown(i, cues'[i])
    PROVE  OutputsKnown(i, cues[i])'
<1>1. Cue(i)' = Cue(i) /\ Branches(i)' = Branches(i)
  BY DEF Branches, Cue, Show
<1>2. Workers(i)' = Workers(i) /\ Bindings(i)' = Bindings(i)
  BY <1>1 DEF Workers, Bindings
<1> QED
  BY <1>2 DEF OutputsKnown

LEMMA SameTracks ==
    ASSUME doc' = doc, TracksOverlap
    PROVE  TracksOverlap'
<1>1. Show' = Show
  BY DEF Show
<1>2. PathsOf(Show)' = PathsOf(Show) /\ Tracks' = Tracks
  BY <1>1 DEF PathsOf, Tracks, TracksOf
<1>3. \A id : AuthoredPath(id)' = AuthoredPath(id)
  BY <1>2 DEF AuthoredPath
<1>4. \A id : PathTargets(id)' = PathTargets(id)
  BY <1>2, <1>3 DEF PathTargets
<1>5. \A id : Parts(id)' = Parts(id)
  BY <1>3, <1>4 DEF Parts
<1>6. \A target : Resolve(target)' = Resolve(target)
  BY <1>5 DEF Resolve
<1>7. \A a, b : Overlap(a, b) => Overlap(a, b)'
  BY <1>6 DEF Overlap
<1> QED
  BY <1>2, <1>7 DEF TracksOverlap

LEMMA RunStart == Init => RunInv
  BY DEF Init, RunInv, OnlyAccepted, None

LEMMA DrawRuns ==
    ASSUME RunInv, phase = "running", NEW t \in Times, NEW input \in Inputs, Render(t, input)
    PROVE  phase' = "running"
<1>1. CASE ~(InShow(t) /\ (last = None \/ t > last))
  BY <1>1 DEF Render
<1>2. CASE InShow(t) /\ (last = None \/ t > last)
  <2> DEFINE elapsed == IF last = None THEN 1 ELSE t - last
  <2> DEFINE jobs == [i \in CueIds |-> IF Active(i, t) THEN RenderJob(i, cues[i], t, input, elapsed) ELSE cues[i]]
  <2>1. t \in Nat /\ last \in Int /\ Accepted(doc)
    BY TimesAssumption DEF Times, RunInv, OnlyAccepted
  <2>2. elapsed \in Nat
    BY <1>2, <2>1
  <2>3. Draw(t, input)
    BY <1>2 DEF Render
  <2>4. (~\E i \in CueIds : Active(i, t) /\ JobRaises(i, jobs[i], t)) => phase' = phase
    BY <2>3 DEF Draw
  <2> HIDE DEF elapsed
  <2>5. ASSUME NEW i \in CueIds, Active(i, t)
        PROVE  ~JobRaises(i, jobs[i], t)
    <3>1. jobs[i] = RenderJob(i, cues[i], t, input, elapsed)
      BY <2>5
    <3>2. OutputsKnown(i, cues[i])
      BY DEF RunInv
    <3>3. ~JobRaises(i, RenderJob(i, cues[i], t, input, elapsed), t)
      BY <2>1, <2>2, <3>2, CueRuns
    <3> QED
      BY <3>1, <3>3
  <2> QED
    BY <2>4, <2>5
<1> QED
  BY <1>1, <1>2

LEMMA RunStep == RunInv /\ [Next]_vars => RunInv'
<1> SUFFICES ASSUME RunInv, [Next]_vars
             PROVE  RunInv'
  OBVIOUS
<1>1. OnlyAccepted' /\ last \in Int /\ last' \in Int
  BY AcceptedStays, LastKnown DEF RunInv
<1>2. doc' = doc
  BY DEF Next, vars, Load, Construct, Render, Reset
<1>3. phase' # "failed" /\ (phase' = "unbuildable" => TracksOverlap)
  <2>1. CASE Load
    BY <2>1 DEF Load
  <2>2. CASE Construct
    <3>1. Accepted(doc)
      BY <2>2 DEF Construct, RunInv, OnlyAccepted
    <3> QED
      BY <2>2, <3>1, AcceptedBuilds DEF Construct
  <2>3. CASE Reset \/ UNCHANGED vars
    BY <2>3 DEF Reset, vars, RunInv
  <2>4. ASSUME NEW t \in Times, NEW input \in Inputs, Render(t, input)
        PROVE  phase' = "running"
    BY <2>4, DrawRuns DEF Render
  <2> QED
    BY <2>1, <2>2, <2>3, <2>4 DEF Next
<1>4. ASSUME phase' = "running", NEW i \in CueIds'
      PROVE  OutputsKnown(i, cues[i])'
  <2>1. Accepted(doc) /\ i \in CueIds
    <3>1. Accepted(doc)'
      BY <1>1, <1>4 DEF OnlyAccepted
    <3> QED
      BY <1>2, <3>1 DEF CueIds, Show
  <2>2. SUFFICES OutputsKnown(i, cues'[i])
    BY <1>2, SameOutputs
  <2>3. NewlyStarted => OutputsKnown(i, cues'[i])
    BY <2>1, StartsKnown DEF NewlyStarted
  <2>4. CASE phase = "running"
    <3>1. OutputsKnown(i, cues[i])
      BY <2>1, <2>4 DEF RunInv
    <3>2. CASE UNCHANGED <<last, cues, heard>>
      BY <3>1, <3>2
    <3>3. ASSUME NEW t \in Nat, NEW input \in Inputs, NEW elapsed \in Nat, Played(t, input, elapsed)
          PROVE  OutputsKnown(i, cues'[i])
      <4>1. cues'[i] = cues[i] \/ cues'[i] = RenderJob(i, cues[i], t, input, elapsed)
        BY <2>1, <3>3 DEF Played
      <4> QED
        BY <2>1, <3>1, <4>1, CueRuns
    <3> QED
      BY <1>1, <1>4, <2>3, <2>4, <3>2, <3>3, ShowSteps
  <2>5. CASE phase # "running"
    <3>1. NewlyStarted
      BY <1>4, <2>5 DEF Next, vars, Load, Construct, Render, Reset, NewlyStarted
    <3> QED
      BY <2>3, <3>1
  <2> QED
    BY <2>4, <2>5
<1> QED
  BY <1>1, <1>2, <1>3, <1>4, SameTracks DEF RunInv

(* A document that load_show accepts is built, unless two of its brightness   *)
(* tracks overlap, and none of its frames raises, whatever is heard: the      *)
(* combinations _validate_parameter_modulation_output_combinations tries      *)
(* stand for all that CueParameterModulator can yield.                        *)
THEOREM AcceptedDocumentsRun == Spec => []AcceptedRuns
<1>1. RunInv => AcceptedRuns
  BY DEF RunInv, AcceptedRuns
<1> QED
  BY <1>1, RunStart, RunStep, PTL DEF Spec
=============================================================================
