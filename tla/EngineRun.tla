----------------------------- MODULE EngineRun -----------------------------
(***************************************************************************)
(* One light_engine: the run loop of light_engine/engine/__init__.py, the  *)
(* outputs it drives (outputs/__init__.py, ddp_output.py, udp_output.py,   *)
(* serial_output.py) in production mode, the mpv clock that paces it and   *)
(* the show runtime that renders for it.                                   *)
(*                                                                         *)
(* The engine is sequential; what makes it hard is that every step can     *)
(* fail half-way, that a failure leaves health, sessions and open outputs  *)
(* behind for the shutdown and for the next run of the same engine, and    *)
(* that the clock jumps when somebody seeks.  One action is one call whose *)
(* outcome the rest of the engine can tell: the opening of a session, one  *)
(* iteration up to its frame, one output's send, the shutdown.             *)
(*                                                                         *)
(* Left out: a second interrupt during the shutdown and a signal that ends *)
(* the process (all this state is gone with it), the uint32 wrap, and the  *)
(* MEMORY and FAKE modes, which never fail.                                *)
(***************************************************************************)
EXTENDS Integers, Sequences, FiniteSets

CONSTANTS
    Outputs,     \* the enabled outputs, in the order of create_outputs
    NodeCount,   \* the UDP v3 nodes are 1..NodeCount
    Repeats,     \* session_start_repeats
    Period,      \* the frame period, in units of the clock
    Duration,    \* of the show
    MaxTime,     \* bound: mpv's position
    MaxFrames,   \* bound: frames of a run
    MaxRuns      \* bound: runs of one Engine

Kinds == {"ddp", "udp", "serial"}
Names == {Outputs[i] : i \in 1..Len(Outputs)}
Time == 0..MaxTime
NoTime == -1

ASSUME EngineAssumption ==
    /\ Outputs \in Seq(Kinds)
    /\ \A i, j \in 1..Len(Outputs) : Outputs[i] = Outputs[j] => i = j
    /\ NodeCount \in Nat \ {0} /\ Repeats \in Nat \ {0} /\ Period \in Nat \ {0}
    /\ Duration \in Nat /\ MaxTime \in Nat /\ MaxFrames \in Nat /\ MaxRuns \in Nat

VARIABLES
    pc,        \* "off", "loop", "send", "stop" or "black"
    cursor,    \* the output send_all has reached
    open,      \* LightOutput._open
    healthy,   \* OutputHealth.healthy
    audio,     \* the live audio source is open
    seq,       \* Engine._sequence
    needsKey,  \* UdpOutputV3._needs_key_frame
    last,      \* _last_clock_time, and the position the mpv clock last read
    shown,     \* ShowRuntime._last_timestamp, or NoTime
    frames,    \* _frame_count
    runs,      \* counter for the bound
    outcome,   \* history: how the run ends ("ok", "error", "unopened")
    air,       \* history: the datagrams of the UDP session
    missed,    \* history: the outputs some frame of the run did not reach
    stale,     \* history: the outputs that were unhealthy as the run began
    blacked,   \* history: the outputs given the SAFE frame at shutdown
    seen       \* history: the times the present show runtime has rendered

clockVars == <<last, shown, seen>>
history == <<outcome, air, missed, stale, blacked>>
vars == <<pc, cursor, open, healthy, audio, seq, needsKey, clockVars, frames,
          runs, history>>

(* A datagram of the UDP session; copies count through rounds and nodes.   *)
Datagram(s, copy, key, safe) == [seq |-> s, copy |-> copy, key |-> key, safe |-> safe]
Copies(key) == 1..(IF key THEN Repeats * NodeCount ELSE NodeCount)

Init ==
    /\ pc = "off" /\ cursor = 1
    /\ open = [o \in Names |-> FALSE] /\ healthy = [o \in Names |-> TRUE]
    /\ audio = FALSE /\ seq = 0 /\ needsKey = TRUE
    /\ last = 0 /\ shown = NoTime /\ seen = {} /\ frames = 0 /\ runs = 0
    /\ outcome = "none" /\ air = {} /\ missed = {} /\ stale = {} /\ blacked = {}

----------------------------------------------------------------------------
(* open_all, and _begin_run_session                                        *)

(* The health of the outputs S once they have been opened: only the serial *)
(* output keeps what it was.                                               *)
Opened(S) == [o \in Names |-> IF o \in S /\ o # "serial" THEN TRUE ELSE healthy[o]]

Closed == {o \in Names : ~open[o]}

(* A new UDP session.                                                      *)
OpenAll ==
    /\ open' = [o \in Names |-> TRUE]
    /\ healthy' = Opened(Closed)
    /\ IF "udp" \in Closed THEN needsKey' = TRUE /\ air' = {}
                           ELSE UNCHANGED <<needsKey, air>>

Before(k) == {Outputs[i] : i \in 1..(k - 1)}

(* One output fails (for UDP v3, one of the startup beacons is enough) and *)
(* those opened before it are closed again.                                *)
OpenFails ==
    /\ Closed = Names
    /\ \E k \in 1..Len(Outputs) :
         healthy' = [Opened(Before(k)) EXCEPT ![Outputs[k]] = FALSE]
    /\ UNCHANGED <<open, needsKey, air>>

(* The command line opens the outputs before it runs the engine.           *)
InitOutputs ==
    /\ pc = "off" /\ Closed = Names
    /\ \/ OpenAll /\ outcome' = "none"
       \/ OpenFails /\ outcome' = "unopened"
    /\ UNCHANGED <<pc, cursor, audio, seq, clockVars, frames, runs, missed,
                   stale, blacked>>

ResetRun ==
    /\ pc = "off"
    /\ runs < MaxRuns /\ runs' = runs + 1
    /\ seq' = 0 /\ frames' = 0 /\ shown' = NoTime /\ seen' = {}
    /\ missed' = {} /\ blacked' = {}
    /\ UNCHANGED <<cursor, last>>

BeginRun ==
    /\ ResetRun
    /\ audio' = TRUE
    /\ OpenAll
    /\ stale' = {o \in Names : ~healthy'[o]}
    /\ pc' = "loop" /\ outcome' = "none"

(* The audio source, or an output, cannot be opened: the error leaves      *)
(* run() before its try statement.                                         *)
BeginFails ==
    /\ ResetRun
    /\ \/ ~audio /\ UNCHANGED <<audio, open, healthy, needsKey, air>>
       \/ audio' = TRUE /\ OpenFails
    /\ outcome' = "unopened"
    /\ UNCHANGED <<pc, stale>>

----------------------------------------------------------------------------
(* The loop                                                                *)

(* run() is left, with or without an error, for its finally clause.        *)
Leave(how) == pc' = "stop" /\ outcome' = how

(* seek_detected                                                           *)
JumpsNever(t) == FALSE  \* mutant
Jumps(t) == t - last > 2 * Period

(* _handle_timeline_reset makes a new show runtime.                        *)
ShownBefore(t) == IF Jumps(t) THEN NoTime ELSE shown
SeenBefore(t) == IF Jumps(t) THEN {} ELSE seen

(* A position the loop accepts: not further back than one period.          *)
Accepts(t) == t >= last - Period

(* A frame: the clock is read, the sequence advances and the show renders, *)
(* which a time before the last one refuses.                               *)
Render(t) ==
    /\ pc = "loop"
    /\ frames < MaxFrames /\ t < Duration
    /\ Accepts(t)
    /\ ShownBefore(t) = NoTime \/ t >= shown
    /\ last' = t /\ shown' = t /\ seen' = SeenBefore(t) \cup {t}
    /\ seq' = seq + 1
    /\ pc' = "send" /\ cursor' = 1
    /\ UNCHANGED <<open, healthy, audio, needsKey, frames, runs, history>>

(* The live audio source fails (before the sequence advances), an effect   *)
(* or the mapping raises, or the show refuses the time.                    *)
RenderFails(t) ==
    /\ pc = "loop"
    /\ frames < MaxFrames /\ t < Duration
    /\ Accepts(t)
    /\ last' = t /\ shown' = ShownBefore(t) /\ seen' = SeenBefore(t)
    /\ seq' \in {seq, seq + 1}
    /\ Leave("error")
    /\ UNCHANGED <<cursor, open, healthy, audio, needsKey, frames, runs, air,
                   missed, stale, blacked>>

(* "engine clock moved backward"                                           *)
Backward(t) ==
    /\ pc = "loop"
    /\ ~Accepts(t)
    /\ last' = t
    /\ Leave("error")
    /\ UNCHANGED <<cursor, open, healthy, audio, seq, needsKey, shown, seen,
                   frames, runs, air, missed, stale, blacked>>

(* The show's duration is over.                                            *)
Finish(t) ==
    /\ pc = "loop"
    /\ Accepts(t) /\ t >= Duration
    /\ last' = t /\ shown' = ShownBefore(t) /\ seen' = SeenBefore(t)
    /\ Leave("ok")
    /\ UNCHANGED <<cursor, open, healthy, audio, seq, needsKey, frames, runs,
                   air, missed, stale, blacked>>

(* The media has ended or somebody interrupts ("ok"), the player is gone   *)
(* ("error").                                                              *)
Interrupt ==
    /\ pc = "loop"
    /\ Leave("ok") \/ Leave("error")
    /\ UNCHANGED <<cursor, open, healthy, audio, seq, needsKey, clockVars,
                   frames, runs, air, missed, stale, blacked>>

----------------------------------------------------------------------------
(* send_all                                                                *)

Here == Outputs[cursor]
Sending == pc \in {"send", "black"} /\ cursor <= Len(Outputs)
Safe == pc = "black"

KeyWheneverNeeded == needsKey  \* mutant
(* starts_new_session                                                      *)
Key == needsKey /\ seq = 1

(* Mutant: unhealthy outputs are passed over at the shutdown as well.      *)
SkippedAlways(o) == ~healthy[o]
Skipped(o) == ~healthy[o] /\ ~Safe

NextOutput == cursor' = cursor + 1 /\ UNCHANGED <<pc, outcome>>

Skip ==
    /\ Sending
    /\ Skipped(Here)
    /\ missed' = missed \cup {Here}
    /\ NextOutput
    /\ UNCHANGED <<open, healthy, audio, seq, needsKey, clockVars, frames, runs,
                   air, stale, blacked>>

Send ==
    /\ Sending
    /\ ~Skipped(Here)
    /\ IF Here = "udp"
         THEN /\ air' = air \cup {Datagram(seq, c, Key, Safe) : c \in Copies(Key)}
              /\ needsKey' = (needsKey /\ ~Key)
         ELSE UNCHANGED <<air, needsKey>>
    /\ blacked' = IF Safe THEN blacked \cup {Here} ELSE blacked
    /\ NextOutput
    /\ UNCHANGED <<open, healthy, audio, seq, clockVars, frames, runs, missed, stale>>

(* What a UDP frame that fails has put on the air: nothing when a beacon   *)
(* or the encoding fails, what precedes the failure, or, of a SAFE frame,  *)
(* whatever did not fail.                                                  *)
Partial ==
    {{Datagram(seq, c, Key, Safe) : c \in sent} :
        sent \in IF Safe THEN (SUBSET Copies(Key)) \ {Copies(Key)}
                         ELSE {1..p : p \in 0..(Cardinality(Copies(Key)) - 1)}}

(* Mutant: the show goes on with the outputs that are left.                *)
FailedGoesOn == NextOutput /\ missed' = missed \cup {Here}
(* The failure of a frame is re-raised; of a SAFE frame it is not.         *)
Failed ==
    IF Safe THEN NextOutput /\ UNCHANGED missed
            ELSE Leave("error") /\ missed' = missed \cup {Here} /\ UNCHANGED cursor

SendFails ==
    /\ Sending
    /\ ~Skipped(Here)
    /\ healthy' = [healthy EXCEPT ![Here] = FALSE]
    /\ IF Here = "udp" THEN \E sent \in Partial : air' = air \cup sent
                       ELSE UNCHANGED air
    /\ blacked' = IF Safe THEN blacked \cup {Here} ELSE blacked
    /\ Failed
    /\ UNCHANGED <<open, audio, seq, needsKey, clockVars, frames, runs, stale>>

(* An interrupt in the middle of a frame.                                  *)
SendInterrupted ==
    /\ Sending /\ ~Safe
    /\ IF Here = "udp" /\ ~Skipped(Here)
         THEN \E sent \in Partial : air' = air \cup sent
         ELSE UNCHANGED air
    /\ Leave("ok")
    /\ UNCHANGED <<cursor, open, healthy, audio, seq, needsKey, clockVars,
                   frames, runs, missed, stale, blacked>>

Sent ==
    /\ pc = "send" /\ cursor > Len(Outputs)
    /\ frames' = frames + 1
    /\ pc' = "loop"
    /\ UNCHANGED <<cursor, open, healthy, audio, seq, needsKey, clockVars, runs,
                   history>>

----------------------------------------------------------------------------
(* _shutdown                                                               *)

MakeBlackOldSequence ==  \* mutant
    /\ pc = "stop"
    /\ pc' = "black" /\ cursor' = 1
    /\ UNCHANGED <<seq, open, healthy, audio, needsKey, clockVars, frames, runs, history>>

MakeBlack ==
    /\ pc = "stop"
    /\ seq' = seq + 1
    /\ pc' = "black" /\ cursor' = 1
    /\ UNCHANGED <<open, healthy, audio, needsKey, clockVars, frames, runs, history>>

CloseAll ==
    /\ pc = "black" /\ cursor > Len(Outputs)
    /\ open' = [o \in Names |-> FALSE]
    /\ audio' = FALSE
    /\ pc' = "off"
    /\ UNCHANGED <<cursor, healthy, seq, needsKey, clockVars, frames, runs, history>>

----------------------------------------------------------------------------
Next ==
    \/ InitOutputs \/ BeginRun \/ BeginFails
    \/ \E t \in Time : Render(t) \/ RenderFails(t) \/ Backward(t) \/ Finish(t)
    \/ Interrupt
    \/ Skip \/ Send \/ SendFails \/ SendInterrupted \/ Sent
    \/ MakeBlack \/ CloseAll

Spec == Init /\ [][Next]_vars

----------------------------------------------------------------------------
(* Properties                                                              *)

TypeOK ==
    /\ pc \in {"off", "loop", "send", "stop", "black"}
    /\ cursor \in 1..(Len(Outputs) + 1)
    /\ open \in [Names -> BOOLEAN] /\ healthy \in [Names -> BOOLEAN]
    /\ audio \in BOOLEAN /\ needsKey \in BOOLEAN
    /\ seq \in 0..(MaxFrames + 1) /\ frames \in 0..MaxFrames /\ runs \in 0..MaxRuns
    /\ last \in Time /\ shown \in Time \cup {NoTime} /\ seen \in SUBSET Time
    /\ outcome \in {"none", "ok", "error", "unopened"}
    /\ air \in SUBSET [seq : 0..(MaxFrames + 1), copy : 1..(Repeats * NodeCount),
                       key : BOOLEAN, safe : BOOLEAN]
    /\ missed \in SUBSET Names /\ stale \in SUBSET Names /\ blacked \in SUBSET Names

(* A run that reports success has delivered each of its frames (but one    *)
(* that an interrupt cut short) on every output that was healthy when it   *)
(* began: no failure is survived.                                          *)
SuccessMeansDelivered == outcome = "ok" => missed \subseteq stale

(* The host's side of the nodes' session protocol: exactly sequence 1      *)
(* carries the KEY flag, and a frame that continues the session is sent to *)
(* nobody before every round of the KEY was sent to everybody.             *)
KeyOpensSession ==
    /\ \A d \in air : d.key <=> d.seq = 1
    /\ \A d \in air : ~d.key /\ ~d.safe
         => \A c \in Copies(TRUE) : Datagram(1, c, TRUE, FALSE) \in air

(* The SAFE frame is newer than every frame of its session, so that a node *)
(* that accepted any of them accepts it too.                               *)
SafeIsNewest == \A s, d \in air : s.safe /\ ~d.safe => s.seq > d.seq

(* A run that ended has given the SAFE frame to every output, the one that *)
(* failed included, and has closed everything; an opening that failed has  *)
(* been rolled back.                                                       *)
EndsClosed ==
    pc = "off" =>
        /\ Closed \in {{}, Names}
        /\ outcome \in {"ok", "error"} => Closed = Names /\ blacked = Names /\ ~audio

(* What a show runtime carries from frame to frame never bridges a jump of *)
(* the media nor a rewind: the times it has rendered follow one another at *)
(* two frame periods at most, the last one being the latest.               *)
NoStateAcrossJump ==
    \A t \in seen :
        /\ t <= shown
        /\ \/ \A u \in seen : t <= u
           \/ \E u \in seen : t - u \in 1..(2 * Period)
=============================================================================
