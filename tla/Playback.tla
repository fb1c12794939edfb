------------------------------ MODULE Playback ------------------------------
(***************************************************************************)
(* Show playback in the host service: the request handlers of              *)
(* host_services/engine_adapter.py, the natural-end watchdog thread, the   *)
(* light_engine subprocesses that real_engine_adapter.py starts and kills, *)
(* and the media player mpv behind its IPC socket.                         *)
(*                                                                         *)
(* The handlers run one at a time on the event loop; the watchdog is a     *)
(* thread of its own.  No lock guards what the two share, and most steps   *)
(* of either may block for seconds (an IPC answer, a process that must     *)
(* die).  A handler is therefore a sequence of steps, each one an access   *)
(* to shared state, and the steps of the two threads interleave.           *)
(*                                                                         *)
(* Left out: aux triggers and the starry sky, positions and volume, the    *)
(* resolution of node addresses (it changes none of this state), and a     *)
(* process that survives SIGKILL.                                          *)
(***************************************************************************)
EXTENDS Naturals, Sequences, FiniteSets

CONSTANTS
    MediaShows,     \* shows with a media_path
    PlainShows,     \* shows without one
    Timed,          \* shows whose duration_ms is not 0: ffprobe may have failed
    NoShow,
    IdleStreak,     \* _WATCHDOG_IDLE_STREAK
    CrashStreak,    \* _WATCHDOG_CRASH_STREAK
    MpvMayFail,     \* whether starting mpv can fail
    MaxRequests,    \* bound: requests served
    MaxFaults       \* bound: mpv crashes, slow starts and IPC timeouts

Shows == MediaShows \cup PlainShows

ASSUME PlaybackAssumption ==
    /\ MediaShows \cap PlainShows = {} /\ NoShow \notin Shows /\ Timed \subseteq Shows
    /\ IdleStreak \in Nat \ {0} /\ CrashStreak \in Nat \ {0}
    /\ MpvMayFail \in BOOLEAN /\ MaxRequests \in Nat /\ MaxFaults \in Nat

Threads == {"api", "watchdog"}

(* A light_engine process: the number of the request that started it.      *)
NoEngine == 0
Engine == 1..MaxRequests

VARIABLES
    mpv,          \* the last player started: "starting", "idle", "loading",
                  \* "file" or "dead"
    socket,       \* its IPC socket file is there
    client, proc, \* whether _mpv and _mpv_proc are set
    state, show,  \* _state: playback_state, and show_id with duration_ms
    active,       \* RealEngineAdapter: _active_show ...
    showRef, manualRef,  \* ... _playback_proc and _manual_proc
    running,      \* the engine processes that are alive
    lit,          \* the nodes were last told to be on
    todo,         \* what each thread has still to do
    victim,       \* the process a thread is about to kill
    wanted,       \* the show of the play request under way
    asked,        \* the watchdog awaits the answer to idle-active
    exited,       \* a finalization has found the player's process ended
    idles, deads, errors,  \* its streaks: streak, dead_streak, ipc_streak
    requests, faults,      \* counters for the bounds
    overlapped,   \* history: steps of the two threads have interleaved
    failed        \* history: a play has ended half-way

mpvVars == <<mpv, socket, client, proc>>
stateVars == <<state, show>>
adapterVars == <<active, showRef, manualRef, running>>
streaks == <<idles, deads, errors>>
vars == <<mpvVars, stateVars, adapterVars, lit, todo, victim, wanted, asked, exited,
          streaks, requests, faults, overlapped, failed>>

----------------------------------------------------------------------------
(* Handlers as sequences of steps                                          *)

StopManual == <<"grab manual", "kill", "drop manual">>
KillShow == <<"grab show", "kill">>

(* on_playback_stop, on_playback_start, on_playback_resume_yaml and        *)
(* on_manual_command.                                                      *)
AdapterStopRemembers == KillShow \o <<"drop show">> \o StopManual  \* mutant
AdapterStop == KillShow \o <<"drop show", "forget show">> \o StopManual
AdapterStart == <<"remember show">> \o StopManual \o KillShow \o <<"start show">>
AdapterResume == StopManual \o KillShow \o <<"start show">>
AdapterManualBeside == StopManual \o <<"start manual">>  \* mutant
AdapterManual == StopManual \o KillShow \o <<"drop show", "start manual">>

(* _ensure_mpv *)
EnsureMpv == <<"probe mpv", "start mpv", "await mpv">>

(* playback_play, playback_stop, playback_reset once a show is active,     *)
(* _apply_manual_targets, and _finalize_natural_end.                       *)
PlaySteps(s) ==
    (IF s \in MediaShows THEN <<>> ELSE <<"stop mpv">>)
    \o AdapterStop
    \o (IF s \in MediaShows THEN EnsureMpv \o <<"load">> ELSE <<>>)
    \o <<"declare">> \o AdapterStart \o <<"light">>

StopSteps == <<"stop mpv", "halt">> \o AdapterStop \o <<"darken">>

ResetSteps == AdapterResume \o <<"unpause", "light">>

ManualSteps == <<"light">> \o AdapterManual

ForgetMpv == <<"poll mpv", "unlink mpv", "drop client", "drop proc">>

FinalizeSteps == <<"halt">> \o ForgetMpv \o AdapterStop \o <<"darken">>

Step(t, name) == todo[t] # <<>> /\ Head(todo[t]) = name

Busy(t) == todo[t] # <<>>

(* A step done; the two threads have interleaved if both are under way.    *)
Goes(t, rest) ==
    /\ todo' = [todo EXCEPT ![t] = rest]
    /\ overlapped' = (overlapped \/ \A u \in Threads : Busy(u))

Advance(t) == Goes(t, Tail(todo[t]))

----------------------------------------------------------------------------
(* Requests                                                                *)

Init ==
    /\ mpv \in (IF MpvMayFail THEN {"idle", "dead"} ELSE {"idle"})
    /\ socket = (mpv = "idle") /\ client = (mpv = "idle") /\ proc \in {FALSE, client}
    /\ state = "idle" /\ show = NoShow
    /\ active = NoShow /\ showRef = NoEngine /\ manualRef = NoEngine
    /\ running = {} /\ lit = FALSE
    /\ todo = [t \in Threads |-> <<>>] /\ victim = [t \in Threads |-> NoEngine]
    /\ wanted = NoShow /\ asked = FALSE /\ exited = FALSE
    /\ idles = 0 /\ deads = 0 /\ errors = 0
    /\ requests = 0 /\ faults = 0 /\ overlapped = FALSE /\ failed = FALSE

(* The event loop takes the next request.                                  *)
Begin(steps) ==
    /\ ~Busy("api")
    /\ requests < MaxRequests
    /\ requests' = requests + 1
    /\ todo' = [todo EXCEPT !.api = steps]
    /\ UNCHANGED <<mpvVars, stateVars, adapterVars, lit, victim, asked, exited,
                   streaks, faults, overlapped, failed>>

Play(s) == Begin(PlaySteps(s)) /\ wanted' = s

(* playback_pause, playback_resume and playback_seek: _ensure_mpv and one  *)
(* command, and only then the new state.                                   *)
Pause == state = "playing" /\ Begin(EnsureMpv \o <<"pause">>) /\ wanted' = NoShow

Resume ==
    /\ state \in {"playing", "paused"}
    /\ Begin(EnsureMpv \o <<"resume">>)
    /\ wanted' = NoShow

Seek ==
    /\ state \in {"playing", "paused"}
    /\ Begin(EnsureMpv)
    /\ wanted' = NoShow

Stop == Begin(StopSteps) /\ wanted' = NoShow

Reset ==
    /\ state \in {"playing", "paused"}
    /\ Begin(<<"check show">> \o ResetSteps)
    /\ wanted' = NoShow

(* lights_set and effects_set                                              *)
Lights == Begin(ManualSteps) /\ wanted' = NoShow

(* scene_apply stops a show that plays, not one that is paused.            *)
ApplyScene ==
    /\ Begin((IF state = "playing" THEN StopSteps ELSE <<>>) \o ManualSteps)
    /\ wanted' = NoShow

Request ==
    \/ \E s \in Shows : Play(s)
    \/ Pause \/ Resume \/ Seek \/ Stop \/ Reset \/ Lights \/ ApplyScene

----------------------------------------------------------------------------
(* Steps on the player                                                     *)

Answers == socket /\ mpv # "dead"

(* A player that answers obeys, unless the command times out; nothing      *)
(* tells the caller.                                                       *)
Obeys(newMpv) ==
    \/ mpv' = (IF Answers THEN newMpv ELSE mpv) /\ UNCHANGED faults
    \/ Answers /\ faults < MaxFaults /\ faults' = faults + 1 /\ UNCHANGED mpv

StopMpv ==
    /\ Step("api", "stop mpv")
    /\ IF client THEN Obeys("idle") ELSE UNCHANGED <<mpv, faults>>
    /\ Advance("api")
    /\ UNCHANGED <<socket, client, proc, stateVars, adapterVars, lit, victim,
                   wanted, asked, exited, streaks, requests, failed>>

LoadFile ==
    /\ Step("api", "load")
    /\ Obeys("loading")
    /\ Advance("api")
    /\ UNCHANGED <<socket, client, proc, stateVars, adapterVars, lit, victim,
                   wanted, asked, exited, streaks, requests, failed>>

(* _ensure_mpv: behind a stale socket the references are cleared.          *)
ProbeMpv ==
    /\ Step("api", "probe mpv")
    /\ IF socket /\ mpv = "dead"
         THEN socket' = FALSE /\ client' = FALSE /\ proc' = FALSE
         ELSE UNCHANGED <<socket, client, proc>>
    /\ Advance("api")
    /\ UNCHANGED <<mpv, stateVars, adapterVars, lit, victim, wanted, asked, exited,
                   streaks, requests, faults, failed>>

(* With no socket a new player is started; one that has lost its socket is *)
(* left to itself.                                                         *)
StartMpv ==
    /\ Step("api", "start mpv")
    /\ IF socket THEN UNCHANGED <<mpv, proc>> ELSE mpv' = "starting" /\ proc' = TRUE
    /\ Advance("api")
    /\ UNCHANGED <<socket, client, stateVars, adapterVars, lit, victim, wanted, asked,
                   exited, streaks, requests, faults, failed>>

(* It cannot be started (MPV_UNAVAILABLE, or an internal error): the       *)
(* request ends here.                                                      *)
StartMpvFails ==
    /\ Step("api", "start mpv")
    /\ MpvMayFail /\ ~socket
    /\ failed' = (failed \/ wanted # NoShow)
    /\ Goes("api", <<>>)
    /\ UNCHANGED <<mpvVars, stateVars, adapterVars, lit, victim, wanted, asked,
                   exited, streaks, requests, faults>>

(* The socket is waited for; one that is late is only warned of.           *)
AwaitMpv ==
    /\ Step("api", "await mpv")
    /\ \/ mpv # "starting" /\ UNCHANGED faults
       \/ mpv = "starting" /\ faults < MaxFaults /\ faults' = faults + 1
    /\ client' = TRUE
    /\ Advance("api")
    /\ UNCHANGED <<mpv, socket, proc, stateVars, adapterVars, lit, victim, wanted,
                   asked, exited, streaks, requests, failed>>

----------------------------------------------------------------------------
(* Steps on _state                                                         *)

Declare ==
    /\ Step("api", "declare")
    /\ state' = "playing" /\ show' = wanted
    /\ Advance("api")
    /\ UNCHANGED <<mpvVars, adapterVars, lit, victim, wanted, asked, exited, streaks,
                   requests, faults, failed>>

SetPaused ==
    /\ Step("api", "pause")
    /\ state' = "paused"
    /\ Advance("api")
    /\ UNCHANGED <<mpvVars, show, adapterVars, lit, victim, wanted, asked, exited,
                   streaks, requests, faults, failed>>

SetPlaying ==
    /\ Step("api", "resume")
    /\ state' = "playing"
    /\ Advance("api")
    /\ UNCHANGED <<mpvVars, show, adapterVars, lit, victim, wanted, asked, exited,
                   streaks, requests, faults, failed>>

Unpause ==
    /\ Step("api", "unpause")
    /\ state' = (IF state = "paused" THEN "playing" ELSE state)
    /\ Advance("api")
    /\ UNCHANGED <<mpvVars, show, adapterVars, lit, victim, wanted, asked, exited,
                   streaks, requests, faults, failed>>

Halt(t) ==
    /\ Step(t, "halt")
    /\ state' = "stopped" /\ show' = NoShow
    /\ Advance(t)
    /\ UNCHANGED <<mpvVars, adapterVars, lit, victim, wanted, asked, exited, streaks,
                   requests, faults, failed>>

(* A process found dead by poll(): its socket goes, then one reference and *)
(* then the other, whatever they are by then.                              *)
forgetFrame == <<mpv, stateVars, adapterVars, lit, victim, wanted, asked, streaks,
                 requests, faults, failed>>

PollMpv ==
    /\ Step("watchdog", "poll mpv")
    /\ exited' = (proc /\ mpv = "dead")
    /\ Advance("watchdog")
    /\ UNCHANGED <<socket, client, proc, forgetFrame>>

UnlinkMpv ==
    /\ Step("watchdog", "unlink mpv")
    /\ socket' = (socket /\ ~(exited /\ client))
    /\ Advance("watchdog")
    /\ UNCHANGED <<client, proc, exited, forgetFrame>>

DropClient ==
    /\ Step("watchdog", "drop client")
    /\ client' = (client /\ ~exited)
    /\ Advance("watchdog")
    /\ UNCHANGED <<socket, proc, exited, forgetFrame>>

DropProc ==
    /\ Step("watchdog", "drop proc")
    /\ proc' = (proc /\ ~exited) /\ exited' = FALSE
    /\ Advance("watchdog")
    /\ UNCHANGED <<socket, client, forgetFrame>>

(* _push_brightness_scale turns the nodes on, _push_wled_off off.          *)
Light ==
    /\ Step("api", "light")
    /\ lit' = TRUE
    /\ Advance("api")
    /\ UNCHANGED <<mpvVars, stateVars, adapterVars, victim, wanted, asked, exited,
                   streaks, requests, faults, failed>>

Darken(t) ==
    /\ Step(t, "darken")
    /\ lit' = FALSE
    /\ Advance(t)
    /\ UNCHANGED <<mpvVars, stateVars, adapterVars, victim, wanted, asked, exited,
                   streaks, requests, faults, failed>>

----------------------------------------------------------------------------
(* Steps on the engine processes                                           *)

engineFrame == <<mpvVars, stateVars, lit, wanted, asked, exited, streaks, requests,
                 faults, failed>>

(* _kill_proc takes the reference when it is called and returns when that  *)
(* process is dead.                                                        *)
Grab(t) ==
    /\ \/ Step(t, "grab show") /\ victim' = [victim EXCEPT ![t] = showRef]
       \/ Step(t, "grab manual") /\ victim' = [victim EXCEPT ![t] = manualRef]
    /\ Advance(t)
    /\ UNCHANGED <<adapterVars, engineFrame>>

Kill(t) ==
    /\ Step(t, "kill")
    /\ running' = running \ {victim[t]}
    /\ victim' = [victim EXCEPT ![t] = NoEngine]
    /\ Advance(t)
    /\ UNCHANGED <<active, showRef, manualRef, engineFrame>>

DropShow(t) ==
    /\ Step(t, "drop show")
    /\ showRef' = NoEngine
    /\ Advance(t)
    /\ UNCHANGED <<active, manualRef, running, victim, engineFrame>>

ForgetShow(t) ==
    /\ Step(t, "forget show")
    /\ active' = NoShow
    /\ Advance(t)
    /\ UNCHANGED <<showRef, manualRef, running, victim, engineFrame>>

DropManual(t) ==
    /\ Step(t, "drop manual")
    /\ manualRef' = NoEngine
    /\ Advance(t)
    /\ UNCHANGED <<active, showRef, running, victim, engineFrame>>

RememberShow ==
    /\ Step("api", "remember show")
    /\ active' = wanted
    /\ Advance("api")
    /\ UNCHANGED <<showRef, manualRef, running, victim, engineFrame>>

StartShow ==
    /\ Step("api", "start show")
    /\ showRef' = requests
    /\ running' = running \cup {requests}
    /\ Advance("api")
    /\ UNCHANGED <<active, manualRef, victim, engineFrame>>

(* The show has no show_yaml, or no target is a known strip: there is      *)
(* nothing to run.                                                         *)
StartNothing ==
    /\ Step("api", "start show") \/ Step("api", "start manual")
    /\ Advance("api")
    /\ UNCHANGED <<adapterVars, victim, engineFrame>>

StartManual ==
    /\ Step("api", "start manual")
    /\ manualRef' = requests
    /\ running' = running \cup {requests}
    /\ Advance("api")
    /\ UNCHANGED <<active, showRef, victim, engineFrame>>

(* playback_reset answers NO_ACTIVE_SHOW.                                  *)
CheckShow ==
    /\ Step("api", "check show")
    /\ IF active = NoShow THEN Goes("api", <<>>) ELSE Advance("api")
    /\ UNCHANGED <<adapterVars, victim, engineFrame>>

----------------------------------------------------------------------------
(* The watchdog, once a second                                             *)

Watched == state = "playing" /\ show \in Timed

watchFrame == <<mpvVars, stateVars, adapterVars, lit, victim, wanted, requests,
                overlapped>>

Finalize == todo' = [todo EXCEPT !.watchdog = FinalizeSteps]

(* Nothing with a duration is playing: start over.                         *)
WatchNothing ==
    /\ ~Busy("watchdog") /\ ~asked
    /\ ~Watched
    /\ idles' = 0 /\ deads' = 0 /\ errors' = 0
    /\ UNCHANGED <<watchFrame, todo, asked, exited, faults, failed>>

(* Mutant: a streak that never grows.                                      *)
WatchDeadResets ==
    /\ ~Busy("watchdog") /\ ~asked
    /\ Watched /\ proc /\ mpv = "dead"
    /\ deads' = 0
    /\ UNCHANGED <<watchFrame, idles, errors, todo, asked, exited, faults, failed>>

WatchDead ==
    /\ ~Busy("watchdog") /\ ~asked
    /\ Watched /\ proc /\ mpv = "dead"
    /\ IF deads + 1 >= CrashStreak
         THEN deads' = 0 /\ errors' = 0 /\ Finalize
         ELSE deads' = deads + 1 /\ UNCHANGED <<errors, todo>>
    /\ UNCHANGED <<watchFrame, idles, asked, exited, faults, failed>>

WatchNoClient ==
    /\ ~Busy("watchdog") /\ ~asked
    /\ Watched /\ ~(proc /\ mpv = "dead") /\ ~client
    /\ deads' = 0 /\ idles' = 0
    /\ UNCHANGED <<watchFrame, errors, todo, asked, exited, faults, failed>>

WatchAsk ==
    /\ ~Busy("watchdog") /\ ~asked
    /\ Watched /\ ~(proc /\ mpv = "dead") /\ client
    /\ deads' = 0
    /\ asked' = TRUE
    /\ UNCHANGED <<watchFrame, idles, errors, exited, todo, faults, failed>>

(* The three answers: an error, busy and idle.  A player that is loading   *)
(* may still say idle.                                                     *)
WatchError ==
    /\ asked
    /\ IF Answers THEN faults < MaxFaults /\ faults' = faults + 1 ELSE UNCHANGED faults
    /\ asked' = FALSE
    /\ idles' = 0
    /\ IF errors + 1 >= CrashStreak
         THEN errors' = 0 /\ Finalize
         ELSE errors' = errors + 1 /\ UNCHANGED todo
    /\ UNCHANGED <<watchFrame, deads, exited, failed>>

WatchBusy ==
    /\ asked
    /\ Answers /\ mpv \in {"loading", "file"}
    /\ asked' = FALSE
    /\ errors' = 0 /\ idles' = 0
    /\ UNCHANGED <<watchFrame, deads, exited, todo, faults, failed>>

(* Mutant: an idle answer does not count.                                  *)
WatchIdleForgets ==
    /\ asked
    /\ Answers /\ mpv \in {"idle", "loading"}
    /\ asked' = FALSE
    /\ errors' = 0 /\ idles' = 0
    /\ UNCHANGED <<watchFrame, deads, exited, faults, todo, failed>>

WatchIdle ==
    /\ asked
    /\ Answers /\ mpv \in {"idle", "loading"}
    /\ asked' = FALSE
    /\ errors' = 0
    /\ IF idles + 1 >= IdleStreak
         THEN idles' = 0 /\ Finalize
         ELSE idles' = idles + 1 /\ UNCHANGED todo
    /\ UNCHANGED <<watchFrame, deads, exited, faults, failed>>

----------------------------------------------------------------------------
(* The world                                                               *)

worldFrame == <<client, proc, stateVars, active, showRef, manualRef, lit, todo,
                victim, wanted, asked, exited, streaks, requests, overlapped, failed>>

MpvReady ==
    /\ mpv = "starting"
    /\ mpv' = "idle" /\ socket' = TRUE
    /\ UNCHANGED <<worldFrame, running, faults>>

MpvLoaded ==
    /\ mpv = "loading"
    /\ mpv' \in {"file", "idle"}
    /\ UNCHANGED <<worldFrame, running, socket, faults>>

MediaEnds ==
    /\ mpv = "file"
    /\ mpv' = "idle"
    /\ UNCHANGED <<worldFrame, running, socket, faults>>

MpvCrashes ==
    /\ mpv # "dead" /\ faults < MaxFaults
    /\ faults' = faults + 1
    /\ mpv' = "dead" /\ socket' \in {FALSE, socket}
    /\ UNCHANGED <<worldFrame, running>>

EngineExits ==
    /\ \E e \in running : running' = running \ {e}
    /\ UNCHANGED <<worldFrame, mpv, socket, faults>>

----------------------------------------------------------------------------
Api ==
    \/ StopMpv \/ LoadFile \/ ProbeMpv \/ StartMpv \/ StartMpvFails \/ AwaitMpv \/ Declare
    \/ SetPaused \/ SetPlaying \/ Unpause \/ Light \/ RememberShow
    \/ StartShow \/ StartNothing \/ StartManual \/ CheckShow

Common(t) ==
    Halt(t) \/ Darken(t) \/ Grab(t) \/ Kill(t) \/ DropShow(t) \/ ForgetShow(t)
    \/ DropManual(t)

Watch ==
    \/ WatchNothing \/ WatchDead \/ WatchNoClient \/ WatchAsk \/ WatchError
    \/ WatchBusy \/ WatchIdle \/ PollMpv \/ UnlinkMpv \/ DropClient \/ DropProc

World == MpvReady \/ MpvLoaded \/ MediaEnds \/ MpvCrashes \/ EngineExits

Next ==
    Request \/ Api \/ Watch \/ (\E t \in Threads : Common(t)) \/ World

Spec == Init /\ [][Next]_vars

(* Both threads go on; a player that starts gets its socket, and a file    *)
(* that is loading loads or fails.                                         *)
Fairness ==
    /\ WF_vars(Api \/ Common("api"))
    /\ WF_vars(Watch \/ Common("watchdog"))
    /\ WF_vars(MpvReady \/ MpvLoaded)

FairSpec == Spec /\ Fairness

----------------------------------------------------------------------------
(* Properties                                                              *)

Quiet == ~Busy("api") /\ ~Busy("watchdog")

(* While requests and finalizations have not interleaved, at most one      *)
(* engine process drives the lights, in the middle of a handler too, and   *)
(* the adapter holds a reference to it, so that it can be killed.          *)
EnginesAccounted ==
    ~overlapped =>
        /\ running \subseteq {showRef, manualRef}
        /\ Cardinality(running) <= 1

(* Between requests _state and the adapter agree: the show that is playing *)
(* or paused is the one the adapter can restart, and its nodes are on;     *)
(* with no show there is no show engine.  (A play that fails for want of a *)
(* player leaves the old show reported and its engine stopped.)            *)
StateAgrees ==
    ~overlapped /\ ~failed /\ Quiet =>
        IF state \in {"playing", "paused"}
          THEN show # NoShow /\ active = show /\ lit
          ELSE show = NoShow /\ active = NoShow /\ showRef = NoEngine

(* A show with a duration whose media has ended does not count as playing  *)
(* for ever, whatever the interleaving ("this thread does that cleanup",   *)
(* engine_adapter.py:1115), as long as the service keeps its client: a     *)
(* finalization that found a player ended drops the client of the one a    *)
(* request has started meanwhile, and then nobody watches.  (Nor does      *)
(* anybody watch a show whose duration ffprobe could not tell.)            *)
EndNoticed == []<>~(Watched /\ client /\ mpv = "idle")

(* A show with a duration whose player has died does not count as playing  *)
(* for ever: "5 consecutive times dead or unreachable" are a crash         *)
(* (engine_adapter.py:1119).  As long as the service keeps its client: a   *)
(* request that could not start the player again has dropped it too.       *)
CrashNoticed == []<>~(Watched /\ client /\ mpv = "dead")

(* "Stop playback engine and aux polling" (real_engine_adapter.py:131):    *)
(* when a stop request is done no engine process is left.                  *)
StopLeavesNothing ==
    [][Step("api", "darken") /\ todo'["api"] = <<>> => running' = {}]_vars
=============================================================================
