-------------------------- MODULE PresentationClock --------------------------
(* The clock by which a node turns the times of the host into its own:        *)
(* PresentationClock (presentation_clock.cpp) with networkTask around it      *)
(* (main.cpp), fed by the beacons of UdpOutputV3 (outputs/udp_output.py).     *)
(*                                                                            *)
(* Time passes in units of the run; a machine's monotonic clock is the time   *)
(* plus what it read at 0, so the machines differ in nothing else and do not  *)
(* drift.  Beacons may be lost, repeated and reordered, and MaxStrays of them *)
(* may come later than MaxDelay.  The host may be restarted or replaced by a  *)
(* machine with another clock, its engine and the node may be restarted.      *)
(* A frame may be sent whenever a host runs and be evaluated at any time      *)
(* after.  Microseconds in 64 bits do not overflow in the life of a machine.  *)
EXTENDS Integers, Sequences, FiniteSets

CONSTANTS
    Uptimes,        \* what the hosts' clocks read at time 0
    Window, MinSamples, MaxAge, MaxUncertainty, LateTolerance, MaxFuture,
                    \* PresentationClockConfig
    RecoveryWindow, \* kSessionRecoveryHostWindowUs
    Lead, Interval, StartupBeacons, Spacing, \* UdpOutputV3
    MaxDelay,       \* a beacon that takes longer is a stray
    MaxStrays,      \* bound: strays in one behaviour
    MaxRestarts,    \* bound: restarts of host, engine and node
    MaxTime         \* bound: the clock of the model

ASSUME ConfigAssumption ==
    /\ Uptimes \subseteq Nat \ {0}
    /\ Window \in Nat /\ MinSamples \in 1..Window
    /\ MaxAge \in Nat /\ MaxUncertainty \in Nat /\ LateTolerance \in Nat /\ MaxFuture \in Nat
    /\ RecoveryWindow \in Nat /\ Lead \in Nat /\ Interval \in Nat /\ StartupBeacons \in Nat \ {0}
    /\ Spacing \in Nat /\ MaxDelay \in Nat
    /\ MaxStrays \in Nat /\ MaxStrays < MinSamples
    /\ MaxRestarts \in Nat /\ MaxTime \in Nat
ASSUME DelayAssumption == MaxDelay < Interval /\ MaxDelay <= MaxUncertainty /\ Lead + MaxDelay <= MaxFuture
(* Beacons come often enough for the estimate not to expire between two.     *)
(* Those of a startup may overtake one another, but come no later than the    *)
(* others would.                                                              *)
ASSUME PaceAssumption == Interval + MaxDelay <= MaxAge /\ Spacing + MaxDelay <= Interval
(* No time of one host is near a time of another's clock. *)
ASSUME UptimesAssumption ==
    \A u, v \in Uptimes :
        u < v => v - u > MaxTime + Lead + LateTolerance + MaxFuture + MaxUncertainty + RecoveryWindow

VARIABLES
    now,
    host,     \* the host's uptime, its _last_beacon_us, beacons before its KEY
    air,      \* the beacons sent: the host time in them, and when
    awaited,  \* history: those that have not come and still may in time
    boot,     \* when the node was started: its esp_timer reads 0
    clock,    \* the node's estimate: offsets_, last_local_receive_us_,
              \* last_host_monotonic_us_; without a sample there was no beacon
    strays, restarts,
    lives,    \* history: the hosts that ran, since when and until when
    steady    \* history: since when nothing was lost, late or restarted

vars == <<now, host, air, awaited, boot, clock, strays, restarts, lives, steady>>

None == -1
NewClock == [samples |-> <<>>, local |-> 0, host |-> 0]
HostTime(uptime, t) == uptime + t
LocalTime == now - boot

-----------------------------------------------------------------------------
(* The node *)

(* The k-th smallest sample. *)
Ranked(s, k) ==
    CHOOSE v \in {s[i] : i \in DOMAIN s} :
        /\ Cardinality({i \in DOMAIN s : s[i] < v}) < k
        /\ Cardinality({i \in DOMAIN s : s[i] <= v}) >= k

Quorum(s) == IF Len(s) < MinSamples THEN Len(s) ELSE MinSamples
Offset == Ranked(clock.samples, 1)
Uncertainty == Ranked(clock.samples, Quorum(clock.samples)) - Offset

Expired == LocalTime - clock.local > MaxAge

AcceptableForward(t) == clock.samples = <<>> \/ t > clock.host  \* mutant
Acceptable(t) == clock.samples = <<>> \/ t > clock.host \/ (Expired /\ t < clock.host)

(* appendOffset *)
Appended(s, offset) ==
    IF Len(s) < Window THEN Append(s, offset) ELSE Append(Tail(s), offset)

(* observeBeacon *)
Observe(t) ==
    IF Acceptable(t)
    THEN clock' = [samples |-> Appended(IF clock.samples # <<>> /\ Expired THEN <<>> ELSE clock.samples,
                                        LocalTime - t),
                   local |-> LocalTime, host |-> t]
    ELSE UNCHANGED clock

(* status *)
Fresh == clock.samples # <<>> /\ ~Expired
Enough == Len(clock.samples) >= MinSamples
ReadyAtOnce == Fresh /\ Uncertainty <= MaxUncertainty  \* mutant
Ready == Fresh /\ Enough /\ Uncertainty <= MaxUncertainty
AcquiringFirstSamples == Fresh /\ ~Enough  \* mutant
Acquiring == Fresh /\ ~Ready

(* evaluateDeadline *)
LocalDeadline(apply) == apply + Offset
DeadlineOk(apply) ==
    /\ Ready /\ apply # 0
    /\ LocalDeadline(apply) >= 0
    /\ LocalTime - LocalDeadline(apply) <= LateTolerance
    /\ LocalDeadline(apply) - LocalTime <= MaxFuture

(* isSessionRecoveryEligible, of a scheduled KEY *)
Recoverable(apply) ==
    /\ Acquiring
    /\ apply # 0 /\ clock.host # 0
    /\ apply >= clock.host /\ apply - clock.host <= RecoveryWindow

-----------------------------------------------------------------------------
(* The host *)

Started(uptime) == [uptime |-> uptime, beacon |-> None, startup |-> StartupBeacons]

(* open waits Spacing after each of its beacons; later frames come at every *)
(* unit of time and bring a beacon along when one is due. *)
BeaconDue ==
    IF host.startup > 0
    THEN host.beacon = None \/ HostTime(host.uptime, now) - host.beacon >= Spacing
    ELSE HostTime(host.uptime, now) - host.beacon >= Interval

SendBeacon ==
    /\ BeaconDue
    /\ host' = [host EXCEPT !.beacon = HostTime(host.uptime, now),
                            !.startup = IF @ > 0 THEN @ - 1 ELSE 0]
    /\ LET b == [host |-> HostTime(host.uptime, now), at |-> now]
       IN  air' = air \cup {b} /\ awaited' = awaited \cup {b}
    /\ UNCHANGED <<now, boot, clock, strays, restarts, lives, steady>>

Restart == restarts < MaxRestarts /\ restarts' = restarts + 1

(* The engine opens its outputs again on the same machine. *)
Reopen ==
    /\ Restart
    /\ host.beacon # None
    /\ host' = Started(host.uptime)
    /\ steady' = now
    /\ UNCHANGED <<now, air, awaited, boot, clock, strays, lives>>

(* The machine is restarted, or another takes its place. *)
ChangeHost ==
    /\ Restart
    /\ \E u \in Uptimes \ {l.uptime : l \in lives} :
          /\ host' = Started(u)
          /\ lives' = {IF l.to = None THEN [l EXCEPT !.to = now] ELSE l : l \in lives}
                         \cup {[uptime |-> u, from |-> now, to |-> None]}
    /\ steady' = now
    /\ UNCHANGED <<now, air, awaited, boot, clock, strays>>

RestartNode ==
    /\ Restart
    /\ boot' = now /\ clock' = NewClock
    /\ steady' = now
    /\ UNCHANGED <<now, host, air, awaited, strays, lives>>

(* networkTask: a beacon is received. *)
ReceiveBeacon ==
    \E b \in air :
        /\ Observe(b.host)
        /\ awaited' = awaited \ {b}
        /\ UNCHANGED <<now, host, air, boot, restarts, lives>>
        /\ IF now - b.at <= MaxDelay
           THEN UNCHANGED <<strays, steady>>
           ELSE /\ strays < MaxStrays /\ strays' = strays + 1
                /\ steady' = now

(* A beacon that has not come in time is late or lost. *)
Missed == {b \in awaited : b.at = now - MaxDelay}

Tick ==
    /\ now < MaxTime /\ ~BeaconDue
    /\ now' = now + 1
    /\ awaited' = awaited \ Missed
    /\ steady' = IF Missed # {} THEN now' ELSE steady
    /\ UNCHANGED <<host, air, boot, clock, strays, restarts, lives>>

Init ==
    /\ now = 0
    /\ \E u \in Uptimes :
          host = Started(u) /\ lives = {[uptime |-> u, from |-> 0, to |-> None]}
    /\ air = {} /\ awaited = {} /\ boot = 0 /\ clock = NewClock
    /\ strays = 0 /\ restarts = 0 /\ steady = 0

Next ==
    SendBeacon \/ Reopen \/ ChangeHost \/ RestartNode \/ ReceiveBeacon \/ Tick

Spec == Init /\ [][Next]_vars

-----------------------------------------------------------------------------
(* Properties *)

(* The frames sent so far: the host time in them, and when they are due. *)
Sent ==
    UNION {{[apply |-> HostTime(l.uptime, t) + Lead, due |-> t + Lead] :
              t \in l.from..(IF l.to = None THEN now ELSE l.to)} : l \in lives}

(* A frame that passes evaluateDeadline is shown no earlier than it is due    *)
(* and later by no more than a timely beacon takes, whichever host sent it:   *)
(* a quorum outweighs strays, and beacons of two hosts give no estimate.      *)
OnTime ==
    \A f \in Sent : DeadlineOk(f.apply) => LocalDeadline(f.apply) - (f.due - boot) \in 0..MaxDelay

(* A KEY is not lost to the clock: after a fresh beacon of the host a KEY of   *)
(* the host that comes by its time passes or opens the session by recovery,   *)
(* also while the clock is acquired anew.  Left out: a clock not acquired by  *)
(* the time the recovery window after that beacon is over.                    *)
KeyTaken ==
    Fresh /\ clock.host - host.uptime \in 0..MaxTime =>
        \A f \in Sent :
            f.apply = HostTime(host.uptime, f.due) /\ now <= f.due
            /\ (Ready \/ f.apply - clock.host <= RecoveryWindow)
                => DeadlineOk(f.apply) \/ Recoverable(f.apply)

(* "allowing recovery from a Host-machine reboot" (presentation_clock.h):     *)
(* whatever happened before, the clock is ready once the beacons of the host  *)
(* have come in time for as long as the last of another host is in the air,   *)
(* takes to expire, and a quorum takes to be sent and come.                   *)
Recovers ==
    now - steady > MaxDelay + MaxAge + MinSamples * Interval + MaxDelay => Ready
=============================================================================
