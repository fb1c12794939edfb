---------------------------- MODULE NodeSession ----------------------------
(***************************************************************************)
(* The session protocol of one ESP32 node: the network task (core 0) and   *)
(* the output task (core 1) of firmware/esp32_ws2811_node/src/main.cpp,    *)
(* joined by a queue of one frame and three atomic session generations.    *)
(*                                                                         *)
(* The host opens a session with a KEY frame (sequence 1), repeated under  *)
(* the same apply time, and continues it with scheduled frames.  The air   *)
(* may lose, repeat, delay and reorder datagrams.  Every action below      *)
(* makes at most one access to what the two tasks share (an atomic load,   *)
(* store or compare-exchange, or one queue call), so every interleaving of *)
(* the two cores is a behaviour.                                           *)
(*                                                                         *)
(* The images modelled are the production ones, which set                  *)
(* LIGHT_BELT_REQUIRE_SCHEDULED_APPLY: immediate frames are dropped.       *)
(***************************************************************************)
EXTENDS Integers, FiniteSets

CONSTANTS
    Sessions,     \* the host opens sessions 1..Sessions
    SeqMax,       \* the frames of a session have sequences 1..SeqMax
    SentAt,       \* when the host sends each frame, in ticks
    Lead,         \* apply_at_us is the send time plus this
    Wire,         \* the wire time of the node's encoded frame
    Tolerance,    \* kScheduledLateToleranceUs, late_tolerance_us
    Timeout,      \* SAFE_TIMEOUT_MS
    LoadFirst,    \* the atomics that a build may load first for
                  \* isSessionGenerationAdmitted: C++ leaves the order of
                  \* arguments unspecified
    MaxTime,      \* bound: the clock stops here
    MaxGen        \* bound: no session starts after this generation (the code
                  \* wraps from 2^32 - 1 to 1)

(* OwnedNodeFrame: the pixels are left out and the flags follow from the   *)
(* sequence, since the host sets KEY on sequence 1 and on no other frame.  *)
(* The zero frame is the initial value of both tasks' locals.              *)
Frame == [session : 0..Sessions, seq : 0..SeqMax]
NoFrame == [session |-> 0, seq |-> 0]
HostFrame == [session : 1..Sessions, seq : 1..SeqMax]
Generation == 0..MaxGen

(* QueuedNodeFrame: the deadline follows from the frame.                   *)
Item == [frame : Frame, gen : Generation, reset : BOOLEAN, admission : BOOLEAN]
NoItem == [frame |-> NoFrame, gen |-> 0, reset |-> FALSE, admission |-> FALSE]

ASSUME SizeAssumption ==
    /\ Sessions \in Nat /\ SeqMax \in Nat \ {0} /\ MaxGen \in Nat
    /\ MaxTime \in Nat /\ Timeout \in Nat
    /\ Lead \in Nat /\ Tolerance \in Nat /\ Wire \in 1..Lead

ASSUME ScheduleAssumption == SentAt \in [HostFrame -> Nat]

ASSUME LoadAssumption == LoadFirst \subseteq {"prepared", "committed"}

VARIABLES
    now,
    loadFirst,    \* which of LoadFirst this build loads first
    \* shared by the two tasks
    announced, prepared, committed, frameQueue,
    \* networkTask: what outlives an iteration, and the locals of one
    rxGen, lastRx, sessionId,
    npc, nframe, nadmission, nloaded, nprep, ncomm, nreset,
    \* outputTask and the LedOutput it owns
    opc, cand, txAt, lastSeq, lit, acceptedAt, needsRecovery,
    \* history, read by no action's guard
    keyed,        \* generations whose KEY has been completely encoded
    litGen,       \* the generation of the last physical commit
    stayedAdmitted  \* the generation has been admitted since the frame arrived
                    \* and prepared was loaded before committed

rxVars == <<rxGen, lastRx, sessionId>>
netVars == <<npc, nframe, nadmission, nloaded, nprep, ncomm, nreset, stayedAdmitted>>
atomics == <<announced, prepared, committed>>
outVars == <<opc, cand, txAt>>
ledVars == <<lastSeq, lit, acceptedAt, needsRecovery, litGen>>
vars == <<now, loadFirst, announced, prepared, committed, frameQueue, rxGen, lastRx,
          sessionId, npc, nframe, nadmission, nloaded, nprep, ncomm, nreset,
          opc, cand, txAt, lastSeq, lit, acceptedAt, needsRecovery, keyed,
          litGen, stayedAdmitted>>

----------------------------------------------------------------------------
(* What the host put on the air, and when a frame is due                   *)

Deadline(f) == SentAt[f] + Lead
Start(f) == Deadline(f) - Wire
InAir(f) == SentAt[f] <= now

(* isSessionStartFrame, isFrameSequenceAcceptable (far from the 2^32 wrap) *)
(* and isSessionGenerationAdmitted.                                        *)
IsKey(f) == f.seq = 1
SequenceAcceptable(f, last) == last = 0 \/ IsKey(f) \/ f.seq > last
AdmittedOnceOpened(g, p, c) == g # 0  \* mutant
Admitted(g, p, c) == g # 0 /\ (p = g \/ c = g)

(* evaluateDeadline with a ready clock, and calculateTransmitStart.        *)
DeadlineMissed(f) == now > Deadline(f) + Tolerance
StartMissed(f) == now > Start(f) + Tolerance

(* duplicate_session_start: the apply and media time of the last KEY.      *)
DuplicateOfAnySession(f) == IsKey(f) /\ sessionId # 0  \* mutant
Duplicate(f) == IsKey(f) /\ sessionId = f.session

NextGen(g) == g + 1
CandidateGen == IF IsKey(nframe) /\ ~Duplicate(nframe) THEN NextGen(rxGen) ELSE rxGen

Init ==
    /\ now = 0 /\ loadFirst \in LoadFirst
    /\ announced = 0 /\ prepared = 0 /\ committed = 0
    /\ frameQueue = {}
    /\ rxGen = 0 /\ lastRx = 0 /\ sessionId = 0
    /\ npc = "listen" /\ nframe = NoFrame /\ nadmission = FALSE
    /\ nloaded = {} /\ nprep = 0 /\ ncomm = 0 /\ nreset = FALSE
    /\ opc = "safety" /\ cand = NoItem /\ txAt = 0
    /\ lastSeq = 0 /\ lit = {} /\ acceptedAt = 0 /\ needsRecovery = FALSE
    /\ keyed = {} /\ litGen = 0 /\ stayedAdmitted = FALSE

Tick ==
    /\ now < MaxTime
    /\ now' = now + 1
    /\ UNCHANGED <<loadFirst, announced, prepared, committed, frameQueue, rxVars, netVars,
                   outVars, ledVars, keyed>>

----------------------------------------------------------------------------
(* networkTask                                                             *)

(* The end of an iteration: its locals go out of scope.                    *)
NetIdle ==
    /\ npc' = "listen" /\ nframe' = NoFrame /\ nadmission' = FALSE
    /\ nloaded' = {} /\ nprep' = 0 /\ ncomm' = 0 /\ nreset' = FALSE
    /\ stayedAdmitted' = FALSE

(* A distinct KEY announces a generation; any other frame first asks       *)
(* whether the current one is admitted.                                    *)
NetTake(f, admissionOnly) ==
    /\ npc = "listen"
    /\ InAir(f)
    /\ IsKey(f) /\ ~Duplicate(f) => rxGen < MaxGen
    /\ npc' = IF IsKey(f) /\ ~Duplicate(f) THEN "announce" ELSE "admission"
    /\ nframe' = f
    /\ nadmission' = admissionOnly
    /\ stayedAdmitted' = Admitted(rxGen, prepared, committed)
    /\ UNCHANGED <<now, loadFirst, atomics, frameQueue, rxVars, nloaded, nprep, ncomm,
                   nreset, outVars, ledVars, keyed>>

(* A complete scheduled frame whose deadline the ready clock accepts.      *)
NetReceive(f) ==
    /\ ~DeadlineMissed(f)
    /\ SequenceAcceptable(f, lastRx)
    /\ NetTake(f, FALSE)

(* A KEY while the clock is still being acquired: admission only.          *)
NetRecover(f) == IsKey(f) /\ NetTake(f, TRUE)

(* The two loads of the admission check, in the order the build has chosen. *)
NetLoad(atomic) ==
    /\ npc = "admission"
    /\ atomic \notin nloaded
    /\ nloaded = {} => atomic = loadFirst
    /\ nloaded' = nloaded \cup {atomic}
    /\ nprep' = IF atomic = "prepared" THEN prepared ELSE nprep
    /\ ncomm' = IF atomic = "committed" THEN committed ELSE ncomm
    /\ stayedAdmitted' = (stayedAdmitted /\ (atomic = "prepared" \/ nloaded # {}))
    /\ UNCHANGED <<now, loadFirst, atomics, frameQueue, rxVars, npc, nframe, nadmission,
                   nreset, outVars, ledVars, keyed>>

Loaded == npc = "admission" /\ nloaded = {"prepared", "committed"}

(* A copy of an admitted KEY is redundant; a continuation of a generation  *)
(* that is not admitted is rejected.                                       *)
NetDrop ==
    /\ Loaded
    /\ IsKey(nframe) <=> Admitted(rxGen, nprep, ncomm)
    /\ NetIdle
    /\ UNCHANGED <<now, loadFirst, atomics, frameQueue, rxVars, outVars, ledVars, keyed>>

NetProceed ==
    /\ Loaded
    /\ ~(IsKey(nframe) <=> Admitted(rxGen, nprep, ncomm))
    /\ npc' = IF IsKey(nframe) THEN "enqueue" ELSE "sample"
    /\ UNCHANGED <<now, loadFirst, atomics, frameQueue, rxVars, nframe, nadmission,
                   nloaded, nprep, ncomm, nreset, stayedAdmitted, outVars,
                   ledVars, keyed>>

(* Announce first: an old item already taken by outputTask then fails its  *)
(* generation check.                                                       *)
NetAnnounce ==
    /\ npc = "announce"
    /\ announced' = NextGen(rxGen)
    /\ npc' = "flush"
    /\ UNCHANGED <<now, loadFirst, prepared, committed, frameQueue, rxVars, nframe,
                   nadmission, nloaded, nprep, ncomm, nreset, stayedAdmitted,
                   outVars, ledVars, keyed>>

(* Mutant: the queue is not reset.                                         *)
NetFlushNothing ==
    /\ npc = "flush"
    /\ npc' = "enqueue"
    /\ UNCHANGED <<now, loadFirst, atomics, frameQueue, rxVars, nframe, nadmission,
                   nloaded, nprep, ncomm, nreset, stayedAdmitted, outVars, ledVars, keyed>>

(* xQueueReset                                                             *)
NetFlush ==
    /\ npc = "flush"
    /\ frameQueue' = {}
    /\ npc' = "enqueue"
    /\ UNCHANGED <<now, loadFirst, atomics, rxVars, nframe, nadmission, nloaded, nprep,
                   ncomm, nreset, stayedAdmitted, outVars, ledVars, keyed>>

(* allow_sequence_reset: the KEY was prepared and nothing committed yet.   *)
NetSamplePrepared ==
    /\ npc = "sample"
    /\ nprep' = prepared
    /\ npc' = "sampled"
    /\ UNCHANGED <<now, loadFirst, atomics, frameQueue, rxVars, nframe, nadmission,
                   nloaded, ncomm, nreset, stayedAdmitted, outVars, ledVars, keyed>>

NetSampleCommitted ==
    /\ npc = "sampled"
    /\ nreset' = (rxGen # 0 /\ nprep = rxGen /\ committed # rxGen)
    /\ npc' = "enqueue"
    /\ UNCHANGED <<now, loadFirst, atomics, frameQueue, rxVars, nframe, nadmission,
                   nloaded, nprep, ncomm, stayedAdmitted, outVars, ledVars, keyed>>

(* xQueueOverwrite, then the receive state of the session.                 *)
NetEnqueue ==
    /\ npc = "enqueue"
    /\ frameQueue' = {[frame |-> nframe, gen |-> CandidateGen,
                       reset |-> nreset, admission |-> nadmission]}
    /\ rxGen' = CandidateGen
    /\ lastRx' = nframe.seq
    /\ sessionId' = IF IsKey(nframe) THEN nframe.session ELSE sessionId
    /\ NetIdle
    /\ UNCHANGED <<now, loadFirst, atomics, outVars, ledVars, keyed>>

Network ==
    \/ \E f \in HostFrame : NetReceive(f) \/ NetRecover(f)
    \/ \E atomic \in {"prepared", "committed"} : NetLoad(atomic)
    \/ NetDrop \/ NetProceed \/ NetAnnounce \/ NetFlush
    \/ NetSamplePrepared \/ NetSampleCommitted \/ NetEnqueue

----------------------------------------------------------------------------
(* outputTask                                                              *)

(* LedOutput::timedOut                                                     *)
TimedOutOnce == ~needsRecovery /\ lit # {} /\ now - acceptedAt > Timeout  \* mutant
TimedOut == needsRecovery \/ (lit # {} /\ now - acceptedAt > Timeout)

(* The safe-timeout check that precedes every queue receive.               *)
OutSafe ==
    /\ opc = "safety"
    /\ ~TimedOut
    /\ opc' = "poll"
    /\ UNCHANGED <<now, loadFirst, atomics, frameQueue, rxVars, netVars, cand, txAt,
                   ledVars, keyed>>

(* showBlack                                                               *)
OutShowBlack ==
    /\ opc = "safety"
    /\ TimedOut
    /\ lit' = {}
    /\ needsRecovery' = FALSE
    /\ opc' = "poll"
    /\ UNCHANGED <<now, loadFirst, atomics, frameQueue, rxVars, netVars, cand, txAt,
                   lastSeq, acceptedAt, litGen, keyed>>

OutShowBlackFails ==
    /\ opc = "safety"
    /\ TimedOut
    /\ needsRecovery' = TRUE
    /\ opc' = "poll"
    /\ UNCHANGED <<now, loadFirst, atomics, frameQueue, rxVars, netVars, cand, txAt,
                   lastSeq, lit, acceptedAt, litGen, keyed>>

(* Less than kSafeRetryMs after an attempt; a state that timed out without *)
(* a failure had its last attempt longer ago than SAFE_TIMEOUT_MS.         *)
OutShowBlackWaits ==
    /\ opc = "safety"
    /\ needsRecovery
    /\ opc' = "poll"
    /\ UNCHANGED <<now, loadFirst, atomics, frameQueue, rxVars, netVars, cand, txAt,
                   ledVars, keyed>>

(* xQueueReceive, and its timeout                                          *)
OutReceive ==
    /\ opc = "poll"
    /\ \E item \in frameQueue : cand' = item
    /\ frameQueue' = {}
    /\ opc' = "check"
    /\ UNCHANGED <<now, loadFirst, atomics, rxVars, netVars, txAt, ledVars, keyed>>

OutIdle ==
    /\ opc = "poll"
    /\ frameQueue = {}
    /\ opc' = "safety"
    /\ UNCHANGED <<now, loadFirst, atomics, frameQueue, rxVars, netVars, cand, txAt,
                   ledVars, keyed>>

Current == cand.gen = announced

(* The candidate is given up: the loop goes on, or (only for a KEY) first  *)
(* revokes the preparation.                                                *)
GiveUp(revoke) ==
    /\ opc' = IF revoke /\ IsKey(cand.frame) THEN "revoke" ELSE "safety"
    /\ cand' = IF revoke /\ IsKey(cand.frame) THEN cand ELSE NoItem
    /\ txAt' = 0

OutStale ==
    /\ opc = "check"
    /\ ~Current
    /\ GiveUp(TRUE)
    /\ UNCHANGED <<now, loadFirst, atomics, frameQueue, rxVars, netVars, ledVars, keyed>>

OutCurrent ==
    /\ opc = "check"
    /\ Current
    /\ opc' = "encode"
    /\ UNCHANGED <<now, loadFirst, atomics, frameQueue, rxVars, netVars, cand, txAt,
                   ledVars, keyed>>

(* prepareFrame; only a scheduled item passes allow_sequence_reset.        *)
Preparable ==
    \/ ~cand.admission /\ cand.reset
    \/ SequenceAcceptable(cand.frame, lastSeq)

OutPrepare ==
    /\ opc = "encode"
    /\ Preparable
    /\ IF IsKey(cand.frame)
         THEN prepared' = cand.gen /\ keyed' = keyed \cup {cand.gen}
         ELSE UNCHANGED <<prepared, keyed>>
    /\ IF cand.admission THEN GiveUp(FALSE)
                         ELSE opc' = "schedule" /\ UNCHANGED <<cand, txAt>>
    /\ UNCHANGED <<now, loadFirst, announced, committed, frameQueue, rxVars, netVars, ledVars>>

(* Only the sequence can be refused: whether a frame encodes depends on    *)
(* the compiled outputs alone, and begin() has encoded and sent two black  *)
(* frames for them.                                                        *)
OutPrepareFails ==
    /\ opc = "encode"
    /\ ~Preparable
    /\ GiveUp(TRUE)
    /\ UNCHANGED <<now, loadFirst, atomics, frameQueue, rxVars, netVars, ledVars, keyed>>

(* calculateTransmitStart; a late KEY stays prepared.                      *)
OutTooLate ==
    /\ opc = "schedule"
    /\ StartMissed(cand.frame)
    /\ GiveUp(FALSE)
    /\ UNCHANGED <<now, loadFirst, atomics, frameQueue, rxVars, netVars, ledVars, keyed>>

OutSchedule ==
    /\ opc = "schedule"
    /\ ~StartMissed(cand.frame)
    /\ opc' = "wait"
    /\ UNCHANGED <<now, loadFirst, atomics, frameQueue, rxVars, netVars, cand, txAt,
                   ledVars, keyed>>

(* waitForTransmitStart                                                    *)
OutCancelled ==
    /\ opc = "wait"
    /\ ~Current
    /\ GiveUp(TRUE)
    /\ UNCHANGED <<now, loadFirst, atomics, frameQueue, rxVars, netVars, ledVars, keyed>>

OutAwake ==
    /\ opc = "wait"
    /\ Current
    /\ now >= Start(cand.frame)
    /\ opc' = "recheck"
    /\ UNCHANGED <<now, loadFirst, atomics, frameQueue, rxVars, netVars, cand, txAt,
                   ledVars, keyed>>

(* The re-evaluation before GPIO is touched: the time, then the generation.*)
OutRecheckFails ==
    /\ opc = "recheck"
    /\ StartMissed(cand.frame) \/ ~Current
    /\ GiveUp(~Current)
    /\ UNCHANGED <<now, loadFirst, atomics, frameQueue, rxVars, netVars, ledVars, keyed>>

OutRecheck ==
    /\ opc = "recheck"
    /\ ~StartMissed(cand.frame)
    /\ Current
    /\ opc' = "transmit"
    /\ txAt' = now
    /\ UNCHANGED <<now, loadFirst, atomics, frameQueue, rxVars, netVars, cand, ledVars, keyed>>

(* transmitPrepared(millis(), false): the transaction takes the wire time. *)
OutTransmit ==
    /\ opc = "transmit"
    /\ now >= txAt + Wire
    /\ lastSeq' = cand.frame.seq
    /\ lit' = {cand.frame}
    /\ acceptedAt' = txAt
    /\ needsRecovery' = FALSE
    /\ litGen' = cand.gen
    /\ opc' = "publish"
    /\ txAt' = 0
    /\ UNCHANGED <<now, loadFirst, atomics, frameQueue, rxVars, netVars, cand, keyed>>

(* The transaction failed and the committed frame is sent again, or not.   *)
OutTransmitFails ==
    /\ opc = "transmit"
    /\ needsRecovery' \in BOOLEAN
    /\ GiveUp(FALSE)
    /\ UNCHANGED <<now, loadFirst, atomics, frameQueue, rxVars, netVars, lastSeq, lit,
                   acceptedAt, litGen, keyed>>

(* Mutant: the generation is not stored.                                   *)
OutPublishNothing ==
    /\ opc = "publish"
    /\ opc' = "release"
    /\ UNCHANGED <<now, loadFirst, atomics, frameQueue, rxVars, netVars, cand, txAt, ledVars, keyed>>

(* committed_session_generation.store, then the compare-exchange that      *)
(* takes the generation out of prepared.                                   *)
OutPublish ==
    /\ opc = "publish"
    /\ committed' = cand.gen
    /\ opc' = "release"
    /\ UNCHANGED <<now, loadFirst, announced, prepared, frameQueue, rxVars, netVars, cand,
                   txAt, ledVars, keyed>>

OutRelease ==
    /\ opc = "release"
    /\ prepared' = IF prepared = cand.gen THEN 0 ELSE prepared
    /\ GiveUp(FALSE)
    /\ UNCHANGED <<now, loadFirst, announced, committed, frameQueue, rxVars, netVars,
                   ledVars, keyed>>

(* revokePreparedSession                                                   *)
OutRevoke ==
    /\ opc = "revoke"
    /\ prepared' = IF prepared = cand.gen THEN 0 ELSE prepared
    /\ stayedAdmitted' = (stayedAdmitted /\ Admitted(rxGen, prepared', committed))
    /\ GiveUp(FALSE)
    /\ UNCHANGED <<now, loadFirst, announced, committed, frameQueue, rxVars, npc, nframe,
                   nadmission, nloaded, nprep, ncomm, nreset, ledVars, keyed>>

Output ==
    \/ OutSafe \/ OutShowBlack \/ OutShowBlackFails \/ OutShowBlackWaits
    \/ OutReceive \/ OutIdle \/ OutStale \/ OutCurrent
    \/ OutPrepare \/ OutPrepareFails \/ OutTooLate \/ OutSchedule
    \/ OutCancelled \/ OutAwake \/ OutRecheckFails \/ OutRecheck
    \/ OutTransmit \/ OutTransmitFails \/ OutPublish \/ OutRelease \/ OutRevoke

Next == Tick \/ Network \/ Output

Spec == Init /\ [][Next]_vars

(* The tasks never stop, and the host's time goes on.  The receive timeout *)
(* and the retries of showBlack bring the output task back to the safety   *)
(* check for ever; the strip's driver works infinitely often when tried.   *)
Fairness == WF_now(Tick) /\ WF_vars(Output) /\ SF_vars(OutShowBlack)

FairSpec == Spec /\ Fairness

----------------------------------------------------------------------------
(* Properties                                                              *)

(* Every variable of the two tasks stays in its type; in particular no     *)
(* generation passes MaxGen.                                               *)
TypeOK ==
    /\ loadFirst \in LoadFirst /\ now \in Nat /\ txAt \in Nat /\ acceptedAt \in Nat
    /\ announced \in Generation /\ prepared \in Generation
    /\ committed \in Generation /\ rxGen \in Generation
    /\ nprep \in Generation /\ ncomm \in Generation /\ litGen \in Generation
    /\ frameQueue \in SUBSET Item /\ cand \in Item
    /\ lastRx \in 0..SeqMax /\ lastSeq \in 0..SeqMax /\ sessionId \in 0..Sessions
    /\ npc \in {"listen", "admission", "announce", "flush", "sample",
                "sampled", "enqueue"}
    /\ opc \in {"safety", "poll", "check", "encode", "schedule", "wait",
                "recheck", "transmit", "publish", "release", "revoke"}
    /\ nframe \in Frame /\ lit \in SUBSET Frame /\ keyed \in SUBSET Generation
    /\ nloaded \in SUBSET {"prepared", "committed"}
    /\ nadmission \in BOOLEAN /\ nreset \in BOOLEAN
    /\ needsRecovery \in BOOLEAN /\ stayedAdmitted \in BOOLEAN

(* The tasks agree on the order of sessions: what the output task reports  *)
(* never runs ahead of what the network task announced; the network task   *)
(* works under the generation it announced; and, but for the instant       *)
(* between an announcement and the reset of the queue, only the announced  *)
(* generation is queued.                                                   *)
GenerationOrder ==
    /\ prepared <= announced /\ committed <= announced /\ cand.gen <= announced
    /\ announced = IF npc \in {"flush", "enqueue"} THEN CandidateGen ELSE rxGen
    /\ npc # "flush" => \A item \in frameQueue : item.gen = announced

(* A frame that continues a session is queued, taken or shown only when    *)
(* the KEY of its generation has been completely encoded: "non-KEY frames  *)
(* remain rejected before that boundary" (CLOSED_LOOP_SPEC.md:361).        *)
AdmittedByKey ==
    /\ \A item \in frameQueue : IsKey(item.frame) \/ item.gen \in keyed
    /\ cand # NoItem => IsKey(cand.frame) \/ cand.gen \in keyed
    /\ lit # {} => litGen \in keyed

(* Two sessions never share a generation: a KEY queued or taken under the  *)
(* current generation is a copy of the KEY that opened it.                 *)
OneIdentityPerGeneration ==
    \A item \in frameQueue \cup {cand} :
        IsKey(item.frame) /\ item.gen = rxGen => item.frame.session = sessionId

(* A generation that has been admitted since the frame arrived reads as    *)
(* admitted in a build that loads prepared first: a copy of its KEY is     *)
(* dropped as "delivery redundancy" (main.cpp:599) and a continuation goes *)
(* through.                                                                *)
AdmissionNeverMissed ==
    Loaded /\ stayedAdmitted => Admitted(rxGen, nprep, ncomm)

(* A KEY that waits in the queue and has not been encoded is displaced     *)
(* only by a newer session or by a copy of itself, never by a continuation *)
(* ("Never overwrite the session-start frame", main.cpp:639).              *)
KeyNotDisplaced ==
    [][\A item \in frameQueue :
          IsKey(item.frame) /\ item.gen \notin keyed
            => \/ item \in frameQueue'
               \/ cand' = item
               \/ announced > item.gen
               \/ \E copy \in frameQueue' : copy.frame = item.frame /\ copy.gen = item.gen]_vars

(* A copy of a KEY that has been committed is not committed again: "those   *)
(* copies must create only one generation and one physical commit"         *)
(* (firmware/esp32_ws2811_node/README.md:342).  A copy that was queued     *)
(* before the first was encoded is, where the wire time is no longer than  *)
(* the tolerance.                                                          *)
CopiesCommitOnce ==
    [][opc = "transmit" /\ opc' = "publish" /\ IsKey(cand.frame)
          => litGen # cand.gen]_vars

(* What the strip shows, as StripPromise sees it.                          *)
Promise == INSTANCE StripPromise WITH
    Generations <- Generation, Frames <- Frame, SeqOf <- LAMBDA f : f.seq,
    admitted <- keyed, generation <- litGen, sequence <- lastSeq, strip <- lit

PreparedFirst == loadFirst = "prepared"

(* The node keeps the promise of its strip: whatever the air does, commits *)
(* go forward in an admitted session, and only the KEY may be repeated,    *)
(* before anything has followed it.  In a build that loads committed first *)
(* a copy may be shown after a continuation.                               *)
KeepsPromise ==
    Promise!Init /\ [][PreparedFirst => Promise!Next]_(Promise!promiseVars)

(* A KEY that was queued is eventually encoded, and its session admitted,  *)
(* unless a newer session takes its place: neither a continuation nor a    *)
(* candidate that waits for its deadline can hold it up for ever.          *)
KeyEventuallyAdmitted ==
    \A g \in 1..MaxGen :
        (\E item \in frameQueue : IsKey(item.frame) /\ item.gen = g)
            ~> (g \in keyed \/ announced > g)

(* Once the host has gone quiet the strip goes black and stays black,      *)
(* whatever the tasks were doing, if the driver works now and then.        *)
EventuallyBlack == <>[](lit = {})

=============================================================================
