------------------------- MODULE NodeSessionProofs -------------------------
(***************************************************************************)
(* Proofs about NodeSession for every host schedule, every number of       *)
(* sessions and frames, every timing constant and every order of the loads.*)
(***************************************************************************)
EXTENDS NodeSession, TLAPS

(* The network task has decided to open a session.                         *)
Opening(f) == IsKey(f) /\ ~Duplicate(f)

(* What each program point of the network task knows about its frame.      *)
NetworkKnows ==
    /\ npc # "listen" => nframe \in HostFrame
    /\ npc \in {"announce", "flush"} => Opening(nframe)
    /\ npc = "announce" => rxGen < MaxGen
    /\ npc = "admission" => ~Opening(nframe)
    /\ npc \in {"sample", "sampled"} => ~IsKey(nframe) /\ rxGen \in keyed
    /\ npc = "enqueue" => IsKey(nframe) \/ rxGen \in keyed
    /\ sessionId # 0 => rxGen # 0

(* Every admission on record follows the encoding of the KEY.              *)
RecordsKeyed ==
    /\ 0 \notin keyed
    /\ prepared # 0 => prepared \in keyed
    /\ committed # 0 => committed \in keyed
    /\ nprep # 0 => nprep \in keyed
    /\ ncomm # 0 => ncomm \in keyed
    /\ opc \in {"schedule", "wait", "recheck", "transmit", "publish", "release"}
         => cand.gen \in keyed

(* While a session opens, everything queued or taken is of older ones.     *)
OlderThanOpening ==
    npc \in {"flush", "enqueue"} /\ Opening(nframe)
      => /\ cand.gen <= rxGen
         /\ npc = "flush" => \A item \in frameQueue : item.gen <= rxGen
         /\ npc = "enqueue" => frameQueue = {}

(* The queue holds one item, and what is queued or taken belongs to a       *)
(* session that was opened.                                                *)
ItemsBelong ==
    /\ \A item, other \in frameQueue : item = other
    /\ \A item \in frameQueue : item.gen # 0
    /\ opc \notin {"safety", "poll"} => cand.gen # 0

IInv == /\ TypeOK /\ GenerationOrder /\ AdmittedByKey /\ OneIdentityPerGeneration
        /\ NetworkKnows /\ RecordsKeyed /\ OlderThanOpening /\ ItemsBelong

----------------------------------------------------------------------------

LEMMA InitEstablishes == Init => IInv
<1> SUFFICES ASSUME Init PROVE IInv
    OBVIOUS
<1> USE SizeAssumption DEF Init
<1>1. TypeOK
  <2>1. NoFrame \in Frame
    BY DEF Frame, NoFrame
  <2>2. NoItem \in Item
    BY <2>1 DEF Item, NoItem, Generation
  <2>3. 0 \in Generation /\ 0 \in 0..SeqMax /\ 0 \in 0..Sessions
    BY DEF Generation
  <2> QED
    BY <2>1, <2>2, <2>3 DEF TypeOK
<1>2. GenerationOrder /\ RecordsKeyed /\ ItemsBelong /\ OlderThanOpening
  BY DEF GenerationOrder, RecordsKeyed, ItemsBelong, OlderThanOpening, NoItem
<1>3. AdmittedByKey /\ OneIdentityPerGeneration /\ NetworkKnows
  BY DEF AdmittedByKey, OneIdentityPerGeneration, NetworkKnows, NoItem, NoFrame, IsKey
<1> QED
  BY <1>1, <1>2, <1>3 DEF IInv


(* Facts about the values the two tasks start over with.                   *)
LEMMA ZeroValues ==
    /\ NoFrame \in Frame /\ NoItem \in Item /\ 0 \in Generation
    /\ HostFrame \subseteq Frame
    /\ NoItem.gen = 0 /\ NoItem.frame.seq = 0
<1>1. NoFrame \in Frame /\ HostFrame \subseteq Frame
  BY SizeAssumption DEF NoFrame, Frame, HostFrame
<1>2. 0 \in Generation
  BY SizeAssumption DEF Generation
<1> QED
  BY <1>1, <1>2 DEF NoItem, Item, NoFrame

(* The end of an iteration of the network task types its locals.           *)
LEMMA IdleTyped ==
    ASSUME NetIdle
    PROVE  /\ nframe' \in Frame /\ nprep' \in Generation /\ ncomm' \in Generation
           /\ nadmission' \in BOOLEAN /\ nreset' \in BOOLEAN
           /\ stayedAdmitted' \in BOOLEAN
           /\ nloaded' \in SUBSET {"prepared", "committed"}
  BY ZeroValues DEF NetIdle

LEMMA TickPreserves == ASSUME IInv, Tick \/ UNCHANGED vars PROVE IInv'
<1> USE DEF IInv, TypeOK, GenerationOrder, AdmittedByKey, OneIdentityPerGeneration,
            NetworkKnows, RecordsKeyed, OlderThanOpening, ItemsBelong,
            CandidateGen, Opening, Duplicate
<1>1. CASE Tick
  BY <1>1 DEF Tick, rxVars, netVars, outVars, ledVars
<1>2. CASE UNCHANGED vars
  BY <1>2 DEF vars
<1> QED
  BY <1>1, <1>2

----------------------------------------------------------------------------
(* Each step of the network task                                           *)

LEMMA NetworkPreserves == ASSUME IInv, Network PROVE IInv'
<1> USE SizeAssumption
    DEF IInv, GenerationOrder, AdmittedByKey, OneIdentityPerGeneration, NetworkKnows,
        RecordsKeyed, OlderThanOpening, ItemsBelong, atomics, rxVars, outVars, ledVars
<1>1. ASSUME NEW f \in HostFrame, NetReceive(f) \/ NetRecover(f) PROVE IInv'
  <2>1. PICK only \in BOOLEAN : NetTake(f, only)
    BY <1>1 DEF NetReceive, NetRecover
  <2>2. TypeOK'
    BY <2>1, ZeroValues DEF NetTake, TypeOK, Admitted
  <2>3. NetworkKnows'
    BY <2>1 DEF NetTake, Opening, Duplicate, IsKey
  <2>4. GenerationOrder' /\ AdmittedByKey' /\ OneIdentityPerGeneration'
        /\ RecordsKeyed' /\ OlderThanOpening' /\ ItemsBelong'
    BY <2>1 DEF NetTake
  <2> QED
    BY <2>2, <2>3, <2>4
<1>2. ASSUME NEW atomic \in {"prepared", "committed"}, NetLoad(atomic) PROVE IInv'
  BY <1>2 DEF NetLoad, TypeOK, CandidateGen, Opening, Duplicate
<1>3. ASSUME NetDrop PROVE IInv'
  <2>1. TypeOK'
    BY <1>3, IdleTyped DEF NetDrop, NetIdle, TypeOK
  <2>2. GenerationOrder' /\ AdmittedByKey' /\ OneIdentityPerGeneration'
        /\ NetworkKnows' /\ RecordsKeyed' /\ OlderThanOpening' /\ ItemsBelong'
    BY <1>3 DEF NetDrop, NetIdle, Loaded
  <2> QED
    BY <2>1, <2>2
(* A continuation passes only when an admission on record admits it.       *)
<1>4. ASSUME NetProceed PROVE IInv'
  <2>1. TypeOK'
    BY <1>4 DEF NetProceed, TypeOK
  <2>2. GenerationOrder'
    BY <1>4 DEF NetProceed, Loaded, CandidateGen, Opening, Duplicate
  <2>3. NetworkKnows'
    BY <1>4 DEF NetProceed, Loaded, Admitted
  <2>4. AdmittedByKey' /\ OneIdentityPerGeneration'
        /\ RecordsKeyed' /\ OlderThanOpening' /\ ItemsBelong'
    BY <1>4 DEF NetProceed, Loaded, Opening, Duplicate
  <2> QED
    BY <2>1, <2>2, <2>3, <2>4
<1>5. ASSUME NetAnnounce PROVE IInv'
  <2>1. TypeOK'
    BY <1>5 DEF NetAnnounce, NextGen, Generation, TypeOK
  <2>2. GenerationOrder' /\ OlderThanOpening'
    BY <1>5 DEF NetAnnounce, NextGen, Generation, TypeOK, Item, CandidateGen,
               Opening, Duplicate
  <2>3. AdmittedByKey' /\ OneIdentityPerGeneration' /\ NetworkKnows'
        /\ RecordsKeyed' /\ ItemsBelong'
    BY <1>5 DEF NetAnnounce, Opening, Duplicate
  <2> QED
    BY <2>1, <2>2, <2>3
<1>6. ASSUME NetFlush PROVE IInv'
  BY <1>6 DEF NetFlush, TypeOK, CandidateGen, Opening, Duplicate
<1>7. ASSUME NetSamplePrepared PROVE IInv'
  BY <1>7 DEF NetSamplePrepared, TypeOK
<1>8. ASSUME NetSampleCommitted PROVE IInv'
  BY <1>8 DEF NetSampleCommitted, TypeOK, CandidateGen, Opening, Duplicate
(* The new item is of the session just opened, or of the current one.      *)
<1>9. ASSUME NetEnqueue PROVE IInv'
  <2> DEFINE new == [frame |-> nframe, gen |-> CandidateGen,
                     reset |-> nreset, admission |-> nadmission]
  <2>1. nframe \in HostFrame /\ frameQueue' = {new} /\ announced = CandidateGen
    BY <1>9 DEF NetEnqueue
  <2>2. CandidateGen \in Generation /\ new \in Item
    BY <2>1, ZeroValues DEF TypeOK, Item
  <2>3. TypeOK'
    <3>1. lastRx' \in 0..SeqMax /\ sessionId' \in 0..Sessions
      BY <1>9, <2>1 DEF NetEnqueue, HostFrame, TypeOK
    <3>2. npc' = "listen" /\ UNCHANGED <<now, loadFirst, atomics, outVars, ledVars, keyed>>
          /\ rxGen' = CandidateGen /\ NetIdle
      BY <1>9 DEF NetEnqueue, NetIdle
    <3> QED
      BY <2>1, <2>2, <3>1, <3>2, IdleTyped DEF TypeOK
  <2>4. GenerationOrder'
    BY <1>9, <2>1 DEF NetEnqueue, NetIdle
  <2>5. CandidateGen # 0
    BY <1>9, <2>1 DEF NetEnqueue, CandidateGen, NextGen, Generation, Duplicate,
                      HostFrame, TypeOK, RecordsKeyed
  <2>6. AdmittedByKey' /\ RecordsKeyed' /\ OlderThanOpening' /\ ItemsBelong'
    BY <1>9, <2>1, <2>5 DEF NetEnqueue, NetIdle, CandidateGen
  <2>7. OneIdentityPerGeneration'
    BY <1>9, <2>1 DEF NetEnqueue, NetIdle, CandidateGen, NextGen, Opening, Duplicate,
                      IsKey, Generation, TypeOK
  <2>8. NetworkKnows'
    BY <1>9, <2>1, <2>5 DEF NetEnqueue, NetIdle
  <2> QED
    BY <2>3, <2>4, <2>6, <2>7, <2>8
<1> QED
  BY <1>1, <1>2, <1>3, <1>4, <1>5, <1>6, <1>7, <1>8, <1>9 DEF Network

----------------------------------------------------------------------------
(* Each step of the output task                                            *)

(* Giving a candidate up leaves none, or keeps it to be revoked.           *)
LEMMA GiveUpKeeps ==
    ASSUME IInv, opc \notin {"safety", "poll"}, NEW revoke \in BOOLEAN, GiveUp(revoke)
    PROVE  /\ opc' \in {"safety", "revoke"} /\ txAt' = 0
           /\ cand' \in Item /\ cand'.gen <= announced
           /\ cand' = NoItem \/ cand' = cand
           /\ opc' # "safety" => cand'.gen # 0
           /\ ~IsKey(NoItem.frame)
<1>1. ~IsKey(NoItem.frame) /\ NoItem \in Item /\ NoItem.gen = 0 /\ 0 <= announced
  BY ZeroValues DEF IsKey, IInv, TypeOK, Generation
<1>2. cand \in Item /\ cand.gen <= announced /\ cand.gen # 0
  BY DEF IInv, TypeOK, GenerationOrder, ItemsBelong
<1> QED
  BY <1>1, <1>2 DEF GiveUp

(* What the output task does to the rest when it gives a candidate up and  *)
(* touches nothing else, or only what the LED driver keeps.                *)
LEMMA GiveUpPreserves ==
    ASSUME IInv, opc \notin {"safety", "poll"}, NEW revoke \in BOOLEAN, GiveUp(revoke),
           needsRecovery' \in BOOLEAN,
           UNCHANGED <<now, loadFirst, atomics, frameQueue, rxVars, netVars, lastSeq, lit,
                       acceptedAt, litGen, keyed>>
    PROVE  IInv'
<1> USE GiveUpKeeps DEF atomics, rxVars, netVars
<1>1. TypeOK'
  BY DEF IInv, TypeOK
<1>2. GenerationOrder' /\ OlderThanOpening'
  BY ZeroValues DEF IInv, TypeOK, GenerationOrder, OlderThanOpening, CandidateGen, Opening,
     Duplicate, Generation
<1>3. AdmittedByKey' /\ OneIdentityPerGeneration'
  BY DEF IInv, AdmittedByKey, OneIdentityPerGeneration
<1>4. NetworkKnows' /\ RecordsKeyed' /\ ItemsBelong'
  BY DEF IInv, NetworkKnows, RecordsKeyed, ItemsBelong, Opening, Duplicate
<1> QED
  BY <1>1, <1>2, <1>3, <1>4 DEF IInv

(* Steps that move on without touching what the tasks share.               *)
LEMMA MoveOnPreserves ==
    ASSUME IInv,
           OutSafe \/ OutIdle \/ OutCurrent \/ OutSchedule \/ OutAwake \/ OutRecheck
             \/ OutShowBlack \/ OutShowBlackFails \/ OutShowBlackWaits
    PROVE  IInv'
<1> USE DEF IInv, TypeOK, GenerationOrder, AdmittedByKey, OneIdentityPerGeneration,
        NetworkKnows, RecordsKeyed, OlderThanOpening, ItemsBelong, atomics, rxVars,
        netVars, ledVars, CandidateGen, Opening, Duplicate
<1>1. CASE OutSafe
  BY <1>1 DEF OutSafe
<1>2. CASE OutIdle
  BY <1>2 DEF OutIdle
<1>3. CASE OutCurrent
  BY <1>3 DEF OutCurrent
<1>4. CASE OutSchedule
  BY <1>4 DEF OutSchedule
<1>5. CASE OutAwake
  BY <1>5 DEF OutAwake
<1>6. CASE OutRecheck
  BY <1>6 DEF OutRecheck
<1>7. CASE OutShowBlack
  <2>1. TypeOK'
    BY <1>7 DEF OutShowBlack
  <2>2. GenerationOrder' /\ AdmittedByKey' /\ OneIdentityPerGeneration' /\ NetworkKnows'
        /\ RecordsKeyed' /\ OlderThanOpening' /\ ItemsBelong'
    BY <1>7 DEF OutShowBlack
  <2> QED
    BY <2>1, <2>2
<1>8. CASE OutShowBlackFails
  BY <1>8 DEF OutShowBlackFails
<1>9. CASE OutShowBlackWaits
  BY <1>9 DEF OutShowBlackWaits
<1> QED
  BY <1>1, <1>2, <1>3, <1>4, <1>5, <1>6, <1>7, <1>8, <1>9

LEMMA OutputPreserves == ASSUME IInv, Output PROVE IInv'
<1>1. ASSUME OutSafe \/ OutIdle \/ OutCurrent \/ OutSchedule \/ OutAwake \/ OutRecheck
               \/ OutShowBlack \/ OutShowBlackFails \/ OutShowBlackWaits
      PROVE  IInv'
  BY <1>1, MoveOnPreserves
<1>2. ASSUME OutStale \/ OutPrepareFails \/ OutTooLate \/ OutCancelled \/ OutRecheckFails
               \/ OutTransmitFails
      PROVE  IInv'
  <2>1. PICK revoke \in BOOLEAN : GiveUp(revoke)
    BY <1>2 DEF OutStale, OutPrepareFails, OutTooLate, OutCancelled, OutRecheckFails,
                OutTransmitFails
  <2>2. /\ opc \notin {"safety", "poll"} /\ needsRecovery' \in BOOLEAN
        /\ UNCHANGED <<now, loadFirst, atomics, frameQueue, rxVars, netVars, lastSeq, lit,
                       acceptedAt, litGen, keyed>>
    BY <1>2 DEF OutStale, OutPrepareFails, OutTooLate, OutCancelled, OutRecheckFails,
                OutTransmitFails, ledVars, IInv, TypeOK
  <2> QED
    BY <2>1, <2>2, GiveUpPreserves
<1> USE DEF IInv, GenerationOrder, AdmittedByKey, OneIdentityPerGeneration, NetworkKnows,
        RecordsKeyed, OlderThanOpening, ItemsBelong, atomics, rxVars, netVars, ledVars,
        CandidateGen, Opening, Duplicate
(* The item taken was queued under the generation the network announced.   *)
<1>3. ASSUME OutReceive PROVE IInv'
  <2>1. PICK item \in frameQueue : cand' = item
    BY <1>3 DEF OutReceive
  <2>2. item \in Item /\ item.gen <= announced /\ item.gen # 0
    BY <2>1 DEF TypeOK, Generation, Item, NextGen
  <2>3. TypeOK'
    BY <1>3, <2>1, <2>2 DEF OutReceive, TypeOK
  <2>4. GenerationOrder' /\ AdmittedByKey' /\ OneIdentityPerGeneration' /\ NetworkKnows'
        /\ RecordsKeyed' /\ OlderThanOpening' /\ ItemsBelong'
    BY <1>3, <2>1, <2>2 DEF OutReceive
  <2> QED
    BY <2>3, <2>4
(* Encoding a KEY puts its generation on record; a continuation is already *)
(* on record.                                                              *)
<1>4. ASSUME OutPrepare PROVE IInv'
  <2>1. /\ opc = "encode" /\ cand \in Item /\ cand.gen # 0 /\ cand.gen \in Generation
        /\ cand.gen <= announced /\ cand # NoItem
        /\ UNCHANGED <<now, loadFirst, announced, committed, frameQueue, rxVars, netVars, ledVars>>
    BY <1>4, ZeroValues DEF OutPrepare, TypeOK, Item
  <2>2. /\ keyed' \in SUBSET Generation /\ prepared' \in Generation
        /\ keyed \subseteq keyed' /\ 0 \notin keyed' /\ prepared' <= announced
        /\ prepared' # 0 => prepared' \in keyed'
        /\ cand.gen \in keyed'
    BY <1>4, <2>1 DEF OutPrepare, TypeOK
  <2>3. \/ opc' = "schedule" /\ UNCHANGED <<cand, txAt>>
        \/ /\ opc' = "safety" /\ cand' = NoItem /\ txAt' = 0
    BY <1>4 DEF OutPrepare, GiveUp
  <2>4. TypeOK'
    BY <2>1, <2>2, <2>3, ZeroValues DEF TypeOK
  <2>5. GenerationOrder' /\ OlderThanOpening'
    BY <2>1, <2>2, <2>3, ZeroValues DEF TypeOK, Generation
  <2>6. AdmittedByKey' /\ OneIdentityPerGeneration'
    BY <2>1, <2>2, <2>3, ZeroValues DEF IsKey
  <2>7. NetworkKnows' /\ RecordsKeyed' /\ ItemsBelong'
    BY <2>1, <2>2, <2>3
  <2> QED
    BY <2>4, <2>5, <2>6, <2>7
<1>5. ASSUME OutTransmit PROVE IInv'
  <2>1. TypeOK'
    BY <1>5 DEF OutTransmit, TypeOK, Item, Frame
  <2>2. GenerationOrder' /\ AdmittedByKey' /\ OneIdentityPerGeneration' /\ NetworkKnows'
        /\ RecordsKeyed' /\ OlderThanOpening' /\ ItemsBelong'
    BY <1>5 DEF OutTransmit
  <2> QED
    BY <2>1, <2>2
<1>6. ASSUME OutPublish PROVE IInv'
  BY <1>6 DEF OutPublish, TypeOK, Item
<1>7. ASSUME OutRelease \/ OutRevoke PROVE IInv'
  <2>1. /\ prepared' \in {0, prepared} /\ opc' = "safety" /\ cand' = NoItem /\ txAt' = 0
        /\ stayedAdmitted' \in BOOLEAN
        /\ UNCHANGED <<now, loadFirst, announced, committed, frameQueue, rxVars, npc, nframe, nadmission,
                       nloaded, nprep, ncomm, nreset, ledVars, keyed>>
    BY <1>7 DEF OutRelease, OutRevoke, GiveUp, TypeOK
  <2>2. TypeOK'
    BY <2>1, ZeroValues DEF TypeOK
  <2>3. GenerationOrder' /\ OlderThanOpening'
    BY <2>1, ZeroValues DEF TypeOK, Generation
  <2>4. AdmittedByKey' /\ OneIdentityPerGeneration' /\ NetworkKnows' /\ RecordsKeyed'
        /\ ItemsBelong'
    BY <2>1, ZeroValues DEF IsKey
  <2> QED
    BY <2>2, <2>3, <2>4
<1> QED
  BY <1>1, <1>2, <1>3, <1>4, <1>5, <1>6, <1>7 DEF Output

----------------------------------------------------------------------------
LEMMA Inductive == IInv /\ [Next]_vars => IInv'
  BY TickPreserves, NetworkPreserves, OutputPreserves DEF Next

LEMMA IInvHolds == Spec => []IInv
<1>1. Init => IInv
  BY InitEstablishes
<1>2. IInv /\ [Next]_vars => IInv'
  BY Inductive
<1> QED
  BY <1>1, <1>2, PTL DEF Spec

(* Every value stays in its type, for every host schedule and every size   *)
(* of the constants: the generations of both cores stay within MaxGen.     *)
THEOREM TypeCorrect == Spec => []TypeOK
<1>1. IInv => TypeOK
  BY DEF IInv
<1> QED
  BY <1>1, IInvHolds, PTL

(* The two cores agree on the order of sessions in every interleaving of   *)
(* networkTask and outputTask.                                             *)
THEOREM GenerationsOrdered == Spec => []GenerationOrder
<1>1. IInv => GenerationOrder
  BY DEF IInv
<1> QED
  BY <1>1, IInvHolds, PTL

(* No frame that continues a session is queued, taken or shown before the  *)
(* KEY of its generation has been completely encoded.                      *)
THEOREM ContinuationsAdmitted == Spec => []AdmittedByKey
<1>1. IInv => AdmittedByKey
  BY DEF IInv
<1> QED
  BY <1>1, IInvHolds, PTL

(* Two sessions never share a generation in the queue or in outputTask.    *)
THEOREM OneIdentity == Spec => []OneIdentityPerGeneration
<1>1. IInv => OneIdentityPerGeneration
  BY DEF IInv
<1> QED
  BY <1>1, IInvHolds, PTL

(* xQueueOverwrite never replaces a KEY that waits to be encoded by a      *)
(* frame that continues its session, and xQueueReset drops one only for a  *)
(* newer session.                                                          *)
THEOREM KeyKeepsItsPlace == Spec => KeyNotDisplaced
<1> DEFINE Kept(item) ==
       \/ item \in frameQueue'
       \/ cand' = item
       \/ announced > item.gen
       \/ \E copy \in frameQueue' : copy.frame = item.frame /\ copy.gen = item.gen
<1>1. ASSUME IInv, [Next]_vars, NEW item \in frameQueue, IsKey(item.frame), item.gen \notin keyed
      PROVE  Kept(item)
  <2>1. CASE frameQueue' = frameQueue
    BY <2>1
  <2>2. CASE NetFlush
    <3>1. announced = NextGen(rxGen) /\ item.gen <= rxGen /\ rxGen \in Nat /\ item.gen \in Nat
      BY <1>1, <2>2 DEF NetFlush, IInv, TypeOK, GenerationOrder, NetworkKnows, OlderThanOpening,
         CandidateGen, Opening, Item, Generation
    <3> QED
      BY <3>1 DEF NextGen
  <2>3. CASE NetEnqueue
    <3> DEFINE copy == [frame |-> nframe, gen |-> CandidateGen,
                        reset |-> nreset, admission |-> nadmission]
    <3>1. npc = "enqueue" /\ copy \in frameQueue' /\ nframe \in HostFrame
      BY <1>1, <2>3 DEF NetEnqueue, IInv, NetworkKnows
    <3>2. ~Opening(nframe) /\ CandidateGen = rxGen /\ item.gen = rxGen
      BY <1>1, <3>1 DEF IInv, OlderThanOpening, GenerationOrder, CandidateGen, Opening
    <3>3. IsKey(nframe) /\ nframe.session = sessionId
      BY <1>1, <3>1, <3>2 DEF IInv, NetworkKnows, Opening, Duplicate
    <3>4. item.frame.session = sessionId /\ item.frame \in Frame
      BY <1>1, <3>2 DEF IInv, OneIdentityPerGeneration, TypeOK, Item
    <3>5. item.frame = nframe
      BY <1>1, <3>1, <3>3, <3>4 DEF IsKey, Frame, HostFrame
    <3> QED
      BY <3>1, <3>2, <3>5
  <2>4. CASE OutReceive
    BY <1>1, <2>4 DEF OutReceive, IInv, ItemsBelong
  <2>5. frameQueue' = frameQueue \/ NetFlush \/ NetEnqueue \/ OutReceive
    BY <1>1 DEF Next, vars, Tick, Network, NetReceive, NetRecover, NetTake, NetLoad, NetDrop,
       NetProceed, NetAnnounce, NetSamplePrepared, NetSampleCommitted, Output, OutSafe,
       OutShowBlack, OutShowBlackFails, OutShowBlackWaits, OutIdle, OutStale, OutCurrent,
       OutPrepare, OutPrepareFails, OutTooLate, OutSchedule, OutCancelled, OutAwake,
       OutRecheckFails, OutRecheck, OutTransmit, OutTransmitFails, OutPublish, OutRelease,
       OutRevoke
  <2> QED
    BY <2>1, <2>2, <2>3, <2>4, <2>5
<1>2. IInv /\ [Next]_vars
        => [\A item \in frameQueue : IsKey(item.frame) /\ item.gen \notin keyed => Kept(item)]_vars
  BY <1>1
<1> QED
  BY <1>2, IInvHolds, PTL DEF Spec, KeyNotDisplaced
----------------------------------------------------------------------------
(* Admission is never missed                                               *)

Working == opc \notin {"safety", "poll"}

(* Generations rise on their way from the queue to the record of encoded   *)
(* KEYs and to the strip.                                                  *)
GenerationsRise ==
    /\ \A item \in frameQueue : item.gen = rxGen
    /\ \A g \in keyed : g <= rxGen /\ (Working => g <= cand.gen)
    /\ litGen # 0 => litGen \in keyed

(* Once its KEY is encoded the announced generation stays in one of the    *)
(* two atomics: it is stored in committed before it leaves prepared, and   *)
(* only an older candidate is revoked.                                     *)
StaysOnRecord ==
    /\ announced \in keyed => prepared = announced \/ committed = announced
    /\ opc = "release" => committed = cand.gen
    /\ opc = "revoke" => cand.gen < announced

(* What the loads saw of a generation that stayed admitted: one that has   *)
(* left prepared is in committed by then.                                  *)
LoadsSee ==
    /\ npc = "listen" => nloaded = {}
    /\ npc = "admission" /\ stayedAdmitted =>
          /\ rxGen \in keyed
          /\ "prepared" \in nloaded => nprep = rxGen \/ committed = rxGen
          /\ "committed" \in nloaded => "prepared" \in nloaded /\ (nprep = rxGen \/ ncomm = rxGen)

AdmissionInv == GenerationsRise /\ StaysOnRecord /\ LoadsSee

LEMMA GenerationTypes ==
    ASSUME IInv
    PROVE  /\ rxGen \in Nat /\ announced \in Nat /\ cand.gen \in Nat
           /\ prepared \in Nat /\ committed \in Nat /\ litGen \in Nat
           /\ keyed \subseteq Nat
           /\ \A item \in frameQueue : item.gen \in Nat
  BY DEF IInv, TypeOK, Generation, Item

(* outputTask's candidate is never of a session that is still opening.     *)
LEMMA CandidateNotAhead ==
    ASSUME IInv
    PROVE  /\ cand.gen <= rxGen
           /\ announced = rxGen \/ (announced = rxGen + 1 /\ npc \in {"flush", "enqueue"})
           /\ npc \in {"listen", "admission", "announce", "sample", "sampled"} => announced = rxGen
  BY GenerationTypes DEF IInv, GenerationOrder, OlderThanOpening, CandidateGen, NextGen, Opening

LEMMA AdmissionInit == Init => AdmissionInv
  BY DEF Init, AdmissionInv, GenerationsRise, StaysOnRecord, LoadsSee, NoItem

(* The steps of the network task, which touches neither atomic.            *)
LEMMA AdmissionNetwork == ASSUME IInv, AdmissionInv, Network PROVE AdmissionInv'
<1> USE GenerationTypes, CandidateNotAhead
    DEF AdmissionInv, GenerationsRise, StaysOnRecord, LoadsSee, Working, atomics, rxVars,
        outVars, ledVars
<1>1. ASSUME NEW f \in HostFrame, NetReceive(f) \/ NetRecover(f) PROVE AdmissionInv'
  <2>1. PICK only \in BOOLEAN : NetTake(f, only)
    BY <1>1 DEF NetReceive, NetRecover
  <2>2. GenerationsRise' /\ StaysOnRecord'
    BY <2>1 DEF NetTake
  <2>3. nloaded' = {} /\ npc' # "listen"
    BY <2>1 DEF NetTake
  <2>4. stayedAdmitted' => rxGen' \in keyed'
    <3>1. Admitted(rxGen, prepared, committed) => rxGen \in keyed
      BY DEF Admitted, IInv, RecordsKeyed
    <3> QED
      BY <2>1, <3>1, Zenon DEF NetTake
  <2> QED
    BY <2>2, <2>3, <2>4
<1>2. ASSUME NEW atomic \in {"prepared", "committed"}, NetLoad(atomic) PROVE AdmissionInv'
  <2>1. GenerationsRise' /\ StaysOnRecord'
    BY <1>2 DEF NetLoad
  <2>2. stayedAdmitted /\ npc = "admission" => prepared = rxGen \/ committed = rxGen
    OBVIOUS
  <2>3. stayedAdmitted' => stayedAdmitted /\ (atomic = "prepared" \/ nloaded # {})
    BY <1>2, Zenon DEF NetLoad
  <2>4. /\ atomic \notin nloaded
        /\ npc = "admission" /\ npc' = npc /\ nloaded' = nloaded \cup {atomic}
        /\ rxGen' = rxGen /\ keyed' = keyed /\ committed' = committed
        /\ nprep' = IF atomic = "prepared" THEN prepared ELSE nprep
        /\ ncomm' = IF atomic = "committed" THEN committed ELSE ncomm
    BY <1>2 DEF NetLoad
  <2>5. ASSUME stayedAdmitted'
        PROVE  /\ rxGen \in keyed
               /\ "prepared" \in nloaded' => nprep' = rxGen \/ committed = rxGen
               /\ "committed" \in nloaded'
                    => "prepared" \in nloaded' /\ (nprep' = rxGen \/ ncomm' = rxGen)
    <3>1. stayedAdmitted
      BY <2>3, <2>5
    <3>2. nloaded # {} => "prepared" \in nloaded
      BY <2>4, <3>1 DEF IInv, TypeOK
    <3>3. CASE atomic = "prepared"
      BY <2>2, <2>4, <3>1, <3>3
    <3>4. CASE atomic = "committed"
      BY <2>3, <2>4, <2>5, <3>1, <3>2, <3>4
    <3> QED
      BY <3>3, <3>4
  <2>6. LoadsSee'
    BY <2>4, <2>5
  <2> QED
    BY <2>1, <2>6
<1>3. ASSUME NetDrop PROVE AdmissionInv'
  BY <1>3 DEF NetDrop, NetIdle
<1>4. ASSUME NetProceed PROVE AdmissionInv'
  BY <1>4 DEF NetProceed
<1>5. ASSUME NetAnnounce PROVE AdmissionInv'
  BY <1>5 DEF NetAnnounce, NextGen
<1>6. ASSUME NetFlush PROVE AdmissionInv'
  BY <1>6 DEF NetFlush
<1>7. ASSUME NetSamplePrepared PROVE AdmissionInv'
  BY <1>7 DEF NetSamplePrepared
<1>8. ASSUME NetSampleCommitted PROVE AdmissionInv'
  BY <1>8 DEF NetSampleCommitted
<1>9. ASSUME NetEnqueue PROVE AdmissionInv'
  <2>1. rxGen' \in Nat /\ rxGen' >= rxGen /\ npc' = "listen" /\ nloaded' = {}
        /\ \A item \in frameQueue' : item.gen = rxGen'
    BY <1>9 DEF NetEnqueue, NetIdle, CandidateGen, NextGen
  <2>2. UNCHANGED <<announced, prepared, committed, opc, cand, litGen, keyed>>
    BY <1>9 DEF NetEnqueue
  <2> QED
    BY <2>1, <2>2
<1> QED
  BY <1>1, <1>2, <1>3, <1>4, <1>5, <1>6, <1>7, <1>8, <1>9 DEF Network

(* The steps of the output task.                                           *)
LEMMA AdmissionOutput == ASSUME IInv, AdmissionInv, Output PROVE AdmissionInv'
<1> USE GenerationTypes, CandidateNotAhead
    DEF AdmissionInv, GenerationsRise, StaysOnRecord, LoadsSee, Working, atomics, rxVars,
        netVars, ledVars
<1>1. ASSUME OutSafe \/ OutIdle \/ OutCurrent \/ OutSchedule \/ OutAwake \/ OutRecheck
               \/ OutShowBlack \/ OutShowBlackFails \/ OutShowBlackWaits
      PROVE  AdmissionInv'
  BY <1>1 DEF OutSafe, OutIdle, OutCurrent, OutSchedule, OutAwake, OutRecheck, OutShowBlack,
     OutShowBlackFails, OutShowBlackWaits
(* A candidate is revoked only when its generation is no longer current.   *)
<1>2. ASSUME OutStale \/ OutPrepareFails \/ OutTooLate \/ OutCancelled \/ OutRecheckFails
               \/ OutTransmitFails
      PROVE  AdmissionInv'
  <2>1. /\ opc' \in {"safety", "revoke"} /\ UNCHANGED <<atomics, rxVars, netVars, litGen, keyed, frameQueue>>
        /\ opc' = "revoke" => cand' = cand /\ ~Current
    BY <1>2 DEF OutStale, OutPrepareFails, OutTooLate, OutCancelled, OutRecheckFails,
                OutTransmitFails, GiveUp, Preparable, SequenceAcceptable
  <2>2. Working
    BY <1>2 DEF OutStale, OutPrepareFails, OutTooLate, OutCancelled, OutRecheckFails,
                OutTransmitFails
  <2>3. opc' = "revoke" => cand'.gen < announced'
    BY <2>1 DEF Current, IInv, GenerationOrder
  <2> QED
    BY <2>1, <2>2, <2>3
<1>3. ASSUME OutReceive PROVE AdmissionInv'
  BY <1>3 DEF OutReceive
<1>4. ASSUME OutPrepare PROVE AdmissionInv'
  <2>1. /\ opc = "encode" /\ opc' \in {"schedule", "safety"}
        /\ opc' = "schedule" => cand' = cand
        /\ UNCHANGED <<announced, committed, frameQueue, rxVars, netVars, litGen>>
    BY <1>4 DEF OutPrepare, GiveUp
  <2>2. CASE IsKey(cand.frame)
    <3>1. prepared' = cand.gen /\ keyed' = keyed \cup {cand.gen}
      BY <1>4, <2>2 DEF OutPrepare
    <3>2. announced \in keyed' => announced = prepared'
      BY <2>1, <3>1 DEF IInv, GenerationOrder
    <3>3. npc = "admission" /\ rxGen \in keyed => prepared' = rxGen
      BY <2>1, <3>1
    <3> QED
      BY <2>1, <3>1, <3>2, <3>3
  <2>3. CASE ~IsKey(cand.frame)
    BY <1>4, <2>1, <2>3 DEF OutPrepare
  <2> QED
    BY <2>2, <2>3
<1>5. ASSUME OutTransmit PROVE AdmissionInv'
  BY <1>5 DEF OutTransmit, IInv, RecordsKeyed
<1>6. ASSUME OutPublish PROVE AdmissionInv'
  <2>1. committed = rxGen /\ rxGen \in keyed => committed' = rxGen
    BY <1>6 DEF OutPublish
  <2>2. announced \in keyed /\ committed = announced => committed' = announced
    BY <1>6 DEF OutPublish, IInv, GenerationOrder
  <2> QED
    BY <1>6, <2>1, <2>2 DEF OutPublish
<1>7. ASSUME OutRelease PROVE AdmissionInv'
  BY <1>7 DEF OutRelease, GiveUp
<1>8. ASSUME OutRevoke PROVE AdmissionInv'
  <2>1. stayedAdmitted' => stayedAdmitted
    BY <1>8, Zenon DEF OutRevoke
  <2>2. /\ opc = "revoke" /\ opc' = "safety"
        /\ announced # cand.gen /\ prepared' = IF prepared = cand.gen THEN 0 ELSE prepared
        /\ UNCHANGED <<announced, committed, frameQueue, rxVars, npc, nloaded, nprep, ncomm, litGen, keyed>>
    BY <1>8 DEF OutRevoke, GiveUp
  <2> QED
    BY <2>1, <2>2
<1> QED
  BY <1>1, <1>2, <1>3, <1>4, <1>5, <1>6, <1>7, <1>8 DEF Output

LEMMA AdmissionInductive == IInv /\ AdmissionInv /\ [Next]_vars => AdmissionInv'
<1> SUFFICES ASSUME IInv, AdmissionInv, [Next]_vars PROVE AdmissionInv'
  OBVIOUS
<1>1. CASE Tick \/ UNCHANGED vars
  BY <1>1 DEF Tick, vars, rxVars, netVars, outVars, ledVars, AdmissionInv, GenerationsRise,
     StaysOnRecord, LoadsSee, Working
<1> QED
  BY <1>1, AdmissionNetwork, AdmissionOutput DEF Next

LEMMA AdmissionInvHolds == Spec => [](IInv /\ AdmissionInv)
  BY IInvHolds, AdmissionInit, AdmissionInductive, PTL DEF Spec

(* When the admission check has loaded both atomics, prepared first, and   *)
(* the generation has been admitted all the while, it reads as admitted.   *)
THEOREM AdmissionsSeen == Spec => []AdmissionNeverMissed
<1>1. IInv /\ AdmissionInv => AdmissionNeverMissed
  BY DEF IInv, RecordsKeyed, AdmissionInv, LoadsSee, AdmissionNeverMissed, Loaded, Admitted
<1> QED
  BY <1>1, AdmissionInvHolds, PTL
----------------------------------------------------------------------------
(* The promise of the strip                                                *)

KeyOf(session) == [session |-> session, seq |-> 1]

(* What is queued or taken was sent by the host.                           *)
OfTheHost ==
    /\ \A item \in frameQueue : item.frame \in HostFrame
    /\ Working => cand.frame \in HostFrame
    /\ rxGen # 0 => sessionId \in 1..Sessions /\ lastRx >= 1

(* Within a generation sequences rise from the strip over the candidate to *)
(* the queue, and to what the network task has in hand; only copies of the *)
(* KEY repeat, and no continuation was queued before them.                 *)
SequencesRise ==
    /\ \A item \in frameQueue :
          /\ item.frame.seq = lastRx
          /\ Working /\ cand.gen = rxGen => cand.frame.seq < lastRx \/ IsKey(item.frame)
    /\ Working /\ cand.gen = rxGen => cand.frame.seq <= lastRx
    /\ litGen = rxGen => lastSeq <= lastRx
    /\ lastRx > 1 => rxGen \in keyed
    /\ npc # "listen" /\ ~IsKey(nframe) /\ rxGen # 0 => nframe.seq > lastRx
    /\ npc \in {"admission", "enqueue"} /\ IsKey(nframe) /\ ~Opening(nframe)
         => lastRx <= 1 \/ (npc = "admission" /\ stayedAdmitted)

(* A commit of the candidate, or of what is queued, goes forward or is the *)
(* KEY once more, of which the strip then shows a copy or nothing.         *)
Onward(frame) == lastSeq < frame.seq \/ (IsKey(frame) /\ lastSeq = 1 /\ lit \subseteq {frame})

CommitsGoOn ==
    /\ rxGen # 0 /\ litGen = rxGen /\ lastSeq = 1 => lit \subseteq {KeyOf(sessionId)}
    /\ Working /\ litGen = cand.gen /\ opc \notin {"publish", "release"} => Onward(cand.frame)
    /\ \A item \in frameQueue : litGen = item.gen => Onward(item.frame)

PromiseInv == OfTheHost /\ SequencesRise /\ CommitsGoOn

LEMMA PromiseInit == Init => PromiseInv
  BY DEF Init, PromiseInv, OfTheHost, SequencesRise, CommitsGoOn, Working, NoFrame

LEMMA FrameTypes ==
    /\ \A f \in HostFrame : f.seq \in Nat /\ f.seq >= 1 /\ f.session \in 1..Sessions
                            /\ Start(f) \in Int
    /\ \A f \in HostFrame : IsKey(f) => f = KeyOf(f.session)
    /\ \A s \in 1..Sessions : KeyOf(s) \in HostFrame
    /\ Wire \in Nat /\ Tolerance \in Nat
<1>1. \A f \in HostFrame : SentAt[f] \in Nat
  BY ScheduleAssumption
<1> QED
  BY <1>1, SizeAssumption DEF HostFrame, Start, Deadline, IsKey, KeyOf

LEMMA CounterTypes ==
    ASSUME IInv
    PROVE  lastSeq \in Nat /\ lastRx \in Nat /\ now \in Nat /\ txAt \in Nat /\ 0 \notin keyed
  BY DEF IInv, TypeOK, RecordsKeyed

LEMMA PromiseTick == ASSUME PromiseInv, Tick PROVE PromiseInv'
  BY DEF Tick, PromiseInv, OfTheHost, SequencesRise, CommitsGoOn, Onward, Working, Opening,
     Duplicate, rxVars, netVars, outVars, ledVars

(* The network task queues a copy of a KEY only before the session is      *)
(* admitted, and a continuation only after everything queued before it.    *)
LEMMA PromiseNetwork ==
    ASSUME PreparedFirst, IInv, AdmissionInv, PromiseInv, AdmissionNeverMissed, Network
    PROVE  PromiseInv'
<1> USE GenerationTypes, CandidateNotAhead, FrameTypes, CounterTypes
    DEF atomics, rxVars, outVars, ledVars
<1>1. ASSUME NEW f \in HostFrame, NetReceive(f) \/ NetRecover(f) PROVE PromiseInv'
  <2>1. PICK only \in BOOLEAN : NetTake(f, only)
    BY <1>1 DEF NetReceive, NetRecover
  <2>2. OfTheHost' /\ CommitsGoOn'
    BY <2>1 DEF NetTake, PromiseInv, OfTheHost, CommitsGoOn, Onward, Working
  <2>3. ~IsKey(f) /\ rxGen # 0 => f.seq > lastRx
    <3>1. CASE NetRecover(f)
      BY <3>1 DEF NetRecover
    <3>2. CASE NetReceive(f)
      BY <3>2 DEF NetReceive, SequenceAcceptable, PromiseInv, OfTheHost
    <3> QED
      BY <1>1, <3>1, <3>2
  <2>4. lastRx > 1 => stayedAdmitted'
    <3>1. lastRx > 1 => Admitted(rxGen, prepared, committed)
      BY <2>1 DEF NetTake, PromiseInv, SequencesRise, AdmissionInv, StaysOnRecord, Admitted
    <3> QED
      BY <2>1, <3>1, Zenon DEF NetTake
  <2>5. /\ nframe' = f /\ npc' \in {"announce", "admission"}
        /\ UNCHANGED <<frameQueue, rxVars, cand, opc, keyed, lastSeq, litGen>>
    BY <2>1 DEF NetTake
  <2>6. SequencesRise'
    BY <2>3, <2>4, <2>5 DEF PromiseInv, SequencesRise, Working
  <2> QED
    BY <2>2, <2>6 DEF PromiseInv
<1>2. ASSUME NEW atomic \in {"prepared", "committed"}, NetLoad(atomic) PROVE PromiseInv'
  <2>1. stayedAdmitted' = stayedAdmitted
    <3>1. nloaded = {} => atomic = "prepared"
      BY <1>2 DEF NetLoad, PreparedFirst
    <3>2. stayedAdmitted \in BOOLEAN
      BY DEF IInv, TypeOK
    <3> QED
      BY <1>2, <3>1, <3>2, Zenon DEF NetLoad
  <2>2. UNCHANGED <<now, frameQueue, rxVars, npc, nframe, outVars, ledVars, keyed>>
    BY <1>2 DEF NetLoad
  <2> QED
    BY <2>1, <2>2 DEF PromiseInv, OfTheHost, SequencesRise, CommitsGoOn, Onward, Working, Opening,
       Duplicate
<1>3. ASSUME NetDrop PROVE PromiseInv'
  BY <1>3 DEF NetDrop, NetIdle, PromiseInv, OfTheHost, SequencesRise, CommitsGoOn, Onward, Working
<1>4. ASSUME NetProceed PROVE PromiseInv'
  <2>1. IsKey(nframe) => ~stayedAdmitted
    BY <1>4 DEF NetProceed, AdmissionNeverMissed
  <2>2. /\ npc = "admission" /\ npc' = (IF IsKey(nframe) THEN "enqueue" ELSE "sample")
        /\ UNCHANGED <<now, frameQueue, rxVars, nframe, outVars, ledVars, keyed>>
    BY <1>4 DEF NetProceed, Loaded
  <2>3. OfTheHost' /\ CommitsGoOn'
    BY <2>2 DEF PromiseInv, OfTheHost, CommitsGoOn, Onward, Working
  <2>4. SequencesRise'
    BY <2>1, <2>2 DEF PromiseInv, SequencesRise, Working, Opening, Duplicate
  <2> QED
    BY <2>3, <2>4 DEF PromiseInv
<1>5. ASSUME NetAnnounce \/ NetFlush \/ NetSamplePrepared \/ NetSampleCommitted
      PROVE  PromiseInv'
  <2>1. /\ npc' \in {"flush", "enqueue", "sampled"} /\ frameQueue' \in {frameQueue, {}}
        /\ npc' = "enqueue" /\ IsKey(nframe) => Opening(nframe)
        /\ npc # "listen"
        /\ UNCHANGED <<now, rxVars, nframe, outVars, ledVars, keyed>>
    BY <1>5 DEF NetAnnounce, NetFlush, NetSamplePrepared, NetSampleCommitted, IInv, NetworkKnows
  <2>2. OfTheHost' /\ CommitsGoOn'
    BY <2>1 DEF PromiseInv, OfTheHost, CommitsGoOn, Onward, Working
  <2>3. SequencesRise'
    BY <2>1 DEF PromiseInv, SequencesRise, Working, Opening, Duplicate
  <2> QED
    BY <2>2, <2>3 DEF PromiseInv
<1>6. ASSUME NetEnqueue PROVE PromiseInv'
  <2> DEFINE item == [frame |-> nframe, gen |-> CandidateGen,
                      reset |-> nreset, admission |-> nadmission]
  <2>1. /\ frameQueue' = {item} /\ item.frame = nframe /\ item.gen = CandidateGen
    BY <1>6 DEF NetEnqueue
  <2> HIDE DEF item
  <2>2. /\ npc = "enqueue" /\ npc' = "listen" /\ nframe \in HostFrame
        /\ rxGen' = CandidateGen /\ lastRx' = nframe.seq
        /\ sessionId' = IF IsKey(nframe) THEN nframe.session ELSE sessionId
        /\ UNCHANGED <<now, outVars, ledVars, keyed>>
    BY <1>6 DEF NetEnqueue, NetIdle, IInv, NetworkKnows
  <2>3. OfTheHost'
    <3>1. ~IsKey(nframe) => rxGen # 0
      BY <2>2 DEF IInv, NetworkKnows
    <3>2. rxGen' # 0 => sessionId' \in 1..Sessions /\ lastRx' >= 1
      BY <2>2, <3>1 DEF CandidateGen, PromiseInv, OfTheHost
    <3> QED
      BY <2>1, <2>2, <3>2 DEF PromiseInv, OfTheHost, Working
  <2>4. CASE Opening(nframe)
    <3>1. /\ rxGen' = rxGen + 1 /\ lastRx' = 1 /\ IsKey(nframe)
          /\ litGen <= rxGen /\ cand.gen <= rxGen
      BY <2>2, <2>4 DEF CandidateGen, NextGen, Opening, IsKey, AdmissionInv, GenerationsRise
    <3>2. SequencesRise'
      <4>1. litGen' # rxGen' /\ cand'.gen # rxGen'
        BY <2>2, <3>1
      <4>2. \A queued \in frameQueue' : queued.frame.seq = lastRx'
        BY <2>1, <2>2
      <4> QED
        BY <2>2, <3>1, <4>1, <4>2 DEF SequencesRise
    <3>3. CommitsGoOn'
      BY <2>1, <2>2, <3>1 DEF CommitsGoOn, Onward, PromiseInv, Working
    <3> QED
      BY <2>3, <3>2, <3>3 DEF PromiseInv
  <2>5. CASE ~Opening(nframe) /\ IsKey(nframe)
    <3>1. rxGen' = rxGen /\ sessionId' = sessionId /\ nframe = KeyOf(sessionId)
          /\ rxGen # 0 /\ lastRx = 1 /\ lastRx' = 1
      BY <2>2, <2>5 DEF CandidateGen, Opening, Duplicate, IsKey, IInv, NetworkKnows,
         PromiseInv, OfTheHost, SequencesRise
    <3>2. SequencesRise'
      BY <2>1, <2>2, <2>5, <3>1 DEF SequencesRise, PromiseInv, Working
    <3>3. item.gen = litGen => Onward(item.frame)
      BY <2>1, <2>2, <3>1 DEF PromiseInv, SequencesRise, CommitsGoOn, Onward
    <3>4. CommitsGoOn'
      BY <2>1, <2>2, <2>5, <3>1, <3>3 DEF CommitsGoOn, Onward, PromiseInv, Working
    <3> QED
      BY <2>3, <3>2, <3>4 DEF PromiseInv
  <2>6. CASE ~IsKey(nframe)
    <3>1. rxGen' = rxGen /\ sessionId' = sessionId /\ rxGen \in keyed /\ rxGen # 0
          /\ nframe.seq > lastRx
      BY <2>2, <2>6 DEF CandidateGen, IInv, NetworkKnows, PromiseInv, SequencesRise
    <3>2. SequencesRise'
      BY <2>1, <2>2, <2>6, <3>1 DEF SequencesRise, PromiseInv, Working, OfTheHost
    <3>3. item.gen = litGen => Onward(item.frame)
      BY <2>1, <2>2, <3>1 DEF PromiseInv, SequencesRise, Onward
    <3>4. CommitsGoOn'
      BY <2>1, <2>2, <2>6, <3>1, <3>3 DEF CommitsGoOn, Onward, PromiseInv, Working
    <3> QED
      BY <2>3, <3>2, <3>4 DEF PromiseInv
  <2> QED
    BY <2>4, <2>5, <2>6 DEF Opening
<1> QED
  BY <1>1, <1>2, <1>3, <1>4, <1>5, <1>6 DEF Network

(* A commit leaves in the queue what comes after it, or a copy of the KEY. *)
LEMMA PromiseOutput ==
    ASSUME PreparedFirst, IInv, AdmissionInv, PromiseInv, Output
    PROVE  PromiseInv'
<1> USE GenerationTypes, CandidateNotAhead, FrameTypes, CounterTypes
    DEF atomics, rxVars, netVars, ledVars
<1>1. ASSUME OutSafe \/ OutIdle \/ OutCurrent \/ OutSchedule \/ OutShowBlack
               \/ OutShowBlackFails \/ OutShowBlackWaits
      PROVE  PromiseInv'
  BY <1>1 DEF OutSafe, OutIdle, OutCurrent, OutSchedule, OutShowBlack, OutShowBlackFails,
     OutShowBlackWaits, PromiseInv, OfTheHost, SequencesRise, CommitsGoOn, Onward, Working, Opening,
     Duplicate
<1>2. ASSUME OutAwake \/ OutRecheck PROVE PromiseInv'
  BY <1>2 DEF OutAwake, OutRecheck, PromiseInv, OfTheHost, SequencesRise, CommitsGoOn, Onward,
     Working, Opening, Duplicate
<1>3. ASSUME OutStale \/ OutPrepareFails \/ OutTooLate \/ OutCancelled \/ OutRecheckFails
               \/ OutTransmitFails
      PROVE  PromiseInv'
  <2>1. /\ opc' \in {"safety", "revoke"} /\ Working /\ opc \notin {"publish", "release"}
        /\ UNCHANGED <<now, frameQueue, rxVars, netVars, litGen, lastSeq, lit, keyed>>
        /\ opc' = "revoke" => cand' = cand
    BY <1>3 DEF OutStale, OutPrepareFails, OutTooLate, OutCancelled, OutRecheckFails,
                OutTransmitFails, GiveUp, Working
  <2> QED
    BY <2>1 DEF PromiseInv, OfTheHost, SequencesRise, CommitsGoOn, Onward, Working, Opening,
       Duplicate
<1>4. ASSUME OutReceive PROVE PromiseInv'
  <2>1. PICK item \in frameQueue : cand' = item
    BY <1>4 DEF OutReceive
  <2>2. opc' = "check" /\ frameQueue' = {}
        /\ UNCHANGED <<now, rxVars, netVars, ledVars, keyed>>
    BY <1>4 DEF OutReceive
  <2>3. OfTheHost' /\ SequencesRise'
    BY <2>1, <2>2 DEF PromiseInv, OfTheHost, SequencesRise, Working, Opening, Duplicate
  <2>4. CommitsGoOn'
    BY <2>1, <2>2 DEF PromiseInv, CommitsGoOn, Onward
  <2> QED
    BY <2>3, <2>4 DEF PromiseInv
<1>5. ASSUME OutPrepare PROVE PromiseInv'
  <2>1. /\ opc = "encode" /\ opc' \in {"schedule", "safety"} /\ keyed \subseteq keyed'
        /\ opc' = "schedule" => cand' = cand
        /\ UNCHANGED <<now, frameQueue, rxVars, netVars, ledVars>>
    BY <1>5 DEF OutPrepare, GiveUp
  <2> QED
    BY <2>1 DEF PromiseInv, OfTheHost, SequencesRise, CommitsGoOn, Onward, Working, Opening,
       Duplicate
<1>6. ASSUME OutTransmit PROVE PromiseInv'
  <2>1. /\ opc = "transmit" /\ opc' = "publish" /\ lit' = {cand.frame}
        /\ lastSeq' = cand.frame.seq /\ litGen' = cand.gen
        /\ UNCHANGED <<frameQueue, rxVars, netVars, cand, keyed>>
    BY <1>6 DEF OutTransmit
  <2>2. cand.frame \in HostFrame
    BY <2>1 DEF PromiseInv, OfTheHost, Working
  <2>3. OfTheHost'
    BY <2>1 DEF PromiseInv, OfTheHost, Working
  <2>4. SequencesRise'
    BY <2>1, <2>2 DEF PromiseInv, SequencesRise, Working, Opening, Duplicate
  <2>5. cand.gen = rxGen /\ IsKey(cand.frame) => cand.frame = KeyOf(sessionId)
    BY <2>2 DEF IInv, OneIdentityPerGeneration
  <2>6. \A item \in frameQueue :
          cand.gen = item.gen
            => cand.frame.seq < item.frame.seq \/ (IsKey(item.frame) /\ item.frame = cand.frame)
    <3> SUFFICES ASSUME NEW item \in frameQueue, cand.gen = item.gen, IsKey(item.frame)
                 PROVE  item.frame = cand.frame
      BY <2>1 DEF PromiseInv, SequencesRise, AdmissionInv, GenerationsRise, Working
    <3>1. item.gen = rxGen /\ item.frame \in HostFrame /\ item.frame = KeyOf(sessionId)
      BY DEF PromiseInv, OfTheHost, AdmissionInv, GenerationsRise, IInv, OneIdentityPerGeneration
    <3>2. lastRx = 1 /\ cand.frame.seq <= lastRx
      BY <2>1, <3>1 DEF PromiseInv, SequencesRise, IsKey, Working
    <3> QED
      BY <2>2, <2>5, <3>1, <3>2 DEF IsKey
  <2>7. CommitsGoOn'
    <3>1. litGen' = rxGen' /\ lastSeq' = 1 => lit' \subseteq {KeyOf(sessionId)}
      BY <2>1, <2>2, <2>5 DEF IsKey
    <3>2. \A item \in frameQueue' : litGen' = item.gen => Onward(item.frame)'
      BY <2>1, <2>2, <2>6 DEF Onward, IsKey
    <3> QED
      BY <2>1, <3>1, <3>2 DEF CommitsGoOn
  <2> QED
    BY <2>3, <2>4, <2>7 DEF PromiseInv
<1>7. ASSUME OutPublish \/ OutRelease PROVE PromiseInv'
  BY <1>7 DEF OutPublish, OutRelease, GiveUp, PromiseInv, OfTheHost, SequencesRise,
     CommitsGoOn, Onward, Working, Opening, Duplicate
<1>8. ASSUME OutRevoke PROVE PromiseInv'
  <2>1. npc = "admission" /\ stayedAdmitted /\ lastRx > 1 => stayedAdmitted'
    <3>1. npc = "admission" /\ lastRx > 1 => Admitted(rxGen, prepared', committed)
      BY <1>8 DEF OutRevoke, PromiseInv, SequencesRise, AdmissionInv, StaysOnRecord, Admitted
    <3> QED
      BY <1>8, <3>1, Zenon DEF OutRevoke
  <2>2. /\ opc = "revoke" /\ opc' = "safety"
        /\ UNCHANGED <<now, frameQueue, rxVars, npc, nframe, lastSeq, lit, litGen, keyed>>
    BY <1>8 DEF OutRevoke, GiveUp
  <2>3. OfTheHost' /\ CommitsGoOn'
    BY <2>2 DEF PromiseInv, OfTheHost, CommitsGoOn, Onward, Working
  <2>4. SequencesRise'
    BY <2>1, <2>2 DEF PromiseInv, SequencesRise, Working, Opening, Duplicate
  <2> QED
    BY <2>3, <2>4 DEF PromiseInv
<1> QED
  BY <1>1, <1>2, <1>3, <1>4, <1>5, <1>6, <1>7, <1>8 DEF Output

(* The build does not change.                                              *)
LEMMA OrderKept == ASSUME [Next]_vars PROVE loadFirst' = loadFirst
  BY DEF Next, vars, Tick, Network, NetReceive, NetRecover, NetTake, NetLoad, NetDrop, NetProceed,
     NetAnnounce, NetFlush, NetEnqueue, NetSamplePrepared, NetSampleCommitted, Output, OutSafe,
     OutShowBlack, OutShowBlackFails, OutShowBlackWaits, OutIdle, OutReceive, OutStale, OutCurrent,
     OutPrepare, OutPrepareFails, OutTooLate, OutSchedule, OutCancelled, OutAwake, OutTransmit,
     OutRecheckFails, OutRecheck, OutTransmitFails, OutPublish, OutRelease, OutRevoke

LEMMA PromiseInductive ==
    ASSUME IInv, AdmissionInv, AdmissionNeverMissed, PreparedFirst => PromiseInv, [Next]_vars
    PROVE  PreparedFirst' => PromiseInv'
<1> SUFFICES ASSUME PreparedFirst' PROVE PromiseInv'
  OBVIOUS
<1>1. PreparedFirst /\ PromiseInv
  BY OrderKept DEF PreparedFirst
<1>2. CASE UNCHANGED vars
  BY <1>1, <1>2 DEF vars, PromiseInv, OfTheHost, SequencesRise, CommitsGoOn, Onward, Working,
     Opening, Duplicate
<1> QED
  BY <1>1, <1>2, PromiseTick, PromiseNetwork, PromiseOutput DEF Next

(* The steps of the node as steps of its promise: encoding a KEY admits    *)
(* its generation, a transmission shows a frame, a safe timeout is black,  *)
(* and all else stutters.                                                  *)
LEMMA StepKeepsPromise ==
    ASSUME IInv, AdmissionInv, PromiseInv, [Next]_vars
    PROVE  [Promise!Next]_(Promise!promiseVars)
<1> USE GenerationTypes, CandidateNotAhead, FrameTypes, CounterTypes DEF Promise!promiseVars
<1>1. CASE OutPrepare /\ IsKey(cand.frame)
  <2>1. /\ opc = "encode" /\ keyed' = keyed \cup {cand.gen}
        /\ UNCHANGED <<litGen, lastSeq, lit>> /\ cand.gen \in Generation
    BY <1>1 DEF OutPrepare, ledVars, IInv, TypeOK, Item
  <2>2. Promise!Admit(cand.gen)
    BY <2>1 DEF Promise!Admit, AdmissionInv, GenerationsRise, Working
  <2> QED
    BY <2>1, <2>2 DEF Promise!Next
<1>2. CASE OutTransmit
  <2>1. /\ opc = "transmit" /\ litGen' = cand.gen /\ lastSeq' = cand.frame.seq
        /\ lit' = {cand.frame} /\ keyed' = keyed
        /\ cand.gen \in Generation /\ cand.frame \in Frame
    BY <1>2 DEF OutTransmit, IInv, TypeOK, Item
  <2>2. cand.gen \in keyed /\ litGen <= cand.gen
    BY <2>1 DEF IInv, RecordsKeyed, AdmissionInv, GenerationsRise, Working
  <2>3. litGen = cand.gen => Onward(cand.frame)
    BY <2>1 DEF PromiseInv, CommitsGoOn, Working
  <2>4. cand.frame.seq \in Nat
    BY <2>1 DEF PromiseInv, OfTheHost, Working
  <2>5. CASE litGen < cand.gen \/ lastSeq < cand.frame.seq
    <3>1. Promise!Show(cand.gen, cand.frame)
      BY <2>1, <2>2, <2>4, <2>5 DEF Promise!Show
    <3> QED
      BY <2>1, <3>1 DEF Promise!Next
  <2>6. CASE litGen = cand.gen /\ lastSeq >= cand.frame.seq
    <3>1. cand.frame.seq = 1 /\ lastSeq = 1 /\ lit \subseteq {cand.frame}
      BY <2>3, <2>4, <2>6 DEF Onward, IsKey
    <3>2. Promise!ShowAgain(cand.frame)
      BY <2>1, <2>2, <2>6, <3>1 DEF Promise!ShowAgain
    <3> QED
      BY <2>1, <3>2 DEF Promise!Next
  <2> QED
    BY <2>2, <2>4, <2>5, <2>6
<1>3. CASE OutShowBlack
  BY <1>3 DEF OutShowBlack, Promise!Next, Promise!Black
<1>4. CASE UNCHANGED <<keyed, litGen, lastSeq, lit>>
  BY <1>4
<1> QED
  BY <1>1, <1>2, <1>3, <1>4 DEF Next, vars, Tick, Network, NetReceive, NetRecover, NetTake, NetLoad, NetDrop,
       NetProceed, NetAnnounce, NetFlush, NetEnqueue, NetSamplePrepared, NetSampleCommitted, Output, OutSafe,
       OutShowBlackFails, OutShowBlackWaits, OutIdle, OutReceive, OutStale, OutCurrent,
       OutPrepare, OutPrepareFails, OutTooLate, OutSchedule, OutCancelled, OutAwake,
       OutRecheckFails, OutRecheck, OutTransmitFails, OutPublish, OutRelease, OutRevoke, ledVars

(* The node implements the promise of its strip, whatever the wire time,   *)
(* the tolerance and the air: physical commits go forward in generation    *)
(* and sequence and belong to an admitted generation, and only a KEY that  *)
(* nothing has followed is committed again, in a build that loads prepared *)
(* first.                                                                  *)
THEOREM NodeKeepsPromise == Spec => KeepsPromise
<1>1. Init => Promise!Init
  BY DEF Init, Promise!Init
<1>2. Spec => [](IInv /\ AdmissionInv /\ AdmissionNeverMissed)
  BY AdmissionInvHolds, AdmissionsSeen, PTL
<1>3. Init => (PreparedFirst => PromiseInv)
  BY PromiseInit
<1>4. Spec => [](PreparedFirst => PromiseInv)
  BY <1>2, <1>3, PromiseInductive, PTL DEF Spec
<1>5. IInv /\ AdmissionInv /\ (PreparedFirst => PromiseInv) /\ [Next]_vars
        => [PreparedFirst => Promise!Next]_(Promise!promiseVars)
  BY StepKeepsPromise
<1> QED
  BY <1>1, <1>2, <1>4, <1>5, PTL DEF Spec, KeepsPromise
=============================================================================
