--------------------------- MODULE FirmwareProofs ---------------------------
(* Theorems about what the two kinds of nodes make of what they receive:     *)
(* FrameReassembly, for every number of sessions and frames and every finite *)
(* set of chunks, and AnalogNode, for every number of nodes, every length of *)
(* a packet and every timeout.                                               *)
EXTENDS FrameReassembly, AnalogNode, TLAPS, FiniteSetTheorems, SequenceTheorems

----------------------------------------------------------------------------
(* The ESP32 node's frames: FrameReassembly *)


(* Whatever counts as received holds the pixels of the active frame: the   *)
(* old bytes stay in pixels, and no longer count.                          *)
ReceivedIsActive == \A c \in received : pixels[c] = active

(* What is recorded as completed did enter the queue.                      *)
CompletedWasQueued == completed # NoFrame => \E q \in queued : q.frame = completed

(* Only a session that a KEY opened is admitted.                           *)
AdmittedOpened == admitted => sessionId # 0

AsmInv == /\ TypeOK /\ ReceivedIsActive /\ CompletedWasQueued /\ AdmittedOpened
          /\ WholeFrame /\ DuplicateWasQueued

LEMMA FrameValues == NoFrame \in Frame /\ NoFrame \notin HostFrame /\ HostFrame \subseteq Frame
  BY DEF NoFrame, Frame, HostFrame

LEMMA InitEstablishes == FrameInit => AsmInv
<1> SUFFICES ASSUME FrameInit PROVE AsmInv
  OBVIOUS
<1>1. TypeOK
  <2>1. pixels \in [Chunks -> Frame]
    BY FrameValues DEF FrameInit
  <2>2. lastRx \in 0..SeqMax /\ sessionId \in 0..Sessions
    BY ReassemblyAssumption DEF FrameInit
  <2> QED
    BY <2>1, <2>2, FrameValues DEF FrameInit, TypeOK
<1>2. ReceivedIsActive /\ CompletedWasQueued /\ AdmittedOpened /\ WholeFrame
      /\ DuplicateWasQueued
  BY DEF FrameInit, ReceivedIsActive, CompletedWasQueued, AdmittedOpened, WholeFrame,
         DuplicateWasQueued
<1> QED
  BY <1>1, <1>2 DEF AsmInv

(* Writing a chunk leaves exactly chunks of the written frame received.    *)
LEMMA WriteKeeps ==
    ASSUME AsmInv, NEW f \in HostFrame, NEW c \in Chunks,
           pixels' = IF c \in ReceivedBefore(f) THEN pixels ELSE [pixels EXCEPT ![c] = f]
    PROVE  /\ pixels' \in [Chunks -> Frame]
           /\ ReceivedBefore(f) \cup {c} \in SUBSET Chunks
           /\ \A d \in ReceivedBefore(f) \cup {c} : pixels'[d] = f
<1>1. ReceivedBefore(f) \subseteq Chunks /\ \A d \in ReceivedBefore(f) : pixels[d] = f
  BY DEF ReceivedBefore, AsmInv, TypeOK, ReceivedIsActive
<1>2. pixels \in [Chunks -> Frame]
  BY DEF AsmInv, TypeOK
<1> QED
  BY <1>1, <1>2, FrameValues

LEMMA DatagramPreserves ==
    ASSUME AsmInv, NEW f \in HostFrame, NEW c \in Chunks, Datagram(f, c)
    PROVE  AsmInv'
<1> USE FrameValues DEF AsmInv, TypeOK, ReceivedIsActive, CompletedWasQueued, WholeFrame,
                        DuplicateWasQueued, AdmittedOpened, asmVars, rxVars
(* A duplicate of a host frame: there was a completed frame, and it was    *)
(* queued.                                                                 *)
<1>1. CASE DropDuplicate(f, c)
  BY <1>1 DEF DropDuplicate
<1>2. CASE DropRejected(f, c)
  BY <1>2 DEF DropRejected
<1>3. CASE Collect(f, c)
  BY <1>3, WriteKeeps DEF Collect, Write
<1>4. CASE OfferInVain(f, c)
  <2>1. received' = Chunks /\ active' = f /\ pixels' \in [Chunks -> Frame]
        /\ \A d \in Chunks : pixels'[d] = f
    BY <1>4, WriteKeeps DEF OfferInVain, Write, Complete
  <2> QED
    BY <1>4, <2>1 DEF OfferInVain
<1>5. CASE OfferAndQueue(f, c)
  <2>1. /\ received' = {} /\ active' = NoFrame /\ completed' = f
        /\ pixels' \in [Chunks -> Frame] /\ \A d \in Chunks : pixels'[d] = f
    BY <1>5, WriteKeeps DEF OfferAndQueue, NoteComplete, Complete
  <2>2. /\ sessionId' \in 1..Sessions
        /\ queued' = queued \cup {[frame |-> f, under |-> sessionId']}
        /\ lastRx' \in 0..SeqMax
    BY <1>5 DEF OfferAndQueue, Wanted, HostFrame
  <2>3. heard' = f /\ result' = "Complete" /\ UNCHANGED host /\ admitted' \in BOOLEAN
        /\ (admitted' => sessionId' # 0)
    BY <1>5, <2>2 DEF OfferAndQueue
  <2>4. queued' \in SUBSET [frame : HostFrame, under : 1..Sessions]
    BY <2>2
  <2>5. CompletedWasQueued'
    <3> DEFINE taken == [frame |-> f, under |-> sessionId']
    <3>1. taken \in queued' /\ taken.frame = completed'
      BY <2>1, <2>2
    <3> QED
      BY <3>1
  <2> QED
    BY <2>1, <2>2, <2>3, <2>4, <2>5
<1> QED
  BY <1>1, <1>2, <1>3, <1>4, <1>5 DEF Datagram

LEMMA Inductive == AsmInv /\ [FrameNext]_frameVars => AsmInv'
<1> SUFFICES ASSUME AsmInv, [FrameNext]_frameVars PROVE AsmInv'
  OBVIOUS
<1> USE DEF AsmInv, TypeOK, ReceivedIsActive, CompletedWasQueued, WholeFrame,
            DuplicateWasQueued, AdmittedOpened, asmVars, rxVars
<1>1. ASSUME NEW f \in HostFrame, NEW c \in Chunks, Datagram(f, c) PROVE AsmInv'
  BY <1>1, DatagramPreserves
<1>2. CASE HostContinues
  <2>1. host' \in Frame
    <3>1. host \in HostFrame
      BY <1>2 DEF HostContinues, Frame, NoFrame
    <3>2. host' = [session |-> host.session, seq |-> host.seq + 1]
      BY <1>2, <3>1 DEF HostContinues, HostFrame
    <3> QED
      BY <1>2, <3>1, <3>2, ReassemblyAssumption DEF HostContinues, Frame, HostFrame
  <2> QED
    BY <1>2, <2>1 DEF HostContinues
<1>3. CASE HostOpens
  <2>1. host' \in Frame
    BY <1>3, ReassemblyAssumption DEF HostOpens, Frame, HostFrame, NoFrame
  <2> QED
    BY <1>3, <2>1 DEF HostOpens
<1>4. CASE Admit
  BY <1>4 DEF Admit
<1>5. CASE UNCHANGED frameVars
  BY <1>5 DEF frameVars
<1> QED
  BY <1>1, <1>2, <1>3, <1>4, <1>5 DEF FrameNext

LEMMA AsmInvHolds == FrameSpec => []AsmInv
  BY InitEstablishes, Inductive, PTL DEF FrameSpec

(* The reassembler and the filter keep their types in every order of       *)
(* datagrams, and nothing is marked received without an active frame.      *)
THEOREM TypeCorrect == FrameSpec => []TypeOK
<1>1. AsmInv => TypeOK
  BY DEF AsmInv
<1> QED
  BY <1>1, AsmInvHolds, PTL

(* No completed frame mixes the pixels of two frames, however its          *)
(* datagrams were lost, repeated, delayed or reordered.                    *)
THEOREM FramesAreWhole == FrameSpec => []WholeFrame
<1>1. AsmInv => WholeFrame
  BY DEF AsmInv
<1> QED
  BY <1>1, AsmInvHolds, PTL

(* No datagram is dismissed as a duplicate of a frame that never entered   *)
(* the queue.                                                              *)
THEOREM DuplicatesWereQueued == FrameSpec => []DuplicateWasQueued
<1>1. AsmInv => DuplicateWasQueued
  BY DEF AsmInv
<1> QED
  BY <1>1, AsmInvHolds, PTL
----------------------------------------------------------------------------
(* The order of the queue                                                  *)

(* The sessions of the queue are those opened so far, and the last          *)
(* sequence bounds what the current one has queued; before its admission    *)
(* that was copies of its KEY.                                             *)
QueueInv ==
    /\ sessionId <= host.session
    /\ lastRx = 0 => queued = {}
    /\ \A q \in queued :
          /\ q.under <= sessionId
          /\ q.under = sessionId => q.frame.seq <= lastRx
          /\ q.under = sessionId /\ ~admitted => q.frame.seq = 1

LEMMA QueueInvInit == FrameInit => QueueInv
  BY DEF FrameInit, QueueInv, NoFrame

(* The host only goes on: neither of its steps touches the node.           *)
LEMMA HostGoesOn ==
    ASSUME TypeOK, HostContinues \/ HostOpens
    PROVE  host.session <= host'.session /\ host.session \in Int /\ host'.session \in Int
<1>1. host \in Frame /\ host.session \in Int
  BY DEF TypeOK, Frame, HostFrame, NoFrame
<1>2. CASE HostContinues
  <2>1. host' = [session |-> host.session, seq |-> host.seq + 1]
    BY <1>1, <1>2 DEF HostContinues, Frame, HostFrame, NoFrame
  <2> QED
    BY <1>1, <2>1
<1>3. CASE HostOpens
  BY <1>1, <1>3 DEF HostOpens
<1> QED
  BY <1>2, <1>3

(* What enters the queue: a KEY that opens a session or comes again before *)
(* its admission, or a continuation beyond all that the session queued.    *)
LEMMA QueueStep ==
    ASSUME TypeOK, QueueInv, NEW f \in HostFrame, NEW c \in Chunks, OfferAndQueue(f, c)
    PROVE  /\ QueueInv'
           /\ IsKey(f) \/ \A q \in queued : q.under = sessionId' => q.frame.seq < f.seq
<1> DEFINE new == [frame |-> f, under |-> sessionId']
<1>1. /\ lastRx' = f.seq /\ queued' = queued \cup {new} /\ UNCHANGED host
      /\ sessionId' = IF IsKey(f) THEN f.session ELSE sessionId
      /\ admitted' = (admitted /\ ~IsKey(f)) /\ f.session = host.session
  BY DEF OfferAndQueue, Wanted
<1>2. /\ f.seq \in Nat /\ f.seq >= 1 /\ f.session \in Nat /\ sessionId \in Nat /\ lastRx \in Nat
      /\ \A q \in queued : q.under \in Nat /\ q.frame.seq \in Nat
  BY DEF TypeOK, HostFrame
<1>3. CASE IsKey(f)
  <2>1. sessionId' = host.session /\ lastRx' = 1 /\ ~admitted'
    BY <1>1, <1>3 DEF IsKey
  <2>2. \A q \in queued : q.under <= sessionId'
    BY <1>1, <1>2, <2>1 DEF QueueInv
  <2>3. \A q \in queued : q.under = sessionId' => q.frame.seq = 1
    <3>1. ~admitted \/ sessionId # f.session
      BY <1>3 DEF OfferAndQueue, Wanted
    <3> QED
      BY <1>1, <1>2, <2>1, <3>1 DEF QueueInv
  <2>4. new.under = sessionId' /\ new.frame.seq = 1
    BY <1>3 DEF IsKey
  <2> QED
    BY <1>1, <1>2, <1>3, <2>1, <2>2, <2>3, <2>4 DEF QueueInv
<1>4. CASE ~IsKey(f)
  <2>1. sessionId' = sessionId /\ admitted /\ admitted' /\ (lastRx = 0 \/ f.seq > lastRx)
    BY <1>1, <1>4 DEF OfferAndQueue, Wanted
  <2>2. \A q \in queued : q.under = sessionId => q.frame.seq < f.seq
    BY <1>2, <2>1 DEF QueueInv
  <2>3. new.under = sessionId' /\ new.frame.seq = f.seq
    OBVIOUS
  <2> QED
    BY <1>1, <1>2, <2>1, <2>2, <2>3 DEF QueueInv
<1> QED
  BY <1>3, <1>4

LEMMA QueueInductive == TypeOK /\ QueueInv /\ [FrameNext]_frameVars => QueueInv'
<1> SUFFICES ASSUME TypeOK, QueueInv, [FrameNext]_frameVars PROVE QueueInv'
  OBVIOUS
<1>1. CASE HostContinues \/ HostOpens
  BY <1>1, HostGoesOn DEF HostContinues, HostOpens, rxVars, QueueInv, TypeOK
<1>2. CASE Admit
  BY <1>2 DEF Admit, QueueInv
<1>3. ASSUME NEW f \in HostFrame, NEW c \in Chunks, Datagram(f, c) PROVE QueueInv'
  <2>1. CASE OfferAndQueue(f, c)
    BY <2>1, QueueStep
  <2>2. CASE UNCHANGED <<host, rxVars>>
    BY <2>2 DEF rxVars, QueueInv
  <2> QED
    BY <1>3, <2>1, <2>2 DEF Datagram, DropDuplicate, DropRejected, Collect, OfferInVain
<1>4. CASE UNCHANGED frameVars
  BY <1>4 DEF frameVars, rxVars, QueueInv
<1> QED
  BY <1>1, <1>2, <1>3, <1>4 DEF FrameNext

(* Under the session a KEY opened, the filter lets each continuation into   *)
(* the queue once and in order, although the reassembler by itself would    *)
(* complete it again.                                                      *)
THEOREM QueueGoesForward == FrameSpec => QueuedForward
<1> DEFINE Forward ==
       completed' # completed
         => \/ IsKey(completed')
            \/ \A q \in queued : q.under = sessionId' => q.frame.seq < completed'.seq
<1>1. TypeOK /\ QueueInv /\ [FrameNext]_frameVars => [Forward]_frameVars
  <2> SUFFICES ASSUME TypeOK, QueueInv, FrameNext, completed' # completed
               PROVE  \/ IsKey(completed')
                      \/ \A q \in queued : q.under = sessionId' => q.frame.seq < completed'.seq
    BY DEF frameVars
  <2>1. PICK f \in HostFrame, c \in Chunks : OfferAndQueue(f, c)
    BY DEF FrameNext, HostContinues, HostOpens, Admit, Datagram, DropDuplicate, DropRejected,
           Collect, OfferInVain, asmVars
  <2>2. completed' = f
    BY <2>1 DEF OfferAndQueue, NoteComplete
  <2> QED
    BY <2>1, <2>2, QueueStep
<1>2. FrameSpec => []TypeOK
  BY TypeCorrect
<1>3. FrameSpec => []QueueInv
  BY <1>2, QueueInvInit, QueueInductive, PTL DEF FrameSpec
<1> QED
  BY <1>1, <1>2, <1>3, PTL DEF FrameSpec, QueuedForward

----------------------------------------------------------------------------
(* The STM32 node's packets and lamp: AnalogNode *)

Packet == [frame : 1..MaxFrames, node : Nodes, level : Levels, fade : FadeTimes,
           disguise : Disguises]
Byte == [value : Values, of : Packet \cup {NoPacket}, at : 0..Length]

BusKnown ==
    /\ air \in Seq(Packet) /\ gone \in 0..(Length - 1) /\ (air = <<>> => gone = 0)
    /\ sent \in 0..MaxFrames /\ fadeMs \in FadeTimes

ReaderKnown ==
    /\ rx \in Seq(Byte) /\ reader.buffer \in Seq(Byte) /\ reader.last \in 0..now
    /\ ran => rx = <<>>

TimesKnown ==
    /\ now \in 0..MaxTime /\ lastValid \in 0..now /\ whole \in 0..now /\ heardAt \in 0..now
    /\ ran \in BOOLEAN /\ safe \in BOOLEAN

(* The last byte of a packet for this node is read at the time it came.    *)
Ends(byte) == byte.of # NoPacket /\ byte.of.node = NodeId /\ byte.at = Length
EndsNow == \A i \in 1..Len(rx) : Ends(rx[i]) => whole = now

(* What the node takes for the last packet is no later than the last.      *)
NotAhead == lastValid <= whole

IsDark == out.current = 0 /\ out.fade = 0
SafeIsDark == safe => IsDark
SafeInTime == ran /\ now - lastValid > SafeTimeout => safe

SilenceInv ==
    BusKnown /\ ReaderKnown /\ TimesKnown /\ EndsNow /\ NotAhead /\ SafeIsDark /\ SafeInTime

----------------------------------------------------------------------------
(* Bytes                                                                   *)

LEMMA LengthIs == Length \in Nat /\ Length > 2
  BY AnalogAssumption

LEMMA TimesAre == SafeTimeout \in Nat /\ ByteTimeout \in Nat /\ MaxTime \in Nat
  BY AnalogAssumption

LEMMA PacketIsSome == \A p \in Packet : p # NoPacket
<1> SUFFICES ASSUME NEW p \in Packet, p = NoPacket PROVE FALSE
  OBVIOUS
<1>1. p.frame \in 1..MaxFrames
  BY DEF Packet
<1>2. p.frame = 0
  BY DEF NoPacket
<1> QED
  BY <1>1, <1>2, AnalogAssumption

LEMMA EncodeIsBytes ==
    ASSUME NEW p \in Packet
    PROVE  /\ Encode(p) \in Seq(Byte) /\ Len(Encode(p)) = Length
           /\ \A i \in 1..Length : Encode(p)[i].of = p /\ Encode(p)[i].at = i
<1> USE LengthIs
<1>1. \A i \in 1..Length : ValueAt(p, i) \in Values
  BY DEF ValueAt, Values
<1>2. \A i \in 1..Length : [value |-> ValueAt(p, i), of |-> p, at |-> i] \in Byte
  BY <1>1 DEF Byte
<1>3. Encode(p) \in [1..Length -> Byte]
  BY <1>2 DEF Encode
<1> QED
  BY <1>3 DEF Encode

LEMMA BytesOnTheBus ==
    ASSUME BusKnown, air # <<>>, NEW n \in 0..Rest
    PROVE  /\ Bytes(n) \in Seq(Byte) /\ Len(Bytes(n)) = n
           /\ \A i \in 1..n : /\ Bytes(n)[i] = Encode(Head(air))[gone + i]
                              /\ Bytes(n)[i].of = Head(air) /\ Bytes(n)[i].at = gone + i
<1> USE LengthIs
<1>1. Head(air) \in Packet /\ gone \in Nat /\ gone + n <= Length
  BY DEF BusKnown, Rest
<1>2. PICK e \in Seq(Byte) : e = Encode(Head(air)) /\ Len(e) = Length
  BY <1>1, EncodeIsBytes
<1>3. Bytes(n) = SubSeq(e, gone + 1, gone + n)
  BY <1>2 DEF Bytes
<1>4. /\ SubSeq(e, gone + 1, gone + n) \in Seq(Byte)
      /\ Len(SubSeq(e, gone + 1, gone + n)) = n
      /\ \A i \in 1..n : SubSeq(e, gone + 1, gone + n)[i] = e[gone + i]
  BY <1>1, <1>2
<1>5. \A i \in 1..n : gone + i \in 1..Length
  BY <1>1
<1> QED
  BY <1>1, <1>2, <1>3, <1>4, <1>5, EncodeIsBytes

(* What a byte does to the reader: a packet is heard at its last byte.     *)
LEMMA PushGives ==
    ASSUME NEW r, r.buffer \in Seq(Byte), NEW t \in Nat, r.last \in 0..t, NEW byte \in Byte
    PROVE  /\ Push(r, byte, t).buffer \in Seq(Byte)
           /\ Push(r, byte, t).last \in 0..t
           /\ Push(r, byte, t).heard # NoPacket =>
                 /\ Push(r, byte, t).heard = byte.of /\ byte.of \in Packet
                 /\ Ends(byte)
<1> USE LengthIs
<1> DEFINE grown == Append(Kept(r, t), byte)
           used == Len(grown)
           lost == used = 2 /\ byte.value # "sync1"
           empty == used = Length \/ (used = 1 /\ byte.value # "sync0")
           buffer == IF lost THEN IF byte.value = "sync0" THEN <<byte>> ELSE <<>>
                     ELSE IF empty THEN <<>> ELSE grown
           p == grown[1].of
<1>1. /\ Push(r, byte, t).buffer = buffer
      /\ Push(r, byte, t).last = IF buffer = <<>> \/ lost THEN 0 ELSE t
      /\ Push(r, byte, t).heard = IF used = Length /\ Parses(grown) THEN p ELSE NoPacket
  BY DEF Push
<1>2. Kept(r, t) \in Seq(Byte)
  BY DEF Kept
<1>3. /\ grown \in Seq(Byte) /\ used \in Nat /\ used >= 1 /\ grown[used] = byte
      /\ grown[1] \in Byte
  <2>1. \A s \in Seq(Byte) :
          /\ Append(s, byte) \in Seq(Byte) /\ Len(Append(s, byte)) = Len(s) + 1 /\ Len(s) \in Nat
          /\ Append(s, byte)[Len(s) + 1] = byte
    OBVIOUS
  <2>2. \A s \in Seq(Byte) : Len(s) >= 1 => s[1] \in Byte
    OBVIOUS
  <2> QED
    BY <1>2, <2>1, <2>2
<1> HIDE DEF grown
<1>4. buffer \in Seq(Byte)
  <2>1. <<>> \in Seq(Byte) /\ <<byte>> \in Seq(Byte)
    OBVIOUS
  <2> QED
    BY <1>3, <2>1
<1>5. ASSUME used = Length, Parses(grown)
      PROVE  p = byte.of /\ byte.of \in Packet /\ Ends(byte)
  <2>1. p # NoPacket /\ p.node = NodeId /\ grown = Encode(p)
    BY <1>5 DEF Parses
  <2>2. p \in Packet
    BY <1>3, <2>1 DEF Byte
  <2>3. byte = Encode(p)[Length]
    BY <1>3, <1>5, <2>1
  <2>4. byte.of = p /\ byte.at = Length
    BY <2>2, <2>3, EncodeIsBytes
  <2> QED
    BY <2>1, <2>2, <2>4 DEF Ends
<1> HIDE DEF buffer, used, lost, empty, p
<1>6. Push(r, byte, t).last \in 0..t
  BY <1>1
<1> QED
  BY <1>1, <1>4, <1>5, <1>6

----------------------------------------------------------------------------
(* The lamp is dark in silence                                             *)

LEMMA SendKnown == ASSUME BusKnown, SendFrame PROVE BusKnown'
<1>1. PICK level \in Levels, disguise \in Disguises, ids \in ById,
           written \in 1..Cardinality(Nodes) :
          air' = [k \in 1..written |->
                     [frame |-> sent + 1, node |-> ids[k], level |-> level,
                      fade |-> fadeMs, disguise |-> disguise]]
  BY DEF SendFrame
<1>2. /\ sent < MaxFrames /\ sent' = sent + 1 /\ air = <<>>
      /\ UNCHANGED <<gone, fadeMs>> /\ sent \in 0..MaxFrames /\ fadeMs \in FadeTimes
      /\ gone \in 0..(Length - 1) /\ gone = 0
  BY DEF SendFrame, BusKnown
<1>3. MaxFrames \in Nat /\ Cardinality(Nodes) \in Nat
  <2>1. IsFiniteSet(Nodes)
    <3>1. IsFiniteSet({NodeId})
      BY FS_Singleton
    <3>2. IsFiniteSet(Others)
      BY AnalogAssumption
    <3> QED
      BY <3>1, <3>2, FS_Union DEF Nodes
  <2>2. MaxFrames \in Nat
    BY AnalogAssumption
  <2> QED
    BY <2>1, <2>2, FS_CardinalityType
<1>4. ids \in [1..Cardinality(Nodes) -> Nodes]
  BY DEF ById
<1>5. \A k \in 1..written : ids[k] \in Nodes
  BY <1>3, <1>4
<1>6. sent + 1 \in 1..MaxFrames
  BY <1>2, <1>3
<1>7. \A k \in 1..written :
        [frame |-> sent + 1, node |-> ids[k], level |-> level,
         fade |-> fadeMs, disguise |-> disguise] \in Packet
  BY <1>2, <1>5, <1>6 DEF Packet
<1>8. air' \in [1..written -> Packet]
  BY <1>1, <1>7
<1>9. air' \in Seq(Packet)
  BY <1>3, <1>8
<1> QED
  BY <1>2, <1>3, <1>9 DEF BusKnown

LEMMA LeavesKnown ==
    ASSUME BusKnown, air # <<>>, NEW n \in 1..Rest, Leaves(n), UNCHANGED hostVars
    PROVE  BusKnown'
<1>1. air \in Seq(Packet) /\ gone \in 0..(Length - 1) /\ Length \in Nat
  BY LengthIs DEF BusKnown
<1>2. air' \in Seq(Packet) /\ gone' \in 0..(Length - 1) /\ (air' = <<>> => gone' = 0)
  <2>1. CASE n = Rest
    BY <1>1, <2>1, LengthIs DEF Leaves
  <2>2. CASE n # Rest
    <3>1. air' = air /\ gone' = gone + n /\ n \in 1..(Length - gone) /\ n # Length - gone
      BY <2>2 DEF Leaves, Rest
    <3> QED
      BY <1>1, <3>1
  <2> QED
    BY <2>1, <2>2
<1> QED
  BY <1>2 DEF BusKnown, hostVars

(* The bytes of a packet bring its end when they bring its last.           *)
LEMMA EndsAtTheEnd ==
    ASSUME BusKnown, air # <<>>, NEW n \in 0..Rest, NEW i \in 1..n, Ends(Bytes(n)[i])
    PROVE  n = Rest /\ Head(air).node = NodeId
<1>1. gone \in Nat /\ Length \in Nat /\ n \in 0..(Length - gone)
  BY LengthIs DEF BusKnown, Rest
<1>2. Bytes(n)[i].of = Head(air) /\ Bytes(n)[i].at = gone + i
  BY BytesOnTheBus
<1>3. gone + i = Length /\ Head(air).node = NodeId
  BY <1>2 DEF Ends
<1> QED
  BY <1>1, <1>3 DEF Rest

(* Where a sequence of bytes that is put behind another has its members.   *)
LEMMA Behind ==
    ASSUME NEW a \in Seq(Byte), NEW b \in Seq(Byte)
    PROVE  /\ a \o b \in Seq(Byte) /\ Len(a \o b) = Len(a) + Len(b)
           /\ Len(a) \in Nat /\ Len(b) \in Nat
           /\ \A i \in 1..Len(a) : (a \o b)[i] = a[i]
           /\ \A i \in 1..Len(b) : (a \o b)[Len(a) + i] = b[i]
           /\ \A i \in 1..Len(a \o b) : \/ i \in 1..Len(a) /\ (a \o b)[i] = a[i]
                                       \/ \E j \in 1..Len(b) : i = Len(a) + j /\ (a \o b)[i] = b[j]
<1>1. /\ a \o b \in Seq(Byte) /\ Len(a \o b) = Len(a) + Len(b)
      /\ Len(a) \in Nat /\ Len(b) \in Nat
      /\ \A i \in 1..Len(a) : (a \o b)[i] = a[i]
      /\ \A i \in 1..Len(b) : (a \o b)[Len(a) + i] = b[i]
  OBVIOUS
<1>2. ASSUME NEW i \in 1..Len(a \o b), i \notin 1..Len(a)
      PROVE  \E j \in 1..Len(b) : i = Len(a) + j
  <2>1. i - Len(a) \in 1..Len(b) /\ i = Len(a) + (i - Len(a))
    BY <1>1, <1>2
  <2> QED
    BY <2>1
<1> QED
  BY <1>1, <1>2

LEMMA ArriveKeeps == ASSUME SilenceInv, Arrive PROVE SilenceInv'
<1> USE LengthIs DEF SilenceInv
<1>1. PICK n \in 1..Rest :
        /\ Leaves(n) /\ rx' = rx \o Bytes(n)
        /\ whole' = IF n = Rest /\ Head(air).node = NodeId THEN now ELSE whole
  BY DEF Arrive
<1>2. air # <<>> /\ heardAt' = now /\ ran' = FALSE /\ UNCHANGED <<now, hostVars, nodeVars>>
  BY DEF Arrive
<1>3. n \in 0..Rest /\ Rest \in Nat
  BY DEF BusKnown, Rest
<1>4. /\ Bytes(n) \in Seq(Byte) /\ rx \in Seq(Byte) /\ Len(Bytes(n)) = n
  BY <1>2, <1>3, BytesOnTheBus DEF ReaderKnown
<1>5. BusKnown'
  BY <1>1, <1>2, LeavesKnown
<1>6. ReaderKnown'
  <2>1. rx' \in Seq(Byte)
    BY <1>1, <1>4, Behind
  <2> QED
    BY <1>2, <2>1 DEF ReaderKnown, nodeVars
<1>7. TimesKnown' /\ NotAhead'
  <2>1. now \in 0..MaxTime /\ lastValid \in 0..now /\ whole \in 0..now /\ lastValid <= whole
    BY DEF TimesKnown, NotAhead
  <2>2. now' = now /\ lastValid' = lastValid /\ safe' = safe
    BY <1>2 DEF nodeVars
  <2>3. whole' \in 0..now /\ lastValid <= whole' /\ heardAt' \in 0..now
    BY <1>1, <1>2, <2>1
  <2>4. ran' \in BOOLEAN /\ safe' \in BOOLEAN
    BY <1>2, <2>2 DEF TimesKnown
  <2> QED
    BY <2>1, <2>2, <2>3, <2>4 DEF TimesKnown, NotAhead
<1>8. EndsNow'
  <2> SUFFICES ASSUME NEW i \in 1..Len(rx'), Ends(rx'[i]) PROVE whole' = now'
    BY DEF EndsNow, Ends
  <2>1. CASE i \in 1..Len(rx) /\ rx'[i] = rx[i]
    <3>1. Ends(rx[i])
      BY <2>1 DEF Ends
    <3>2. whole = now
      BY <2>1, <3>1 DEF EndsNow
    <3> QED
      BY <1>1, <1>2, <3>2
  <2>2. ASSUME NEW j \in 1..n, rx'[i] = Bytes(n)[j] PROVE whole' = now'
    <3>1. Ends(Bytes(n)[j])
      BY <2>2 DEF Ends
    <3>2. n = Rest /\ Head(air).node = NodeId
      BY <1>2, <1>3, <3>1, EndsAtTheEnd
    <3> QED
      BY <1>1, <1>2, <3>2
  <2>3. \/ i \in 1..Len(rx) /\ rx'[i] = rx[i]
        \/ \E j \in 1..n : rx'[i] = Bytes(n)[j]
    BY <1>1, <1>4, Behind
  <2> QED
    BY <2>1, <2>2, <2>3
<1>9. SafeIsDark' /\ SafeInTime'
  BY <1>2 DEF SafeIsDark, SafeInTime, IsDark, nodeVars
<1> QED
  BY <1>5, <1>6, <1>7, <1>8, <1>9

LEMMA DisturbKeeps == ASSUME SilenceInv, Disturb PROVE SilenceInv'
<1> USE LengthIs DEF SilenceInv
<1>1. PICK k \in 0..(Rest - 1),
           instead \in {<<>>} \cup {<<[value |-> v, of |-> NoPacket, at |-> 0]>> : v \in Values} :
        Leaves(k + 1) /\ rx' = rx \o Bytes(k) \o instead /\ heardAt' \in {heardAt, now}
  BY DEF Disturb
<1>2. air # <<>> /\ ran' = FALSE /\ UNCHANGED <<now, hostVars, nodeVars, whole>>
  BY DEF Disturb
<1>3. Rest \in Nat /\ k \in 0..Rest /\ k + 1 \in 1..Rest /\ k # Rest
  BY DEF BusKnown, Rest
<1>4. Bytes(k) \in Seq(Byte) /\ rx \in Seq(Byte) /\ Len(Bytes(k)) = k
  BY <1>2, <1>3, BytesOnTheBus DEF ReaderKnown
<1>5. instead \in Seq(Byte) /\ \A j \in 1..Len(instead) : ~Ends(instead[j])
  <2>1. CASE instead = <<>>
    BY <2>1
  <2>2. ASSUME NEW v \in Values, instead = <<[value |-> v, of |-> NoPacket, at |-> 0]>>
        PROVE  instead \in Seq(Byte) /\ \A j \in 1..Len(instead) : ~Ends(instead[j])
    <3>1. PICK b : b = [value |-> v, of |-> NoPacket, at |-> 0]
      OBVIOUS
    <3>2. b \in Byte /\ ~Ends(b)
      BY <3>1 DEF Byte, Ends
    <3>3. instead = <<b>>
      BY <2>2, <3>1
    <3> HIDE <2>2
    <3> QED
      BY <3>2, <3>3
  <2> QED
    BY <2>1, <2>2
<1>6. BusKnown'
  BY <1>1, <1>2, <1>3, LeavesKnown
<1>7. PICK q \in Seq(Byte) : q = rx \o Bytes(k) /\ rx' = q \o instead
  BY <1>1, <1>4, Behind
<1>8. ReaderKnown'
  <2>1. rx' \in Seq(Byte)
    BY <1>5, <1>7, Behind
  <2> QED
    BY <1>2, <2>1 DEF ReaderKnown, nodeVars
<1>9. TimesKnown' /\ NotAhead'
  <2>1. now \in 0..MaxTime /\ heardAt \in 0..now
    BY DEF TimesKnown
  <2>2. UNCHANGED <<now, lastValid, safe, whole>>
    BY <1>2 DEF nodeVars
  <2>3. heardAt' \in 0..now
    BY <1>1, <2>1
  <2> QED
    BY <1>2, <2>1, <2>2, <2>3 DEF TimesKnown, NotAhead
<1>10. EndsNow'
  <2> SUFFICES ASSUME NEW i \in 1..Len(rx'), Ends(rx'[i]) PROVE whole = now
    BY <1>2 DEF EndsNow, Ends
  <2>1. \A j \in 1..k : ~Ends(Bytes(k)[j])
    BY <1>2, <1>3, EndsAtTheEnd
  <2>2. i \in 1..Len(q) /\ rx'[i] = q[i]
    BY <1>5, <1>7, Behind
  <2>3. i \in 1..Len(rx) /\ q[i] = rx[i]
    BY <1>4, <1>7, <2>1, <2>2, Behind
  <2> QED
    BY <2>2, <2>3 DEF EndsNow
<1>11. SafeIsDark' /\ SafeInTime'
  BY <1>2 DEF SafeIsDark, SafeInTime, IsDark, nodeVars
<1> QED
  BY <1>6, <1>8, <1>9, <1>10, <1>11

LEMMA ReadKeeps == ASSUME SilenceInv, Read PROVE SilenceInv'
<1> USE LengthIs DEF SilenceInv
<1> DEFINE r == Push(reader, Head(rx), now)
<1>1. /\ rx # <<>> /\ reader' = [buffer |-> r.buffer, last |-> r.last]
      /\ IF r.heard = NoPacket THEN UNCHANGED <<out, lastValid, safe>>
         ELSE /\ out' = SetTarget(out, r.heard.level, r.heard.fade, now)
              /\ lastValid' = now /\ safe' = FALSE
      /\ rx' = Tail(rx)
      /\ UNCHANGED <<now, hostVars, bus, ran, heardAt, whole>>
  BY DEF Read, history
<1>2. /\ rx \in Seq(Byte) /\ Head(rx) = rx[1] /\ Head(rx) \in Byte /\ 1 \in 1..Len(rx)
      /\ Tail(rx) \in Seq(Byte)
      /\ \A i \in 1..Len(Tail(rx)) : Tail(rx)[i] = rx[i + 1] /\ i + 1 \in 1..Len(rx)
  <2>1. rx \in Seq(Byte) /\ rx # <<>>
    BY <1>1 DEF ReaderKnown
  <2> QED
    BY <2>1
<1>3. /\ r.buffer \in Seq(Byte) /\ r.last \in 0..now
      /\ r.heard # NoPacket => r.heard = Head(rx).of /\ r.heard \in Packet /\ Ends(Head(rx))
  <2>1. reader.buffer \in Seq(Byte) /\ reader.last \in 0..now /\ now \in Nat
    BY DEF ReaderKnown, TimesKnown
  <2> QED
    BY <1>2, <2>1, PushGives
<1> HIDE DEF r
<1>4. ran = FALSE
  <2>1. ~ran
    BY <1>1 DEF ReaderKnown
  <2> QED
    BY <2>1 DEF TimesKnown
<1>5. ReaderKnown' /\ BusKnown'
  <2>1. reader'.buffer = r.buffer /\ reader'.last = r.last
    BY <1>1
  <2>2. ReaderKnown'
    BY <1>1, <1>2, <1>3, <1>4, <2>1 DEF ReaderKnown
  <2> QED
    BY <1>1, <2>2 DEF BusKnown, bus, hostVars
<1>6. EndsNow'
  <2> SUFFICES ASSUME NEW i \in 1..Len(rx'), Ends(rx'[i]) PROVE whole = now
    BY <1>1 DEF EndsNow, Ends
  <2>1. i + 1 \in 1..Len(rx) /\ rx'[i] = rx[i + 1]
    BY <1>1, <1>2
  <2>2. Ends(rx[i + 1])
    BY <2>1 DEF Ends
  <2> QED
    BY <2>1, <2>2 DEF EndsNow
<1>7. CASE r.heard = NoPacket
  <2>1. UNCHANGED <<now, out, lastValid, safe, ran, whole, heardAt>>
    BY <1>1, <1>7
  <2> QED
    BY <1>5, <1>6, <2>1 DEF TimesKnown, NotAhead, SafeIsDark, SafeInTime, IsDark
<1>8. CASE r.heard # NoPacket
  <2>1. whole = now
    BY <1>2, <1>3, <1>8 DEF EndsNow
  <2>2. lastValid' = now /\ safe' = FALSE /\ UNCHANGED <<now, ran, whole, heardAt>>
    BY <1>1, <1>8
  <2>3. TimesKnown' /\ NotAhead'
    <3>1. now \in 0..MaxTime /\ whole \in 0..now /\ heardAt \in 0..now
      BY DEF TimesKnown
    <3>2. lastValid' \in 0..now /\ lastValid' <= whole
      BY <2>1, <2>2, <3>1
    <3>3. ran' \in BOOLEAN /\ safe' \in BOOLEAN
      BY <1>4, <2>2
    <3> QED
      BY <2>2, <3>1, <3>2, <3>3 DEF TimesKnown, NotAhead
  <2>4. SafeIsDark' /\ SafeInTime'
    BY <1>4, <2>2 DEF SafeIsDark, SafeInTime
  <2> QED
    BY <1>5, <1>6, <2>3, <2>4
<1> QED
  BY <1>7, <1>8

LEMMA LoopKeeps == ASSUME SilenceInv, Loop PROVE SilenceInv'
<1> USE DEF SilenceInv
<1>1. /\ rx = <<>> /\ ran' = TRUE /\ safe' = (safe \/ Silent)
      /\ out' = Update(IF Silent THEN SetBlack(out, now) ELSE out, now)
      /\ UNCHANGED <<now, hostVars, bus, rx, reader, lastValid, whole, heardAt>>
  BY DEF Loop, history
<1>2. BusKnown' /\ ReaderKnown' /\ EndsNow'
  BY <1>1 DEF BusKnown, ReaderKnown, EndsNow, Ends, bus, hostVars
<1>3. TimesKnown' /\ NotAhead'
  <2>1. safe' \in BOOLEAN /\ ran' \in BOOLEAN
    BY <1>1
  <2> QED
    BY <1>1, <2>1 DEF TimesKnown, NotAhead
<1>4. SafeInTime'
  <2>1. now - lastValid > SafeTimeout => safe'
    BY <1>1 DEF Silent
  <2> QED
    BY <1>1, <2>1 DEF SafeInTime
<1>5. SafeIsDark'
  <2>1. CASE Silent
    <3>1. SetBlack(out, now).current = 0 /\ SetBlack(out, now).fade = 0
      BY DEF SetBlack, SetTarget
    <3> QED
      BY <1>1, <2>1, <3>1 DEF SafeIsDark, IsDark, Update
  <2>2. CASE ~Silent
    <3>1. safe' => safe /\ out.fade = 0 /\ out.current = 0
      BY <1>1, <2>2 DEF SafeIsDark, IsDark
    <3>2. safe' => out' = out
      BY <1>1, <2>2, <3>1 DEF Update
    <3> QED
      BY <3>1, <3>2 DEF SafeIsDark, IsDark
  <2> QED
    BY <2>1, <2>2
<1> QED
  BY <1>2, <1>3, <1>4, <1>5

LEMMA RestKeeps ==
    ASSUME SilenceInv, SendFrame \/ Restart \/ Tick \/ UNCHANGED vars
    PROVE  SilenceInv'
<1> USE DEF SilenceInv
<1>1. CASE SendFrame
  <2>1. BusKnown' /\ UNCHANGED <<now, rx, nodeVars, ran, history>>
    BY <1>1, SendKnown DEF SendFrame
  <2> QED
    BY <2>1 DEF nodeVars, history, ReaderKnown, TimesKnown, EndsNow, NotAhead, SafeIsDark,
                IsDark, SafeInTime
<1>2. CASE Restart
  <2>1. /\ reader' = NewReader /\ out' = SetBlack(NewOutput, now) /\ lastValid' = now
        /\ safe' = FALSE /\ rx' = <<>> /\ whole' = now /\ ran' = FALSE
        /\ UNCHANGED <<now, hostVars, bus, heardAt>>
    BY <1>2 DEF Restart
  <2>2. reader'.buffer = <<>> /\ reader'.last = 0
    BY <2>1 DEF NewReader
  <2>3. now \in 0..MaxTime /\ heardAt \in 0..now
    BY DEF TimesKnown
  <2>4. ReaderKnown'
    BY <2>1, <2>2, <2>3 DEF ReaderKnown
  <2>5. lastValid' \in 0..now /\ whole' \in 0..now /\ lastValid' <= whole'
    BY <2>1, <2>3
  <2>6. TimesKnown' /\ NotAhead'
    BY <2>1, <2>3, <2>5 DEF TimesKnown, NotAhead
  <2>7. BusKnown' /\ EndsNow' /\ SafeIsDark' /\ SafeInTime'
    BY <2>1 DEF BusKnown, bus, hostVars, EndsNow, SafeIsDark, SafeInTime
  <2> QED
    BY <2>4, <2>6, <2>7
<1>3. CASE Tick
  <2>1. /\ ran /\ now < MaxTime /\ now' = now + 1 /\ ran' = FALSE
        /\ UNCHANGED <<hostVars, bus, rx, nodeVars, whole, heardAt>>
    BY <1>3 DEF Tick, history
  <2>2. rx = <<>> /\ now \in 0..MaxTime /\ now' \in 0..MaxTime /\ 0..now \subseteq 0..now'
    <3>1. rx = <<>> /\ now \in 0..MaxTime
      BY <2>1 DEF ReaderKnown, TimesKnown
    <3> QED
      BY <2>1, <3>1, TimesAre
  <2>3. TimesKnown' /\ NotAhead'
    <3>1. /\ lastValid' \in 0..now' /\ whole' \in 0..now' /\ heardAt' \in 0..now'
          /\ lastValid' <= whole'
      BY <2>1, <2>2 DEF TimesKnown, NotAhead, nodeVars
    <3>2. ran' \in BOOLEAN /\ safe' \in BOOLEAN
      BY <2>1 DEF TimesKnown, nodeVars
    <3> QED
      BY <2>2, <3>1, <3>2 DEF TimesKnown, NotAhead
  <2>4. ReaderKnown' /\ BusKnown' /\ EndsNow'
    BY <2>1, <2>2 DEF ReaderKnown, BusKnown, EndsNow, bus, hostVars, nodeVars
  <2>5. SafeIsDark' /\ SafeInTime'
    BY <2>1 DEF SafeIsDark, SafeInTime, IsDark, nodeVars
  <2> QED
    BY <2>3, <2>4, <2>5
<1>4. CASE UNCHANGED vars
  BY <1>4 DEF vars, bus, hostVars, nodeVars, history, BusKnown, ReaderKnown, TimesKnown, EndsNow,
              Ends, NotAhead, SafeIsDark, IsDark, SafeInTime
<1> QED
  BY <1>1, <1>2, <1>3, <1>4

LEMMA InitSilence == Init => SilenceInv
<1> SUFFICES ASSUME Init PROVE SilenceInv
  OBVIOUS
<1> USE LengthIs
<1>1. MaxTime \in Nat /\ MaxFrames \in Nat
  BY AnalogAssumption
<1>2. reader.buffer = <<>> /\ reader.last = 0
  BY DEF Init, NewReader
<1>3. BusKnown /\ ReaderKnown
  BY <1>1, <1>2 DEF Init, BusKnown, ReaderKnown
<1>4. TimesKnown
  <2>1. now \in 0..MaxTime /\ lastValid \in 0..now /\ whole \in 0..now /\ heardAt \in 0..now
    BY <1>1 DEF Init
  <2>2. ran \in BOOLEAN /\ safe \in BOOLEAN
    BY DEF Init
  <2> QED
    BY <2>1, <2>2 DEF TimesKnown
<1>5. EndsNow /\ NotAhead /\ SafeIsDark /\ SafeInTime
  BY DEF Init, EndsNow, NotAhead, SafeIsDark, SafeInTime
<1> QED
  BY <1>3, <1>4, <1>5 DEF SilenceInv

LEMMA NextKeepsSilence == SilenceInv /\ [Next]_vars => SilenceInv'
  BY ReadKeeps, LoopKeeps, ArriveKeeps, DisturbKeeps, RestKeeps DEF Next

(* The lamp is dark once no packet for this node has ended for the time of *)
(* the safe state: what the node took for the last packet is no later than *)
(* the last one that ended, and nothing else lights the lamp.              *)
THEOREM LampIsDark == Spec => []DarkInSilence
<1>1. SilenceInv => DarkInSilence
  <2> SUFFICES ASSUME SilenceInv, ran, now - whole > SafeTimeout
               PROVE  out.current = 0 /\ out.fade = 0
    BY DEF DarkInSilence
  <2>1. lastValid \in Int /\ whole \in Int /\ now \in Int /\ lastValid <= whole
    BY DEF SilenceInv, TimesKnown, NotAhead
  <2>2. now - lastValid > SafeTimeout
    BY <2>1, TimesAre
  <2>3. safe
    BY <2>2 DEF SilenceInv, SafeInTime
  <2> QED
    BY <2>3 DEF SilenceInv, SafeIsDark, IsDark
<1> QED
  BY <1>1, InitSilence, NextKeepsSilence, PTL DEF Spec

----------------------------------------------------------------------------
(* The lamp changes towards its target                                     *)

LEMMA DivisionRises ==
    ASSUME NEW a \in Nat, NEW b \in Nat, a <= b, NEW t \in Nat \ {0}
    PROVE  a \div t <= b \div t
  OBVIOUS

LEMMA ProductRises ==
    ASSUME NEW d \in Nat, NEW a \in Nat, NEW b \in Nat, a <= b
    PROVE  d * a <= d * b /\ d * a \in Nat /\ d * b \in Nat
  OBVIOUS

LEMMA PartOfAll ==
    ASSUME NEW d \in Nat, NEW e \in Nat, NEW t \in Nat \ {0}, e <= t
    PROVE  (d * e) \div t <= d
  OBVIOUS

LEMMA NoneOfIt ==
    ASSUME NEW d \in Nat, NEW t \in Nat \ {0}
    PROVE  (d * 0) \div t = 0
  OBVIOUS

(* What has been covered of a distance d after e of t grows with e, up to  *)
(* the distance.                                                           *)
LEMMA CoveredRises ==
    ASSUME NEW d \in Nat, NEW a \in Nat, NEW b \in Nat, a <= b, NEW t \in Nat \ {0}, b <= t
    PROVE  /\ (d * a) \div t \in Nat /\ (d * b) \div t \in Nat
           /\ (d * a) \div t <= (d * b) \div t
           /\ (d * b) \div t <= d
<1>1. /\ d * a \in Nat /\ d * b \in Nat /\ d * a <= d * b /\ d * 0 <= d * a /\ d * 0 \in Nat
  BY ProductRises
<1>2. /\ (d * 0) \div t <= (d * a) \div t /\ (d * a) \div t <= (d * b) \div t
  BY <1>1, DivisionRises
<1>3. (d * b) \div t <= d /\ (d * 0) \div t = 0
  BY PartOfAll, NoneOfIt
<1>4. (d * a) \div t \in Int /\ (d * b) \div t \in Int
  BY <1>1
<1> QED
  BY <1>2, <1>3, <1>4

(* A value of a fade is between its ends, and a later one no further from  *)
(* where it goes.                                                          *)
LEMMA LerpGoesOn ==
    ASSUME NEW from \in Nat, NEW to \in Nat, NEW total \in Nat \ {0},
           NEW a \in Nat, NEW b \in Nat, a <= b
    PROVE  /\ Lerp(from, to, a, total) \in Nat /\ Lerp(from, to, b, total) \in Nat
           /\ to >= from => /\ from <= Lerp(from, to, a, total)
                            /\ Lerp(from, to, a, total) <= Lerp(from, to, b, total)
                            /\ Lerp(from, to, b, total) <= to
           /\ to < from => /\ from >= Lerp(from, to, a, total)
                           /\ Lerp(from, to, a, total) >= Lerp(from, to, b, total)
                           /\ Lerp(from, to, b, total) >= to
<1> DEFINE up(e) == ((to - from) * e) \div total
           down(e) == ((from - to) * e) \div total
<1>1. CASE to >= from
  <2>1. to - from \in Nat
    BY <1>1
  <2>2. \A e \in Nat : e < total =>
           /\ up(e) \in Nat /\ up(e) <= to - from
           /\ \A f \in Nat : f <= e => up(f) \in Nat /\ up(f) <= up(e)
    BY <2>1, CoveredRises
  <2>3. \A e \in Nat : Lerp(from, to, e, total) = IF e >= total THEN to ELSE from + up(e)
    BY <1>1 DEF Lerp
  <2> HIDE DEF up
  <2>4. CASE b >= total
    <3>1. Lerp(from, to, b, total) = to
      BY <2>3, <2>4
    <3>2. CASE a >= total
      BY <1>1, <2>3, <3>1, <3>2
    <3>3. CASE a < total
      <4>1. up(a) \in Nat /\ up(a) <= to - from /\ Lerp(from, to, a, total) = from + up(a)
        BY <2>2, <2>3, <3>3
      <4> QED
        BY <1>1, <3>1, <4>1
    <3> QED
      BY <3>2, <3>3
  <2>5. CASE b < total
    <3>1. /\ up(b) \in Nat /\ up(b) <= to - from /\ up(a) \in Nat /\ up(a) <= up(b)
      BY <2>2, <2>5
    <3>2. Lerp(from, to, b, total) = from + up(b) /\ Lerp(from, to, a, total) = from + up(a)
      BY <2>3, <2>5
    <3> QED
      BY <1>1, <3>1, <3>2
  <2> QED
    BY <2>4, <2>5
<1>2. CASE to < from
  <2>1. from - to \in Nat
    BY <1>2
  <2>2. \A e \in Nat : e < total =>
           /\ down(e) \in Nat /\ down(e) <= from - to
           /\ \A f \in Nat : f <= e => down(f) \in Nat /\ down(f) <= down(e)
    BY <2>1, CoveredRises
  <2>3. \A e \in Nat : Lerp(from, to, e, total) = IF e >= total THEN to ELSE from - down(e)
    BY <1>2 DEF Lerp
  <2> HIDE DEF down
  <2>4. CASE b >= total
    <3>1. Lerp(from, to, b, total) = to
      BY <2>3, <2>4
    <3>2. CASE a >= total
      BY <1>2, <2>3, <3>1, <3>2
    <3>3. CASE a < total
      <4>1. down(a) \in Nat /\ down(a) <= from - to /\ Lerp(from, to, a, total) = from - down(a)
        BY <2>2, <2>3, <3>3
      <4> QED
        BY <1>2, <3>1, <4>1
    <3> QED
      BY <3>2, <3>3
  <2>5. CASE b < total
    <3>1. /\ down(b) \in Nat /\ down(b) <= from - to /\ down(a) \in Nat /\ down(a) <= down(b)
      BY <2>2, <2>5
    <3>2. Lerp(from, to, b, total) = from - down(b) /\ Lerp(from, to, a, total) = from - down(a)
      BY <2>3, <2>5
    <3> QED
      BY <1>2, <3>1, <3>2
  <2> QED
    BY <2>4, <2>5
<1> QED
  BY <1>1, <1>2

----------------------------------------------------------------------------
(* The output: a fade under way has its level from a moment of the fade,   *)
(* so that its next level is between this one and the target.              *)

OutKnown == out \in [start : Nat, target : Nat, since : 0..now, fade : Nat, current : Nat]

Midway ==
    out.fade > 0 =>
        \E e \in 0..(now - out.since) :
            out.current = Lerp(out.start, out.target, e, out.fade)

FadeInv == SilenceInv /\ OutKnown /\ Midway

TowardsStep ==
    \/ out.current <= out'.current /\ out'.current <= out'.target
    \/ out.current >= out'.current /\ out'.current >= out'.target

LEMMA OutputsAre == Levels \subseteq Nat /\ FadeTimes \subseteq Nat
<1>1. Levels \subseteq Nat
  BY AnalogAssumption, SMT
<1>2. FadeTimes \subseteq Nat
  BY AnalogAssumption, SMT
<1> QED
  BY <1>1, <1>2

LEMMA StartOfFade ==
    ASSUME NEW from \in Nat, NEW to \in Nat, NEW total \in Nat, total > 0
    PROVE  Lerp(from, to, 0, total) = from
<1>1. from \in Nat /\ to \in Nat /\ total \in Nat \ {0}
  OBVIOUS
<1>2. to >= from => to - from \in Nat /\ ((to - from) * 0) \div total = 0
  BY <1>1, NoneOfIt
<1>3. ~(to >= from) => from - to \in Nat /\ ((from - to) * 0) \div total = 0
  BY <1>1, NoneOfIt
<1>4. /\ to >= from => Lerp(from, to, 0, total) = from + ((to - from) * 0) \div total
      /\ ~(to >= from) => Lerp(from, to, 0, total) = from - ((from - to) * 0) \div total
  BY <1>1 DEF Lerp
<1>5. /\ to >= from => Lerp(from, to, 0, total) = from + 0
      /\ ~(to >= from) => Lerp(from, to, 0, total) = from - 0
  BY <1>2, <1>3, <1>4
<1> QED
  BY <1>1, <1>5

(* A new target.                                                           *)
LEMMA TargetSets ==
    ASSUME now \in Nat, OutKnown, NEW level \in Nat, NEW fade \in Nat,
           now' = now, out' = SetTarget(out, level, fade, now)
    PROVE  OutKnown' /\ Midway' /\ TowardsStep
<1>1. /\ out.current \in Nat /\ out'.start = out.current /\ out'.target = level
      /\ out'.since = now /\ out'.fade = fade
      /\ out'.current = IF fade = 0 THEN level ELSE out.current
      /\ out' = [start |-> out'.start, target |-> out'.target, since |-> out'.since,
                 fade |-> out'.fade, current |-> out'.current]
  BY DEF OutKnown, SetTarget
<1>2. OutKnown'
  <2>1. out'.current \in Nat
    BY <1>1
  <2>2. now \in 0..now'
    OBVIOUS
  <2> QED
    BY <1>1, <2>1, <2>2 DEF OutKnown
<1>3. Midway'
  <2> SUFFICES ASSUME out'.fade > 0
               PROVE  \E e \in 0..(now' - out'.since) :
                          out'.current = Lerp(out'.start, out'.target, e, out'.fade)
    BY DEF Midway
  <2>1. out'.current = out.current /\ Lerp(out.current, level, 0, fade) = out.current
    BY <1>1, StartOfFade
  <2>2. 0 \in 0..(now' - out'.since)
    BY <1>1
  <2> QED
    BY <1>1, <2>1, <2>2
<1>4. TowardsStep
  BY <1>1 DEF TowardsStep
<1> QED
  BY <1>2, <1>3, <1>4

(* An update, at a moment that is no earlier than the last one.            *)
LEMMA UpdateGoesOn ==
    ASSUME now \in Nat, OutKnown, Midway, now' = now, out' = Update(out, now)
    PROVE  OutKnown' /\ Midway' /\ TowardsStep
<1>1. CASE out.fade = 0
  <2>1. out' = out
    BY <1>1 DEF Update
  <2>2. OutKnown' /\ Midway'
    BY <2>1 DEF OutKnown, Midway
  <2>3. out.current \in Int /\ out.target \in Int
    BY DEF OutKnown
  <2> QED
    BY <2>1, <2>2, <2>3, <1>1 DEF TowardsStep, Update
<1>2. CASE out.fade # 0
  <2> DEFINE from == out.start  to == out.target  total == out.fade
             b == now - out.since
             ended == b >= total
  <2>1. /\ from \in Nat /\ to \in Nat /\ total \in Nat /\ total > 0
        /\ out.current \in Nat /\ out.since \in 0..now /\ b \in Nat
    BY <1>2 DEF OutKnown
  <2>2. /\ out'.start = from /\ out'.target = to /\ out'.since = out.since
        /\ out'.current = Lerp(from, to, b, total)
        /\ out'.fade = IF ended THEN 0 ELSE total
        /\ out' = [start |-> out'.start, target |-> out'.target, since |-> out'.since,
                   fade |-> out'.fade, current |-> out'.current]
    BY <1>2 DEF OutKnown, Update
  <2>3. PICK a \in 0..b : out.current = Lerp(from, to, a, total)
    BY <2>1 DEF Midway
  <2>4. from \in Nat /\ to \in Nat /\ total \in Nat \ {0} /\ a \in Nat /\ a <= b
    BY <2>1, <2>3
  <2> HIDE DEF from, to, total, b
  <2>5. /\ Lerp(from, to, a, total) \in Nat /\ Lerp(from, to, b, total) \in Nat
        /\ to >= from => /\ from <= Lerp(from, to, a, total)
                         /\ Lerp(from, to, a, total) <= Lerp(from, to, b, total)
                         /\ Lerp(from, to, b, total) <= to
        /\ to < from => /\ from >= Lerp(from, to, a, total)
                        /\ Lerp(from, to, a, total) >= Lerp(from, to, b, total)
                        /\ Lerp(from, to, b, total) >= to
    BY <2>1, <2>4, LerpGoesOn
  <2>6. TowardsStep
    BY <2>2, <2>3, <2>4, <2>5 DEF TowardsStep
  <2>7. out'.current \in Nat /\ out'.fade \in Nat
    <3>1. out'.current \in Nat
      BY <2>1, <2>2, <2>4, <2>5
    <3>2. out'.fade \in Nat
      BY <2>1, <2>2
    <3> QED
      BY <3>1, <3>2
  <2>8. OutKnown'
    BY <2>1, <2>2, <2>7 DEF OutKnown
  <2>9. Midway'
    <3> SUFFICES ASSUME out'.fade > 0
                 PROVE  \E e \in 0..(now' - out'.since) :
                            out'.current = Lerp(out'.start, out'.target, e, out'.fade)
      BY DEF Midway
    <3>1. out'.fade = total /\ now' - out'.since = b
      BY <2>2 DEF b
    <3>2. b \in 0..b
      BY <2>1
    <3> QED
      BY <2>2, <3>1, <3>2
  <2> QED
    BY <2>6, <2>8, <2>9
<1> QED
  BY <1>1, <1>2

LEMMA ReadFades == ASSUME FadeInv, Read PROVE OutKnown' /\ Midway' /\ (out' # out => TowardsStep)
<1> DEFINE r == Push(reader, Head(rx), now)
<1>1. /\ rx # <<>> /\ now' = now
      /\ IF r.heard = NoPacket THEN UNCHANGED <<out, lastValid, safe>>
         ELSE /\ out' = SetTarget(out, r.heard.level, r.heard.fade, now)
              /\ lastValid' = now /\ safe' = FALSE
  BY DEF Read
<1>2. Head(rx) \in Byte
  <2>1. rx \in Seq(Byte) /\ rx # <<>>
    BY <1>1 DEF FadeInv, SilenceInv, ReaderKnown
  <2> QED
    BY <2>1
<1>3. r.heard # NoPacket => r.heard \in Packet
  <2>1. reader.buffer \in Seq(Byte) /\ reader.last \in 0..now /\ now \in Nat
    BY DEF FadeInv, SilenceInv, ReaderKnown, TimesKnown
  <2> QED
    BY <1>2, <2>1, PushGives
<1> HIDE DEF r
<1>4. CASE r.heard = NoPacket
  BY <1>1, <1>4 DEF FadeInv, OutKnown, Midway
<1>5. CASE r.heard # NoPacket
  <2>1. r.heard.level \in Nat /\ r.heard.fade \in Nat
    <3>1. r.heard \in Packet
      BY <1>3, <1>5
    <3>2. r.heard.level \in Levels /\ r.heard.fade \in FadeTimes
      BY <3>1 DEF Packet
    <3> QED
      BY <3>2, OutputsAre
  <2>2. now \in Nat /\ OutKnown
    BY DEF FadeInv, SilenceInv, TimesKnown
  <2> QED
    BY <1>1, <1>5, <2>1, <2>2, TargetSets
<1> QED
  BY <1>4, <1>5

LEMMA LoopFades == ASSUME FadeInv, Loop PROVE OutKnown' /\ Midway' /\ (out' # out => TowardsStep)
<1>1. /\ now' = now
      /\ out' = Update(IF Silent THEN SetBlack(out, now) ELSE out, now)
  BY DEF Loop
<1>2. now \in Nat /\ OutKnown /\ Midway
  BY DEF FadeInv, SilenceInv, TimesKnown
<1>3. CASE Silent
  <2>1. Update(SetBlack(out, now), now) = SetTarget(out, 0, 0, now)
    BY DEF Update, SetBlack, SetTarget
  <2>2. 0 \in Nat /\ 0 \in Nat
    OBVIOUS
  <2> QED
    BY <1>1, <1>2, <1>3, <2>1, <2>2, TargetSets
<1>4. CASE ~Silent
  BY <1>1, <1>2, <1>4, UpdateGoesOn
<1> QED
  BY <1>3, <1>4

LEMMA RestFades ==
    ASSUME FadeInv, SendFrame \/ Restart \/ Arrive \/ Disturb \/ Tick \/ UNCHANGED vars
    PROVE  OutKnown' /\ Midway' /\ (out' # out => TowardsStep)
<1>1. CASE Restart
  <2>1. out' = [start |-> 0, target |-> 0, since |-> now, fade |-> 0, current |-> 0] /\ now' = now
    BY <1>1 DEF Restart, SetBlack, SetTarget, NewOutput
  <2>2. now \in Nat
    BY DEF FadeInv, SilenceInv, TimesKnown
  <2>3. out.current \in Nat
    BY DEF FadeInv, OutKnown
  <2>4. OutKnown' /\ Midway'
    BY <2>1, <2>2 DEF OutKnown, Midway
  <2> QED
    BY <2>1, <2>3, <2>4 DEF TowardsStep
<1>2. CASE SendFrame \/ Arrive \/ Disturb \/ UNCHANGED vars
  <2>1. out' = out /\ now' = now
    BY <1>2 DEF SendFrame, Arrive, Disturb, vars, nodeVars
  <2> QED
    BY <2>1 DEF FadeInv, OutKnown, Midway
<1>3. CASE Tick
  <2>1. out' = out /\ now' = now + 1
    BY <1>3 DEF Tick, nodeVars
  <2>2. now \in Nat /\ OutKnown /\ Midway
    BY DEF FadeInv, SilenceInv, TimesKnown
  <2>3. out.since \in 0..now
    BY <2>2 DEF OutKnown
  <2>4. 0..now \subseteq 0..(now + 1)
    BY <2>2
  <2>5. OutKnown'
    BY <2>1, <2>2, <2>4 DEF OutKnown
  <2>6. Midway'
    <3> SUFFICES ASSUME out'.fade > 0
                 PROVE  \E e \in 0..(now' - out'.since) :
                            out'.current = Lerp(out'.start, out'.target, e, out'.fade)
      BY DEF Midway
    <3>1. PICK e \in 0..(now - out.since) :
             out.current = Lerp(out.start, out.target, e, out.fade)
      BY <2>1, <2>2 DEF Midway
    <3>2. e \in 0..(now' - out'.since)
      BY <2>1, <2>2, <2>3
    <3>3. out'.current = Lerp(out'.start, out'.target, e, out'.fade)
      BY <2>1, <3>1
    <3> QED
      BY <3>2, <3>3
  <2> QED
    BY <2>1, <2>5, <2>6
<1> QED
  BY <1>1, <1>2, <1>3

LEMMA NextKeepsFade ==
    ASSUME FadeInv, [Next]_vars PROVE FadeInv' /\ (out' # out => TowardsStep)
<1>1. SilenceInv'
  BY NextKeepsSilence DEF FadeInv
<1>2. OutKnown' /\ Midway' /\ (out' # out => TowardsStep)
  BY ReadFades, LoopFades, RestFades DEF Next
<1> QED
  BY <1>1, <1>2 DEF FadeInv

LEMMA InitFade == Init => FadeInv
<1> SUFFICES ASSUME Init PROVE OutKnown /\ Midway
  BY InitSilence DEF FadeInv
<1>1. out = [start |-> 0, target |-> 0, current |-> 0, since |-> 0, fade |-> 0] /\ now = 0
  BY DEF Init, NewOutput
<1> QED
  BY <1>1 DEF OutKnown, Midway

(* The lamp changes towards its target and not beyond, for every fade time *)
(* and every level: the integer arithmetic of the fade rises with the time *)
(* elapsed, and a new target leaves from where the lamp is.                *)
THEOREM LampGoesOn == Spec => Towards
<1> DEFINE S == \/ out.current <= out'.current /\ out'.current <= out'.target
                \/ out.current >= out'.current /\ out'.current >= out'.target
<1>1. FadeInv /\ [Next]_vars => FadeInv' /\ [S]_out
  <2> SUFFICES ASSUME FadeInv, [Next]_vars PROVE FadeInv' /\ (out' # out => S)
    OBVIOUS
  <2> QED
    BY NextKeepsFade DEF TowardsStep
<1> QED
  BY <1>1, InitFade, PTL DEF Spec, Towards

----------------------------------------------------------------------------
(* The node shows the latest packet: while the reader can follow, what it  *)
(* keeps and what waits in the UART are bytes of whole packets in their    *)
(* order, from the first of a packet to the one the bus is at.             *)

Piece(p, k) == SubSeq(Encode(p), 1, k)

Genuine(byte) ==
    byte.of \in Packet /\ byte.at \in 1..Length /\ byte = Encode(byte.of)[byte.at]

Continues(a, b) == IF a.at = Length THEN b.at = 1 ELSE b.of = a.of /\ b.at = a.at + 1

InOrder ==
    /\ \A i \in 1..Len(rx) : Genuine(rx[i])
    /\ \A i \in 2..Len(rx) : Continues(rx[i - 1], rx[i])

HeadFits == rx # <<>> => Kept(reader, now) = Piece(rx[1].of, rx[1].at - 1)

EndFits ==
    IF rx # <<>>
    THEN IF gone = 0 THEN rx[Len(rx)].at = Length
         ELSE rx[Len(rx)].of = Head(air) /\ rx[Len(rx)].at = gone
    ELSE IF gone = 0 THEN reader.buffer = <<>>
         ELSE reader.buffer = Piece(Head(air), gone) /\ reader.last = heardAt

Follows == clean => InOrder /\ HeadFits /\ EndFits

HeardInTime == reader.last <= heardAt /\ (rx # <<>> => heardAt = now)

(* The last packet for this node is still to be read, or is shown.         *)
NoneEnds(i) == \A j \in i..Len(rx) : ~Ends(rx[j])
Coming == \E i \in 1..Len(rx) : Ends(rx[i]) /\ rx[i].of = due /\ NoneEnds(i + 1)
Applied ==
    NoneEnds(1) /\ lastValid = whole /\ (now - whole <= SafeTimeout => out.target = due.level)

DueKnown ==
    due # NoPacket => clean /\ due \in Packet /\ due.node = NodeId /\ (Coming \/ Applied)

LatestInv == FadeInv /\ Follows /\ HeardInTime /\ DueKnown

LEMMA FirstBytes ==
    ASSUME NEW e \in Seq(Byte), NEW k \in Nat, k < Len(e)
    PROVE  /\ SubSeq(e, 1, k) \in Seq(Byte) /\ Len(SubSeq(e, 1, k)) = k
           /\ Append(SubSeq(e, 1, k), e[k + 1]) = SubSeq(e, 1, k + 1)
           /\ SubSeq(e, 1, k + 1)[1] = e[1]
           /\ SubSeq(e, 1, 0) = <<>>
           /\ k + 1 = Len(e) => SubSeq(e, 1, k + 1) = e
<1>1. /\ SubSeq(e, 1, k) \in Seq(Byte) /\ Len(SubSeq(e, 1, k)) = k
      /\ \A i \in 1..k : SubSeq(e, 1, k)[i] = e[i]
  OBVIOUS
<1>2. /\ SubSeq(e, 1, k + 1) \in Seq(Byte) /\ Len(SubSeq(e, 1, k + 1)) = k + 1
      /\ \A i \in 1..(k + 1) : SubSeq(e, 1, k + 1)[i] = e[i]
  OBVIOUS
<1>3. \A s \in Seq(Byte), b \in Byte :
         /\ Append(s, b) \in Seq(Byte) /\ Len(Append(s, b)) = Len(s) + 1
         /\ \A i \in 1..Len(s) : Append(s, b)[i] = s[i]
         /\ Append(s, b)[Len(s) + 1] = b
  OBVIOUS
<1>4. e[k + 1] \in Byte
  OBVIOUS
<1>5. PICK a \in Seq(Byte) : a = Append(SubSeq(e, 1, k), e[k + 1])
  BY <1>1, <1>3, <1>4
<1>6. Len(a) = k + 1 /\ \A i \in 1..(k + 1) : a[i] = e[i]
  <2>1. Len(a) = k + 1 /\ a[k + 1] = e[k + 1] /\ \A i \in 1..k : a[i] = e[i]
    BY <1>1, <1>3, <1>4, <1>5
  <2> QED
    BY <2>1
<1>7. \A s, t \in Seq(Byte) :
         Len(s) = Len(t) /\ (\A i \in 1..Len(s) : s[i] = t[i]) => s = t
  BY SeqEqual
<1>8. a = SubSeq(e, 1, k + 1)
  BY <1>2, <1>6, <1>7
<1>9. k + 1 = Len(e) => SubSeq(e, 1, k + 1) = e
  BY <1>2, <1>7
<1>10. SubSeq(e, 1, 0) = <<>>
  OBVIOUS
<1> QED
  BY <1>1, <1>2, <1>5, <1>8, <1>9, <1>10

LEMMA PieceGrows ==
    ASSUME NEW p \in Packet, NEW k \in 1..Length
    PROVE  /\ Append(Piece(p, k - 1), Encode(p)[k]) = Piece(p, k)
           /\ Piece(p, k) \in Seq(Byte) /\ Len(Piece(p, k)) = k /\ Piece(p, k)[1] = Encode(p)[1]
           /\ Piece(p, 0) = <<>> /\ Piece(p, Length) = Encode(p)
<1> USE LengthIs
<1>1. PICK e \in Seq(Byte) : e = Encode(p) /\ Len(e) = Length
  BY EncodeIsBytes
<1>2. \A i \in 0..Length : Piece(p, i) = SubSeq(e, 1, i)
  BY <1>1 DEF Piece
<1>3. /\ k - 1 \in Nat /\ k - 1 < Len(e) /\ (k - 1) + 1 = k /\ Length - 1 \in Nat
      /\ Length - 1 < Len(e) /\ (Length - 1) + 1 = Len(e)
  BY <1>1
<1>4. /\ Append(SubSeq(e, 1, k - 1), e[k]) = SubSeq(e, 1, k)
      /\ SubSeq(e, 1, k)[1] = e[1] /\ SubSeq(e, 1, 0) = <<>>
  BY <1>3, FirstBytes
<1>5. SubSeq(e, 1, Length) = e
  BY <1>1, <1>3, FirstBytes
<1>6. SubSeq(e, 1, k) \in Seq(Byte) /\ Len(SubSeq(e, 1, k)) = k
  BY <1>1
<1>7. Piece(p, k - 1) = SubSeq(e, 1, k - 1) /\ Piece(p, k) = SubSeq(e, 1, k)
  BY <1>2, <1>3
<1>8. Piece(p, 0) = SubSeq(e, 1, 0) /\ Piece(p, Length) = SubSeq(e, 1, Length)
  BY <1>2
<1> QED
  BY <1>1, <1>4, <1>5, <1>6, <1>7, <1>8

LEMMA SyncBytes ==
    ASSUME NEW p \in Packet
    PROVE  Encode(p)[1].value = "sync0" /\ Encode(p)[2].value = "sync1"
<1>1. p.disguise \in Disguises
  BY DEF Packet
<1>2. p.disguise = 0 \/ p.disguise > 2
  <2>1. Disguises \subseteq {0} \cup 3..(Length - 1)
    BY AnalogAssumption
  <2>2. p.disguise = 0 \/ p.disguise \in 3..(Length - 1)
    BY <1>1, <2>1
  <2> QED
    BY <2>2, LengthIs
<1>3. ValueAt(p, 1) = "sync0"
  BY DEF ValueAt
<1>4. ValueAt(p, 2) = "sync1"
  <2>1. 2 \notin {1, p.disguise}
    BY <1>2
  <2> QED
    BY <2>1 DEF ValueAt
<1> QED
  BY <1>3, <1>4, LengthIs DEF Encode

(* A reader that has the first bytes of a packet takes the next one, and   *)
(* hears the packet at its last.                                           *)
LEMMA PushFollows ==
    ASSUME NEW r, NEW t, NEW p \in Packet, NEW k \in 1..Length, Kept(r, t) = Piece(p, k - 1)
    PROVE  /\ k < Length => /\ Push(r, Encode(p)[k], t).buffer = Piece(p, k)
                            /\ Push(r, Encode(p)[k], t).last = t
                            /\ Push(r, Encode(p)[k], t).heard = NoPacket
           /\ k = Length => /\ Push(r, Encode(p)[k], t).buffer = <<>>
                            /\ Push(r, Encode(p)[k], t).last = 0
                            /\ p.node = NodeId => Push(r, Encode(p)[k], t).heard = p
<1> USE LengthIs
<1> DEFINE byte == Encode(p)[k]
           grown == Append(Kept(r, t), byte)
           used == Len(grown)
           lost == used = 2 /\ byte.value # "sync1"
           empty == used = Length \/ (used = 1 /\ byte.value # "sync0")
           buffer == IF lost THEN IF byte.value = "sync0" THEN <<byte>> ELSE <<>>
                     ELSE IF empty THEN <<>> ELSE grown
<1>1. /\ Push(r, byte, t).buffer = buffer
      /\ Push(r, byte, t).last = IF buffer = <<>> \/ lost THEN 0 ELSE t
      /\ Push(r, byte, t).heard = IF used = Length /\ Parses(grown) THEN grown[1].of ELSE NoPacket
  BY DEF Push
<1>2. grown = Piece(p, k) /\ used = k /\ grown[1] = Encode(p)[1] /\ grown \in Seq(Byte)
  <2>1. grown = Append(Piece(p, k - 1), Encode(p)[k])
    OBVIOUS
  <2>2. grown = Piece(p, k)
    BY <2>1, PieceGrows
  <2> HIDE DEF grown
  <2> QED
    BY <2>2, PieceGrows
<1>3. grown # <<>>
  BY <1>2
<1>4. (k = 1 => byte.value = "sync0") /\ (k = 2 => byte.value = "sync1")
  BY SyncBytes
<1> HIDE DEF byte, grown
<1>5. ~lost
  BY <1>2, <1>4
<1>6. empty <=> k = Length
  BY <1>2, <1>4
<1>7. grown[1].of = p
  BY <1>2, EncodeIsBytes
<1> HIDE DEF lost, empty, used
<1>8. CASE k < Length
  <2>1. buffer = grown
    BY <1>5, <1>6, <1>8
  <2> QED
    BY <1>1, <1>2, <1>3, <1>5, <1>8, <2>1 DEF byte
<1>9. CASE k = Length
  <2>1. buffer = <<>>
    BY <1>5, <1>6, <1>9
  <2>2. p.node = NodeId => Parses(grown)
    BY <1>2, <1>7, <1>9, PieceGrows, PacketIsSome DEF Parses
  <2> QED
    BY <1>1, <1>2, <1>7, <1>9, <2>1, <2>2 DEF byte
<1> QED
  BY <1>8, <1>9

LEMMA ReadFollows == ASSUME LatestInv, Read PROVE Follows' /\ HeardInTime'
<1> USE LengthIs
<1> DEFINE r == Push(reader, Head(rx), now)
           p == rx[1].of
           k == rx[1].at
<1>1. /\ rx # <<>> /\ reader' = [buffer |-> r.buffer, last |-> r.last]
      /\ rx' = Tail(rx) /\ UNCHANGED <<now, air, gone, clean, heardAt>>
  BY DEF Read, history, bus
<1>2. /\ Len(rx) \in Nat /\ Len(rx) >= 1 /\ Head(rx) = rx[1] /\ Head(rx) \in Byte
      /\ Len(rx') = Len(rx) - 1 /\ (rx' = <<>> <=> Len(rx) = 1)
      /\ \A i \in 1..Len(rx') : rx'[i] = rx[i + 1] /\ i + 1 \in 1..Len(rx)
  <2>1. rx \in Seq(Byte) /\ rx # <<>>
    BY <1>1 DEF LatestInv, FadeInv, SilenceInv, ReaderKnown
  <2>2. \A s \in Seq(Byte) : s # <<>> =>
           /\ Len(s) \in Nat /\ Len(s) >= 1 /\ Head(s) = s[1] /\ Head(s) \in Byte
           /\ Len(Tail(s)) = Len(s) - 1 /\ Tail(s) \in Seq(Byte)
           /\ \A i \in 1..Len(Tail(s)) : Tail(s)[i] = s[i + 1] /\ i + 1 \in 1..Len(s)
    OBVIOUS
  <2>3. \A s \in Seq(Byte) : Len(s) = 0 <=> s = <<>>
    OBVIOUS
  <2>4. /\ Len(rx) \in Nat /\ Len(rx) >= 1 /\ Head(rx) = rx[1] /\ Head(rx) \in Byte
        /\ Len(rx') = Len(rx) - 1 /\ rx' \in Seq(Byte)
        /\ \A i \in 1..Len(rx') : rx'[i] = rx[i + 1] /\ i + 1 \in 1..Len(rx)
    BY <1>1, <2>1, <2>2
  <2>5. rx' = <<>> <=> Len(rx) = 1
    BY <2>3, <2>4
  <2> QED
    BY <2>4, <2>5
<1>3. now \in Nat /\ heardAt = now /\ reader.buffer \in Seq(Byte) /\ reader.last \in 0..now
  BY <1>1 DEF LatestInv, FadeInv, SilenceInv, TimesKnown, ReaderKnown, HeardInTime
<1>4. r.last \in 0..now
  BY <1>2, <1>3, PushGives
<1>5. reader'.buffer = r.buffer /\ reader'.last = r.last
  BY <1>1
<1>6. HeardInTime'
  BY <1>1, <1>3, <1>4, <1>5 DEF HeardInTime
<1>7. ASSUME clean PROVE InOrder' /\ HeadFits' /\ EndFits'
  <2>1. InOrder /\ HeadFits /\ EndFits
    BY <1>7 DEF LatestInv, Follows
  <2>2. /\ p \in Packet /\ k \in 1..Length /\ Head(rx) = Encode(p)[k]
        /\ Kept(reader, now) = Piece(p, k - 1)
    <3>1. Genuine(rx[1])
      BY <1>2, <2>1 DEF InOrder
    <3> QED
      BY <1>1, <1>2, <2>1, <3>1 DEF Genuine, HeadFits
  <2>3. /\ k < Length => reader'.buffer = Piece(p, k) /\ reader'.last = now
        /\ k = Length => reader'.buffer = <<>>
    <3>1. r = Push(reader, Encode(p)[k], now)
      BY <2>2
    <3> HIDE DEF r, p, k
    <3> QED
      BY <1>5, <2>2, <3>1, PushFollows
  <2> HIDE DEF r
  <2>4. InOrder'
    <3>1. \A i \in 1..Len(rx') : Genuine(rx'[i])
      BY <1>2, <2>1 DEF InOrder
    <3>2. ASSUME NEW i \in 2..Len(rx') PROVE Continues(rx'[i - 1], rx'[i])
      <4>1. /\ i \in 1..Len(rx') /\ i - 1 \in 1..Len(rx') /\ (i + 1) - 1 = i /\ (i - 1) + 1 = i
            /\ i + 1 \in 2..Len(rx)
        BY <1>2, <3>2
      <4>2. rx'[i] = rx[i + 1] /\ rx'[i - 1] = rx[i]
        BY <1>2, <4>1
      <4>3. Continues(rx[(i + 1) - 1], rx[i + 1])
        BY <2>1, <4>1 DEF InOrder
      <4> QED
        BY <4>1, <4>2, <4>3
    <3> QED
      BY <3>1, <3>2 DEF InOrder, Genuine, Continues
  <2>5. HeadFits'
    <3> SUFFICES ASSUME rx' # <<>>
                 PROVE  Kept(reader', now') = Piece(rx'[1].of, rx'[1].at - 1)
      BY DEF HeadFits, Piece, Encode, Kept, ValueAt
    <3>1. 2 \in 2..Len(rx) /\ 2 - 1 = 1 /\ rx'[1] = rx[2]
      BY <1>2
    <3>2. Continues(rx[1], rx[2])
      BY <2>1, <3>1 DEF InOrder
    <3>3. CASE k = Length
      <4>1. rx[2].at = 1 /\ reader'.buffer = <<>>
        BY <2>3, <3>2, <3>3 DEF Continues
      <4>2. rx[2].of \in Packet
        BY <2>1, <3>1 DEF InOrder, Genuine
      <4>3. Piece(rx[2].of, 0) = <<>> /\ Kept(reader', now') = <<>>
        BY <4>1, <4>2, PieceGrows DEF Kept
      <4> QED
        BY <3>1, <4>1, <4>3
    <3>4. CASE k # Length
      <4>1. rx[2].of = p /\ rx[2].at = k + 1 /\ reader'.buffer = Piece(p, k) /\ reader'.last = now
        BY <2>2, <2>3, <3>2, <3>4 DEF Continues
      <4>2. Kept(reader', now') = Piece(p, k)
        BY <1>1, <1>3, <4>1, TimesAre DEF Kept
      <4>3. (k + 1) - 1 = k
        BY <2>2
      <4> QED
        BY <3>1, <4>1, <4>2, <4>3
    <3> QED
      BY <3>3, <3>4
  <2>6. EndFits'
    <3>1. CASE rx' # <<>>
      <4>1. Len(rx') \in 1..Len(rx') /\ Len(rx') + 1 = Len(rx)
        BY <1>2, <3>1
      <4>2. rx'[Len(rx')] = rx[Len(rx)]
        BY <1>2, <4>1
      <4> QED
        BY <1>1, <2>1, <3>1, <4>2 DEF EndFits
    <3>2. CASE rx' = <<>>
      <4>1. Len(rx) = 1
        BY <1>2, <3>2
      <4>2. IF gone = 0 THEN k = Length ELSE p = Head(air) /\ k = gone
        BY <1>1, <2>1, <4>1 DEF EndFits
      <4>3. gone \in 0..(Length - 1)
        BY DEF LatestInv, FadeInv, SilenceInv, BusKnown
      <4>4. gone # 0 => reader'.buffer = Piece(Head(air), gone) /\ reader'.last = heardAt
        BY <1>3, <2>3, <4>2, <4>3
      <4>5. gone = 0 => reader'.buffer = <<>>
        BY <2>3, <4>2
      <4> QED
        BY <1>1, <3>2, <4>4, <4>5 DEF EndFits, Piece, Encode, ValueAt
    <3> QED
      BY <3>1, <3>2
  <2> QED
    BY <2>4, <2>5, <2>6
<1> QED
  BY <1>1, <1>6, <1>7 DEF Follows

LEMMA ReadDue == ASSUME LatestInv, Read PROVE DueKnown'
<1> USE LengthIs
<1> DEFINE r == Push(reader, Head(rx), now)
           p == rx[1].of
           k == rx[1].at
<1>1. /\ rx # <<>> /\ rx' = Tail(rx) /\ UNCHANGED <<now, clean, due, whole>>
      /\ IF r.heard = NoPacket THEN UNCHANGED <<out, lastValid, safe>>
         ELSE /\ out' = SetTarget(out, r.heard.level, r.heard.fade, now)
              /\ lastValid' = now /\ safe' = FALSE
  BY DEF Read, history
<1>2. /\ Len(rx) \in Nat /\ Len(rx) >= 1 /\ Head(rx) = rx[1] /\ Head(rx) \in Byte
      /\ Len(rx') = Len(rx) - 1
      /\ \A i \in 1..Len(rx') : rx'[i] = rx[i + 1] /\ i + 1 \in 1..Len(rx)
  <2>1. rx \in Seq(Byte) /\ rx # <<>>
    BY <1>1 DEF LatestInv, FadeInv, SilenceInv, ReaderKnown
  <2>2. \A s \in Seq(Byte) : s # <<>> =>
           /\ Len(s) \in Nat /\ Len(s) >= 1 /\ Head(s) = s[1] /\ Head(s) \in Byte
           /\ Len(Tail(s)) = Len(s) - 1
           /\ \A i \in 1..Len(Tail(s)) : Tail(s)[i] = s[i + 1] /\ i + 1 \in 1..Len(s)
    OBVIOUS
  <2> QED
    BY <1>1, <2>1, <2>2
<1>3. now \in Nat /\ reader.buffer \in Seq(Byte) /\ reader.last \in 0..now
  BY DEF LatestInv, FadeInv, SilenceInv, TimesKnown, ReaderKnown
<1>4. r.heard # NoPacket => Ends(rx[1])
  BY <1>2, <1>3, PushGives
<1> SUFFICES ASSUME due # NoPacket
             PROVE  clean /\ due \in Packet /\ due.node = NodeId /\ (Coming' \/ Applied')
  BY <1>1 DEF DueKnown
<1>5. clean /\ due \in Packet /\ due.node = NodeId /\ (Coming \/ Applied)
  BY DEF LatestInv, DueKnown
<1>6. \A i \in Nat : NoneEnds(i + 1) => \A j \in i..Len(rx') : j >= 1 => ~Ends(rx'[j])
  BY <1>2 DEF NoneEnds
<1>7. CASE Applied
  <2>1. ~Ends(rx[1]) /\ \A j \in 1..Len(rx) : ~Ends(rx[j])
    BY <1>2, <1>7 DEF Applied, NoneEnds
  <2>2. UNCHANGED <<out, lastValid>>
    BY <1>1, <1>4, <2>1
  <2>3. \A j \in 1..Len(rx') : ~Ends(rx'[j])
    BY <1>2, <2>1
  <2> QED
    BY <1>1, <1>5, <1>7, <2>2, <2>3 DEF Applied, NoneEnds, Ends
<1>8. CASE Coming
  <2>1. PICK i \in 1..Len(rx) : Ends(rx[i]) /\ rx[i].of = due /\ NoneEnds(i + 1)
    BY <1>8 DEF Coming
  <2>2. CASE i # 1
    <3>1. i - 1 \in 1..Len(rx') /\ (i - 1) + 1 = i
      BY <1>2, <2>1, <2>2
    <3>2. rx'[i - 1] = rx[i]
      BY <1>2, <3>1
    <3>3. \A j \in i..Len(rx') : ~Ends(rx'[j])
      BY <1>2, <1>6, <2>1
    <3>4. \E h \in 1..Len(rx') : /\ Ends(rx'[h]) /\ rx'[h].of = due
                                 /\ \A j \in (h + 1)..Len(rx') : ~Ends(rx'[j])
      BY <2>1, <3>1, <3>2, <3>3
    <3> QED
      BY <1>1, <1>5, <3>4 DEF Coming, NoneEnds, Ends
  <2>3. CASE i = 1
    <3>1. InOrder /\ HeadFits
      BY <1>5 DEF LatestInv, Follows
    <3>2. Genuine(rx[1]) /\ Kept(reader, now) = Piece(p, k - 1)
      BY <1>1, <1>2, <3>1 DEF InOrder, HeadFits
    <3>3. k = Length /\ p = due /\ Head(rx) = Encode(due)[Length]
      BY <1>2, <2>1, <2>3, <3>2 DEF Ends, Genuine
    <3>4. r = Push(reader, Encode(due)[Length], now) /\ Kept(reader, now) = Piece(due, Length - 1)
      BY <3>2, <3>3
    <3>5. Length \in 1..Length
      OBVIOUS
    <3> HIDE DEF r, p, k
    <3>6. r.heard = due
      BY <1>5, <3>4, <3>5, PushFollows
    <3>7. lastValid' = now /\ out'.target = due.level
      BY <1>1, <3>6 DEF SetTarget
    <3>8. whole = now
      BY <1>2, <2>1, <2>3 DEF LatestInv, FadeInv, SilenceInv, EndsNow
    <3>9. \A j \in 1..Len(rx') : ~Ends(rx'[j])
      BY <1>2, <1>6, <2>1, <2>3
    <3> QED
      BY <1>1, <1>5, <3>7, <3>8, <3>9 DEF Applied, NoneEnds, Ends
  <2> QED
    BY <2>2, <2>3
<1> QED
  BY <1>5, <1>7, <1>8

(* What a step of the bus does to the bytes that wait, when it can be      *)
(* followed.                                                               *)
LEMMA ArriveFollows ==
    ASSUME LatestInv, Arrive
    PROVE  Follows' /\ HeardInTime'
<1> USE LengthIs
<1> DEFINE p == Head(air)
           pause == now - heardAt > ByteTimeout
           follows == IF gone = 0 THEN clean \/ pause ELSE clean /\ ~pause
<1>1. PICK n \in 1..Rest : Leaves(n) /\ rx' = rx \o Bytes(n) /\ clean' = follows
  BY DEF Arrive
<1>2. air # <<>> /\ heardAt' = now /\ UNCHANGED <<now, reader>>
  BY DEF Arrive, nodeVars
<1>3. /\ now \in Nat /\ heardAt \in 0..now /\ reader.last \in 0..now /\ reader.last <= heardAt
      /\ reader.buffer \in Seq(Byte) /\ rx \in Seq(Byte) /\ (rx # <<>> => heardAt = now)
  BY DEF LatestInv, FadeInv, SilenceInv, TimesKnown, ReaderKnown, HeardInTime
<1>4. gone \in 0..(Length - 1) /\ Rest \in Nat /\ n \in 0..Rest /\ p \in Packet /\ gone + n <= Length
  <2>1. BusKnown
    BY DEF LatestInv, FadeInv, SilenceInv
  <2>2. gone \in 0..(Length - 1) /\ air \in Seq(Packet)
    BY <2>1 DEF BusKnown
  <2>3. p \in Packet
    BY <1>2, <2>2
  <2> QED
    BY <2>2, <2>3 DEF Rest
<1>5. HeardInTime'
  BY <1>2, <1>3 DEF HeardInTime
<1> SUFFICES ASSUME follows PROVE InOrder' /\ HeadFits' /\ EndFits'
  BY <1>1, <1>5 DEF Follows
<1>6. /\ Bytes(n) \in Seq(Byte) /\ Len(Bytes(n)) = n
      /\ \A j \in 1..n : /\ Bytes(n)[j] = Encode(p)[gone + j]
                         /\ Bytes(n)[j].of = p /\ Bytes(n)[j].at = gone + j
  <2>1. BusKnown
    BY DEF LatestInv, FadeInv, SilenceInv
  <2> QED
    BY <1>2, <1>4, <2>1, BytesOnTheBus
<1>7. /\ Len(rx') = Len(rx) + n /\ Len(rx) \in Nat /\ rx' \in Seq(Byte)
      /\ \A i \in 1..Len(rx) : rx'[i] = rx[i]
      /\ \A j \in 1..n : rx'[Len(rx) + j] = Bytes(n)[j]
  <2>1. PICK b \in Seq(Byte) : b = Bytes(n) /\ Len(b) = n /\ rx' = rx \o b
    BY <1>1, <1>6
  <2>2. PICK q \in Seq(Byte) :
           /\ q = rx \o b /\ Len(q) = Len(rx) + Len(b) /\ Len(rx) \in Nat
           /\ \A i \in 1..Len(rx) : q[i] = rx[i]
           /\ \A i \in 1..Len(b) : q[Len(rx) + i] = b[i]
    BY <1>3, Behind
  <2>3. rx' = q
    BY <2>1, <2>2
  <2> QED
    BY <2>1, <2>2, <2>3
<1>8. rx # <<>> => clean /\ InOrder /\ HeadFits /\ EndFits
  <2> SUFFICES ASSUME rx # <<>> PROVE clean
    BY DEF LatestInv, Follows
  <2>1. ~pause
    BY <1>3, TimesAre
  <2> QED
    BY <2>1
<1>9. rx = <<>> => Kept(reader, now) = Piece(p, gone)
  <2> SUFFICES ASSUME rx = <<>> PROVE Kept(reader, now) = Piece(p, gone)
    OBVIOUS
  <2>1. clean => EndFits
    BY DEF LatestInv, Follows
  <2>2. Piece(p, 0) = <<>>
    BY <1>4, PieceGrows
  <2>3. CASE pause
    <3>1. gone = 0
      BY <2>3
    <3>2. now - reader.last > ByteTimeout
      BY <1>3, <2>3, TimesAre
    <3> QED
      BY <2>2, <3>1, <3>2 DEF Kept
  <2>4. CASE ~pause
    <3>1. clean
      BY <2>4
    <3>2. CASE gone = 0
      BY <2>1, <2>2, <3>1, <3>2 DEF Kept, EndFits
    <3>3. CASE gone # 0
      <4>1. reader.buffer = Piece(p, gone) /\ reader.last = heardAt
        BY <2>1, <3>1, <3>3 DEF EndFits
      <4>2. ~(now - reader.last > ByteTimeout)
        BY <2>4, <4>1
      <4> QED
        BY <4>1, <4>2 DEF Kept
    <3> QED
      BY <3>2, <3>3
  <2> QED
    BY <2>3, <2>4
<1>10. \A j \in 1..n : Genuine(Bytes(n)[j])
  BY <1>4, <1>6 DEF Genuine
<1>11. ASSUME rx # <<>> PROVE Len(rx) \in 1..Len(rx) /\ rx[Len(rx)].at \in 1..Length
  <2>1. Len(rx) \in 1..Len(rx)
    BY <1>3, <1>11
  <2> QED
    BY <1>8, <1>11, <2>1 DEF InOrder, Genuine
<1> HIDE DEF follows, pause, p
<1>12. InOrder'
  <2>1. ASSUME NEW i \in 1..Len(rx') PROVE Genuine(rx'[i])
    <3>1. CASE i \in 1..Len(rx)
      <4>1. rx # <<>>
        BY <3>1
      <4> QED
        BY <1>7, <1>8, <3>1, <4>1 DEF InOrder
    <3>2. CASE i \notin 1..Len(rx)
      <4>1. i - Len(rx) \in 1..n /\ Len(rx) + (i - Len(rx)) = i
        BY <1>4, <1>7, <3>2
      <4> QED
        BY <1>7, <1>10, <4>1
    <3> QED
      BY <3>1, <3>2
  <2>2. ASSUME NEW i \in 2..Len(rx') PROVE Continues(rx'[i - 1], rx'[i])
    <3>1. CASE i <= Len(rx)
      <4>1. i \in 2..Len(rx) /\ i \in 1..Len(rx) /\ i - 1 \in 1..Len(rx) /\ rx # <<>>
        BY <1>3, <1>7, <3>1
      <4> QED
        BY <1>7, <1>8, <4>1 DEF InOrder
    <3>2. CASE i = Len(rx) + 1
      <4>1. Len(rx) \in 1..Len(rx) /\ i - 1 = Len(rx) /\ rx # <<>> /\ 1 \in 1..n
        BY <1>3, <1>4, <1>7, <3>2
      <4>2. rx'[i - 1] = rx[Len(rx)] /\ rx'[i] = Bytes(n)[1]
        BY <1>7, <3>2, <4>1
      <4>3. Bytes(n)[1].of = p /\ Bytes(n)[1].at = gone + 1
        BY <1>6, <4>1
      <4>4. IF gone = 0 THEN rx[Len(rx)].at = Length
            ELSE rx[Len(rx)].of = p /\ rx[Len(rx)].at = gone
        BY <1>8, <4>1 DEF EndFits, p
      <4>5. gone # Length
        BY <1>4
      <4> QED
        BY <4>2, <4>3, <4>4, <4>5 DEF Continues
    <3>3. CASE i > Len(rx) + 1
      <4>1. PICK j \in 2..n : i = Len(rx) + j
        <5>1. i - Len(rx) \in 2..n /\ i = Len(rx) + (i - Len(rx))
          BY <1>4, <1>7, <3>3
        <5> QED
          BY <5>1
      <4>2. j \in 1..n /\ j - 1 \in 1..n /\ i - 1 = Len(rx) + (j - 1)
        BY <1>7, <4>1
      <4>3. rx'[i] = Bytes(n)[j] /\ rx'[i - 1] = Bytes(n)[j - 1]
        BY <1>7, <4>1, <4>2
      <4>4. /\ Bytes(n)[j].of = p /\ Bytes(n)[j].at = gone + j
            /\ Bytes(n)[j - 1].of = p /\ Bytes(n)[j - 1].at = gone + (j - 1)
        BY <1>6, <4>2
      <4>5. gone + (j - 1) # Length /\ gone + j = (gone + (j - 1)) + 1
        BY <1>4, <4>1
      <4> QED
        BY <4>3, <4>4, <4>5 DEF Continues
    <3> QED
      BY <1>7, <3>1, <3>2, <3>3
  <2> QED
    BY <2>1, <2>2 DEF InOrder, Genuine, Continues
<1>13. HeadFits'
  <2> SUFFICES Kept(reader, now) = Piece(rx'[1].of, rx'[1].at - 1)
    BY <1>2 DEF HeadFits, Piece, Encode, Kept, ValueAt
  <2>1. CASE rx # <<>>
    <3>1. 1 \in 1..Len(rx)
      BY <1>3, <2>1
    <3> QED
      BY <1>7, <1>8, <2>1, <3>1 DEF HeadFits
  <2>2. CASE rx = <<>>
    <3>1. Len(rx) = 0 /\ 1 \in 1..n
      BY <1>4, <2>2
    <3>2. rx'[1] = Bytes(n)[1]
      <4>1. rx'[0 + 1] = Bytes(n)[1]
        BY <1>7, <3>1
      <4> QED
        BY <4>1
    <3>3. rx'[1].of = p /\ rx'[1].at = gone + 1 /\ (gone + 1) - 1 = gone
      BY <1>4, <1>6, <3>1, <3>2
    <3> QED
      BY <1>9, <2>2, <3>3
  <2> QED
    BY <2>1, <2>2
<1>14. EndFits'
  <2>1. n \in 1..n /\ Len(rx') = Len(rx) + n
    BY <1>4, <1>7
  <2>2. rx'[Len(rx')].of = p /\ rx'[Len(rx')].at = gone + n
    BY <1>6, <1>7, <2>1
  <2>3. rx' # <<>>
    <3>1. Len(rx') # 0
      BY <1>7, <2>1
    <3> QED
      BY <3>1
  <2>4. CASE n = Rest
    <3>1. gone' = 0 /\ gone + n = Length
      BY <1>1, <1>4, <2>4 DEF Leaves, Rest
    <3> QED
      BY <2>2, <2>3, <3>1 DEF EndFits
  <2>5. CASE n # Rest
    <3>1. air' = air /\ gone' = gone + n /\ gone' # 0
      BY <1>1, <1>4, <2>5 DEF Leaves
    <3> QED
      BY <2>2, <2>3, <3>1 DEF EndFits, p
  <2> QED
    BY <2>4, <2>5
<1> QED
  BY <1>12, <1>13, <1>14

LEMMA ArriveDue == ASSUME LatestInv, Arrive PROVE DueKnown'
<1> USE LengthIs
<1> DEFINE pause == now - heardAt > ByteTimeout
           follows == IF gone = 0 THEN clean \/ pause ELSE clean /\ ~pause
<1>1. PICK n \in 1..Rest :
        LET last == n = Rest /\ Head(air).node = NodeId
        IN /\ rx' = rx \o Bytes(n) /\ clean' = follows
           /\ due' = IF ~follows THEN NoPacket ELSE IF last THEN Head(air) ELSE due
           /\ whole' = IF last THEN now ELSE whole
  BY DEF Arrive
<1>2. air # <<>> /\ UNCHANGED <<now, out, lastValid>>
  BY DEF Arrive, nodeVars
<1>3. BusKnown /\ rx \in Seq(Byte)
  BY DEF LatestInv, FadeInv, SilenceInv, ReaderKnown
<1>4. Rest \in Nat /\ n \in 0..Rest /\ Head(air) \in Packet /\ gone \in Nat
  <2>1. gone \in 0..(Length - 1) /\ air \in Seq(Packet)
    BY <1>3 DEF BusKnown
  <2>2. Head(air) \in Packet
    BY <1>2, <2>1
  <2> QED
    BY <2>1, <2>2 DEF Rest
<1>5. /\ Bytes(n) \in Seq(Byte) /\ Len(Bytes(n)) = n
      /\ \A j \in 1..n : Bytes(n)[j].of = Head(air) /\ Bytes(n)[j].at = gone + j
  BY <1>2, <1>3, <1>4, BytesOnTheBus
<1>6. /\ Len(rx') = Len(rx) + n /\ Len(rx) \in Nat
      /\ \A i \in 1..Len(rx) : rx'[i] = rx[i]
      /\ \A j \in 1..n : rx'[Len(rx) + j] = Bytes(n)[j]
      /\ \A i \in 1..Len(rx') : \/ i \in 1..Len(rx) /\ rx'[i] = rx[i]
                                \/ \E j \in 1..n : i = Len(rx) + j /\ rx'[i] = Bytes(n)[j]
  BY <1>1, <1>3, <1>5, Behind
<1> SUFFICES ASSUME due' # NoPacket
             PROVE  clean' /\ due' \in Packet /\ due'.node = NodeId /\ (Coming' \/ Applied')
  BY DEF DueKnown, NoPacket
<1>7. follows
  BY <1>1
<1> HIDE DEF follows
<1>8. CASE n = Rest /\ Head(air).node = NodeId
  <2>1. due' = Head(air)
    BY <1>1, <1>7, <1>8
  <2>2. n \in 1..n /\ Len(rx') \in 1..Len(rx') /\ rx'[Len(rx')] = Bytes(n)[n]
    BY <1>4, <1>6
  <2>3. gone + n = Length
    BY <1>4, <1>8 DEF Rest
  <2>4. Ends(rx'[Len(rx')]) /\ rx'[Len(rx')].of = due'
    BY <1>4, <1>5, <1>8, <2>1, <2>2, <2>3, PacketIsSome DEF Ends
  <2>5. \A j \in (Len(rx') + 1)..Len(rx') : ~Ends(rx'[j])
    BY <1>6
  <2>6. Coming'
    BY <2>2, <2>4, <2>5 DEF Coming, NoneEnds, Ends
  <2> QED
    BY <1>1, <1>4, <1>7, <1>8, <2>1, <2>6
<1>9. CASE ~(n = Rest /\ Head(air).node = NodeId)
  <2>1. due' = due /\ whole' = whole /\ clean'
    BY <1>1, <1>7, <1>9
  <2>2. due # NoPacket
    BY <2>1 DEF NoPacket
  <2>3. due \in Packet /\ due.node = NodeId /\ (Coming \/ Applied)
    BY <2>2 DEF LatestInv, DueKnown
  <2>4. \A j \in 1..n : ~Ends(Bytes(n)[j])
    BY <1>2, <1>3, <1>4, <1>9, EndsAtTheEnd
  <2>5. ASSUME NEW i \in 1..Len(rx'), Ends(rx'[i]) PROVE i \in 1..Len(rx) /\ Ends(rx[i])
    BY <1>6, <2>4, <2>5
  <2>6. CASE Applied
    <3>1. \A j \in 1..Len(rx') : ~Ends(rx'[j])
      BY <2>5, <2>6 DEF Applied, NoneEnds
    <3> QED
      BY <1>2, <2>1, <2>3, <2>6, <3>1 DEF Applied, NoneEnds, Ends
  <2>7. CASE Coming
    <3>1. PICK i \in 1..Len(rx) : Ends(rx[i]) /\ rx[i].of = due /\ NoneEnds(i + 1)
      BY <2>7 DEF Coming
    <3>2. i \in 1..Len(rx') /\ rx'[i] = rx[i]
      BY <1>4, <1>6
    <3>3. ASSUME NEW j \in (i + 1)..Len(rx') PROVE ~Ends(rx'[j])
      <4> SUFFICES ASSUME Ends(rx'[j]) PROVE FALSE
        OBVIOUS
      <4>1. j \in 1..Len(rx')
        BY <1>6
      <4>2. j \in 1..Len(rx) /\ Ends(rx[j])
        BY <2>5, <4>1
      <4>3. j \in (i + 1)..Len(rx)
        BY <4>2
      <4> QED
        BY <3>1, <4>2, <4>3 DEF NoneEnds
    <3>4. Coming'
      BY <2>1, <3>1, <3>2, <3>3 DEF Coming, NoneEnds, Ends
    <3> QED
      BY <2>1, <2>3, <3>4
  <2> QED
    BY <2>3, <2>6, <2>7
<1> QED
  BY <1>8, <1>9

LEMMA DisturbLatest == ASSUME LatestInv, Disturb PROVE Follows' /\ HeardInTime' /\ DueKnown'
<1>1. PICK k \in 0..(Rest - 1),
           instead \in {<<>>} \cup {<<[value |-> v, of |-> NoPacket, at |-> 0]>> : v \in Values} :
        /\ rx' = rx \o Bytes(k) \o instead
        /\ heardAt' = IF k = 0 /\ instead = <<>> THEN heardAt ELSE now
  BY DEF Disturb
<1>2. ~clean' /\ due' = NoPacket /\ air # <<>> /\ UNCHANGED <<now, reader>>
  BY DEF Disturb, nodeVars
<1>3. Follows' /\ DueKnown'
  BY <1>2 DEF Follows, DueKnown, NoPacket
<1>4. /\ now \in Nat /\ heardAt \in 0..now /\ reader.last <= heardAt /\ reader.last \in 0..now
      /\ rx \in Seq(Byte) /\ (rx # <<>> => heardAt = now)
  BY DEF LatestInv, FadeInv, SilenceInv, TimesKnown, ReaderKnown, HeardInTime
<1>5. reader'.last <= heardAt'
  BY <1>1, <1>2, <1>4
<1>6. CASE k = 0 /\ instead = <<>>
  <2>1. BusKnown /\ 0 \in 0..Rest
    BY <1>1, LengthIs DEF LatestInv, FadeInv, SilenceInv, BusKnown, Rest
  <2>2. Bytes(0) \in Seq(Byte) /\ Len(Bytes(0)) = 0
    BY <1>2, <2>1, BytesOnTheBus
  <2>3. Bytes(0) = <<>>
    BY <2>2
  <2>4. \A s \in Seq(Byte) : s \o <<>> = s
    OBVIOUS
  <2>5. rx' = rx
    BY <1>1, <1>4, <1>6, <2>3, <2>4
  <2> QED
    BY <1>1, <1>2, <1>3, <1>4, <1>5, <1>6, <2>5 DEF HeardInTime
<1>7. CASE ~(k = 0 /\ instead = <<>>)
  BY <1>1, <1>2, <1>3, <1>5, <1>7 DEF HeardInTime
<1> QED
  BY <1>6, <1>7

LEMMA LoopLatest == ASSUME LatestInv, Loop PROVE Follows' /\ HeardInTime' /\ DueKnown'
<1>1. /\ rx = <<>> /\ out' = Update(IF Silent THEN SetBlack(out, now) ELSE out, now)
      /\ UNCHANGED <<now, air, gone, rx, reader, lastValid, heardAt, clean, due, whole>>
  BY DEF Loop, bus, history
<1>2. Follows' /\ HeardInTime'
  BY <1>1 DEF LatestInv, Follows, HeardInTime, InOrder, HeadFits, EndFits
<1>3. DueKnown'
  <2> SUFFICES ASSUME due # NoPacket
               PROVE  clean /\ due \in Packet /\ due.node = NodeId /\ Applied'
    BY <1>1 DEF DueKnown
  <2>1. clean /\ due \in Packet /\ due.node = NodeId /\ (Coming \/ Applied)
    BY DEF LatestInv, DueKnown
  <2>2. ~Coming
    BY <1>1 DEF Coming
  <2>3. Applied
    BY <2>1, <2>2
  <2>4. ASSUME now - whole <= SafeTimeout PROVE out'.target = due.level
    <3>1. out.target = due.level /\ lastValid = whole
      BY <2>3, <2>4 DEF Applied
    <3>2. now \in Int /\ whole \in Int
      BY DEF LatestInv, FadeInv, SilenceInv, TimesKnown
    <3>3. ~Silent
      BY <2>4, <3>1, <3>2, TimesAre DEF Silent
    <3>4. out' = Update(out, now)
      BY <1>1, <3>3
    <3>5. out'.target = out.target
      BY <3>4 DEF Update, LatestInv, FadeInv, OutKnown
    <3> QED
      BY <3>1, <3>5
  <2> QED
    BY <1>1, <2>1, <2>3, <2>4 DEF Applied, NoneEnds
<1> QED
  BY <1>2, <1>3

LEMMA RestLatest ==
    ASSUME LatestInv, SendFrame \/ Restart \/ Tick \/ UNCHANGED vars
    PROVE  Follows' /\ HeardInTime' /\ DueKnown'
<1>1. CASE SendFrame
  <2>1. air = <<>> /\ gone = 0
    BY <1>1 DEF SendFrame, LatestInv, FadeInv, SilenceInv, BusKnown
  <2>2. UNCHANGED <<now, gone, rx, reader, out, lastValid, heardAt, clean, due, whole>>
    BY <1>1 DEF SendFrame, nodeVars, history
  <2>3. Follows'
    BY <2>1, <2>2 DEF LatestInv, Follows, InOrder, HeadFits, EndFits
  <2>4. HeardInTime' /\ DueKnown'
    BY <2>2 DEF LatestInv, HeardInTime, DueKnown, Coming, Applied, NoneEnds
  <2> QED
    BY <2>3, <2>4
<1>2. CASE Restart
  <2>1. /\ reader' = NewReader /\ rx' = <<>> /\ ~clean' /\ due' = NoPacket
        /\ UNCHANGED <<now, heardAt>>
    BY <1>2 DEF Restart
  <2>2. reader'.last = 0
    BY <2>1 DEF NewReader
  <2>3. heardAt \in 0..now
    BY DEF LatestInv, FadeInv, SilenceInv, TimesKnown
  <2>4. HeardInTime'
    BY <2>1, <2>2, <2>3 DEF HeardInTime
  <2> QED
    BY <2>1, <2>4 DEF Follows, DueKnown, NoPacket
<1>3. CASE Tick
  <2>1. /\ ran /\ now' = now + 1
        /\ UNCHANGED <<air, gone, rx, reader, out, lastValid, heardAt, clean, due, whole>>
    BY <1>3 DEF Tick, bus, nodeVars, history
  <2>2. rx = <<>> /\ now \in Int /\ whole \in Int
    BY <2>1 DEF LatestInv, FadeInv, SilenceInv, ReaderKnown, TimesKnown
  <2>3. Follows' /\ HeardInTime'
    BY <2>1, <2>2 DEF LatestInv, Follows, HeardInTime, InOrder, HeadFits, EndFits
  <2>4. (now' - whole <= SafeTimeout) => (now - whole <= SafeTimeout)
    BY <2>1, <2>2, TimesAre
  <2>5. DueKnown'
    BY <2>1, <2>4 DEF LatestInv, DueKnown, Coming, Applied, NoneEnds
  <2> QED
    BY <2>3, <2>5
<1>4. CASE UNCHANGED vars
  <2>1. UNCHANGED <<now, air, gone, rx, reader, out, lastValid, heardAt, clean, due, whole>>
    BY <1>4 DEF vars, bus, nodeVars, history
  <2>2. Follows' /\ HeardInTime'
    BY <2>1 DEF LatestInv, Follows, HeardInTime, InOrder, HeadFits, EndFits
  <2>3. DueKnown'
    BY <2>1 DEF LatestInv, DueKnown, Coming, Applied, NoneEnds
  <2> QED
    BY <2>2, <2>3
<1> QED
  BY <1>1, <1>2, <1>3, <1>4

LEMMA NextKeepsLatest == LatestInv /\ [Next]_vars => LatestInv'
<1> SUFFICES ASSUME LatestInv, [Next]_vars PROVE LatestInv'
  OBVIOUS
<1>1. FadeInv'
  BY NextKeepsFade DEF LatestInv
<1>2. Follows' /\ HeardInTime' /\ DueKnown'
  BY ReadFollows, ReadDue, ArriveFollows, ArriveDue, DisturbLatest, LoopLatest, RestLatest
     DEF Next
<1> QED
  BY <1>1, <1>2 DEF LatestInv

LEMMA InitLatest == Init => LatestInv
<1> SUFFICES ASSUME Init PROVE Follows /\ HeardInTime /\ DueKnown
  BY InitFade DEF LatestInv
<1>1. reader.last = 0 /\ heardAt = 0 /\ rx = <<>> /\ ~clean /\ due = NoPacket
  BY DEF Init, NewReader
<1> QED
  BY <1>1 DEF Follows, HeardInTime, DueKnown

(* Once a packet begins after a pause, every packet for this node is       *)
(* applied until bytes are lost or late, whatever its payload looks like   *)
(* and whatever was damaged before.                                        *)
THEOREM LampShowsLatest == Spec => []ShowsLatest
<1>1. LatestInv => ShowsLatest
  <2> SUFFICES ASSUME LatestInv, ran, due # NoPacket, now - whole <= SafeTimeout
               PROVE  out.target = due.level
    BY DEF ShowsLatest
  <2>1. rx = <<>>
    BY DEF LatestInv, FadeInv, SilenceInv, ReaderKnown
  <2>2. ~Coming
    BY <2>1 DEF Coming
  <2>3. Applied
    BY <2>2 DEF LatestInv, DueKnown
  <2> QED
    BY <2>3 DEF Applied
<1> QED
  BY <1>1, InitLatest, NextKeepsLatest, PTL DEF Spec
=============================================================================
