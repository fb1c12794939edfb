----------------------------- MODULE AnalogNode -----------------------------
(* The STM32 node of the analog lamps and the RS-485 bus that feeds it:    *)
(* outputs/serial_output.py and rs485_v2.py write one fixed-length packet  *)
(* per node and frame; protocol.cpp finds the packets in the bytes,        *)
(* main.cpp's loop() applies those of its own node and darkens the lamp    *)
(* when none has come for a while, and pwm_output.cpp fades.               *)
(*                                                                         *)
(* A byte is what the reader makes of it: one of the two sync values or    *)
(* another, and the packet and place it comes from, which stands for the   *)
(* CRC: bytes pass it when they are all the bytes of one packet.  The five *)
(* channels behave alike and are one level.                                *)
EXTENDS Integers, Sequences, FiniteSets

CONSTANTS
    NodeId,        \* NODE_ID of the node
    Others,        \* the other analog nodes on the bus
    Length,        \* RS485_V2_FRAME_LEN
    ByteTimeout,   \* BYTE_TIMEOUT_MS
    SafeTimeout,   \* SAFE_STATE_TIMEOUT_MS
    Levels,        \* levels the host asks for
    FadeTimes,     \* values of the node's fade_ms in the configuration
    Disguises,     \* places where a payload looks like the sync bytes; 0: nowhere
    MaxTime,       \* bound: time units
    MaxFrames,     \* bound: frames of the host
    MaxFaults      \* bound: bytes lost or damaged, and restarts

ASSUME AnalogAssumption ==
    /\ NodeId \in Nat /\ Others \subseteq Nat \ {NodeId} /\ IsFiniteSet(Others)
    /\ Length \in Nat /\ Length > 2 /\ Disguises \subseteq {0} \cup 3..(Length - 1)
    /\ ByteTimeout \in Nat /\ SafeTimeout \in Nat
    /\ Levels \subseteq 0..255 /\ FadeTimes \subseteq {fade \in Nat : fade < 65536}
    /\ MaxTime \in Nat /\ MaxFrames \in Nat /\ MaxFaults \in Nat

Nodes == {NodeId} \cup Others

NoPacket == [frame |-> 0]

Values == {"sync0", "sync1", "other"}

VARIABLES
    now,
    fadeMs,      \* fade_ms of this node in the configuration
    sent,        \* frames the host has sent
    air, gone,   \* packets on the bus, and bytes of the first that have left it
    rx,          \* bytes in the UART's buffer
    reader,      \* Rs485FrameReader
    out,         \* PwmOutput
    lastValid,   \* last_valid_frame_ms
    safe,        \* safe_state_applied
    ran,         \* loop() has run since the last byte or tick
    faults,
    heardAt,     \* history: when the last byte was received
    clean,       \* history: the reader has all it needs to follow the bytes
    due,         \* history: the last packet for this node that came cleanly
    whole        \* history: when the last byte of such a packet came, cleanly or not

hostVars == <<fadeMs, sent>>
nodeVars == <<reader, out, lastValid, safe>>
history == <<heardAt, clean, due, whole>>
bus == <<air, gone>>
vars == <<now, hostVars, bus, rx, nodeVars, ran, faults, history>>

----------------------------------------------------------------------------
(* The host                                                                *)

ValueAt(p, i) ==
    IF i \in {1, p.disguise} THEN "sync0"
    ELSE IF i = 2 \/ (i = p.disguise + 1 /\ p.disguise # 0) THEN "sync1"
    ELSE "other"

Encode(p) == [i \in 1..Length |-> [value |-> ValueAt(p, i), of |-> p, at |-> i]]

(* The packets of a frame, by node_id; a write that fails ends the frame.  *)
(* Bytes keep their order and each may be late, so nothing is lost by      *)
(* putting a frame on the bus when the last one has left it.               *)
ById == {ids \in [1..Cardinality(Nodes) -> Nodes] :
            \A j, k \in DOMAIN ids : j < k => ids[j] < ids[k]}

SendFrame ==
    /\ sent < MaxFrames /\ air = <<>>
    /\ sent' = sent + 1
    /\ \E level \in Levels, disguise \in Disguises, ids \in ById,
          written \in 1..Cardinality(Nodes) :
          air' = [k \in 1..written |->
                     [frame |-> sent + 1, node |-> ids[k], level |-> level,
                      fade |-> fadeMs, disguise |-> disguise]]
    /\ UNCHANGED <<now, fadeMs, gone, rx, nodeVars, ran, faults, history>>

----------------------------------------------------------------------------
(* The reader                                                              *)

NewReader == [buffer |-> <<>>, last |-> 0]

(* Bytes of other nodes, and bytes that are not all of one packet.         *)
(* Mutant: every node's packet is taken.                                   *)
ParsesForAnyNode(bytes) ==
    LET p == bytes[1].of IN p # NoPacket /\ bytes = Encode(p)
Parses(bytes) ==
    LET p == bytes[1].of IN p # NoPacket /\ p.node = NodeId /\ bytes = Encode(p)

(* Mutant: a pause does not end an unfinished packet.                      *)
KeptForEver(r, t) == r.buffer
Kept(r, t) == IF r.buffer # <<>> /\ t - r.last > ByteTimeout THEN <<>> ELSE r.buffer

(* A second byte that is not sync1 resets the reader; reset() also forgets *)
(* when the byte came which it then keeps.                                 *)
Push(r, byte, t) ==
    LET grown == Append(Kept(r, t), byte)
        used == Len(grown)
        lost == used = 2 /\ byte.value # "sync1"
        empty == used = Length \/ (used = 1 /\ byte.value # "sync0")
        buffer == IF lost THEN IF byte.value = "sync0" THEN <<byte>> ELSE <<>>
                  ELSE IF empty THEN <<>> ELSE grown
    IN [buffer |-> buffer,
        last |-> IF buffer = <<>> \/ lost THEN 0 ELSE t,
        heard |-> IF used = Length /\ Parses(grown) THEN grown[1].of ELSE NoPacket]

----------------------------------------------------------------------------
(* The output                                                              *)

(* Integer division that truncates, as the compiler's does.                *)
Lerp(from, to, elapsed, total) ==
    IF elapsed >= total THEN to
    ELSE IF to >= from THEN from + ((to - from) * elapsed) \div total
    ELSE from - ((from - to) * elapsed) \div total

(* Mutant: a fade starts where the last one was going.                     *)
SetTargetFromTarget(o, level, fade, t) ==
    [start |-> o.target, target |-> level, since |-> t, fade |-> fade,
     current |-> IF fade = 0 THEN level ELSE o.current]
SetTarget(o, level, fade, t) ==
    [start |-> o.current, target |-> level, since |-> t, fade |-> fade,
     current |-> IF fade = 0 THEN level ELSE o.current]

SetBlack(o, t) == SetTarget(o, 0, 0, t)

Update(o, t) ==
    IF o.fade = 0 THEN o
    ELSE LET elapsed == t - o.since
         IN [o EXCEPT !.current = Lerp(o.start, o.target, elapsed, o.fade),
                      !.fade = IF elapsed >= o.fade THEN 0 ELSE @]

NewOutput == [start |-> 0, target |-> 0, current |-> 0, since |-> 0, fade |-> 0]

----------------------------------------------------------------------------
(* loop()                                                                  *)

(* One round of its while: a byte is read.                                 *)
Read ==
    /\ rx # <<>>
    /\ LET r == Push(reader, Head(rx), now)
       IN /\ reader' = [buffer |-> r.buffer, last |-> r.last]
          /\ IF r.heard = NoPacket THEN UNCHANGED <<out, lastValid, safe>>
             ELSE /\ out' = SetTarget(out, r.heard.level, r.heard.fade, now)
                  /\ lastValid' = now /\ safe' = FALSE
    /\ rx' = Tail(rx)
    /\ UNCHANGED <<now, hostVars, bus, ran, faults, history>>

(* The rest of an iteration.                                               *)
Silent == ~safe /\ now - lastValid > SafeTimeout

Loop ==
    /\ ~ran /\ rx = <<>>
    /\ safe' = (safe \/ Silent)
    /\ out' = Update(IF Silent THEN SetBlack(out, now) ELSE out, now)
    /\ ran' = TRUE
    /\ UNCHANGED <<now, hostVars, bus, rx, reader, lastValid, faults, history>>

(* Power comes back: setup().                                              *)
Restart ==
    /\ faults < MaxFaults /\ faults' = faults + 1
    /\ reader' = NewReader
    /\ out' = SetBlack(NewOutput, now)
    /\ lastValid' = now /\ safe' = FALSE
    /\ rx' = <<>>
    /\ clean' = FALSE /\ due' = NoPacket /\ whole' = now
    /\ ran' = FALSE
    /\ UNCHANGED <<now, hostVars, bus, heardAt>>

----------------------------------------------------------------------------
(* The bus                                                                 *)

(* What is left of the packet on the bus, and its next n bytes.            *)
Rest == Length - gone
Bytes(n) == SubSeq(Encode(Head(air)), gone + 1, gone + n)

Leaves(n) ==
    IF n = Rest THEN air' = Tail(air) /\ gone' = 0
    ELSE UNCHANGED air /\ gone' = gone + n

(* The bytes of a packet follow each other closely; one that is late comes *)
(* apart from those before.  The reader can follow from the first byte of  *)
(* a packet after a pause, and as long as no byte is lost or late.         *)
Arrive ==
    /\ air # <<>>
    /\ \E n \in 1..Rest :
          LET last == n = Rest /\ Head(air).node = NodeId
              pause == now - heardAt > ByteTimeout
              follows == IF gone = 0 THEN clean \/ pause ELSE clean /\ ~pause
          IN /\ IF n = Rest THEN faults' = faults
                ELSE faults < MaxFaults /\ faults' = faults + 1
             /\ Leaves(n)
             /\ rx' = rx \o Bytes(n)
             /\ clean' = follows
             /\ due' = IF ~follows THEN NoPacket ELSE IF last THEN Head(air) ELSE due
             /\ whole' = IF last THEN now ELSE whole
    /\ heardAt' = now
    /\ ran' = FALSE
    /\ UNCHANGED <<now, hostVars, nodeVars>>

(* Some bytes arrive, and the next is lost or received as another.         *)
Disturb ==
    /\ faults < MaxFaults /\ faults' = faults + 1
    /\ air # <<>>
    /\ \E k \in 0..(Rest - 1) :
          /\ Leaves(k + 1)
          /\ \E instead \in {<<>>} \cup
                   {<<[value |-> v, of |-> NoPacket, at |-> 0]>> : v \in Values} :
                /\ rx' = rx \o Bytes(k) \o instead
                /\ heardAt' = IF k = 0 /\ instead = <<>> THEN heardAt ELSE now
    /\ ran' = FALSE
    /\ clean' = FALSE /\ due' = NoPacket
    /\ UNCHANGED <<now, hostVars, nodeVars, whole>>

(* The loop has nothing that blocks: it runs in every unit of time.        *)
Tick ==
    /\ ran /\ now < MaxTime
    /\ now' = now + 1
    /\ ran' = FALSE
    /\ UNCHANGED <<hostVars, bus, rx, nodeVars, faults, history>>

Init ==
    /\ now = 0
    /\ fadeMs \in FadeTimes
    /\ sent = 0 /\ air = <<>> /\ gone = 0 /\ rx = <<>>
    /\ reader = NewReader /\ out = NewOutput /\ lastValid = 0 /\ safe = FALSE
    /\ ran = FALSE /\ faults = 0
    /\ heardAt = 0 /\ clean = FALSE /\ due = NoPacket /\ whole = 0

Next == SendFrame \/ Read \/ Loop \/ Restart \/ Arrive \/ Disturb \/ Tick

Spec == Init /\ [][Next]_vars

----------------------------------------------------------------------------
(* Properties                                                              *)

(* Once a packet begins after a pause, every packet for this node is       *)
(* applied until bytes are lost or late: what was damaged before it, sync  *)
(* bytes in a payload, and the other nodes' packets cost nothing more.     *)
ShowsLatest ==
    ran /\ due # NoPacket /\ now - whole <= SafeTimeout => out.target = due.level

(* The lamp is dark, and nothing lights it, once no packet for this node   *)
(* has ended for the time of the safe state, whatever else is on the bus.  *)
DarkInSilence ==
    ran /\ now - whole > SafeTimeout => out.current = 0 /\ out.fade = 0

(* The lamp changes towards its target and not beyond, also when a frame   *)
(* interrupts a fade.                                                      *)
Towards ==
    [][\/ out.current <= out'.current /\ out'.current <= out'.target
       \/ out.current >= out'.current /\ out'.current >= out'.target]_out
=============================================================================
