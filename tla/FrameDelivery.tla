---------------------------- MODULE FrameDelivery ----------------------------
(* From a configuration to the LEDs: the engine loads a profile, maps every
   frame to its nodes, encodes it (UdpOutputV3.flush_latest, DdpOutput.
   flush_latest) and sends it; one receiver is followed.  It is a node with
   this repository's firmware (networkTask: parser, chunk reassembler, queue)
   or a WLED controller.  The datagrams sent so far may reach it in any order,
   again, or never.

   Beside the node runs UdpV3FrameReassembler (outputs/udp_v3.py), the host's
   own receiver, fed the same datagrams.

   One session: sequences start at 1, the KEY.  The clock, the deadline and
   the admission of a session are NodeSession's: here a scheduled frame is on
   time and a queued KEY is admitted at once.  Frames of several sessions are
   FrameReassembly's. *)
EXTENDS LightingProfile, FrameWire

CONSTANTS
    Profiles,   \* bound: the profiles the engine may be started with
    Headers,    \* [node id -> the output lists its firmware may be built with]
    Frames      \* bound: frames 1..Frames are sent

ASSUME ProfilesAssumption == \A p \in Profiles : Parsed(p)
ASSUME HeadersAssumption == Headers \subseteq Seq([output : Int, gpio : Int, pixels : Int])
ASSUME SizesAssumption == Frames \in Nat /\ DdpPixels \in Nat \ {0} /\ ReceiveBuffer \in Nat

VARIABLES
    profile, phase,
    receiver,   \* the node or controller followed: [kind, node, outputs]
    air,        \* the datagrams of each frame sent to it
    arrived,    \* history: datagrams of the last frame which arrived since it was
                \* sent and since the last datagram of an older KEY
    late,       \* history: a datagram of the KEY came after one of a newer frame
    rx,         \* the node: active, got, completed, last, queued, or the
                \* controller: buffer
    shown,      \* what the receiver was last told to show: {<<led, pixel>>}
    twin        \* the host's receiver: active, got, completed, returned

vars == <<profile, phase, receiver, air, arrived, late, rx, shown, twin>>

sent == Len(air)    \* the sequence of the last frame

NoNode == [kind |-> "none", node |-> 0, outputs |-> <<>>]
NoRx == [active |-> 0, got |-> {}, completed |-> 0, last |-> 0, queued |-> 0, buffer |-> {}]
NoTwin == [active |-> 0, got |-> {}, completed |-> 0, returned |-> 0]
Black == <<0, None>>

Init ==
    /\ profile \in Profiles /\ phase = "file"
    /\ receiver = NoNode /\ air = <<>> /\ arrived = {} /\ late = FALSE
    /\ rx = NoRx /\ shown = {} /\ twin = NoTwin

-----------------------------------------------------------------------------
(* The host *)

(* A pixel is its frame and its place: on its strip or, for those of the *)
(* layout's first path, which was rendered whole, on the path. *)
Place(p, strip, i) ==
    LET onPath == IF p.paths = <<>> THEN <<>>
                  ELSE Split(p.paths[1], [g \in 1..PathLength(p.paths[1]) |-> <<p.paths[1].id, g>>])
        over == {c \in ToSet(onPath) : c.strip = strip /\ i \in Span(c.start + 1, Len(c.pixels))}
    IN  IF over = {} THEN <<strip, i>>
        ELSE LET c == CHOOSE c \in over : TRUE IN c.pixels[i - c.start]

Picture(p, seq) ==
    [strip \in StripIds(p) |-> [i \in 1..LengthOf(p, strip) |-> <<seq, Place(p, strip, i)>>]]

FramesOf(p, seq) ==
    LET l == Layout(p)
    IN  {NodeFrame(l, n, Picture(p, seq), Black) : n \in ToSet(l.nodes)}

(* The wire of the outputs which are not followed: RS485v2Packet for every *)
(* analog node, UdpV2Packet for every digital one. *)
MaxBusNode == 6
BusFits(a) == a.node \in 1..MaxBusNode /\ a.fade_ms <= MaxUint16
V2Fits(f) == f.node <= MaxByte /\ 3 * Len(f.pixels) <= MaxUint16

(* UdpOutputV3 encodes every enabled node before it sends, and raises for a *)
(* node without outputs. *)
FrameEncodes(p) ==
    /\ "udp_v3" \in p.enabled => \A f \in FramesOf(p, 1) : f.enabled => Encodes(f)
    /\ "udp_v2" \in p.enabled => \A f \in FramesOf(p, 1) : V2Fits(f)
    /\ "rs485_v2" \in p.enabled => \A a \in ToSet(LayoutAnalog(p)) : BusFits(a)

(* What reaches the followed receiver: its own UDP endpoint, or the DDP port *)
(* of its host. *)
Outgoing(p, r, seq) ==
    LET mine == {f \in FramesOf(p, seq) : f.enabled /\ f.node = r.node}
    IN  UNION {IF r.kind = "node" THEN Datagrams(f, seq) ELSE DdpPackets(f, seq) : f \in mine}

(* A firmware is built for each node, in agreement with the layout or not; *)
(* a controller is set up to the lengths of the layout. *)
ReceiversOf(p) ==
    {[kind |-> "node", node |-> id, outputs |-> o] :
        id \in {n \in NodeIds(p) : "udp_v3" \in p.enabled}, o \in Headers}
    \cup {[kind |-> "wled", node |-> id, outputs |-> <<>>] :
        id \in {n \in NodeIds(p) : "ddp" \in p.enabled}}

Refuse ==
    /\ phase = "file" /\ ~Accepted(profile)
    /\ phase' = "refused"
    /\ UNCHANGED <<profile, receiver, air, arrived, late, rx, shown, twin>>

Load ==
    /\ phase = "file" /\ Accepted(profile)
    /\ phase' = IF ~Loads(profile) THEN "failed" ELSE "loaded"
    /\ UNCHANGED <<profile, receiver, air, arrived, late, rx, shown, twin>>

(* The first frame goes out; or some output cannot encode it, which ends a *)
(* production show, while in memory or fake mode that output drops every frame *)
(* (and the others are not followed). *)
Open ==
    /\ phase = "loaded"
    /\ IF FrameEncodes(profile)
       THEN phase' = "playing" /\ receiver' \in ReceiversOf(profile)
       ELSE /\ phase' = IF profile.mode = "production" THEN "failed" ELSE "dropping"
            /\ UNCHANGED receiver
    /\ UNCHANGED <<profile, air, arrived, late, rx, shown, twin>>

Send ==
    /\ phase = "playing" /\ sent < Frames
    /\ air' = Append(air, Outgoing(profile, receiver, sent + 1))
    /\ arrived' = {}
    /\ rx' = [rx EXCEPT !.queued = 0] /\ twin' = [twin EXCEPT !.returned = 0]
    /\ UNCHANGED <<profile, phase, receiver, late, shown>>

-----------------------------------------------------------------------------
(* The node *)

IsKey(seq) == seq = 1

(* UdpV3ChunkReassembler::accept: active and got afterwards. *)
Reference(a) == IF a.active # 0 THEN a.active ELSE a.completed
(* Mutant: only what was completed counts as old. *)
FollowsCompleted(a, seq) == seq = a.active \/ IsKey(seq) \/ seq > a.completed
Follows(a, seq) == seq = a.active \/ IsKey(seq) \/ seq > Reference(a)
(* Mutant: what was collected of another frame is kept. *)
CollectedAcross(a, d) == a.got \cup ChunkLeds(d)
Collected(a, d) == (IF d.seq = a.active THEN a.got ELSE {}) \cup ChunkLeds(d)
Whole(leds, outputs) == {l[1] : l \in leds} = Leds(outputs)

(* The filter between a complete frame and the queue. *)
Wanted(d) ==
    /\ rx.last = 0 \/ IsKey(d.seq) \/ d.seq > rx.last
    /\ ~(profile.presentation.mode = "scheduled" /\ IsKey(d.seq) /\ rx.last # 0)

(* xQueueOverwrite and noteComplete. *)
Queue(d, leds) ==
    /\ rx' = [rx EXCEPT !.active = 0, !.got = {}, !.completed = d.seq, !.last = d.seq, !.queued = d.seq]
    /\ shown' = leds

NodeIgnores == rx' = [rx EXCEPT !.queued = 0] /\ UNCHANGED shown

NodeHearsFrame(d) ==
    /\ ParsesFrame(d, receiver.node, receiver.outputs)
    /\ IF Wanted(d) THEN Queue(d, FrameLeds(d)) ELSE NodeIgnores

NodeHearsChunk(d) ==
    /\ ParsesChunk(d, receiver.node, receiver.outputs)
    /\ IF d.seq = rx.completed \/ ~Follows(rx, d.seq) THEN NodeIgnores
       ELSE LET got == Collected(rx, d)
            IN  IF Whole(got, receiver.outputs) /\ Wanted(d) THEN Queue(d, got)
                ELSE /\ rx' = [rx EXCEPT !.active = d.seq, !.got = got, !.queued = 0]
                     /\ UNCHANGED shown

NodeHears(d) ==
    IF ~Parses(d, receiver.node, receiver.outputs) THEN NodeIgnores
    ELSE \/ d.type = "frame" /\ NodeHearsFrame(d)
         \/ d.type = "chunk" /\ NodeHearsChunk(d)

(* The host's receiver, if the outputs are such that it can be made.  It *)
(* begins a frame before it looks at the chunk. *)
TwinMade(id, outputs) ==
    /\ id \in 1..MaxByte
    /\ Len(outputs) \in 1..MaxOutputs
    /\ Apart(outputs, "output") /\ Apart(outputs, "gpio")
    /\ \A i \in DOMAIN outputs :
          /\ outputs[i].output \in 1..MaxByte /\ outputs[i].gpio \in 0..MaxByte
          /\ outputs[i].pixels \in 1..MaxUint16

(* is_newer_sequence, far from the wrap *)
IsNewer(candidate, previous) == candidate > previous

(* Mutant: a frame once completed may start again. *)
TwinFollowsAgain(seq) == seq = twin.active \/ IsKey(seq) \/ Reference(twin) = 0 \/ seq >= Reference(twin)
TwinFollows(seq) ==
    /\ seq # twin.completed
    /\ seq = twin.active \/ IsKey(seq) \/ Reference(twin) = 0 \/ IsNewer(seq, Reference(twin))

(* Its buffers once it has begun the frame, or is in it already. *)
Begun(seq) == IF seq = twin.active THEN twin.got ELSE {}

TwinReturns(seq) == twin' = [active |-> 0, got |-> {}, completed |-> seq, returned |-> seq]
TwinIgnores == twin' = [twin EXCEPT !.returned = 0]
TwinKeeps(seq, leds) == twin' = [twin EXCEPT !.active = seq, !.got = leds, !.returned = 0]

(* A pixel that differs from the one already there. *)
Conflict(got, d) == \E old \in got, new \in ChunkLeds(d) : old[1] = new[1] /\ old[2] # new[2]

TwinHears(d) ==
    LET expected == receiver.outputs
        got == Begun(d.seq) \cup ChunkLeds(d)
    IN  CASE ~TwinMade(receiver.node, expected) \/ ~TwinFollows(d.seq) -> TwinIgnores
          [] TwinMade(receiver.node, expected) /\ TwinFollows(d.seq) /\ d.type = "frame" ->
                IF DecodesFrame(d, receiver.node, expected) THEN TwinReturns(d.seq) ELSE TwinIgnores
          [] OTHER ->
                IF ~DecodesChunk(d, receiver.node) THEN TwinIgnores
                ELSE IF \/ ~Configured(expected, d.output, d.gpio, d.total)
                        \/ Conflict(Begun(d.seq), d)
                THEN TwinKeeps(d.seq, Begun(d.seq))
                ELSE IF Whole(got, expected) THEN TwinReturns(d.seq)
                ELSE TwinKeeps(d.seq, got)

(* A WLED controller writes what a packet holds and shows on the last. *)
WledHears(d) ==
    LET new == {<<d.offset \div 3 + k, d.pixels[k]>> : k \in DOMAIN d.pixels}
        written == {w \in rx.buffer : \A n \in new : n[1] # w[1]} \cup new
    IN  /\ rx' = [rx EXCEPT !.buffer = written]
        /\ shown' = IF d.push THEN written ELSE shown
        /\ UNCHANGED twin

Hear(seq, d) ==
    /\ phase = "playing"
    /\ arrived' = CASE seq = sent -> arrived \cup {d}
                    [] seq # sent /\ IsKey(seq) -> {}
                    [] OTHER -> arrived
    /\ late' = (late \/ (IsKey(seq) /\ Max({0, rx.active, rx.last}) > 1))
    /\ IF receiver.kind = "wled" THEN WledHears(d) ELSE NodeHears(d) /\ TwinHears(d)
    /\ UNCHANGED <<profile, phase, receiver, air>>

Next ==
    \/ Refuse \/ Load \/ Open \/ Send
    \/ \E seq \in 1..sent : \E d \in air[seq] : Hear(seq, d)

Spec == Init /\ [][Next]_vars

-----------------------------------------------------------------------------
(* Properties *)

(* The widths of the wire and the addresses of the RS-485 bus, which *)
(* validate_config does not look at. *)
WireSized(p) ==
    /\ "rs485_v2" \in p.enabled => \A i \in DOMAIN p.analog : BusFits(p.analog[i])
    /\ \A id \in NodeIds(p) : id <= MaxByte
    /\ \A i \in DOMAIN p.strips : p.strips[i].pixels <= MaxUint16
    /\ \A i \in DOMAIN p.outputs : p.outputs[i].output <= MaxByte /\ p.outputs[i].gpio <= MaxByte

HostsApart(p) == \A n, m \in ToSet(p.nodes) : n.enabled /\ m.enabled /\ n.host = m.host => n = m

(* "Validate the complete v2 configuration surface" (config/__init__.py:195): *)
(* a topology 3 profile that validate_config accepts starts and plays.  The *)
(* layout is built, the mapping is valid, the sender can be made and each *)
(* output can encode every frame of every node.  What is left out is all that *)
(* validate_config misses: a strip or zone whose direction or video_zone Layout *)
(* does not know, numbers wider than the wire or outside the RS-485 bus, enabled *)
(* nodes that share a host, whose beacons would go to one address, and no analog *)
(* node without a one-output policy. *)
AcceptedPlays ==
    profile.topology = 3 /\ Oriented(profile) /\ WireSized(profile) /\ HostsApart(profile)
    /\ (profile.analog # <<>> \/ profile.policy \in OneOutput)
        => phase \notin {"failed", "dropping"}

(* Where the profile says a pixel belongs: pixel i of a strip on LED k of *)
(* its output, or from the offset of its segment on; the LEDs of a *)
(* controller count through its outputs. *)
WiredOutput(p, r, o) ==
    LET before == {b \in ToSet(p.outputs) : b.node = o.node /\ b.output < o.output}
        start == Cardinality(UNION {{b.output} \X (1..LengthOf(p, b.strip)) : b \in before})
        length == LengthOf(p, o.strip)
    IN  {[led |-> IF r.kind = "wled" THEN start + k ELSE <<o.output, k>>, strip |-> o.strip,
          index |-> IF o.direction = "reverse" THEN length + 1 - k ELSE k] : k \in 1..length}

WiredSegment(s) ==
    {[led |-> s.offset + k, strip |-> s.strip,
      index |-> IF s.direction = "reverse" THEN s.pixels + 1 - k ELSE k] : k \in 1..s.pixels}

Wired(p, r) ==
    IF OutputsOf(p, r.node) # {}
    THEN UNION {WiredOutput(p, r, o) : o \in OutputsOf(p, r.node)}
    ELSE UNION {WiredSegment(s) : s \in {g \in ToSet(LayoutSegments(p)) : g.node = r.node}}

(* The path coordinate of a strip's pixel, or the pixel itself. *)
Authored(p, strip, index) ==
    LET path == p.paths[1]
        under == {i \in DOMAIN path.segments :
                    path.segments[i].strip = strip /\ index - 1 \in Span(path.segments[i].start, path.segments[i].pixels)}
        i == CHOOSE i \in under : TRUE
        s == path.segments[i]
        along == IF s.direction = "reverse" THEN s.start + s.pixels - index ELSE index - 1 - s.start
    IN  IF p.paths = <<>> \/ under = {} THEN <<strip, index>>
        ELSE <<path.id, 1 + along + Total([j \in 1..(i - 1) |-> path.segments[j].pixels + path.segments[j].gap])>>

(* Whatever order, copies and losses its datagrams met, every LED of a *)
(* receiver shows the pixel the profile puts there, black where it puts none, *)
(* and the LEDs of a node all show one frame. *)
PictureInPlace ==
    /\ \A s \in shown :
          LET here == {w \in Wired(profile, receiver) : w.led = s[1]}
          IN  IF here = {} THEN s[2] = Black
              ELSE \E w \in here : s[2][2] = Authored(profile, w.strip, w.index)
    /\ receiver.kind = "node" => \A s, t \in shown : s[2][1] = t[2][1]

Agreed ==
    /\ receiver.kind = "node"
    /\ ConfigurationValid(receiver.outputs)
    /\ ToSet(receiver.outputs) =
          {[output |-> o.output, gpio |-> o.gpio, pixels |-> LengthOf(profile, o.strip)] :
              o \in OutputsOf(profile, receiver.node)}
    /\ NodeOf(Layout(profile), receiver.node).max <= ReceiveBuffer

AllArrived ==
    /\ sent > 0 /\ air[sent] # {}
    /\ arrived = air[sent]

(* A node built for the profile, whose buffer holds its payloads, shows the *)
(* newest frame once each of its datagrams has arrived, in any order and among *)
(* any older ones; a late copy of the KEY makes it start over. *)
NewestShown ==
    Agreed /\ AllArrived
        => \A led \in Leds(receiver.outputs) : \E s \in shown : s[1] = led /\ s[2][1] = sent

(* "Pure one-incomplete-frame receiver mirroring the firmware contract" *)
(* (udp_v3.py:521): the host's receiver returns a frame at the datagram with *)
(* which the node queues it, and no other.  Left out: a KEY which came late, *)
(* after which the node knows the last frame it queued and the other only the *)
(* last it completed; a copy of a KEY that came in one datagram, which an *)
(* immediate node queues again; and outputs other than the profile's, a chunk *)
(* of which the host's receiver counts as a new frame. *)
TwinMirrors ==
    [][Agreed /\ ~late' /\ (rx'.queued = 0 \/ rx'.queued # rx.last)
        => twin'.returned = rx'.queued]_vars
=============================================================================
