--------------------------- MODULE LightingProfile ---------------------------
(* A configuration of the light engine, from the file to the wiring:
   validate_config (light_engine/config/__init__.py), Layout.from_config
   (mapping/__init__.py), VirtualPath (mapping/virtual.py) and PhysicalMapping
   (mapping/physical.py).

   A profile is the parsed YAML as a record; None is a field left out.  Values
   of the wrong type are left out: every reader of a field rejects them with
   the same helper. *)
EXTENDS Integers, SequencesExt

CONSTANT None
ASSUME NoneAssumption == None \notin Int

KnownOutputs == {"null", "json", "simulator", "ddp", "udp_v2", "udp_v3", "rs485_v2"}
OneOutput == {"one_output_gpio4", "one_output_wled"}
Policies == OneOutput \cup {"multi_output_diagnostic"}
Directions == {"forward", "reverse"}
VideoZones == {"left", "center", "right", "top", "bottom", "average", "dominant"}
MinChunkDatagram == 46     \* header 29, chunk descriptor 10, one pixel 3, CRC 4
MaxUdpPayload == 65507
MaxPort == 65535
DefaultPayload == 4096
MaxLead == 100000          \* us: of a schedule
MaxRepeatSpacing == 10000
MaxInterval == 10 * MaxLead

Each(s, field) == [i \in DOMAIN s |-> s[i][field]]
(* The sum of numbers none of which is negative. *)
Total(s) == Cardinality(UNION {{i} \X (1..s[i]) : i \in DOMAIN s})
Flip(s, direction) == IF direction = "reverse" THEN Reverse(s) ELSE s
Span(start, count) == start..(start + count - 1)
Disjoint(s) == \A i, j \in DOMAIN s : i # j => s[i] \cap s[j] = {}

StripIds(p) == ToSet(Each(p.strips, "id"))
ZoneIds(p) == ToSet(Each(p.zones, "id"))
LengthOf(p, strip) == (CHOOSE s \in ToSet(p.strips) : s.id = strip).pixels
NodeIds(p) == ToSet(Each(p.nodes, "node"))
NodeOf(p, id) == CHOOSE n \in ToSet(p.nodes) : n.node = id
(* No strip is mapped twice, so that the outputs of a node are a set. *)
OutputsOf(p, id) == {o \in ToSet(p.outputs) : o.node = id}
OutputPixels(p, id) ==
    Cardinality(UNION {{o.strip} \X (1..LengthOf(p, o.strip)) : o \in OutputsOf(p, id)})
Distinct(S, field) == \A a, b \in S : a[field] = b[field] => a = b
Version(p, n) == IF n.version = None THEN p.topology ELSE n.version

(* What the readers of a field have made sure of once p is a record. *)
IsList(v) == v \in Seq(ToSet(v))
Parsed(p) ==
    LET Optional == Int \cup {None}
    IN  /\ {"analog", "nodes", "segments", "outputs"} \subseteq DOMAIN p
        /\ \A field \in {"strips", "zones", "analog", "nodes", "segments", "outputs", "paths"} : IsList(p[field])
        /\ \A i \in DOMAIN p.paths :
              /\ IsList(p.paths[i].segments)
              /\ \A s \in ToSet(p.paths[i].segments) : s.start \in Int /\ s.pixels \in Int /\ s.gap \in Int
        /\ \A s \in ToSet(p.segments) : s.offset \in Int /\ s.pixels \in Int
        /\ \A s \in ToSet(p.strips) : s.pixels \in Int
        /\ \A n \in ToSet(p.nodes) :
              /\ {"node", "host", "port", "enabled", "pixels", "version", "max"} \subseteq DOMAIN n
              /\ n.node \in Int /\ n.pixels \in Optional /\ n.version \in Optional /\ n.max \in Optional
        /\ \A o \in ToSet(p.outputs) :
              /\ {"node", "output", "gpio", "strip", "pixels", "direction"} \subseteq DOMAIN o
              /\ o.node \in Int /\ o.output \in Int /\ o.gpio \in Int

-----------------------------------------------------------------------------
(* validate_config *)

PresentationFits(s) ==
    /\ s.mode \in {"immediate", "scheduled"}
    /\ s.mode = "scheduled" =>
          /\ s.lead_us \in 1..MaxLead
          /\ s.session_start_repeats \in 2..10
          /\ s.session_start_spacing_us \in 0..MaxRepeatSpacing
          /\ s.interval_us \in 1..MaxInterval
          /\ s.startup_count \in 3..32
          /\ s.startup_spacing_us \in 1..MaxLead

PolicyFits(p) ==
    /\ p.topology \in {2, 3}
    /\ p.policy # None => p.policy \in Policies /\ p.topology = 3
    /\ p.topology = 3 /\ p.mode = "production" =>
          /\ p.policy # None
          /\ p.enabled \cap {"ddp", "udp_v3"} # {}
          /\ "udp_v3" \in p.enabled /\ p.policy = "one_output_gpio4"
                => p.presentation.mode = "scheduled"

AnalogNodes(topology) == IF topology = 3 THEN 1 ELSE 6

AnalogFits(p) ==
    /\ \/ Len(p.analog) = AnalogNodes(p.topology)
       \/ p.analog = <<>> /\ p.zones = <<>> /\ "rs485_v2" \notin p.enabled
    /\ \A i \in DOMAIN p.analog :
          /\ p.analog[i].node >= 1 /\ p.analog[i].fade_ms >= 0
          /\ p.analog[i].zone \in ZoneIds(p)

(* A v3 node may leave its length to its outputs. *)
NodeFits(p, n) ==
    /\ n.node >= 1 /\ n.port \in 1..MaxPort
    /\ IF n.pixels = None THEN p.topology = 3 ELSE n.pixels >= 1
    /\ Version(p, n) \in {2, 3}
    /\ IF n.max = None THEN "udp_v3" \notin p.enabled ELSE n.max >= 1
    /\ "udp_v3" \in p.enabled => n.max \in MinChunkDatagram..MaxUdpPayload
    /\ Version(p, n) = 2 /\ n.pixels # None
          => 3 * n.pixels <= (IF n.max = None THEN DefaultPayload ELSE n.max)

NodesFit(p) ==
    /\ IsInjective(Each(p.analog, "node") \o Each(p.nodes, "node"))
    /\ IsInjective([i \in DOMAIN p.nodes |-> <<p.nodes[i].host, p.nodes[i].port>>])
    /\ \A i \in DOMAIN p.nodes : NodeFits(p, p.nodes[i])

SegmentsFit(p) ==
    /\ IsInjective(Each(p.segments, "id"))
    /\ \A i \in DOMAIN p.segments :
          LET s == p.segments[i]
          IN  /\ s.strip \in StripIds(p) /\ s.node \in NodeIds(p)
              /\ s.offset >= 0 /\ s.direction \in Directions
              /\ s.pixels \in 1..LengthOf(p, s.strip)
              /\ NodeOf(p, s.node).pixels # None
              /\ s.offset + s.pixels <= NodeOf(p, s.node).pixels
    /\ Disjoint([i \in DOMAIN p.segments |->
                    {p.segments[i].node} \X Span(p.segments[i].offset, p.segments[i].pixels)])

(* Mutant: a strip may be cut off the mapping. *)
StripsMappedTwiceAtMost(p) == IsInjective(Each(p.outputs, "strip"))
StripsMappedOnce(p) ==
    /\ IsInjective(Each(p.outputs, "strip"))
    /\ ToSet(Each(p.outputs, "strip")) = StripIds(p)

(* Topology 3: independent outputs, each a whole strip. *)
OutputsFit(p) ==
    /\ \A i \in DOMAIN p.nodes : Version(p, p.nodes[i]) = 3
    /\ p.segments = <<>> /\ p.outputs # <<>>
    /\ \A i \in DOMAIN p.outputs :
          LET o == p.outputs[i]
          IN  /\ o.output >= 1 /\ o.gpio >= 0 /\ o.direction \in Directions
              /\ p.policy \in OneOutput => o.output = 1
              /\ p.policy = "one_output_gpio4" => o.gpio = 4
              /\ o.node \in NodeIds(p) /\ o.strip \in StripIds(p)
              /\ o.pixels \in {None, LengthOf(p, o.strip)}
    /\ StripsMappedOnce(p)
    /\ \A id \in NodeIds(p) :
          LET here == OutputsOf(p, id)
          IN  /\ Cardinality(here) \in (IF p.policy \in OneOutput THEN {1} ELSE 1..3)
              /\ Distinct(here, "output") /\ Distinct(here, "gpio")
              /\ NodeOf(p, id).pixels \in {None, OutputPixels(p, id)}

(* A path visits a strip's pixel at most once. *)
PathFits(p, path) ==
    LET s == path.segments
    IN  /\ s # <<>>
        /\ \A i \in DOMAIN s :
              /\ s[i].strip \in StripIds(p) /\ s[i].direction \in Directions
              /\ s[i].start >= 0 /\ s[i].pixels >= 1 /\ s[i].gap >= 0
              /\ s[i].start + s[i].pixels <= LengthOf(p, s[i].strip)
        /\ Disjoint([i \in DOMAIN s |-> {s[i].strip} \X Span(s[i].start, s[i].pixels)])

PathsFit(p) ==
    /\ IsInjective(Each(p.paths, "id"))
    /\ \A i \in DOMAIN p.paths : PathFits(p, p.paths[i])

Accepted(p) ==
    /\ p.mode \in {"memory", "fake", "production"}
    /\ p.enabled # {} /\ p.enabled \subseteq KnownOutputs
    /\ PresentationFits(p.presentation)
    /\ IsInjective(Each(p.zones, "id")) /\ p.biased \subseteq ZoneIds(p)
    /\ IsInjective(Each(p.strips, "id"))
    /\ \A i \in DOMAIN p.strips : p.strips[i].pixels >= 1
    /\ PolicyFits(p) /\ AnalogFits(p) /\ NodesFit(p) /\ SegmentsFit(p)
    /\ p.topology = 3 => OutputsFit(p)
    /\ PathsFit(p)

-----------------------------------------------------------------------------
(* Layout: the defaults of what the file leaves out *)

LayoutAnalog(p) ==
    IF p.analog # <<>> \/ p.topology = 3 THEN p.analog
    ELSE [i \in DOMAIN p.zones |-> [node |-> i, zone |-> p.zones[i].id, fade_ms |-> 0]]

LayoutNode(p, n) ==
    [n EXCEPT !.pixels = IF p.topology = 3 THEN OutputPixels(p, n.node) ELSE @,
              !.version = Version(p, n),
              !.max = IF @ = None THEN DefaultPayload ELSE @]

LayoutNodes(p) ==
    CASE p.nodes # <<>> -> [i \in DOMAIN p.nodes |-> LayoutNode(p, p.nodes[i])]
      [] p.nodes = <<>> /\ p.strips = <<>> -> <<>>
      [] OTHER -> <<[node |-> Max({0} \cup ToSet(Each(LayoutAnalog(p), "node"))) + 1,
                     host |-> "127.0.0.1", port |-> 9001, enabled |-> TRUE,
                     pixels |-> Total(Each(p.strips, "pixels")), version |-> 2, max |-> DefaultPayload]>>

(* Without authored segments a version 2 layout lays its strips end to end *)
(* on its first node. *)
LayoutSegments(p) ==
    IF p.segments # <<>> \/ p.topology = 3 THEN p.segments
    ELSE [i \in DOMAIN p.strips |->
            [id |-> p.strips[i].id, strip |-> p.strips[i].id,
             node |-> IF p.nodes = <<>> THEN LayoutNodes(p)[1].node ELSE p.nodes[1].node,
             offset |-> Total(Each(SubSeq(p.strips, 1, i - 1), "pixels")),
             pixels |-> p.strips[i].pixels, direction |-> p.strips[i].direction]]

LayoutOutputs(p) ==
    [i \in DOMAIN p.outputs |->
        IF p.topology = 3 THEN [p.outputs[i] EXCEPT !.pixels = LengthOf(p, p.outputs[i].strip)]
        ELSE p.outputs[i]]

Layout(p) == [p EXCEPT !.analog = LayoutAnalog(p), !.nodes = LayoutNodes(p),
                       !.segments = LayoutSegments(p), !.outputs = LayoutOutputs(p)]

(* build_virtual_paths, which checks what validate_config did: a path lays its *)
(* segments, each with its gap, end to end. *)
SegmentBuilds(p, s) ==
    /\ s.strip \in StripIds(p) /\ s.direction \in Directions
    /\ s.start >= 0 /\ s.pixels >= 1 /\ s.gap >= 0
    /\ s.start + s.pixels <= LengthOf(p, s.strip)

VirtualPath(path) ==
    LET before(i) == Total([j \in 1..(i - 1) |-> path.segments[j].pixels + path.segments[j].gap])
    IN  [segments |-> [i \in DOMAIN path.segments |->
                          [strip |-> path.segments[i].strip, start |-> path.segments[i].start,
                           pixels |-> path.segments[i].pixels, direction |-> path.segments[i].direction,
                           first |-> before(i)]],
         length |-> before(Len(path.segments) + 1)]

PathsBuild(p) ==
    /\ IsInjective(Each(p.paths, "id"))
    /\ \A i \in DOMAIN p.paths :
          LET s == p.paths[i].segments
          IN  /\ s # <<>>
              /\ \A k \in DOMAIN s : SegmentBuilds(p, s[k])
              /\ \A k, m \in DOMAIN s :
                    k # m /\ s[k].strip = s[m].strip
                        => Span(s[k].start, s[k].pixels) \cap Span(s[m].start, s[m].pixels) = {}

(* ZoneDef: what validate_config does not look at, in a strip or a zone. *)
Oriented(p) ==
    \A s \in {p.strips, p.zones} : \A i \in DOMAIN s :
        s[i].direction \in Directions /\ s[i].video \in VideoZones

(* What from_config raises for itself, before PhysicalMapping. *)
LayoutBuilds(p) ==
    /\ Oriented(p)
    /\ p.topology # 3 => \A i \in DOMAIN p.outputs : p.outputs[i].pixels # None
    /\ p.topology = 3 =>
          /\ \A i \in DOMAIN p.outputs :
                /\ p.outputs[i].strip \in StripIds(p)
                /\ p.outputs[i].pixels \in {None, LengthOf(p, p.outputs[i].strip)}
          /\ \A i \in DOMAIN p.nodes :
                /\ OutputsOf(p, p.nodes[i].node) # {}
                /\ p.nodes[i].pixels \in {None, LayoutNode(p, p.nodes[i]).pixels}
    /\ PathsBuild(p)

-----------------------------------------------------------------------------
(* PhysicalMapping._validate *)

IndependentOutputs(l) ==
    /\ \A i \in DOMAIN l.outputs :
          LET o == l.outputs[i]
          IN  /\ o.output >= 1 /\ o.gpio >= 0 /\ o.direction \in Directions
              /\ o.node \in NodeIds(l) /\ NodeOf(l, o.node).version = 3
              /\ o.strip \in StripIds(l) /\ o.pixels = LengthOf(l, o.strip)
    /\ IsInjective(Each(l.outputs, "strip"))
    /\ ToSet(Each(l.outputs, "strip")) = StripIds(l)
    /\ \A i \in DOMAIN l.nodes :
          LET here == OutputsOf(l, l.nodes[i].node)
          IN  l.nodes[i].version = 3 =>
                /\ Cardinality(here) \in 1..3
                /\ Distinct(here, "output") /\ Distinct(here, "gpio")
                /\ Cardinality(UNION {{o.strip} \X (1..o.pixels) : o \in here}) = l.nodes[i].pixels

PhysicallyValid(l) ==
    /\ \/ Len(l.analog) = AnalogNodes(l.topology)
       \/ l.policy \in OneOutput /\ l.analog = <<>> /\ l.zones = <<>>
    /\ l.topology = 3 => \A i \in DOMAIN l.nodes : l.nodes[i].version = 3
    /\ \A i \in DOMAIN l.analog : l.analog[i].node >= 1 /\ l.analog[i].zone \in ZoneIds(l)
    /\ IsInjective(Each(l.analog, "node") \o Each(l.nodes, "node"))
    /\ \A i \in DOMAIN l.nodes :
          /\ l.nodes[i].node >= 1 /\ l.nodes[i].pixels >= 1 /\ l.nodes[i].version \in {2, 3}
          /\ l.nodes[i].version = 2 => 3 * l.nodes[i].pixels <= l.nodes[i].max
    /\ IF l.outputs # <<>> THEN IndependentOutputs(l)
       ELSE \A i \in DOMAIN l.nodes : l.nodes[i].version # 3
    /\ SegmentsFit(l)

(* UdpOutputV3 checks its schedule again, and sends its beacons to one port *)
(* of every enabled node's host. *)
SenderBuilds(p) ==
    LET s == p.presentation
    IN  /\ \A i, j \in DOMAIN p.nodes :
                p.nodes[i].enabled /\ p.nodes[j].enabled /\ p.nodes[i].host = p.nodes[j].host => i = j
        /\ s.mode = "scheduled" =>
              /\ s.lead_us \in 1..MaxLead
              /\ s.session_start_repeats \in 2..10
              /\ s.session_start_spacing_us \in 0..MaxRepeatSpacing
              /\ s.interval_us >= 1 /\ s.startup_count >= 1 /\ s.startup_spacing_us >= 0

(* Layout.from_config, PhysicalMapping and create_outputs raise nothing. *)
Loads(p) ==
    /\ LayoutBuilds(p) /\ PhysicallyValid(Layout(p))
    /\ "udp_v3" \in p.enabled => SenderBuilds(p)

-----------------------------------------------------------------------------
(* VirtualPath.split: what a rendered path puts on the strips *)

PathLength(path) == VirtualPath(path).length

Split(path, buffer) ==
    [i \in DOMAIN path.segments |->
        LET s == VirtualPath(path).segments[i]
        IN  [strip |-> s.strip, start |-> s.start,
             pixels |-> Flip(SubSeq(buffer, s.first + 1, s.first + s.pixels), s.direction)]]

(* PhysicalMapping.map, `picture` being the pixels of every strip *)

SegmentPixels(l, id, picture, black) ==
    [led \in 1..NodeOf(l, id).pixels |->
        LET over == {i \in DOMAIN l.segments :
                        LET s == l.segments[i] IN s.node = id /\ led - 1 \in Span(s.offset, s.pixels)}
            s == l.segments[Max(over)]
        IN  IF over = {} THEN black
            ELSE Flip(SubSeq(picture[s.strip], 1, s.pixels), s.direction)[led - s.offset]]

(* In the order of the outputs' ids. *)
OutputFrames(l, id, picture) ==
    LET here == OutputsOf(l, id)
        sorted == CHOOSE s \in [1..Cardinality(here) -> here] :
                      \A i, j \in DOMAIN s : i < j => s[i].output < s[j].output
    IN  [i \in DOMAIN sorted |->
            [output |-> sorted[i].output, gpio |-> sorted[i].gpio,
             pixels |-> Flip(picture[sorted[i].strip], sorted[i].direction)]]

NodeFrame(l, n, picture, black) ==
    [node |-> n.node, host |-> n.host, max |-> n.max, enabled |-> n.enabled,
     pixels |-> IF n.version = 3 THEN <<>> ELSE SegmentPixels(l, n.node, picture, black),
     outputs |-> OutputFrames(l, n.node, picture)]
=============================================================================
