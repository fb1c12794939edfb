--------------------------- MODULE MCFrameDelivery ---------------------------
(* Profiles for FrameDelivery: a production profile of two nodes with one
   output each, a diagnostic one of a node with two outputs, a version 2
   layout, and each of them with one or two fields changed.  Strips have one
   to four pixels, so that the payload limits of 45 to 52 bytes cut frames
   into one to four chunks; a DDP packet holds two pixels. *)
EXTENDS FrameDelivery

Strip(id, n) == [id |-> id, pixels |-> n, direction |-> "forward", video |-> "center"]
Zone == [id |-> "z", direction |-> "forward", video |-> "left"]
Node(id, host, port, pixels, max) ==
    [node |-> id, host |-> host, port |-> port, enabled |-> TRUE, pixels |-> pixels,
     version |-> None, max |-> max]
Output(node, id, gpio, strip) ==
    [node |-> node, output |-> id, gpio |-> gpio, strip |-> strip, pixels |-> None, direction |-> "forward"]
Segment(id, strip, node, offset, n, direction) ==
    [id |-> id, strip |-> strip, node |-> node, offset |-> offset, pixels |-> n, direction |-> direction]
PathSegment(strip, start, n, direction, gap) ==
    [strip |-> strip, start |-> start, pixels |-> n, direction |-> direction, gap |-> gap]
Path(segments) == [id |-> "p", segments |-> segments]

Immediate == [mode |-> "immediate"]
Scheduled == [mode |-> "scheduled", lead_us |-> 20000, session_start_repeats |-> 3,
              session_start_spacing_us |-> 2000, interval_us |-> 500000, startup_count |-> 5,
              startup_spacing_us |-> 10000]

Production ==
    [mode |-> "production", enabled |-> {"udp_v3"}, presentation |-> Scheduled, biased |-> {},
     topology |-> 3, policy |-> "one_output_gpio4", zones |-> <<>>, analog |-> <<>>,
     strips |-> <<Strip("s1", 3), Strip("s2", 1)>>,
     nodes |-> <<Node(1, "h1", 9001, None, 49), Node(2, "h2", 9001, 1, 4096)>>,
     segments |-> <<>>,
     outputs |-> <<Output(1, 1, 4, "s1"), Output(2, 1, 4, "s2")>>,
     paths |-> <<Path(<<PathSegment("s1", 1, 2, "reverse", 1), PathSegment("s2", 0, 1, "forward", 0)>>)>>]

Diagnostic ==
    [Production EXCEPT !.mode = "memory", !.enabled = {"udp_v3", "ddp"}, !.presentation = Immediate,
                       !.policy = "multi_output_diagnostic", !.zones = <<Zone>>,
                       !.analog = <<[node |-> 2, zone |-> "z", fade_ms |-> 0]>>,
                       !.nodes = <<Node(1, "h1", 9001, 4, 49)>>,
                       !.outputs = <<[Output(1, 2, 5, "s1") EXCEPT !.direction = "reverse"],
                                     Output(1, 1, 4, "s2")>>]

Legacy ==
    [Production EXCEPT !.enabled = {"udp_v2", "rs485_v2"}, !.presentation = Immediate,
                       !.topology = 2, !.policy = None,
                       !.zones = <<Zone>>, !.outputs = <<>>,
                       !.analog = [i \in 1..6 |-> [node |-> i, zone |-> "z", fade_ms |-> 0]],
                       !.nodes = <<Node(11, "h1", 9001, 4, 12)>>,
                       !.segments = <<Segment("g1", "s1", 11, 1, 3, "reverse"), Segment("g2", "s2", 11, 0, 1, "forward")>>]

-----------------------------------------------------------------------------
WithNode(p, i, fields) == [p EXCEPT !.nodes[i] = fields @@ @]
WithOutput(p, i, fields) == [p EXCEPT !.outputs[i] = fields @@ @]
WithStrip(p, i, fields) == [p EXCEPT !.strips[i] = fields @@ @]
WithZones(p, fields) == [p EXCEPT !.zones = [i \in DOMAIN @ |-> fields @@ @[i]]]
WithFirstAnalog(p, fields) ==
    [p EXCEPT !.analog = [i \in DOMAIN @ |-> IF i = 1 THEN fields @@ @[i] ELSE @[i]]]
OnTheBus(p, mode) == [p EXCEPT !.mode = mode, !.enabled = {"rs485_v2", "udp_v3", "udp_v2"}]
WithPath(p, i, fields) == [p EXCEPT !.paths[1].segments[i] = fields @@ @]

Edits(p) ==
    {[p EXCEPT !.mode = m] : m \in {"production", "memory", "other"}}
    \cup {[p EXCEPT !.enabled = e] : e \in {{}, {"ddp"}, {"udp_v3"}, {"udp_v3", "ddp"}, {"rs485_v2", "udp_v3"}, {"json"}, {"udp"}}}
    \cup {[p EXCEPT !.presentation = s] : s \in {Immediate, Scheduled, [Scheduled EXCEPT !.lead_us = 0]}}
    \cup {[p EXCEPT !.policy = c] : c \in Policies \cup {None, "other"}}
    \cup {[p EXCEPT !.topology = t] : t \in {2, 3, 4}}
    \cup {[p EXCEPT !.zones = <<>>, !.analog = <<>>], [p EXCEPT !.zones = <<Zone>>],
          [p EXCEPT !.zones = <<Zone, Zone>>], [p EXCEPT !.biased = {"z"}]}
    \cup {[p EXCEPT !.strips = s] :
            s \in {<<Strip("s1", 4), Strip("s2", 1)>>, <<Strip("s1", 3), Strip("s2", 0)>>,
                   <<Strip("s1", 3)>>, <<Strip("s1", 3), Strip("s1", 1)>>,
                   <<Strip("s1", 3), Strip("s2", 1), Strip("s3", 1)>>}}
    \cup UNION {{WithStrip(p, 2, f), WithZones(p, f)} :
                    f \in [direction : {"reverse", "both"}] \cup [video : {"top", "middle"}]}
    \cup {WithFirstAnalog(OnTheBus(p, m), f) :
            m \in {"production", "memory"},
            f \in [node : {2, 6, 7}] \cup [fade_ms : {MaxUint16, MaxUint16 + 1}]}
    \cup {[p EXCEPT !.outputs = @ \o <<Output(1, 3, 6, "s2")>>], [p EXCEPT !.outputs = <<>>]}
    \cup {[p EXCEPT !.nodes = @ \o <<Node(1, "h3", 9001, None, 46)>>]}
    \cup {[p EXCEPT !.nodes = @ \o <<Node(3, "h1", 9001, None, 46)>>]}
    \cup {[p EXCEPT !.nodes = @ \o <<Node(3, "h3", 9001, None, 46)>>]}
    \cup {[p EXCEPT !.paths = <<>>], [p EXCEPT !.paths = @ \o @]}
    \cup {WithPath(p, 1, f) : f \in [start : {0, 2}] \cup [pixels : {0, 1}] \cup [direction : {"forward", "both"}]
                                    \cup [strip : {"s2", "s9"}]}
    \cup UNION {{WithNode(p, i, f) :
                    f \in [max : {None, 45, 46, 49, 52, 4096, 65508}] \cup [pixels : {None, 1, 3, 4}]
                          \cup [node : {0, 2, 7, 256}] \cup [version : {2, 3}] \cup [enabled : {FALSE}]
                          \cup [port : {0, 4048}]
                          \cup {[host |-> "h1", port |-> 9002]}} : i \in DOMAIN p.nodes}
    \cup UNION {{WithOutput(p, i, f) :
                    f \in [output : {0, 1, 2, 256}] \cup [gpio : {4, 5, 16}] \cup [node : {1, 2, 3}]
                          \cup [strip : {"s1", "s2", "s9"}] \cup [pixels : {1, 3}]
                          \cup [direction : {"reverse", "forward", "both"}]} : i \in DOMAIN p.outputs}
    \cup UNION {{[p EXCEPT !.segments[i] = f @@ @] :
                    f \in [offset : {0, 2}] \cup [pixels : {1, 4}] \cup [node : {1, 9}]
                          \cup [strip : {"s9"}] \cup [direction : {"both"}]} : i \in DOMAIN p.segments}

MCProfiles == Edits(Production) \cup Edits(Diagnostic) \cup Edits(Legacy)
              \cup Edits([Production EXCEPT !.enabled = {"ddp"}, !.policy = "one_output_wled",
                                            !.nodes = <<Node(1, "h1", 4048, None, None), Node(2, "h2", 4048, 1, None)>>,
                                            !.outputs[1].gpio = 16])

Built(id, gpio, n) == [output |-> id, gpio |-> gpio, pixels |-> n]
MCHeaders == {<<Built(1, 4, 3)>>, <<Built(1, 4, 1)>>, <<Built(1, 4, 4)>>,
              <<Built(1, 4, 1), Built(2, 5, 3)>>, <<Built(2, 5, 3), Built(1, 4, 1)>>, <<Built(1, 16, 3)>>}
=============================================================================
