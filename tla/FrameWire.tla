------------------------------ MODULE FrameWire ------------------------------
(* A node frame on the wire: the encoders of the light engine
   (outputs/udp_v3.py, outputs/ddp_output.py) and the parser and the frame
   copy of the ESP32 node (protocol.cpp, owned_frame.cpp).

   A datagram is a record of its fields with its size in bytes; the CRC and
   the byte order are left out, so every datagram is one some encoder made.
   Pixels are opaque. *)
EXTENDS Integers, SequencesExt

CONSTANTS
    DdpPixels,      \* pixels in one DDP packet (480)
    ReceiveBuffer   \* UDP_V3_RECEIVE_BUFFER_BYTES (4096)

Header == 29
OutputDescriptor == 6
ChunkDescriptor == 10
Crc == 4
MaxOutputs == 3
MaxByte == 255
MaxUint16 == 65535
NodeGpios == {4, 5, 6}

MaxPayload == 65507

Payload(pixels) == 3 * Len(pixels)
Sizes(outputs, descriptor) ==
    descriptor * Len(outputs)
    + 3 * Cardinality(UNION {{i} \X DOMAIN outputs[i].pixels : i \in DOMAIN outputs})
Apart(s, field) == \A i, j \in DOMAIN s : s[i][field] = s[j][field] => i = j

-----------------------------------------------------------------------------
(* encode_udp_v3_frame_datagrams *)

(* UdpV3Output and UdpV3Packet raise on anything a byte cannot hold. *)
Encodable(f) ==
    /\ f.node \in 1..MaxByte
    /\ Len(f.outputs) \in 1..MaxOutputs
    /\ Apart(f.outputs, "output") /\ Apart(f.outputs, "gpio")
    /\ \A i \in DOMAIN f.outputs :
          /\ f.outputs[i].output \in 1..MaxByte /\ f.outputs[i].gpio \in 0..MaxByte
          /\ Len(f.outputs[i].pixels) <= MaxUint16

CompleteSize(f) == Header + Sizes(f.outputs, OutputDescriptor) + Crc

Complete(f, seq) ==
    [type |-> "frame", node |-> f.node, seq |-> seq, outputs |-> f.outputs, size |-> CompleteSize(f)]

PixelsPerChunk(max) == (max - Header - ChunkDescriptor - Crc) \div 3

ChunksOf(f, o, seq, room) ==
    LET total == Len(o.pixels)
        Piece(c) == SubSeq(o.pixels, (c - 1) * room + 1, IF c * room < total THEN c * room ELSE total)
    IN  {[type |-> "chunk", node |-> f.node, seq |-> seq,
          output |-> o.output, gpio |-> o.gpio, total |-> total,
          offset |-> (c - 1) * room, pixels |-> Piece(c),
          size |-> Header + ChunkDescriptor + Payload(Piece(c)) + Crc]
         : c \in 1..((total + room - 1) \div room)}

(* UdpV3ChunkPacket, with one chunk, raises on what does not fit its fields. *)
ChunkPacketValid(d) ==
    /\ d.node \in 1..MaxByte
    /\ d.output \in 1..MaxByte /\ d.gpio \in 0..MaxByte
    /\ d.total \in 1..MaxUint16 /\ d.pixels # <<>>
    /\ d.offset + Len(d.pixels) <= d.total
    /\ ChunkDescriptor + Payload(d.pixels) <= MaxUint16

FitsWhole(f) ==
    /\ Sizes(f.outputs, OutputDescriptor) <= MaxUint16
    /\ CompleteSize(f) <= f.max

Datagrams(f, seq) ==
    IF FitsWhole(f) THEN {Complete(f, seq)}
    ELSE UNION {ChunksOf(f, o, seq, PixelsPerChunk(f.max)) : o \in ToSet(f.outputs)}

(* flush_latest raises for a node frame it cannot encode; the packetizer *)
(* asserts that no chunk exceeds the payload. *)
Encodes(f) ==
    /\ Encodable(f)
    /\ FitsWhole(f) \/ PixelsPerChunk(f.max) >= 1
    /\ \A d \in Datagrams(f, 1) : d.size <= f.max /\ (d.type = "chunk" => ChunkPacketValid(d))

-----------------------------------------------------------------------------
(* encode_ddp_packets: the outputs of a node end to end, in order of their *)
(* ids; the last packet tells the controller to show. *)

NodePixels(f) ==
    IF f.outputs = <<>> THEN f.pixels
    ELSE FlattenSeq([i \in DOMAIN f.outputs |-> f.outputs[i].pixels])

DdpPackets(f, seq) ==
    LET pixels == NodePixels(f)
        count == (Len(pixels) + DdpPixels - 1) \div DdpPixels
    IN  {[type |-> "ddp", seq |-> seq, offset |-> 3 * (c - 1) * DdpPixels, push |-> c = count,
          pixels |-> SubSeq(pixels, (c - 1) * DdpPixels + 1,
                            IF c = count THEN Len(pixels) ELSE c * DdpPixels)]
         : c \in 1..count}

-----------------------------------------------------------------------------
(* The node.  `outputs` are the descriptors compiled into it. *)

ConfigurationValid(outputs) ==
    /\ Len(outputs) \in 1..MaxOutputs
    /\ Apart(outputs, "output") /\ Apart(outputs, "gpio")
    /\ \A i \in DOMAIN outputs :
          outputs[i].output # 0 /\ outputs[i].gpio \in NodeGpios /\ outputs[i].pixels > 0

Leds(outputs) == UNION {{outputs[i].output} \X (1..outputs[i].pixels) : i \in DOMAIN outputs}

PacketBuffer(outputs) ==
    LET longest == Header + ChunkDescriptor * Len(outputs) + 3 * Cardinality(Leds(outputs)) + Crc
    IN  IF longest < ReceiveBuffer THEN longest ELSE ReceiveBuffer

Configured(outputs, output, gpio, pixels) ==
    [output |-> output, gpio |-> gpio, pixels |-> pixels] \in ToSet(outputs)

ParsesFrame(d, id, outputs) ==
    /\ d.type = "frame" /\ d.node = id
    /\ Len(d.outputs) = Len(outputs)
    /\ Apart(d.outputs, "output") /\ Apart(d.outputs, "gpio")
    /\ \A i \in DOMAIN d.outputs :
          LET o == d.outputs[i]
          IN  Len(o.pixels) > 0 /\ Configured(outputs, o.output, o.gpio, Len(o.pixels))

ParsesChunk(d, id, outputs) ==
    /\ d.type = "chunk" /\ d.node = id
    /\ d.total > 0 /\ Len(d.pixels) > 0
    /\ d.offset + Len(d.pixels) <= d.total
    /\ Configured(outputs, d.output, d.gpio, d.total)

Parses(d, id, outputs) ==
    /\ d.size <= PacketBuffer(outputs)
    /\ ConfigurationValid(outputs)
    /\ ParsesFrame(d, id, outputs) \/ ParsesChunk(d, id, outputs)

(* The host's own decoders, UdpV3Packet.decode and UdpV3ChunkPacket.decode: *)
(* a frame is compared with the outputs expected, a chunk with nothing yet. *)
DecodesFrame(d, id, outputs) ==
    /\ d.type = "frame" /\ d.node = id
    /\ d.size <= MaxPayload
    /\ Len(d.outputs) \in 1..MaxOutputs
    /\ Apart(d.outputs, "output") /\ Apart(d.outputs, "gpio")
    /\ {[output |-> o.output, gpio |-> o.gpio, pixels |-> Len(o.pixels)] : o \in ToSet(d.outputs)}
          = ToSet(outputs)

DecodesChunk(d, id) ==
    /\ d.type = "chunk" /\ d.node = id
    /\ d.size \in (Header + ChunkDescriptor + Crc)..MaxPayload
    /\ ChunkPacketValid(d)

(* copyUdpV3Frame, and the copy out of the reassembler: a pixel per LED. *)
FrameLeds(d) ==
    UNION {{<<<<d.outputs[i].output, k>>, d.outputs[i].pixels[k]>> : k \in DOMAIN d.outputs[i].pixels}
           : i \in DOMAIN d.outputs}
ChunkLeds(d) ==
    {<<<<d.output, d.offset + k>>, d.pixels[k]>> : k \in DOMAIN d.pixels}
=============================================================================
