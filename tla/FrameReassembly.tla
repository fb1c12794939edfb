-------------------------- MODULE FrameReassembly --------------------------
(***************************************************************************)
(* Long frames on an ESP32 node: the chunk reassembler                     *)
(* (firmware/esp32_ws2811_node/src/chunk_reassembly.cpp) between the UDP   *)
(* socket and the queue filter of networkTask (main.cpp).                  *)
(*                                                                         *)
(* The host splits a node frame that exceeds max_udp_payload into chunk    *)
(* datagrams that carry the identity of the whole frame, and sends them    *)
(* once (a KEY: several rounds).  The air may lose, repeat, delay and      *)
(* reorder them.  One networkTask iteration is one action: accept, and if  *)
(* a frame completes, the decision to queue it and noteComplete.           *)
(*                                                                         *)
(* Datagrams of an earlier session still reach the reassembler, but a      *)
(* frame of an earlier session is overdue: opening a session takes the     *)
(* host longer (the startup beacons) than the lead of a frame.             *)
(***************************************************************************)
EXTENDS Integers, FiniteSets

CONSTANTS
    Sessions,   \* bound: the host opens sessions 1..Sessions
    SeqMax,     \* bound: the frames of a session have sequences 1..SeqMax
    Chunks      \* the chunks a frame is cut into; together they are every
                \* pixel of every configured output

ASSUME ReassemblyAssumption ==
    /\ Sessions \in Nat \ {0} /\ SeqMax \in Nat \ {0}
    /\ Chunks # {} /\ IsFiniteSet(Chunks)

(* The identity of a frame: node, flags and times follow from these two.   *)
HostFrame == [session : 1..Sessions, seq : 1..SeqMax]
NoFrame == [session |-> 0, seq |-> 0]
Frame == HostFrame \cup {NoFrame}

VARIABLES
    host,       \* the last frame the host has sent
    active,     \* the identity of the incomplete frame, or NoFrame
    pixels,     \* pixels_: what was last written into each chunk's range
    received,   \* received_: the chunks of the active frame written so far
    completed,  \* the identity noteComplete recorded, or NoFrame
    lastRx,     \* last_rx_sequence, 0 before the first
    sessionId,  \* the session of the last KEY queued, 0 before the first
    admitted,   \* outputTask has encoded that KEY
    heard,      \* history: the frame of the last datagram ...
    result,     \* history: ... what accept returned for it ...
    queued      \* history: ... and every frame that entered the queue, with the
                \* session it was queued under

asmVars == <<active, pixels, received, completed>>
rxVars == <<lastRx, sessionId, admitted, queued>>
frameVars == <<host, asmVars, rxVars, heard, result>>

FrameInit ==
    /\ host = NoFrame
    /\ active = NoFrame /\ completed = NoFrame
    /\ pixels = [c \in Chunks |-> NoFrame] /\ received = {}
    /\ lastRx = 0 /\ sessionId = 0 /\ admitted = FALSE /\ queued = {}
    /\ heard = NoFrame /\ result = "None"

----------------------------------------------------------------------------
(* The host: sequence numbers restart at 1 with each session.              *)

HostContinues ==
    /\ host.seq \in 1..(SeqMax - 1)
    /\ host' = [host EXCEPT !.seq = @ + 1]
    /\ UNCHANGED <<asmVars, rxVars, heard, result>>

HostOpens ==
    /\ host.session < Sessions
    /\ host' = [session |-> host.session + 1, seq |-> 1]
    /\ UNCHANGED <<asmVars, rxVars, heard, result>>

Sent(f) ==
    \/ f.session < host.session
    \/ f.session = host.session /\ f.seq <= host.seq

----------------------------------------------------------------------------
(* accept                                                                  *)

IsKey(f) == f.seq = 1

(* isSessionStart, isNewerSequence, and a clash of sequences with the      *)
(* active frame, which is checked before either.                           *)
MayStart(f) ==
    LET reference == IF active # NoFrame THEN active ELSE completed
    IN  /\ active # NoFrame => f.seq # active.seq
        /\ reference = NoFrame \/ IsKey(f) \/ f.seq > reference.seq

(* startFrame keeps the old bytes and forgets that they were received.     *)
ReceivedAnyFrame(f) == received  \* mutant
ReceivedBefore(f) == IF f = active THEN received ELSE {}

Rejected(f) == f # active /\ ~MayStart(f)

(* What the datagram adds: bytes already received are left as they are.    *)
Write(f, c) ==
    /\ active' = f
    /\ received' = ReceivedBefore(f) \cup {c}
    /\ pixels' = IF c \in ReceivedBefore(f) THEN pixels ELSE [pixels EXCEPT ![c] = f]

Complete(f, c) == ReceivedBefore(f) \cup {c} = Chunks

(* noteComplete                                                            *)
NoteComplete(f) == active' = NoFrame /\ received' = {} /\ completed' = f

----------------------------------------------------------------------------
(* networkTask                                                             *)

DropDuplicate(f, c) ==
    /\ f = completed
    /\ heard' = f /\ result' = "Duplicate"
    /\ UNCHANGED <<host, asmVars, rxVars>>

DropRejected(f, c) ==
    /\ f # completed
    /\ Rejected(f)
    /\ heard' = f /\ result' = "Rejected"
    /\ UNCHANGED <<host, asmVars, rxVars>>

Collect(f, c) ==
    /\ f # completed
    /\ ~Rejected(f)
    /\ ~Complete(f, c)
    /\ Write(f, c)
    /\ heard' = f /\ result' = "Incomplete"
    /\ UNCHANGED <<host, completed, rxVars>>

(* Mutant: the copies of a KEY go through whatever was admitted.           *)
WantedEveryKey(f) ==
    /\ f.session = host.session
    /\ lastRx = 0 \/ IsKey(f) \/ f.seq > lastRx
    /\ IsKey(f) \/ admitted

(* The filter between a complete frame and the queue: the deadline (an     *)
(* earlier session is overdue), the copies of an admitted KEY, the         *)
(* sequence, and the admission of the session.                             *)
Wanted(f) ==
    /\ f.session = host.session
    /\ lastRx = 0 \/ IsKey(f) \/ f.seq > lastRx
    /\ IF IsKey(f) THEN ~(f.session = sessionId /\ admitted) ELSE admitted

(* Mutant: the frame is noted although the queue did not take it.          *)
OfferAndForget(f, c) ==
    /\ f # completed
    /\ ~Rejected(f)
    /\ Complete(f, c)
    /\ NoteComplete(f)
    /\ heard' = f /\ result' = "Complete"
    /\ UNCHANGED <<host, pixels, rxVars>>

(* A frame that is not wanted, or whose clock or deadline fails, stays the *)
(* active frame: the next of its datagrams offers it again.                *)
OfferInVain(f, c) ==
    /\ f # completed
    /\ ~Rejected(f)
    /\ Complete(f, c)
    /\ Write(f, c)
    /\ heard' = f /\ result' = "Complete"
    /\ UNCHANGED <<host, completed, rxVars>>

(* The queue takes the frame, and noteComplete closes it.                  *)
OfferAndQueue(f, c) ==
    /\ f # completed
    /\ ~Rejected(f)
    /\ Complete(f, c)
    /\ Wanted(f)
    /\ pixels' = IF c \in ReceivedBefore(f) THEN pixels ELSE [pixels EXCEPT ![c] = f]
    /\ NoteComplete(f)
    /\ lastRx' = f.seq
    /\ sessionId' = IF IsKey(f) THEN f.session ELSE sessionId
    /\ admitted' = (admitted /\ ~IsKey(f))
    /\ queued' = queued \cup {[frame |-> f, under |-> sessionId']}
    /\ heard' = f /\ result' = "Complete"
    /\ UNCHANGED host

(* outputTask encodes the KEY it took from the queue.  It withdraws the    *)
(* admission of a session only for a newer one.                            *)
Admit ==
    /\ sessionId # 0 /\ ~admitted
    /\ admitted' = TRUE
    /\ UNCHANGED <<host, asmVars, lastRx, sessionId, queued, heard, result>>

Datagram(f, c) ==
    \/ DropDuplicate(f, c) \/ DropRejected(f, c)
    \/ Collect(f, c) \/ OfferInVain(f, c) \/ OfferAndQueue(f, c)

FrameNext ==
    \/ HostContinues \/ HostOpens \/ Admit
    \/ \E f \in HostFrame, c \in Chunks : Sent(f) /\ Datagram(f, c)

FrameSpec == FrameInit /\ [][FrameNext]_frameVars

----------------------------------------------------------------------------
(* Properties                                                              *)

(* Every variable stays in its type; a frame is active or nothing is       *)
(* received.                                                               *)
TypeOK ==
    /\ host \in Frame /\ active \in Frame /\ completed \in Frame /\ heard \in Frame
    /\ pixels \in [Chunks -> Frame]
    /\ received \in SUBSET Chunks
    /\ active = NoFrame => received = {}
    /\ lastRx \in 0..SeqMax /\ sessionId \in 0..Sessions /\ admitted \in BOOLEAN
    /\ queued \in SUBSET [frame : HostFrame, under : 1..Sessions]
    /\ result \in {"None", "Duplicate", "Rejected", "Incomplete", "Complete"}

(* A complete frame holds the pixels of that frame alone, whatever mix of  *)
(* frames, sessions, copies and orders its datagrams arrived in ("mixed    *)
(* frame identity is rejected without exposing a partial frame").          *)
WholeFrame == result = "Complete" => \A c \in Chunks : pixels[c] = heard

(* A datagram is dismissed as a duplicate only when its frame did enter    *)
(* the queue: a KEY dropped while the clock is being acquired is offered   *)
(* again by its copies.                                                    *)
DuplicateWasQueued == result = "Duplicate" => \E q \in queued : q.frame = heard

(* Under the session a KEY opened, the queue takes each continuation once  *)
(* and in order.  The reassembler alone forgets all but the last identity, *)
(* and a late KEY copy moves its reference back; the filter makes up for   *)
(* that.                                                                   *)
QueuedForward ==
    [][completed' # completed
         => \/ IsKey(completed')
            \/ \A q \in queued : q.under = sessionId' => q.frame.seq < completed'.seq]_frameVars

=============================================================================
