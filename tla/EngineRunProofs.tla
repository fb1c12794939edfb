-------------------------- MODULE EngineRunProofs --------------------------
(***************************************************************************)
(* Proofs about EngineRun for every selection and order of outputs, any    *)
(* number of nodes and of rounds of the KEY, every frame period and every  *)
(* bound: a run is what the nodes' protocol expects of the host.           *)
(***************************************************************************)
EXTENDS EngineRun, FiniteSetTheorems, TLAPS

(* The UDP output has had its turn in this frame.                          *)
Passed == \E i \in 1..(cursor - 1) : Outputs[i] = "udp"

(* Every copy of the session's KEY frame has been sent.                    *)
KeySent == \A c \in Copies(TRUE) : Datagram(1, c, TRUE, FALSE) \in air

(* Sequences count the frames of the run, and one more for the SAFE frame. *)
Counting ==
    /\ pc = "loop" => seq = frames
    /\ pc = "send" => seq = frames + 1 /\ frames < MaxFrames
    /\ pc = "stop" => seq <= MaxFrames
    /\ pc = "black" => seq # 0

(* The outputs are all open or all closed, open during a run, and the UDP  *)
(* output stays healthy until it fails, which ends the run.                *)
Openness ==
    /\ \A o, p \in Names : open[o] = open[p]
    /\ pc # "off" => \A o \in Names : open[o]
    /\ "udp" \in Names /\ (pc \in {"loop", "send"} \/ (pc = "off" /\ open["udp"]))
         => healthy["udp"]

(* How a run is going to end is settled when it leaves the loop.           *)
Ending ==
    /\ pc \in {"loop", "send"} => outcome = "none"
    /\ pc \in {"stop", "black"} => outcome \in {"ok", "error"}
    /\ pc = "black" => \A i \in 1..(cursor - 1) : Outputs[i] \in blacked
    /\ pc \in {"loop", "send"} => missed \subseteq stale
    /\ pc \in {"loop", "send"} => \A o \in Names : healthy[o] \/ o \in stale

(* needs_key says whether this session's KEY is still to be sent.          *)
Session ==
    /\ "udp" \notin Names => air = {}
    /\ "udp" \in Names =>
         /\ pc = "off" /\ open["udp"] => needsKey /\ air = {}
         /\ pc = "loop" => (needsKey <=> seq = 0)
         /\ pc = "send" => (needsKey <=> (seq = 1 /\ ~Passed))
         /\ pc = "stop" => (seq = 0 => needsKey)
         /\ pc = "black" => (seq = 1 /\ ~Passed => needsKey)
         /\ pc \in {"loop", "send"} /\ ~needsKey => KeySent

(* What is on the air is not newer than the sequence, and only the         *)
(* shutdown sends SAFE frames.                                             *)
Ages ==
    /\ pc \in {"loop", "send", "stop"} => \A d \in air : ~d.safe /\ d.seq <= seq
    /\ pc = "black" => \A d \in air : IF d.safe THEN d.seq = seq ELSE d.seq < seq

(* The show runtime is as far as the clock.                                *)
Timeline ==
    /\ shown = NoTime => seen = {}
    /\ pc \in {"loop", "send"} /\ shown # NoTime => last = shown /\ shown \in seen

IInv == /\ TypeOK /\ Counting /\ Openness /\ Ending /\ Session /\ Ages /\ Timeline
        /\ SuccessMeansDelivered /\ KeyOpensSession /\ SafeIsNewest /\ EndsClosed
        /\ NoStateAcrossJump

----------------------------------------------------------------------------
(* Outputs and datagrams                                                   *)

LEMMA OutputFacts ==
  /\ Len(Outputs) \in Nat
  /\ \A i \in 1..Len(Outputs) : Outputs[i] \in Names
  /\ \A o \in Names : o \in Kinds /\ \E i \in 1..Len(Outputs) : Outputs[i] = o
BY EngineAssumption DEF Names, Kinds

(* Each output has one turn in a frame.                                    *)
LEMMA OneTurn ==
  ASSUME TypeOK, Sending
  PROVE  /\ cursor \in 1..Len(Outputs) /\ Here \in Names
         /\ Here = "udp" => ~Passed
BY OutputFacts, EngineAssumption DEF TypeOK, Sending, Here, Passed

LEMMA CopiesInRange ==
  ASSUME NEW key \in BOOLEAN
  PROVE  Copies(key) \subseteq 1..(Repeats * NodeCount)
<1>1. Repeats * NodeCount \in Nat /\ NodeCount \in Nat /\ NodeCount <= Repeats * NodeCount
  BY EngineAssumption
<1> QED
  BY <1>1 DEF Copies

LEMMA DatagramFields ==
  ASSUME NEW s, NEW c, NEW k, NEW f
  PROVE  /\ Datagram(s, c, k, f).seq = s /\ Datagram(s, c, k, f).copy = c
         /\ Datagram(s, c, k, f).key = k /\ Datagram(s, c, k, f).safe = f
BY DEF Datagram

LEMMA PartialCopies ==
  ASSUME NEW sent \in Partial, NEW d \in sent
  PROVE  \E c \in Copies(Key) : d = Datagram(seq, c, Key, Safe)
<1>1. PICK chosen \in (IF Safe THEN (SUBSET Copies(Key)) \ {Copies(Key)}
                            ELSE {1..p : p \in 0..(Cardinality(Copies(Key)) - 1)}) :
        sent = {Datagram(seq, c, Key, Safe) : c \in chosen}
  BY DEF Partial
<1>2. chosen \subseteq Copies(Key)
  <2>1. CASE Safe
    BY <1>1, <2>1
  <2>2. CASE ~Safe
    <3>1. PICK p \in 0..(Cardinality(Copies(Key)) - 1) : chosen = 1..p
      BY <1>1, <2>2
    <3>2. PICK n \in Nat : Copies(Key) = 1..n
      <4>1. Repeats * NodeCount \in Nat /\ NodeCount \in Nat
        BY EngineAssumption
      <4> QED
        BY <4>1 DEF Copies
    <3>3. Cardinality(1..n) = n
      <4>1. 1 \in Int /\ n \in Int
        OBVIOUS
      <4>2. Cardinality(1..n) = IF 1 > n THEN 0 ELSE n - 1 + 1
        BY <4>1, FS_Interval, Zenon
      <4> QED
        BY <4>2
    <3> QED
      BY <3>1, <3>2, <3>3
  <2> QED
    BY <2>1, <2>2
<1> QED
  BY <1>1, <1>2

(* What a step of send_all puts on the air is a copy of the present frame. *)
LEMMA NewOnAir ==
  ASSUME Send \/ SendFails \/ SendInterrupted, NEW d \in air', d \notin air
  PROVE  /\ Here = "udp" /\ ~Skipped(Here)
         /\ \E c \in Copies(Key) : d = Datagram(seq, c, Key, Safe)
BY PartialCopies DEF Send, SendFails, SendInterrupted

----------------------------------------------------------------------------
(* The initial state, and what the steps preserve                          *)

LEMMA InitIInv == Init => IInv
<1> SUFFICES ASSUME Init PROVE IInv
  OBVIOUS
<1>1. TypeOK
  <2>1. /\ 0 \in 0..(MaxFrames + 1) /\ 0 \in 0..MaxFrames /\ 0 \in 0..MaxRuns
        /\ 0 \in Time /\ 1 \in 1..(Len(Outputs) + 1)
    BY OutputFacts, EngineAssumption DEF Time
  <2>2. open \in [Names -> BOOLEAN] /\ healthy \in [Names -> BOOLEAN]
    BY DEF Init
  <2>3. air \in SUBSET [seq : 0..(MaxFrames + 1), copy : 1..(Repeats * NodeCount),
                        key : BOOLEAN, safe : BOOLEAN]
    BY DEF Init
  <2> QED
    BY <2>1, <2>2, <2>3, Zenon DEF Init, TypeOK
<1>2. Counting /\ Openness /\ Ending /\ Session /\ Ages /\ Timeline
  BY DEF Init, Counting, Openness, Ending, Session, Ages, Timeline
<1>3. SuccessMeansDelivered /\ KeyOpensSession /\ SafeIsNewest /\ EndsClosed /\ NoStateAcrossJump
  BY DEF Init, SuccessMeansDelivered, KeyOpensSession, SafeIsNewest, EndsClosed, Closed,
     NoStateAcrossJump
<1> QED
  BY <1>1, <1>2, <1>3 DEF IInv

LEMMA AirTyped ==
  ASSUME TypeOK, Send \/ SendFails \/ SendInterrupted
  PROVE  air' \in SUBSET [seq : 0..(MaxFrames + 1), copy : 1..(Repeats * NodeCount),
                          key : BOOLEAN, safe : BOOLEAN]
<1> SUFFICES ASSUME NEW d \in air', d \notin air
             PROVE  d \in [seq : 0..(MaxFrames + 1), copy : 1..(Repeats * NodeCount),
                           key : BOOLEAN, safe : BOOLEAN]
  BY DEF TypeOK
<1>1. PICK c \in Copies(Key) : d = Datagram(seq, c, Key, Safe)
  BY NewOnAir
<1>2. Key \in BOOLEAN /\ Safe \in BOOLEAN /\ seq \in 0..(MaxFrames + 1)
  BY DEF Key, Safe, TypeOK
<1>3. c \in 1..(Repeats * NodeCount)
  BY <1>2, CopiesInRange
<1> QED
  BY <1>1, <1>2, <1>3, Zenon DEF Datagram

LEMMA TypeStep ==
  ASSUME IInv, [Next]_vars
  PROVE  TypeOK'
<1> DEFINE OnAir == SUBSET [seq : 0..(MaxFrames + 1), copy : 1..(Repeats * NodeCount),
                            key : BOOLEAN, safe : BOOLEAN]
<1> TypeOK /\ Counting
  BY DEF IInv
<1>1. air \in OnAir /\ {} \in OnAir
  BY DEF TypeOK
<1> HIDE DEF OnAir
<1>2. ASSUME NEW t \in Time, Render(t) \/ RenderFails(t) \/ Backward(t) \/ Finish(t)
      PROVE  TypeOK'
  <2>1. air' \in OnAir
    BY <1>1, <1>2 DEF Render, RenderFails, Backward, Finish, history
  <2>2. SeenBefore(t) \in SUBSET Time /\ ShownBefore(t) \in Time \cup {NoTime}
    BY DEF SeenBefore, ShownBefore, TypeOK
  <2>3. seq' \in 0..(MaxFrames + 1)
    BY <1>2, EngineAssumption DEF Render, RenderFails, Backward, Finish, TypeOK, Counting
  <2> QED
    BY <1>2, <2>1, <2>2, <2>3, OutputFacts DEF Render, RenderFails, Backward, Finish, Leave, TypeOK,
       OnAir, history, clockVars
<1>3. CASE InitOutputs \/ BeginRun \/ BeginFails
  <2>1. air' \in OnAir
    BY <1>1, <1>3 DEF InitOutputs, BeginRun, BeginFails, ResetRun, OpenAll, OpenFails
  <2>2. open' \in [Names -> BOOLEAN] /\ needsKey' \in BOOLEAN
    BY <1>3 DEF InitOutputs, BeginRun, BeginFails, ResetRun, OpenAll, OpenFails, TypeOK
  <2>3. healthy' \in [Names -> BOOLEAN]
    BY <1>3 DEF InitOutputs, BeginRun, BeginFails, ResetRun, OpenAll, OpenFails, Opened, TypeOK
  <2>4. CASE InitOutputs
    BY <2>1, <2>2, <2>3, <2>4 DEF InitOutputs, TypeOK, OnAir, clockVars
  <2>5. CASE BeginRun \/ BeginFails
    <3>1. ResetRun
      BY <2>5 DEF BeginRun, BeginFails
    <3>2. /\ seq' \in 0..(MaxFrames + 1) /\ frames' \in 0..MaxFrames /\ runs' \in 0..MaxRuns
          /\ UNCHANGED <<cursor, last>>
      BY <3>1, EngineAssumption DEF ResetRun, TypeOK
    <3>3. /\ shown' \in Time \cup {NoTime} /\ seen' \in SUBSET Time
          /\ missed' \in SUBSET Names /\ blacked' \in SUBSET Names
      BY <3>1 DEF ResetRun
    <3>4. /\ pc' \in {"off", "loop", "send", "stop", "black"} /\ audio' \in BOOLEAN
          /\ outcome' \in {"none", "ok", "error", "unopened"} /\ stale' \in SUBSET Names
      BY <2>5 DEF BeginRun, BeginFails, TypeOK
    <3> QED
      BY <2>1, <2>2, <2>3, <3>2, <3>3, <3>4, Zenon DEF TypeOK, OnAir
  <2> QED
    BY <1>3, <2>4, <2>5
<1>4. CASE Interrupt
  BY <1>1, <1>4 DEF Interrupt, Leave, TypeOK, OnAir, clockVars
<1>5. CASE Send \/ SendFails \/ SendInterrupted \/ Skip
  <2>1. air' \in OnAir
    BY <1>1, <1>5, AirTyped DEF Skip, OnAir
  <2>2. cursor \in 1..Len(Outputs) /\ Here \in Names
    BY <1>5, OneTurn DEF Send, SendFails, SendInterrupted, Skip
  <2>3. cursor' \in 1..(Len(Outputs) + 1) /\ pc' \in {"off", "loop", "send", "stop", "black"}
    BY <1>5, <2>2, OutputFacts DEF Send, SendFails, SendInterrupted, Skip, NextOutput, Failed,
       Leave, TypeOK
  <2>4. outcome' \in {"none", "ok", "error", "unopened"} /\ needsKey' \in BOOLEAN
        /\ healthy' \in [Names -> BOOLEAN]
    BY <1>5 DEF Send, SendFails, SendInterrupted, Skip, NextOutput, Failed, Leave, TypeOK
  <2>5. missed' \in SUBSET Names /\ blacked' \in SUBSET Names
    BY <1>5, <2>2 DEF Send, SendFails, SendInterrupted, Skip, NextOutput, Failed, Leave, TypeOK
  <2> QED
    BY <1>5, <2>1, <2>3, <2>4, <2>5 DEF Send, SendFails, SendInterrupted, Skip, TypeOK, OnAir,
       clockVars
<1>6. CASE Sent \/ MakeBlack \/ CloseAll
  <2>1. air' \in OnAir
    BY <1>1, <1>6 DEF Sent, MakeBlack, CloseAll, history
  <2>2. cursor' \in 1..(Len(Outputs) + 1)
    BY <1>6, OutputFacts DEF Sent, MakeBlack, CloseAll, TypeOK
  <2>3. open' \in [Names -> BOOLEAN]
    BY <1>6 DEF Sent, MakeBlack, CloseAll, TypeOK
  <2>4. seq' \in 0..(MaxFrames + 1) /\ frames' \in 0..MaxFrames
    BY <1>6, EngineAssumption DEF Sent, MakeBlack, CloseAll, TypeOK, Counting
  <2> QED
    BY <1>6, <2>1, <2>2, <2>3, <2>4 DEF Sent, MakeBlack, CloseAll, TypeOK, OnAir, history, clockVars
<1>7. CASE UNCHANGED vars
  BY <1>7 DEF vars, TypeOK, history, clockVars
<1> QED
  BY <1>2, <1>3, <1>4, <1>5, <1>6, <1>7 DEF Next

LEMMA CountingStep ==
  ASSUME IInv, [Next]_vars
  PROVE  Counting'
<1>1. CASE InitOutputs \/ BeginRun \/ BeginFails
  BY <1>1 DEF IInv, TypeOK, Counting, InitOutputs, BeginRun, BeginFails, ResetRun
<1>2. CASE \E t \in Time : Render(t) \/ RenderFails(t) \/ Backward(t) \/ Finish(t)
  BY <1>2, EngineAssumption DEF IInv, TypeOK, Counting, Render, RenderFails, Backward, Finish, Leave
<1>3. CASE Interrupt \/ SendInterrupted
  BY <1>3, EngineAssumption DEF IInv, TypeOK, Counting, Interrupt, SendInterrupted, Leave,
     Sending, Safe
<1>4. CASE Skip \/ Send \/ SendFails
  BY <1>4, EngineAssumption DEF IInv, TypeOK, Counting, Skip, Send, SendFails, NextOutput, Failed, Leave, Safe, Sending
<1>5. CASE Sent \/ MakeBlack \/ CloseAll
  BY <1>5, EngineAssumption DEF IInv, TypeOK, Counting, Sent, MakeBlack, CloseAll
<1>6. CASE UNCHANGED vars
  BY <1>6 DEF IInv, Counting, vars
<1> QED
  BY <1>1, <1>2, <1>3, <1>4, <1>5, <1>6 DEF Next

LEMMA TimelineStep ==
  ASSUME IInv, [Next]_vars
  PROVE  Timeline'
<1> USE DEF IInv, TypeOK, Timeline, clockVars
<1>1. CASE InitOutputs \/ BeginRun \/ BeginFails
  BY <1>1 DEF InitOutputs, BeginRun, BeginFails, ResetRun
<1>2. ASSUME NEW t \in Time, Render(t) \/ RenderFails(t) \/ Backward(t) \/ Finish(t)
      PROVE  Timeline'
  <2>1. CASE Render(t)
    BY <1>2, <2>1, EngineAssumption DEF Render, Time, NoTime
  <2>2. CASE RenderFails(t) \/ Finish(t)
    BY <2>2 DEF RenderFails, Finish, Leave, ShownBefore, SeenBefore
  <2>3. CASE Backward(t)
    BY <2>3 DEF Backward, Leave
  <2> QED
    BY <1>2, <2>1, <2>2, <2>3
<1>3. CASE Interrupt \/ SendInterrupted
  BY <1>3 DEF Interrupt, SendInterrupted, Leave
<1>4. CASE Skip \/ Send \/ SendFails
  BY <1>4 DEF Skip, Send, SendFails, NextOutput, Failed, Leave
<1>5. CASE Sent \/ MakeBlack \/ CloseAll
  BY <1>5 DEF Sent, MakeBlack, CloseAll
<1>6. CASE UNCHANGED vars
  BY <1>6 DEF vars
<1> QED
  BY <1>1, <1>2, <1>3, <1>4, <1>5, <1>6 DEF Next

LEMMA JumpStep ==
  ASSUME IInv, [Next]_vars
  PROVE  NoStateAcrossJump'
<1>1. CASE UNCHANGED <<shown, seen>>
  BY <1>1 DEF IInv, NoStateAcrossJump
<1>2. CASE seen' = {}
  BY <1>2 DEF NoStateAcrossJump
<1>3. ASSUME NEW t \in Time, Render(t)
      PROVE  NoStateAcrossJump'
  <2>1. CASE Jumps(t) \/ shown = NoTime
    <3>1. seen' = {t} /\ shown' = t
      BY <1>3, <2>1 DEF Render, SeenBefore, IInv, Timeline
    <3> QED
      BY <3>1 DEF NoStateAcrossJump, Time
  <2>2. CASE ~Jumps(t) /\ shown # NoTime
    <3>1. seen' = seen \cup {t} /\ shown' = t /\ shown \in seen /\ t >= shown
          /\ t - shown <= 2 * Period
      <4>1. pc = "loop" /\ last = shown /\ shown \in seen
        BY <1>3, <2>2 DEF Render, IInv, Timeline
      <4>2. seen' = seen \cup {t} /\ shown' = t /\ t >= shown
        BY <1>3, <2>2 DEF Render, SeenBefore, ShownBefore
      <4>3. t - last <= 2 * Period
        <5>1. t \in Int /\ last \in Int /\ Period \in Int
          BY EngineAssumption DEF IInv, TypeOK, Time
        <5> QED
          BY <5>1, <2>2 DEF Jumps
      <4> QED
        BY <4>1, <4>2, <4>3
    <3>2. seen \subseteq Nat /\ shown \in Nat /\ t \in Nat /\ Period \in Nat
      BY <2>2, EngineAssumption DEF IInv, TypeOK, Time
    <3>3. ASSUME NEW w \in seen
          PROVE  /\ w <= t
                 /\ (\A u \in seen' : w <= u) \/ \E u \in seen' : w - u \in 1..(2 * Period)
      <4>1. w <= shown
        BY DEF IInv, NoStateAcrossJump
      <4> QED
        BY <3>1, <3>2, <4>1 DEF IInv, NoStateAcrossJump
    <3>4. (\A u \in seen' : t <= u) \/ \E u \in seen' : t - u \in 1..(2 * Period)
      <4>1. CASE t = shown
        BY <3>1, <3>3, <4>1
      <4>2. CASE t # shown
        BY <3>1, <3>2, <4>2
      <4> QED
        BY <4>1, <4>2
    <3> QED
      BY <3>1, <3>2, <3>3, <3>4 DEF NoStateAcrossJump
  <2> QED
    BY <2>1, <2>2
<1>4. UNCHANGED <<shown, seen>> \/ seen' = {} \/ \E t \in Time : Render(t)
  BY DEF Next, vars, clockVars, InitOutputs, BeginRun, BeginFails, ResetRun, RenderFails, Backward,
     Finish, ShownBefore, SeenBefore, Interrupt, Skip, Send, SendFails, SendInterrupted, Sent,
     MakeBlack, CloseAll
<1> QED
  BY <1>1, <1>2, <1>3, <1>4

LEMMA OpennessStep ==
  ASSUME IInv, [Next]_vars
  PROVE  Openness'
<1> USE DEF IInv, TypeOK, Openness
<1>1. CASE InitOutputs
  <2>1. CASE OpenAll
    BY <1>1, <2>1, OutputFacts DEF InitOutputs, OpenAll, Opened, Closed, Kinds
  <2>2. CASE OpenFails
    BY <1>1, <2>2, OutputFacts DEF InitOutputs, OpenFails, Closed
  <2> QED
    BY <1>1, <2>1, <2>2 DEF InitOutputs
<1>2. CASE BeginRun
  BY <1>2, OutputFacts DEF BeginRun, ResetRun, OpenAll, Opened, Closed, Kinds
<1>3. CASE BeginFails
  BY <1>3, OutputFacts DEF BeginFails, ResetRun, OpenFails, Closed
<1>4. CASE \E t \in Time : Render(t) \/ RenderFails(t) \/ Backward(t) \/ Finish(t)
  BY <1>4 DEF Render, RenderFails, Backward, Finish, Leave
<1>5. CASE Interrupt \/ SendInterrupted
  BY <1>5 DEF Interrupt, SendInterrupted, Leave, Sending
<1>6. CASE Skip \/ Send
  BY <1>6 DEF Skip, Send, NextOutput
<1>7. CASE SendFails
  BY <1>7 DEF SendFails, Failed, NextOutput, Leave, Sending, Safe
<1>8. CASE Sent \/ MakeBlack \/ CloseAll
  BY <1>8 DEF Sent, MakeBlack, CloseAll
<1>9. CASE UNCHANGED vars
  BY <1>9 DEF vars
<1> QED
  BY <1>1, <1>2, <1>3, <1>4, <1>5, <1>6, <1>7, <1>8, <1>9 DEF Next

LEMMA EndingStep ==
  ASSUME IInv, [Next]_vars
  PROVE  Ending' /\ SuccessMeansDelivered'
<1> USE DEF IInv, TypeOK, Ending, SuccessMeansDelivered, history
<1>1. CASE InitOutputs
  BY <1>1 DEF InitOutputs
<1>2. CASE BeginRun
  BY <1>2 DEF BeginRun, ResetRun
<1>3. CASE BeginFails
  BY <1>3 DEF BeginFails, ResetRun
<1>4. CASE \E t \in Time : Render(t) \/ RenderFails(t) \/ Backward(t) \/ Finish(t)
  BY <1>4 DEF Render, RenderFails, Backward, Finish, Leave
<1>5. CASE Interrupt
  BY <1>5 DEF Interrupt, Leave
<1>6. CASE SendInterrupted
  BY <1>6 DEF SendInterrupted, Leave, Sending, Safe
<1>7. CASE Skip
  BY <1>7, OneTurn DEF Skip, NextOutput, Skipped, Sending, Safe
<1>8. CASE Send
  BY <1>8, OneTurn DEF Send, NextOutput, Sending, Safe, Here
<1>9. CASE SendFails
  BY <1>9, OneTurn DEF SendFails, Failed, NextOutput, Leave, Sending, Safe, Here
<1>10. CASE Sent
  BY <1>10 DEF Sent
<1>11. CASE MakeBlack \/ CloseAll
  BY <1>11 DEF MakeBlack, CloseAll
<1>12. CASE UNCHANGED vars
  BY <1>12 DEF vars
<1> QED
  BY <1>1, <1>2, <1>3, <1>4, <1>5, <1>6, <1>7, <1>8, <1>9, <1>10, <1>11, <1>12 DEF Next

LEMMA ClosedStep ==
  ASSUME IInv, [Next]_vars
  PROVE  EndsClosed'
<1> USE DEF IInv, EndsClosed
<1>1. CASE InitOutputs
  BY <1>1 DEF InitOutputs, OpenAll, OpenFails, Closed
<1>2. CASE BeginFails
  BY <1>2 DEF BeginFails, ResetRun, OpenFails, Closed
<1>3. CASE CloseAll
  <2>1. Closed' = Names /\ ~audio'
    BY <1>3 DEF CloseAll, Closed
  <2>2. blacked' = Names
    <3>1. blacked' = blacked /\ pc = "black" /\ cursor > Len(Outputs)
      BY <1>3 DEF CloseAll, history
    <3>2. \A i \in 1..Len(Outputs) : Outputs[i] \in blacked
      BY <3>1, OutputFacts DEF Ending, TypeOK
    <3>3. Names \subseteq blacked /\ blacked \subseteq Names
      BY <3>2, OutputFacts DEF TypeOK
    <3> QED
      BY <3>1, <3>3
  <2> QED
    BY <2>1, <2>2
<1>4. CASE UNCHANGED vars
  BY <1>4 DEF vars, Closed, history
<1>5. InitOutputs \/ BeginFails \/ CloseAll \/ UNCHANGED vars \/ pc' # "off"
  BY DEF Next, BeginRun, Render, RenderFails, Backward, Finish, Interrupt, Skip, Send, SendFails,
     SendInterrupted, Sent, MakeBlack, NextOutput, Failed, Leave, Sending
<1> QED
  BY <1>1, <1>2, <1>3, <1>4, <1>5

LEMMA Turns ==
  ASSUME TypeOK
  PROVE  /\ cursor = 1 => ~Passed
         /\ cursor > Len(Outputs) /\ "udp" \in Names => Passed
         /\ NextOutput => (Passed' <=> Passed \/ Here = "udp")
<1>1. cursor \in Nat /\ cursor >= 1
  BY OutputFacts DEF TypeOK
<1>2. cursor > Len(Outputs) /\ "udp" \in Names => Passed
  BY <1>1, OutputFacts DEF Passed
<1>3. ASSUME NextOutput
      PROVE  Passed' <=> Passed \/ Here = "udp"
  <2>1. cursor' = cursor + 1
    BY <1>3 DEF NextOutput
  <2>2. 1..(cursor' - 1) = 1..(cursor - 1) \cup {cursor}
    BY <1>1, <2>1
  <2> QED
    BY <2>2 DEF Passed, Here
<1> QED
  BY <1>1, <1>2, <1>3 DEF Passed

LEMMA SessionStep ==
  ASSUME IInv, [Next]_vars
  PROVE  Session'
<1>1. CASE "udp" \notin Names
  <2>1. air = {}
    BY <1>1 DEF IInv, Session
  <2>2. Sending => Here # "udp"
    BY <1>1, OneTurn DEF IInv
  <2>3. air' = {}
    BY <2>1, <2>2, NewOnAir DEF Next, vars, history, InitOutputs, BeginRun, BeginFails, OpenAll,
       OpenFails, Render, RenderFails, Backward, Finish, Interrupt, Skip, Send, SendFails,
       SendInterrupted, Sent, MakeBlack, CloseAll
  <2> QED
    BY <1>1, <2>3 DEF Session
<1>2. CASE "udp" \in Names
  <2> USE <1>2 DEF IInv, Session, clockVars, history
  <2>1. CASE InitOutputs \/ BeginFails
    BY <2>1 DEF InitOutputs, BeginFails, ResetRun, OpenAll, OpenFails, Closed, TypeOK
  <2>2. CASE BeginRun
    BY <2>2 DEF BeginRun, ResetRun, OpenAll, Closed
  <2>3. ASSUME NEW t \in Time, Render(t)
        PROVE  Session'
    <3>1. seq \in Nat /\ seq' = seq + 1 /\ pc = "loop" /\ pc' = "send" /\ UNCHANGED <<needsKey, air>>
      BY <2>3, EngineAssumption DEF Render, TypeOK
    <3>2. Passed' = FALSE
      BY <2>3 DEF Render, Passed
    <3>3. KeySent' <=> KeySent
      BY <3>1 DEF KeySent
    <3> QED
      BY <3>1, <3>2, <3>3
  <2>4. ASSUME NEW t \in Time, RenderFails(t) \/ Backward(t) \/ Finish(t)
        PROVE  Session'
    <3>1. seq \in Nat /\ seq' \in {seq, seq + 1} /\ pc = "loop" /\ pc' = "stop" /\ UNCHANGED needsKey
      BY <2>4, EngineAssumption DEF RenderFails, Backward, Finish, Leave, TypeOK
    <3> QED
      BY <3>1
  <2>5. CASE Interrupt
    BY <2>5 DEF Interrupt, Leave
  <2>6. CASE SendInterrupted
    BY <2>6, EngineAssumption DEF SendInterrupted, Leave, Sending, Safe, Counting, TypeOK
  <2>7. CASE Skip
    <3>1. pc = "send" /\ Here # "udp"
      BY <2>7, OneTurn DEF Skip, Skipped, Sending, Safe, Openness
    <3>2. (Passed' <=> Passed) /\ UNCHANGED <<pc, seq, needsKey, air>>
      BY <2>7, <3>1, Turns DEF Skip, NextOutput
    <3> QED
      BY <3>1, <3>2 DEF KeySent
  <2>8. CASE Send
    <3>1. Sending /\ UNCHANGED <<pc, seq>> /\ (Passed' <=> Passed \/ Here = "udp")
      BY <2>8, Turns DEF Send, NextOutput
    <3>2. CASE Here # "udp"
      BY <2>8, <3>1, <3>2 DEF Send, Sending, KeySent
    <3>3. CASE Here = "udp"
      <4>1. ~Passed /\ Passed' /\ needsKey' = (needsKey /\ ~Key) /\ air \subseteq air'
        BY <2>8, <3>1, <3>3, OneTurn DEF Send
      <4>2. CASE pc = "black"
        BY <3>1, <4>1, <4>2
      <4>3. CASE pc = "send"
        <5>1. Safe = FALSE /\ (needsKey <=> seq = 1) /\ needsKey' = FALSE
          BY <4>1, <4>3 DEF Safe, Key, TypeOK
        <5>2. KeySent'
          <6>1. CASE needsKey
            <7>1. Key = TRUE /\ seq = 1
              BY <5>1, <6>1 DEF Key
            <7>2. \A c \in Copies(TRUE) : Datagram(1, c, TRUE, FALSE) \in air'
              BY <2>8, <3>3, <5>1, <7>1 DEF Send
            <7> QED
              BY <7>2 DEF KeySent
          <6>2. CASE ~needsKey
            BY <4>1, <4>3, <6>2 DEF KeySent
          <6> QED
            BY <6>1, <6>2
        <5> QED
          BY <3>1, <4>1, <4>3, <5>1, <5>2
      <4> QED
        BY <3>1, <4>2, <4>3 DEF Sending
    <3> QED
      BY <3>2, <3>3
  <2>9. CASE SendFails
    <3>1. UNCHANGED <<seq, needsKey>>
      BY <2>9 DEF SendFails
    <3>2. CASE pc = "black"
      <4>1. pc' = "black" /\ (Passed' <=> Passed \/ Here = "udp")
        BY <2>9, <3>2, Turns DEF SendFails, Failed, NextOutput, Safe
      <4> QED
        BY <3>1, <3>2, <4>1
    <3>3. CASE pc = "send"
      <4>1. pc' = "stop" /\ seq # 0
        BY <2>9, <3>3, EngineAssumption DEF SendFails, Failed, Leave, Safe, Counting, TypeOK
      <4> QED
        BY <3>1, <4>1
    <3> QED
      BY <2>9, <3>2, <3>3 DEF SendFails, Sending
  <2>10. CASE Sent
    <3>1. Passed
      BY <2>10, Turns DEF Sent
    <3>2. seq # 0 /\ pc = "send" /\ pc' = "loop" /\ UNCHANGED <<seq, needsKey, air>>
      BY <2>10, EngineAssumption DEF Sent, Counting, TypeOK
    <3> QED
      BY <3>1, <3>2 DEF KeySent
  <2>11. CASE MakeBlack
    <3>1. seq \in Nat /\ seq' = seq + 1 /\ pc = "stop" /\ pc' = "black" /\ UNCHANGED needsKey
      BY <2>11, EngineAssumption DEF MakeBlack, TypeOK
    <3> QED
      BY <3>1
  <2>12. CASE CloseAll
    BY <2>12 DEF CloseAll
  <2>13. CASE UNCHANGED vars
    BY <2>13 DEF vars, Passed, KeySent
  <2> QED
    BY <2>1, <2>2, <2>3, <2>4, <2>5, <2>6, <2>7, <2>8, <2>9, <2>10, <2>11, <2>12, <2>13 DEF Next
<1> QED
  BY <1>1, <1>2

LEMMA AgesStep ==
  ASSUME IInv, [Next]_vars
  PROVE  Ages' /\ SafeIsNewest'
<1> USE DEF IInv, TypeOK, Ages, SafeIsNewest, clockVars, history
<1>1. CASE InitOutputs \/ BeginFails
  BY <1>1 DEF InitOutputs, BeginFails, ResetRun, OpenAll, OpenFails
<1>2. CASE BeginRun
  BY <1>2 DEF BeginRun, ResetRun, OpenAll, Session, Openness, Closed
<1>3. CASE \E t \in Time : Render(t) \/ RenderFails(t) \/ Backward(t) \/ Finish(t)
  BY <1>3 DEF Render, RenderFails, Backward, Finish, Leave
<1>4. CASE Interrupt
  BY <1>4 DEF Interrupt, Leave
<1>5. CASE Send \/ SendFails \/ SendInterrupted
  <2>1. \A d \in air' : d \in air \/ (d.seq = seq /\ d.safe = Safe)
    BY <1>5, NewOnAir, DatagramFields
  <2>2. UNCHANGED seq
    BY <1>5 DEF Send, SendFails, SendInterrupted
  <2>3. \/ pc = "send" /\ pc' \in {"send", "stop"} /\ Safe = FALSE
        \/ pc = "black" /\ pc' = "black" /\ Safe = TRUE
    BY <1>5 DEF Send, SendFails, SendInterrupted, NextOutput, Failed, Leave, Sending, Safe
  <2> QED
    BY <2>1, <2>2, <2>3
<1>6. CASE Skip
  BY <1>6 DEF Skip, NextOutput
<1>7. CASE Sent \/ MakeBlack \/ CloseAll
  BY <1>7 DEF Sent, MakeBlack, CloseAll
<1>8. CASE UNCHANGED vars
  BY <1>8 DEF vars
<1> QED
  BY <1>1, <1>2, <1>3, <1>4, <1>5, <1>6, <1>7, <1>8 DEF Next

LEMMA KeyStep ==
  ASSUME IInv, [Next]_vars
  PROVE  KeyOpensSession'
<1>1. CASE air' = air
  BY <1>1 DEF IInv, KeyOpensSession
<1>2. CASE air' = {}
  BY <1>2 DEF KeyOpensSession
<1>3. CASE Send \/ SendFails \/ SendInterrupted
  <2>1. air \subseteq air'
    BY <1>3 DEF Send, SendFails, SendInterrupted, clockVars, history
  <2> SUFFICES ASSUME NEW d \in air', d \notin air
               PROVE  /\ d.key <=> d.seq = 1
                      /\ ~d.key /\ ~d.safe
                           => \A c \in Copies(TRUE) : Datagram(1, c, TRUE, FALSE) \in air
    BY <2>1 DEF IInv, KeyOpensSession
  <2>2. Here = "udp" /\ d.key = Key /\ d.seq = seq /\ d.safe = Safe
    BY <1>3, NewOnAir, DatagramFields
  <2>3. Sending /\ ~Passed /\ "udp" \in Names
    BY <1>3, <2>2, OneTurn DEF IInv, Send, SendFails, SendInterrupted
  <2>4. seq = 1 => needsKey
    BY <2>3 DEF IInv, Session, Sending
  <2>5. ~Key /\ ~Safe => KeySent
    BY <2>3, <2>4 DEF IInv, Session, Sending, Safe, Key
  <2> QED
    BY <2>2, <2>4, <2>5 DEF Key, KeySent
<1>4. air' = air \/ air' = {} \/ Send \/ SendFails \/ SendInterrupted
  BY DEF Next, vars, history, InitOutputs, BeginRun, BeginFails, OpenAll, OpenFails, Render,
     RenderFails, Backward, Finish, Interrupt, Skip, Sent, MakeBlack, CloseAll
<1> QED
  BY <1>1, <1>2, <1>3, <1>4

----------------------------------------------------------------------------
(* The theorems                                                            *)

LEMMA IInvHolds == Spec => []IInv
<1>1. IInv /\ [Next]_vars => IInv'
  BY TypeStep, CountingStep, OpennessStep, EndingStep, SessionStep, AgesStep, TimelineStep,
     KeyStep, ClosedStep, JumpStep DEF IInv
<1> QED
  BY <1>1, InitIInv, PTL DEF Spec

(* Every variable of the engine keeps its type; the sequence of a run      *)
(* counts its frames and the one SAFE frame.                               *)
THEOREM TypeCorrect == Spec => []TypeOK
<1>1. IInv => TypeOK
  BY DEF IInv
<1> QED
  BY <1>1, IInvHolds, PTL

(* run() returns without an error only if every output that was healthy    *)
(* when it began was given each frame.                                     *)
THEOREM SuccessIsDelivery == Spec => []SuccessMeansDelivered
<1>1. IInv => SuccessMeansDelivered
  BY DEF IInv
<1> QED
  BY <1>1, IInvHolds, PTL

(* Whatever fails or is interrupted, exactly the first frame of a UDP      *)
(* session carries the KEY, and no frame continues a session whose KEY was *)
(* not sent to every node in every round.                                  *)
THEOREM SessionsOpenWithKey == Spec => []KeyOpensSession
<1>1. IInv => KeyOpensSession
  BY DEF IInv
<1> QED
  BY <1>1, IInvHolds, PTL

(* The SAFE frame of the shutdown is newer than every frame of its session.*)
THEOREM SafeFramesNewest == Spec => []SafeIsNewest
<1>1. IInv => SafeIsNewest
  BY DEF IInv
<1> QED
  BY <1>1, IInvHolds, PTL

(* Every way out of run() offers the SAFE frame to every output and leaves *)
(* everything closed; a failed opening is rolled back.                     *)
THEOREM RunsEndClosed == Spec => []EndsClosed
<1>1. IInv => EndsClosed
  BY DEF IInv
<1> QED
  BY <1>1, IInvHolds, PTL

(* No show runtime is carried over a jump of the media or turned back.     *)
THEOREM StateIsContiguous == Spec => []NoStateAcrossJump
<1>1. IInv => NoStateAcrossJump
  BY DEF IInv
<1> QED
  BY <1>1, IInvHolds, PTL
=============================================================================
