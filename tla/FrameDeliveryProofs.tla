------------------------ MODULE FrameDeliveryProofs ------------------------
(* Theorems about FrameDelivery: what an accepted profile promises, that the
   newest frame is shown once it has arrived, that the host's receiver agrees
   with the node, and that every LED shows the pixel the profile puts there,
   for any profiles, headers and number of frames. *)
EXTENDS FrameDelivery, FiniteSetTheorems, TLAPS

-----------------------------------------------------------------------------
(* The outputs of a node in their order *)

Orders(s, S) ==
    /\ s \in [1..Cardinality(S) -> S]
    /\ \A i, j \in DOMAIN s : i < j => s[i].output < s[j].output

(* One, two or three outputs with different ids have an order. *)
LEMMA SomeOrder ==
    ASSUME NEW S, IsFiniteSet(S), Cardinality(S) \in 1..3,
           Distinct(S, "output"), \A o \in S : o.output \in Int
    PROVE  \E s : Orders(s, S)
<1> DEFINE n == Cardinality(S)
<1>1. PICK f \in [1..n -> S] : \A i, j \in 1..n : i # j => f[i] # f[j]
  BY FS_CardinalityType DEF ExistsBijection, Bijection, Injection, IsInjective
<1> DEFINE g == [i \in 1..n |-> f[i].output]
<1>2. \A i, j \in 1..n : i # j => g[i] # g[j]
  BY <1>1 DEF Distinct
<1>3. \A i \in 1..n : g[i] \in Int
  BY <1>1
<1> HIDE DEF g
<1>4. ASSUME NEW p \in [1..n -> 1..n], \A i, j \in 1..n : i < j => g[p[i]] < g[p[j]]
      PROVE  \E s : Orders(s, S)
  <2> DEFINE s == [i \in 1..n |-> f[p[i]]]
  <2>1. Orders(s, S)
    BY <1>1, <1>4 DEF Orders, g
  <2> QED
    BY <2>1
<1>5. \E p \in [1..n -> 1..n] : \A i, j \in 1..n : i < j => g[p[i]] < g[p[j]]
  <2>1. CASE n = 1
    <3> WITNESS [i \in 1..n |-> i] \in [1..n -> 1..n]
    <3> QED
      BY <2>1
  <2>2. CASE n = 2
    <3>1. CASE g[1] < g[2]
      <4> WITNESS [i \in 1..n |-> i] \in [1..n -> 1..n]
      <4> QED
        BY <2>2, <3>1
    <3>2. CASE g[2] < g[1]
      <4>1. [i \in 1..n |-> 3 - i] \in [1..n -> 1..n]
        BY <2>2
      <4> WITNESS [i \in 1..n |-> 3 - i] \in [1..n -> 1..n]
      <4> QED
        BY <2>2, <3>2
    <3> QED
      BY <1>2, <1>3, <2>2, <3>1, <3>2
  <2>3. CASE n = 3
    <3> DEFINE P(a, b, c) == [i \in 1..n |-> IF i = 1 THEN a ELSE IF i = 2 THEN b ELSE c]
    <3>1. ASSUME NEW a \in 1..n, NEW b \in 1..n, NEW c \in 1..n, g[a] < g[b], g[b] < g[c]
          PROVE  \E p \in [1..n -> 1..n] : \A i, j \in 1..n : i < j => g[p[i]] < g[p[j]]
      <4>1. P(a, b, c) \in [1..n -> 1..n]
        BY <3>1
      <4> WITNESS P(a, b, c) \in [1..n -> 1..n]
      <4> QED
        BY <1>3, <2>3, <3>1
    <3>2. 1 \in 1..n /\ 2 \in 1..n /\ 3 \in 1..n
      BY <2>3
    <3>3. \E a, b, c \in 1..n : g[a] < g[b] /\ g[b] < g[c]
      BY <1>2, <1>3, <3>2
    <3> QED
      BY <3>1, <3>3
  <2> QED
    BY <2>1, <2>2, <2>3
<1> QED
  BY <1>4, <1>5

(* It has each of them once. *)
LEMMA OrderIsWhole ==
    ASSUME NEW S, IsFiniteSet(S), NEW s, Orders(s, S), \A o \in S : o.output \in Int
    PROVE  /\ \A o \in S : \E i \in DOMAIN s : s[i] = o
           /\ \A i, j \in DOMAIN s : s[i].output = s[j].output => i = j
<1>1. Cardinality(S) \in Nat
  BY FS_CardinalityType
<1>2. s \in [1..Cardinality(S) -> S] /\ \A i, j \in 1..Cardinality(S) : i < j => s[i].output < s[j].output
  BY DEF Orders
<1>3. \A i, j \in DOMAIN s : s[i].output = s[j].output => i = j
  BY <1>1, <1>2
<1>4. s \in Injection(1..Cardinality(S), S)
  BY <1>2, <1>3 DEF Injection, IsInjective
<1>5. IsFiniteSet(1..Cardinality(S)) /\ Cardinality(1..Cardinality(S)) = Cardinality(S)
  BY <1>1, FS_Interval
<1>6. s \in Surjection(1..Cardinality(S), S)
  BY <1>4, <1>5, FS_Injection
<1> QED
  BY <1>2, <1>3, <1>6 DEF Surjection

-----------------------------------------------------------------------------
(* Frames of a layout *)

LEMMA ListDomain == ASSUME NEW s, IsList(s) PROVE Len(s) \in Nat /\ DOMAIN s = 1..Len(s)
  BY DEF IsList

LEMMA ListHead == ASSUME NEW s, IsList(s), s # <<>> PROVE 1 \in DOMAIN s
<1>1. s \in Seq(ToSet(s))
  BY DEF IsList
<1>2. Len(s) # 0
  BY <1>1
<1> QED
  BY <1>1, <1>2

LEMMA EachList ==
    ASSUME NEW s, NEW field, NEW n \in Nat, DOMAIN s = 1..n
    PROVE  IsList(Each(s, field))
<1> DEFINE e == Each(s, field)
<1>1. e = [i \in 1..n |-> s[i][field]]
  BY DEF Each
<1>2. e = [i \in 1..n |-> e[i]] /\ \A i \in 1..n : e[i] \in ToSet(e)
  BY <1>1 DEF ToSet
<1> HIDE DEF e
<1>3. e \in Seq(ToSet(e))
  BY <1>2
<1> QED
  BY <1>3 DEF IsList, e

(* A strip has the length it was given. *)
LEMMA StripLength ==
    ASSUME NEW p \in Profiles, Accepted(p), NEW strip \in StripIds(p)
    PROVE  LengthOf(p, strip) \in Nat \ {0} /\ (\E i \in DOMAIN p.strips : LengthOf(p, strip) = p.strips[i].pixels)
<1>1. Parsed(p) /\ IsList(p.strips) /\ (\A i \in DOMAIN p.strips : p.strips[i].pixels >= 1)
  BY ProfilesAssumption DEF Parsed, Accepted
<1>2. \E s \in ToSet(p.strips) : s.id = strip
  BY DEF StripIds, ToSet, Each
<1> DEFINE chosen == CHOOSE s \in ToSet(p.strips) : s.id = strip
<1>3. chosen \in ToSet(p.strips)
  BY <1>2
<1>4. PICK i \in DOMAIN p.strips : chosen = p.strips[i]
  BY <1>3 DEF ToSet
<1>5. chosen.pixels \in Int
  BY <1>1, <1>3 DEF Parsed
<1>6. chosen.pixels >= 1 /\ LengthOf(p, strip) = chosen.pixels
  BY <1>1, <1>4 DEF LengthOf
<1> HIDE DEF chosen
<1> QED
  BY <1>4, <1>5, <1>6

(* Where a reversed list has its k-th element from. *)
Turned(k, count, direction) == IF direction = "reverse" THEN count + 1 - k ELSE k

LEMMA FlipKnown ==
    ASSUME NEW s, IsList(s), NEW direction
    PROVE  /\ IsList(Flip(s, direction)) /\ Len(Flip(s, direction)) = Len(s)
           /\ \A k \in 1..Len(s) :
                 /\ Turned(k, Len(s), direction) \in 1..Len(s)
                 /\ Flip(s, direction)[k] = s[Turned(k, Len(s), direction)]
<1> DEFINE n == Len(s)
<1> DEFINE r == [k \in 1..n |-> s[(n - k) + 1]]
<1>1. n \in Nat /\ \A i \in 1..n : s[i] \in ToSet(s)
  BY ListDomain DEF ToSet
<1>2. \A k \in 1..n : (n - k) + 1 \in 1..n /\ (n - k) + 1 = n + 1 - k
  BY <1>1
<1>3. Reverse(s) = r
  BY DEF Reverse
<1>4. r = [k \in 1..n |-> r[k]] /\ \A k \in 1..n : r[k] \in ToSet(r) /\ r[k] = s[(n - k) + 1]
  BY DEF ToSet
<1> HIDE DEF n, r
<1>5. r \in Seq(ToSet(r)) /\ Len(r) = n
  BY <1>1, <1>4
<1>6. IsList(r) /\ Len(r) = n /\ \A k \in 1..n : n + 1 - k \in 1..n /\ r[k] = s[n + 1 - k]
  BY <1>2, <1>4, <1>5 DEF IsList
<1> QED
  BY <1>3, <1>6 DEF Flip, Turned, n

(* The layout keeps everything of an output but its length. *)
LEMMA LayoutOf ==
    ASSUME NEW p \in Profiles
    PROVE  /\ Layout(p).strips = p.strips /\ Layout(p).analog = LayoutAnalog(p)
           /\ Layout(p).nodes = LayoutNodes(p) /\ Layout(p).segments = LayoutSegments(p)
           /\ Layout(p).outputs = LayoutOutputs(p)
           /\ Layout(p).topology = p.topology /\ Layout(p).policy = p.policy /\ Layout(p).zones = p.zones
           /\ DOMAIN LayoutOutputs(p) = DOMAIN p.outputs
           /\ \A i \in DOMAIN p.outputs :
                 LET o == LayoutOutputs(p)[i]
                 IN  /\ o.node = p.outputs[i].node /\ o.output = p.outputs[i].output
                     /\ o.gpio = p.outputs[i].gpio /\ o.strip = p.outputs[i].strip
                     /\ o.direction = p.outputs[i].direction
<1>1. Parsed(p)
  BY ProfilesAssumption
<1> QED
  BY <1>1 DEF Parsed, Layout, LayoutOutputs

LEMMA FiniteMembers == ASSUME NEW s, IsList(s) PROVE IsFiniteSet(ToSet(s))
<1>1. [i \in DOMAIN s |-> s[i]] \in Surjection(DOMAIN s, ToSet(s))
  BY DEF Surjection, ToSet
<1>2. IsFiniteSet(DOMAIN s)
  BY ListDomain, FS_Interval
<1> QED
  BY <1>1, <1>2, FS_Surjection

LEMMA LastOfTwo ==
    ASSUME NEW a, NEW b, IsList(a), IsList(b), IsInjective(a \o b)
    PROVE  IsInjective(b)
<1>1. a \in Seq(ToSet(a)) /\ b \in Seq(ToSet(b))
  BY DEF IsList
<1>2. \A i \in DOMAIN b : Len(a) + i \in DOMAIN (a \o b) /\ (a \o b)[Len(a) + i] = b[i]
  BY <1>1
<1>3. Len(a) \in Nat /\ DOMAIN b \subseteq Nat
  BY <1>1
<1> DEFINE whole == a \o b
<1>4. IsInjective(whole)
  OBVIOUS
<1> HIDE DEF whole
<1>5. ASSUME NEW i \in DOMAIN b, NEW j \in DOMAIN b, b[i] = b[j]
      PROVE  i = j
  <2>1. Len(a) + i = Len(a) + j
    BY <1>2, <1>4, <1>5 DEF IsInjective, whole
  <2> QED
    BY <1>3, <2>1
<1> QED
  BY <1>5 DEF IsInjective

(* What the outputs of a node's frame are, and what the profile says of them. *)
Tidy(outputs, seq) ==
    /\ Len(outputs) \in 1..3 /\ DOMAIN outputs = 1..Len(outputs)
    /\ Apart(outputs, "output") /\ Apart(outputs, "gpio")
    /\ \A i \in DOMAIN outputs :
          LET pixels == outputs[i].pixels
          IN  /\ outputs[i].output \in Int /\ outputs[i].gpio \in Int
              /\ Len(pixels) \in Nat \ {0} /\ IsList(pixels)
              /\ \A k \in DOMAIN pixels : pixels[k][1] = seq

Lengths(outputs) ==
    {[output |-> outputs[i].output, gpio |-> outputs[i].gpio, pixels |-> Len(outputs[i].pixels)]
     : i \in DOMAIN outputs}
Promised(p, id) ==
    {[output |-> o.output, gpio |-> o.gpio, pixels |-> LengthOf(p, o.strip)] : o \in OutputsOf(p, id)}

(* The mapping allows a node with outputs one to three of them. *)
LEMMA OutputsAllowed ==
    ASSUME NEW p \in Profiles, Loads(p), NEW n \in ToSet(Layout(p).nodes), OutputsOf(p, n.node) # {}
    PROVE  LET here == OutputsOf(Layout(p), n.node)
           IN  /\ IsFiniteSet(here) /\ Cardinality(here) \in 1..3
               /\ Distinct(here, "output") /\ Distinct(here, "gpio")
               /\ \A o \in here : o.output \in Int /\ o.gpio \in Int /\ o.strip \in StripIds(p)
<1> DEFINE l == Layout(p)
<1> DEFINE here == OutputsOf(l, n.node)
<1>1. Parsed(p) /\ PhysicallyValid(l)
  BY ProfilesAssumption DEF Loads
<1>2. PICK i \in DOMAIN p.outputs : p.outputs[i].node = n.node
  BY DEF OutputsOf, ToSet
<1>3. l.outputs = LayoutOutputs(p) /\ DOMAIN l.outputs = DOMAIN p.outputs
  BY LayoutOf
<1>4. l.outputs # <<>>
  BY <1>2, <1>3
<1>5. IndependentOutputs(l)
  BY <1>1, <1>4 DEF PhysicallyValid
<1>6. PICK k \in DOMAIN l.nodes : l.nodes[k] = n
  BY DEF ToSet
<1>7. NodeOf(l, n.node) = n
  <2>1. IsList(p.analog) /\ IsList(p.nodes)
    BY <1>1 DEF Parsed
  <2>2. IsList(Each(l.nodes, "node"))
    <3>0. l.nodes = LayoutNodes(p)
      BY LayoutOf
    <3>1. CASE p.nodes # <<>>
      <4>1. DOMAIN l.nodes = DOMAIN p.nodes
        <5>1. l.nodes = [i_ \in DOMAIN p.nodes |-> LayoutNode(p, p.nodes[i_])]
          BY <3>0, <3>1 DEF LayoutNodes
        <5> QED
          BY <5>1
      <4> QED
        BY <2>1, <4>1, EachList, ListDomain
    <3>2. CASE p.nodes = <<>>
      <4>1. DOMAIN l.nodes = {} \/ DOMAIN l.nodes = 1..1
        <5>1. CASE p.strips = <<>>
          BY <3>0, <3>2, <5>1 DEF LayoutNodes
        <5>2. CASE p.strips # <<>>
          <6>1. \E x : LayoutNodes(p) = <<x>>
            BY <3>2, <5>2 DEF LayoutNodes
          <6> QED
            BY <3>0, <6>1
        <5> QED
          BY <5>1, <5>2
      <4>2. \E m \in Nat : DOMAIN l.nodes = 1..m
        <5>1. 1..0 = {}
          OBVIOUS
        <5> QED
          BY <4>1, <5>1
      <4> QED
        BY <4>2, EachList
    <3> QED
      BY <3>1, <3>2
  <2>3. IsList(Each(l.analog, "node"))
    <3>1. IsList(p.zones)
      BY <1>1 DEF Parsed
    <3>2. l.analog = p.analog \/ DOMAIN l.analog = DOMAIN p.zones
      BY LayoutOf DEF LayoutAnalog
    <3>3. \E m \in Nat : DOMAIN l.analog = 1..m
      BY <2>1, <3>1, <3>2, ListDomain
    <3> QED
      BY <3>3, EachList
  <2>4. IsInjective(Each(l.nodes, "node"))
    BY <1>1, <2>2, <2>3, LastOfTwo DEF PhysicallyValid
  <2>5. \A m \in ToSet(l.nodes) : m.node = n.node => m = n
    BY <1>6, <2>4 DEF IsInjective, Each, ToSet
  <2> QED
    BY <2>5 DEF NodeOf
<1>8. l.outputs[i].node = n.node
  BY <1>2, <1>3, LayoutOf
<1>9. n.version = 3
  BY <1>2, <1>3, <1>5, <1>7, <1>8 DEF IndependentOutputs
<1>10. /\ Cardinality(here) \in 1..3
       /\ Distinct(here, "output") /\ Distinct(here, "gpio")
  BY <1>5, <1>6, <1>9 DEF IndependentOutputs
<1>11. IsFiniteSet(here)
  <2>1. IsFiniteSet(DOMAIN l.outputs)
    BY <1>1, <1>3, ListDomain, FS_Interval DEF Parsed
  <2>2. [j \in DOMAIN l.outputs |-> l.outputs[j]] \in Surjection(DOMAIN l.outputs, ToSet(l.outputs))
    BY DEF Surjection, ToSet
  <2>3. IsFiniteSet(ToSet(l.outputs))
    BY <2>1, <2>2, FS_Surjection
  <2> QED
    BY <2>3, FS_Subset DEF OutputsOf
<1>12. ASSUME NEW o \in here
       PROVE  o.output \in Int /\ o.gpio \in Int /\ o.strip \in StripIds(p)
  <2>1. PICK j \in DOMAIN l.outputs : o = l.outputs[j]
    BY DEF OutputsOf, ToSet
  <2>2. o.output = p.outputs[j].output /\ o.gpio = p.outputs[j].gpio
    BY <1>3, <2>1, LayoutOf
  <2>3. p.outputs[j] \in ToSet(p.outputs)
    BY <1>3, <2>1 DEF ToSet
  <2>4. l.outputs[j].strip \in StripIds(l)
    BY <1>5, <2>1 DEF IndependentOutputs
  <2>5. StripIds(l) = StripIds(p)
    BY LayoutOf DEF StripIds
  <2> QED
    BY <1>1, <2>1, <2>2, <2>3, <2>4, <2>5 DEF Parsed
<1> QED
  BY <1>10, <1>11, <1>12

(* The pixels of a strip, in the direction of its output. *)
LEMMA StripPixels ==
    ASSUME NEW p \in Profiles, Accepted(p), NEW strip \in StripIds(p), NEW seq, NEW direction
    PROVE  LET pixels == Flip(Picture(p, seq)[strip], direction)
           IN  /\ IsList(pixels) /\ Len(pixels) = LengthOf(p, strip)
               /\ \A k \in DOMAIN pixels :
                     pixels[k] = <<seq, Place(p, strip, Turned(k, LengthOf(p, strip), direction))>>
<1> DEFINE n == LengthOf(p, strip)
<1> DEFINE s == Picture(p, seq)[strip]
<1> DEFINE flipped == Flip(s, direction)
<1>1. n \in Nat
  BY StripLength
<1>2. s = [i \in 1..n |-> <<seq, Place(p, strip, i)>>]
  BY DEF Picture
<1>3. s = [i \in 1..n |-> s[i]] /\ \A i \in 1..n : s[i] \in ToSet(s) /\ s[i] = <<seq, Place(p, strip, i)>>
  BY <1>2 DEF ToSet
<1> HIDE DEF s, n
<1>4. s \in Seq(ToSet(s)) /\ Len(s) = n
  BY <1>1, <1>3
<1>5. IsList(s)
  BY <1>4 DEF IsList
<1>6. /\ IsList(flipped) /\ Len(flipped) = n
      /\ \A k \in 1..n : Turned(k, n, direction) \in 1..n /\ flipped[k] = s[Turned(k, n, direction)]
  BY <1>4, <1>5, FlipKnown
<1> HIDE DEF flipped
<1>7. DOMAIN flipped = 1..n
  BY <1>6, ListDomain
<1>8. \A k \in DOMAIN flipped : flipped[k] = <<seq, Place(p, strip, Turned(k, n, direction))>>
  BY <1>3, <1>6, <1>7
<1> QED
  BY <1>6, <1>8 DEF s, n, flipped

(* The outputs of a node's frame: in the order of their ids, each with the *)
(* pixels of its strip in the direction of its wiring. *)
Pictured(outputs, p, id, seq) ==
    /\ \A i, j \in DOMAIN outputs : i < j => outputs[i].output < outputs[j].output
    /\ \A i \in DOMAIN outputs : \E o \in OutputsOf(p, id) :
          /\ outputs[i].output = o.output /\ o.strip \in StripIds(p)
          /\ Len(outputs[i].pixels) = LengthOf(p, o.strip)
          /\ \A k \in DOMAIN outputs[i].pixels :
                outputs[i].pixels[k] = <<seq, Place(p, o.strip, Turned(k, LengthOf(p, o.strip), o.direction))>>

LEMMA FrameOutputs ==
    ASSUME NEW p \in Profiles, Accepted(p), Loads(p), NEW seq,
           NEW n \in ToSet(Layout(p).nodes), OutputsOf(p, n.node) # {}
    PROVE  LET outputs == OutputFrames(Layout(p), n.node, Picture(p, seq))
           IN  /\ Tidy(outputs, seq) /\ Lengths(outputs) = Promised(p, n.node)
               /\ Pictured(outputs, p, n.node, seq)
<1> DEFINE here == OutputsOf(Layout(p), n.node)
<1> DEFINE sorted == CHOOSE s \in [1..Cardinality(here) -> here] :
                        \A i, j \in DOMAIN s : i < j => s[i].output < s[j].output
<1> DEFINE outputs == OutputFrames(Layout(p), n.node, Picture(p, seq))
<1>1. /\ IsFiniteSet(here) /\ Cardinality(here) \in 1..3
      /\ Distinct(here, "output") /\ Distinct(here, "gpio")
      /\ \A o \in here : o.output \in Int /\ o.gpio \in Int /\ o.strip \in StripIds(p)
  BY OutputsAllowed
<1>2. Orders(sorted, here)
  <2>1. \E s : Orders(s, here)
    BY <1>1, SomeOrder
  <2> QED
    BY <2>1 DEF Orders
<1>3. outputs = [i \in DOMAIN sorted |->
                    [output |-> sorted[i].output, gpio |-> sorted[i].gpio,
                     pixels |-> Flip(Picture(p, seq)[sorted[i].strip], sorted[i].direction)]]
  BY DEF OutputFrames
<1> HIDE DEF sorted, outputs
<1>4. /\ DOMAIN sorted = 1..Cardinality(here)
      /\ \A i \in DOMAIN sorted : sorted[i] \in here
      /\ \A o \in here : \E i \in DOMAIN sorted : sorted[i] = o
      /\ \A i, j \in DOMAIN sorted : sorted[i].output = sorted[j].output => i = j
      /\ \A i, j \in DOMAIN sorted : i < j => sorted[i].output < sorted[j].output
  BY <1>1, <1>2, OrderIsWhole DEF Orders
<1> HIDE DEF here
<1>5. DOMAIN outputs = 1..Len(outputs) /\ Len(outputs) \in 1..3 /\ DOMAIN outputs = DOMAIN sorted
  BY <1>1, <1>3, <1>4
<1>6. \A i, j \in DOMAIN outputs : outputs[i].output = outputs[j].output => i = j
  BY <1>3, <1>4, <1>5
<1>7. \A i, j \in DOMAIN outputs : outputs[i].gpio = outputs[j].gpio => i = j
  BY <1>1, <1>3, <1>4, <1>5 DEF Distinct
<1>8. ASSUME NEW i \in DOMAIN outputs
      PROVE  LET pixels == outputs[i].pixels
             IN  /\ outputs[i].output = sorted[i].output /\ outputs[i].gpio = sorted[i].gpio
                 /\ outputs[i].output \in Int /\ outputs[i].gpio \in Int
                 /\ Len(pixels) = LengthOf(p, sorted[i].strip)
                 /\ Len(pixels) \in Nat \ {0} /\ IsList(pixels)
                 /\ \A k \in DOMAIN pixels : pixels[k][1] = seq
                 /\ \A k \in DOMAIN pixels :
                       LET strip == sorted[i].strip
                       IN  pixels[k] = <<seq, Place(p, strip, Turned(k, LengthOf(p, strip), sorted[i].direction))>>
  <2>1. sorted[i].strip \in StripIds(p) /\ sorted[i].output \in Int /\ sorted[i].gpio \in Int
    BY <1>1, <1>4, <1>5
  <2>2. /\ outputs[i].output = sorted[i].output /\ outputs[i].gpio = sorted[i].gpio
        /\ outputs[i].pixels = Flip(Picture(p, seq)[sorted[i].strip], sorted[i].direction)
    BY <1>3, <1>5
  <2> DEFINE strip == sorted[i].strip
  <2>3. LengthOf(p, strip) \in Nat \ {0}
    BY <2>1, StripLength
  <2> DEFINE pixels == outputs[i].pixels
  <2>4. PICK direction : direction = sorted[i].direction
    OBVIOUS
  <2>5. /\ IsList(pixels) /\ Len(pixels) = LengthOf(p, strip)
        /\ \A k \in DOMAIN pixels : pixels[k] = <<seq, Place(p, strip, Turned(k, LengthOf(p, strip), direction))>>
    <3>1. pixels = Flip(Picture(p, seq)[strip], direction) /\ strip \in StripIds(p)
      BY <2>1, <2>2, <2>4
    <3> HIDE DEF strip, pixels
    <3> QED
      BY <3>1, StripPixels
  <2> QED
    BY <2>1, <2>2, <2>3, <2>4, <2>5
<1>9. Tidy(outputs, seq)
  BY <1>5, <1>6, <1>7, <1>8 DEF Tidy, Apart
<1>12. Pictured(outputs, p, n.node, seq)
  <2>1. \A i, j \in DOMAIN outputs : i < j => outputs[i].output < outputs[j].output
    BY <1>4, <1>5, <1>8
  <2>2. ASSUME NEW i \in DOMAIN outputs
        PROVE  \E o \in OutputsOf(p, n.node) :
                  /\ outputs[i].output = o.output /\ o.strip \in StripIds(p)
                  /\ Len(outputs[i].pixels) = LengthOf(p, o.strip)
                  /\ \A k \in DOMAIN outputs[i].pixels :
                        outputs[i].pixels[k] = <<seq, Place(p, o.strip, Turned(k, LengthOf(p, o.strip), o.direction))>>
    <3>1. sorted[i] \in here
      BY <1>4, <1>5
    <3>2. PICK j \in DOMAIN p.outputs : sorted[i] = LayoutOutputs(p)[j] /\ sorted[i].node = n.node
      BY <3>1, LayoutOf DEF here, OutputsOf, ToSet
    <3>3. /\ p.outputs[j].node = n.node /\ p.outputs[j].output = sorted[i].output
          /\ p.outputs[j].strip = sorted[i].strip /\ p.outputs[j].direction = sorted[i].direction
      BY <3>2, LayoutOf
    <3>4. p.outputs[j] \in OutputsOf(p, n.node)
      BY <3>3 DEF OutputsOf, ToSet
    <3>5. sorted[i].strip \in StripIds(p)
      BY <1>1, <3>1
    <3> QED
      BY <1>8, <3>3, <3>4, <3>5
  <2> QED
    BY <2>1, <2>2 DEF Pictured
<1>10. Lengths(outputs) = {[output |-> o.output, gpio |-> o.gpio, pixels |-> LengthOf(p, o.strip)] : o \in here}
  <2> DEFINE Of(o) == [output |-> o.output, gpio |-> o.gpio, pixels |-> LengthOf(p, o.strip)]
  <2>1. \A i \in DOMAIN outputs :
           [output |-> outputs[i].output, gpio |-> outputs[i].gpio, pixels |-> Len(outputs[i].pixels)] = Of(sorted[i])
    BY <1>8
  <2> HIDE DEF Of
  <2>2. Lengths(outputs) = {Of(sorted[i]) : i \in DOMAIN outputs}
    BY <2>1 DEF Lengths
  <2>3. {Of(sorted[i]) : i \in DOMAIN outputs} = {Of(o) : o \in here}
    <3>1. /\ \A i \in DOMAIN outputs : sorted[i] \in here
          /\ \A o \in here : \E i \in DOMAIN outputs : sorted[i] = o
      BY ONLY Zenon, <1>4, <1>5
    <3> QED
      BY ONLY <3>1
  <2> QED
    BY <2>2, <2>3 DEF Of
<1>11. {[output |-> o.output, gpio |-> o.gpio, pixels |-> LengthOf(p, o.strip)] : o \in here} = Promised(p, n.node)
  <2> DEFINE Of(o) == [output |-> o.output, gpio |-> o.gpio, pixels |-> LengthOf(p, o.strip)]
  <2> DEFINE lo == LayoutOutputs(p)
  <2> DEFINE D == DOMAIN p.outputs
  <2>1. here = {o \in {lo[i] : i \in D} : o.node = n.node}
    BY LayoutOf DEF here, OutputsOf, ToSet
  <2>2. \A i \in D : lo[i].node = p.outputs[i].node /\ Of(lo[i]) = Of(p.outputs[i])
    BY LayoutOf
  <2>3. OutputsOf(p, n.node) = {o \in {p.outputs[i] : i \in D} : o.node = n.node}
    BY DEF OutputsOf, ToSet
  <2> HIDE DEF Of, lo, D
  <2>4. {Of(o) : o \in here} = {Of(o) : o \in OutputsOf(p, n.node)}
    BY <2>1, <2>2, <2>3
  <2> QED
    BY <2>4 DEF Of, Promised
<1> QED
  BY <1>9, <1>10, <1>11, <1>12 DEF outputs

-----------------------------------------------------------------------------
(* The datagrams of a frame, at a node built with the outputs the profile     *)
(* gives it                                                                   *)

(* E is what a firmware was built with, outputs what a frame for it has. *)
Built(E, outputs, seq) ==
    /\ E \in Headers /\ ConfigurationValid(E)
    /\ Tidy(outputs, seq) /\ Lengths(outputs) = ToSet(E)

LEMMA BuiltOutputs ==
    ASSUME NEW E, NEW outputs, NEW seq, Built(E, outputs, seq)
    PROVE  /\ IsList(E) /\ \A i \in DOMAIN E : E[i].output \in Int /\ E[i].pixels \in Nat \ {0}
           /\ Leds(E) = UNION {{outputs[i].output} \X (1..Len(outputs[i].pixels)) : i \in DOMAIN outputs}
           /\ \A i \in DOMAIN outputs : Configured(E, outputs[i].output, outputs[i].gpio, Len(outputs[i].pixels))
<1>1. E \in Seq([output : Int, gpio : Int, pixels : Int])
  BY HeadersAssumption DEF Built
<1>2. IsList(E)
  <2>1. \A i \in 1..Len(E) : E[i] \in ToSet(E)
    BY <1>1 DEF ToSet
  <2> DEFINE Outputs == [output : Int, gpio : Int, pixels : Int]
  <2> HIDE DEF Outputs
  <2>2. E \in Seq(Outputs)
    BY <1>1 DEF Outputs
  <2>3. E \in Seq(ToSet(E))
    BY ONLY <2>1, <2>2
  <2> QED
    BY <2>3 DEF IsList
<1>3. \A i \in DOMAIN E : E[i].output \in Int /\ E[i].pixels \in Nat \ {0}
  <2>1. \A i \in DOMAIN E : E[i] \in [output : Int, gpio : Int, pixels : Int]
    <3> DEFINE Descriptor == [output : Int, gpio : Int, pixels : Int]
    <3>1. E \in Seq(Descriptor)
      BY <1>1
    <3> HIDE DEF Descriptor
    <3>2. \A i \in DOMAIN E : E[i] \in Descriptor
      BY <3>1
    <3> QED
      BY <3>2 DEF Descriptor
  <2>2. \A i \in DOMAIN E : E[i].pixels > 0
    BY DEF Built, ConfigurationValid
  <2> QED
    BY <2>1, <2>2
<1> DEFINE Of(i) == [output |-> outputs[i].output, gpio |-> outputs[i].gpio, pixels |-> Len(outputs[i].pixels)]
<1>4. {Of(i) : i \in DOMAIN outputs} = {E[i] : i \in DOMAIN E}
  BY DEF Built, Lengths, ToSet
<1>5. \A i \in DOMAIN outputs : Configured(E, outputs[i].output, outputs[i].gpio, Len(outputs[i].pixels))
  BY <1>4 DEF Configured, ToSet
<1>6. Leds(E) = UNION {{e.output} \X (1..e.pixels) : e \in {E[i] : i \in DOMAIN E}}
  BY DEF Leds
<1>7. Leds(E) = UNION {{e.output} \X (1..e.pixels) : e \in {Of(i) : i \in DOMAIN outputs}}
  BY <1>4, <1>6
<1>8. Leds(E) = UNION {{Of(i).output} \X (1..Of(i).pixels) : i \in DOMAIN outputs}
  BY <1>7
<1> QED
  BY <1>2, <1>3, <1>5, <1>8

LEMMA LedsAreFinite ==
    ASSUME NEW E, IsList(E), \A i \in DOMAIN E : E[i].pixels \in Nat \ {0}
    PROVE  IsFiniteSet(Leds(E))
<1> DEFINE Of(i) == {E[i].output} \X (1..E[i].pixels)
<1> DEFINE S == {Of(i) : i \in DOMAIN E}
<1>1. [i \in DOMAIN E |-> Of(i)] \in Surjection(DOMAIN E, S)
  BY DEF Surjection
<1>2. IsFiniteSet(DOMAIN E)
  BY ListDomain, FS_Interval
<1>3. IsFiniteSet(S)
  <2> DEFINE g == [i \in DOMAIN E |-> Of(i)]
  <2>1. g \in Surjection(DOMAIN E, S)
    BY <1>1
  <2> HIDE DEF g, S
  <2> QED
    BY <1>2, <2>1, FS_Surjection
<1>4. ASSUME NEW i \in DOMAIN E
      PROVE  IsFiniteSet(Of(i))
  <2>1. IsFiniteSet({E[i].output})
    BY FS_Singleton
  <2>2. IsFiniteSet(1..E[i].pixels)
    BY FS_Interval
  <2> QED
    BY <2>1, <2>2, FS_Product
<1>5. IsFiniteSet(UNION S)
  <2>1. \A T \in S : IsFiniteSet(T)
    BY <1>4
  <2> HIDE DEF S
  <2> QED
    BY <1>3, <2>1, FS_UNION
<1> QED
  BY <1>5 DEF Leds

(* As many outputs, and as many pixels. *)
LEMMA SameSizes ==
    ASSUME NEW E, NEW outputs, NEW seq, Built(E, outputs, seq)
    PROVE  /\ Len(outputs) = Len(E)
           /\ Cardinality(Leds(E)) \in Nat
           /\ \A i \in DOMAIN outputs : Len(outputs[i].pixels) <= Cardinality(Leds(E))
           /\ Cardinality(UNION {{i} \X DOMAIN outputs[i].pixels : i \in DOMAIN outputs}) = Cardinality(Leds(E))
<1>1. /\ IsList(E) /\ \A i \in DOMAIN E : E[i].output \in Int /\ E[i].pixels \in Nat \ {0}
      /\ Leds(E) = UNION {{outputs[i].output} \X (1..Len(outputs[i].pixels)) : i \in DOMAIN outputs}
  BY BuiltOutputs
<1>2. IsFiniteSet(Leds(E)) /\ Cardinality(Leds(E)) \in Nat
  BY <1>1, LedsAreFinite, FS_CardinalityType
<1>3. /\ Len(outputs) \in Nat /\ DOMAIN outputs = 1..Len(outputs)
      /\ \A i \in DOMAIN outputs : Len(outputs[i].pixels) \in Nat /\ DOMAIN outputs[i].pixels = 1..Len(outputs[i].pixels)
      /\ \A i, j \in DOMAIN outputs : outputs[i].output = outputs[j].output => i = j
  BY ListDomain DEF Built, Tidy, Apart
<1>4. Len(outputs) = Cardinality(Lengths(outputs))
  <2> DEFINE f == [i \in 1..Len(outputs) |->
                      [output |-> outputs[i].output, gpio |-> outputs[i].gpio, pixels |-> Len(outputs[i].pixels)]]
  <2>1. f \in Bijection(1..Len(outputs), Lengths(outputs))
    <3>1. f \in Injection(1..Len(outputs), Lengths(outputs))
      BY <1>3 DEF Injection, IsInjective, Lengths
    <3>2. f \in Surjection(1..Len(outputs), Lengths(outputs))
      BY <1>3 DEF Surjection, Lengths
    <3> QED
      BY <3>1, <3>2 DEF Bijection
  <2> HIDE DEF f
  <2> QED
    BY <1>3, <2>1, FS_CountingElements DEF ExistsBijection
<1>5. Len(E) = Cardinality(ToSet(E))
  <2> DEFINE f == [i \in 1..Len(E) |-> E[i]]
  <2>1. f \in Bijection(1..Len(E), ToSet(E))
    <3>1. DOMAIN E = 1..Len(E) /\ \A i, j \in DOMAIN E : E[i].output = E[j].output => i = j
      BY <1>1, ListDomain DEF Built, ConfigurationValid, Apart
    <3>2. f \in Injection(1..Len(E), ToSet(E))
      BY <3>1 DEF Injection, IsInjective, ToSet
    <3>3. f \in Surjection(1..Len(E), ToSet(E))
      BY <3>1 DEF Surjection, ToSet
    <3> QED
      BY <3>2, <3>3 DEF Bijection
  <2>2. Len(E) \in Nat
    BY <1>1, ListDomain
  <2> HIDE DEF f
  <2> QED
    BY <2>1, <2>2, FS_CountingElements DEF ExistsBijection
<1>6. ASSUME NEW i \in DOMAIN outputs
      PROVE  Len(outputs[i].pixels) <= Cardinality(Leds(E))
  <2> DEFINE n == Len(outputs[i].pixels)
  <2> DEFINE f == [k \in 1..n |-> <<outputs[i].output, k>>]
  <2>1. f \in Injection(1..n, Leds(E))
    BY <1>1 DEF Injection, IsInjective
  <2>0. n \in Nat
    BY <1>3
  <2> HIDE DEF f, n
  <2>2. n \in Nat /\ Cardinality(1..n) = n
    BY <2>0, FS_Interval
  <2>3. Cardinality(1..n) <= Cardinality(Leds(E))
    BY <1>2, <2>1, FS_Injection
  <2> QED
    BY <2>2, <2>3 DEF n
<1>7. Cardinality(UNION {{i} \X DOMAIN outputs[i].pixels : i \in DOMAIN outputs}) = Cardinality(Leds(E))
  <2> DEFINE S == UNION {{i} \X DOMAIN outputs[i].pixels : i \in DOMAIN outputs}
  <2> DEFINE f == [x \in S |-> <<outputs[x[1]].output, x[2]>>]
  <2>1. \A x \in S : x[1] \in DOMAIN outputs /\ x[2] \in DOMAIN outputs[x[1]].pixels /\ x = <<x[1], x[2]>>
    OBVIOUS
  <2>2. \A x \in S : f[x] \in Leds(E)
    BY <1>1, <1>3, <2>1
  <2>3. \A x, y \in S : f[x] = f[y] => x = y
    <3> SUFFICES ASSUME NEW x \in S, NEW y \in S, f[x] = f[y]
                 PROVE  x = y
      OBVIOUS
    <3>1. outputs[x[1]].output = outputs[y[1]].output /\ x[2] = y[2]
      OBVIOUS
    <3> QED
      BY <1>3, <2>1, <3>1
  <2>4. f \in Injection(S, Leds(E))
    BY <2>2, <2>3 DEF Injection, IsInjective
  <2>5. f \in Surjection(S, Leds(E))
    <3>1. ASSUME NEW led \in Leds(E)
          PROVE  \E x \in S : f[x] = led
      <4>1. PICK i \in DOMAIN outputs : led \in {outputs[i].output} \X (1..Len(outputs[i].pixels))
        BY <1>1
      <4>2. PICK k \in DOMAIN outputs[i].pixels : led = <<outputs[i].output, k>>
        BY <1>3, <4>1
      <4>3. <<i, k>> \in S
        OBVIOUS
      <4> QED
        BY <4>2, <4>3
    <3> QED
      BY <2>2, <3>1 DEF Surjection
  <2> HIDE DEF f, S
  <2>6. IsFiniteSet(S) /\ Cardinality(S) <= Cardinality(Leds(E))
    BY <1>2, <2>4, FS_Injection
  <2>7. Cardinality(Leds(E)) <= Cardinality(S) /\ Cardinality(S) \in Nat
    BY <2>5, <2>6, FS_Surjection, FS_CardinalityType
  <2>8. Cardinality(S) = Cardinality(Leds(E))
    BY <1>2, <2>6, <2>7
  <2> QED
    BY <2>8 DEF S
<1> QED
  BY <1>2, <1>4, <1>5, <1>6, <1>7 DEF Built

(* So the size of a frame is known from what the node was built with. *)
LEMMA SizeKnown ==
    ASSUME NEW E, NEW outputs, NEW seq, Built(E, outputs, seq), NEW descriptor
    PROVE  Sizes(outputs, descriptor) = descriptor * Len(E) + 3 * Cardinality(Leds(E))
  BY SameSizes DEF Sizes

(* Cutting n things into pieces of `room`: the pieces, counted from 1. *)
Begins(c, room) == (c - 1) * room
Stops(c, room, n) == IF c * room < n THEN c * room ELSE n
PiecesOf(n, room) == 1..((n + room - 1) \div room)

LEMMA Pieces ==
    ASSUME NEW n \in Nat \ {0}, NEW room \in Nat \ {0}
    PROVE  /\ \A c \in PiecesOf(n, room) :
                 /\ Begins(c, room) \in Nat /\ Stops(c, room, n) \in Nat
                 /\ Begins(c, room) < Stops(c, room, n) /\ Stops(c, room, n) <= n
                 /\ Stops(c, room, n) - Begins(c, room) <= room
           /\ \A k \in 1..n : \E c \in PiecesOf(n, room) : k \in (Begins(c, room) + 1)..Stops(c, room, n)
<1> DEFINE q == (n + room - 1) \div room
<1>1. q \in Int /\ q * room <= n + room - 1 /\ n + room - 1 < q * room + room
  BY ONLY n \in Nat, room \in Nat, room > 0
<1> HIDE DEF q
<1>2. ASSUME NEW a \in Int, NEW b \in Int, a <= b
      PROVE  a * room \in Int /\ b * room \in Int /\ a * room <= b * room
  BY ONLY <1>2, room \in Nat
<1>3. ASSUME NEW a \in Int
      PROVE  (a - 1) * room = a * room - room
  BY ONLY <1>3, room \in Nat
<1>4. ASSUME NEW c \in PiecesOf(n, room)
      PROVE  /\ Begins(c, room) \in Nat /\ Stops(c, room, n) \in Nat
             /\ Begins(c, room) < Stops(c, room, n) /\ Stops(c, room, n) <= n
             /\ Stops(c, room, n) - Begins(c, room) <= room
  <2>1. c \in 1..q
    BY DEF PiecesOf, q
  <2>2. PICK begin \in Int, end \in Int, last_ \in Int : begin = (c - 1) * room /\ end = c * room /\ last_ = q * room
    BY <1>1, <1>2, <2>1
  <2>3. begin = end - room
    BY <1>3, <2>1, <2>2
  <2>4. end <= last_
    BY <1>1, <1>2, <2>1, <2>2
  <2>5. begin >= 0
    <3>1. 0 * room = 0
      OBVIOUS
    <3>2. 0 * room <= (c - 1) * room
      BY <1>2, <2>1
    <3> QED
      BY <2>2, <3>1, <3>2
  <2> QED
    BY <1>1, <2>2, <2>3, <2>4, <2>5 DEF Begins, Stops
<1>5. ASSUME NEW k \in 1..n
      PROVE  \E c \in PiecesOf(n, room) : k \in (Begins(c, room) + 1)..Stops(c, room, n)
  <2> DEFINE d == (k - 1) \div room
  <2>1. d \in Int /\ d * room <= k - 1 /\ k - 1 < d * room + room
    BY ONLY k \in 1..n, n \in Nat, room \in Nat, room > 0
  <2> HIDE DEF d
  <2>2. PICK begin \in Int : begin = d * room
    BY <1>2, <2>1
  <2>3. (d + 1) * room = begin + room
    <3>1. ((d + 1) - 1) * room = (d + 1) * room - room /\ (d + 1) * room \in Int
      BY <1>2, <1>3, <2>1
    <3>2. (d + 1) - 1 = d
      BY <2>1
    <3> QED
      BY <2>2, <3>1, <3>2
  <2>4. d >= 0
    <3> SUFFICES ASSUME d <= -1 PROVE FALSE
      BY <2>1
    <3>1. d * room <= (-1) * room /\ (-1) * room = -room
      BY <1>2, <2>1
    <3> QED
      BY <2>1, <2>2, <3>1
  <2>5. d + 1 <= q
    <3> SUFFICES ASSUME q <= d PROVE FALSE
      BY <1>1, <2>1
    <3>1. q * room <= d * room /\ q * room \in Int
      BY <1>1, <1>2, <2>1
    <3> QED
      BY <1>1, <2>1, <2>2, <3>1
  <2>6. d + 1 \in PiecesOf(n, room)
    BY <1>1, <2>1, <2>4, <2>5 DEF PiecesOf, q
  <2>7. Begins(d + 1, room) = begin
    BY <2>1, <2>2 DEF Begins
  <2>8. k \in (begin + 1)..Stops(d + 1, room, n)
    BY <2>1, <2>2, <2>3 DEF Stops
  <2> QED
    BY <2>6, <2>7, <2>8
<1> QED
  BY <1>4, <1>5

(* A chunk of an output, and where its pixels lie on it. *)
ChunkOf(f, o, seq, room, c) ==
    LET piece == SubSeq(o.pixels, Begins(c, room) + 1, Stops(c, room, Len(o.pixels)))
    IN  [type |-> "chunk", node |-> f.node, seq |-> seq,
         output |-> o.output, gpio |-> o.gpio, total |-> Len(o.pixels),
         offset |-> Begins(c, room), pixels |-> piece,
         size |-> Header + ChunkDescriptor + Payload(piece) + Crc]

LEMMA ChunksAre ==
    ASSUME NEW f, NEW o, NEW seq, NEW room
    PROVE  ChunksOf(f, o, seq, room) = {ChunkOf(f, o, seq, room, c) : c \in PiecesOf(Len(o.pixels), room)}
  BY DEF ChunksOf, ChunkOf, PiecesOf, Begins, Stops

LEMMA OneChunk ==
    ASSUME NEW f, NEW o, NEW seq, NEW room \in Nat \ {0},
           IsList(o.pixels), Len(o.pixels) \in Nat \ {0},
           NEW c \in PiecesOf(Len(o.pixels), room)
    PROVE  LET d == ChunkOf(f, o, seq, room, c)
               begin == Begins(c, room)
               end == Stops(c, room, Len(o.pixels))
           IN  /\ begin \in Nat /\ end \in Nat /\ end <= Len(o.pixels)
               /\ Len(d.pixels) \in 1..room /\ DOMAIN d.pixels = 1..Len(d.pixels)
               /\ d.offset = begin /\ begin + Len(d.pixels) = end
               /\ \A k \in 1..Len(d.pixels) : d.pixels[k] = o.pixels[begin + k]
               /\ d.size = Header + ChunkDescriptor + 3 * Len(d.pixels) + Crc
<1> DEFINE begin == Begins(c, room)
<1> DEFINE end == Stops(c, room, Len(o.pixels))
<1> DEFINE pixels == o.pixels
<1> DEFINE piece == SubSeq(pixels, begin + 1, end)
<1>1. begin \in Nat /\ end \in Nat /\ begin < end /\ end <= Len(pixels) /\ end - begin <= room
  BY Pieces
<1>2. /\ ChunkOf(f, o, seq, room, c).offset = begin
      /\ ChunkOf(f, o, seq, room, c).pixels = piece
      /\ ChunkOf(f, o, seq, room, c).size = Header + ChunkDescriptor + 3 * Len(piece) + Crc
  BY DEF ChunkOf, Payload
<1>3. pixels \in Seq(ToSet(pixels))
  BY DEF IsList
<1> HIDE DEF begin, end, pixels
<1>4. /\ Len(piece) = end - begin /\ DOMAIN piece = 1..Len(piece)
      /\ \A k \in 1..Len(piece) : piece[k] = pixels[begin + k]
  BY <1>1, <1>3
<1> HIDE DEF piece
<1> DEFINE d == ChunkOf(f, o, seq, room, c)
<1> HIDE DEF d
<1>5. d.offset = begin /\ d.pixels = piece /\ d.size = Header + ChunkDescriptor + 3 * Len(piece) + Crc
  BY <1>2 DEF d
<1>6. /\ Len(d.pixels) \in 1..room /\ DOMAIN d.pixels = 1..Len(d.pixels)
      /\ begin + Len(d.pixels) = end
      /\ \A k \in 1..Len(d.pixels) : d.pixels[k] = pixels[begin + k]
  BY ONLY <1>1, <1>4, <1>5, room \in Nat \ {0}
<1> QED
  BY <1>1, <1>5, <1>6 DEF begin, end, pixels, d

(* What a datagram lights, and what every datagram of a frame is to a node *)
(* with outputs E. *)
Lights(d) == IF d.type = "frame" THEN FrameLeds(d) ELSE ChunkLeds(d)
Fits(d, id, E, seq) ==
    /\ d.type \in {"frame", "chunk"} /\ d.seq = seq /\ Parses(d, id, E)
    /\ \A l \in Lights(d) : l[1] \in Leds(E) /\ l[2][1] = seq
    /\ d.type = "frame" => Whole(Lights(d), E)

(* Every one of the LEDs is lit by one of the datagrams. *)
Lit(leds, datagrams) == \A led \in leds : \E d \in datagrams : \E l \in Lights(d) : l[1] = led

LEMMA WholeFrame ==
    ASSUME NEW E, NEW f, NEW seq, Built(E, f.outputs, seq), FitsWhole(f),
           f.max \in Int, f.max <= ReceiveBuffer
    PROVE  /\ Fits(Complete(f, seq), f.node, E, seq)
           /\ Lit(Leds(E), {Complete(f, seq)})
<1> DEFINE d == Complete(f, seq)
<1>1. d.type = "frame" /\ d.node = f.node /\ d.seq = seq /\ d.outputs = f.outputs /\ d.size = CompleteSize(f)
  BY DEF Complete
<1> HIDE DEF d
<1> DEFINE outputs == f.outputs
<1>2. /\ IsList(E) /\ \A i \in DOMAIN E : E[i].output \in Int /\ E[i].pixels \in Nat \ {0}
      /\ Leds(E) = UNION {{outputs[i].output} \X (1..Len(outputs[i].pixels)) : i \in DOMAIN outputs}
      /\ \A i \in DOMAIN outputs : Configured(E, outputs[i].output, outputs[i].gpio, Len(outputs[i].pixels))
  BY BuiltOutputs
<1>3. /\ Len(outputs) = Len(E) /\ Cardinality(Leds(E)) \in Nat
      /\ Cardinality(UNION {{i} \X DOMAIN outputs[i].pixels : i \in DOMAIN outputs}) = Cardinality(Leds(E))
  BY SameSizes
<1>4. /\ Apart(outputs, "output") /\ Apart(outputs, "gpio")
      /\ \A i \in DOMAIN outputs :
            /\ Len(outputs[i].pixels) > 0 /\ DOMAIN outputs[i].pixels = 1..Len(outputs[i].pixels)
            /\ \A k \in DOMAIN outputs[i].pixels : outputs[i].pixels[k][1] = seq
  BY ListDomain DEF Built, Tidy
<1>5. Len(E) \in Nat
  BY <1>2, ListDomain
<1>6. CompleteSize(f) <= PacketBuffer(E)
  <2> DEFINE a == Cardinality(Leds(E))
  <2> DEFINE b == Cardinality(UNION {{i} \X DOMAIN outputs[i].pixels : i \in DOMAIN outputs})
  <2>1. CompleteSize(f) = 33 + (6 * Len(E) + 3 * b)
    BY <1>3, <1>5 DEF CompleteSize, Sizes, Header, OutputDescriptor, Crc
  <2>2. PacketBuffer(E) = IF 33 + 10 * Len(E) + 3 * a < ReceiveBuffer THEN 33 + 10 * Len(E) + 3 * a ELSE ReceiveBuffer
    BY <1>3, <1>5 DEF PacketBuffer, Header, ChunkDescriptor, Crc
  <2>3. CompleteSize(f) <= f.max
    BY DEF FitsWhole
  <2>4. a \in Nat /\ b \in Nat /\ b <= a
    BY <1>3
  <2> HIDE DEF a, b
  <2> QED
    BY <1>5, <2>1, <2>2, <2>3, <2>4, SizesAssumption
<1>7. ParsesFrame(d, f.node, E)
  BY <1>1, <1>2, <1>3, <1>4 DEF ParsesFrame
<1>8. Parses(d, f.node, E)
  BY <1>1, <1>6, <1>7 DEF Parses, Built
<1>9. Lights(d) = UNION {{<<<<outputs[i].output, k>>, outputs[i].pixels[k]>> : k \in DOMAIN outputs[i].pixels}
                        : i \in DOMAIN outputs}
  BY <1>1 DEF Lights, FrameLeds
<1>10. \A l \in Lights(d) : l[1] \in Leds(E) /\ l[2][1] = seq
  <2> SUFFICES ASSUME NEW i \in DOMAIN outputs, NEW k \in DOMAIN outputs[i].pixels
               PROVE  /\ <<outputs[i].output, k>> \in Leds(E)
                      /\ outputs[i].pixels[k][1] = seq
    BY <1>9
  <2> QED
    BY <1>2, <1>4
<1>11. \A led \in Leds(E) : \E l \in Lights(d) : l[1] = led
  <2> SUFFICES ASSUME NEW led \in Leds(E)
               PROVE  \E l \in Lights(d) : l[1] = led
    OBVIOUS
  <2>1. PICK i \in DOMAIN outputs : led \in {outputs[i].output} \X (1..Len(outputs[i].pixels))
    BY <1>2
  <2>2. PICK k \in DOMAIN outputs[i].pixels : led = <<outputs[i].output, k>>
    BY <1>4, <2>1
  <2>3. <<led, outputs[i].pixels[k]>> \in Lights(d)
    BY <1>9, <2>2
  <2> QED
    BY <2>3
<1>12. Whole(Lights(d), E)
  BY <1>10, <1>11 DEF Whole
<1>13. Fits(d, f.node, E, seq) /\ Lit(Leds(E), {d})
  BY <1>1, <1>8, <1>10, <1>11, <1>12 DEF Fits, Lit
<1> QED
  BY <1>13 DEF d

(* The chunks of an output. *)
LEMMA OutputChunks ==
    ASSUME NEW E, NEW f, NEW seq, Built(E, f.outputs, seq),
           f.max \in MinChunkDatagram..ReceiveBuffer, NEW i \in DOMAIN f.outputs
    PROVE  LET o == f.outputs[i]
               chunks == ChunksOf(f, o, seq, PixelsPerChunk(f.max))
           IN  /\ \A d \in chunks : Fits(d, f.node, E, seq) /\ d.type = "chunk"
               /\ Lit({o.output} \X (1..Len(o.pixels)), chunks)
<1> DEFINE o == f.outputs[i]
<1> DEFINE room == PixelsPerChunk(f.max)
<1> DEFINE total == Len(o.pixels)
<1>0. f.max \in Int /\ f.max >= 46 /\ f.max <= ReceiveBuffer
  BY SizesAssumption DEF MinChunkDatagram
<1>1. room \in Nat \ {0} /\ 3 * room <= f.max - 43
  BY <1>0 DEF PixelsPerChunk, Header, ChunkDescriptor, Crc
<1>2. /\ IsList(o.pixels) /\ total \in Nat \ {0} /\ DOMAIN o.pixels = 1..total
      /\ \A k \in DOMAIN o.pixels : o.pixels[k][1] = seq
  BY ListDomain DEF Built, Tidy
<1>3. /\ IsList(E) /\ {o.output} \X (1..total) \subseteq Leds(E)
      /\ Configured(E, o.output, o.gpio, total)
  BY BuiltOutputs
<1>4. Cardinality(Leds(E)) \in Nat /\ total <= Cardinality(Leds(E))
  BY SameSizes
<1>5. ConfigurationValid(E) /\ Len(E) \in Nat /\ Len(E) >= 1
  BY <1>3, ListDomain DEF Built, ConfigurationValid
<1> DEFINE chunks == ChunksOf(f, o, seq, room)
<1>6. chunks = {ChunkOf(f, o, seq, room, c) : c \in PiecesOf(total, room)}
  BY ChunksAre
<1> HIDE DEF chunks, room, o
<1>7. ASSUME NEW c \in PiecesOf(total, room)
      PROVE  LET d == ChunkOf(f, o, seq, room, c)
             IN  /\ d.type = "chunk" /\ Fits(d, f.node, E, seq)
                 /\ \A k \in (Begins(c, room) + 1)..Stops(c, room, total) :
                       \E l \in Lights(d) : l[1] = <<o.output, k>>
  <2> DEFINE d == ChunkOf(f, o, seq, room, c)
  <2> DEFINE begin == Begins(c, room)
  <2> DEFINE end == Stops(c, room, total)
  <2> DEFINE n == Len(d.pixels)
  <2>1. /\ d.type = "chunk" /\ d.node = f.node /\ d.seq = seq
        /\ d.output = o.output /\ d.gpio = o.gpio /\ d.total = total
    BY DEF ChunkOf
  <2>2. /\ begin \in Nat /\ end \in Nat /\ end <= total
        /\ n \in 1..room /\ DOMAIN d.pixels = 1..n
        /\ d.offset = begin /\ begin + n = end
        /\ \A k \in 1..n : d.pixels[k] = o.pixels[begin + k]
        /\ d.size = Header + ChunkDescriptor + 3 * n + Crc
    <3>1. IsList(o.pixels) /\ Len(o.pixels) \in Nat \ {0} /\ room \in Nat \ {0} /\ c \in PiecesOf(Len(o.pixels), room)
      BY <1>1, <1>2, <1>7
    <3> QED
      BY ONLY <3>1, OneChunk
  <2> HIDE DEF d, begin, end
  <2>3. d.size <= PacketBuffer(E)
    <3> DEFINE a == Cardinality(Leds(E))
    <3>1. d.size = 43 + 3 * n
      BY <2>2 DEF Header, ChunkDescriptor, Crc
    <3>2. PacketBuffer(E) = IF 33 + 10 * Len(E) + 3 * a < ReceiveBuffer THEN 33 + 10 * Len(E) + 3 * a ELSE ReceiveBuffer
      BY <1>4, <1>5 DEF PacketBuffer, Header, ChunkDescriptor, Crc
    <3>3. n \in Nat /\ a \in Nat /\ n <= a /\ n <= room
      BY <1>1, <1>2, <1>4, <2>2
    <3> HIDE DEF a, n
    <3> QED
      BY <1>0, <1>1, <1>5, <3>1, <3>2, <3>3, SizesAssumption
  <2>4. Parses(d, f.node, E)
    <3>1. ParsesChunk(d, f.node, E)
      BY <1>1, <1>2, <1>3, <2>1, <2>2 DEF ParsesChunk
    <3> QED
      BY <1>5, <2>3, <3>1 DEF Parses
  <2>5. Lights(d) = {<<<<o.output, begin + k>>, o.pixels[begin + k]>> : k \in 1..n}
    <3> HIDE DEF n
    <3>1. \A k \in 1..n : <<<<d.output, d.offset + k>>, d.pixels[k]>> = <<<<o.output, begin + k>>, o.pixels[begin + k]>>
      BY <2>1, <2>2
    <3>2. Lights(d) = {<<<<d.output, d.offset + k>>, d.pixels[k]>> : k \in 1..n}
      BY <2>1, <2>2 DEF Lights, ChunkLeds
    <3> QED
      BY <3>1, <3>2
  <2>6. \A k \in 1..n : begin + k \in 1..total
    BY <1>1, <1>2, <2>2
  <2>7. \A l \in Lights(d) : l[1] \in Leds(E) /\ l[2][1] = seq
    <3> SUFFICES ASSUME NEW k \in 1..n
                 PROVE  <<o.output, begin + k>> \in Leds(E) /\ o.pixels[begin + k][1] = seq
      BY <2>5
    <3> QED
      BY <1>2, <1>3, <2>6
  <2>8. ASSUME NEW k \in (begin + 1)..end
        PROVE  \E l \in Lights(d) : l[1] = <<o.output, k>>
    <3>1. k - begin \in 1..n /\ begin + (k - begin) = k
      BY <1>1, <2>2
    <3>2. <<<<o.output, k>>, o.pixels[k]>> \in Lights(d)
      BY <2>5, <3>1
    <3> QED
      BY <3>2
  <2>9. Fits(d, f.node, E, seq)
    BY <2>1, <2>4, <2>7 DEF Fits
  <2> QED
    BY <2>1, <2>8, <2>9 DEF d, begin, end
<1>8. \A d \in chunks : Fits(d, f.node, E, seq) /\ d.type = "chunk"
  BY <1>6, <1>7
<1>9. ASSUME NEW led \in {o.output} \X (1..total)
      PROVE  \E d \in chunks : \E l \in Lights(d) : l[1] = led
  <2>1. PICK k \in 1..total : led = <<o.output, k>>
    BY <1>9
  <2>2. PICK c \in PiecesOf(total, room) : k \in (Begins(c, room) + 1)..Stops(c, room, total)
    BY <1>1, <1>2, Pieces
  <2>3. ChunkOf(f, o, seq, room, c) \in chunks
    BY <1>6
  <2> QED
    BY <1>7, <2>1, <2>2, <2>3
<1>10. Lit({o.output} \X (1..total), chunks)
  BY <1>9 DEF Lit
<1> QED
  BY <1>8, <1>10 DEF chunks, room, o

(* Every datagram of a frame fits the node, and together they light it all. *)
LEMMA FrameDatagrams ==
    ASSUME NEW E, NEW f, NEW seq, Built(E, f.outputs, seq),
           f.max \in MinChunkDatagram..ReceiveBuffer
    PROVE  /\ \A d \in Datagrams(f, seq) :
                 Fits(d, f.node, E, seq) /\ d.type = (IF FitsWhole(f) THEN "frame" ELSE "chunk")
           /\ Lit(Leds(E), Datagrams(f, seq))
<1>1. CASE FitsWhole(f)
  <2>1. Datagrams(f, seq) = {Complete(f, seq)}
    BY <1>1 DEF Datagrams
  <2>2. f.max \in Int /\ f.max <= ReceiveBuffer
    BY SizesAssumption DEF MinChunkDatagram
  <2>3. Complete(f, seq).type = "frame"
    BY DEF Complete
  <2>4. Fits(Complete(f, seq), f.node, E, seq) /\ Lit(Leds(E), {Complete(f, seq)})
    BY ONLY <1>1, <2>2, WholeFrame, Built(E, f.outputs, seq)
  <2> QED
    BY <1>1, <2>1, <2>3, <2>4
<1>2. CASE ~FitsWhole(f)
  <2> DEFINE Chunks(i) == ChunksOf(f, f.outputs[i], seq, PixelsPerChunk(f.max))
  <2> DEFINE Of(i) == {f.outputs[i].output} \X (1..Len(f.outputs[i].pixels))
  <2>1. Datagrams(f, seq) = UNION {Chunks(i) : i \in DOMAIN f.outputs}
    BY <1>2 DEF Datagrams, ToSet
  <2>2. ASSUME NEW i \in DOMAIN f.outputs
        PROVE  (\A d \in Chunks(i) : Fits(d, f.node, E, seq) /\ d.type = "chunk") /\ Lit(Of(i), Chunks(i))
    BY ONLY <2>2, OutputChunks, Built(E, f.outputs, seq), f.max \in MinChunkDatagram..ReceiveBuffer
  <2>4. Leds(E) = UNION {Of(i) : i \in DOMAIN f.outputs}
    BY BuiltOutputs
  <2> HIDE DEF Of, Chunks
  <2>5. Lit(Leds(E), Datagrams(f, seq))
    BY <2>1, <2>2, <2>4 DEF Lit
  <2>6. \A d \in Datagrams(f, seq) : Fits(d, f.node, E, seq) /\ d.type = "chunk"
    BY <2>1, <2>2
  <2> QED
    BY <1>2, <2>5, <2>6
<1> QED
  BY <1>1, <1>2

-----------------------------------------------------------------------------
(* The node that was built for the profile *)

Known ==
    /\ profile \in Profiles /\ Accepted(profile) /\ Loads(profile)
    /\ receiver \in ReceiversOf(profile)

(* The node, its firmware and its place in the file. *)
LEMMA AgreedNode ==
    ASSUME Known, Agreed
    PROVE  /\ receiver.node \in NodeIds(profile) /\ "udp_v3" \in profile.enabled
           /\ receiver.outputs \in Headers
           /\ OutputsOf(profile, receiver.node) # {}
<1>1. receiver.kind = "node"
  BY DEF Agreed
<1>2. PICK id \in {n \in NodeIds(profile) : "udp_v3" \in profile.enabled}, o \in Headers :
         receiver = [kind |-> "node", node |-> id, outputs |-> o]
  BY <1>1 DEF Known, ReceiversOf
<1>3. Len(receiver.outputs) \in 1..3 /\ ToSet(receiver.outputs) = Promised(profile, receiver.node)
  BY DEF Agreed, ConfigurationValid, MaxOutputs, Promised
<1>4. receiver.outputs \in Headers
  BY <1>2
<1>5. receiver.outputs \in Seq([output : Int, gpio : Int, pixels : Int])
  BY <1>4, HeadersAssumption
<1>6. ToSet(receiver.outputs) # {}
  <2>1. 1 \in DOMAIN receiver.outputs
    BY <1>3, <1>5
  <2> QED
    BY <2>1 DEF ToSet
<1>7. OutputsOf(profile, receiver.node) # {}
  BY <1>3, <1>6 DEF Promised
<1> QED
  BY <1>2, <1>4, <1>7

LEMMA LaidOutNode ==
    ASSUME NEW p \in Profiles, NEW n \in ToSet(p.nodes)
    PROVE  LET m == LayoutNode(p, n)
           IN  /\ m.node = n.node /\ m.host = n.host /\ m.enabled = n.enabled
               /\ m.version = Version(p, n)
               /\ m.pixels = (IF p.topology = 3 THEN OutputPixels(p, n.node) ELSE n.pixels)
               /\ m.max = (IF n.max = None THEN DefaultPayload ELSE n.max)
<1>1. {"node", "host", "port", "enabled", "pixels", "version", "max"} \subseteq DOMAIN n
  BY ProfilesAssumption DEF Parsed
<1> QED
  BY <1>1 DEF LayoutNode

(* Numbers of a range, for bounds whose digits are not looked at.              *)
LEMMA RangeKnown ==
    ASSUME NEW a \in Int, NEW b \in Int, NEW x \in a..b
    PROVE  x \in Int /\ a <= x /\ x <= b
  OBVIOUS

LEMMA NaturalRange == ASSUME NEW m \in Int, NEW n \in 1..m PROVE n >= 0
  OBVIOUS

LEMMA PayloadKnown ==
    ASSUME NEW max \in MinChunkDatagram..MaxUdpPayload
    PROVE  max \in Int /\ 46 <= max /\ max <= MaxUdpPayload /\ MaxUdpPayload \in Int
<1>1. MaxUdpPayload \in Int
  BY SMT DEF MaxUdpPayload
<1>2. MinChunkDatagram = 46
  BY DEF MinChunkDatagram
<1> QED
  BY ONLY <1>1, <1>2, RangeKnown, max \in MinChunkDatagram..MaxUdpPayload

LEMMA PayloadRange ==
    ASSUME NEW max \in MinChunkDatagram..MaxUdpPayload
    PROVE  max # None /\ (max <= ReceiveBuffer => max \in MinChunkDatagram..ReceiveBuffer)
<1>1. max \in Int /\ 46 <= max
  BY Zenon, PayloadKnown
<1>2. MinChunkDatagram = 46 /\ ReceiveBuffer \in Nat /\ None \notin Int
  BY NoneAssumption, SizesAssumption DEF MinChunkDatagram
<1> QED
  BY ONLY <1>1, <1>2

LEMMA PayloadOf ==
    ASSUME NEW p \in Profiles, NEW n \in ToSet(p.nodes), NodeFits(p, n), "udp_v3" \in p.enabled
    PROVE  LayoutNode(p, n).max \in MinChunkDatagram..MaxUdpPayload
<1>1. n.max \in MinChunkDatagram..MaxUdpPayload
  BY DEF NodeFits
<1>2. n.max # None
  BY Zenon, <1>1, PayloadRange
<1>3. LayoutNode(p, n).max = n.max
  BY <1>2, LaidOutNode
<1> QED
  BY Zenon, <1>1, <1>3

(* The node of the layout that the receiver is. *)
LEMMA KnownLayout ==
    ASSUME Known
    PROVE  \E k \in DOMAIN profile.nodes :
              LET n == LayoutNode(profile, profile.nodes[k])
              IN  /\ n \in ToSet(Layout(profile).nodes) /\ n.node = receiver.node
                  /\ \A m \in ToSet(Layout(profile).nodes) : m.node = receiver.node => m = n
                  /\ receiver.kind = "node" => n.max \in MinChunkDatagram..MaxUdpPayload
<1> DEFINE p == profile
<1> DEFINE l == Layout(p)
<1>1. Parsed(p) /\ p \in Profiles
  BY ProfilesAssumption DEF Known
<1>2. receiver.node \in NodeIds(p) /\ (receiver.kind = "node" => "udp_v3" \in p.enabled)
  BY DEF Known, ReceiversOf
<1>3. PICK k \in DOMAIN p.nodes : p.nodes[k].node = receiver.node
  BY <1>2 DEF NodeIds, Each, ToSet
<1>4. l.nodes = [i \in DOMAIN p.nodes |-> LayoutNode(p, p.nodes[i])]
  <2>1. l.nodes = LayoutNodes(p)
    BY <1>1, LayoutOf
  <2>2. p.nodes # <<>>
    BY <1>3
  <2>3. LayoutNodes(p) = [i \in DOMAIN p.nodes |-> LayoutNode(p, p.nodes[i])]
    BY ONLY <2>2 DEF LayoutNodes
  <2> QED
    BY <2>1, <2>3
<1>5. \A i, j \in DOMAIN p.nodes : p.nodes[i].node = p.nodes[j].node => i = j
  <2>1. IsList(Each(p.analog, "node")) /\ IsList(Each(p.nodes, "node"))
    BY <1>1, EachList, ListDomain DEF Parsed
  <2>2. IsInjective(Each(p.analog, "node") \o Each(p.nodes, "node"))
    BY DEF Known, Accepted, NodesFit
  <2>3. IsInjective(Each(p.nodes, "node"))
    BY <2>1, <2>2, LastOfTwo
  <2> QED
    BY <2>3 DEF IsInjective, Each
<1>6. \A i \in DOMAIN p.nodes : LayoutNode(p, p.nodes[i]).node = p.nodes[i].node
  BY <1>1, LaidOutNode DEF ToSet
<1> DEFINE n == LayoutNode(p, p.nodes[k])
<1> HIDE DEF l
<1>7. n \in ToSet(l.nodes) /\ n.node = receiver.node
  BY <1>3, <1>4, <1>6 DEF ToSet
<1>8. \A m \in ToSet(l.nodes) : m.node = receiver.node => m = n
  BY <1>3, <1>4, <1>5, <1>6 DEF ToSet
<1>9. receiver.kind = "node" => n.max \in MinChunkDatagram..MaxUdpPayload
  <2>1. NodeFits(p, p.nodes[k])
    BY <1>3 DEF Known, Accepted, NodesFit
  <2>2. p.nodes[k] \in ToSet(p.nodes)
    BY <1>3 DEF ToSet
  <2> QED
    BY <1>1, <1>2, <2>1, <2>2, PayloadOf
<1> QED
  BY <1>7, <1>8, <1>9 DEF l

(* One node of the layout has its id, and a payload its buffer holds. *)
LEMMA AgreedLayout ==
    ASSUME Known, Agreed
    PROVE  \E n \in ToSet(Layout(profile).nodes) :
              /\ n.node = receiver.node
              /\ \A m \in ToSet(Layout(profile).nodes) : m.node = receiver.node => m = n
              /\ n.max \in MinChunkDatagram..ReceiveBuffer /\ n.max \in MinChunkDatagram..MaxUdpPayload
<1>1. PICK n \in ToSet(Layout(profile).nodes) :
         /\ n.node = receiver.node
         /\ \A m \in ToSet(Layout(profile).nodes) : m.node = receiver.node => m = n
         /\ n.max \in MinChunkDatagram..MaxUdpPayload
  BY KnownLayout DEF Agreed
<1>2. n.max <= ReceiveBuffer
  <2>1. NodeOf(Layout(profile), receiver.node) = n
    BY <1>1 DEF NodeOf
  <2> QED
    BY <2>1 DEF Agreed
<1> QED
  BY ONLY Zenon, <1>1, <1>2, PayloadRange

(* The frame it is sent, if it is enabled. *)
FrameOf(n, seq) == NodeFrame(Layout(profile), n, Picture(profile, seq), Black)

(* Its datagrams, if it is enabled. *)
LEMMA KnownOutgoing ==
    ASSUME NEW n \in ToSet(Layout(profile).nodes), n.node = receiver.node,
           \A m \in ToSet(Layout(profile).nodes) : m.node = receiver.node => m = n,
           NEW seq
    PROVE  /\ FrameOf(n, seq).node = receiver.node /\ FrameOf(n, seq).max = n.max
           /\ FrameOf(n, seq).enabled = n.enabled
           /\ FrameOf(n, seq).outputs = OutputFrames(Layout(profile), n.node, Picture(profile, seq))
           /\ FrameOf(n, seq) \in FramesOf(profile, seq)
           /\ Outgoing(profile, receiver, seq) =
                 IF ~n.enabled THEN {}
                 ELSE IF receiver.kind = "node" THEN Datagrams(FrameOf(n, seq), seq)
                 ELSE DdpPackets(FrameOf(n, seq), seq)
<1> DEFINE l == Layout(profile)
<1> DEFINE mine == {f \in FramesOf(profile, seq) : f.enabled /\ f.node = receiver.node}
<1>1. /\ FrameOf(n, seq).node = receiver.node /\ FrameOf(n, seq).max = n.max
      /\ FrameOf(n, seq).enabled = n.enabled
      /\ FrameOf(n, seq).outputs = OutputFrames(l, n.node, Picture(profile, seq))
  BY DEF NodeFrame, FrameOf
<1>2. \A f \in mine : f = FrameOf(n, seq)
  <2> SUFFICES ASSUME NEW m \in ToSet(l.nodes),
                      NodeFrame(l, m, Picture(profile, seq), Black).node = receiver.node
               PROVE  NodeFrame(l, m, Picture(profile, seq), Black) = FrameOf(n, seq)
    BY DEF FramesOf
  <2>1. m.node = receiver.node
    BY DEF NodeFrame
  <2> QED
    BY <2>1 DEF FrameOf
<1>3. FrameOf(n, seq) \in FramesOf(profile, seq)
  BY DEF FramesOf, FrameOf
<1>4. \A f \in mine : f.enabled
  OBVIOUS
<1>5. n.enabled => FrameOf(n, seq) \in mine
  BY <1>1, <1>3
<1> DEFINE Sent(f) == IF receiver.kind = "node" THEN Datagrams(f, seq) ELSE DdpPackets(f, seq)
<1>6. Outgoing(profile, receiver, seq) = UNION {Sent(f) : f \in mine}
  BY DEF Outgoing
<1> HIDE DEF mine, Sent
<1>7. Outgoing(profile, receiver, seq) = IF ~n.enabled THEN {} ELSE Sent(FrameOf(n, seq))
  <2>1. CASE n.enabled
    <3>1. mine = {FrameOf(n, seq)}
      BY <1>2, <1>5, <2>1
    <3> QED
      BY <1>6, <2>1, <3>1
  <2>2. CASE ~n.enabled
    <3>1. mine = {}
      BY <1>1, <1>2, <1>4, <2>2
    <3> QED
      BY <1>6, <2>2, <3>1
  <2> QED
    BY <2>1, <2>2
<1> QED
  BY <1>1, <1>3, <1>7 DEF Sent

LEMMA AgreedFrame ==
    ASSUME Known, Agreed
    PROVE  \E n \in ToSet(Layout(profile).nodes) :
              /\ n.max \in MinChunkDatagram..ReceiveBuffer /\ n.max \in MinChunkDatagram..MaxUdpPayload
              /\ \A seq :
                    /\ FrameOf(n, seq).node = receiver.node /\ FrameOf(n, seq).max = n.max
                    /\ FrameOf(n, seq).enabled = n.enabled
                    /\ Built(receiver.outputs, FrameOf(n, seq).outputs, seq)
                    /\ Outgoing(profile, receiver, seq)
                          = IF n.enabled THEN Datagrams(FrameOf(n, seq), seq) ELSE {}
<1> DEFINE l == Layout(profile)
<1> DEFINE E == receiver.outputs
<1>1. PICK n \in ToSet(l.nodes) :
         /\ n.node = receiver.node
         /\ \A m \in ToSet(l.nodes) : m.node = receiver.node => m = n
         /\ n.max \in MinChunkDatagram..ReceiveBuffer /\ n.max \in MinChunkDatagram..MaxUdpPayload
  BY AgreedLayout
<1>2. \A seq : /\ FrameOf(n, seq).node = receiver.node /\ FrameOf(n, seq).max = n.max
               /\ FrameOf(n, seq).enabled = n.enabled
               /\ FrameOf(n, seq).outputs = OutputFrames(l, n.node, Picture(profile, seq))
  BY <1>1, KnownOutgoing
<1>3. ASSUME NEW seq
      PROVE  Built(E, FrameOf(n, seq).outputs, seq)
  <2>1. OutputsOf(profile, n.node) # {} /\ E \in Headers
    BY <1>1, AgreedNode
  <2>2. ConfigurationValid(E) /\ Promised(profile, n.node) = ToSet(E)
    BY <1>1 DEF Agreed, Promised
  <2> DEFINE outputs == OutputFrames(l, n.node, Picture(profile, seq))
  <2>3. Tidy(outputs, seq) /\ Lengths(outputs) = Promised(profile, n.node)
    <3>1. profile \in Profiles /\ Accepted(profile) /\ Loads(profile) /\ n \in ToSet(Layout(profile).nodes)
      BY <1>1 DEF Known
    <3> QED
      BY ONLY <2>1, <3>1, FrameOutputs
  <2> HIDE DEF outputs
  <2>4. Built(E, outputs, seq)
    BY <2>1, <2>2, <2>3 DEF Built
  <2> QED
    BY <1>2, <2>4 DEF outputs
<1>4. \A seq : Outgoing(profile, receiver, seq) = IF n.enabled THEN Datagrams(FrameOf(n, seq), seq) ELSE {}
  BY <1>1, KnownOutgoing DEF Agreed
<1> QED
  BY <1>1, <1>2, <1>3, <1>4

(* What is sent to it: frames or chunks, which it parses and which light all *)
(* of its LEDs. *)
LEMMA AgreedDatagrams ==
    ASSUME Known, Agreed
    PROVE  \E kind \in {"frame", "chunk"} : \A seq :
              /\ \A d \in Outgoing(profile, receiver, seq) :
                    d.type = kind /\ Fits(d, receiver.node, receiver.outputs, seq)
              /\ Outgoing(profile, receiver, seq) # {}
                    => Lit(Leds(receiver.outputs), Outgoing(profile, receiver, seq))
<1> DEFINE E == receiver.outputs
<1>1. PICK n \in ToSet(Layout(profile).nodes) :
         /\ n.max \in MinChunkDatagram..ReceiveBuffer
         /\ \A seq :
               /\ FrameOf(n, seq).node = receiver.node /\ FrameOf(n, seq).max = n.max
               /\ Built(receiver.outputs, FrameOf(n, seq).outputs, seq)
               /\ Outgoing(profile, receiver, seq) = IF n.enabled THEN Datagrams(FrameOf(n, seq), seq) ELSE {}
  BY AgreedFrame
<1> DEFINE kind == IF /\ OutputDescriptor * Len(E) + 3 * Cardinality(Leds(E)) <= MaxUint16
                      /\ Header + (OutputDescriptor * Len(E) + 3 * Cardinality(Leds(E))) + Crc <= n.max
                   THEN "frame" ELSE "chunk"
<1>5. ASSUME NEW seq
      PROVE  (IF FitsWhole(FrameOf(n, seq)) THEN "frame" ELSE "chunk") = kind
  <2>1. Sizes(FrameOf(n, seq).outputs, OutputDescriptor) = OutputDescriptor * Len(E) + 3 * Cardinality(Leds(E))
    BY <1>1, SizeKnown
  <2> QED
    BY <1>1, <2>1 DEF FitsWhole, CompleteSize
<1> HIDE DEF kind
<1>6. ASSUME NEW seq
      PROVE  /\ \A d \in Datagrams(FrameOf(n, seq), seq) : Fits(d, receiver.node, E, seq) /\ d.type = kind
             /\ Lit(Leds(E), Datagrams(FrameOf(n, seq), seq))
  <2> DEFINE f == FrameOf(n, seq)
  <2>1. Built(E, f.outputs, seq) /\ f.node = receiver.node /\ f.max \in MinChunkDatagram..ReceiveBuffer
    BY <1>1
  <2>2. /\ \A d \in Datagrams(f, seq) :
              Fits(d, f.node, E, seq) /\ d.type = (IF FitsWhole(f) THEN "frame" ELSE "chunk")
        /\ Lit(Leds(E), Datagrams(f, seq))
    BY ONLY <2>1, FrameDatagrams
  <2> QED
    BY <1>5, <2>1, <2>2
<1>7. kind \in {"frame", "chunk"}
  BY DEF kind
<1> QED
  BY <1>1, <1>6, <1>7

-----------------------------------------------------------------------------
(* The newest frame *)

LEMMA AppendList ==
    ASSUME NEW s, IsList(s), NEW x
    PROVE  /\ IsList(Append(s, x)) /\ Len(Append(s, x)) = Len(s) + 1
           /\ \A i \in 1..Len(s) : Append(s, x)[i] = s[i]
           /\ Append(s, x)[Len(s) + 1] = x
<1>1. s \in Seq(ToSet(s) \cup {x})
  <2>1. s \in Seq(ToSet(s))
    BY DEF IsList
  <2> QED
    BY <2>1
<1>2. /\ Append(s, x) \in Seq(ToSet(s) \cup {x}) /\ Len(Append(s, x)) = Len(s) + 1
      /\ \A i \in 1..Len(s) : Append(s, x)[i] = s[i]
      /\ Append(s, x)[Len(s) + 1] = x
  BY <1>1
<1> DEFINE t == Append(s, x)
<1> HIDE DEF t
<1>3. \A i \in 1..Len(t) : t[i] \in ToSet(t)
  BY <1>2 DEF ToSet, t
<1>4. t \in Seq(ToSet(t))
  BY <1>2, <1>3 DEF t
<1> QED
  BY <1>2, <1>4 DEF IsList, t

(* Where the program is, and what it has sent. *)
Journal ==
    /\ profile \in Profiles
    /\ phase \in {"loaded", "playing"} => Accepted(profile) /\ Loads(profile)
    /\ IF phase = "playing" THEN receiver \in ReceiversOf(profile)
       ELSE receiver = NoNode /\ air = <<>> /\ arrived = {} /\ rx = NoRx
    /\ IsList(air) /\ sent <= Frames
    /\ \A seq \in 1..sent : air[seq] = Outgoing(profile, receiver, seq)

(* What the node collects is of one frame, what it shows is a whole one; and *)
(* until it shows the newest it holds every chunk of it that arrived. *)
Collecting ==
    LET E == receiver.outputs
    IN  /\ DOMAIN rx = {"active", "got", "completed", "last", "queued", "buffer"}
        /\ rx.completed = rx.last /\ rx.active \in 0..sent /\ rx.last \in 0..sent
        /\ rx.active = 0 => rx.got = {}
        /\ rx.active # 0 => \A seq \in 1..Frames : \A d \in Outgoing(profile, receiver, seq) : d.type = "chunk"
        /\ \A l \in rx.got : l[1] \in Leds(E) /\ l[2][1] = rx.active
        /\ rx.last # 0 => Whole(shown, E) /\ \A l \in shown : l[2][1] = rx.last
        /\ rx.last # sent =>
              /\ arrived = {} \/ rx.active = sent
              /\ rx.active = sent => ~Whole(rx.got, E)
              /\ \A d \in arrived : d.type = "chunk" /\ ChunkLeds(d) \subseteq rx.got

NewestInv == Journal /\ (Agreed => Collecting)

LEMMA CollectingShows ==
    ASSUME NewestInv
    PROVE  NewestShown
<1> DEFINE E == receiver.outputs
<1> SUFFICES ASSUME Agreed, AllArrived, NEW led \in Leds(E)
             PROVE  \E l \in shown : l[1] = led /\ l[2][1] = sent
  BY DEF NewestShown
<1>1. Journal /\ Collecting /\ sent \in Nat
  BY ListDomain DEF NewestInv, Journal, sent
<1>2. CASE rx.last = sent
  <2>1. sent # 0
    BY DEF AllArrived
  <2>2. Whole(shown, E) /\ \A l \in shown : l[2][1] = sent
    BY <1>1, <1>2, <2>1 DEF Collecting
  <2> QED
    BY <2>2 DEF Whole
<1>3. CASE rx.last # sent
  <2>1. phase = "playing"
    BY <1>1 DEF Journal, Agreed, NoNode
  <2>2. Known
    BY <1>1, <2>1 DEF Journal, Known
  <2>3. sent \in 1..sent /\ air[sent] # {} /\ arrived = air[sent]
    BY <1>1 DEF AllArrived
  <2>4. arrived = Outgoing(profile, receiver, sent)
    BY <1>1, <2>3 DEF Journal
  <2>5. Lit(Leds(E), arrived)
    BY <2>2, <2>3, <2>4, AgreedDatagrams
  <2>6. /\ ~Whole(rx.got, E)
        /\ \A d \in arrived : d.type = "chunk" /\ ChunkLeds(d) \subseteq rx.got
        /\ \A l \in rx.got : l[1] \in Leds(E)
    BY <1>1, <1>3, <2>3 DEF Collecting
  <2>7. ASSUME NEW x \in Leds(E)
        PROVE  \E l \in rx.got : l[1] = x
    <3>1. PICK d \in arrived : \E l \in Lights(d) : l[1] = x
      BY <2>5 DEF Lit
    <3>2. Lights(d) = ChunkLeds(d)
      BY <2>6 DEF Lights
    <3> QED
      BY <2>6, <3>1, <3>2
  <2>8. Whole(rx.got, E)
    BY <2>6, <2>7 DEF Whole
  <2> QED
    BY <2>6, <2>8
<1> QED
  BY <1>2, <1>3

LEMMA CollectingHears ==
    ASSUME Journal, Agreed, Collecting, NEW seq \in 1..sent, NEW d \in air[seq], Hear(seq, d)
    PROVE  Collecting'
<1> DEFINE E == receiver.outputs
<1>1. /\ phase = "playing" /\ receiver.kind = "node" /\ ConfigurationValid(E)
      /\ UNCHANGED <<profile, receiver, air>> /\ NodeHears(d)
      /\ arrived' = CASE seq = sent -> arrived \cup {d} [] seq # sent /\ IsKey(seq) -> {} [] OTHER -> arrived
  BY DEF Hear, Agreed
<1>2. sent \in Nat /\ sent' = sent /\ E' = E /\ sent <= Frames /\ Frames \in Nat
  BY <1>1, ListDomain, SizesAssumption DEF Journal, sent
<1>3. Known /\ d \in Outgoing(profile, receiver, seq)
  BY <1>1 DEF Journal, Known
<1>4. PICK kind \in {"frame", "chunk"} : \A s : \A c \in Outgoing(profile, receiver, s) :
         c.type = kind /\ Fits(c, receiver.node, E, s)
  BY <1>3, AgreedDatagrams
<1>5. /\ d.type = kind /\ d.seq = seq /\ Parses(d, receiver.node, E)
      /\ \A l \in Lights(d) : l[1] \in Leds(E) /\ l[2][1] = seq
      /\ d.type = "frame" => Whole(Lights(d), E)
  BY <1>3, <1>4 DEF Fits
<1>6. /\ DOMAIN rx = {"active", "got", "completed", "last", "queued", "buffer"}
      /\ rx.completed = rx.last /\ rx.active \in 0..sent /\ rx.last \in 0..sent
      /\ rx.active = 0 => rx.got = {}
      /\ rx.active # 0 => \A s \in 1..Frames : \A c \in Outgoing(profile, receiver, s) : c.type = "chunk"
      /\ \A l \in rx.got : l[1] \in Leds(E) /\ l[2][1] = rx.active
      /\ rx.last # 0 => Whole(shown, E) /\ \A l \in shown : l[2][1] = rx.last
      /\ rx.last # sent =>
            /\ arrived = {} \/ rx.active = sent
            /\ rx.active = sent => ~Whole(rx.got, E)
            /\ \A c \in arrived : c.type = "chunk" /\ ChunkLeds(c) \subseteq rx.got
  BY DEF Collecting
<1>7. kind = "frame" => rx.active = 0
  BY <1>2, <1>3, <1>5, <1>6
<1>8. ~Wanted(d) /\ seq = sent => rx.last = sent
  BY <1>2, <1>5, <1>6 DEF Wanted, IsKey
<1>9. ~Follows(rx, seq) /\ seq = sent => rx.last = sent
  BY <1>2, <1>6 DEF Follows, Reference, IsKey
<1>10. ASSUME NodeIgnores, seq = sent => rx.last = sent
       PROVE  Collecting'
  <2>1. /\ DOMAIN rx' = DOMAIN rx /\ rx'.active = rx.active /\ rx'.got = rx.got
        /\ rx'.completed = rx.completed /\ rx'.last = rx.last /\ shown' = shown
    BY <1>6, <1>10 DEF NodeIgnores
  <2>2. rx.last # sent => arrived' = arrived \/ arrived' = {}
    BY <1>1, <1>10
  <2> QED
    BY <1>1, <1>2, <1>6, <2>1, <2>2 DEF Collecting
<1>11. ASSUME NEW leds, Queue(d, leds), Whole(leds, E), \A l \in leds : l[2][1] = seq,
              Wanted(d), kind = "frame" \/ Follows(rx, seq)
       PROVE  Collecting'
  <2>1. /\ DOMAIN rx' = DOMAIN rx /\ rx'.active = 0 /\ rx'.got = {}
        /\ rx'.completed = seq /\ rx'.last = seq /\ shown' = leds
    BY <1>5, <1>6, <1>11 DEF Queue
  <2>2. seq # sent => arrived' = {}
    <3>1. CASE IsKey(seq)
      BY <1>1, <3>1
    <3>2. CASE ~IsKey(seq) /\ seq # sent
      <4>1. rx.last # sent
        BY <1>2, <1>5, <1>6, <1>11, <3>2 DEF Wanted
      <4>2. rx.active # sent
        BY <1>2, <1>7, <1>11, <3>2 DEF Follows, Reference
      <4> QED
        BY <1>1, <1>6, <3>2, <4>1, <4>2
    <3> QED
      BY <3>1, <3>2
  <2> QED
    BY <1>1, <1>2, <1>6, <1>11, <2>1, <2>2 DEF Collecting
<1>12. ASSUME kind = "chunk", Follows(rx, seq),
              rx' = [rx EXCEPT !.active = d.seq, !.got = Collected(rx, d), !.queued = 0],
              UNCHANGED shown, ~(Whole(Collected(rx, d), E) /\ Wanted(d))
       PROVE  Collecting'
  <2> DEFINE got == Collected(rx, d)
  <2>1. got = (IF seq = rx.active THEN rx.got ELSE {}) \cup ChunkLeds(d)
    BY <1>5 DEF Collected
  <2>2. ChunkLeds(d) = Lights(d)
    BY <1>5, <1>12 DEF Lights
  <2> HIDE DEF got
  <2>3. /\ DOMAIN rx' = DOMAIN rx /\ rx'.active = seq /\ rx'.got = got
        /\ rx'.completed = rx.completed /\ rx'.last = rx.last /\ shown' = shown
    BY <1>5, <1>6, <1>12 DEF got
  <2>4. \A l \in got : l[1] \in Leds(E) /\ l[2][1] = seq
    BY <1>5, <1>6, <2>1, <2>2
  <2>5. \A s \in 1..Frames : \A c \in Outgoing(profile, receiver, s) : c.type = "chunk"
    BY <1>4, <1>12
  <2>6. rx.last # sent =>
           /\ arrived' = {} \/ seq = sent
           /\ seq = sent => ~Whole(got, E)
           /\ \A c \in arrived' : c.type = "chunk" /\ ChunkLeds(c) \subseteq got
    <3> SUFFICES ASSUME rx.last # sent
                 PROVE  /\ arrived' = {} \/ seq = sent
                        /\ seq = sent => ~Whole(got, E)
                        /\ \A c \in arrived' : c.type = "chunk" /\ ChunkLeds(c) \subseteq got
      OBVIOUS
    <3>1. CASE seq = sent
      <4>1. ~Whole(got, E)
        BY <1>8, <1>12, <3>1 DEF got
      <4>2. arrived' = arrived \cup {d}
        BY <1>1, <3>1
      <4>3. \A c \in arrived : c.type = "chunk" /\ ChunkLeds(c) \subseteq got
        BY <1>6, <2>1, <3>1
      <4>4. d.type = "chunk" /\ ChunkLeds(d) \subseteq got
        BY <1>5, <1>12, <2>1
      <4> QED
        BY <3>1, <4>1, <4>2, <4>3, <4>4
    <3>2. CASE seq # sent
      <4>1. arrived' = {}
        <5>1. CASE IsKey(seq)
          BY <1>1, <3>2, <5>1
        <5>2. CASE ~IsKey(seq)
          <6>1. rx.active # sent
            BY <1>2, <1>12, <3>2, <5>2 DEF Follows, Reference
          <6> QED
            BY <1>1, <1>6, <3>2, <5>2, <6>1
        <5> QED
          BY <5>1, <5>2
      <4> QED
        BY <3>2, <4>1
    <3> QED
      BY <3>1, <3>2
  <2> QED
    BY <1>1, <1>2, <1>6, <2>3, <2>4, <2>5, <2>6 DEF Collecting
<1>13. CASE d.type = "frame"
  <2>1. NodeHearsFrame(d) \/ (d.type = "chunk" /\ NodeHearsChunk(d))
    BY <1>1, <1>5 DEF NodeHears
  <2>2. NodeHearsFrame(d)
    BY <1>13, <2>1
  <2>3. FrameLeds(d) = Lights(d)
    BY <1>13 DEF Lights
  <2> QED
    BY <1>5, <1>8, <1>10, <1>11, <1>13, <2>2, <2>3 DEF NodeHearsFrame
<1>14. CASE d.type = "chunk"
  <2>1. NodeHearsChunk(d)
    BY <1>1, <1>5, <1>14 DEF NodeHears
  <2>2. CASE seq = rx.completed \/ ~Follows(rx, seq)
    <3>1. NodeIgnores
      BY <1>5, <2>1, <2>2 DEF NodeHearsChunk
    <3> QED
      BY <1>6, <1>9, <1>10, <2>2, <3>1
  <2>3. CASE ~(seq = rx.completed \/ ~Follows(rx, seq))
    <3> DEFINE got == Collected(rx, d)
    <3>1. IF Whole(got, E) /\ Wanted(d) THEN Queue(d, got)
          ELSE /\ rx' = [rx EXCEPT !.active = d.seq, !.got = got, !.queued = 0]
               /\ UNCHANGED shown
      BY <1>5, <2>1, <2>3 DEF NodeHearsChunk
    <3>2. \A l \in got : l[2][1] = seq
      <4>1. ChunkLeds(d) = Lights(d)
        BY <1>14 DEF Lights
      <4> QED
        BY <1>5, <1>6, <4>1 DEF Collected
    <3> QED
      BY <1>5, <1>11, <1>12, <1>14, <2>3, <3>1, <3>2
  <2> QED
    BY <2>2, <2>3
<1> QED
  BY <1>5, <1>13, <1>14

LEMMA CollectingSends ==
    ASSUME Journal, Agreed, Collecting, Send
    PROVE  Collecting'
<1>1. /\ UNCHANGED <<profile, receiver, shown>> /\ arrived' = {}
      /\ air' = Append(air, Outgoing(profile, receiver, sent + 1))
      /\ rx' = [rx EXCEPT !.queued = 0]
  BY DEF Send
<1>2. sent \in Nat /\ sent' = sent + 1
  BY <1>1, ListDomain, AppendList DEF Journal, sent
<1>3. /\ DOMAIN rx' = DOMAIN rx /\ rx'.active = rx.active /\ rx'.got = rx.got
      /\ rx'.completed = rx.completed /\ rx'.last = rx.last
  BY <1>1 DEF Collecting
<1> QED
  BY <1>1, <1>2, <1>3 DEF Collecting

LEMMA NewestNext ==
    ASSUME NewestInv, [Next]_vars
    PROVE  NewestInv'
<1>0. Journal /\ (Agreed => Collecting)
  BY DEF NewestInv
<1>1. CASE UNCHANGED vars
  <2>1. Journal'
    BY <1>0, <1>1 DEF vars, Journal, sent
  <2>2. Agreed' = Agreed
    BY <1>1 DEF vars, Agreed
  <2>3. Collecting' = Collecting
    BY <1>1 DEF vars, Collecting, sent
  <2> QED
    BY <1>0, <2>1, <2>2, <2>3 DEF NewestInv
<1>2. ASSUME Refuse \/ Load \/ Open
      PROVE  NewestInv'
  <2>1. /\ UNCHANGED <<profile, air, arrived, rx>>
        /\ receiver = NoNode /\ air = <<>> /\ arrived = {} /\ rx = NoRx
    BY <1>0, <1>2 DEF Refuse, Load, Open, Journal
  <2>2. phase' \in {"loaded", "playing"} => Accepted(profile) /\ Loads(profile)
    BY <1>0, <1>2 DEF Refuse, Load, Open, Journal
  <2>3. IF phase' = "playing" THEN receiver' \in ReceiversOf(profile) ELSE receiver' = NoNode
    BY <1>2, <2>1 DEF Refuse, Load, Open
  <2>4. sent = 0 /\ sent' = 0
    BY <2>1 DEF sent
  <2>5. Journal'
    BY <1>0, <2>1, <2>2, <2>3, <2>4 DEF Journal
  <2>6. Collecting'
    BY <2>1, <2>4 DEF Collecting, NoRx
  <2> QED
    BY <2>5, <2>6 DEF NewestInv
<1>5. CASE Send
  <2>1. Journal'
    <3>1. /\ UNCHANGED <<profile, phase, receiver>> /\ phase = "playing" /\ sent < Frames
          /\ air' = Append(air, Outgoing(profile, receiver, sent + 1))
      BY <1>5 DEF Send
    <3>2. IsList(air) /\ sent \in Nat
      BY <1>0, ListDomain DEF Journal, sent
    <3>3. /\ IsList(air') /\ sent' = sent + 1
          /\ \A i \in 1..sent : air'[i] = air[i]
          /\ air'[sent + 1] = Outgoing(profile, receiver, sent + 1)
      BY <3>1, <3>2, AppendList DEF sent
    <3>4. \A i \in 1..sent' : air'[i] = Outgoing(profile, receiver, i)
      <4> SUFFICES ASSUME NEW i \in 1..sent' PROVE air'[i] = Outgoing(profile, receiver, i)
        OBVIOUS
      <4>1. i \in 1..sent \/ i = sent + 1
        BY <3>2, <3>3
      <4> QED
        BY <1>0, <3>3, <4>1 DEF Journal
    <3>5. sent' <= Frames
      BY <3>1, <3>2, <3>3, SizesAssumption
    <3> QED
      BY <1>0, <3>1, <3>3, <3>4, <3>5 DEF Journal
  <2>2. Agreed' => Agreed
    BY <1>5 DEF Send, Agreed
  <2> QED
    BY <1>0, <1>5, <2>1, <2>2, CollectingSends DEF NewestInv
<1>6. ASSUME NEW seq \in 1..sent, NEW d \in air[seq], Hear(seq, d)
      PROVE  NewestInv'
  <2>1. UNCHANGED <<profile, phase, receiver, air>>
    BY <1>6 DEF Hear
  <2>2. Journal' /\ (Agreed' => Agreed)
    <3>1. phase = "playing"
      BY <1>6 DEF Hear
    <3>2. Agreed' => Agreed
      BY <2>1 DEF Agreed
    <3>3. sent' = sent
      BY <2>1 DEF sent
    <3> QED
      BY <1>0, <2>1, <3>1, <3>2, <3>3 DEF Journal
  <2> QED
    BY <1>0, <1>6, <2>2, CollectingHears DEF NewestInv
<1> QED
  BY <1>1, <1>2, <1>5, <1>6 DEF Next

LEMMA NewestInit == ASSUME Init PROVE NewestInv
<1>1. /\ profile \in Profiles /\ phase = "file"
      /\ receiver = NoNode /\ air = <<>> /\ arrived = {} /\ rx = NoRx
  BY DEF Init
<1>2. sent = 0 /\ IsList(air)
  BY <1>1 DEF sent, IsList
<1>3. Journal
  BY <1>1, <1>2, SizesAssumption DEF Journal
<1>4. ~Agreed
  BY <1>1 DEF Agreed, NoNode
<1> QED
  BY <1>3, <1>4 DEF NewestInv

(* However a node built for its profile meets the datagrams of its frames, in *)
(* any order, again or among older ones: once each of the newest frame's has  *)
(* arrived it shows that frame, on every LED. *)
THEOREM NewestFrame == Spec => []NewestShown
<1>1. Init => NewestInv
  BY NewestInit
<1>2. NewestInv /\ [Next]_vars => NewestInv'
  BY NewestNext
<1>3. NewestInv => NewestShown
  BY CollectingShows
<1> QED
  BY <1>1, <1>2, <1>3, PTL DEF Spec

-----------------------------------------------------------------------------
(* An accepted profile plays *)

(* What AcceptedPlays asks of a profile, and what validate_config made sure of. *)
Playable(p) ==
    /\ p \in Profiles /\ Accepted(p)
    /\ p.topology = 3 /\ Oriented(p) /\ WireSized(p) /\ HostsApart(p)
    /\ p.analog # <<>> \/ p.policy \in OneOutput

(* The nodes of its layout. *)
LEMMA PlayableNodes ==
    ASSUME NEW p, Playable(p)
    PROVE  /\ LayoutNodes(p) = [i \in DOMAIN p.nodes |-> LayoutNode(p, p.nodes[i])]
           /\ \A i \in DOMAIN p.nodes :
                 /\ LayoutNode(p, p.nodes[i]).node = p.nodes[i].node
                 /\ LayoutNode(p, p.nodes[i]).version = 3
                 /\ LayoutNode(p, p.nodes[i]).pixels = OutputPixels(p, p.nodes[i].node)
                 /\ p.nodes[i].node \in Int /\ p.nodes[i].node >= 1
           /\ \A i, j \in DOMAIN p.nodes : p.nodes[i].node = p.nodes[j].node => i = j
<1>1. p \in Profiles /\ Parsed(p) /\ OutputsFit(p) /\ NodesFit(p) /\ p.topology = 3
  BY ProfilesAssumption DEF Playable, Accepted
<1>2. p.nodes # <<>>
  <2>1. PICK i \in DOMAIN p.outputs : TRUE
    <3>1. IsList(p.outputs) /\ p.outputs # <<>>
      BY <1>1 DEF OutputsFit, Parsed
    <3> QED
      BY <3>1, ListHead
  <2>2. p.outputs[i].node \in NodeIds(p)
    BY <1>1, <2>1 DEF OutputsFit
  <2>3. PICK k \in DOMAIN Each(p.nodes, "node") : TRUE
    BY <2>2 DEF NodeIds, ToSet
  <2>4. k \in DOMAIN p.nodes
    BY <2>3 DEF Each
  <2> QED
    BY <2>4
<1>3. LayoutNodes(p) = [i \in DOMAIN p.nodes |-> LayoutNode(p, p.nodes[i])]
  BY ONLY <1>2 DEF LayoutNodes
<1>4. ASSUME NEW i \in DOMAIN p.nodes
      PROVE  /\ LayoutNode(p, p.nodes[i]).node = p.nodes[i].node
             /\ LayoutNode(p, p.nodes[i]).version = 3
             /\ LayoutNode(p, p.nodes[i]).pixels = OutputPixels(p, p.nodes[i].node)
             /\ p.nodes[i].node \in Int /\ p.nodes[i].node >= 1
  <2>1. p.nodes[i] \in ToSet(p.nodes)
    BY DEF ToSet
  <2>2. Version(p, p.nodes[i]) = 3
    BY <1>1 DEF OutputsFit
  <2>3. p.nodes[i].node >= 1
    BY <1>1 DEF NodesFit, NodeFits
  <2>4. p.nodes[i].node \in Int
    BY <1>1, <2>1 DEF Parsed
  <2> QED
    BY <1>1, <2>1, <2>2, <2>3, <2>4, LaidOutNode
<1>5. \A i, j \in DOMAIN p.nodes : p.nodes[i].node = p.nodes[j].node => i = j
  <2>1. IsList(Each(p.analog, "node")) /\ IsList(Each(p.nodes, "node"))
    BY <1>1, EachList, ListDomain DEF Parsed
  <2>2. IsInjective(Each(p.analog, "node") \o Each(p.nodes, "node"))
    BY <1>1 DEF NodesFit
  <2>3. IsInjective(Each(p.nodes, "node"))
    BY <2>1, <2>2, LastOfTwo
  <2> QED
    BY <2>3 DEF IsInjective, Each
<1> QED
  BY <1>3, <1>4, <1>5

(* The outputs of a node of the profile. *)
LEMMA PlayableOutputs ==
    ASSUME NEW p, Playable(p), NEW id \in NodeIds(p)
    PROVE  /\ IsFiniteSet(OutputsOf(p, id)) /\ OutputsOf(p, id) # {}
           /\ Cardinality(OutputsOf(p, id)) \in 1..3
           /\ Distinct(OutputsOf(p, id), "output") /\ Distinct(OutputsOf(p, id), "gpio")
           /\ NodeOf(p, id).pixels \in {None, OutputPixels(p, id)}
           /\ \A o \in OutputsOf(p, id) :
                 /\ o.output \in 1..MaxByte /\ o.gpio \in 0..MaxByte
                 /\ o.strip \in StripIds(p)
<1>1. Parsed(p) /\ OutputsFit(p) /\ WireSized(p)
  BY ProfilesAssumption DEF Playable, Accepted
<1>2. IsFiniteSet(OutputsOf(p, id))
  <2>1. IsFiniteSet(ToSet(p.outputs))
    BY <1>1, FiniteMembers DEF Parsed
  <2> QED
    BY <2>1, FS_Subset DEF OutputsOf
<1>3. Cardinality(OutputsOf(p, id)) \in 1..3
  BY <1>1 DEF OutputsFit
<1>4. OutputsOf(p, id) # {}
  BY <1>3, FS_EmptySet
<1>5. /\ Distinct(OutputsOf(p, id), "output") /\ Distinct(OutputsOf(p, id), "gpio")
      /\ NodeOf(p, id).pixels \in {None, OutputPixels(p, id)}
  BY <1>1 DEF OutputsFit
<1>6. ASSUME NEW o \in OutputsOf(p, id)
      PROVE  o.output \in 1..MaxByte /\ o.gpio \in 0..MaxByte /\ o.strip \in StripIds(p)
  <2>1. o \in ToSet(p.outputs)
    BY DEF OutputsOf
  <2>2. PICK i \in DOMAIN p.outputs : o = p.outputs[i]
    BY <2>1 DEF ToSet
  <2>3. o.output \in Int /\ o.gpio \in Int
    BY <1>1, <2>1 DEF Parsed
  <2>4. o.output >= 1 /\ o.gpio >= 0 /\ o.strip \in StripIds(p)
    BY <1>1, <2>2 DEF OutputsFit
  <2>5. o.output <= MaxByte /\ o.gpio <= MaxByte
    BY <1>1, <2>2 DEF WireSized
  <2> QED
    BY <2>3, <2>4, <2>5 DEF MaxByte
<1> QED
  BY <1>2, <1>3, <1>4, <1>5, <1>6

LEMMA PlayablePaths ==
    ASSUME NEW p, Playable(p)
    PROVE  PathsBuild(p)
<1>1. PathsFit(p)
  BY DEF Playable, Accepted
<1>2. IsInjective(Each(p.paths, "id")) /\ \A i \in DOMAIN p.paths : PathFits(p, p.paths[i])
  BY <1>1 DEF PathsFit
<1>3. ASSUME NEW i \in DOMAIN p.paths
      PROVE  LET s == p.paths[i].segments
             IN  /\ s # <<>>
                 /\ \A k \in DOMAIN s : SegmentBuilds(p, s[k])
                 /\ \A k, m \in DOMAIN s :
                       k # m /\ s[k].strip = s[m].strip
                           => Span(s[k].start, s[k].pixels) \cap Span(s[m].start, s[m].pixels) = {}
  <2> DEFINE s == p.paths[i].segments
  <2>1. PathFits(p, p.paths[i])
    BY <1>2
  <2>2. s # <<>> /\ \A k \in DOMAIN s : SegmentBuilds(p, s[k])
    BY <2>1 DEF PathFits, SegmentBuilds
  <2>3. Disjoint([k \in DOMAIN s |-> {s[k].strip} \X Span(s[k].start, s[k].pixels)])
    BY <2>1 DEF PathFits
  <2> HIDE DEF s
  <2>4. ASSUME NEW k \in DOMAIN s, NEW m \in DOMAIN s, k # m, s[k].strip = s[m].strip
        PROVE  Span(s[k].start, s[k].pixels) \cap Span(s[m].start, s[m].pixels) = {}
    <3>1. ({s[k].strip} \X Span(s[k].start, s[k].pixels)) \cap ({s[m].strip} \X Span(s[m].start, s[m].pixels)) = {}
      BY <2>3, <2>4 DEF Disjoint
    <3>2. \A x \in Span(s[k].start, s[k].pixels) \cap Span(s[m].start, s[m].pixels) :
             <<s[k].strip, x>> \in ({s[k].strip} \X Span(s[k].start, s[k].pixels)) \cap ({s[m].strip} \X Span(s[m].start, s[m].pixels))
      BY <2>4
    <3> QED
      BY <3>1, <3>2
  <2> QED
    BY <2>2, <2>4 DEF s
<1> QED
  BY <1>2, <1>3 DEF PathsBuild

LEMMA PlayableLayout ==
    ASSUME NEW p, Playable(p)
    PROVE  LayoutBuilds(p)
<1>1. OutputsFit(p) /\ p.topology = 3 /\ Oriented(p)
  BY DEF Playable, Accepted
<1>2. \A i \in DOMAIN p.outputs :
         p.outputs[i].strip \in StripIds(p) /\ p.outputs[i].pixels \in {None, LengthOf(p, p.outputs[i].strip)}
  BY <1>1 DEF OutputsFit
<1>3. ASSUME NEW i \in DOMAIN p.nodes
      PROVE  /\ OutputsOf(p, p.nodes[i].node) # {}
             /\ p.nodes[i].pixels \in {None, LayoutNode(p, p.nodes[i]).pixels}
  <2> DEFINE id == p.nodes[i].node
  <2>1. id \in NodeIds(p)
    BY DEF NodeIds, Each, ToSet
  <2>2. NodeOf(p, id) = p.nodes[i]
    <3>1. \A n \in ToSet(p.nodes) : n.node = id => n = p.nodes[i]
      BY PlayableNodes DEF ToSet
    <3>2. p.nodes[i] \in ToSet(p.nodes)
      BY DEF ToSet
    <3> QED
      BY <3>1, <3>2 DEF NodeOf
  <2> HIDE DEF id
  <2>3. OutputsOf(p, id) # {} /\ NodeOf(p, id).pixels \in {None, OutputPixels(p, id)}
    BY <2>1, PlayableOutputs
  <2>4. LayoutNode(p, p.nodes[i]).pixels = OutputPixels(p, id)
    BY PlayableNodes DEF id
  <2> QED
    BY <2>2, <2>3, <2>4 DEF id
<1> QED
  BY <1>1, <1>2, <1>3, PlayablePaths DEF LayoutBuilds

(* What the layout makes of a node's outputs. *)
LEMMA LaidOutOutputs ==
    ASSUME NEW p, Playable(p), NEW id \in NodeIds(p)
    PROVE  LET here == OutputsOf(Layout(p), id)
           IN  /\ Cardinality(here) \in 1..3
               /\ Distinct(here, "output") /\ Distinct(here, "gpio")
               /\ UNION {{o.strip} \X (1..o.pixels) : o \in here}
                     = UNION {{o.strip} \X (1..LengthOf(p, o.strip)) : o \in OutputsOf(p, id)}
<1> DEFINE here == OutputsOf(Layout(p), id)
<1> DEFINE mine == OutputsOf(p, id)
<1> DEFINE Laid(o) == [o EXCEPT !.pixels = LengthOf(p, o.strip)]
<1>1. p \in Profiles /\ Parsed(p) /\ p.topology = 3
  BY ProfilesAssumption DEF Playable
<1>2. \A o \in mine :
         /\ Laid(o).node = o.node /\ Laid(o).output = o.output /\ Laid(o).gpio = o.gpio
         /\ Laid(o).strip = o.strip /\ Laid(o).pixels = LengthOf(p, o.strip)
  <2>1. \A o \in mine : {"node", "output", "gpio", "strip", "pixels", "direction"} \subseteq DOMAIN o
    BY <1>1 DEF Parsed, OutputsOf
  <2> QED
    BY <2>1
<1>3. here = {Laid(o) : o \in mine}
  <2>1. Layout(p).outputs = [i \in DOMAIN p.outputs |-> Laid(p.outputs[i])]
    BY <1>1, LayoutOf DEF LayoutOutputs
  <2>2. \A i \in DOMAIN p.outputs : Laid(p.outputs[i]).node = p.outputs[i].node
    BY <1>1 DEF Parsed, ToSet
  <2> HIDE DEF Laid
  <2>3. here = {o \in {Laid(p.outputs[i]) : i \in DOMAIN p.outputs} : o.node = id}
    BY <2>1 DEF OutputsOf, ToSet
  <2>4. mine = {o \in {p.outputs[i] : i \in DOMAIN p.outputs} : o.node = id}
    BY DEF OutputsOf, ToSet
  <2> QED
    BY <2>2, <2>3, <2>4
<1>4. /\ IsFiniteSet(mine) /\ mine # {} /\ Cardinality(mine) \in 1..3
      /\ Distinct(mine, "output") /\ Distinct(mine, "gpio")
  BY PlayableOutputs
<1> HIDE DEF here, mine, Laid
<1>5. Cardinality(here) \in 1..3
  <2> DEFINE f == [o \in mine |-> Laid(o)]
  <2>1. f \in Surjection(mine, here)
    BY <1>3 DEF Surjection
  <2> HIDE DEF f
  <2>2. IsFiniteSet(here) /\ Cardinality(here) <= Cardinality(mine)
    BY <1>4, <2>1, FS_Surjection
  <2>3. here # {}
    BY <1>3, <1>4
  <2>4. Cardinality(here) \in Nat /\ Cardinality(here) # 0
    BY <2>2, <2>3, FS_EmptySet, FS_CardinalityType
  <2> QED
    BY <1>4, <2>2, <2>4
<1>6. Distinct(here, "output") /\ Distinct(here, "gpio")
  BY <1>2, <1>3, <1>4 DEF Distinct
<1>7. UNION {{o.strip} \X (1..o.pixels) : o \in here} = UNION {{o.strip} \X (1..LengthOf(p, o.strip)) : o \in mine}
  <2>1. \A o \in mine : {Laid(o).strip} \X (1..Laid(o).pixels) = {o.strip} \X (1..LengthOf(p, o.strip))
    BY <1>2
  <2> DEFINE Of(o) == {o.strip} \X (1..o.pixels)
  <2> DEFINE In(o) == {o.strip} \X (1..LengthOf(p, o.strip))
  <2>2. \A o \in mine : Of(Laid(o)) = In(o)
    BY <2>1
  <2> HIDE DEF Of, In
  <2>3. {Of(o) : o \in here} = {In(o) : o \in mine}
    BY <1>3, <2>2
  <2> QED
    BY <2>3 DEF Of, In
<1> QED
  BY <1>5, <1>6, <1>7 DEF here, mine

LEMMA PlayableIndependent ==
    ASSUME NEW p, Playable(p)
    PROVE  IndependentOutputs(Layout(p))
<1> DEFINE l == Layout(p)
<1>1. p \in Profiles /\ Parsed(p) /\ OutputsFit(p) /\ p.topology = 3
  BY ProfilesAssumption DEF Playable, Accepted
<1>2. /\ l.strips = p.strips /\ l.nodes = LayoutNodes(p) /\ l.outputs = LayoutOutputs(p)
      /\ DOMAIN l.outputs = DOMAIN p.outputs
  BY <1>1, LayoutOf
<1>3. \A i \in DOMAIN p.outputs :
         /\ l.outputs[i].node = p.outputs[i].node /\ l.outputs[i].output = p.outputs[i].output
         /\ l.outputs[i].gpio = p.outputs[i].gpio /\ l.outputs[i].strip = p.outputs[i].strip
         /\ l.outputs[i].direction = p.outputs[i].direction
  BY <1>1, <1>2, LayoutOf
<1>4. \A i \in DOMAIN p.outputs : l.outputs[i].pixels = LengthOf(p, p.outputs[i].strip)
  BY <1>1, <1>2 DEF LayoutOutputs, Parsed, ToSet
<1>5. /\ DOMAIN l.nodes = DOMAIN p.nodes
      /\ \A i \in DOMAIN p.nodes :
            /\ l.nodes[i].node = p.nodes[i].node /\ l.nodes[i].version = 3
            /\ l.nodes[i].pixels = OutputPixels(p, p.nodes[i].node)
  BY <1>2, PlayableNodes
<1>6. StripIds(l) = StripIds(p) /\ \A strip : LengthOf(l, strip) = LengthOf(p, strip)
  BY <1>2 DEF StripIds, LengthOf
<1>7. NodeIds(l) = NodeIds(p)
  <2>1. Each(l.nodes, "node") = Each(p.nodes, "node")
    BY <1>5 DEF Each
  <2> QED
    BY <2>1 DEF NodeIds
<1>8. Each(l.outputs, "strip") = Each(p.outputs, "strip")
  BY <1>2, <1>3 DEF Each
<1>9. \A id \in NodeIds(p) : NodeOf(l, id).version = 3
  <2> SUFFICES ASSUME NEW id \in NodeIds(p)
               PROVE  NodeOf(l, id).version = 3
    OBVIOUS
  <2>1. PICK k \in DOMAIN p.nodes : p.nodes[k].node = id
    BY DEF NodeIds, Each, ToSet
  <2>2. l.nodes[k] \in ToSet(l.nodes) /\ l.nodes[k].node = id
    BY <1>5, <2>1 DEF ToSet
  <2>3. NodeOf(l, id) \in ToSet(l.nodes)
    BY <2>2 DEF NodeOf
  <2> QED
    BY <1>5, <2>3 DEF ToSet
<1> HIDE DEF l
<1>10. ASSUME NEW i \in DOMAIN l.outputs
       PROVE  LET o == l.outputs[i]
              IN  /\ o.output >= 1 /\ o.gpio >= 0 /\ o.direction \in Directions
                  /\ o.node \in NodeIds(l) /\ NodeOf(l, o.node).version = 3
                  /\ o.strip \in StripIds(l) /\ o.pixels = LengthOf(l, o.strip)
  <2>1. LET o == p.outputs[i]
        IN  /\ o.output >= 1 /\ o.gpio >= 0 /\ o.direction \in Directions
            /\ o.node \in NodeIds(p) /\ o.strip \in StripIds(p)
    BY <1>1, <1>2 DEF OutputsFit
  <2> QED
    BY <1>2, <1>3, <1>4, <1>6, <1>7, <1>9, <2>1
<1>11. IsInjective(Each(l.outputs, "strip")) /\ ToSet(Each(l.outputs, "strip")) = StripIds(l)
  BY <1>1, <1>6, <1>8 DEF OutputsFit, StripsMappedOnce
<1>12. ASSUME NEW i \in DOMAIN l.nodes
       PROVE  LET here == OutputsOf(l, l.nodes[i].node)
              IN  /\ Cardinality(here) \in 1..3
                  /\ Distinct(here, "output") /\ Distinct(here, "gpio")
                  /\ Cardinality(UNION {{o.strip} \X (1..o.pixels) : o \in here}) = l.nodes[i].pixels
  <2> DEFINE id == l.nodes[i].node
  <2>1. id \in NodeIds(p) /\ l.nodes[i].pixels = OutputPixels(p, id)
    BY <1>5 DEF NodeIds, Each, ToSet
  <2> HIDE DEF id
  <2> DEFINE here == OutputsOf(l, id)
  <2>2. /\ Cardinality(here) \in 1..3
        /\ Distinct(here, "output") /\ Distinct(here, "gpio")
        /\ UNION {{o.strip} \X (1..o.pixels) : o \in here}
              = UNION {{o.strip} \X (1..LengthOf(p, o.strip)) : o \in OutputsOf(p, id)}
    BY <2>1, LaidOutOutputs DEF l
  <2>3. Cardinality(UNION {{o.strip} \X (1..o.pixels) : o \in here}) = OutputPixels(p, id)
    BY <2>2 DEF OutputPixels
  <2> QED
    BY <2>1, <2>2, <2>3 DEF id
<1>13. IndependentOutputs(l)
  BY <1>10, <1>11, <1>12 DEF IndependentOutputs
<1> QED
  BY <1>13 DEF l

LEMMA PlayablePixels ==
    ASSUME NEW p, Playable(p), NEW id \in NodeIds(p)
    PROVE  OutputPixels(p, id) \in Nat /\ OutputPixels(p, id) >= 1
<1> DEFINE mine == OutputsOf(p, id)
<1> DEFINE Of(o) == {o.strip} \X (1..LengthOf(p, o.strip))
<1> DEFINE S == {Of(o) : o \in mine}
<1>1. p \in Profiles /\ Accepted(p)
  BY DEF Playable
<1>2. IsFiniteSet(mine) /\ mine # {} /\ \A o \in mine : o.strip \in StripIds(p)
  BY PlayableOutputs
<1>3. \A o \in mine : LengthOf(p, o.strip) \in Nat \ {0}
  BY <1>1, <1>2, StripLength
<1>4. ASSUME NEW o \in mine
      PROVE  IsFiniteSet(Of(o)) /\ <<o.strip, 1>> \in Of(o)
  <2>1. IsFiniteSet({o.strip}) /\ IsFiniteSet(1..LengthOf(p, o.strip))
    <3>1. IsFiniteSet({o.strip})
      BY FS_Singleton
    <3>2. 1 \in Int /\ LengthOf(p, o.strip) \in Int
      BY <1>3
    <3>3. IsFiniteSet(1..LengthOf(p, o.strip))
      BY ONLY <3>2, FS_Interval
    <3> QED
      BY <3>1, <3>3
  <2>2. IsFiniteSet(Of(o))
    BY <2>1, FS_Product
  <2> QED
    BY <1>3, <2>2
<1> HIDE DEF Of, mine
<1>5. IsFiniteSet(S)
  <2> DEFINE g == [o \in mine |-> Of(o)]
  <2>1. g \in Surjection(mine, S)
    BY DEF Surjection
  <2> HIDE DEF g, S
  <2> QED
    BY <1>2, <2>1, FS_Surjection
<1>6. IsFiniteSet(UNION S)
  <2>1. \A T \in S : IsFiniteSet(T)
    BY <1>4
  <2> HIDE DEF S
  <2> QED
    BY <1>5, <2>1, FS_UNION
<1>7. UNION S # {}
  BY <1>2, <1>4
<1> HIDE DEF S
<1>8. Cardinality(UNION S) \in Nat /\ Cardinality(UNION S) # 0
  BY <1>6, <1>7, FS_CardinalityType, FS_EmptySet
<1>9. OutputPixels(p, id) = Cardinality(UNION S)
  BY DEF OutputPixels, S, Of, mine
<1> QED
  BY <1>8, <1>9

LEMMA PlayableMapping ==
    ASSUME NEW p, Playable(p)
    PROVE  PhysicallyValid(Layout(p))
<1> DEFINE l == Layout(p)
<1>1. /\ p \in Profiles /\ Parsed(p) /\ OutputsFit(p) /\ AnalogFits(p) /\ NodesFit(p) /\ p.topology = 3
      /\ p.analog # <<>> \/ p.policy \in OneOutput
  BY ProfilesAssumption DEF Playable, Accepted
<1>2. /\ l.topology = 3 /\ l.policy = p.policy /\ l.zones = p.zones
      /\ l.analog = p.analog /\ l.segments = <<>>
      /\ l.nodes = LayoutNodes(p) /\ l.outputs = LayoutOutputs(p)
  BY <1>1, LayoutOf DEF LayoutAnalog, LayoutSegments, OutputsFit
<1>3. /\ DOMAIN l.nodes = DOMAIN p.nodes
      /\ \A i \in DOMAIN p.nodes :
            /\ l.nodes[i].node = p.nodes[i].node /\ l.nodes[i].version = 3
            /\ l.nodes[i].pixels = OutputPixels(p, p.nodes[i].node)
            /\ p.nodes[i].node >= 1
  BY <1>2, PlayableNodes
<1>4. l.outputs # <<>>
  <2>1. 1 \in DOMAIN p.outputs
    BY <1>1, ListHead DEF Parsed, OutputsFit
  <2>2. 1 \in DOMAIN l.outputs
    BY <1>1, <1>2, <2>1, LayoutOf
  <2> QED
    BY <2>2
<1>5. IndependentOutputs(l)
  BY PlayableIndependent
<1>6. Each(l.nodes, "node") = Each(p.nodes, "node")
  BY <1>3 DEF Each
<1> HIDE DEF l
<1>7. \/ Len(l.analog) = AnalogNodes(l.topology)
      \/ l.policy \in OneOutput /\ l.analog = <<>> /\ l.zones = <<>>
  BY <1>1, <1>2 DEF AnalogFits
<1>8. \A i \in DOMAIN l.analog : l.analog[i].node >= 1 /\ l.analog[i].zone \in ZoneIds(l)
  BY <1>1, <1>2 DEF AnalogFits, ZoneIds
<1>9. IsInjective(Each(l.analog, "node") \o Each(l.nodes, "node"))
  BY <1>1, <1>2, <1>6 DEF NodesFit
<1>10. ASSUME NEW i \in DOMAIN l.nodes
       PROVE  /\ l.nodes[i].node >= 1 /\ l.nodes[i].pixels >= 1 /\ l.nodes[i].version = 3
  <2>1. p.nodes[i].node \in NodeIds(p)
    BY <1>3 DEF NodeIds, Each, ToSet
  <2> QED
    BY <1>3, <2>1, PlayablePixels
<1>11. SegmentsFit(l)
  <2>1. DOMAIN l.segments = {}
    BY <1>2
  <2>2. IsInjective(Each(l.segments, "id"))
    BY <2>1 DEF IsInjective, Each
  <2>3. Disjoint([i \in DOMAIN l.segments |->
                    {l.segments[i].node} \X Span(l.segments[i].offset, l.segments[i].pixels)])
    BY <2>1 DEF Disjoint
  <2> QED
    BY <2>1, <2>2, <2>3 DEF SegmentsFit
<1>12. PhysicallyValid(l)
  BY <1>4, <1>5, <1>7, <1>8, <1>9, <1>10, <1>11 DEF PhysicallyValid
<1> QED
  BY <1>12 DEF l

LEMMA IntervalIsPositive == ASSUME NEW n \in 1..MaxInterval PROVE n >= 1
<1>1. MaxLead \in Int
  BY SMT DEF MaxLead
<1>2. MaxInterval \in Int
  BY ONLY <1>1 DEF MaxInterval
<1> QED
  BY <1>2

LEMMA SpacingIsNatural == ASSUME NEW n \in 1..MaxLead PROVE n >= 0
<1>1. MaxLead \in Int
  BY SMT DEF MaxLead
<1> QED
  BY ONLY Zenon, <1>1, NaturalRange, n \in 1..MaxLead

LEMMA PlayableSender ==
    ASSUME NEW p, Playable(p)
    PROVE  SenderBuilds(p)
<1>1. PresentationFits(p.presentation) /\ HostsApart(p)
  BY DEF Playable, Accepted
<1>2. ASSUME NEW i \in DOMAIN p.nodes, NEW j \in DOMAIN p.nodes,
             p.nodes[i].enabled, p.nodes[j].enabled, p.nodes[i].host = p.nodes[j].host
      PROVE  i = j
  <2>1. p.nodes[i] = p.nodes[j]
    BY <1>1, <1>2 DEF HostsApart, ToSet
  <2> QED
    BY <2>1, PlayableNodes
<1>3. ASSUME p.presentation.mode = "scheduled"
      PROVE  LET s == p.presentation
             IN  /\ s.lead_us \in 1..MaxLead
                 /\ s.session_start_repeats \in 2..10
                 /\ s.session_start_spacing_us \in 0..MaxRepeatSpacing
                 /\ s.interval_us >= 1 /\ s.startup_count >= 1 /\ s.startup_spacing_us >= 0
  <2> DEFINE s == p.presentation
  <2>1. /\ s.lead_us \in 1..MaxLead /\ s.session_start_repeats \in 2..10
        /\ s.session_start_spacing_us \in 0..MaxRepeatSpacing
        /\ s.interval_us \in 1..MaxInterval /\ s.startup_count \in 3..32 /\ s.startup_spacing_us \in 1..MaxLead
    BY <1>1, <1>3 DEF PresentationFits
  <2> HIDE DEF s
  <2>2. s.startup_count >= 1
    BY <2>1
  <2>3. s.interval_us >= 1 /\ s.startup_spacing_us >= 0
    BY <2>1, IntervalIsPositive, SpacingIsNatural
  <2> QED
    BY <2>1, <2>2, <2>3 DEF s
<1> QED
  BY <1>2, <1>3 DEF SenderBuilds

(* A topology 3 profile that is accepted is loaded. *)
LEMMA PlayableLoads ==
    ASSUME NEW p, Playable(p)
    PROVE  Loads(p)
  BY PlayableLayout, PlayableMapping, PlayableSender DEF Loads

-----------------------------------------------------------------------------
(* And every frame of it is encoded *)

(* What the widths of the wire leave room for. *)
LEMMA WireRoom ==
    ASSUME NEW max \in MinChunkDatagram..MaxUdpPayload
    PROVE  /\ max \in Int /\ PixelsPerChunk(max) \in Nat \ {0}
           /\ \A n \in 0..PixelsPerChunk(max) :
                 /\ Header + ChunkDescriptor + 3 * n + Crc <= max
                 /\ ChunkDescriptor + 3 * n <= MaxUint16
<1>1. max \in Int /\ 46 <= max /\ max <= MaxUdpPayload /\ MaxUdpPayload \in Int
  BY Zenon, PayloadKnown
<1>2. MaxUdpPayload <= MaxUint16 /\ MaxUint16 \in Int
  BY SMT DEF MaxUdpPayload, MaxUint16
<1>3. PixelsPerChunk(max) = (max - 43) \div 3 /\ Header = 29 /\ ChunkDescriptor = 10 /\ Crc = 4
  BY ONLY <1>1 DEF PixelsPerChunk, Header, ChunkDescriptor, Crc
<1> QED
  BY ONLY <1>1, <1>2, <1>3

LEMMA WireCount == ASSUME NEW n \in Nat \ {0}, n <= MaxUint16 PROVE n \in 1..MaxUint16
<1>1. MaxUint16 \in Int
  BY SMT DEF MaxUint16
<1> QED
  BY <1>1

(* A node frame whose outputs fit the wire. *)
LEMMA WiredFrame ==
    ASSUME NEW f, f.node \in 1..MaxByte, f.max \in MinChunkDatagram..MaxUdpPayload,
           NEW seq, Tidy(f.outputs, seq),
           \A i \in DOMAIN f.outputs :
              /\ f.outputs[i].output \in 1..MaxByte /\ f.outputs[i].gpio \in 0..MaxByte
              /\ Len(f.outputs[i].pixels) <= MaxUint16
    PROVE  /\ Encodable(f)
           /\ \A d \in Datagrams(f, seq) :
                 /\ d.size <= f.max
                 /\ d.type = "chunk" => ChunkPacketValid(d) /\ d.size \in Int /\ Header + ChunkDescriptor + Crc <= d.size
<1> DEFINE outputs == f.outputs
<1>1. Encodable(f)
  BY DEF Encodable, Tidy, MaxOutputs
<1> DEFINE room == PixelsPerChunk(f.max)
<1>2. /\ f.max \in Int /\ room \in Nat \ {0}
      /\ \A n \in 0..room : Header + ChunkDescriptor + 3 * n + Crc <= f.max /\ ChunkDescriptor + 3 * n <= MaxUint16
  BY WireRoom
<1>3. CASE FitsWhole(f)
  <2>1. Datagrams(f, seq) = {Complete(f, seq)}
    BY <1>3 DEF Datagrams
  <2>2. Complete(f, seq).type = "frame" /\ Complete(f, seq).size = CompleteSize(f)
    BY DEF Complete
  <2>3. CompleteSize(f) <= f.max
    BY <1>3 DEF FitsWhole
  <2> QED
    BY <1>1, <2>1, <2>2, <2>3
<1>4. ASSUME ~FitsWhole(f), NEW d \in Datagrams(f, seq)
      PROVE  d.size <= f.max /\ ChunkPacketValid(d) /\ d.size \in Int /\ Header + ChunkDescriptor + Crc <= d.size
  <2>1. Datagrams(f, seq) = UNION {ChunksOf(f, outputs[i], seq, room) : i \in DOMAIN outputs}
    BY <1>4 DEF Datagrams, ToSet
  <2>2. PICK i \in DOMAIN outputs : d \in ChunksOf(f, outputs[i], seq, room)
    BY <1>4, <2>1
  <2> DEFINE o == outputs[i]
  <2> DEFINE total == Len(o.pixels)
  <2>3. PICK c \in PiecesOf(total, room) : d = ChunkOf(f, o, seq, room, c)
    BY <2>2, ChunksAre
  <2>4. IsList(o.pixels) /\ total \in Nat \ {0} /\ total <= MaxUint16
    BY <2>2 DEF Tidy
  <2>5. o.output \in 1..MaxByte /\ o.gpio \in 0..MaxByte
    BY <2>2
  <2> HIDE DEF room, o
  <2> DEFINE n == Len(d.pixels)
  <2>6. /\ n \in 1..room /\ DOMAIN d.pixels = 1..n
        /\ d.offset \in Nat /\ d.offset + n <= total
        /\ d.size = Header + ChunkDescriptor + 3 * n + Crc
    <3>1. LET d_ == ChunkOf(f, o, seq, room, c)
              begin == Begins(c, room)
              end == Stops(c, room, Len(o.pixels))
          IN  /\ begin \in Nat /\ end \in Nat /\ end <= Len(o.pixels)
              /\ Len(d_.pixels) \in 1..room /\ DOMAIN d_.pixels = 1..Len(d_.pixels)
              /\ d_.offset = begin /\ begin + Len(d_.pixels) = end
              /\ d_.size = Header + ChunkDescriptor + 3 * Len(d_.pixels) + Crc
      <4>1. IsList(o.pixels) /\ Len(o.pixels) \in Nat \ {0} /\ room \in Nat \ {0} /\ c \in PiecesOf(Len(o.pixels), room)
        BY <1>2, <2>3, <2>4
      <4> QED
        BY ONLY <4>1, OneChunk
    <3> QED
      BY <2>3, <3>1
  <2>7. d.node = f.node /\ d.output = o.output /\ d.gpio = o.gpio /\ d.total = total
    BY <2>3 DEF ChunkOf
  <2>8. d.pixels # <<>>
    <3>1. 1 \in DOMAIN d.pixels
      BY <1>2, <2>6
    <3> QED
      BY <3>1
  <2>9. n \in 0..room
    BY <1>2, <2>6
  <2>10. d.size <= f.max /\ ChunkDescriptor + Payload(d.pixels) <= MaxUint16
    BY <1>2, <2>6, <2>9 DEF Payload
  <2>11. d.total \in 1..MaxUint16
    BY <2>4, <2>7, WireCount
  <2>12. d.size \in Int /\ Header + ChunkDescriptor + Crc <= d.size
    BY <1>2, <2>6 DEF Header, ChunkDescriptor, Crc
  <2> QED
    BY <2>5, <2>6, <2>7, <2>8, <2>10, <2>11, <2>12 DEF ChunkPacketValid
<1> QED
  BY <1>1, <1>3, <1>4

LEMMA PlayableV3 ==
    ASSUME NEW p, Playable(p), "udp_v3" \in p.enabled, NEW n \in ToSet(Layout(p).nodes)
    PROVE  Encodes(NodeFrame(Layout(p), n, Picture(p, 1), Black))
<1>1. p \in Profiles /\ Parsed(p) /\ Accepted(p) /\ NodesFit(p) /\ WireSized(p) /\ Loads(p)
  BY ProfilesAssumption, PlayableLoads DEF Playable, Accepted
<1>2. PICK k \in DOMAIN p.nodes : n = LayoutNode(p, p.nodes[k])
  BY <1>1, LayoutOf, PlayableNodes DEF ToSet
<1> DEFINE id == n.node
<1>3. id = p.nodes[k].node /\ id \in NodeIds(p)
  BY <1>2, PlayableNodes DEF NodeIds, Each, ToSet
<1>4. id \in 1..MaxByte
  <2>1. id \in Int /\ id >= 1
    BY <1>2, <1>3, PlayableNodes
  <2>2. id <= MaxByte
    BY <1>1, <1>3 DEF WireSized
  <2> QED
    BY <2>1, <2>2 DEF MaxByte
<1>5. n.max \in MinChunkDatagram..MaxUdpPayload
  <2>1. NodeFits(p, p.nodes[k]) /\ p.nodes[k] \in ToSet(p.nodes)
    BY <1>1, <1>2 DEF NodesFit, ToSet
  <2> QED
    BY <1>1, <1>2, <2>1, PayloadOf
<1>6. /\ OutputsOf(p, id) # {}
      /\ \A o \in OutputsOf(p, id) :
            o.output \in 1..MaxByte /\ o.gpio \in 0..MaxByte /\ o.strip \in StripIds(p)
  BY <1>3, PlayableOutputs
<1> DEFINE outputs == OutputFrames(Layout(p), n.node, Picture(p, 1))
<1>7. Tidy(outputs, 1) /\ Lengths(outputs) = Promised(p, n.node)
  BY ONLY <1>1, <1>6, n \in ToSet(Layout(p).nodes), FrameOutputs
<1> HIDE DEF outputs
<1>8. ASSUME NEW i \in DOMAIN outputs
      PROVE  /\ outputs[i].output \in 1..MaxByte /\ outputs[i].gpio \in 0..MaxByte
             /\ Len(outputs[i].pixels) <= MaxUint16
  <2> DEFINE x == [output |-> outputs[i].output, gpio |-> outputs[i].gpio, pixels |-> Len(outputs[i].pixels)]
  <2>1. x \in Promised(p, id)
    BY <1>7 DEF Lengths
  <2>2. PICK o \in OutputsOf(p, id) : x = [output |-> o.output, gpio |-> o.gpio, pixels |-> LengthOf(p, o.strip)]
    BY <2>1 DEF Promised
  <2>3. outputs[i].output = o.output /\ outputs[i].gpio = o.gpio /\ Len(outputs[i].pixels) = LengthOf(p, o.strip)
    BY <2>2
  <2>4. LengthOf(p, o.strip) <= MaxUint16
    BY <1>1, <1>6, StripLength DEF WireSized
  <2> QED
    BY <1>6, <2>3, <2>4
<1> DEFINE f == NodeFrame(Layout(p), n, Picture(p, 1), Black)
<1>9. f.node = id /\ f.max = n.max /\ f.outputs = outputs
  BY DEF NodeFrame, outputs
<1> HIDE DEF f
<1>10. Encodable(f) /\ \A d \in Datagrams(f, 1) : d.size <= f.max /\ (d.type = "chunk" => ChunkPacketValid(d))
  BY <1>4, <1>5, <1>7, <1>8, <1>9, WiredFrame
<1>11. PixelsPerChunk(f.max) >= 1
  <2>1. PixelsPerChunk(f.max) \in Nat \ {0}
    BY <1>5, <1>9, WireRoom
  <2> QED
    BY <2>1
<1>12. Encodes(f)
  BY <1>10, <1>11 DEF Encodes
<1> QED
  BY <1>12 DEF f

(* A version 2 packet to a version 3 node is empty. *)
LEMMA PlayableV2 ==
    ASSUME NEW p, Playable(p), NEW n \in ToSet(Layout(p).nodes)
    PROVE  V2Fits(NodeFrame(Layout(p), n, Picture(p, 1), Black))
<1> DEFINE f == NodeFrame(Layout(p), n, Picture(p, 1), Black)
<1>1. p \in Profiles /\ WireSized(p)
  BY DEF Playable
<1>2. PICK k \in DOMAIN p.nodes : n = LayoutNode(p, p.nodes[k])
  BY <1>1, LayoutOf, PlayableNodes DEF ToSet
<1>3. n.version = 3 /\ n.node = p.nodes[k].node /\ n.node \in NodeIds(p)
  BY <1>2, PlayableNodes DEF NodeIds, Each, ToSet
<1>4. f.node = n.node /\ f.pixels = <<>>
  BY <1>3 DEF NodeFrame
<1>5. n.node <= MaxByte
  BY <1>1, <1>3 DEF WireSized
<1>6. 3 * 0 <= MaxUint16
  BY SMT DEF MaxUint16
<1> HIDE DEF f
<1>7. V2Fits(f)
  BY <1>4, <1>5, <1>6 DEF V2Fits
<1> QED
  BY <1>7 DEF f

LEMMA PlayableEncodes ==
    ASSUME NEW p, Playable(p)
    PROVE  FrameEncodes(p)
<1>1. ASSUME "udp_v3" \in p.enabled
      PROVE  \A f \in FramesOf(p, 1) : f.enabled => Encodes(f)
  BY <1>1, PlayableV3 DEF FramesOf
<1>2. \A f \in FramesOf(p, 1) : V2Fits(f)
  BY PlayableV2 DEF FramesOf
<1>3. ASSUME "rs485_v2" \in p.enabled, NEW a \in ToSet(LayoutAnalog(p))
      PROVE  BusFits(a)
  <2>1. p.topology = 3 /\ WireSized(p)
    BY DEF Playable
  <2>2. LayoutAnalog(p) = p.analog
    BY <2>1 DEF LayoutAnalog
  <2>3. PICK i \in DOMAIN p.analog : a = p.analog[i]
    BY <1>3, <2>2 DEF ToSet
  <2> QED
    BY <1>3, <2>1, <2>3 DEF WireSized
<1> QED
  BY <1>1, <1>2, <1>3 DEF FrameEncodes

-----------------------------------------------------------------------------

PlaysInv ==
    /\ profile \in Profiles
    /\ phase = "loaded" => Accepted(profile)
    /\ AcceptedPlays

LEMMA PlaysNext ==
    ASSUME PlaysInv, [Next]_vars
    PROVE  PlaysInv'
<1> DEFINE Hypothesis(p) ==
       /\ p.topology = 3 /\ Oriented(p) /\ WireSized(p) /\ HostsApart(p)
       /\ p.analog # <<>> \/ p.policy \in OneOutput
<1>1. /\ profile \in Profiles /\ (phase = "loaded" => Accepted(profile))
      /\ Hypothesis(profile) => phase \notin {"failed", "dropping"}
  BY DEF PlaysInv, AcceptedPlays
<1>2. Hypothesis(profile) /\ Accepted(profile) => Playable(profile)
  BY <1>1 DEF Playable
<1> HIDE DEF Hypothesis
<1>3. profile' = profile
  BY DEF Next, vars, Refuse, Load, Open, Send, Hear
<1>4. CASE UNCHANGED phase
  BY <1>1, <1>3, <1>4
       DEF PlaysInv, AcceptedPlays
<1>5. CASE Refuse
  <2>1. phase' = "refused"
    BY <1>5 DEF Refuse
  <2> QED
    BY <1>1, <1>3, <2>1 DEF PlaysInv, AcceptedPlays
<1>6. CASE Load
  <2>1. Accepted(profile) /\ phase' = IF ~Loads(profile) THEN "failed" ELSE "loaded"
    BY <1>6 DEF Load
  <2>2. Hypothesis(profile) => phase' \notin {"failed", "dropping"}
    BY <1>2, <2>1, PlayableLoads
  <2> QED
    BY <1>1, <1>3, <2>1, <2>2 DEF PlaysInv, AcceptedPlays, Hypothesis
<1>7. CASE Open
  <2>1. Accepted(profile)
    BY <1>1, <1>7 DEF Open
  <2>2. FrameEncodes(profile) => phase' = "playing"
    BY <1>7 DEF Open
  <2>3. Hypothesis(profile) => phase' \notin {"failed", "dropping"}
    BY <1>2, <2>1, <2>2, PlayableEncodes
  <2> QED
    BY <1>1, <1>3, <2>1, <2>2, <2>3 DEF PlaysInv, AcceptedPlays, Hypothesis
<1> QED
  BY <1>4, <1>5, <1>6, <1>7 DEF Next, vars, Send, Hear

(* A topology 3 profile that validate_config accepts is loaded, and each of its *)
(* outputs encodes every frame, if besides its strips and zones name a direction *)
(* and a video zone that exist, its numbers fit the wire and the RS-485 bus, its *)
(* enabled nodes have hosts of their own, and it has an analog node or a *)
(* one-output policy. *)
THEOREM AcceptedProfilePlays == Spec => []AcceptedPlays
<1>1. Init => PlaysInv
  BY DEF Init, PlaysInv, AcceptedPlays
<1>2. PlaysInv /\ [Next]_vars => PlaysInv'
  BY PlaysNext
<1>3. PlaysInv => AcceptedPlays
  BY DEF PlaysInv
<1> QED
  BY <1>1, <1>2, <1>3, PTL DEF Spec

-----------------------------------------------------------------------------
(* The host's receiver beside the node *)

(* A light of a datagram is a pixel of the frame, at its LED. *)
LEMMA LightIsPixel ==
    ASSUME NEW f, NEW seq, Tidy(f.outputs, seq), f.max \in MinChunkDatagram..MaxUdpPayload,
           NEW d \in Datagrams(f, seq), NEW l \in Lights(d)
    PROVE  \E i \in DOMAIN f.outputs : \E k \in 1..Len(f.outputs[i].pixels) :
              l = <<<<f.outputs[i].output, k>>, f.outputs[i].pixels[k]>>
<1> DEFINE outputs == f.outputs
<1>1. CASE FitsWhole(f)
  <2>1. d = Complete(f, seq)
    BY <1>1 DEF Datagrams
  <2>2. d.type = "frame" /\ d.outputs = outputs
    BY <2>1 DEF Complete
  <2>3. PICK i \in DOMAIN outputs : \E k \in DOMAIN outputs[i].pixels :
           l = <<<<outputs[i].output, k>>, outputs[i].pixels[k]>>
    BY <2>2 DEF Lights, FrameLeds
  <2>4. DOMAIN outputs[i].pixels = 1..Len(outputs[i].pixels)
    BY ListDomain DEF Tidy
  <2> QED
    BY <2>3, <2>4
<1>2. CASE ~FitsWhole(f)
  <2> DEFINE room == PixelsPerChunk(f.max)
  <2>1. PICK i \in DOMAIN outputs : d \in ChunksOf(f, outputs[i], seq, room)
    BY <1>2 DEF Datagrams, ToSet
  <2> DEFINE o == outputs[i]
  <2>2. PICK j \in PiecesOf(Len(o.pixels), room) : d = ChunkOf(f, o, seq, room, j)
    BY <2>1, ChunksAre
  <2>3. IsList(o.pixels) /\ Len(o.pixels) \in Nat \ {0} /\ room \in Nat \ {0}
    BY <2>1, WireRoom DEF Tidy
  <2> HIDE DEF room, o
  <2>4. /\ d.offset \in Nat /\ DOMAIN d.pixels = 1..Len(d.pixels) /\ Len(d.pixels) \in Int
        /\ d.offset + Len(d.pixels) <= Len(o.pixels)
        /\ \A k \in 1..Len(d.pixels) : d.pixels[k] = o.pixels[d.offset + k]
    <3>1. LET c == ChunkOf(f, o, seq, room, j)
              begin == Begins(j, room)
              end == Stops(j, room, Len(o.pixels))
          IN  /\ begin \in Nat /\ end \in Nat /\ end <= Len(o.pixels)
              /\ Len(c.pixels) \in 1..room /\ DOMAIN c.pixels = 1..Len(c.pixels)
              /\ c.offset = begin /\ begin + Len(c.pixels) = end
              /\ \A k \in 1..Len(c.pixels) : c.pixels[k] = o.pixels[begin + k]
      BY ONLY <2>2, <2>3, OneChunk
    <3> QED
      BY <2>2, <2>3, <3>1
  <2>5. d.type = "chunk" /\ d.output = o.output
    BY <2>2 DEF ChunkOf
  <2>6. PICK k \in 1..Len(d.pixels) : l = <<<<o.output, d.offset + k>>, d.pixels[k]>>
    BY <2>4, <2>5 DEF Lights, ChunkLeds
  <2>7. d.offset + k \in 1..Len(o.pixels)
    BY ONLY <2>3, <2>4, k \in 1..Len(d.pixels)
  <2>8. l = <<<<o.output, d.offset + k>>, o.pixels[d.offset + k]>>
    BY ONLY <2>4, <2>6
  <2> QED
    BY <2>1, <2>7, <2>8 DEF o
<1> QED
  BY <1>1, <1>2

(* The pixels of a frame, of which each LED has one. *)
LEMMA PaintedOnce ==
    ASSUME NEW f, NEW seq, Tidy(f.outputs, seq), f.max \in MinChunkDatagram..MaxUdpPayload,
           NEW d \in Datagrams(f, seq), NEW e \in Datagrams(f, seq),
           NEW l \in Lights(d), NEW m \in Lights(e), l[1] = m[1]
    PROVE  l[2] = m[2]
<1> DEFINE outputs == f.outputs
<1>1. PICK i \in DOMAIN outputs : \E k \in 1..Len(outputs[i].pixels) :
         l = <<<<outputs[i].output, k>>, outputs[i].pixels[k]>>
  BY LightIsPixel
<1>2. PICK j \in DOMAIN outputs : \E k \in 1..Len(outputs[j].pixels) :
         m = <<<<outputs[j].output, k>>, outputs[j].pixels[k]>>
  BY LightIsPixel
<1>3. outputs[i].output = outputs[j].output
  BY <1>1, <1>2
<1>4. i = j
  BY <1>1, <1>2, <1>3 DEF Tidy, Apart
<1> QED
  BY <1>1, <1>2, <1>4

(* What a node's payload keeps from being too long for the host's decoder. *)
LEMMA PayloadDecodes ==
    ASSUME NEW max \in MinChunkDatagram..MaxUdpPayload, NEW size \in Int, size <= max
    PROVE  size <= MaxPayload
<1>1. max \in Int /\ max <= MaxUdpPayload /\ MaxUdpPayload \in Int
  BY Zenon, PayloadKnown
<1>2. MaxPayload = MaxUdpPayload
  BY SMT DEF MaxPayload, MaxUdpPayload
<1> QED
  BY <1>1, <1>2

(* The host's receiver can be made for the outputs of a frame that was encoded. *)
LEMMA TwinOf ==
    ASSUME NEW E, NEW f, NEW seq, Built(E, f.outputs, seq), Encodable(f)
    PROVE  TwinMade(f.node, E)
<1> DEFINE outputs == f.outputs
<1>1. /\ f.node \in 1..MaxByte
      /\ \A i \in DOMAIN outputs :
            /\ outputs[i].output \in 1..MaxByte /\ outputs[i].gpio \in 0..MaxByte
            /\ Len(outputs[i].pixels) <= MaxUint16
  BY DEF Encodable
<1>2. /\ Len(E) \in 1..MaxOutputs /\ Apart(E, "output") /\ Apart(E, "gpio")
      /\ \A i \in DOMAIN outputs : Len(outputs[i].pixels) \in Nat \ {0}
      /\ Lengths(outputs) = ToSet(E)
  BY DEF Built, ConfigurationValid, Tidy
<1>3. ASSUME NEW i \in DOMAIN E
      PROVE  E[i].output \in 1..MaxByte /\ E[i].gpio \in 0..MaxByte /\ E[i].pixels \in 1..MaxUint16
  <2>1. E[i] \in Lengths(outputs)
    BY <1>2 DEF ToSet
  <2>2. PICK j \in DOMAIN outputs :
           E[i] = [output |-> outputs[j].output, gpio |-> outputs[j].gpio, pixels |-> Len(outputs[j].pixels)]
    BY <2>1 DEF Lengths
  <2>3. Len(outputs[j].pixels) \in 1..MaxUint16
    BY <1>1, <1>2, WireCount
  <2> QED
    BY <1>1, <2>2, <2>3
<1> QED
  BY <1>1, <1>2, <1>3 DEF TwinMade

(* It is made like the node it stands beside, and decodes what that is sent. *)
LEMMA TwinDecodes ==
    ASSUME Known, Agreed, FrameEncodes(profile), NEW seq, NEW d \in Outgoing(profile, receiver, seq)
    PROVE  LET E == receiver.outputs
           IN  /\ TwinMade(receiver.node, E)
               /\ d.type = "frame" => DecodesFrame(d, receiver.node, E)
               /\ d.type = "chunk" => DecodesChunk(d, receiver.node) /\ Configured(E, d.output, d.gpio, d.total)
               /\ \A e \in Outgoing(profile, receiver, seq) : \A l \in Lights(d), m \in Lights(e) :
                     l[1] = m[1] => l[2] = m[2]
<1> DEFINE E == receiver.outputs
<1>1. PICK n \in ToSet(Layout(profile).nodes) :
         /\ n.max \in MinChunkDatagram..ReceiveBuffer /\ n.max \in MinChunkDatagram..MaxUdpPayload
         /\ \A s :
               /\ FrameOf(n, s).node = receiver.node /\ FrameOf(n, s).max = n.max
               /\ FrameOf(n, s).enabled = n.enabled
               /\ Built(E, FrameOf(n, s).outputs, s)
               /\ Outgoing(profile, receiver, s) = IF n.enabled THEN Datagrams(FrameOf(n, s), s) ELSE {}
  BY AgreedFrame
<1>2. n.enabled
  BY <1>1
<1> DEFINE f == FrameOf(n, seq)
<1>3. d \in Datagrams(f, seq)
  BY <1>1, <1>2
<1>4. Encodable(FrameOf(n, 1))
  <2>1. FrameOf(n, 1) \in FramesOf(profile, 1)
    BY <1>1 DEF FramesOf, FrameOf
  <2>2. Encodes(FrameOf(n, 1))
    BY <1>1, <1>2, <2>1, AgreedNode DEF FrameEncodes
  <2> QED
    BY <2>2 DEF Encodes
<1>5. TwinMade(receiver.node, E)
  <2>1. TwinMade(FrameOf(n, 1).node, E)
    BY <1>1, <1>4, TwinOf
  <2> QED
    BY <1>1, <2>1
<1>6. /\ f.node \in 1..MaxByte /\ f.node = receiver.node /\ f.max = n.max
      /\ Built(E, f.outputs, seq) /\ Tidy(f.outputs, seq) /\ Lengths(f.outputs) = ToSet(E)
  BY <1>1, <1>4 DEF Encodable, Built
<1> HIDE DEF f
<1>7. /\ d.size <= n.max
      /\ d.type = "chunk" => ChunkPacketValid(d) /\ d.size \in Int /\ Header + ChunkDescriptor + Crc <= d.size
  <2>1. ASSUME NEW i \in DOMAIN f.outputs
        PROVE  /\ f.outputs[i].output \in 1..MaxByte /\ f.outputs[i].gpio \in 0..MaxByte
               /\ Len(f.outputs[i].pixels) <= MaxUint16
    <3>1. [output |-> f.outputs[i].output, gpio |-> f.outputs[i].gpio, pixels |-> Len(f.outputs[i].pixels)] \in ToSet(E)
      BY <1>6 DEF Lengths
    <3>2. PICK j \in DOMAIN E :
             E[j] = [output |-> f.outputs[i].output, gpio |-> f.outputs[i].gpio, pixels |-> Len(f.outputs[i].pixels)]
      BY <3>1 DEF ToSet
    <3>3. E[j].output \in 1..MaxByte /\ E[j].gpio \in 0..MaxByte /\ E[j].pixels \in 1..MaxUint16
      BY <1>5 DEF TwinMade
    <3>4. E[j].pixels <= MaxUint16
      BY <3>3
    <3> QED
      BY <3>2, <3>3, <3>4
  <2> QED
    BY <1>1, <1>3, <1>6, <2>1, WiredFrame
<1>8. Fits(d, receiver.node, E, seq) /\ d.type = (IF FitsWhole(f) THEN "frame" ELSE "chunk")
  BY <1>1, <1>3, <1>6, FrameDatagrams
<1>9. FitsWhole(f) => d = Complete(f, seq)
  BY <1>3 DEF Datagrams
<1>10. ASSUME d.type = "frame"
       PROVE  DecodesFrame(d, receiver.node, E)
  <2>1. /\ d.node = receiver.node /\ d.outputs = f.outputs /\ d.size = CompleteSize(f)
    BY <1>6, <1>8, <1>9, <1>10 DEF Complete
  <2>2. CompleteSize(f) \in Int
    <3>1. Cardinality(Leds(E)) \in Nat /\ Len(f.outputs) = Len(E) /\ Len(f.outputs) \in 1..3
      BY <1>6, SameSizes DEF Tidy
    <3>2. Sizes(f.outputs, OutputDescriptor) = OutputDescriptor * Len(E) + 3 * Cardinality(Leds(E))
      BY <1>6, SizeKnown
    <3> QED
      BY <3>1, <3>2 DEF CompleteSize, Header, OutputDescriptor, Crc
  <2>3. d.size <= MaxPayload
    BY <1>1, <1>7, <2>1, <2>2, PayloadDecodes
  <2>4. {[output |-> o.output, gpio |-> o.gpio, pixels |-> Len(o.pixels)] : o \in ToSet(f.outputs)} = Lengths(f.outputs)
    BY DEF Lengths, ToSet
  <2>5. Len(f.outputs) \in 1..MaxOutputs /\ Apart(f.outputs, "output") /\ Apart(f.outputs, "gpio")
    BY <1>6 DEF Tidy, MaxOutputs
  <2> QED
    BY <1>6, <1>10, <2>1, <2>3, <2>4, <2>5 DEF DecodesFrame
<1>11. ASSUME d.type = "chunk"
       PROVE  DecodesChunk(d, receiver.node) /\ Configured(E, d.output, d.gpio, d.total)
  <2>1. ParsesChunk(d, receiver.node, E)
    BY <1>8, <1>11 DEF Fits, Parses, ParsesFrame
  <2>2. d.node = receiver.node /\ Configured(E, d.output, d.gpio, d.total)
    BY <2>1 DEF ParsesChunk
  <2>3. d.size \in Int
    BY <1>7, <1>11
  <2>4. d.size <= MaxPayload
    BY <1>1, <1>7, <2>3, PayloadDecodes
  <2>5. d.size \in (Header + ChunkDescriptor + Crc)..MaxPayload
    <3>1. Header + ChunkDescriptor + Crc \in Int /\ MaxPayload \in Int
      BY SMT DEF Header, ChunkDescriptor, Crc, MaxPayload
    <3>2. Header + ChunkDescriptor + Crc <= d.size
      BY <1>7, <1>11
    <3> QED
      BY <2>3, <2>4, <3>1, <3>2
  <2> QED
    BY <1>7, <1>11, <2>2, <2>5 DEF DecodesChunk
<1>12. ASSUME NEW e \in Outgoing(profile, receiver, seq), NEW l \in Lights(d), NEW m \in Lights(e), l[1] = m[1]
       PROVE  l[2] = m[2]
  <2>1. e \in Datagrams(f, seq)
    BY <1>1, <1>2 DEF f
  <2> QED
    BY <1>1, <1>3, <1>6, <1>12, <2>1, PaintedOnce
<1> QED
  BY <1>5, <1>10, <1>11, <1>12

(* The pixels sent of a frame. *)
Painted(seq) == UNION {Lights(c) : c \in Outgoing(profile, receiver, seq)}

(* Until a KEY comes late the two receivers know the same, and what the node *)
(* collects is newer than what it queued. *)
Mirrored ==
    /\ DOMAIN twin = {"active", "got", "completed", "returned"}
    /\ twin.active = rx.active /\ twin.got = rx.got /\ twin.completed = rx.completed
    /\ rx.active # 0 => rx.active > rx.last /\ rx.got \subseteq Painted(rx.active)

MirrorInv ==
    /\ NewestInv
    /\ IF phase = "playing" THEN FrameEncodes(profile) ELSE twin = NoTwin
    /\ Agreed /\ ~late => Mirrored

(* A KEY that is not late finds nothing newer. *)
LEMMA LateKey ==
    ASSUME NEW a \in Nat, NEW b \in Nat
    PROVE  Max({0, a, b}) \in Nat /\ a <= Max({0, a, b}) /\ b <= Max({0, a, b})
<1>1. \E x \in {0, a, b} : \A y \in {0, a, b} : x >= y
  <2>1. a <= b \/ b <= a
    OBVIOUS
  <2> QED
    BY <2>1
<1>2. Max({0, a, b}) \in {0, a, b} /\ \A y \in {0, a, b} : Max({0, a, b}) >= y
  BY <1>1 DEF Max
<1> QED
  BY <1>2

LEMMA MirrorHears ==
    ASSUME MirrorInv, Agreed, NEW seq \in 1..sent, NEW d \in air[seq], Hear(seq, d), ~late'
    PROVE  Mirrored' /\ (rx'.queued = 0 \/ rx'.queued # rx.last => twin'.returned = rx'.queued)
<1> DEFINE E == receiver.outputs
<1>1. /\ phase = "playing" /\ UNCHANGED <<profile, receiver, air>> /\ NodeHears(d) /\ TwinHears(d)
      /\ ~late /\ (IsKey(seq) => ~(Max({0, rx.active, rx.last}) > 1))
  BY DEF Hear, Agreed
<1>2. Journal /\ Collecting /\ Mirrored /\ FrameEncodes(profile)
  BY <1>1 DEF MirrorInv, NewestInv
<1>3. sent \in Nat /\ sent <= Frames /\ seq \in Nat /\ seq >= 1 /\ seq \in 1..Frames
  BY <1>2, ListDomain, SizesAssumption DEF Journal, sent
<1>4. Known /\ d \in Outgoing(profile, receiver, seq)
  BY <1>1, <1>2 DEF Journal, Known
<1>5. PICK kind \in {"frame", "chunk"} : \A s : \A c \in Outgoing(profile, receiver, s) :
         c.type = kind /\ Fits(c, receiver.node, E, s)
  BY <1>1, <1>4, AgreedDatagrams
<1>6. d.type \in {"frame", "chunk"} /\ d.seq = seq /\ Parses(d, receiver.node, E)
  BY <1>4, <1>5 DEF Fits
<1>7. /\ DOMAIN rx = {"active", "got", "completed", "last", "queued", "buffer"}
      /\ rx.completed = rx.last /\ rx.active \in Nat /\ rx.last \in Nat
      /\ rx.active = 0 => rx.got = {}
      /\ d.type = "frame" => rx.active = 0
  <2>1. rx.active # 0 => d.type = "chunk"
    BY <1>2, <1>3, <1>4 DEF Collecting
  <2> QED
    BY <1>2, <1>3, <2>1 DEF Collecting
<1>8. /\ DOMAIN twin = {"active", "got", "completed", "returned"}
      /\ twin.active = rx.active /\ twin.got = rx.got /\ twin.completed = rx.completed
      /\ rx.active # 0 => rx.active > rx.last /\ rx.got \subseteq Painted(rx.active)
  BY <1>2 DEF Mirrored
<1>9. seq = 1 => rx.active <= 1 /\ rx.last <= 1
  <2>1. LET m == Max({0, rx.active, rx.last}) IN m \in Nat /\ rx.active <= m /\ rx.last <= m
    BY <1>7, LateKey
  <2> QED
    BY <1>1, <1>7, <2>1 DEF IsKey
<1>10. /\ TwinMade(receiver.node, E)
       /\ d.type = "frame" => DecodesFrame(d, receiver.node, E)
       /\ d.type = "chunk" => DecodesChunk(d, receiver.node) /\ Configured(E, d.output, d.gpio, d.total)
       /\ \A e \in Outgoing(profile, receiver, seq) : \A l \in Lights(d), m \in Lights(e) :
             l[1] = m[1] => l[2] = m[2]
  BY <1>1, <1>2, <1>4, TwinDecodes
<1>11. ASSUME NodeIgnores, TwinIgnores
       PROVE  Mirrored' /\ twin'.returned = rx'.queued
  <2>1. /\ DOMAIN rx' = DOMAIN rx /\ rx'.active = rx.active /\ rx'.got = rx.got
        /\ rx'.completed = rx.completed /\ rx'.last = rx.last /\ rx'.queued = 0
    BY <1>7, <1>11 DEF NodeIgnores
  <2>2. /\ DOMAIN twin' = DOMAIN twin /\ twin'.active = twin.active /\ twin'.got = twin.got
        /\ twin'.completed = twin.completed /\ twin'.returned = 0
    BY <1>8, <1>11 DEF TwinIgnores
  <2>3. \A s : Painted(s)' = Painted(s)
    BY <1>1 DEF Painted
  <2> QED
    BY <1>1, <1>8, <2>1, <2>2, <2>3 DEF Mirrored, Painted
<1>12. ASSUME NEW leds, Queue(d, leds), TwinReturns(seq)
       PROVE  Mirrored' /\ twin'.returned = rx'.queued
  <2>1. /\ rx'.active = 0 /\ rx'.got = {} /\ rx'.completed = seq /\ rx'.queued = seq
    BY <1>6, <1>7, <1>12 DEF Queue
  <2>2. /\ DOMAIN twin' = {"active", "got", "completed", "returned"}
        /\ twin'.active = 0 /\ twin'.got = {} /\ twin'.completed = seq /\ twin'.returned = seq
    BY <1>12 DEF TwinReturns
  <2> QED
    BY <2>1, <2>2 DEF Mirrored
(* A datagram that is a whole frame: the node has nothing half collected. *)
<1>13. CASE d.type = "frame"
  <2>1. IF Wanted(d) THEN Queue(d, FrameLeds(d)) ELSE NodeIgnores
    BY <1>1, <1>6, <1>13 DEF NodeHears, NodeHearsFrame
  <2>2. IF TwinFollows(seq) THEN TwinReturns(seq) ELSE TwinIgnores
    BY <1>1, <1>6, <1>10, <1>13 DEF TwinHears
  <2>3. TwinFollows(seq) <=> seq # rx.last /\ (seq = 1 \/ rx.last = 0 \/ seq > rx.last)
    BY <1>3, <1>7, <1>8, <1>13 DEF TwinFollows, Reference, IsKey, IsNewer
  <2>4. Wanted(d) <=> /\ rx.last = 0 \/ seq = 1 \/ seq > rx.last
                      /\ ~(profile.presentation.mode = "scheduled" /\ seq = 1 /\ rx.last # 0)
    BY <1>6 DEF Wanted, IsKey
  <2>5. CASE seq # rx.last
    <3>1. Wanted(d) <=> TwinFollows(seq)
      BY <1>3, <1>7, <1>9, <2>3, <2>4, <2>5
    <3> QED
      BY <1>11, <1>12, <2>1, <2>2, <3>1
  <2>6. CASE seq = rx.last
    <3>1. TwinIgnores
      BY <2>2, <2>3, <2>6
    <3>2. CASE ~Wanted(d)
      BY <1>11, <2>1, <3>1, <3>2
    <3>3. CASE Wanted(d)
      <4>1. /\ rx'.active = 0 /\ rx'.got = {} /\ rx'.completed = seq /\ rx'.queued = seq
        BY <1>6, <1>7, <2>1, <3>3 DEF Queue
      <4>2. /\ DOMAIN twin' = DOMAIN twin /\ twin'.active = twin.active /\ twin'.got = twin.got
            /\ twin'.completed = twin.completed
        BY <1>8, <3>1 DEF TwinIgnores
      <4>3. Mirrored'
        BY <1>7, <1>8, <1>13, <2>6, <4>1, <4>2 DEF Mirrored
      <4>4. rx'.queued # 0 /\ rx'.queued = rx.last
        BY <1>3, <2>6, <4>1
      <4> QED
        BY <4>3, <4>4
    <3> QED
      BY <3>2, <3>3
  <2> QED
    BY <2>5, <2>6
(* A chunk: both look at the same frames, and collect them alike. *)
<1>14. CASE d.type = "chunk"
  <2> DEFINE got == Collected(rx, d)
  <2>1. NodeHearsChunk(d)
    BY <1>1, <1>6, <1>14 DEF NodeHears
  <2>2. TwinFollows(seq) <=> ~(seq = rx.completed \/ ~Follows(rx, seq))
    BY <1>3, <1>7, <1>8 DEF TwinFollows, Follows, Reference, IsNewer
  <2>3. CASE ~TwinFollows(seq)
    <3>1. NodeIgnores
      BY <1>6, <2>1, <2>2, <2>3 DEF NodeHearsChunk
    <3>2. TwinIgnores
      BY <1>1, <1>6, <2>3 DEF TwinHears
    <3> QED
      BY <1>11, <3>1, <3>2
  <2>4. CASE TwinFollows(seq)
    <3>1. /\ Begun(seq) \cup ChunkLeds(d) = got
          /\ Begun(seq) \subseteq Painted(seq)
      <4>1. Begun(seq) = IF seq = rx.active THEN rx.got ELSE {}
        BY <1>8 DEF Begun
      <4>2. Begun(seq) \subseteq Painted(seq)
        BY <1>3, <1>8, <4>1
      <4> QED
        BY <1>6, <4>1, <4>2 DEF Collected
    <3>2. ChunkLeds(d) = Lights(d) /\ Lights(d) \subseteq Painted(seq)
      BY <1>4, <1>14 DEF Lights, Painted
    <3>3. ~Conflict(Begun(seq), d)
      BY <1>10, <3>1, <3>2 DEF Conflict, Painted
    <3>4. IF Whole(got, E) THEN TwinReturns(seq) ELSE TwinKeeps(seq, got)
      BY <1>1, <1>6, <1>10, <1>14, <2>4, <3>1, <3>3 DEF TwinHears
    <3>5. seq > rx.last /\ Wanted(d)
      <4>1. seq # rx.last /\ (seq = rx.active \/ seq = 1 \/ seq > Reference(rx))
        BY <1>7, <2>2, <2>4 DEF Follows, IsKey
      <4>2. seq > rx.last
        BY <1>3, <1>7, <1>8, <1>9, <4>1 DEF Reference
      <4>3. seq = 1 => rx.last = 0
        BY <1>7, <4>2
      <4> QED
        BY <1>6, <4>2, <4>3 DEF Wanted, IsKey
    <3>6. IF Whole(got, E) THEN Queue(d, got)
          ELSE rx' = [rx EXCEPT !.active = d.seq, !.got = got, !.queued = 0]
      BY <1>6, <2>1, <2>2, <2>4, <3>5 DEF NodeHearsChunk
    <3>7. CASE Whole(got, E)
      BY <1>12, <3>4, <3>6, <3>7
    <3>8. CASE ~Whole(got, E)
      <4> HIDE DEF got
      <4>1. /\ rx'.active = seq /\ rx'.got = got /\ rx'.queued = 0
            /\ rx'.completed = rx.completed /\ rx'.last = rx.last
        BY <1>6, <1>7, <3>6, <3>8
      <4>2. /\ DOMAIN twin' = DOMAIN twin /\ twin'.active = seq /\ twin'.got = got
            /\ twin'.completed = twin.completed /\ twin'.returned = 0
        BY <1>8, <3>4, <3>8 DEF TwinKeeps
      <4>3. got \subseteq Painted(seq)
        BY <3>1, <3>2
      <4>4. Mirrored'
        BY <1>1, <1>8, <3>5, <4>1, <4>2, <4>3 DEF Mirrored, Painted
      <4> QED
        BY <4>1, <4>2, <4>4
    <3> QED
      BY <3>7, <3>8
  <2> QED
    BY <2>3, <2>4
<1> QED
  BY <1>6, <1>13, <1>14

LEMMA MirrorSends ==
    ASSUME MirrorInv, Agreed, ~late, Send
    PROVE  Mirrored' /\ rx'.queued = 0 /\ twin'.returned = 0
<1>1. /\ UNCHANGED <<profile, receiver>>
      /\ rx' = [rx EXCEPT !.queued = 0] /\ twin' = [twin EXCEPT !.returned = 0]
  BY DEF Send
<1>2. Collecting /\ Mirrored
  BY DEF MirrorInv, NewestInv
<1>3. /\ DOMAIN rx' = DOMAIN rx /\ rx'.active = rx.active /\ rx'.got = rx.got
      /\ rx'.completed = rx.completed /\ rx'.last = rx.last /\ rx'.queued = 0
  BY <1>1, <1>2 DEF Collecting
<1>4. /\ DOMAIN twin' = DOMAIN twin /\ twin'.active = twin.active /\ twin'.got = twin.got
      /\ twin'.completed = twin.completed /\ twin'.returned = 0
  BY <1>1, <1>2 DEF Mirrored
<1> QED
  BY <1>1, <1>2, <1>3, <1>4 DEF Mirrored, Painted

Mirrors == Agreed /\ ~late' /\ (rx'.queued = 0 \/ rx'.queued # rx.last) => twin'.returned = rx'.queued

LEMMA MirrorNext ==
    ASSUME MirrorInv, [Next]_vars
    PROVE  MirrorInv' /\ (UNCHANGED vars \/ Mirrors)
<1>0. NewestInv /\ NewestInv'
  BY NewestNext DEF MirrorInv
<1>1. CASE UNCHANGED vars
  <2>1. /\ phase' = phase /\ twin' = twin /\ late' = late
        /\ FrameEncodes(profile)' = FrameEncodes(profile)
    BY <1>1 DEF vars, FrameEncodes
  <2>2. Agreed' = Agreed /\ Mirrored' = Mirrored
    BY <1>1 DEF vars, Agreed, Mirrored, Painted
  <2> QED
    BY <1>0, <1>1, <2>1, <2>2 DEF MirrorInv
<1>2. ASSUME Refuse \/ Load \/ Open
      PROVE  MirrorInv' /\ Mirrors
  <2>1. phase # "playing" /\ UNCHANGED <<profile, rx, twin>>
    BY <1>2 DEF Refuse, Load, Open
  <2>2. receiver = NoNode /\ rx = NoRx /\ twin = NoTwin
    BY <1>0, <2>1 DEF MirrorInv, NewestInv, Journal
  <2>3. phase' = "playing" => FrameEncodes(profile)
    BY <1>2 DEF Refuse, Load, Open
  <2>4. FrameEncodes(profile)' = FrameEncodes(profile)
    BY <2>1 DEF FrameEncodes
  <2>5. Mirrored'
    BY <2>1, <2>2 DEF Mirrored, NoRx, NoTwin
  <2>6. ~Agreed
    BY <2>2 DEF Agreed, NoNode
  <2> QED
    BY <1>0, <2>1, <2>2, <2>3, <2>4, <2>5, <2>6 DEF MirrorInv, Mirrors
<1>3. CASE Send
  <2>1. phase = "playing" /\ UNCHANGED <<profile, phase, receiver, late>>
    BY <1>3 DEF Send
  <2>2. FrameEncodes(profile)' = FrameEncodes(profile) /\ Agreed' = Agreed
    BY <2>1 DEF FrameEncodes, Agreed
  <2>3. Agreed /\ ~late => Mirrored'
    BY <1>3, MirrorSends
  <2>4. Mirrors
    BY <1>3, <2>1, MirrorSends DEF Mirrors
  <2> QED
    BY <1>0, <2>1, <2>2, <2>3, <2>4 DEF MirrorInv
<1>4. ASSUME NEW seq \in 1..sent, NEW d \in air[seq], Hear(seq, d)
      PROVE  MirrorInv' /\ Mirrors
  <2>1. phase = "playing" /\ UNCHANGED <<profile, phase, receiver>>
    BY <1>4 DEF Hear
  <2>2. FrameEncodes(profile)' = FrameEncodes(profile) /\ Agreed' = Agreed
    BY <2>1 DEF FrameEncodes, Agreed
  <2>3. Agreed /\ ~late' => Mirrored' /\ (rx'.queued = 0 \/ rx'.queued # rx.last => twin'.returned = rx'.queued)
    BY <1>4, MirrorHears
  <2>4. Mirrors
    BY <2>3 DEF Mirrors
  <2> QED
    BY <1>0, <2>1, <2>2, <2>3, <2>4 DEF MirrorInv
<1> QED
  BY <1>1, <1>2, <1>3, <1>4 DEF Next

LEMMA MirrorInit == ASSUME Init PROVE MirrorInv
<1>1. phase = "file" /\ receiver = NoNode /\ twin = NoTwin
  BY DEF Init
<1>2. ~Agreed
  BY <1>1 DEF Agreed, NoNode
<1> QED
  BY <1>1, <1>2, NewestInit DEF MirrorInv

(* Beside a node built for its profile, the host's own receiver returns a     *)
(* frame at the datagram with which the node queues it and at no other, until *)
(* a KEY comes late.                                                          *)
THEOREM TwinAgrees == Spec => TwinMirrors
<1>1. Init => MirrorInv
  BY MirrorInit
<1>2. MirrorInv /\ [Next]_vars => MirrorInv' /\ [Mirrors]_vars
  BY MirrorNext
<1>3. Spec => [][Mirrors]_vars
  BY <1>1, <1>2, PTL DEF Spec
<1> QED
  BY <1>3 DEF TwinMirrors, Mirrors

(* Blocks of s[i] elements each are as many as their sum. *)
Blocks(s) == UNION {{i} \X (1..s[i]) : i \in DOMAIN s}

(* A block of m elements has m.                                                *)
LEMMA BlockSize ==
    ASSUME NEW x, NEW m \in Nat
    PROVE  IsFiniteSet({x} \X (1..m)) /\ Cardinality({x} \X (1..m)) = m
<1>1. IsFiniteSet({x}) /\ Cardinality({x}) = 1
  BY FS_Singleton
<1>2. PICK c : c = Cardinality(1..m) /\ IsFiniteSet(1..m) /\ c = IF 1 > m THEN 0 ELSE m - 1 + 1
  BY ONLY m \in Nat, FS_Interval
<1>3. c = m
  BY <1>2
<1>4. IsFiniteSet({x} \X (1..m)) /\ Cardinality({x} \X (1..m)) = Cardinality({x}) * Cardinality(1..m)
  BY <1>1, <1>2, FS_Product
<1>5. 1 * m = m
  OBVIOUS
<1> QED
  BY <1>1, <1>2, <1>3, <1>4, <1>5

(* A sum of lengths is the size of their blocks, and a number.                 *)
LEMMA BlocksFinite ==
    ASSUME NEW n \in Nat, NEW s, DOMAIN s = 1..n, \A i \in 1..n : s[i] \in Int
    PROVE  IsFiniteSet(Blocks(s)) /\ Total(s) = Cardinality(Blocks(s)) /\ Total(s) \in Nat
<1> DEFINE Of(i) == {i} \X (1..s[i])
<1> DEFINE S == {Of(i) : i \in 1..n}
<1>1. IsFiniteSet(S)
  <2> DEFINE g == [i \in 1..n |-> Of(i)]
  <2>1. g \in Surjection(1..n, S)
    BY DEF Surjection
  <2>2. IsFiniteSet(1..n)
    BY FS_Interval
  <2> HIDE DEF g, S
  <2> QED
    BY <2>1, <2>2, FS_Surjection
<1>2. ASSUME NEW i \in 1..n
      PROVE  IsFiniteSet(Of(i))
  <2>1. IsFiniteSet({i})
    BY FS_Singleton
  <2>2. IsFiniteSet(1..s[i])
    BY FS_Interval
  <2> QED
    BY <2>1, <2>2, FS_Product
<1>3. IsFiniteSet(UNION S)
  <2>1. \A T \in S : IsFiniteSet(T)
    BY <1>2
  <2> HIDE DEF S
  <2> QED
    BY <1>1, <2>1, FS_UNION
<1>4. Blocks(s) = UNION S
  BY DEF Blocks
<1>5. Total(s) = Cardinality(Blocks(s))
  BY DEF Total, Blocks
<1> HIDE DEF S
<1> QED
  BY <1>3, <1>4, <1>5, FS_CardinalityType

(* What is laid before a part, with the part, is no longer than the whole. *)
LEMMA TotalBefore ==
    ASSUME NEW n \in Nat, NEW s, DOMAIN s = 1..n, \A i \in 1..n : s[i] \in Nat,
           NEW k \in 1..n, NEW t, DOMAIN t = 1..(k - 1), \A i \in 1..(k - 1) : t[i] = s[i]
    PROVE  Total(t) + s[k] <= Total(s)
<1> DEFINE last == {k} \X (1..s[k])
<1>1. IsFiniteSet(Blocks(s)) /\ Total(s) = Cardinality(Blocks(s)) /\ Total(s) \in Nat
  BY BlocksFinite
<1>2. IsFiniteSet(Blocks(t)) /\ Total(t) = Cardinality(Blocks(t)) /\ Total(t) \in Nat
  <2>1. k - 1 \in Nat /\ \A i \in 1..(k - 1) : t[i] \in Int
    OBVIOUS
  <2> QED
    BY <2>1, BlocksFinite
<1>3. IsFiniteSet(last) /\ Cardinality(last) = s[k]
  BY BlockSize
<1>4. Blocks(t) \cap last = {}
  BY DEF Blocks
<1>5. Blocks(t) \cup last \subseteq Blocks(s)
  <2>1. \A i \in 1..(k - 1) : i \in 1..n
    OBVIOUS
  <2>2. \A i \in DOMAIN t : {i} \X (1..t[i]) \subseteq Blocks(s)
    BY <2>1 DEF Blocks
  <2>3. last \subseteq Blocks(s)
    BY DEF Blocks
  <2>4. Blocks(t) \subseteq Blocks(s)
    BY <2>2 DEF Blocks
  <2> QED
    BY <2>3, <2>4
<1> HIDE DEF last
<1>6. Cardinality(Blocks(t) \cup last) = Total(t) + s[k]
  <2>1. Cardinality(Blocks(t) \cup last) = Cardinality(Blocks(t)) + Cardinality(last) - Cardinality(Blocks(t) \cap last)
    BY <1>2, <1>3, FS_Union
  <2>2. Cardinality(Blocks(t) \cap last) = 0
    BY <1>4, FS_EmptySet
  <2> QED
    BY <1>2, <1>3, <2>1, <2>2
<1>7. Cardinality(Blocks(t) \cup last) <= Cardinality(Blocks(s))
  BY <1>1, <1>5, FS_Subset
<1> QED
  BY <1>1, <1>6, <1>7

-----------------------------------------------------------------------------
(* A pixel's place along a path *)

Laid(path, i) == Total([j \in 1..(i - 1) |-> path.segments[j].pixels + path.segments[j].gap])

(* A path that leads over the strips. *)
LEMMA PathSegments ==
    ASSUME NEW p \in Profiles, Accepted(p), p.paths # <<>>
    PROVE  LET path == p.paths[1]
           IN  /\ IsList(path.segments)
               /\ \A i \in DOMAIN path.segments :
                     /\ path.segments[i].start \in Int /\ path.segments[i].pixels \in Int
                     /\ path.segments[i].gap \in Int
                     /\ path.segments[i].pixels >= 1 /\ path.segments[i].gap >= 0
               /\ \A i, j \in DOMAIN path.segments : i # j =>
                     ({path.segments[i].strip} \X Span(path.segments[i].start, path.segments[i].pixels))
                     \cap ({path.segments[j].strip} \X Span(path.segments[j].start, path.segments[j].pixels)) = {}
<1>1. 1 \in DOMAIN p.paths
  BY ProfilesAssumption, ListHead DEF Parsed
<1>2. /\ IsList(p.paths[1].segments)
      /\ \A s \in ToSet(p.paths[1].segments) : s.start \in Int /\ s.pixels \in Int /\ s.gap \in Int
  BY <1>1, ProfilesAssumption DEF Parsed
<1>3. PathFits(p, p.paths[1])
  BY <1>1 DEF Accepted, PathsFit
<1> DEFINE s == p.paths[1].segments
<1>4. \A i \in DOMAIN s : s[i] \in ToSet(s)
  BY DEF ToSet
<1>5. \A i \in DOMAIN s : s[i].pixels >= 1 /\ s[i].gap >= 0
  BY <1>3 DEF PathFits
<1>6. \A i, j \in DOMAIN s : i # j =>
         ({s[i].strip} \X Span(s[i].start, s[i].pixels)) \cap ({s[j].strip} \X Span(s[j].start, s[j].pixels)) = {}
  <2> DEFINE under == [i \in DOMAIN s |-> {s[i].strip} \X Span(s[i].start, s[i].pixels)]
  <2>1. Disjoint(under)
    BY <1>3 DEF PathFits
  <2> HIDE DEF under
  <2>2. \A i, j \in DOMAIN under : i # j => under[i] \cap under[j] = {}
    BY ONLY <2>1 DEF Disjoint
  <2> QED
    BY <2>2 DEF under
<1> QED
  BY <1>2, <1>4, <1>5, <1>6

(* The pieces it is cut into, when its own pixels are told apart. *)
LEMMA PathPieces ==
    ASSUME NEW p \in Profiles, Accepted(p), p.paths # <<>>
    PROVE  LET path == p.paths[1]
               pieces == Split(path, [g \in 1..PathLength(path) |-> <<path.id, g>>])
           IN  /\ DOMAIN pieces = DOMAIN path.segments
               /\ \A i \in DOMAIN path.segments :
                     /\ pieces[i].strip = path.segments[i].strip
                     /\ pieces[i].start = path.segments[i].start
                     /\ Len(pieces[i].pixels) = path.segments[i].pixels
                     /\ \A k \in 1..path.segments[i].pixels :
                           pieces[i].pixels[k] =
                              <<path.id, Laid(path, i)
                                         + Turned(k, path.segments[i].pixels, path.segments[i].direction)>>
<1> DEFINE path == p.paths[1]
<1> DEFINE segs == path.segments
<1> DEFINE buffer == [g \in 1..PathLength(path) |-> <<path.id, g>>]
<1> DEFINE pieces == Split(path, buffer)
<1>1. /\ IsList(segs)
      /\ \A i \in DOMAIN segs :
            /\ segs[i].pixels \in Int /\ segs[i].gap \in Int /\ segs[i].pixels >= 1 /\ segs[i].gap >= 0
  BY PathSegments
<1>2. Len(segs) \in Nat /\ DOMAIN segs = 1..Len(segs)
  BY <1>1, ListDomain
<1> DEFINE n == Len(segs)
<1>3. PathLength(path) = Total([j \in 1..(n + 1 - 1) |-> segs[j].pixels + segs[j].gap])
  BY DEF PathLength, VirtualPath
<1> DEFINE whole == [j \in 1..n |-> segs[j].pixels + segs[j].gap]
<1>4. PathLength(path) = Total(whole)
  BY <1>2, <1>3
<1>5. ASSUME NEW i \in DOMAIN segs
      PROVE  /\ Laid(path, i) \in Nat /\ PathLength(path) \in Nat
             /\ Laid(path, i) + segs[i].pixels <= PathLength(path)
  <2> DEFINE t == [j \in 1..(i - 1) |-> segs[j].pixels + segs[j].gap]
  <2>1. /\ DOMAIN whole = 1..n /\ \A j \in 1..n : whole[j] \in Nat
        /\ whole[i] = segs[i].pixels + segs[i].gap
    <3>1. i \in 1..n
      BY <1>2
    <3>2. \A j \in DOMAIN segs : segs[j].pixels + segs[j].gap \in Nat
      <4>1. ASSUME NEW a \in Int, NEW b \in Int, a >= 1, b >= 0
            PROVE  a + b \in Nat
        BY ONLY <4>1
      <4> QED
        BY <1>1, <4>1
    <3>3. \A j \in 1..n : segs[j].pixels + segs[j].gap \in Nat
      BY ONLY Zenon, <1>2, <3>2
    <3> QED
      BY ONLY <3>1, <3>3
  <2>2. i \in 1..n /\ i - 1 \in Nat /\ DOMAIN t = 1..(i - 1) /\ \A j \in 1..(i - 1) : t[j] = whole[j] /\ t[j] \in Int
    <3>1. \A j \in 1..(i - 1) : j \in 1..n /\ j \in DOMAIN segs
      BY <1>2
    <3>2. \A j \in 1..(i - 1) : t[j] = segs[j].pixels + segs[j].gap
      OBVIOUS
    <3>3. \A j \in 1..n : whole[j] = segs[j].pixels + segs[j].gap
      OBVIOUS
    <3>4. i \in 1..n /\ i - 1 \in Nat
      BY <1>2
    <3>5. DOMAIN t = 1..(i - 1)
      OBVIOUS
    <3>6. \A j \in 1..(i - 1) : segs[j].pixels + segs[j].gap \in Int
      BY <1>1, <3>1
    <3> HIDE DEF t, whole, n, segs
    <3> QED
      BY <3>1, <3>2, <3>3, <3>4, <3>5, <3>6
  <2>3. Laid(path, i) = Total(t)
    BY DEF Laid
  <2> HIDE DEF whole, t, n
  <2>4. n \in Nat
    BY <1>2 DEF n
  <2>5. Total(t) + whole[i] <= Total(whole)
    BY <2>1, <2>2, <2>4, TotalBefore
  <2>6. Total(t) \in Nat
    BY <2>2, BlocksFinite
  <2>7. Total(whole) \in Nat
    <3>1. \A j \in 1..n : whole[j] \in Int
      BY <2>1
    <3> QED
      BY <2>1, <2>4, <3>1, BlocksFinite
  <2>8. segs[i].pixels \in Int /\ segs[i].gap \in Int /\ segs[i].gap >= 0
    BY <1>1
  <2> HIDE DEF segs
  <2> QED
    BY ONLY <1>4, <2>1, <2>3, <2>5, <2>6, <2>7, <2>8
<1>6. ASSUME NEW i \in DOMAIN segs
      PROVE  /\ pieces[i].strip = segs[i].strip /\ pieces[i].start = segs[i].start
             /\ Len(pieces[i].pixels) = segs[i].pixels
             /\ \A k \in 1..segs[i].pixels :
                   pieces[i].pixels[k] = <<path.id, Laid(path, i) + Turned(k, segs[i].pixels, segs[i].direction)>>
  <2> DEFINE first == Laid(path, i)
  <2> DEFINE count == segs[i].pixels
  <2> DEFINE part == SubSeq(buffer, first + 1, first + count)
  <2>1. /\ pieces[i].strip = segs[i].strip /\ pieces[i].start = segs[i].start
        /\ pieces[i].pixels = Flip(part, segs[i].direction)
    BY Zenon DEF Split, VirtualPath, Laid
  <2>2. first \in Nat /\ PathLength(path) \in Nat /\ first + count <= PathLength(path) /\ count \in Nat
    BY <1>1, <1>5
  <2> HIDE DEF first
  <2>3. /\ part \in Seq(ToSet(buffer)) /\ Len(part) = count
        /\ \A k \in 1..count : part[k] = buffer[first + k]
    <3> DEFINE total == PathLength(path)
    <3>1. \A g \in 1..total : buffer[g] \in ToSet(buffer)
      BY DEF ToSet
    <3>2. buffer \in Seq(ToSet(buffer)) /\ Len(buffer) = total
      <4>1. buffer = [g \in 1..total |-> buffer[g]]
        OBVIOUS
      <4>2. total \in Nat
        BY <2>2
      <4> HIDE DEF buffer, total
      <4> QED
        BY <3>1, <4>1, <4>2
    <3> DEFINE S == ToSet(buffer)
    <3> HIDE DEF buffer, count, S
    <3>3. Len(part) = count /\ \A k \in 1..count : part[k] = buffer[first + k]
      BY <2>2, <3>2
    <3>4. part \in Seq(S)
      BY <2>2, <3>2 DEF S
    <3> QED
      BY <3>3, <3>4 DEF S
  <2>4. IsList(part) /\ Len(part) = count /\ \A k \in 1..count : part[k] = <<path.id, first + k>>
    <3>1. \A k \in 1..count : first + k \in 1..PathLength(path)
      BY <2>2
    <3>2. \A k \in 1..count : part[k] = <<path.id, first + k>>
      BY <2>3, <3>1
    <3>3. \A k \in 1..Len(part) : part[k] \in ToSet(part)
      <4>1. DOMAIN part = 1..Len(part)
        BY ONLY <2>3
      <4> QED
        BY <4>1 DEF ToSet
    <3> HIDE DEF part, count, buffer
    <3>4. part \in Seq(ToSet(part))
      BY <2>3, <3>3
    <3> QED
      BY <2>3, <3>2, <3>4 DEF IsList
  <2> HIDE DEF part, count
  <2>5. /\ Len(Flip(part, segs[i].direction)) = count
        /\ \A k \in 1..count : /\ Turned(k, count, segs[i].direction) \in 1..count
                               /\ Flip(part, segs[i].direction)[k] = part[Turned(k, count, segs[i].direction)]
    BY <2>4, FlipKnown
  <2>6. \A k \in 1..count : Flip(part, segs[i].direction)[k] = <<path.id, first + Turned(k, count, segs[i].direction)>>
    BY <2>4, <2>5
  <2> QED
    BY Zenon, <2>1, <2>5, <2>6 DEF first, count
<1>7. DOMAIN pieces = DOMAIN segs
  BY DEF Split
<1> QED
  BY <1>6, <1>7

(* The pixel that a picture has at a place of a strip is the one its path's *)
(* author meant, counted along the path. *)
LEMMA PlaceIsAuthored ==
    ASSUME NEW p \in Profiles, Accepted(p), NEW strip, NEW i \in Int
    PROVE  Place(p, strip, i) = Authored(p, strip, i)
<1> DEFINE path == p.paths[1]
<1> DEFINE segs == path.segments
<1> DEFINE pieces == Split(path, [g \in 1..PathLength(path) |-> <<path.id, g>>])
<1> DEFINE under == {j \in DOMAIN segs : segs[j].strip = strip /\ i - 1 \in Span(segs[j].start, segs[j].pixels)}
<1> DEFINE over == {c \in ToSet(pieces) : c.strip = strip /\ i \in Span(c.start + 1, Len(c.pixels))}
<1>1. CASE p.paths = <<>>
  <2>1. ToSet(<<>>) = {}
    BY DEF ToSet
  <2>2. Place(p, strip, i) = <<strip, i>>
    BY <1>1, <2>1 DEF Place
  <2>3. Authored(p, strip, i) = <<strip, i>>
    BY <1>1 DEF Authored
  <2> QED
    BY <2>2, <2>3
<1>2. CASE p.paths # <<>>
  <2>1. /\ DOMAIN pieces = DOMAIN segs
        /\ \A j \in DOMAIN segs :
              /\ pieces[j].strip = segs[j].strip /\ pieces[j].start = segs[j].start
              /\ Len(pieces[j].pixels) = segs[j].pixels
              /\ \A k \in 1..segs[j].pixels :
                    pieces[j].pixels[k] = <<path.id, Laid(path, j) + Turned(k, segs[j].pixels, segs[j].direction)>>
    BY <1>2, PathPieces
  <2>2. \A j \in DOMAIN segs : segs[j].start \in Int /\ segs[j].pixels \in Int
    BY <1>2, PathSegments
  <2>3. \A j, k \in under : j = k
    <3> SUFFICES ASSUME NEW j \in under, NEW k \in under, j # k PROVE FALSE
      OBVIOUS
    <3> DEFINE Of(m) == {segs[m].strip} \X Span(segs[m].start, segs[m].pixels)
    <3>1. Of(j) \cap Of(k) = {}
      BY <1>2, PathSegments
    <3>2. <<strip, i - 1>> \in Of(j) /\ <<strip, i - 1>> \in Of(k)
      OBVIOUS
    <3> QED
      BY <3>1, <3>2
  <2>4. Place(p, strip, i) = IF over = {} THEN <<strip, i>>
                             ELSE LET c == CHOOSE c \in over : TRUE IN c.pixels[i - c.start]
    BY <1>2 DEF Place
  <2>5. Authored(p, strip, i) =
          IF under = {} THEN <<strip, i>>
          ELSE LET j == CHOOSE j \in under : TRUE
                   s == segs[j]
                   along == IF s.direction = "reverse" THEN s.start + s.pixels - i ELSE i - 1 - s.start
               IN  <<path.id, 1 + along + Laid(path, j)>>
    <3> DEFINE Coordinate(j) ==
           <<path.id, 1 + (IF segs[j].direction = "reverse" THEN segs[j].start + segs[j].pixels - i
                           ELSE i - 1 - segs[j].start)
                      + Laid(path, j)>>
    <3>1. Authored(p, strip, i) = IF p.paths = <<>> \/ under = {} THEN <<strip, i>>
                                  ELSE Coordinate(CHOOSE j \in under : TRUE)
      BY ONLY Zenon DEF Authored, Laid
    <3> QED
      BY ONLY Zenon, <1>2, <3>1
  <2>6. over = {pieces[j] : j \in under}
    <3>1. \A j \in DOMAIN segs : i \in Span(segs[j].start + 1, segs[j].pixels) <=> i - 1 \in Span(segs[j].start, segs[j].pixels)
      BY <2>2 DEF Span
    <3>2. \A j \in DOMAIN segs : j \in under <=> pieces[j].strip = strip /\ i \in Span(pieces[j].start + 1, Len(pieces[j].pixels))
      BY <2>1, <3>1
    <3>3. ToSet(pieces) = {pieces[j] : j \in DOMAIN segs}
      BY <2>1 DEF ToSet
    <3>4. under \subseteq DOMAIN segs
      OBVIOUS
    <3> HIDE DEF pieces, under
    <3> QED
      BY <3>2, <3>3, <3>4
  <2> HIDE DEF under, over
  <2>7. CASE under = {}
    BY <2>4, <2>5, <2>6, <2>7
  <2>8. ASSUME NEW j \in under
        PROVE  Place(p, strip, i) = Authored(p, strip, i)
    <3> DEFINE s == segs[j]
    <3>1. (CHOOSE m \in under : TRUE) = j
      BY <2>3
    <3>2. over = {pieces[j]}
      BY <2>3, <2>6
    <3>3. (CHOOSE c \in over : TRUE) = pieces[j]
      BY <3>2
    <3>4. j \in DOMAIN segs /\ i - 1 \in Span(s.start, s.pixels)
      BY DEF under
    <3>5. s.start \in Int /\ s.pixels \in Int /\ i - s.start \in 1..s.pixels
      BY <2>2, <3>4 DEF Span
    <3>6. Place(p, strip, i) = pieces[j].pixels[i - pieces[j].start]
      BY Zenon, <2>4, <3>2, <3>3
    <3>7. Place(p, strip, i) = <<path.id, Laid(path, j) + Turned(i - s.start, s.pixels, s.direction)>>
      BY Zenon, <2>1, <3>4, <3>5, <3>6
    <3> DEFINE along == IF s.direction = "reverse" THEN s.start + s.pixels - i ELSE i - 1 - s.start
    <3>8. Authored(p, strip, i) = <<path.id, 1 + along + Laid(path, j)>>
      BY <2>5, <3>1
    <3>9. Laid(path, j) \in Int
      <4>1. IsList(segs) /\ \A m \in DOMAIN segs : segs[m].pixels + segs[m].gap \in Int
        BY <1>2, PathSegments
      <4>2. j - 1 \in Nat /\ \A m \in 1..(j - 1) : m \in DOMAIN segs
        BY <3>4, <4>1, ListDomain
      <4> DEFINE t == [m \in 1..(j - 1) |-> segs[m].pixels + segs[m].gap]
      <4>3. DOMAIN t = 1..(j - 1) /\ \A m \in 1..(j - 1) : t[m] \in Int
        BY <4>1, <4>2
      <4> HIDE DEF t
      <4>4. Total(t) \in Nat
        BY <4>2, <4>3, BlocksFinite
      <4> QED
        BY <4>4 DEF Laid, t
    <3>10. 1 + along + Laid(path, j) = Laid(path, j) + Turned(i - s.start, s.pixels, s.direction)
      BY <3>5, <3>9 DEF Turned
    <3> QED
      BY <3>7, <3>8, <3>10
  <2> QED
    BY <2>7, <2>8
<1> QED
  BY <1>1, <1>2

-----------------------------------------------------------------------------
(* What reaches a node *)

(* A node without outputs is given none. *)
LEMMA NoOutputs ==
    ASSUME NEW p \in Profiles, NEW id, OutputsOf(p, id) = {}, NEW picture
    PROVE  OutputFrames(Layout(p), id, picture) = <<>>
<1> DEFINE here == OutputsOf(Layout(p), id)
<1>1. here = {}
  <2> SUFFICES ASSUME NEW i \in DOMAIN p.outputs, LayoutOutputs(p)[i].node = id PROVE FALSE
    BY LayoutOf DEF OutputsOf, ToSet
  <2>1. p.outputs[i].node = id
    BY LayoutOf
  <2> QED
    BY <2>1 DEF OutputsOf, ToSet
<1> DEFINE In(s) == \A i, j \in DOMAIN s : i < j => s[i].output < s[j].output
<1> DEFINE sorted == CHOOSE s \in [1..Cardinality(here) -> here] : In(s)
<1>2. Cardinality(here) = 0
  BY <1>1, FS_EmptySet
<1> HIDE DEF here
<1>3. [1..Cardinality(here) -> here] = [{} -> {}]
  <2>1. 1..0 = {}
    OBVIOUS
  <2> QED
    BY <1>1, <1>2, <2>1
<1>4. \A s \in [{} -> {}] : In(s)
  OBVIOUS
<1>5. [i \in {} |-> i] \in [{} -> {}]
  OBVIOUS
<1>6. sorted \in [{} -> {}]
  BY <1>3, <1>4, <1>5
<1>7. OutputFrames(Layout(p), id, picture)
        = [i \in DOMAIN sorted |->
             [output |-> sorted[i].output, gpio |-> sorted[i].gpio,
              pixels |-> Flip(picture[sorted[i].strip], sorted[i].direction)]]
  BY DEF OutputFrames, here
<1> HIDE DEF sorted
<1> QED
  BY <1>6, <1>7

(* Where a light belongs, and what it should be. *)
InPlace(p, r, l) ==
    LET here == {w \in Wired(p, r) : w.led = l[1]}
    IN  IF here = {} THEN l[2] = Black
        ELSE \E w \in here : l[2][2] = Authored(p, w.strip, w.index)

(* A pixel of an output is the one that belongs to its LED.                    *)
LEMMA OutputPlaced ==
    ASSUME NEW p \in Profiles, Accepted(p), NEW r, NEW o \in OutputsOf(p, r.node), o.strip \in StripIds(p),
           NEW k \in 1..LengthOf(p, o.strip), NEW seq, NEW led,
           LET before == {b \in ToSet(p.outputs) : b.node = o.node /\ b.output < o.output}
           IN  led = IF r.kind = "wled"
                     THEN Cardinality(UNION {{b.output} \X (1..LengthOf(p, b.strip)) : b \in before}) + k
                     ELSE <<o.output, k>>
    PROVE  InPlace(p, r, <<led, <<seq, Place(p, o.strip, Turned(k, LengthOf(p, o.strip), o.direction))>>>>)
<1> DEFINE length == LengthOf(p, o.strip)
<1> DEFINE index == Turned(k, length, o.direction)
<1> DEFINE w == [led |-> led, strip |-> o.strip, index |-> index]
<1>1. length \in Nat /\ index \in Int
  BY StripLength DEF Turned
<1>2. w \in WiredOutput(p, r, o)
  BY DEF WiredOutput, Turned
<1>3. w \in Wired(p, r)
  BY <1>2 DEF Wired
<1>4. Place(p, o.strip, index) = Authored(p, w.strip, w.index)
  BY <1>1, PlaceIsAuthored
<1>5. w.led = led
  OBVIOUS
<1> HIDE DEF w, index
<1> QED
  BY <1>3, <1>4, <1>5 DEF InPlace, index

(* A datagram of a frame that was encoded: each of its lights is of that frame *)
(* and the one that belongs to its LED, whatever the node was built for. *)
LEMMA NodePlaced ==
    ASSUME Known, receiver.kind = "node", FrameEncodes(profile),
           NEW seq, NEW d \in Outgoing(profile, receiver, seq)
    PROVE  /\ d.seq = seq /\ d.type \in {"frame", "chunk"}
           /\ \A l \in Lights(d) : l[2][1] = seq /\ InPlace(profile, receiver, l)
<1> DEFINE p == profile
<1>0. p \in Profiles /\ Accepted(p) /\ Loads(p)
  BY DEF Known
<1>1. PICK n \in ToSet(Layout(p).nodes) :
         /\ n.node = receiver.node
         /\ \A m \in ToSet(Layout(p).nodes) : m.node = receiver.node => m = n
         /\ n.max \in MinChunkDatagram..MaxUdpPayload
  BY KnownLayout
<1>2. ASSUME NEW s
      PROVE  /\ FrameOf(n, s).max = n.max /\ FrameOf(n, s).enabled = n.enabled
             /\ FrameOf(n, s).outputs = OutputFrames(Layout(p), n.node, Picture(p, s))
             /\ FrameOf(n, s) \in FramesOf(p, s)
             /\ Outgoing(p, receiver, s) = IF ~n.enabled THEN {} ELSE Datagrams(FrameOf(n, s), s)
  BY <1>1, KnownOutgoing
<1> DEFINE f == FrameOf(n, seq)
<1>3. n.enabled /\ d \in Datagrams(f, seq)
  BY <1>2
<1>4. OutputsOf(p, n.node) # {}
  <2>1. "udp_v3" \in p.enabled
    BY DEF Known, ReceiversOf
  <2>2. Encodable(FrameOf(n, 1))
    BY <1>2, <1>3, <2>1 DEF FrameEncodes, Encodes
  <2>3. FrameOf(n, 1).outputs # <<>>
    BY <2>2 DEF Encodable
  <2> QED
    BY <1>0, <1>2, <2>3, NoOutputs
<1>5. Tidy(f.outputs, seq) /\ Pictured(f.outputs, p, n.node, seq)
  <2> DEFINE outputs == OutputFrames(Layout(p), n.node, Picture(p, seq))
  <2>1. Tidy(outputs, seq) /\ Pictured(outputs, p, n.node, seq)
    BY ONLY <1>0, <1>1, <1>4, FrameOutputs
  <2> HIDE DEF outputs
  <2> QED
    BY <1>2, <2>1 DEF outputs
<1>6. f.max \in MinChunkDatagram..MaxUdpPayload
  BY <1>1, <1>2
<1> HIDE DEF f
<1>7. d.seq = seq /\ d.type \in {"frame", "chunk"}
  <2>1. CASE FitsWhole(f)
    BY <1>3, <2>1 DEF Datagrams, Complete
  <2>2. CASE ~FitsWhole(f)
    <3>1. PICK o \in ToSet(f.outputs) : d \in ChunksOf(f, o, seq, PixelsPerChunk(f.max))
      BY <1>3, <2>2 DEF Datagrams
    <3> QED
      BY <3>1 DEF ChunksOf
  <2> QED
    BY <2>1, <2>2
<1>8. ASSUME NEW l \in Lights(d)
      PROVE  l[2][1] = seq /\ InPlace(p, receiver, l)
  <2>1. PICK i \in DOMAIN f.outputs : \E k \in 1..Len(f.outputs[i].pixels) :
           l = <<<<f.outputs[i].output, k>>, f.outputs[i].pixels[k]>>
    BY <1>3, <1>5, <1>6, LightIsPixel
  <2>2. PICK k \in 1..Len(f.outputs[i].pixels) : l = <<<<f.outputs[i].output, k>>, f.outputs[i].pixels[k]>>
    BY <2>1
  <2>3. PICK o \in OutputsOf(p, n.node) :
           /\ f.outputs[i].output = o.output /\ o.strip \in StripIds(p)
           /\ Len(f.outputs[i].pixels) = LengthOf(p, o.strip)
           /\ \A m \in DOMAIN f.outputs[i].pixels :
                 f.outputs[i].pixels[m] = <<seq, Place(p, o.strip, Turned(m, LengthOf(p, o.strip), o.direction))>>
    BY <1>5 DEF Pictured
  <2>4. k \in DOMAIN f.outputs[i].pixels
    BY <1>5, ListDomain DEF Tidy
  <2>5. l = <<<<o.output, k>>, <<seq, Place(p, o.strip, Turned(k, LengthOf(p, o.strip), o.direction))>>>>
    BY <2>2, <2>3, <2>4
  <2>6. InPlace(p, receiver, <<<<o.output, k>>, <<seq, Place(p, o.strip, Turned(k, LengthOf(p, o.strip), o.direction))>>>>)
    BY <1>0, <1>1, <2>2, <2>3, OutputPlaced
  <2> QED
    BY <2>5, <2>6
<1> QED
  BY <1>7, <1>8

-----------------------------------------------------------------------------
(* What reaches a controller *)

(* A light of a packet is a pixel of the frame, counted through its outputs. *)
LEMMA PacketPixel ==
    ASSUME NEW f, NEW seq, IsList(NodePixels(f)), NEW d \in DdpPackets(f, seq), NEW k \in DOMAIN d.pixels
    PROVE  /\ d.offset \div 3 + k \in 1..Len(NodePixels(f))
           /\ d.pixels[k] = NodePixels(f)[d.offset \div 3 + k]
<1> DEFINE pixels == NodePixels(f)
<1> DEFINE n == Len(pixels)
<1> DEFINE count == (n + DdpPixels - 1) \div DdpPixels
<1>1. PICK c \in 1..count :
         d = [type |-> "ddp", seq |-> seq, offset |-> 3 * (c - 1) * DdpPixels, push |-> c = count,
              pixels |-> SubSeq(pixels, (c - 1) * DdpPixels + 1, IF c = count THEN n ELSE c * DdpPixels)]
  BY DEF DdpPackets
<1> DEFINE begin == Begins(c, DdpPixels)
<1> DEFINE end == IF c = count THEN n ELSE c * DdpPixels
<1> DEFINE piece == SubSeq(pixels, begin + 1, end)
<1>2. /\ d.offset = 3 * (c - 1) * DdpPixels /\ d.pixels = piece
  BY <1>1 DEF Begins
<1>3. n \in Nat /\ pixels \in Seq(ToSet(pixels)) /\ DdpPixels \in Nat \ {0}
  BY ListDomain, SizesAssumption DEF IsList
<1>4. n # 0
  <2> SUFFICES ASSUME n = 0 PROVE FALSE
    OBVIOUS
  <2>1. count = 0
    BY <1>3
  <2> QED
    BY <2>1
<1>5. /\ begin \in Nat /\ begin < Stops(c, DdpPixels, n) /\ Stops(c, DdpPixels, n) <= n
      /\ Stops(c, DdpPixels, n) \in Nat
  BY <1>3, <1>4, Pieces DEF PiecesOf
<1>6. count \in Int /\ c \in Int
  BY <1>3
<1>7. end \in Nat /\ begin < end /\ end <= n
  <2>1. CASE c = count
    BY <1>3, <1>5, <2>1
  <2>2. CASE c # count
    <3>1. c + 1 \in PiecesOf(n, DdpPixels)
      BY <1>6, <2>2 DEF PiecesOf
    <3>2. Begins(c + 1, DdpPixels) < n
      <4>1. /\ Begins(c + 1, DdpPixels) \in Nat /\ Stops(c + 1, DdpPixels, n) \in Nat
            /\ Begins(c + 1, DdpPixels) < Stops(c + 1, DdpPixels, n) /\ Stops(c + 1, DdpPixels, n) <= n
        BY <1>3, <1>4, <3>1, Pieces
      <4> QED
        BY <1>3, <4>1
    <3>3. Begins(c + 1, DdpPixels) = c * DdpPixels
      BY <1>6 DEF Begins
    <3>4. Stops(c, DdpPixels, n) = c * DdpPixels /\ end = c * DdpPixels
      BY <2>2, <3>2, <3>3 DEF Stops
    <3> HIDE DEF end, begin
    <3> QED
      BY <1>5, <3>4
  <2> QED
    BY <2>1, <2>2
<1>8. d.offset \div 3 = begin
  <2>1. \A x \in Int : (3 * x) \div 3 = x
    OBVIOUS
  <2>2. 3 * (c - 1) * DdpPixels = 3 * begin
    <3>1. PICK x \in Int : x = c - 1
      BY <1>6
    <3>2. \A m \in Nat : 3 * x * m = 3 * (x * m)
      BY <3>1
    <3> QED
      BY <1>3, <3>1, <3>2 DEF Begins
  <2> QED
    BY <1>2, <1>5, <2>1, <2>2
<1> HIDE DEF begin, end, pixels, count
<1>9. DOMAIN piece = 1..(end - begin) /\ \A m \in 1..(end - begin) : piece[m] = pixels[begin + m]
  BY <1>3, <1>5, <1>7
<1> HIDE DEF piece
<1>10. k \in 1..(end - begin) /\ d.pixels[k] = pixels[begin + k]
  BY <1>2, <1>9
<1>11. begin + k \in 1..n
  BY <1>3, <1>5, <1>7, <1>10
<1> QED
  BY <1>8, <1>10, <1>11 DEF pixels

(* The LEDs of the outputs before the i-th. *)
LedsBefore(outputs, i) == UNION {{outputs[j].output} \X (1..Len(outputs[j].pixels)) : j \in 1..(i - 1)}

(* The LEDs before an output, and before the next.                             *)
LEMMA LedsCount ==
    ASSUME NEW outputs, Len(outputs) \in 1..3, DOMAIN outputs = 1..Len(outputs), Apart(outputs, "output"),
           \A i \in DOMAIN outputs : Len(outputs[i].pixels) \in Nat,
           NEW i \in DOMAIN outputs
    PROVE  /\ IsFiniteSet(LedsBefore(outputs, i))
           /\ Cardinality(LedsBefore(outputs, 1)) = 0
           /\ i + 1 \in DOMAIN outputs =>
                 Cardinality(LedsBefore(outputs, i + 1)) = Cardinality(LedsBefore(outputs, i)) + Len(outputs[i].pixels)
<1> DEFINE Of(j) == {outputs[j].output} \X (1..Len(outputs[j].pixels))
<1>1. \A j \in DOMAIN outputs : IsFiniteSet(Of(j)) /\ Cardinality(Of(j)) = Len(outputs[j].pixels)
  BY BlockSize
<1>2. LedsBefore(outputs, 1) = {}
  <2>1. 1..(1 - 1) = {}
    OBVIOUS
  <2> QED
    BY <2>1 DEF LedsBefore
<1>3. ASSUME NEW j \in Int, j >= 1
      PROVE  LedsBefore(outputs, j + 1) = LedsBefore(outputs, j) \cup Of(j)
  <2>1. 1..(j + 1 - 1) = (1..(j - 1)) \cup {j}
    BY <1>3
  <2> DEFINE S == 1..(j + 1 - 1)
  <2> DEFINE T == 1..(j - 1)
  <2>2. LedsBefore(outputs, j + 1) = UNION {Of(k) : k \in S} /\ LedsBefore(outputs, j) = UNION {Of(k) : k \in T}
    BY DEF LedsBefore
  <2>3. S = T \cup {j}
    BY <2>1
  <2> HIDE DEF S, T, Of
  <2> QED
    BY <2>2, <2>3
<1>4. ASSUME NEW j \in DOMAIN outputs
      PROVE  LedsBefore(outputs, j) \cap Of(j) = {}
  <2> SUFFICES ASSUME NEW k \in 1..(j - 1), NEW x \in Of(k), x \in Of(j)
               PROVE  FALSE
    BY DEF LedsBefore
  <2>1. k \in DOMAIN outputs /\ k # j
    OBVIOUS
  <2>2. outputs[k].output = x[1] /\ outputs[j].output = x[1]
    OBVIOUS
  <2> QED
    BY <2>1, <2>2 DEF Apart
<1>5. i \in 1..3
  OBVIOUS
<1>6. IsFiniteSet(LedsBefore(outputs, 1)) /\ Cardinality(LedsBefore(outputs, 1)) = 0
  BY <1>2, FS_EmptySet
<1> HIDE DEF Of
<1>7. ASSUME NEW j \in DOMAIN outputs, IsFiniteSet(LedsBefore(outputs, j))
      PROVE  /\ IsFiniteSet(LedsBefore(outputs, j + 1))
             /\ Cardinality(LedsBefore(outputs, j + 1)) = Cardinality(LedsBefore(outputs, j)) + Len(outputs[j].pixels)
  <2> DEFINE A == LedsBefore(outputs, j)
  <2> DEFINE B == Of(j)
  <2>1. LedsBefore(outputs, j + 1) = A \cup B
    BY <1>3, <1>7
  <2>2. IsFiniteSet(A) /\ IsFiniteSet(B) /\ A \cap B = {} /\ Cardinality(B) = Len(outputs[j].pixels)
    BY <1>1, <1>4, <1>7
  <2>3. Cardinality(A) \in Nat /\ Len(outputs[j].pixels) \in Nat /\ Cardinality({}) = 0
    BY <2>2, FS_CardinalityType, FS_EmptySet
  <2> HIDE DEF A, B
  <2>4. IsFiniteSet(A \cup B) /\ Cardinality(A \cup B) = Cardinality(A) + Cardinality(B) - Cardinality(A \cap B)
    BY <2>2, FS_Union
  <2>5. Cardinality(A \cap B) = 0
    BY <2>2, <2>3
  <2>6. Cardinality(A \cup B) = Cardinality(A) + Len(outputs[j].pixels)
    BY <2>2, <2>3, <2>4, <2>5
  <2> QED
    BY <2>1, <2>4, <2>6 DEF A
<1>8. IsFiniteSet(LedsBefore(outputs, i))
  <2>1. 2 \in DOMAIN outputs => IsFiniteSet(LedsBefore(outputs, 2))
    <3>1. 1 \in DOMAIN outputs /\ 1 + 1 = 2
      OBVIOUS
    <3> QED
      BY <1>6, <1>7, <3>1
  <2>2. 3 \in DOMAIN outputs => IsFiniteSet(LedsBefore(outputs, 3))
    <3>1. 3 \in DOMAIN outputs => 2 \in DOMAIN outputs /\ 2 + 1 = 3
      OBVIOUS
    <3> QED
      BY <1>7, <2>1, <3>1
  <2> QED
    BY <1>5, <1>6, <2>1, <2>2
<1> QED
  BY <1>6, <1>7, <1>8

(* Two lists end to end.                                                       *)
LEMMA ConcatKnown ==
    ASSUME NEW a, NEW b, IsList(a), IsList(b)
    PROVE  /\ IsList(a \o b) /\ Len(a \o b) = Len(a) + Len(b)
           /\ \A j \in 1..Len(a) : (a \o b)[j] = a[j]
           /\ \A j \in 1..Len(b) : (a \o b)[Len(a) + j] = b[j]
<1> DEFINE S == ToSet(a) \cup ToSet(b)
<1> DEFINE c == a \o b
<1>1. a \in Seq(S) /\ b \in Seq(S)
  <2>1. a \in Seq(ToSet(a)) /\ b \in Seq(ToSet(b))
    BY DEF IsList
  <2> DEFINE A == ToSet(a)
  <2> DEFINE B == ToSet(b)
  <2>2. a \in Seq(A) /\ b \in Seq(B) /\ A \subseteq S /\ B \subseteq S
    BY <2>1
  <2> HIDE DEF A, B, S
  <2> QED
    BY <2>2
<1> HIDE DEF S
<1>2. /\ c \in Seq(S) /\ Len(c) = Len(a) + Len(b)
      /\ \A j \in 1..Len(a) : c[j] = a[j]
      /\ \A j \in 1..Len(b) : c[Len(a) + j] = b[j]
  BY <1>1
<1> HIDE DEF c
<1>3. \A j \in 1..Len(c) : c[j] \in ToSet(c)
  <2>1. DOMAIN c = 1..Len(c)
    BY <1>2
  <2> QED
    BY <2>1 DEF ToSet
<1>4. c \in Seq(ToSet(c))
  BY <1>2, <1>3
<1> QED
  BY <1>2, <1>4 DEF IsList, c

(* Up to three lists end to end. *)
LEMMA FlattenThree ==
    ASSUME NEW s, Len(s) \in 1..3
    PROVE  \E F : /\ FlattenSeq(s) = F[Len(s)] /\ F[1] = s[1]
                  /\ Len(s) >= 2 => F[2] = F[1] \o s[2]
                  /\ Len(s) >= 3 => F[3] = F[2] \o s[3]
<1> DEFINE n == Len(s)
<1>0. n \in {1, 2, 3}
  OBVIOUS
<1> HIDE DEF n
<1> DEFINE Is(F) == F = [i \in 1..n |-> IF i = 1 THEN s[i] ELSE F[i - 1] \o s[i]]
<1> DEFINE G == [i \in 1..n |-> IF i = 1 THEN s[1] ELSE IF i = 2 THEN s[1] \o s[2] ELSE (s[1] \o s[2]) \o s[3]]
<1> DEFINE F == CHOOSE F : Is(F)
<1>1. Is(G)
  <2> DEFINE Value(i) == IF i = 1 THEN s[i] ELSE G[i - 1] \o s[i]
  <2>2. \A i \in 1..n : G[i] = Value(i)
    <3> SUFFICES ASSUME NEW i \in 1..n PROVE G[i] = Value(i)
      OBVIOUS
    <3>1. i = 1 \/ i = 2 \/ i = 3
      BY <1>0
    <3>2. CASE i = 1
      BY <3>2
    <3>3. CASE i = 2
      <4>1. 1 \in 1..n /\ 2 \in 1..n /\ i - 1 = 1 /\ 2 # 1
        BY <1>0, <3>3
      <4>2. G[2] = s[1] \o s[2] /\ G[1] = s[1]
        BY Zenon, <4>1
      <4> QED
        BY Zenon, <3>3, <4>1, <4>2
    <3>4. CASE i = 3
      <4>1. 2 \in 1..n /\ 3 \in 1..n /\ i - 1 = 2 /\ 2 # 1 /\ 3 # 1 /\ 3 # 2
        BY <1>0, <3>4
      <4>2. G[3] = (s[1] \o s[2]) \o s[3] /\ G[2] = s[1] \o s[2]
        BY Zenon, <4>1
      <4> QED
        BY Zenon, <3>4, <4>1, <4>2
    <3> QED
      BY <3>1, <3>2, <3>3, <3>4
  <2>3. G = [i \in 1..n |-> G[i]]
    OBVIOUS
  <2> HIDE DEF G
  <2> QED
    BY <2>2, <2>3
<1>2. Is(F)
  BY Zenon, <1>1
<1>3. FlattenSeq(s) = F[n]
  BY <1>0 DEF FlattenSeq, n
<1> HIDE DEF F
<1>4. \A i \in 1..n : F[i] = IF i = 1 THEN s[i] ELSE F[i - 1] \o s[i]
  BY <1>2
<1>5. F[1] = s[1]
  BY <1>0, <1>4
<1>6. n >= 2 => F[2] = F[1] \o s[2]
  <2>1. n >= 2 => 2 \in 1..n /\ 2 - 1 = 1 /\ 2 # 1
    BY <1>0
  <2> QED
    BY Zenon, <1>4, <2>1
<1>7. n >= 3 => F[3] = F[2] \o s[3]
  <2>1. n >= 3 => 3 \in 1..n /\ 3 - 1 = 2 /\ 3 # 1
    BY <1>0
  <2> QED
    BY Zenon, <1>4, <2>1
<1> QED
  BY <1>3, <1>5, <1>6, <1>7 DEF n

(* The pixels of the outputs end to end: each is one of an output's, as far   *)
(* behind the LEDs of the outputs before it.                                  *)
LEMMA PixelsEndToEnd ==
    ASSUME NEW outputs, NEW seq, Tidy(outputs, seq)
    PROVE  LET flat == FlattenSeq([i \in DOMAIN outputs |-> outputs[i].pixels])
           IN  /\ IsList(flat)
               /\ \A j \in 1..Len(flat) : \E i \in DOMAIN outputs : \E k \in 1..Len(outputs[i].pixels) :
                     j = Cardinality(LedsBefore(outputs, i)) + k /\ flat[j] = outputs[i].pixels[k]
<1> DEFINE s == [i \in DOMAIN outputs |-> outputs[i].pixels]
<1>1. /\ Len(outputs) \in 1..3 /\ DOMAIN outputs = 1..Len(outputs) /\ Apart(outputs, "output")
      /\ \A i \in DOMAIN outputs : IsList(outputs[i].pixels) /\ Len(outputs[i].pixels) \in Nat
  BY DEF Tidy
<1> DEFINE n == Len(outputs)
<1>2. Len(s) = n /\ \A i \in DOMAIN outputs : s[i] = outputs[i].pixels
  BY <1>1
<1> HIDE DEF s
<1>3. PICK F : /\ FlattenSeq(s) = F[n] /\ F[1] = s[1]
               /\ n >= 2 => F[2] = F[1] \o s[2]
               /\ n >= 3 => F[3] = F[2] \o s[3]
  BY <1>1, <1>2, FlattenThree
<1> DEFINE At(i) == Cardinality(LedsBefore(outputs, i))
<1> DEFINE Good(m) ==
       /\ IsList(F[m]) /\ Len(F[m]) = At(m) + Len(outputs[m].pixels)
       /\ \A j \in 1..Len(F[m]) : \E i \in 1..m : \E k \in 1..Len(outputs[i].pixels) :
             j = At(i) + k /\ F[m][j] = outputs[i].pixels[k]
<1>4. /\ At(1) = 0
      /\ \A i \in DOMAIN outputs : At(i) \in Nat
      /\ \A i \in DOMAIN outputs : i + 1 \in DOMAIN outputs => At(i + 1) = At(i) + Len(outputs[i].pixels)
  <2>1. ASSUME NEW i \in DOMAIN outputs
        PROVE  /\ IsFiniteSet(LedsBefore(outputs, i)) /\ At(1) = 0
               /\ i + 1 \in DOMAIN outputs => At(i + 1) = At(i) + Len(outputs[i].pixels)
    BY <1>1, LedsCount
  <2>2. \A i \in DOMAIN outputs : At(i) \in Nat
    BY <2>1, FS_CardinalityType
  <2>3. 1 \in DOMAIN outputs
    BY <1>1
  <2> HIDE DEF At
  <2> QED
    BY <2>1, <2>2, <2>3
<1>5. 1 \in DOMAIN outputs
  BY <1>1
<1> HIDE DEF At, n
<1>6. Good(1)
  <2>1. F[1] = outputs[1].pixels
    BY <1>2, <1>3, <1>5
  <2>2. \A j \in 1..Len(F[1]) : j = At(1) + j /\ F[1][j] = outputs[1].pixels[j] /\ 1 \in 1..1
    BY <1>4, <2>1
  <2> QED
    BY <1>1, <1>4, <1>5, <2>1, <2>2
<1>7. ASSUME NEW m \in DOMAIN outputs, m + 1 \in DOMAIN outputs, F[m + 1] = F[m] \o s[m + 1], Good(m)
      PROVE  Good(m + 1)
  <2> DEFINE a == F[m]
  <2> DEFINE b == outputs[m + 1].pixels
  <2>1. F[m + 1] = a \o b /\ IsList(a) /\ IsList(b) /\ Len(a) = At(m + 1)
    BY <1>1, <1>2, <1>4, <1>7
  <2>2. Len(a) \in Nat /\ Len(b) \in Nat
    BY <2>1, ListDomain
  <2> HIDE DEF a, b
  <2>3. /\ IsList(a \o b) /\ Len(a \o b) = Len(a) + Len(b)
        /\ \A j \in 1..Len(a) : (a \o b)[j] = a[j]
        /\ \A j \in 1..Len(b) : (a \o b)[Len(a) + j] = b[j]
    <3>1. IsList(a) /\ IsList(b)
      BY <2>1
    <3> QED
      BY ONLY <3>1, ConcatKnown
  <2>4. ASSUME NEW j \in 1..Len(F[m + 1])
        PROVE  \E i \in 1..(m + 1) : \E k \in 1..Len(outputs[i].pixels) :
                  j = At(i) + k /\ F[m + 1][j] = outputs[i].pixels[k]
    <3>1. m \in Nat
      BY <1>1
    <3>2. CASE j \in 1..Len(a)
      <4>1. PICK i \in 1..m : \E k \in 1..Len(outputs[i].pixels) : j = At(i) + k /\ a[j] = outputs[i].pixels[k]
        BY <1>7, <3>2 DEF a
      <4>2. i \in 1..(m + 1) /\ F[m + 1][j] = a[j]
        BY <2>1, <2>3, <3>1, <3>2
      <4> QED
        BY <4>1, <4>2
    <3>3. CASE j \notin 1..Len(a)
      <4> DEFINE k == j - Len(a)
      <4>1. k \in 1..Len(b) /\ j = Len(a) + k
        BY <2>1, <2>2, <2>3, <3>3
      <4>2. F[m + 1][j] = b[k] /\ j = At(m + 1) + k
        BY <2>1, <2>3, <4>1
      <4>3. m + 1 \in 1..(m + 1)
        BY <3>1
      <4> HIDE DEF k
      <4> QED
        BY <4>1, <4>2, <4>3 DEF b
    <3> QED
      BY <3>2, <3>3
  <2>5. IsList(F[m + 1]) /\ Len(F[m + 1]) = At(m + 1) + Len(b)
    BY <2>1, <2>3
  <2> QED
    BY <2>4, <2>5 DEF b
<1> HIDE DEF Good
<1>8. Good(n)
  <2>1. n = 1 \/ n = 2 \/ n = 3
    BY <1>1 DEF n
  <2>2. n >= 2 => Good(2)
    <3>1. n >= 2 => 2 \in DOMAIN outputs /\ 1 + 1 = 2
      BY <1>1, <2>1 DEF n
    <3> QED
      BY <1>3, <1>5, <1>6, <1>7, <3>1
  <2>3. n >= 3 => Good(3)
    <3>1. n >= 3 => 2 \in DOMAIN outputs /\ 3 \in DOMAIN outputs /\ 2 + 1 = 3 /\ n >= 2
      BY <1>1, <2>1 DEF n
    <3> QED
      BY <1>3, <1>7, <2>2, <3>1
  <2> QED
    BY <1>6, <2>1, <2>2, <2>3
<1>9. DOMAIN outputs = 1..n
  BY <1>1 DEF n
<1> DEFINE flat == F[n]
<1>10. /\ IsList(flat)
       /\ \A j \in 1..Len(flat) : \E i \in 1..n : \E k \in 1..Len(outputs[i].pixels) :
             j = At(i) + k /\ flat[j] = outputs[i].pixels[k]
  BY <1>8 DEF Good
<1>11. FlattenSeq(s) = flat
  BY <1>3
<1> HIDE DEF flat
<1>12. \A j \in 1..Len(flat) : \E i \in DOMAIN outputs : \E k \in 1..Len(outputs[i].pixels) :
          j = At(i) + k /\ flat[j] = outputs[i].pixels[k]
  BY ONLY <1>9, <1>10
<1> QED
  BY <1>10, <1>11, <1>12 DEF At, s

(* A node's frame on a controller: pixel j of the outputs end to end is the   *)
(* one that belongs to its LED j.                                             *)
LEMMA OutputsPlaced ==
    ASSUME NEW p \in Profiles, Accepted(p), NEW r, r.kind = "wled", NEW outputs, NEW seq,
           Tidy(outputs, seq), Pictured(outputs, p, r.node, seq), Lengths(outputs) = Promised(p, r.node)
    PROVE  LET flat == FlattenSeq([i \in DOMAIN outputs |-> outputs[i].pixels])
           IN  IsList(flat) /\ \A j \in 1..Len(flat) : InPlace(p, r, <<j, flat[j]>>)
<1> DEFINE flat == FlattenSeq([i \in DOMAIN outputs |-> outputs[i].pixels])
<1>1. /\ IsList(flat)
      /\ \A j \in 1..Len(flat) : \E i \in DOMAIN outputs : \E k \in 1..Len(outputs[i].pixels) :
            j = Cardinality(LedsBefore(outputs, i)) + k /\ flat[j] = outputs[i].pixels[k]
  BY PixelsEndToEnd
<1> HIDE DEF flat
<1>2. ASSUME NEW j \in 1..Len(flat)
      PROVE  InPlace(p, r, <<j, flat[j]>>)
  <2>1. PICK i \in DOMAIN outputs : \E k \in 1..Len(outputs[i].pixels) :
           j = Cardinality(LedsBefore(outputs, i)) + k /\ flat[j] = outputs[i].pixels[k]
    BY <1>1
  <2>2. PICK k \in 1..Len(outputs[i].pixels) :
           j = Cardinality(LedsBefore(outputs, i)) + k /\ flat[j] = outputs[i].pixels[k]
    BY <2>1
  <2>3. PICK o \in OutputsOf(p, r.node) :
           /\ outputs[i].output = o.output /\ o.strip \in StripIds(p)
           /\ Len(outputs[i].pixels) = LengthOf(p, o.strip)
           /\ \A m \in DOMAIN outputs[i].pixels :
                 outputs[i].pixels[m] = <<seq, Place(p, o.strip, Turned(m, LengthOf(p, o.strip), o.direction))>>
    BY DEF Pictured
  <2>4. /\ DOMAIN outputs = 1..Len(outputs) /\ Len(outputs) \in 1..3
        /\ \A m \in DOMAIN outputs : outputs[m].output \in Int
        /\ \A m, n \in DOMAIN outputs : m < n => outputs[m].output < outputs[n].output
    BY DEF Tidy, Pictured
  <2> DEFINE before == {b \in ToSet(p.outputs) : b.node = o.node /\ b.output < o.output}
  <2> DEFINE Block(output, length) == {output} \X (1..length)
  <2>5. before = {b \in OutputsOf(p, r.node) : b.output < o.output}
    BY DEF OutputsOf
  <2>6. ASSUME NEW b \in before
        PROVE  \E m \in 1..(i - 1) : outputs[m].output = b.output /\ Len(outputs[m].pixels) = LengthOf(p, b.strip)
    <3>1. [output |-> b.output, gpio |-> b.gpio, pixels |-> LengthOf(p, b.strip)] \in Lengths(outputs)
      BY <2>5 DEF Promised
    <3>2. PICK m \in DOMAIN outputs : outputs[m].output = b.output /\ Len(outputs[m].pixels) = LengthOf(p, b.strip)
      BY <3>1 DEF Lengths
    <3>3. outputs[m].output < outputs[i].output
      BY <2>3, <2>5, <3>2
    <3>4. ~(i < m) /\ i # m
      BY <2>4, <3>3
    <3>5. m \in 1..(i - 1)
      BY <2>4, <3>4
    <3> QED
      BY <3>2, <3>5
  <2>7. ASSUME NEW m \in 1..(i - 1)
        PROVE  \E b \in before : outputs[m].output = b.output /\ Len(outputs[m].pixels) = LengthOf(p, b.strip)
    <3>1. m \in DOMAIN outputs /\ m < i
      BY <2>4
    <3>2. PICK b \in OutputsOf(p, r.node) :
             outputs[m].output = b.output /\ Len(outputs[m].pixels) = LengthOf(p, b.strip)
      BY <3>1 DEF Pictured
    <3>3. b.output < o.output
      BY <2>3, <2>4, <3>1, <3>2
    <3> QED
      BY <2>5, <3>2, <3>3
  <2>8. UNION {Block(b.output, LengthOf(p, b.strip)) : b \in before} = LedsBefore(outputs, i)
    <3> DEFINE S == 1..(i - 1)
    <3>1. LedsBefore(outputs, i) = UNION {Block(outputs[m].output, Len(outputs[m].pixels)) : m \in S}
      BY DEF LedsBefore
    <3>2. \A b \in before : \E m \in S : Block(b.output, LengthOf(p, b.strip)) = Block(outputs[m].output, Len(outputs[m].pixels))
      BY <2>6
    <3>3. \A m \in S : \E b \in before : Block(b.output, LengthOf(p, b.strip)) = Block(outputs[m].output, Len(outputs[m].pixels))
      BY <2>7
    <3> HIDE DEF S, before, Block
    <3> QED
      BY <3>1, <3>2, <3>3
  <2>9. j = Cardinality(UNION {{b.output} \X (1..LengthOf(p, b.strip)) : b \in before}) + k
    BY <2>2, <2>8
  <2>10. k \in 1..LengthOf(p, o.strip) /\ k \in DOMAIN outputs[i].pixels
    BY <2>2, <2>3, ListDomain DEF Tidy
  <2>11. flat[j] = <<seq, Place(p, o.strip, Turned(k, LengthOf(p, o.strip), o.direction))>>
    BY <2>2, <2>3, <2>10
  <2>12. InPlace(p, r, <<j, <<seq, Place(p, o.strip, Turned(k, LengthOf(p, o.strip), o.direction))>>>>)
    BY <2>3, <2>9, <2>10, OutputPlaced
  <2> QED
    BY <2>11, <2>12
<1> QED
  BY <1>1, <1>2 DEF flat

(* A node without outputs: its segments. *)
LEMMA SegmentsPlaced ==
    ASSUME NEW p \in Profiles, Accepted(p), Loads(p), NEW r, OutputsOf(p, r.node) = {}, NEW seq,
           NEW k \in DOMAIN p.nodes, p.nodes[k].node = r.node,
           NEW n, n = LayoutNode(p, p.nodes[k]), n \in ToSet(Layout(p).nodes),
           \A m \in ToSet(Layout(p).nodes) : m.node = r.node => m = n
    PROVE  LET pixels == SegmentPixels(Layout(p), n.node, Picture(p, seq), Black)
           IN  /\ n.version # 3 /\ IsList(pixels)
               /\ \A j \in 1..Len(pixels) : InPlace(p, r, <<j, pixels[j]>>)
<1> DEFINE l == Layout(p)
<1> DEFINE segs == LayoutSegments(p)
<1>1. /\ n.node = r.node /\ n.version = Version(p, p.nodes[k])
      /\ n.pixels = (IF p.topology = 3 THEN OutputPixels(p, r.node) ELSE p.nodes[k].pixels)
  BY LaidOutNode DEF ToSet
<1>2. /\ l.segments = segs /\ l.topology = p.topology /\ l.outputs = LayoutOutputs(p)
      /\ StripIds(l) = StripIds(p) /\ \A strip : LengthOf(l, strip) = LengthOf(p, strip)
  BY LayoutOf DEF StripIds, LengthOf
<1>3. NodeOf(l, n.node) = n
  BY <1>1 DEF NodeOf
<1>4. PICK i \in DOMAIN l.nodes : l.nodes[i] = n
  BY DEF ToSet
<1>5. n.version = 2
  <2>1. PhysicallyValid(l)
    BY DEF Loads
  <2>2. n.version \in {2, 3}
    BY <1>4, <2>1 DEF PhysicallyValid
  <2>3. OutputsOf(l, n.node) = {}
    <3> SUFFICES ASSUME NEW j \in DOMAIN p.outputs, LayoutOutputs(p)[j].node = r.node PROVE FALSE
      BY <1>1, <1>2, LayoutOf DEF OutputsOf, ToSet
    <3>1. p.outputs[j].node = r.node
      BY LayoutOf
    <3> QED
      BY <3>1 DEF OutputsOf, ToSet
  <2>4. CASE l.outputs = <<>>
    <3>1. \A j \in DOMAIN l.nodes : l.nodes[j].version # 3
      BY <2>1, <2>4 DEF PhysicallyValid
    <3> QED
      BY <1>4, <2>2, <3>1
  <2>5. CASE l.outputs # <<>>
    <3>1. IndependentOutputs(l)
      BY <2>1, <2>5 DEF PhysicallyValid
    <3>2. n.version = 3 => Cardinality(OutputsOf(l, n.node)) \in 1..3
      BY <1>4, <3>1 DEF IndependentOutputs
    <3>3. Cardinality({}) = 0
      BY FS_EmptySet
    <3> QED
      BY <2>2, <2>3, <3>2, <3>3
  <2> QED
    BY <2>4, <2>5
<1>6. p.topology # 3
  <2> SUFFICES ASSUME p.topology = 3 PROVE FALSE
    OBVIOUS
  <2>1. l.nodes[i].version = 3
    BY <1>2, <1>4 DEF Loads, PhysicallyValid
  <2> QED
    BY <1>4, <1>5, <2>1
<1>7. n.pixels \in Nat
  <2>1. n.pixels >= 1
    BY <1>4 DEF Loads, PhysicallyValid
  <2>2. p.nodes[k].pixels \in Int
    <3>1. p.nodes[k].pixels \in Int \cup {None} /\ p.nodes[k] \in ToSet(p.nodes)
      BY ProfilesAssumption DEF Parsed, ToSet
    <3>2. NodeFits(p, p.nodes[k])
      BY DEF Accepted, NodesFit
    <3>3. p.nodes[k].pixels # None
      BY <1>6, <3>2 DEF NodeFits
    <3> QED
      BY <3>1, <3>3
  <2> QED
    BY <1>1, <1>6, <2>1, <2>2
<1>8. /\ \A j \in DOMAIN segs :
            /\ segs[j].strip \in StripIds(p) /\ segs[j].offset >= 0
            /\ segs[j].pixels \in 1..LengthOf(p, segs[j].strip)
      /\ \A i1, i2 \in DOMAIN segs : i1 # i2 =>
            ({segs[i1].node} \X Span(segs[i1].offset, segs[i1].pixels))
            \cap ({segs[i2].node} \X Span(segs[i2].offset, segs[i2].pixels)) = {}
  <2>1. SegmentsFit(l)
    BY DEF Loads, PhysicallyValid
  <2>2. \A j \in DOMAIN segs :
           /\ segs[j].strip \in StripIds(p) /\ segs[j].offset >= 0
           /\ segs[j].pixels \in 1..LengthOf(p, segs[j].strip)
    BY <1>2, <2>1 DEF SegmentsFit
  <2> DEFINE over == [j \in DOMAIN segs |-> {segs[j].node} \X Span(segs[j].offset, segs[j].pixels)]
  <2>3. Disjoint(over)
    BY <1>2, <2>1 DEF SegmentsFit
  <2> HIDE DEF segs
  <2>4. \A i1, i2 \in DOMAIN over : i1 # i2 => over[i1] \cap over[i2] = {}
    BY <2>3 DEF Disjoint
  <2> QED
    BY <2>2, <2>4
<1>9. \A j \in DOMAIN segs : segs[j].offset \in Int /\ j \in Int
  <2>1. IsList(p.segments) /\ IsList(p.strips) /\ \A s \in ToSet(p.segments) : s.offset \in Int
    BY ProfilesAssumption DEF Parsed
  <2>2. CASE segs = p.segments
    BY <2>1, <2>2, ListDomain DEF ToSet
  <2>3. CASE segs # p.segments
    <3>1. /\ DOMAIN segs = DOMAIN p.strips
          /\ \A j \in DOMAIN segs : segs[j].offset = Total(Each(SubSeq(p.strips, 1, j - 1), "pixels"))
      BY <2>3 DEF LayoutSegments
    <3>2. ASSUME NEW j \in DOMAIN p.strips
          PROVE  Total(Each(SubSeq(p.strips, 1, j - 1), "pixels")) \in Nat /\ j \in Int
      <4> DEFINE part == SubSeq(p.strips, 1, j - 1)
      <4> DEFINE S == ToSet(p.strips)
      <4>1. \A s \in S : s.pixels \in Int
        BY ProfilesAssumption DEF Parsed
      <4>2. p.strips \in Seq(S) /\ j \in 1..Len(p.strips) /\ Len(p.strips) \in Nat
        BY <2>1, ListDomain DEF IsList
      <4> HIDE DEF S
      <4>3. DOMAIN part = 1..(j - 1) /\ \A m \in 1..(j - 1) : part[m] = p.strips[m] /\ p.strips[m] \in S
        BY <4>2
      <4> HIDE DEF part
      <4>4. /\ DOMAIN Each(part, "pixels") = 1..(j - 1)
            /\ \A m \in 1..(j - 1) : Each(part, "pixels")[m] \in Int
        BY <4>1, <4>3 DEF Each
      <4>5. j - 1 \in Nat /\ j \in Int
        BY <4>2
      <4> QED
        BY <4>4, <4>5, BlocksFinite DEF part
    <3> HIDE DEF segs
    <3> QED
      BY <3>1, <3>2
  <2> QED
    BY <2>2, <2>3
<1>10. \A j \in DOMAIN segs : segs[j].pixels \in Nat
  <2>1. \A strip \in StripIds(p) : LengthOf(p, strip) \in Nat
    BY StripLength
  <2> HIDE DEF segs
  <2> QED
    BY <1>8, <2>1
<1> DEFINE Over(led) == {j \in DOMAIN segs : segs[j].node = n.node /\ led - 1 \in Span(segs[j].offset, segs[j].pixels)}
<1> DEFINE Light(led, j) == Flip(SubSeq(Picture(p, seq)[segs[j].strip], 1, segs[j].pixels), segs[j].direction)[led - segs[j].offset]
<1> DEFINE pixels == SegmentPixels(l, n.node, Picture(p, seq), Black)
<1>11. pixels = [led \in 1..n.pixels |-> IF Over(led) = {} THEN Black ELSE Light(led, Max(Over(led)))]
  BY <1>2, <1>3 DEF SegmentPixels
<1> HIDE DEF pixels, segs
<1>12. IsList(pixels) /\ Len(pixels) = n.pixels
  <2> DEFINE total == n.pixels
  <2>1. pixels = [led \in 1..total |-> pixels[led]] /\ \A led \in 1..total : pixels[led] \in ToSet(pixels)
    <3>1. DOMAIN pixels = 1..total
      BY Zenon, <1>11
    <3>2. \A led \in 1..total : pixels[led] \in ToSet(pixels)
      BY <3>1 DEF ToSet
    <3>3. pixels = [led \in DOMAIN pixels |-> pixels[led]]
      BY Zenon, <1>11
    <3> QED
      BY <3>1, <3>2, <3>3
  <2>2. total \in Nat
    BY <1>7
  <2> HIDE DEF total
  <2>3. pixels \in Seq(ToSet(pixels)) /\ Len(pixels) = total
    BY <2>1, <2>2
  <2> QED
    BY <2>3 DEF IsList, total
<1>13. Wired(p, r) = UNION {WiredSegment(s) : s \in {g \in ToSet(segs) : g.node = r.node}}
  BY DEF Wired, segs
<1>14. ASSUME NEW led \in 1..n.pixels
       PROVE  InPlace(p, r, <<led, pixels[led]>>)
  <2>0. led \in Int
    BY <1>7
  <2>1. CASE Over(led) = {}
    <3>1. pixels[led] = Black
      BY Zenon, <1>11, <2>1
    <3>2. {w \in Wired(p, r) : w.led = led} = {}
      <4> SUFFICES ASSUME NEW j \in DOMAIN segs, segs[j].node = r.node,
                          NEW w \in WiredSegment(segs[j]), w.led = led
                   PROVE  FALSE
        BY <1>13 DEF ToSet
      <4>1. PICK m \in 1..segs[j].pixels : w.led = segs[j].offset + m
        BY DEF WiredSegment
      <4>2. led - 1 \in Span(segs[j].offset, segs[j].pixels)
        BY <1>9, <1>10, <4>1 DEF Span
      <4> QED
        BY <1>1, <2>1, <4>2
    <3> QED
      BY <3>1, <3>2 DEF InPlace
  <2>2. ASSUME NEW j \in Over(led)
        PROVE  InPlace(p, r, <<led, pixels[led]>>)
    <3> DEFINE s == segs[j]
    <3>1. j \in DOMAIN segs /\ s.node = r.node /\ led - 1 \in Span(s.offset, s.pixels)
      BY <1>1
    <3>2. \A m \in Over(led) : m = j
      <4> SUFFICES ASSUME NEW m \in Over(led), m # j PROVE FALSE
        OBVIOUS
      <4> DEFINE Of(at) == {segs[at].node} \X Span(segs[at].offset, segs[at].pixels)
      <4>1. Of(m) \cap Of(j) = {}
        BY <1>8, <3>1
      <4>2. <<n.node, led - 1>> \in Of(m) /\ <<n.node, led - 1>> \in Of(j)
        OBVIOUS
      <4> QED
        BY <4>1, <4>2
    <3>3. Over(led) = {j}
      BY <3>2
    <3>4. Max({j}) = j
      <4>1. \E x \in {j} : \A y \in {j} : x >= y
        BY <1>9, <3>1
      <4> QED
        BY <4>1 DEF Max
    <3> HIDE DEF Over
    <3>5. pixels[led] = Light(led, j)
      BY <1>11, <3>3, <3>4
    <3> DEFINE count == s.pixels
    <3> DEFINE m == led - s.offset
    <3>6. m \in 1..count /\ count \in Nat /\ s.offset \in Int /\ led = s.offset + m
      BY <1>9, <1>10, <2>0, <3>1 DEF Span
    <3> DEFINE strip == Picture(p, seq)[s.strip]
    <3> DEFINE part == SubSeq(strip, 1, count)
    <3>7. s.strip \in StripIds(p) /\ count <= LengthOf(p, s.strip) /\ LengthOf(p, s.strip) \in Nat
      BY <1>8, <3>1, StripLength
    <3>8. /\ IsList(strip) /\ Len(strip) = LengthOf(p, s.strip)
          /\ \A at \in 1..LengthOf(p, s.strip) : strip[at] = <<seq, Place(p, s.strip, at)>>
      <4> DEFINE total == LengthOf(p, s.strip)
      <4>1. strip = [at \in 1..total |-> <<seq, Place(p, s.strip, at)>>]
        BY <3>7 DEF Picture
      <4>2. \A at \in 1..total : strip[at] \in ToSet(strip) /\ strip[at] = <<seq, Place(p, s.strip, at)>>
        BY <4>1 DEF ToSet
      <4>3. strip = [at \in 1..total |-> strip[at]]
        BY <4>1
      <4>4. total \in Nat
        BY <3>7
      <4> HIDE DEF strip, total
      <4>5. strip \in Seq(ToSet(strip)) /\ Len(strip) = total
        BY <4>2, <4>3, <4>4
      <4> QED
        BY <4>2, <4>5 DEF IsList, total
    <3> HIDE DEF strip
    <3>9. /\ IsList(part) /\ Len(part) = count
          /\ \A at \in 1..count : part[at] = <<seq, Place(p, s.strip, at)>>
      <4> DEFINE S == ToSet(strip)
      <4>1. strip \in Seq(S)
        BY <3>8 DEF IsList
      <4>2. count \in Nat /\ count <= Len(strip) /\ Len(strip) \in Nat
        BY <3>6, <3>7, <3>8
      <4> HIDE DEF S, count
      <4>3. part \in Seq(S) /\ Len(part) = count /\ \A at \in 1..count : part[at] = strip[at]
        BY <4>1, <4>2
      <4>4. \A at \in 1..count : at \in 1..LengthOf(p, s.strip)
        BY <3>8, <4>2
      <4>5. \A at \in 1..count : part[at] = <<seq, Place(p, s.strip, at)>>
        BY <3>8, <4>3, <4>4
      <4> HIDE DEF part
      <4>6. \A at \in 1..Len(part) : part[at] \in ToSet(part)
        <5>1. DOMAIN part = 1..Len(part)
          BY <4>3
        <5> QED
          BY <5>1 DEF ToSet
      <4>7. part \in Seq(ToSet(part))
        BY <4>3, <4>6
      <4> QED
        BY <4>3, <4>5, <4>7 DEF IsList
    <3> HIDE DEF part, count, m
    <3>10. /\ Turned(m, count, s.direction) \in 1..count
           /\ Flip(part, s.direction)[m] = part[Turned(m, count, s.direction)]
      BY <3>6, <3>9, FlipKnown
    <3> DEFINE index == Turned(m, count, s.direction)
    <3>11. pixels[led] = <<seq, Place(p, s.strip, index)>>
      <4>1. pixels[led] = Flip(part, s.direction)[m]
        BY <3>5 DEF part, strip, count, m
      <4> QED
        BY <3>9, <3>10, <4>1
    <3>12. Place(p, s.strip, index) = Authored(p, s.strip, index)
      <4>1. index \in Int
        BY <3>6, <3>10
      <4> HIDE DEF index
      <4> QED
        BY <4>1, PlaceIsAuthored
    <3> DEFINE w == [led |-> s.offset + m, strip |-> s.strip, index |-> index]
    <3>13. w \in WiredSegment(s)
      BY <3>6 DEF WiredSegment, Turned, count
    <3>14. w \in Wired(p, r)
      <4>1. s \in {g \in ToSet(segs) : g.node = r.node}
        BY <3>1 DEF ToSet
      <4> HIDE DEF w, s
      <4> QED
        BY <1>13, <3>13, <4>1
    <3>15. w.led = led /\ w.strip = s.strip /\ w.index = index
      BY <3>6
    <3> HIDE DEF w, index
    <3> QED
      BY <3>11, <3>12, <3>14, <3>15 DEF InPlace
  <2> QED
    BY <2>1, <2>2
<1> QED
  BY <1>5, <1>12, <1>14 DEF pixels

(* A packet of a controller: each of its lights is the one that belongs to its *)
(* LED.                                                                        *)
LEMMA WledPlaced ==
    ASSUME Known, receiver.kind # "node",
           NEW seq, NEW d \in Outgoing(profile, receiver, seq), NEW k \in DOMAIN d.pixels
    PROVE  InPlace(profile, receiver, <<d.offset \div 3 + k, d.pixels[k]>>)
<1> DEFINE p == profile
<1>1. p \in Profiles /\ Accepted(p) /\ Loads(p) /\ receiver.kind = "wled"
  BY DEF Known, ReceiversOf
<1>2. PICK j \in DOMAIN p.nodes :
         LET m == LayoutNode(p, p.nodes[j])
         IN  /\ m \in ToSet(Layout(p).nodes) /\ m.node = receiver.node
             /\ \A o \in ToSet(Layout(p).nodes) : o.node = receiver.node => o = m
  BY KnownLayout
<1> DEFINE n == LayoutNode(p, p.nodes[j])
<1>3. /\ n \in ToSet(Layout(p).nodes) /\ n.node = receiver.node
      /\ \A m \in ToSet(Layout(p).nodes) : m.node = receiver.node => m = n
      /\ p.nodes[j].node = receiver.node
  BY <1>2 DEF LayoutNode
<1> DEFINE f == FrameOf(n, seq)
<1> DEFINE outputs == OutputFrames(Layout(p), n.node, Picture(p, seq))
<1> HIDE DEF n
<1>4. d \in DdpPackets(f, seq) /\ f.outputs = outputs
  <2>1. /\ f.outputs = outputs
        /\ Outgoing(p, receiver, seq) = IF ~n.enabled THEN {}
                                        ELSE IF receiver.kind = "node" THEN Datagrams(f, seq)
                                        ELSE DdpPackets(f, seq)
    BY <1>3, KnownOutgoing
  <2> HIDE DEF f, outputs
  <2> QED
    BY <2>1
<1> DEFINE pixels == NodePixels(f)
<1>5. IsList(pixels) /\ \A led \in 1..Len(pixels) : InPlace(p, receiver, <<led, pixels[led]>>)
  <2>1. CASE OutputsOf(p, n.node) # {}
    <3>1. /\ Tidy(outputs, seq) /\ Lengths(outputs) = Promised(p, n.node)
          /\ Pictured(outputs, p, n.node, seq)
      BY ONLY <1>1, <1>3, <2>1, FrameOutputs
    <3> HIDE DEF outputs, f
    <3>2. pixels = FlattenSeq([i \in DOMAIN outputs |-> outputs[i].pixels])
      <4>1. outputs # <<>>
        BY <3>1 DEF Tidy
      <4> QED
        BY <1>4, <4>1 DEF NodePixels
    <3> HIDE DEF pixels
    <3> QED
      BY <1>1, <1>3, <3>1, <3>2, OutputsPlaced
  <2>2. CASE OutputsOf(p, n.node) = {}
    <3>1. outputs = <<>>
      BY <1>1, <2>2, NoOutputs
    <3> DEFINE segmented == SegmentPixels(Layout(p), n.node, Picture(p, seq), Black)
    <3>2. /\ n.version # 3 /\ IsList(segmented)
          /\ \A led \in 1..Len(segmented) : InPlace(p, receiver, <<led, segmented[led]>>)
      BY <1>1, <1>3, <2>2, SegmentsPlaced DEF n
    <3>3. f.pixels = segmented
      BY <3>2 DEF FrameOf, NodeFrame
    <3> HIDE DEF segmented, f, outputs
    <3>4. pixels = segmented
      BY <1>4, <3>1, <3>3 DEF NodePixels
    <3> QED
      BY <3>2, <3>4
  <2> QED
    BY <2>1, <2>2
<1> HIDE DEF f
<1>6. d.offset \div 3 + k \in 1..Len(pixels) /\ d.pixels[k] = pixels[d.offset \div 3 + k]
  BY <1>4, <1>5, PacketPixel
<1> DEFINE led == d.offset \div 3 + k
<1> HIDE DEF pixels, led
<1> QED
  BY <1>5, <1>6 DEF led

-----------------------------------------------------------------------------
(* The picture *)

(* What a receiver shows, collects or holds is in its place; what a node       *)
(* collects and what it shows is of one frame.                                 *)
PictureInv ==
    /\ MirrorInv
    /\ DOMAIN rx = {"active", "got", "completed", "last", "queued", "buffer"}
    /\ phase # "playing" => shown = {}
    /\ \A l \in shown \cup rx.got \cup rx.buffer : InPlace(profile, receiver, l)
    /\ \A l \in rx.got : l[2][1] = rx.active
    /\ receiver.kind = "node" => \E seq : \A l \in shown : l[2][1] = seq

(* What the run checks of it.                                                  *)
LEMMA PictureShows == ASSUME PictureInv PROVE PictureInPlace
<1>1. \A l \in shown : InPlace(profile, receiver, l)
  BY DEF PictureInv
<1>2. receiver.kind = "node" => \A l, m \in shown : l[2][1] = m[2][1]
  BY DEF PictureInv
<1> QED
  BY <1>1, <1>2 DEF PictureInPlace, InPlace

(* What a datagram of a frame does to what the node collects and shows. *)
LEMMA PictureHeardByNode ==
    ASSUME PictureInv, phase = "playing", receiver.kind = "node",
           NEW seq \in 1..sent, NEW d \in air[seq], NodeHears(d)
    PROVE  /\ DOMAIN rx' = DOMAIN rx /\ rx'.buffer = rx.buffer
           /\ \A l \in shown' \cup rx'.got : InPlace(profile, receiver, l)
           /\ \A l \in rx'.got : l[2][1] = rx'.active
           /\ \E s : \A l \in shown' : l[2][1] = s
<1>1. /\ DOMAIN rx = {"active", "got", "completed", "last", "queued", "buffer"}
      /\ \A l \in shown \cup rx.got : InPlace(profile, receiver, l)
      /\ \A l \in rx.got : l[2][1] = rx.active
      /\ \E s : \A l \in shown : l[2][1] = s
  BY DEF PictureInv
<1>2. /\ d.seq = seq /\ d.type \in {"frame", "chunk"}
      /\ \A l \in Lights(d) : l[2][1] = seq /\ InPlace(profile, receiver, l)
  <2>1. Journal /\ FrameEncodes(profile)
    BY DEF PictureInv, MirrorInv, NewestInv
  <2>2. Known /\ d \in Outgoing(profile, receiver, seq)
    BY <2>1 DEF Journal, Known
  <2> QED
    BY <2>1, <2>2, NodePlaced
<1>3. CASE NodeIgnores
  <2>1. /\ DOMAIN rx' = DOMAIN rx /\ rx'.buffer = rx.buffer /\ rx'.got = rx.got /\ rx'.active = rx.active
        /\ shown' = shown
    BY <1>1, <1>3 DEF NodeIgnores
  <2> QED
    BY <1>1, <2>1
<1>4. ASSUME NEW leds, Queue(d, leds), \A l \in leds : l[2][1] = seq /\ InPlace(profile, receiver, l)
      PROVE  /\ DOMAIN rx' = DOMAIN rx /\ rx'.buffer = rx.buffer
             /\ \A l \in shown' \cup rx'.got : InPlace(profile, receiver, l)
             /\ \A l \in rx'.got : l[2][1] = rx'.active
             /\ \E s : \A l \in shown' : l[2][1] = s
  <2>1. /\ DOMAIN rx' = DOMAIN rx /\ rx'.buffer = rx.buffer /\ rx'.got = {}
        /\ shown' = leds
    BY <1>1, <1>4 DEF Queue
  <2> QED
    BY <1>4, <2>1
<1>5. CASE d.type = "frame" /\ NodeHearsFrame(d)
  <2>1. Queue(d, FrameLeds(d)) \/ NodeIgnores
    BY <1>5 DEF NodeHearsFrame
  <2>2. Lights(d) = FrameLeds(d)
    BY <1>5 DEF Lights
  <2> QED
    BY <1>2, <1>3, <1>4, <2>1, <2>2
<1>6. CASE d.type = "chunk" /\ NodeHearsChunk(d)
  <2> DEFINE got == Collected(rx, d)
  <2>1. \A l \in got : l[2][1] = seq /\ InPlace(profile, receiver, l)
    <3>1. Lights(d) = ChunkLeds(d)
      BY <1>6 DEF Lights
    <3>2. \A l \in got : l \in ChunkLeds(d) \/ (l \in rx.got /\ rx.active = seq)
      BY <1>2 DEF Collected
    <3> HIDE DEF got
    <3> QED
      BY <1>1, <1>2, <3>1, <3>2
  <2>2. \/ NodeIgnores
        \/ Queue(d, got)
        \/ /\ rx' = [rx EXCEPT !.active = d.seq, !.got = got, !.queued = 0]
           /\ UNCHANGED shown
    BY <1>6 DEF NodeHearsChunk
  <2> HIDE DEF got
  <2>3. CASE /\ rx' = [rx EXCEPT !.active = d.seq, !.got = got, !.queued = 0]
             /\ UNCHANGED shown
    <3>1. /\ DOMAIN rx' = DOMAIN rx /\ rx'.buffer = rx.buffer /\ rx'.got = got /\ rx'.active = seq
          /\ shown' = shown
      BY <1>1, <1>2, <2>3
    <3> QED
      BY <1>1, <2>1, <3>1
  <2> QED
    BY <1>3, <1>4, <2>1, <2>2, <2>3
<1> QED
  BY <1>2, <1>3, <1>5, <1>6 DEF NodeHears

(* What a packet does to what the controller holds and shows.                  *)
LEMMA PictureHeardByWled ==
    ASSUME PictureInv, phase = "playing", receiver.kind = "wled",
           NEW seq \in 1..sent, NEW d \in air[seq], WledHears(d)
    PROVE  /\ DOMAIN rx' = DOMAIN rx /\ rx'.got = rx.got /\ rx'.active = rx.active
           /\ \A l \in shown' \cup rx'.buffer : InPlace(profile, receiver, l)
<1> DEFINE new == {<<d.offset \div 3 + k, d.pixels[k]>> : k \in DOMAIN d.pixels}
<1> DEFINE written == {w \in rx.buffer : \A n \in new : n[1] # w[1]} \cup new
<1>1. /\ DOMAIN rx = {"active", "got", "completed", "last", "queued", "buffer"}
      /\ \A l \in shown \cup rx.buffer : InPlace(profile, receiver, l)
  BY DEF PictureInv
<1>2. \A l \in new : InPlace(profile, receiver, l)
  <2>1. Journal
    BY DEF PictureInv, MirrorInv, NewestInv
  <2>2. Known /\ d \in Outgoing(profile, receiver, seq)
    BY <2>1 DEF Journal, Known
  <2> QED
    BY <2>2, WledPlaced
<1>3. \A l \in written : l \in rx.buffer \/ l \in new
  OBVIOUS
<1>4. /\ rx' = [rx EXCEPT !.buffer = written]
      /\ shown' = written \/ shown' = shown
  BY DEF WledHears
<1> HIDE DEF new, written
<1>5. /\ DOMAIN rx' = DOMAIN rx /\ rx'.got = rx.got /\ rx'.active = rx.active /\ rx'.buffer = written
  BY <1>1, <1>4
<1> QED
  BY <1>1, <1>2, <1>3, <1>4, <1>5

(* Every step keeps it: only what is heard changes what is shown.              *)
LEMMA PictureNext ==
    ASSUME PictureInv, [Next]_vars
    PROVE  PictureInv'
<1>0. MirrorInv /\ MirrorInv'
  BY MirrorNext DEF PictureInv
<1> DEFINE Fields == {"active", "got", "completed", "last", "queued", "buffer"}
<1>1. ASSUME UNCHANGED <<profile, receiver>>, DOMAIN rx' = Fields,
             phase' # "playing" => shown' = {},
             \A l \in shown' \cup rx'.got \cup rx'.buffer : InPlace(profile, receiver, l),
             \A l \in rx'.got : l[2][1] = rx'.active,
             receiver.kind = "node" => \E s : \A l \in shown' : l[2][1] = s
      PROVE  PictureInv'
  BY <1>0, <1>1 DEF PictureInv
<1>2. /\ DOMAIN rx = Fields
      /\ phase # "playing" => shown = {}
      /\ \A l \in shown \cup rx.got \cup rx.buffer : InPlace(profile, receiver, l)
      /\ \A l \in rx.got : l[2][1] = rx.active
      /\ receiver.kind = "node" => \E s : \A l \in shown : l[2][1] = s
  BY DEF PictureInv
<1> HIDE DEF Fields
<1>3. CASE UNCHANGED vars
  <2>1. UNCHANGED <<profile, phase, receiver, rx, shown>>
    BY <1>3 DEF vars
  <2> QED
    BY <1>1, <1>2, <2>1
<1>4. ASSUME Refuse \/ Load \/ Open
      PROVE  PictureInv'
  <2>1. phase # "playing" /\ UNCHANGED <<rx, shown>>
    BY <1>4 DEF Refuse, Load, Open
  <2>2. rx = NoRx /\ shown = {}
    BY <1>0, <1>2, <2>1 DEF MirrorInv, NewestInv, Journal
  <2>3. rx' = NoRx /\ shown' = {} /\ rx'.got = {} /\ rx'.buffer = {} /\ DOMAIN rx' = Fields
    BY <1>2, <2>1, <2>2 DEF NoRx
  <2> QED
    BY <1>0, <2>3 DEF PictureInv, Fields
<1>5. CASE Send
  <2>1. /\ phase = "playing" /\ UNCHANGED <<profile, phase, receiver, shown>>
        /\ rx' = [rx EXCEPT !.queued = 0]
    BY <1>5 DEF Send
  <2>2. DOMAIN rx' = Fields /\ rx'.got = rx.got /\ rx'.buffer = rx.buffer /\ rx'.active = rx.active
    BY <1>2, <2>1 DEF Fields
  <2> QED
    BY <1>1, <1>2, <2>1, <2>2
<1>6. ASSUME NEW seq \in 1..sent, NEW d \in air[seq], Hear(seq, d)
      PROVE  PictureInv'
  <2>1. /\ phase = "playing" /\ UNCHANGED <<profile, phase, receiver>>
        /\ IF receiver.kind = "wled" THEN WledHears(d) ELSE NodeHears(d)
    BY <1>6 DEF Hear
  <2>2. receiver.kind \in {"node", "wled"}
    <3>1. receiver \in ReceiversOf(profile)
      BY <1>0, <2>1 DEF MirrorInv, NewestInv, Journal
    <3> QED
      BY <3>1 DEF ReceiversOf
  <2>3. CASE receiver.kind = "node"
    <3>1. NodeHears(d)
      BY <2>1, <2>3
    <3>2. /\ DOMAIN rx' = DOMAIN rx /\ rx'.buffer = rx.buffer
          /\ \A l \in shown' \cup rx'.got : InPlace(profile, receiver, l)
          /\ \A l \in rx'.got : l[2][1] = rx'.active
          /\ \E s : \A l \in shown' : l[2][1] = s
      BY <2>1, <2>3, <3>1, PictureHeardByNode
    <3>3. \A l \in shown' \cup rx'.got \cup rx'.buffer : InPlace(profile, receiver, l)
      BY <1>2, <3>2
    <3> QED
      BY <1>1, <1>2, <2>1, <3>2, <3>3
  <2>4. CASE receiver.kind = "wled"
    <3>1. WledHears(d)
      BY <2>1, <2>4
    <3>2. /\ DOMAIN rx' = DOMAIN rx /\ rx'.got = rx.got /\ rx'.active = rx.active
          /\ \A l \in shown' \cup rx'.buffer : InPlace(profile, receiver, l)
      BY <2>1, <2>4, <3>1, PictureHeardByWled
    <3>3. \A l \in shown' \cup rx'.got \cup rx'.buffer : InPlace(profile, receiver, l)
      BY <1>2, <3>2
    <3> QED
      BY <1>1, <1>2, <2>1, <2>4, <3>2, <3>3
  <2> QED
    BY <2>2, <2>3, <2>4
<1> QED
  BY <1>3, <1>4, <1>5, <1>6 DEF Next

(* Whatever order, copies and losses its datagrams met, and whatever outputs  *)
(* its firmware was built for: each LED of a receiver shows the pixel which   *)
(* the profile puts there, and a node all of one frame.                       *)
THEOREM EveryPixelInPlace == Spec => []PictureInPlace
<1>1. Init => PictureInv
  <2> SUFFICES ASSUME Init PROVE PictureInv
    OBVIOUS
  <2>1. phase = "file" /\ receiver = NoNode /\ rx = NoRx /\ shown = {}
    BY DEF Init
  <2>2. MirrorInv
    BY MirrorInit
  <2>3. rx.got = {} /\ rx.buffer = {} /\ receiver.kind = "none"
    BY <2>1 DEF NoRx, NoNode
  <2> QED
    BY <2>1, <2>2, <2>3 DEF PictureInv, NoRx
<1>2. PictureInv /\ [Next]_vars => PictureInv'
  BY PictureNext
<1>3. PictureInv => PictureInPlace
  BY PictureShows
<1> QED
  BY <1>1, <1>2, <1>3, PTL DEF Spec
=============================================================================
