--------------------------- MODULE PlaybackProofs ---------------------------
(* Theorems about Playback, for every set of shows and every bound.        *)
EXTENDS Playback, TLAPS, FiniteSetTheorems

----------------------------------------------------------------------------
(* Handlers as sequences                                                   *)

StepName ==
    {"stop mpv", "probe mpv", "start mpv", "await mpv", "load", "declare", "pause", "resume",
     "unpause", "halt", "poll mpv", "unlink mpv", "drop client", "drop proc", "light", "darken", "grab show", "grab manual", "kill", "drop show",
     "forget show", "drop manual", "remember show", "start show", "start manual", "check show"}

(* The steps still to come.                                                *)
Ahead(s) == {s[i] : i \in 1..Len(s)}

Precedes(s, first, second) ==
    \A i, j \in 1..Len(s) : s[i] = first /\ s[j] = second => i < j

OnlyLast(s, step) == \A i \in 1..Len(s) : s[i] = step => i = Len(s)

(* What comes right before a step, and two steps before it.               *)
Adjacent(s, before, step) ==
    \A i \in 1..(Len(s) - 1) : s[i + 1] = step => s[i] = before

Spaced(s, before, step) ==
    \A i \in 1..(Len(s) - 2) : s[i + 2] = step => s[i] = before

(* A reference is dropped, or overwritten, when the process it named has   *)
(* been killed.                                                            *)
Orderly(s) ==
    /\ Adjacent(s, "kill", "drop show") /\ Spaced(s, "grab show", "drop show")
    /\ Adjacent(s, "kill", "start show") /\ Spaced(s, "grab show", "start show")
    /\ Adjacent(s, "kill", "drop manual") /\ Spaced(s, "grab manual", "drop manual")
    /\ Adjacent(s, "drop show", "start manual")

Program(s) ==
    /\ s \in Seq(StepName)
    /\ Orderly(s)
    /\ OnlyLast(s, "start manual")
    /\ Precedes(s, "drop manual", "start show")
    /\ Precedes(s, "forget show", "remember show")
    /\ Precedes(s, "darken", "light")
    /\ Precedes(s, "start mpv", "declare")
    /\ Precedes(s, "start mpv", "light")
    /\ Precedes(s, "check show", "start show")

LEMMA Joined ==
    ASSUME NEW a \in Seq(StepName), NEW b \in Seq(StepName)
    PROVE  /\ a \o b \in Seq(StepName) /\ Len(a \o b) = Len(a) + Len(b)
           /\ \A i \in 1..Len(a) : (a \o b)[i] = a[i]
           /\ \A i \in 1..(Len(a) + Len(b)) : i > Len(a) => (a \o b)[i] = b[i - Len(a)]
           /\ Ahead(a \o b) = Ahead(a) \cup Ahead(b)
<1>1. /\ a \o b \in Seq(StepName) /\ Len(a \o b) = Len(a) + Len(b)
      /\ \A i \in 1..Len(a) : (a \o b)[i] = a[i]
      /\ \A i \in 1..(Len(a) + Len(b)) : i > Len(a) => (a \o b)[i] = b[i - Len(a)]
  OBVIOUS
<1>2. Len(a) \in Nat /\ Len(b) \in Nat
  OBVIOUS
<1>3. Ahead(a \o b) \subseteq Ahead(a) \cup Ahead(b)
  <2> SUFFICES ASSUME NEW i \in 1..(Len(a) + Len(b))
               PROVE  (a \o b)[i] \in Ahead(a) \cup Ahead(b)
    BY <1>1 DEF Ahead
  <2>1. CASE i \in 1..Len(a)
    BY <1>1, <2>1 DEF Ahead
  <2>2. CASE i > Len(a)
    <3>1. i - Len(a) \in 1..Len(b) /\ (a \o b)[i] = b[i - Len(a)]
      BY <1>1, <1>2, <2>2
    <3> QED
      BY <3>1 DEF Ahead
  <2> QED
    BY <1>2, <2>1, <2>2
<1>4. Ahead(a) \subseteq Ahead(a \o b)
  BY <1>1, <1>2 DEF Ahead
<1>5. Ahead(b) \subseteq Ahead(a \o b)
  <2> SUFFICES ASSUME NEW i \in 1..Len(b) PROVE b[i] \in Ahead(a \o b)
    BY DEF Ahead
  <2>1. /\ Len(a) + i \in 1..(Len(a) + Len(b)) /\ Len(a) + i > Len(a)
        /\ Len(a) + i - Len(a) = i
    BY <1>2
  <2>2. (a \o b)[Len(a) + i] = b[i]
    BY <1>1, <2>1
  <2> QED
    BY <1>1, <2>1, <2>2 DEF Ahead
<1> QED
  BY <1>1, <1>3, <1>4, <1>5

LEMMA TailOf ==
    ASSUME NEW s \in Seq(StepName), s # <<>>
    PROVE  /\ Tail(s) \in Seq(StepName) /\ Len(s) \in Nat /\ Len(s) >= 1
           /\ Len(Tail(s)) = Len(s) - 1 /\ Head(s) = s[1]
           /\ \A i \in 1..(Len(s) - 1) : Tail(s)[i] = s[i + 1]
           /\ Ahead(s) = {Head(s)} \cup Ahead(Tail(s))
<1>1. /\ Tail(s) \in Seq(StepName) /\ Len(s) \in Nat /\ Len(s) >= 1
      /\ Len(Tail(s)) = Len(s) - 1 /\ Head(s) = s[1]
      /\ \A i \in 1..(Len(s) - 1) : Tail(s)[i] = s[i + 1]
  OBVIOUS
<1>2. Ahead(s) \subseteq {Head(s)} \cup Ahead(Tail(s))
  <2> SUFFICES ASSUME NEW i \in 1..Len(s) PROVE s[i] \in {Head(s)} \cup Ahead(Tail(s))
    BY DEF Ahead
  <2>1. CASE i = 1
    BY <1>1, <2>1
  <2>2. CASE i # 1
    <3>1. i - 1 \in 1..Len(Tail(s)) /\ Tail(s)[i - 1] = s[i]
      BY <1>1, <2>2
    <3> QED
      BY <3>1 DEF Ahead
  <2> QED
    BY <2>1, <2>2
<1>3. {Head(s)} \cup Ahead(Tail(s)) \subseteq Ahead(s)
  BY <1>1 DEF Ahead
<1> QED
  BY <1>1, <1>2, <1>3

(* What is left of a program is one.                                       *)
LEMMA ProgramTail ==
    ASSUME NEW s, Program(s), s # <<>>
    PROVE  Program(Tail(s))
<1>0. s \in Seq(StepName)
  BY DEF Program
<1>1. /\ Tail(s) \in Seq(StepName) /\ Len(s) \in Nat /\ Len(s) >= 1
      /\ Len(Tail(s)) = Len(s) - 1
      /\ \A i \in 1..(Len(s) - 1) : Tail(s)[i] = s[i + 1]
  BY <1>0, TailOf
<1>2. ASSUME NEW x, NEW y, Precedes(s, x, y) PROVE Precedes(Tail(s), x, y)
  BY <1>1, <1>2 DEF Precedes
<1>4. ASSUME NEW x, NEW y, Adjacent(s, x, y) PROVE Adjacent(Tail(s), x, y)
  <2> SUFFICES ASSUME NEW i \in 1..(Len(s) - 2), Tail(s)[i + 1] = y PROVE Tail(s)[i] = x
    BY <1>1 DEF Adjacent
  <2>1. PICK k \in 1..(Len(s) - 1) : k = i + 1
    BY <1>1
  <2> QED
    BY <1>1, <1>4, <2>1 DEF Adjacent
<1>5. ASSUME NEW x, NEW y, Spaced(s, x, y) PROVE Spaced(Tail(s), x, y)
  <2> SUFFICES ASSUME NEW i \in 1..(Len(s) - 3), Tail(s)[i + 2] = y PROVE Tail(s)[i] = x
    BY <1>1 DEF Spaced
  <2>1. PICK k \in 1..(Len(s) - 2) : k = i + 1
    BY <1>1
  <2>2. s[k + 2] = y /\ Tail(s)[i] = s[k]
    BY <1>1, <2>1
  <2> QED
    BY <1>5, <2>2 DEF Spaced
<1>6. ASSUME NEW x, OnlyLast(s, x) PROVE OnlyLast(Tail(s), x)
  <2> SUFFICES ASSUME NEW i \in 1..(Len(s) - 1), Tail(s)[i] = x PROVE i = Len(s) - 1
    BY <1>1 DEF OnlyLast
  <2>1. i + 1 \in 1..Len(s) /\ s[i + 1] = x
    BY <1>1
  <2>2. i + 1 = Len(s)
    BY <1>6, <2>1 DEF OnlyLast
  <2>3. Len(s) \in Nat /\ i \in Nat
    BY <1>1
  <2> QED
    BY <2>2, <2>3
<1> QED
  BY <1>1, <1>2, <1>4, <1>5, <1>6 DEF Program, Orderly

(* Where two programs may be put together.                                 *)
EndsInKill(s) == Len(s) >= 2 /\ s[Len(s)] = "kill" /\ s[Len(s) - 1] = "grab show"

Fits(a, b) ==
    /\ \/ b = <<>>
       \/ b[1] \notin {"kill", "drop show", "drop manual", "start show", "start manual"}
       \/ b[1] \in {"drop show", "start show"} /\ EndsInKill(a)
    /\ "start manual" \notin Ahead(a)
    /\ "start show" \notin Ahead(a) \/ "drop manual" \notin Ahead(b)
    /\ "remember show" \notin Ahead(a) \/ "forget show" \notin Ahead(b)
    /\ "light" \notin Ahead(a) \/ "darken" \notin Ahead(b)
    /\ "start mpv" \notin Ahead(b) \/ Ahead(a) \cap {"declare", "light"} = {}
    /\ "check show" \notin Ahead(b)

LEMMA ProgramsJoin ==
    ASSUME NEW a, NEW b, Program(a), Program(b), Fits(a, b)
    PROVE  Program(a \o b)
<1>0. a \in Seq(StepName) /\ b \in Seq(StepName) /\ Len(a) \in Nat /\ Len(b) \in Nat
  <2>1. a \in Seq(StepName) /\ b \in Seq(StepName)
    BY DEF Program
  <2> QED
    BY <2>1
<1>1. /\ a \o b \in Seq(StepName) /\ Len(a \o b) = Len(a) + Len(b)
      /\ \A i \in 1..Len(a) : (a \o b)[i] = a[i]
      /\ \A i \in 1..(Len(a) + Len(b)) : i > Len(a) => (a \o b)[i] = b[i - Len(a)]
  BY <1>0, Joined
<1>a. Len(a \o b) = Len(a) + Len(b)
  BY <1>1
<1>2. /\ \A i \in 1..Len(a) : a[i] \in Ahead(a)
      /\ \A i \in 1..Len(b) : b[i] \in Ahead(b)
  BY DEF Ahead
<1>3. ASSUME NEW i \in 1..Len(a \o b)
      PROVE  \/ i \in 1..Len(a) /\ (a \o b)[i] = a[i]
             \/ i > Len(a) /\ i - Len(a) \in 1..Len(b) /\ (a \o b)[i] = b[i - Len(a)]
  BY <1>0, <1>1
<1>4. ASSUME NEW x, NEW y, Precedes(a, x, y), Precedes(b, x, y),
             x \notin Ahead(b) \/ y \notin Ahead(a)
      PROVE  Precedes(a \o b, x, y)
  <2> SUFFICES ASSUME NEW i \in 1..Len(a \o b), NEW j \in 1..Len(a \o b),
                      (a \o b)[i] = x, (a \o b)[j] = y
               PROVE  i < j
    BY DEF Precedes
  <2>1. CASE i \in 1..Len(a) /\ j \in 1..Len(a)
    BY <1>1, <1>4, <2>1 DEF Precedes
  <2>2. CASE i \in 1..Len(a) /\ j > Len(a)
    BY <1>0, <1>1, <2>2
  <2>3. CASE i > Len(a) /\ i - Len(a) \in 1..Len(b) /\ j \in 1..Len(a)
    BY <1>1, <1>2, <1>4, <2>3
  <2>4. CASE /\ i > Len(a) /\ i - Len(a) \in 1..Len(b) /\ (a \o b)[i] = b[i - Len(a)]
             /\ j > Len(a) /\ j - Len(a) \in 1..Len(b) /\ (a \o b)[j] = b[j - Len(a)]
    <3>1. i - Len(a) < j - Len(a)
      BY <1>4, <2>4 DEF Precedes
    <3> QED
      BY <1>0, <1>1, <3>1
  <2> QED
    BY <1>3, <2>1, <2>2, <2>3, <2>4
<1>6. ASSUME NEW x, NEW y, Adjacent(a, x, y), Adjacent(b, x, y),
             a # <<>> /\ b # <<>> /\ b[1] = y => a[Len(a)] = x
      PROVE  Adjacent(a \o b, x, y)
  <2> SUFFICES ASSUME NEW i \in 1..(Len(a) + Len(b) - 1), (a \o b)[i + 1] = y
               PROVE  (a \o b)[i] = x
    BY <1>a DEF Adjacent
  <2>1. CASE i < Len(a)
    BY <1>0, <1>1, <1>6, <2>1 DEF Adjacent
  <2>2. CASE i = Len(a)
    <3>1. (a \o b)[i + 1] = b[1] /\ (a \o b)[i] = a[i] /\ a # <<>> /\ b # <<>>
      BY <1>0, <1>1, <2>2
    <3> QED
      BY <1>6, <2>2, <3>1
  <2>3. CASE i > Len(a)
    <3>1. PICK k \in 1..(Len(b) - 1) : k = i - Len(a)
      BY <1>0, <2>3
    <3>2. (a \o b)[i + 1] = b[k + 1] /\ (a \o b)[i] = b[k]
      BY <1>0, <1>1, <2>3, <3>1
    <3> QED
      BY <1>6, <3>2 DEF Adjacent
  <2> QED
    BY <1>0, <2>1, <2>2, <2>3
<1>7. ASSUME NEW x, NEW y, Spaced(a, x, y), Spaced(b, x, y),
             Len(a) >= 2 /\ b # <<>> /\ b[1] = y => a[Len(a) - 1] = x,
             ~(Len(b) >= 2 /\ b[2] = y)
      PROVE  Spaced(a \o b, x, y)
  <2> SUFFICES ASSUME NEW i \in 1..(Len(a) + Len(b) - 2), (a \o b)[i + 2] = y
               PROVE  (a \o b)[i] = x
    BY <1>a DEF Spaced
  <2>1. CASE i < Len(a) - 1
    BY <1>0, <1>1, <1>7, <2>1 DEF Spaced
  <2>2. CASE i = Len(a) - 1
    <3>1. (a \o b)[i + 2] = b[1] /\ (a \o b)[i] = a[i] /\ Len(a) >= 2 /\ b # <<>>
      BY <1>0, <1>1, <2>2
    <3> QED
      BY <1>7, <2>2, <3>1
  <2>3. CASE i = Len(a)
    <3>1. (a \o b)[i + 2] = b[2] /\ Len(b) >= 2
      BY <1>0, <1>1, <2>3
    <3> QED
      BY <1>7, <3>1
  <2>4. CASE i > Len(a)
    <3>1. PICK k \in 1..(Len(b) - 2) : k = i - Len(a)
      BY <1>0, <2>4
    <3>2. /\ i > Len(a) /\ i + 2 > Len(a) /\ i - Len(a) = k /\ i + 2 - Len(a) = k + 2
          /\ i \in 1..(Len(a) + Len(b)) /\ i + 2 \in 1..(Len(a) + Len(b))
      BY <1>0, <2>4, <3>1
    <3>3. (a \o b)[i + 2] = b[k + 2]
      BY <1>0, <1>1, <3>2
    <3>4. (a \o b)[i] = b[k]
      BY <1>0, <1>1, <3>2
    <3> QED
      BY <1>7, <3>3, <3>4 DEF Spaced
  <2> QED
    BY <1>0, <2>1, <2>2, <2>3, <2>4
<1>8. Orderly(a \o b)
  <2>1. Orderly(a) /\ Orderly(b)
    BY DEF Program
  <2>2. ~(Len(b) >= 2 /\ b[2] \in {"drop show", "start show", "drop manual"})
    <3>1. b # <<>> => b[1] # "kill"
      BY DEF Fits
    <3>2. Len(b) >= 2 => 1 \in 1..(Len(b) - 1) /\ 1 + 1 = 2 /\ b # <<>>
      BY <1>0
    <3> QED
      BY <2>1, <3>1, <3>2 DEF Orderly, Adjacent
  <2>3. /\ b # <<>> => b[1] \notin {"drop manual", "start manual"}
        /\ b # <<>> /\ b[1] \in {"drop show", "start show"}
             => a[Len(a)] = "kill" /\ a[Len(a) - 1] = "grab show"
    BY DEF Fits, EndsInKill
  <2> QED
    BY <1>6, <1>7, <2>1, <2>2, <2>3 DEF Orderly
<1>9. ASSUME NEW x, OnlyLast(b, x), x \notin Ahead(a) PROVE OnlyLast(a \o b, x)
  <2> SUFFICES ASSUME NEW i \in 1..Len(a \o b), (a \o b)[i] = x
               PROVE  i = Len(a) + Len(b)
    BY <1>a DEF OnlyLast
  <2>1. i > Len(a) /\ i - Len(a) \in 1..Len(b) /\ (a \o b)[i] = b[i - Len(a)]
    BY <1>2, <1>3, <1>9
  <2>2. i - Len(a) = Len(b)
    BY <1>9, <2>1 DEF OnlyLast
  <2> QED
    BY <1>0, <1>1, <2>2
<1> QED
  BY <1>1, <1>4, <1>8, <1>9 DEF Program, Fits

----------------------------------------------------------------------------
(* The programs of the handlers                                            *)

LEMMA JoinedFirst ==
    ASSUME NEW a \in Seq(StepName), NEW b \in Seq(StepName), a # <<>>
    PROVE  a \o b # <<>> /\ (a \o b)[1] = a[1]
<1>1. Len(a \o b) = Len(a) + Len(b) /\ Len(a) \in Nat /\ Len(b) \in Nat /\ Len(a) >= 1
  OBVIOUS
<1>2. (a \o b)[1] = a[1]
  BY <1>1, Joined
<1>3. Len(a \o b) # 0
  BY <1>1
<1> QED
  BY <1>2, <1>3

LEMMA TwoLong ==
    ASSUME NEW x \in StepName, NEW y \in StepName
    PROVE  \E s : /\ s = <<x, y>> /\ s \in Seq(StepName) /\ s # <<>> /\ s[1] = x /\ s[2] = y
                  /\ Len(s) = 2 /\ Ahead(s) = {x, y}
                  /\ \A u, v : (v = y => u = x) => Adjacent(s, u, v)
                  /\ \A u, v : Spaced(s, u, v)
                  /\ \A u, v : u # v /\ ~(v = x /\ u = y) => Precedes(s, u, v)
                  /\ \A v : v # x => OnlyLast(s, v)
<1>1. /\ <<x, y>> \in Seq(StepName) /\ Len(<<x, y>>) = 2 /\ <<x, y>>[1] = x /\ <<x, y>>[2] = y
      /\ <<x, y>> # <<>>
  OBVIOUS
<1>2. PICK s : s = <<x, y>>
  OBVIOUS
<1>3. /\ s \in Seq(StepName) /\ Len(s) = 2 /\ s[1] = x /\ s[2] = y /\ s # <<>>
  BY <1>1, <1>2
<1>4. /\ \A i \in 1..2 : i = 1 \/ i = 2
      /\ 1 \in 1..2 /\ 2 \in 1..2
      /\ \A i \in 1..(2 - 1) : i = 1
      /\ \A i \in 1..(2 - 2) : FALSE
      /\ 1 + 1 = 2 /\ 1 < 2
  OBVIOUS
<1>5. Ahead(s) = {x, y}
  <2>1. Ahead(s) \subseteq {x, y}
    BY <1>3, <1>4 DEF Ahead
  <2>2. x \in Ahead(s) /\ y \in Ahead(s)
    BY <1>3, <1>4 DEF Ahead
  <2> QED
    BY <2>1, <2>2
<1>6. \A u, v : (v = y => u = x) => Adjacent(s, u, v)
  BY <1>3, <1>4 DEF Adjacent
<1>7. \A u, v : Spaced(s, u, v)
  BY <1>3, <1>4 DEF Spaced
<1>8. \A u, v : u # v /\ ~(v = x /\ u = y) => Precedes(s, u, v)
  BY <1>3, <1>4 DEF Precedes
<1>9. \A v : v # x => OnlyLast(s, v)
  BY <1>3, <1>4 DEF OnlyLast
<1> QED
  BY <1>2, <1>3, <1>5, <1>6, <1>7, <1>8, <1>9

(* A program with its names and its first step.                            *)
Piece(s, names, first) ==
    Program(s) /\ Ahead(s) = names /\ s # <<>> /\ s[1] = first

LEMMA OneStep == ASSUME NEW x \in StepName PROVE Piece(<<x>>, {x}, x)
<1>1. <<x>> \in Seq(StepName) /\ Len(<<x>>) = 1 /\ <<x>>[1] = x /\ <<x>> # <<>>
  OBVIOUS
<1>2. PICK s : s = <<x>>
  OBVIOUS
<1>3. s \in Seq(StepName) /\ Len(s) = 1 /\ s[1] = x /\ s # <<>> /\ \A i \in 1..Len(s) : i = 1
  BY <1>1, <1>2
<1>4. Ahead(s) = {x}
  BY <1>3 DEF Ahead
<1>5. Program(s)
  <2>1. \A y, z : Adjacent(s, y, z) /\ Spaced(s, y, z)
    BY <1>3 DEF Adjacent, Spaced
  <2>2. \A y : OnlyLast(s, y)
    BY <1>3 DEF OnlyLast
  <2>3. \A y, z : y # z => Precedes(s, y, z)
    BY <1>3 DEF Precedes
  <2> QED
    BY <1>3, <2>1, <2>2, <2>3 DEF Program, Orderly
<1> QED
  BY <1>2, <1>3, <1>4, <1>5 DEF Piece

LEMMA PiecesJoin ==
    ASSUME NEW a, NEW b, NEW A, NEW B, NEW h, NEW k,
           Piece(a, A, h), Piece(b, B, k),
           \/ k \notin {"kill", "drop show", "drop manual", "start show", "start manual"}
           \/ k \in {"drop show", "start show"} /\ EndsInKill(a),
           "start manual" \notin A,
           "start show" \notin A \/ "drop manual" \notin B,
           "remember show" \notin A \/ "forget show" \notin B,
           "light" \notin A \/ "darken" \notin B,
           "start mpv" \notin B \/ A \cap {"declare", "light"} = {},
           "check show" \notin B
    PROVE  Piece(a \o b, A \cup B, h)
<1>1. Program(a \o b)
  BY ProgramsJoin DEF Piece, Fits
<1>2. a \in Seq(StepName) /\ b \in Seq(StepName) /\ a # <<>>
  BY DEF Piece, Program
<1>3. Ahead(a \o b) = A \cup B
  BY <1>2, Joined DEF Piece
<1>4. a \o b # <<>> /\ (a \o b)[1] = a[1]
  BY <1>2, JoinedFirst
<1> QED
  BY <1>1, <1>3, <1>4 DEF Piece

LEMMA Pairs ==
    ASSUME NEW x \in StepName, NEW y \in StepName, x # "start manual",
           y \notin {"drop show", "start show", "drop manual"},
           y = "start manual" => x = "drop show",
           ~(x = "start show" /\ y = "drop manual"),
           ~(x = "remember show" /\ y = "forget show"), ~(x = "light" /\ y = "darken"),
           ~(x \in {"declare", "light"} /\ y = "start mpv"), y # "check show"
    PROVE  Piece(<<x, y>>, {x, y}, x)
<1>1. PICK s : /\ s = <<x, y>> /\ s \in Seq(StepName) /\ s # <<>> /\ s[1] = x /\ s[2] = y
               /\ Len(s) = 2 /\ Ahead(s) = {x, y}
               /\ \A u, v : (v = y => u = x) => Adjacent(s, u, v)
               /\ \A u, v : Spaced(s, u, v)
               /\ \A u, v : u # v /\ ~(v = x /\ u = y) => Precedes(s, u, v)
               /\ \A v : v # x => OnlyLast(s, v)
  BY TwoLong
<1>2. Orderly(s)
  BY <1>1 DEF Orderly
<1>3. /\ Precedes(s, "forget show", "remember show") /\ Precedes(s, "darken", "light")
      /\ Precedes(s, "start mpv", "declare") /\ Precedes(s, "start mpv", "light")
      /\ Precedes(s, "drop manual", "start show") /\ Precedes(s, "check show", "start show")
  BY <1>1
<1>4. OnlyLast(s, "start manual")
  BY <1>1
<1> QED
  BY <1>1, <1>2, <1>3, <1>4 DEF Piece, Program

LEMMA KillLast ==
    ASSUME NEW a \in Seq(StepName), NEW b \in Seq(StepName), Len(b) = 2
    PROVE  /\ Len(a \o b) >= 2
           /\ (a \o b)[Len(a \o b)] = b[2] /\ (a \o b)[Len(a \o b) - 1] = b[1]
<1>1. PICK n \in Nat : n = Len(a)
  OBVIOUS
<1>2. /\ a \o b \in Seq(StepName) /\ Len(a \o b) = Len(a) + Len(b)
      /\ \A i \in 1..(Len(a) + Len(b)) : i > Len(a) => (a \o b)[i] = b[i - Len(a)]
  BY Joined
<1>3. PICK s : s = a \o b
  OBVIOUS
<1>4. Len(s) = n + 2 /\ \A i \in 1..(n + 2) : i > n => s[i] = b[i - n]
  BY <1>1, <1>2, <1>3
<1>5. s[n + 1] = b[1] /\ s[n + 2] = b[2]
  <2>1. /\ n + 1 \in 1..(n + 2) /\ n + 1 > n /\ n + 1 - n = 1
        /\ n + 2 \in 1..(n + 2) /\ n + 2 > n /\ n + 2 - n = 2
    BY ONLY n \in Nat
  <2> QED
    BY <1>4, <2>1
<1>6. n + 2 - 1 = n + 1 /\ n + 2 >= 2
  OBVIOUS
<1>7. Len(s) >= 2 /\ s[Len(s)] = b[2] /\ s[Len(s) - 1] = b[1]
  BY <1>4, <1>5, <1>6
<1> QED
  BY <1>3, <1>7

LEMMA KillShowPiece ==
    /\ Piece(KillShow, {"grab show", "kill"}, "grab show") /\ EndsInKill(KillShow)
    /\ \A a : a \in Seq(StepName) => EndsInKill(a \o KillShow)
<1>1. Piece(KillShow, {"grab show", "kill"}, "grab show")
  BY Pairs DEF KillShow, StepName
<1>2. "grab show" \in StepName /\ "kill" \in StepName
  BY DEF StepName
<1>3. ASSUME NEW a \in Seq(StepName) PROVE EndsInKill(a \o KillShow)
  <2>1. PICK x \in StepName, y \in StepName : x = "grab show" /\ y = "kill"
    BY <1>2
  <2>2. PICK b : b = <<x, y>>
    OBVIOUS
  <2>3. b \in Seq(StepName) /\ Len(b) = 2 /\ b[1] = x /\ b[2] = y
    BY <2>2, TwoLong
  <2>4. /\ Len(a \o b) >= 2
        /\ (a \o b)[Len(a \o b)] = y /\ (a \o b)[Len(a \o b) - 1] = x
    BY <2>3, KillLast
  <2>5. EndsInKill(a \o b)
    BY <2>1, <2>4 DEF EndsInKill
  <2>6. KillShow = b
    BY <2>1, <2>2 DEF KillShow
  <2> QED
    BY <2>5, <2>6
<1>4. EndsInKill(KillShow)
  <2>1. EndsInKill(<<>> \o KillShow)
    <3>1. <<>> \in Seq(StepName)
      OBVIOUS
    <3> QED
      BY <1>3, <3>1
  <2>2. <<>> \o KillShow = KillShow
    <3>1. KillShow \in Seq(StepName)
      BY <1>1 DEF Piece, Program
    <3> HIDE DEF KillShow
    <3> QED
      BY <3>1
  <2> QED
    BY <2>1, <2>2
<1> QED
  BY <1>1, <1>3, <1>4

LEMMA ThreeLong ==
    ASSUME NEW x \in StepName, NEW y \in StepName, NEW z \in StepName
    PROVE  /\ <<x, y, z>> \in Seq(StepName) /\ Len(<<x, y, z>>) = 3 /\ <<x, y, z>> # <<>>
           /\ <<x, y, z>>[1] = x /\ <<x, y, z>>[2] = y /\ <<x, y, z>>[3] = z
  OBVIOUS

LEMMA Triples ==
    ASSUME NEW x \in StepName, NEW y \in StepName, NEW z \in StepName,
           x = "grab manual", y = "kill", z = "drop manual"
    PROVE  Piece(<<x, y, z>>, {x, y, z}, x)
<1>1. PICK s : s = <<x, y, z>>
  OBVIOUS
<1>2. s \in Seq(StepName) /\ Len(s) = 3 /\ s[1] = x /\ s[2] = y /\ s[3] = z /\ s # <<>>
  BY <1>1, ThreeLong
<1>3. /\ \A i \in 1..3 : i = 1 \/ i = 2 \/ i = 3
      /\ \A i \in 1..2 : i = 1 \/ i = 2
      /\ \A i \in 1..1 : i = 1
      /\ 1 \in 1..3 /\ 2 \in 1..3 /\ 3 \in 1..3
      /\ 1 + 1 = 2 /\ 2 + 1 = 3 /\ 1 + 2 = 3 /\ 1 # 2
  BY ONLY TRUE
<1>4. Ahead(s) = {x, y, z}
  <2>1. Ahead(s) \subseteq {x, y, z}
    BY ONLY <1>2, <1>3 DEF Ahead
  <2>2. x \in Ahead(s) /\ y \in Ahead(s) /\ z \in Ahead(s)
    BY ONLY <1>2, <1>3 DEF Ahead
  <2> QED
    BY ONLY <2>1, <2>2
<1>5. /\ \A i \in 1..2 : s[i + 1] = (IF i = 1 THEN y ELSE z) /\ s[i] = (IF i = 1 THEN x ELSE y)
      /\ \A i \in 1..3 : s[i] \in {x, y, z}
      /\ \A i \in 1..1 : s[i + 2] = z /\ s[i] = x
      /\ Len(s) = 3
  BY ONLY <1>2, <1>3
<1>6. Len(s) - 1 = 2 /\ Len(s) - 2 = 1
  BY ONLY <1>5
<1>7. /\ \A u, v : (v = y => u = x) /\ (v = z => u = y) => Adjacent(s, u, v)
      /\ \A u, v : (v = z => u = x) => Spaced(s, u, v)
  BY ONLY <1>5, <1>6 DEF Adjacent, Spaced
<1>8. \A v : v \notin {x, y, z} => OnlyLast(s, v)
  BY <1>5 DEF OnlyLast
<1>9. \A u, v : u \notin {x, y, z} \/ v \notin {x, y, z} => Precedes(s, u, v)
  BY <1>5 DEF Precedes
<1>10. Orderly(s)
  BY <1>7 DEF Orderly
<1>11. OnlyLast(s, "start manual")
  <2>1. "start manual" \notin {x, y, z}
    OBVIOUS
  <2> QED
    BY ONLY <1>8, <2>1
<1>12. /\ Precedes(s, "forget show", "remember show") /\ Precedes(s, "darken", "light")
      /\ Precedes(s, "start mpv", "declare") /\ Precedes(s, "start mpv", "light")
      /\ Precedes(s, "drop manual", "start show") /\ Precedes(s, "check show", "start show")
  BY <1>9
<1> QED
  BY <1>1, <1>2, <1>4, <1>10, <1>11, <1>12 DEF Piece, Program

LEMMA StopManualPiece ==
    Piece(StopManual, {"grab manual", "kill", "drop manual"}, "grab manual")
<1>1. PICK x \in StepName, y \in StepName, z \in StepName :
         x = "grab manual" /\ y = "kill" /\ z = "drop manual"
  BY DEF StepName
<1>2. Piece(<<x, y, z>>, {x, y, z}, x)
  BY <1>1, Triples
<1> QED
  BY <1>1, <1>2 DEF StopManual

----------------------------------------------------------------------------
(* The programs                                                            *)

StopManualNames == {"grab manual", "kill", "drop manual"}
AdapterStopNames == {"grab show", "drop show", "forget show"} \cup StopManualNames
AdapterStartNames == {"remember show", "grab show", "start show"} \cup StopManualNames
AdapterManualNames == {"grab show", "drop show", "start manual"} \cup StopManualNames

LEMMA AdapterStopPiece == Piece(AdapterStop, AdapterStopNames, "grab show")
<1> DEFINE a == KillShow \o <<"drop show", "forget show">>
<1>1. Piece(KillShow, {"grab show", "kill"}, "grab show") /\ EndsInKill(KillShow)
  BY KillShowPiece
<1>2. Piece(<<"drop show", "forget show">>, {"drop show", "forget show"}, "drop show")
  BY Pairs DEF StepName
<1>3. Piece(a, {"grab show", "kill"} \cup {"drop show", "forget show"}, "grab show")
  <2> HIDE DEF a
  <2> USE DEF a
  <2> QED
    BY <1>1, <1>2, PiecesJoin
<1>4. Piece(StopManual, StopManualNames, "grab manual")
  BY StopManualPiece DEF StopManualNames
<1> HIDE DEF a
<1>5. Piece(a \o StopManual, ({"grab show", "kill"} \cup {"drop show", "forget show"}) \cup StopManualNames,
            "grab show")
  BY <1>3, <1>4, PiecesJoin DEF StopManualNames
<1>6. ({"grab show", "kill"} \cup {"drop show", "forget show"}) \cup StopManualNames = AdapterStopNames
  BY DEF StopManualNames, AdapterStopNames
<1> QED
  BY <1>5, <1>6 DEF AdapterStop, a

LEMMA AdapterStartPiece == Piece(AdapterStart, AdapterStartNames, "remember show")
<1> DEFINE a == <<"remember show">> \o StopManual
           b == a \o KillShow
<1>1. Piece(<<"remember show">>, {"remember show"}, "remember show")
  BY OneStep DEF StepName
<1>2. Piece(StopManual, StopManualNames, "grab manual")
  BY StopManualPiece DEF StopManualNames
<1>3. Piece(a, {"remember show"} \cup StopManualNames, "remember show")
  BY <1>1, <1>2, PiecesJoin DEF StopManualNames
<1>4. Piece(KillShow, {"grab show", "kill"}, "grab show")
  BY KillShowPiece
<1>5. Piece(<<"start show">>, {"start show"}, "start show")
  BY OneStep DEF StepName
<1> HIDE DEF a
<1>6. Piece(b, ({"remember show"} \cup StopManualNames) \cup {"grab show", "kill"}, "remember show")
  BY <1>3, <1>4, PiecesJoin DEF StopManualNames
<1>7. EndsInKill(b)
  <2>1. a \in Seq(StepName)
    BY <1>3 DEF Piece, Program
  <2> QED
    BY <2>1, KillShowPiece
<1> HIDE DEF b
<1>8. Piece(b \o <<"start show">>,
            (({"remember show"} \cup StopManualNames) \cup {"grab show", "kill"}) \cup {"start show"},
            "remember show")
  BY <1>5, <1>6, <1>7, PiecesJoin DEF StopManualNames
<1>9. (({"remember show"} \cup StopManualNames) \cup {"grab show", "kill"}) \cup {"start show"}
        = AdapterStartNames
  BY DEF StopManualNames, AdapterStartNames
<1> QED
  BY <1>8, <1>9 DEF AdapterStart, a, b

AdapterResumeNames == {"grab show", "start show"} \cup StopManualNames

LEMMA AdapterResumePiece == Piece(AdapterResume, AdapterResumeNames, "grab manual")
<1> DEFINE b == StopManual \o KillShow
<1>2. Piece(StopManual, StopManualNames, "grab manual")
  BY StopManualPiece DEF StopManualNames
<1>4. Piece(KillShow, {"grab show", "kill"}, "grab show")
  BY KillShowPiece
<1>5. Piece(<<"start show">>, {"start show"}, "start show")
  BY OneStep DEF StepName
<1>6. Piece(b, StopManualNames \cup {"grab show", "kill"}, "grab manual")
  BY <1>2, <1>4, PiecesJoin DEF StopManualNames
<1>7. EndsInKill(b)
  <2>1. StopManual \in Seq(StepName)
    BY <1>2 DEF Piece, Program
  <2> QED
    BY <2>1, KillShowPiece
<1> HIDE DEF b
<1>8. Piece(b \o <<"start show">>, (StopManualNames \cup {"grab show", "kill"}) \cup {"start show"},
            "grab manual")
  BY <1>5, <1>6, <1>7, PiecesJoin DEF StopManualNames
<1>9. (StopManualNames \cup {"grab show", "kill"}) \cup {"start show"} = AdapterResumeNames
  BY DEF StopManualNames, AdapterResumeNames
<1> QED
  BY <1>8, <1>9 DEF AdapterResume, b

LEMMA AdapterManualPiece == Piece(AdapterManual, AdapterManualNames, "grab manual")
<1> DEFINE b == StopManual \o KillShow
<1>2. Piece(StopManual, StopManualNames, "grab manual")
  BY StopManualPiece DEF StopManualNames
<1>4. Piece(KillShow, {"grab show", "kill"}, "grab show")
  BY KillShowPiece
<1>5. Piece(<<"drop show", "start manual">>, {"drop show", "start manual"}, "drop show")
  BY Pairs DEF StepName
<1>6. Piece(b, StopManualNames \cup {"grab show", "kill"}, "grab manual")
  BY <1>2, <1>4, PiecesJoin DEF StopManualNames
<1>7. EndsInKill(b)
  <2>1. StopManual \in Seq(StepName)
    BY <1>2 DEF Piece, Program
  <2> QED
    BY <2>1, KillShowPiece
<1> HIDE DEF b
<1>8. Piece(b \o <<"drop show", "start manual">>,
            (StopManualNames \cup {"grab show", "kill"}) \cup {"drop show", "start manual"},
            "grab manual")
  BY <1>5, <1>6, <1>7, PiecesJoin DEF StopManualNames
<1>9. (StopManualNames \cup {"grab show", "kill"}) \cup {"drop show", "start manual"} = AdapterManualNames
  BY DEF StopManualNames, AdapterManualNames
<1> QED
  BY <1>8, <1>9 DEF AdapterManual, b

StopNames == {"stop mpv", "halt", "darken"} \cup AdapterStopNames
ResetNames == {"check show", "unpause", "light"} \cup AdapterResumeNames
ManualNames == {"light"} \cup AdapterManualNames
EnsureNames == {"probe mpv", "start mpv", "await mpv"}
ForgetNames == {"poll mpv", "unlink mpv", "drop client", "drop proc"}
FinalizeNames == ({"halt"} \cup ForgetNames) \cup AdapterStopNames \cup {"darken"}
MediaNames ==
    EnsureNames \cup {"load", "declare", "light"} \cup AdapterStopNames \cup AdapterStartNames
PlainNames == {"stop mpv", "declare", "light"} \cup AdapterStopNames \cup AdapterStartNames

LEMMA StopPiece == Piece(StopSteps, StopNames, "stop mpv")
<1> DEFINE a == <<"stop mpv", "halt">> \o AdapterStop
<1>1. Piece(<<"stop mpv", "halt">>, {"stop mpv", "halt"}, "stop mpv")
  BY Pairs DEF StepName
<1>2. Piece(AdapterStop, AdapterStopNames, "grab show")
  BY AdapterStopPiece
<1>3. Piece(a, {"stop mpv", "halt"} \cup AdapterStopNames, "stop mpv")
  BY <1>1, <1>2, PiecesJoin DEF StopManualNames, AdapterStopNames
<1>4. Piece(<<"darken">>, {"darken"}, "darken")
  BY OneStep DEF StepName
<1> HIDE DEF a
<1>5. Piece(a \o <<"darken">>, ({"stop mpv", "halt"} \cup AdapterStopNames) \cup {"darken"}, "stop mpv")
  BY <1>3, <1>4, PiecesJoin DEF StopManualNames, AdapterStopNames
<1>6. ({"stop mpv", "halt"} \cup AdapterStopNames) \cup {"darken"} = StopNames
  BY DEF StopNames
<1> QED
  BY <1>5, <1>6 DEF StopSteps, a

(* Sequences written out, put together.                                    *)
LEMMA Same ==
    ASSUME NEW s \in Seq(StepName), NEW t \in Seq(StepName), Len(s) = Len(t),
           \A i \in 1..Len(s) : s[i] = t[i]
    PROVE  s = t
  OBVIOUS

LEMMA TwoAndTwo ==
    ASSUME NEW a \in StepName, NEW b \in StepName, NEW c \in StepName, NEW d \in StepName
    PROVE  <<a, b>> \o <<c, d>> = <<a, b, c, d>>
<1>1. PICK x, y, z : x = <<a, b>> /\ y = <<c, d>> /\ z = <<a, b, c, d>>
  OBVIOUS
<1>2. /\ x \in Seq(StepName) /\ Len(x) = 2 /\ x[1] = a /\ x[2] = b
      /\ y \in Seq(StepName) /\ Len(y) = 2 /\ y[1] = c /\ y[2] = d
      /\ z \in Seq(StepName) /\ Len(z) = 4 /\ z[1] = a /\ z[2] = b /\ z[3] = c /\ z[4] = d
  BY <1>1
<1>3. PICK s : s = x \o y
  OBVIOUS
<1>4. /\ s \in Seq(StepName) /\ Len(s) = 2 + 2 /\ \A i \in 1..2 : s[i] = x[i]
      /\ \A i \in 1..(2 + 2) : i > 2 => s[i] = y[i - 2]
  <2>1. x \in Seq(StepName) /\ y \in Seq(StepName)
    BY <1>2
  <2>2. /\ s \in Seq(StepName) /\ Len(s) = Len(x) + Len(y)
        /\ \A i \in 1..Len(x) : s[i] = x[i]
        /\ \A i \in 1..(Len(x) + Len(y)) : i > Len(x) => s[i] = y[i - Len(x)]
    BY <1>3, <2>1, Joined
  <2> QED
    BY <1>2, <2>2
<1>5. \A i \in 1..Len(s) : s[i] = z[i]
  <2>1. s[1] = a /\ s[2] = b /\ s[3] = c /\ s[4] = d
    BY <1>2, <1>4
  <2>2. \A i \in 1..Len(s) : i = 1 \/ i = 2 \/ i = 3 \/ i = 4
    BY <1>4
  <2> QED
    BY <1>2, <2>1, <2>2
<1>6. s = z
  BY <1>2, <1>4, <1>5, Same
<1> QED
  BY <1>1, <1>3, <1>6

LEMMA TwoAndOne ==
    ASSUME NEW a \in StepName, NEW b \in StepName, NEW c \in StepName
    PROVE  <<a, b>> \o <<c>> = <<a, b, c>>
<1>1. PICK x, y, z : x = <<a, b>> /\ y = <<c>> /\ z = <<a, b, c>>
  OBVIOUS
<1>2. /\ x \in Seq(StepName) /\ Len(x) = 2 /\ x[1] = a /\ x[2] = b
      /\ y \in Seq(StepName) /\ Len(y) = 1 /\ y[1] = c
      /\ z \in Seq(StepName) /\ Len(z) = 3 /\ z[1] = a /\ z[2] = b /\ z[3] = c
  BY <1>1
<1>3. PICK s : s = x \o y
  OBVIOUS
<1>4. /\ s \in Seq(StepName) /\ Len(s) = 2 + 1 /\ \A i \in 1..2 : s[i] = x[i]
      /\ \A i \in 1..(2 + 1) : i > 2 => s[i] = y[i - 2]
  <2>1. x \in Seq(StepName) /\ y \in Seq(StepName)
    BY <1>2
  <2>2. /\ s \in Seq(StepName) /\ Len(s) = Len(x) + Len(y)
        /\ \A i \in 1..Len(x) : s[i] = x[i]
        /\ \A i \in 1..(Len(x) + Len(y)) : i > Len(x) => s[i] = y[i - Len(x)]
    BY <1>3, <2>1, Joined
  <2> QED
    BY <1>2, <2>2
<1>5. \A i \in 1..Len(s) : s[i] = z[i]
  <2>1. s[1] = a /\ s[2] = b /\ s[3] = c
    BY <1>2, <1>4
  <2>2. \A i \in 1..Len(s) : i = 1 \/ i = 2 \/ i = 3
    BY <1>4
  <2> QED
    BY <1>2, <2>1, <2>2
<1>6. s = z
  BY <1>2, <1>4, <1>5, Same
<1> QED
  BY <1>1, <1>3, <1>6

LEMMA ForgetPiece == Piece(<<"halt">> \o ForgetMpv, {"halt"} \cup ForgetNames, "halt")
<1>1. Piece(<<"poll mpv", "unlink mpv">>, {"poll mpv", "unlink mpv"}, "poll mpv")
  BY Pairs DEF StepName
<1>2. Piece(<<"drop client", "drop proc">>, {"drop client", "drop proc"}, "drop client")
  BY Pairs DEF StepName
<1>3. Piece(<<"poll mpv", "unlink mpv">> \o <<"drop client", "drop proc">>,
            {"poll mpv", "unlink mpv"} \cup {"drop client", "drop proc"}, "poll mpv")
  BY <1>1, <1>2, PiecesJoin
<1>4. /\ <<"poll mpv", "unlink mpv">> \o <<"drop client", "drop proc">> = ForgetMpv
      /\ {"poll mpv", "unlink mpv"} \cup {"drop client", "drop proc"} = ForgetNames
  <2>1. {"poll mpv", "unlink mpv", "drop client", "drop proc"} \subseteq StepName
    BY DEF StepName
  <2>2. <<"poll mpv", "unlink mpv">> \o <<"drop client", "drop proc">>
          = <<"poll mpv", "unlink mpv", "drop client", "drop proc">>
    BY <2>1, TwoAndTwo, Zenon
  <2> QED
    BY <2>2 DEF ForgetMpv, ForgetNames
<1>5. Piece(<<"halt">>, {"halt"}, "halt")
  BY OneStep DEF StepName
<1>6. Piece(ForgetMpv, ForgetNames, "poll mpv")
  BY <1>3, <1>4
<1> QED
  BY <1>5, <1>6, PiecesJoin DEF ForgetNames

LEMMA FinalizePiece == Piece(FinalizeSteps, FinalizeNames, "halt")
<1> DEFINE a == <<"halt">> \o ForgetMpv
           b == a \o AdapterStop
<1>1. Piece(a, {"halt"} \cup ForgetNames, "halt")
  BY ForgetPiece
<1>2. Piece(AdapterStop, AdapterStopNames, "grab show")
  BY AdapterStopPiece
<1> HIDE DEF a
<1>3. Piece(b, ({"halt"} \cup ForgetNames) \cup AdapterStopNames, "halt")
  BY <1>1, <1>2, PiecesJoin DEF StopManualNames, AdapterStopNames, ForgetNames
<1>4. Piece(<<"darken">>, {"darken"}, "darken")
  BY OneStep DEF StepName
<1> HIDE DEF b
<1>5. Piece(b \o <<"darken">>, FinalizeNames, "halt")
  BY <1>3, <1>4, PiecesJoin DEF StopManualNames, AdapterStopNames, ForgetNames, FinalizeNames
<1>6. b \o <<"darken">> = FinalizeSteps
  BY DEF FinalizeSteps, a, b
<1> QED
  BY <1>5, <1>6

LEMMA ResetPiece == Piece(<<"check show">> \o ResetSteps, ResetNames, "check show")
<1>1. Piece(AdapterResume, AdapterResumeNames, "grab manual")
  BY AdapterResumePiece
<1>2. Piece(<<"unpause", "light">>, {"unpause", "light"}, "unpause")
  BY Pairs DEF StepName
<1>3. Piece(ResetSteps, AdapterResumeNames \cup {"unpause", "light"}, "grab manual")
  BY <1>1, <1>2, PiecesJoin DEF StopManualNames, AdapterResumeNames, ResetSteps
<1>4. Piece(<<"check show">>, {"check show"}, "check show")
  BY OneStep DEF StepName
<1>5. Piece(<<"check show">> \o ResetSteps,
            {"check show"} \cup (AdapterResumeNames \cup {"unpause", "light"}), "check show")
  BY <1>3, <1>4, PiecesJoin DEF StopManualNames, AdapterResumeNames
<1>6. {"check show"} \cup (AdapterResumeNames \cup {"unpause", "light"}) = ResetNames
  BY DEF ResetNames
<1> QED
  BY <1>5, <1>6

LEMMA ManualPiece == Piece(ManualSteps, ManualNames, "light")
<1>1. Piece(<<"light">>, {"light"}, "light")
  BY OneStep DEF StepName
<1>2. Piece(AdapterManual, AdapterManualNames, "grab manual")
  BY AdapterManualPiece
<1>3. Piece(<<"light">> \o AdapterManual, {"light"} \cup AdapterManualNames, "light")
  BY <1>1, <1>2, PiecesJoin DEF StopManualNames, AdapterManualNames
<1> QED
  BY <1>3 DEF ManualSteps, ManualNames

LEMMA ScenePiece == Piece(StopSteps \o ManualSteps, StopNames \cup ManualNames, "stop mpv")
<1>1. Piece(StopSteps, StopNames, "stop mpv") /\ Piece(ManualSteps, ManualNames, "light")
  BY StopPiece, ManualPiece
<1>2. /\ "start manual" \notin StopNames /\ "start show" \notin StopNames
      /\ "remember show" \notin StopNames /\ "light" \notin StopNames /\ "declare" \notin StopNames
      /\ "start mpv" \notin ManualNames /\ "check show" \notin ManualNames
  BY DEF StopNames, ManualNames, AdapterStopNames, AdapterManualNames, StopManualNames
<1> QED
  BY <1>1, <1>2, PiecesJoin

(* Both halves of a play, whatever comes before the second one.            *)
LEMMA PlayPiece ==
    ASSUME NEW a, NEW A, NEW h, Piece(a, A, h),
           A \cap {"start manual", "start show", "remember show", "light", "declare"} = {}
    PROVE  Piece(a \o <<"declare">> \o AdapterStart \o <<"light">>,
                 A \cup {"declare", "light"} \cup AdapterStartNames, h)
<1> DEFINE b == a \o <<"declare">>
           c == b \o AdapterStart
<1>1. Piece(<<"declare">>, {"declare"}, "declare") /\ Piece(<<"light">>, {"light"}, "light")
  BY OneStep DEF StepName
<1>2. Piece(AdapterStart, AdapterStartNames, "remember show")
  BY AdapterStartPiece
<1>3. Piece(b, A \cup {"declare"}, h)
  BY <1>1, PiecesJoin
<1>4. "forget show" \notin AdapterStartNames /\ "darken" \notin AdapterStartNames
      /\ "start mpv" \notin AdapterStartNames /\ "start manual" \notin AdapterStartNames
      /\ "check show" \notin AdapterStartNames
  BY DEF AdapterStartNames, StopManualNames
<1> HIDE DEF b
<1>5. Piece(c, (A \cup {"declare"}) \cup AdapterStartNames, h)
  BY <1>2, <1>3, <1>4, PiecesJoin
<1> HIDE DEF c
<1>6. Piece(c \o <<"light">>, ((A \cup {"declare"}) \cup AdapterStartNames) \cup {"light"}, h)
  BY <1>1, <1>4, <1>5, PiecesJoin
<1>7. ((A \cup {"declare"}) \cup AdapterStartNames) \cup {"light"}
        = A \cup {"declare", "light"} \cup AdapterStartNames
  OBVIOUS
<1> QED
  BY <1>6, <1>7 DEF b, c

LEMMA EnsurePiece == Piece(EnsureMpv, EnsureNames, "probe mpv")
<1>1. Piece(<<"probe mpv", "start mpv">>, {"probe mpv", "start mpv"}, "probe mpv")
  BY Pairs DEF StepName
<1>2. Piece(<<"await mpv">>, {"await mpv"}, "await mpv")
  BY OneStep DEF StepName
<1>3. Piece(<<"probe mpv", "start mpv">> \o <<"await mpv">>,
            {"probe mpv", "start mpv"} \cup {"await mpv"}, "probe mpv")
  BY <1>1, <1>2, PiecesJoin
<1>4. /\ <<"probe mpv", "start mpv">> \o <<"await mpv">> = EnsureMpv
      /\ {"probe mpv", "start mpv"} \cup {"await mpv"} = EnsureNames
  <2>1. {"probe mpv", "start mpv", "await mpv"} \subseteq StepName
    BY DEF StepName
  <2>2. <<"probe mpv", "start mpv">> \o <<"await mpv">> = <<"probe mpv", "start mpv", "await mpv">>
    BY <2>1, TwoAndOne, Zenon
  <2> QED
    BY <2>2 DEF EnsureMpv, EnsureNames
<1> QED
  BY <1>3, <1>4

(* One step more after the player is there.                                *)
LEMMA EnsureThen ==
    ASSUME NEW x \in {"load", "pause", "resume"}
    PROVE  Piece(EnsureMpv \o <<x>>, EnsureNames \cup {x}, "probe mpv")
<1>1. Piece(<<x>>, {x}, x)
  BY OneStep DEF StepName
<1> QED
  BY <1>1, EnsurePiece, PiecesJoin DEF EnsureNames

LEMMA MediaPlay ==
    ASSUME NEW s \in Shows, s \in MediaShows
    PROVE  Piece(PlaySteps(s), MediaNames, "grab show")
<1> DEFINE e == EnsureMpv \o <<"load">>
           a == AdapterStop \o e
<1>1. Piece(AdapterStop, AdapterStopNames, "grab show")
  BY AdapterStopPiece
<1>2. Piece(e, EnsureNames \cup {"load"}, "probe mpv")
  BY EnsureThen
<1> HIDE DEF e
<1>3. Piece(a, AdapterStopNames \cup (EnsureNames \cup {"load"}), "grab show")
  BY <1>1, <1>2, PiecesJoin DEF AdapterStopNames, StopManualNames, EnsureNames
<1>4. (AdapterStopNames \cup (EnsureNames \cup {"load"}))
        \cap {"start manual", "start show", "remember show", "light", "declare"} = {}
  BY DEF AdapterStopNames, StopManualNames, EnsureNames
<1> HIDE DEF a
<1>5. Piece(a \o <<"declare">> \o AdapterStart \o <<"light">>,
            (AdapterStopNames \cup (EnsureNames \cup {"load"}))
              \cup {"declare", "light"} \cup AdapterStartNames,
            "grab show")
  BY <1>3, <1>4, PlayPiece
<1>6. (AdapterStopNames \cup (EnsureNames \cup {"load"}))
        \cup {"declare", "light"} \cup AdapterStartNames = MediaNames
  BY DEF MediaNames
<1>7. PlaySteps(s) = a \o <<"declare">> \o AdapterStart \o <<"light">>
  <2>1. AdapterStop \in Seq(StepName)
    BY <1>1 DEF Piece, Program
  <2>2. <<>> \o AdapterStop = AdapterStop
    BY <2>1
  <2> QED
    BY <2>2 DEF PlaySteps, a, e
<1> QED
  BY <1>5, <1>6, <1>7

LEMMA PlainPlay ==
    ASSUME NEW s \in Shows, s \notin MediaShows
    PROVE  Piece(PlaySteps(s), PlainNames, "stop mpv")
<1> DEFINE a == <<"stop mpv">> \o AdapterStop
<1>1. Piece(AdapterStop, AdapterStopNames, "grab show")
  BY AdapterStopPiece
<1>2. Piece(<<"stop mpv">>, {"stop mpv"}, "stop mpv")
  BY OneStep DEF StepName
<1>3. Piece(a, {"stop mpv"} \cup AdapterStopNames, "stop mpv")
  BY <1>1, <1>2, PiecesJoin DEF AdapterStopNames, StopManualNames
<1>4. ({"stop mpv"} \cup AdapterStopNames)
        \cap {"start manual", "start show", "remember show", "light", "declare"} = {}
  BY DEF AdapterStopNames, StopManualNames
<1> HIDE DEF a
<1>5. Piece(a \o <<"declare">> \o AdapterStart \o <<"light">>,
            ({"stop mpv"} \cup AdapterStopNames) \cup {"declare", "light"} \cup AdapterStartNames,
            "stop mpv")
  BY <1>3, <1>4, PlayPiece
<1>6. ({"stop mpv"} \cup AdapterStopNames) \cup {"declare", "light"} \cup AdapterStartNames = PlainNames
  BY DEF PlainNames
<1>7. PlaySteps(s) = a \o <<"declare">> \o AdapterStart \o <<"light">>
  <2>1. a \in Seq(StepName)
    BY <1>3 DEF Piece, Program
  <2>2. a \o <<>> = a
    BY <2>1
  <2> QED
    BY <2>2 DEF PlaySteps, a
<1> QED
  BY <1>5, <1>6, <1>7

----------------------------------------------------------------------------
(* What the threads have to do is always the rest of a handler             *)

PlayerNames == EnsureNames \cup {"pause", "resume"}

(* No handler both declares a show and halts, or starts both engines; one  *)
(* that pauses does nothing to the engines.                                *)
NamesOk(names) ==
    /\ ~({"declare", "halt"} \subseteq names)
    /\ ~({"start show", "start manual"} \subseteq names)
    /\ names \cap {"pause", "resume"} # {} => names \subseteq PlayerNames
    /\ "start mpv" \in names => {"declare", "light"} \subseteq names \/ names \subseteq PlayerNames
    /\ "check show" \in names =>
         /\ "start show" \in names
         /\ names \cap {"declare", "halt", "remember show", "forget show"} = {}

Counters ==
    /\ requests \in 0..MaxRequests
    /\ showRef \in 0..MaxRequests /\ manualRef \in 0..MaxRequests
    /\ running \subseteq Engine
    /\ victim \in [Threads -> 0..MaxRequests]
    /\ Busy("api") => requests \in Engine

ShapeInv ==
    /\ todo \in [Threads -> Seq(StepName)]
    /\ overlapped \in BOOLEAN /\ failed \in BOOLEAN
    /\ \A t \in Threads : Program(todo[t]) /\ NamesOk(Ahead(todo[t]))
    /\ Counters

----------------------------------------------------------------------------
(* Engines                                                                 *)

Alone(t) == \A u \in Threads : u # t => todo[u] = <<>>

(* What a thread with s to do relies on, when nobody interferes.           *)
EngineFits(t, s) ==
    /\ "start show" \in Ahead(s) /\ "drop manual" \notin Ahead(s) => manualRef = NoEngine
    /\ "start manual" \in Ahead(s) =>
         /\ "drop manual" \in Ahead(s) \/ manualRef = NoEngine
         /\ "drop show" \in Ahead(s) \/ showRef = NoEngine
    /\ s # <<>> /\ s[1] \in {"drop show", "start show"} => showRef \notin running
    /\ s # <<>> /\ s[1] = "drop manual" => manualRef \notin running
    /\ Len(s) >= 2 /\ s[1] = "kill" =>
         /\ s[2] \in {"drop show", "start show"} => victim[t] = showRef
         /\ s[2] = "drop manual" => victim[t] = manualRef

Held == running \subseteq {showRef, manualRef} /\ \A d, e \in running : d = e

EngineInv ==
    ~overlapped => Held /\ \A t \in Threads : Alone(t) => EngineFits(t, todo[t])

----------------------------------------------------------------------------
(* The state and the adapter                                               *)

On == state \in {"playing", "paused"}

(* What the steps in s will make of the state, if nobody interferes.       *)
OnEnds(s) ==
    IF "declare" \in Ahead(s) THEN TRUE ELSE IF "halt" \in Ahead(s) THEN FALSE ELSE On
ShowEnds(s) ==
    IF "declare" \in Ahead(s) THEN wanted ELSE IF "halt" \in Ahead(s) THEN NoShow ELSE show
ActiveEnds(s) ==
    IF "remember show" \in Ahead(s) THEN wanted
    ELSE IF "forget show" \in Ahead(s) THEN NoShow ELSE active
LitEnds(s) ==
    IF "light" \in Ahead(s) THEN TRUE ELSE IF "darken" \in Ahead(s) THEN FALSE ELSE lit

Ends(s) ==
    IF OnEnds(s)
      THEN ShowEnds(s) \in Shows /\ ActiveEnds(s) = ShowEnds(s) /\ LitEnds(s)
      ELSE /\ ShowEnds(s) = NoShow /\ ActiveEnds(s) = NoShow
           /\ "start show" \notin Ahead(s)
           /\ "drop show" \in Ahead(s) \/ showRef = NoEngine

AgreeInv ==
    /\ lit \in BOOLEAN
    /\ ~overlapped /\ ~failed =>
         \A t \in Threads : Alone(t) =>
             /\ Ends(todo[t])
             /\ Ahead(todo[t]) \cap {"pause", "resume"} # {} => On

----------------------------------------------------------------------------
(* The kinds of steps                                                      *)

EngineEffect(t, h) ==
    /\ h \in {"start show", "start manual"} => t = "api"
    /\ h = "drop show" => showRef' = NoEngine /\ running' = running
    /\ h = "start show" => \/ showRef' = requests /\ running' = running \cup {requests}
                           \/ showRef' = showRef /\ running' = running
    /\ h \notin {"drop show", "start show"} => showRef' = showRef
    /\ h = "drop manual" => manualRef' = NoEngine /\ running' = running
    /\ h = "start manual" => \/ manualRef' = requests /\ running' = running \cup {requests}
                             \/ manualRef' = manualRef /\ running' = running
    /\ h \notin {"drop manual", "start manual"} => manualRef' = manualRef
    /\ h = "kill" => running' = running \ {victim[t]} /\ victim' = [victim EXCEPT ![t] = NoEngine]
    /\ h \notin {"kill", "start show", "start manual"} => running' = running
    /\ h = "grab show" => victim' = [victim EXCEPT ![t] = showRef]
    /\ h = "grab manual" => victim' = [victim EXCEPT ![t] = manualRef]
    /\ h \notin {"kill", "grab show", "grab manual"} => victim' = victim

StateEffect(h) ==
    /\ h = "declare" => state' = "playing" /\ show' = wanted
    /\ h = "halt" => state' = "stopped" /\ show' = NoShow
    /\ h = "pause" => state' = "paused"
    /\ h = "resume" => state' = "playing"
    /\ h = "unpause" => state' = (IF state = "paused" THEN "playing" ELSE state)
    /\ h \notin {"declare", "halt", "pause", "resume", "unpause"} => state' = state
    /\ h \notin {"declare", "halt"} => show' = show
    /\ h = "remember show" => active' = wanted
    /\ h = "forget show" => active' = NoShow
    /\ h \notin {"remember show", "forget show"} => active' = active
    /\ h = "light" => lit' = TRUE
    /\ h = "darken" => lit' = FALSE
    /\ h \notin {"light", "darken"} => lit' = lit

(* A thread does its next step.                                            *)
MovesOn(t) ==
    /\ todo[t] # <<>>
    /\ Goes(t, Tail(todo[t]))
    /\ EngineEffect(t, Head(todo[t]))
    /\ StateEffect(Head(todo[t]))
    /\ UNCHANGED <<wanted, requests, failed>>

(* A request ends before its time.                                         *)
CutsShort ==
    /\ todo["api"] # <<>>
    /\ Goes("api", <<>>)
    /\ \/ Head(todo["api"]) = "start mpv" /\ failed' = (failed \/ wanted # NoShow)
       \/ Head(todo["api"]) = "check show" /\ active = NoShow /\ failed' = failed
    /\ UNCHANGED <<stateVars, adapterVars, lit, victim, wanted, requests>>

Finalizes ==
    /\ Finalize
    /\ UNCHANGED <<stateVars, adapterVars, lit, victim, wanted, requests, overlapped, failed>>

Rests ==
    /\ running' \subseteq running
    /\ UNCHANGED <<stateVars, active, showRef, manualRef, lit, todo, victim, wanted, requests,
                   overlapped, failed>>

LEMMA ApiMoves == ASSUME Api PROVE MovesOn("api") \/ CutsShort
<1> USE DEF Step, Advance
<1>1. CASE StopMpv
  BY <1>1 DEF StopMpv, MovesOn, EngineEffect, StateEffect, stateVars, adapterVars
<1>2. CASE LoadFile
  BY <1>2 DEF LoadFile, MovesOn, EngineEffect, StateEffect, stateVars, adapterVars
<1>3. CASE ProbeMpv \/ StartMpv \/ AwaitMpv
  BY <1>3 DEF ProbeMpv, StartMpv, AwaitMpv, MovesOn, EngineEffect, StateEffect, stateVars,
              adapterVars
<1>4. CASE StartMpvFails
  BY <1>4 DEF StartMpvFails, CutsShort, stateVars, adapterVars
<1>5. CASE Declare
  BY <1>5 DEF Declare, MovesOn, EngineEffect, StateEffect, adapterVars
<1>6. CASE SetPaused
  BY <1>6 DEF SetPaused, MovesOn, EngineEffect, StateEffect, adapterVars
<1>7. CASE SetPlaying
  BY <1>7 DEF SetPlaying, MovesOn, EngineEffect, StateEffect, adapterVars
<1>8. CASE Unpause
  BY <1>8 DEF Unpause, MovesOn, EngineEffect, StateEffect, adapterVars
<1>9. CASE Light
  BY <1>9 DEF Light, MovesOn, EngineEffect, StateEffect, stateVars, adapterVars
<1>10. CASE RememberShow
  BY <1>10 DEF RememberShow, MovesOn, EngineEffect, StateEffect, stateVars, engineFrame
<1>11. CASE StartShow
  BY <1>11 DEF StartShow, MovesOn, EngineEffect, StateEffect, stateVars, engineFrame
<1>12. CASE StartNothing
  BY <1>12 DEF StartNothing, MovesOn, EngineEffect, StateEffect, stateVars, adapterVars, engineFrame
<1>13. CASE StartManual
  BY <1>13 DEF StartManual, MovesOn, EngineEffect, StateEffect, stateVars, engineFrame
<1>14. CASE CheckShow
  BY <1>14 DEF CheckShow, CutsShort, MovesOn, EngineEffect, StateEffect, stateVars, adapterVars,
               engineFrame
<1> QED
  BY <1>1, <1>2, <1>3, <1>4, <1>5, <1>6, <1>7, <1>8, <1>9, <1>10, <1>11, <1>12, <1>13, <1>14
     DEF Api

LEMMA CommonMoves == ASSUME NEW t \in Threads, Common(t) PROVE MovesOn(t)
<1> USE DEF Step, Advance
<1>1. CASE Halt(t)
  BY <1>1 DEF Halt, MovesOn, EngineEffect, StateEffect, adapterVars
<1>2. CASE Darken(t)
  BY <1>2 DEF Darken, MovesOn, EngineEffect, StateEffect, stateVars, adapterVars
<1>3. CASE Grab(t)
  BY <1>3 DEF Grab, MovesOn, EngineEffect, StateEffect, stateVars, adapterVars, engineFrame
<1>4. CASE Kill(t)
  BY <1>4 DEF Kill, MovesOn, EngineEffect, StateEffect, stateVars, engineFrame
<1>5. CASE DropShow(t)
  BY <1>5 DEF DropShow, MovesOn, EngineEffect, StateEffect, stateVars, engineFrame
<1>6. CASE ForgetShow(t)
  BY <1>6 DEF ForgetShow, MovesOn, EngineEffect, StateEffect, stateVars, engineFrame
<1>7. CASE DropManual(t)
  BY <1>7 DEF DropManual, MovesOn, EngineEffect, StateEffect, stateVars, engineFrame
<1> QED
  BY <1>1, <1>2, <1>3, <1>4, <1>5, <1>6, <1>7 DEF Common

LEMMA WatchMoves == ASSUME Watch PROVE MovesOn("watchdog") \/ Finalizes \/ Rests
<1> USE DEF watchFrame, stateVars, adapterVars
<1>1. CASE WatchNothing \/ WatchNoClient \/ WatchAsk \/ WatchBusy
  BY <1>1 DEF WatchNothing, WatchNoClient, WatchAsk, WatchBusy, Rests
<1>2. CASE WatchDead
  BY <1>2 DEF WatchDead, Rests, Finalizes
<1>3. CASE WatchError
  BY <1>3 DEF WatchError, Rests, Finalizes
<1>4. CASE WatchIdle
  BY <1>4 DEF WatchIdle, Rests, Finalizes
<1>5. CASE PollMpv \/ UnlinkMpv \/ DropClient \/ DropProc
  BY <1>5 DEF PollMpv, UnlinkMpv, DropClient, DropProc, forgetFrame, MovesOn, EngineEffect,
              StateEffect, Step, Advance
<1> QED
  BY <1>1, <1>2, <1>3, <1>4, <1>5 DEF Watch

LEMMA WorldRests == ASSUME World PROVE Rests
<1> USE DEF worldFrame, stateVars, Rests
<1>1. CASE MpvReady \/ MpvLoaded
  BY <1>1 DEF MpvReady, MpvLoaded
<1>2. CASE MediaEnds
  BY <1>2 DEF MediaEnds
<1>3. CASE MpvCrashes
  BY <1>3 DEF MpvCrashes
<1>4. CASE EngineExits
  BY <1>4 DEF EngineExits
<1> QED
  BY <1>1, <1>2, <1>3, <1>4 DEF World

LEMMA EveryStep ==
    ASSUME [Next]_vars
    PROVE  Request \/ (\E t \in Threads : MovesOn(t)) \/ CutsShort \/ Finalizes \/ Rests
<1>1. CASE Request
  BY <1>1
<1>2. CASE Api
  BY <1>2, ApiMoves DEF Threads
<1>3. CASE Watch
  BY <1>3, WatchMoves DEF Threads
<1>4. CASE \E t \in Threads : Common(t)
  BY <1>4, CommonMoves
<1>5. CASE World
  BY <1>5, WorldRests
<1>6. CASE UNCHANGED vars
  BY <1>6 DEF vars, stateVars, adapterVars, Rests
<1> QED
  BY <1>1, <1>2, <1>3, <1>4, <1>5, <1>6 DEF Next

----------------------------------------------------------------------------
(* What a request begins with                                              *)

Opens(s) ==
    /\ Program(s) /\ NamesOk(Ahead(s)) /\ s # <<>>
    /\ s[1] \notin {"kill", "drop show", "drop manual", "start show"}
    /\ "start show" \in Ahead(s) => "drop manual" \in Ahead(s)
    /\ "start manual" \in Ahead(s) => {"drop manual", "drop show"} \subseteq Ahead(s)

(* Why the state will agree with the adapter in the end.                   *)
Suits(s, newShow) ==
    /\ "declare" \in Ahead(s) => newShow \in Shows /\ {"remember show", "light"} \subseteq Ahead(s)
    /\ "halt" \in Ahead(s) => /\ {"forget show", "drop show"} \subseteq Ahead(s)
                              /\ Ahead(s) \cap {"remember show", "start show"} = {}
    /\ Ahead(s) \cap {"declare", "halt"} = {} =>
         /\ Ahead(s) \cap {"remember show", "forget show", "darken"} = {}
         /\ Ahead(s) \cap {"start show", "pause", "resume"} # {} => On

LEMMA AllNames ==
    ASSUME NEW names
    PROVE  /\ names = StopNames => NamesOk(names) /\ "halt" \in names
           /\ names = ResetNames => NamesOk(names)
           /\ names = ManualNames => NamesOk(names)
           /\ names = StopNames \cup ManualNames => NamesOk(names)
           /\ names = FinalizeNames => NamesOk(names)
           /\ names = MediaNames => NamesOk(names)
           /\ names = PlainNames => NamesOk(names)
<1> USE DEF NamesOk, PlayerNames, AdapterStopNames, AdapterStartNames, AdapterResumeNames,
            AdapterManualNames, StopManualNames
<1>1. names = StopNames => NamesOk(names) /\ "halt" \in names
  BY DEF StopNames
<1>2. names = ResetNames => NamesOk(names)
  BY DEF ResetNames
<1>3. names = ManualNames => NamesOk(names)
  BY DEF ManualNames
<1>4. names = StopNames \cup ManualNames => NamesOk(names)
  BY DEF StopNames, ManualNames
<1>5. names = FinalizeNames => NamesOk(names)
  BY DEF FinalizeNames, ForgetNames
<1>6. names = MediaNames => NamesOk(names)
  BY DEF MediaNames, EnsureNames
<1>7. names = PlainNames => NamesOk(names)
  BY DEF PlainNames
<1> QED
  BY <1>1, <1>2, <1>3, <1>4, <1>5, <1>6, <1>7

LEMMA RequestBegins ==
    ASSUME Request
    PROVE  \E s : Begin(s) /\ Opens(s) /\ Suits(s, wanted')
<1> USE DEF AdapterStopNames, AdapterStartNames, AdapterResumeNames, AdapterManualNames,
            StopManualNames, PlayerNames
<1>1. ASSUME NEW w \in Shows, Play(w)
      PROVE  Begin(PlaySteps(w)) /\ Opens(PlaySteps(w)) /\ Suits(PlaySteps(w), wanted')
  <2>1. Begin(PlaySteps(w)) /\ wanted' = w
    BY <1>1 DEF Play
  <2>2. CASE w \in MediaShows
    <3>1. Piece(PlaySteps(w), MediaNames, "grab show")
      BY <2>2, MediaPlay
    <3>2. NamesOk(MediaNames)
      BY AllNames
    <3> QED
      BY <2>1, <3>1, <3>2 DEF Piece, Opens, Suits, MediaNames, EnsureNames
  <2>3. CASE w \notin MediaShows
    <3>1. Piece(PlaySteps(w), PlainNames, "stop mpv")
      BY <2>3, PlainPlay
    <3>2. NamesOk(PlainNames)
      BY AllNames
    <3> QED
      BY <2>1, <3>1, <3>2 DEF Piece, Opens, Suits, PlainNames
  <2> QED
    BY <2>2, <2>3
<1>2. ASSUME Pause
      PROVE  LET s == EnsureMpv \o <<"pause">> IN Begin(s) /\ Opens(s) /\ Suits(s, wanted')
  <2>1. Piece(EnsureMpv \o <<"pause">>, EnsureNames \cup {"pause"}, "probe mpv")
    BY EnsureThen
  <2> QED
    BY <1>2, <2>1 DEF Pause, Piece, Opens, Suits, NamesOk, On, EnsureNames
<1>3. ASSUME Resume
      PROVE  LET s == EnsureMpv \o <<"resume">> IN Begin(s) /\ Opens(s) /\ Suits(s, wanted')
  <2>1. Piece(EnsureMpv \o <<"resume">>, EnsureNames \cup {"resume"}, "probe mpv")
    BY EnsureThen
  <2> QED
    BY <1>3, <2>1 DEF Resume, Piece, Opens, Suits, NamesOk, On, EnsureNames
<1>4. ASSUME Seek
      PROVE  Begin(EnsureMpv) /\ Opens(EnsureMpv) /\ Suits(EnsureMpv, wanted')
  BY <1>4, EnsurePiece DEF Seek, Piece, Opens, Suits, NamesOk, On, EnsureNames
<1>5. ASSUME Stop PROVE Begin(StopSteps) /\ Opens(StopSteps) /\ Suits(StopSteps, wanted')
  <2>1. Piece(StopSteps, StopNames, "stop mpv") /\ NamesOk(StopNames)
    BY StopPiece, AllNames
  <2> QED
    BY <1>5, <2>1 DEF Stop, Piece, Opens, Suits, StopNames
<1>6. ASSUME Reset
      PROVE  LET s == <<"check show">> \o ResetSteps IN Begin(s) /\ Opens(s) /\ Suits(s, wanted')
  <2>1. PICK s : s = <<"check show">> \o ResetSteps
    OBVIOUS
  <2>2. Piece(s, ResetNames, "check show") /\ NamesOk(ResetNames) /\ Begin(s) /\ On
    BY <1>6, <2>1, ResetPiece, AllNames DEF Reset, On
  <2>3. Opens(s) /\ Suits(s, wanted')
    BY <2>2 DEF Piece, Opens, Suits, ResetNames
  <2> QED
    BY <2>1, <2>2, <2>3
<1>7. ASSUME Begin(ManualSteps) PROVE Opens(ManualSteps) /\ Suits(ManualSteps, wanted')
  <2>1. Piece(ManualSteps, ManualNames, "light") /\ NamesOk(ManualNames)
    BY ManualPiece, AllNames
  <2> QED
    BY <1>7, <2>1 DEF Piece, Opens, Suits, ManualNames
<1>8. ASSUME Begin(StopSteps \o ManualSteps)
      PROVE  LET s == StopSteps \o ManualSteps IN Opens(s) /\ Suits(s, wanted')
  <2>1. PICK s : s = StopSteps \o ManualSteps
    OBVIOUS
  <2>2. Piece(s, StopNames \cup ManualNames, "stop mpv") /\ NamesOk(StopNames \cup ManualNames)
    BY <2>1, ScenePiece, AllNames
  <2>3. Opens(s) /\ Suits(s, wanted')
    BY <2>2 DEF Piece, Opens, Suits, StopNames, ManualNames
  <2> QED
    BY <2>1, <2>3
<1>9. ASSUME ApplyScene PROVE Begin(StopSteps \o ManualSteps) \/ Begin(ManualSteps)
  <2>1. ManualSteps \in Seq(StepName)
    BY ManualPiece DEF Piece, Program
  <2>2. <<>> \o ManualSteps = ManualSteps
    BY <2>1
  <2> QED
    BY <1>9, <2>2 DEF ApplyScene
<1> HIDE DEF AdapterStopNames, AdapterStartNames, AdapterResumeNames, AdapterManualNames,
             StopManualNames, PlayerNames
<1> QED
  BY <1>1, <1>2, <1>3, <1>4, <1>5, <1>6, <1>7, <1>8, <1>9 DEF Request, Lights

----------------------------------------------------------------------------
(* Shape                                                                   *)

LEMMA NamesTail ==
    ASSUME NEW s, Program(s), s # <<>>, NamesOk(Ahead(s))
    PROVE  NamesOk(Ahead(Tail(s)))
<1>0. s \in Seq(StepName)
  BY DEF Program
<1>1. /\ Ahead(s) = {Head(s)} \cup Ahead(Tail(s)) /\ Head(s) = s[1] /\ 1 \in 1..Len(s)
      /\ \A j \in 1..Len(s) : ~(j < 1)
  BY <1>0, TailOf
<1>2. /\ Head(s) = "start show" => "check show" \notin Ahead(s)
      /\ Head(s) \in {"declare", "light"} => "start mpv" \notin Ahead(s)
  BY <1>1 DEF Program, Precedes, Ahead
<1> QED
  BY <1>1, <1>2 DEF NamesOk

LEMMA EmptyProgram == Program(<<>>) /\ NamesOk(Ahead(<<>>)) /\ Ahead(<<>>) = {}
<1>1. PICK s : s = <<>>
  OBVIOUS
<1>2. s \in Seq(StepName) /\ Len(s) = 0 /\ \A n : n \in 1..0 => FALSE
  BY <1>1
<1>3. Ahead(s) = {}
  BY <1>2 DEF Ahead
<1>4. /\ \A x, y : Precedes(s, x, y) /\ Adjacent(s, x, y) /\ Spaced(s, x, y)
      /\ \A x : OnlyLast(s, x)
  BY <1>2 DEF Precedes, Adjacent, Spaced, OnlyLast
<1>5. Program(s)
  BY <1>2, <1>4 DEF Program, Orderly
<1> QED
  BY <1>1, <1>3, <1>5 DEF NamesOk

LEMMA ShapeInit == Init => ShapeInv
<1> SUFFICES ASSUME Init PROVE ShapeInv
  OBVIOUS
<1>1. \A t \in Threads : todo[t] = <<>>
  BY DEF Init
<1>2. todo \in [Threads -> Seq(StepName)]
  BY DEF Init
<1>3. \A t \in Threads : Program(todo[t]) /\ NamesOk(Ahead(todo[t]))
  BY <1>1, EmptyProgram
<1>4. Counters
  BY <1>1, PlaybackAssumption DEF Init, Counters, NoEngine, Engine, Threads, Busy
<1> QED
  BY <1>2, <1>3, <1>4 DEF Init, ShapeInv

(* A thread is given a program, the other one keeps its own.               *)
LEMMA NewProgram ==
    ASSUME NEW t \in Threads, NEW s, ShapeInv, Program(s), NamesOk(Ahead(s)),
           todo' = [todo EXCEPT ![t] = s]
    PROVE  /\ todo' \in [Threads -> Seq(StepName)]
           /\ \A u \in Threads : Program(todo'[u]) /\ NamesOk(Ahead(todo'[u]))
           /\ todo'[t] = s /\ \A u \in Threads : u # t => todo'[u] = todo[u]
<1>1. s \in Seq(StepName)
  BY DEF Program
<1> QED
  BY <1>1 DEF ShapeInv

LEMMA FinalizeBegins ==
    /\ Program(FinalizeSteps) /\ NamesOk(Ahead(FinalizeSteps))
    /\ Ahead(FinalizeSteps) = FinalizeNames /\ FinalizeSteps # <<>> /\ FinalizeSteps[1] = "halt"
  BY FinalizePiece, AllNames DEF Piece

LEMMA ShapeNext == ASSUME ShapeInv, [Next]_vars PROVE ShapeInv'
<1> USE DEF Engine
<1>1. CASE Request
  <2>1. PICK s : Begin(s) /\ Opens(s)
    BY <1>1, RequestBegins
  <2>2. todo' = [todo EXCEPT !["api"] = s] /\ Program(s) /\ NamesOk(Ahead(s)) /\ "api" \in Threads
    BY <2>1 DEF Begin, Opens, Threads
  <2>3. /\ todo' \in [Threads -> Seq(StepName)]
        /\ \A u \in Threads : Program(todo'[u]) /\ NamesOk(Ahead(todo'[u]))
    BY <2>2, NewProgram
  <2>4. Counters'
    BY <2>1, PlaybackAssumption DEF Begin, adapterVars, Counters, ShapeInv
  <2> QED
    BY <2>1, <2>3, <2>4 DEF ShapeInv, Begin
<1>2. ASSUME NEW t \in Threads, MovesOn(t) PROVE ShapeInv'
  <2>1. todo[t] # <<>> /\ todo' = [todo EXCEPT ![t] = Tail(todo[t])] /\ overlapped' \in BOOLEAN
    BY <1>2 DEF MovesOn, Goes
  <2>2. Program(Tail(todo[t])) /\ NamesOk(Ahead(Tail(todo[t])))
    BY <2>1, ProgramTail, NamesTail DEF ShapeInv
  <2>3. /\ todo' \in [Threads -> Seq(StepName)]
        /\ \A u \in Threads : Program(todo'[u]) /\ NamesOk(Ahead(todo'[u]))
        /\ \A u \in Threads : u # t => todo'[u] = todo[u]
    BY <2>1, <2>2, NewProgram
  <2>4. requests' = requests /\ (Busy("api")' => Busy("api"))
    BY <1>2, <2>1, <2>3 DEF MovesOn, Busy, Threads
  <2>5. Counters'
    <3> DEFINE h == Head(todo[t])
    <3>1. EngineEffect(t, h) /\ UNCHANGED requests
      BY <1>2 DEF MovesOn
    <3>2. h \in {"start show", "start manual"} => requests \in Engine
      BY <2>1, <3>1 DEF EngineEffect, ShapeInv, Counters, Busy
    <3> HIDE DEF h
    <3>3. Counters
      BY DEF ShapeInv
    <3>4. showRef' \in 0..MaxRequests /\ manualRef' \in 0..MaxRequests
      <4>1. \/ showRef' = NoEngine \/ showRef' = showRef
            \/ showRef' = requests /\ requests \in Engine
        BY ONLY <3>1, <3>2 DEF EngineEffect
      <4>2. \/ manualRef' = NoEngine \/ manualRef' = manualRef
            \/ manualRef' = requests /\ requests \in Engine
        BY ONLY <3>1, <3>2 DEF EngineEffect
      <4>3. NoEngine \in 0..MaxRequests /\ Engine \subseteq 0..MaxRequests
        BY PlaybackAssumption DEF NoEngine
      <4> QED
        BY ONLY <3>3, <4>1, <4>2, <4>3 DEF Counters
    <3>5. running' \subseteq Engine
      <4>1. \/ running' = running \/ running' = running \ {victim[t]}
            \/ running' = running \cup {requests} /\ requests \in Engine
        BY <3>1, <3>2 DEF EngineEffect
      <4> QED
        BY <3>3, <4>1 DEF Counters
    <3>6. victim' \in [Threads -> 0..MaxRequests]
      <4>1. \/ victim' = victim
            \/ \E n \in {NoEngine, showRef, manualRef} : victim' = [victim EXCEPT ![t] = n]
        BY <3>1 DEF EngineEffect
      <4> QED
        BY <3>3, <4>1, PlaybackAssumption DEF Counters, NoEngine
    <3>7. Busy("api")' => requests' \in Engine
      BY <2>4, <3>3 DEF Counters
    <3> QED
      BY <3>1, <3>3, <3>4, <3>5, <3>6, <3>7 DEF Counters
  <2> QED
    BY <1>2, <2>1, <2>3, <2>5 DEF ShapeInv, MovesOn
<1>3. CASE CutsShort
  <2>1. todo' = [todo EXCEPT !["api"] = <<>>] /\ "api" \in Threads /\ overlapped' \in BOOLEAN
        /\ failed' \in BOOLEAN
    BY <1>3 DEF CutsShort, Goes, Threads, ShapeInv
  <2>2. /\ todo' \in [Threads -> Seq(StepName)]
        /\ \A u \in Threads : Program(todo'[u]) /\ NamesOk(Ahead(todo'[u]))
        /\ todo'["api"] = <<>>
    BY <2>1, NewProgram, EmptyProgram
  <2>3. Counters'
    BY <1>3, <2>2 DEF CutsShort, adapterVars, Counters, ShapeInv, Busy
  <2> QED
    BY <2>1, <2>2, <2>3 DEF ShapeInv
<1>4. CASE Finalizes
  <2>1. todo' = [todo EXCEPT !["watchdog"] = FinalizeSteps] /\ "watchdog" \in Threads
    BY <1>4 DEF Finalizes, Finalize, Threads
  <2>2. /\ todo' \in [Threads -> Seq(StepName)]
        /\ \A u \in Threads : Program(todo'[u]) /\ NamesOk(Ahead(todo'[u]))
        /\ todo'["api"] = todo["api"]
    BY <2>1, NewProgram, FinalizeBegins DEF Threads
  <2>3. Counters'
    BY <1>4, <2>2 DEF Finalizes, adapterVars, Counters, ShapeInv, Busy
  <2> QED
    BY <1>4, <2>2, <2>3 DEF ShapeInv, Finalizes
<1>5. CASE Rests
  BY <1>5 DEF Rests, stateVars, ShapeInv, Counters, Busy
<1> QED
  BY <1>1, <1>2, <1>3, <1>4, <1>5, EveryStep

(* What the threads have to do is the rest of a handler, and every engine  *)
(* was started by a request.                                               *)
THEOREM HandlersOnly == Spec => []ShapeInv
<1>1. Init => ShapeInv
  BY ShapeInit
<1>2. ShapeInv /\ [Next]_vars => ShapeInv'
  BY ShapeNext
<1> QED
  BY <1>1, <1>2, PTL DEF Spec

----------------------------------------------------------------------------
(* Engines are accounted for                                               *)

LEMMA EmptyLen == ASSUME NEW r \in Seq(StepName) PROVE r = <<>> <=> Len(r) = 0
  OBVIOUS

LEMMA FirstSteps ==
    ASSUME NEW s, Program(s), s # <<>>
    PROVE  /\ Ahead(s) = {Head(s)} \cup Ahead(Tail(s)) /\ Head(s) = s[1]
           /\ Tail(s) # <<>> => Len(s) >= 2 /\ Tail(s)[1] = s[2]
           /\ Tail(s) # <<>> /\ Tail(s)[1] \in {"drop show", "start show", "drop manual"}
                => Head(s) = "kill"
           /\ Len(Tail(s)) >= 2 /\ Tail(s)[2] \in {"drop show", "start show"} => Head(s) = "grab show"
           /\ Len(Tail(s)) >= 2 /\ Tail(s)[2] = "drop manual" => Head(s) = "grab manual"
           /\ Head(s) = "start show" => "drop manual" \notin Ahead(s)
           /\ Head(s) = "start manual" => Tail(s) = <<>>
<1>0. s \in Seq(StepName) /\ Orderly(s) /\ Precedes(s, "drop manual", "start show")
      /\ OnlyLast(s, "start manual")
  BY DEF Program
<1>1. /\ Tail(s) \in Seq(StepName) /\ Len(s) \in Nat /\ Len(s) >= 1
      /\ Len(Tail(s)) = Len(s) - 1 /\ Head(s) = s[1]
      /\ \A i \in 1..(Len(s) - 1) : Tail(s)[i] = s[i + 1]
      /\ Ahead(s) = {Head(s)} \cup Ahead(Tail(s))
  BY <1>0, TailOf
<1>2. Tail(s) # <<>> <=> Len(Tail(s)) # 0
  BY <1>1, EmptyLen
<1>3. ASSUME Tail(s) # <<>>
      PROVE  Len(s) >= 2 /\ Tail(s)[1] = s[2] /\ 1 \in 1..(Len(s) - 1) /\ s[2] = s[1 + 1]
  BY <1>1, <1>2, <1>3
<1>4. ASSUME Len(Tail(s)) >= 2
      PROVE  Tail(s)[2] = s[3] /\ 1 \in 1..(Len(s) - 2) /\ s[3] = s[1 + 2]
  BY <1>1, <1>4
<1>5. Tail(s) # <<>> /\ Tail(s)[1] \in {"drop show", "start show", "drop manual"} => Head(s) = "kill"
  BY <1>0, <1>1, <1>3 DEF Orderly, Adjacent
<1>6. /\ Len(Tail(s)) >= 2 /\ Tail(s)[2] \in {"drop show", "start show"} => Head(s) = "grab show"
      /\ Len(Tail(s)) >= 2 /\ Tail(s)[2] = "drop manual" => Head(s) = "grab manual"
  BY <1>0, <1>1, <1>4 DEF Orderly, Spaced
<1>7. Head(s) = "start show" => "drop manual" \notin Ahead(s)
  <2>1. 1 \in 1..Len(s) /\ \A i \in 1..Len(s) : ~(i < 1)
    BY <1>1
  <2> QED
    BY <1>0, <1>1, <2>1 DEF Precedes, Ahead
<1>8. Head(s) = "start manual" => Tail(s) = <<>>
  <2>1. 1 \in 1..Len(s)
    BY <1>1
  <2>2. Head(s) = "start manual" => 1 = Len(s)
    BY <1>0, <1>1, <2>1 DEF OnlyLast
  <2> QED
    <3> SUFFICES ASSUME Head(s) = "start manual" PROVE Len(s) - 1 = 0
      BY <1>1, <1>2
    <3>1. Len(s) = 1
      BY <2>2
    <3> QED
      BY ONLY <3>1
<1> QED
  BY <1>1, <1>3, <1>5, <1>6, <1>7, <1>8

LEMMA NoneFits ==
    ASSUME NEW t, NEW s, s = <<>>
    PROVE  EngineFits(t, s)
<1>1. Ahead(s) = {}
  BY EmptyProgram
<1>2. ~(Len(s) >= 2) /\ ~(s # <<>>)
  OBVIOUS
<1> QED
  BY ONLY <1>1, <1>2 DEF EngineFits

LEMMA NoneFitsNext ==
    ASSUME NEW t, todo'[t] = <<>>
    PROVE  EngineFits(t, todo[t])'
<1>1. PICK s : s = <<>>
  OBVIOUS
<1>2. Ahead(s) = {} /\ todo'[t] = s /\ s = <<>> /\ ~(Len(s) >= 2)
  BY <1>1, EmptyProgram
<1>3. Ahead(todo'[t]) = {} /\ todo'[t] = <<>> /\ ~(Len(todo'[t]) >= 2)
  BY <1>2
<1> QED
  BY <1>3 DEF EngineFits

LEMMA FitsNext ==
    ASSUME NEW t, NEW s, todo'[t] = s, EngineFits(t, s)'
    PROVE  EngineFits(t, todo[t])'
  BY DEF EngineFits

(* A step of a thread that is alone keeps the engines accounted for.       *)
LEMMA EngineMove ==
    ASSUME ShapeInv, Held, NEW t \in Threads, MovesOn(t), EngineFits(t, todo[t])
    PROVE  Held' /\ EngineFits(t, todo[t])'
<1>0. PICK s, r, h : s = todo[t] /\ h = Head(s) /\ r = Tail(s)
  OBVIOUS
<1>1. /\ Ahead(s) = {h} \cup Ahead(r) /\ h = s[1] /\ s # <<>>
      /\ r # <<>> => Len(s) >= 2 /\ r[1] = s[2]
      /\ r # <<>> /\ r[1] \in {"drop show", "start show", "drop manual"} => h = "kill"
      /\ Len(r) >= 2 /\ r[2] \in {"drop show", "start show"} => h = "grab show"
      /\ Len(r) >= 2 /\ r[2] = "drop manual" => h = "grab manual"
      /\ h = "start show" => "drop manual" \notin Ahead(s)
      /\ h = "start manual" => r = <<>>
  BY <1>0, FirstSteps DEF ShapeInv, MovesOn
<1>2. todo'[t] = r
  BY <1>0 DEF MovesOn, Goes, ShapeInv
<1>3. EngineEffect(t, h)
  BY <1>0 DEF MovesOn
<1>4. EngineFits(t, s)
  BY <1>0
<1>5. /\ running \subseteq Engine /\ NoEngine \notin Engine
      /\ victim \in [Threads -> 0..MaxRequests]
  BY DEF ShapeInv, Counters, Engine, NoEngine
<1>6. ~({"start show", "start manual"} \subseteq Ahead(s))
  BY <1>0 DEF ShapeInv, NamesOk
<1>7. r = <<>> => Ahead(r) = {} /\ ~(Len(r) >= 2)
  <2> SUFFICES ASSUME r = <<>> PROVE Ahead(<<>>) = {} /\ ~(Len(<<>>) >= 2)
    OBVIOUS
  <2>1. Ahead(<<>>) = {}
    BY EmptyProgram
  <2> QED
    BY <2>1
<1>8. CASE h = "drop show"
  <2>1. showRef' = NoEngine /\ running' = running /\ manualRef' = manualRef /\ victim' = victim
    BY <1>3, <1>8 DEF EngineEffect
  <2>2. showRef \notin running
    BY <1>1, <1>4, <1>8 DEF EngineFits
  <2>3. Held'
    BY <2>1, <2>2 DEF Held
  <2>4. EngineFits(t, r)'
    BY <1>1, <1>4, <1>8, <2>1 DEF EngineFits
  <2> QED
    BY <1>2, <2>3, <2>4, FitsNext
<1>9. CASE h = "drop manual"
  <2>1. manualRef' = NoEngine /\ running' = running /\ showRef' = showRef /\ victim' = victim
    BY <1>3, <1>9 DEF EngineEffect
  <2>2. manualRef \notin running
    BY <1>1, <1>4, <1>9 DEF EngineFits
  <2>3. Held'
    BY <2>1, <2>2 DEF Held
  <2>4. EngineFits(t, r)'
    BY <1>1, <1>4, <1>9, <2>1 DEF EngineFits
  <2> QED
    BY <1>2, <2>3, <2>4, FitsNext
<1>10. CASE h = "start show"
  <2>1. /\ \/ showRef' = requests /\ running' = running \cup {requests}
           \/ showRef' = showRef /\ running' = running
        /\ manualRef' = manualRef /\ victim' = victim
    BY <1>3, <1>10 DEF EngineEffect
  <2>2. showRef \notin running /\ manualRef = NoEngine
    BY <1>1, <1>4, <1>10 DEF EngineFits
  <2>3. running = {}
    BY <1>5, <2>2 DEF Held
  <2>4. Held'
    BY <2>1, <2>3 DEF Held
  <2>5. EngineFits(t, r)'
    BY <1>1, <1>4, <1>6, <1>10, <2>1, <2>2 DEF EngineFits
  <2> QED
    BY <1>2, <2>4, <2>5, FitsNext
<1>11. CASE h = "start manual"
  <2>1. manualRef = NoEngine /\ showRef = NoEngine
    <3>1. Ahead(s) = {"start manual"}
      BY <1>1, <1>7, <1>11
    <3> QED
      BY <1>4, <3>1 DEF EngineFits
  <2>2. running = {}
    BY <1>5, <2>1 DEF Held
  <2>3. \/ manualRef' = requests /\ running' = running \cup {requests}
        \/ manualRef' = manualRef /\ running' = running
    BY <1>3, <1>11 DEF EngineEffect
  <2>4. Held'
    BY <2>2, <2>3 DEF Held
  <2>5. EngineFits(t, r)'
    BY <1>1, <1>7, <1>11 DEF EngineFits
  <2> QED
    BY <1>2, <2>4, <2>5, FitsNext
<1>12. CASE h = "kill"
  <2>1. showRef' = showRef /\ manualRef' = manualRef /\ running' = running \ {victim[t]}
    BY <1>3, <1>12 DEF EngineEffect
  <2>2. Held'
    BY <2>1 DEF Held
  <2>3. EngineFits(t, r)'
    BY <1>1, <1>4, <1>12, <2>1 DEF EngineFits
  <2> QED
    BY <1>2, <2>2, <2>3, FitsNext
<1>13. CASE h \notin {"drop show", "drop manual", "start show", "start manual", "kill"}
  <2>1. showRef' = showRef /\ manualRef' = manualRef /\ running' = running
    BY <1>3, <1>13 DEF EngineEffect
  <2>2. /\ h = "grab show" => victim'[t] = showRef
        /\ h = "grab manual" => victim'[t] = manualRef
    BY <1>3, <1>5 DEF EngineEffect
  <2>3. Held'
    BY <2>1 DEF Held
  <2>4. EngineFits(t, r)'
    BY <1>1, <1>4, <1>13, <2>1, <2>2 DEF EngineFits
  <2> QED
    BY <1>2, <2>3, <2>4, FitsNext
<1> QED
  BY <1>8, <1>9, <1>10, <1>11, <1>12, <1>13

LEMMA AloneWhile ==
    ASSUME NEW t \in Threads, todo[t] # <<>>, ~\A u \in Threads : Busy(u)
    PROVE  Alone(t)
  BY DEF Alone, Busy, Threads

LEMMA EngineNext == ASSUME ShapeInv, EngineInv, [Next]_vars PROVE EngineInv'
<1>0. Threads # {}
  BY DEF Threads
<1> SUFFICES ASSUME ~overlapped', NEW v \in Threads
             PROVE  Held' /\ (Alone(v)' => EngineFits(v, todo[v])')
  BY <1>0 DEF EngineInv
<1>1. CASE Request
  <2>1. PICK s : Begin(s) /\ Opens(s)
    BY <1>1, RequestBegins
  <2>2. UNCHANGED <<showRef, manualRef, running, victim, overlapped>>
    BY <2>1 DEF Begin, adapterVars
  <2>3. todo'["api"] = s /\ s # <<>>
    BY <2>1 DEF Begin, ShapeInv, Threads, Opens
  <2>4. Held'
    BY <2>2 DEF Held, EngineInv
  <2>5. ASSUME Alone(v)' PROVE EngineFits(v, todo[v])'
    <3>1. v = "api"
      BY <2>3, <2>5 DEF Alone, Threads
    <3>2. EngineFits("api", s)'
      BY <2>1 DEF Opens, EngineFits
    <3> QED
      BY <2>3, <3>1, <3>2, FitsNext
  <2> QED
    BY <2>4, <2>5
<1>2. ASSUME NEW t \in Threads, MovesOn(t)
      PROVE  Held' /\ (Alone(v)' => EngineFits(v, todo[v])')
  <2>1. todo[t] # <<>> /\ ~overlapped /\ ~\A u \in Threads : Busy(u)
    BY <1>2 DEF MovesOn, Goes
  <2>2. Alone(t)
    BY <2>1, AloneWhile
  <2>3. Held /\ EngineFits(t, todo[t])
    BY <2>1, <2>2 DEF EngineInv
  <2>4. Held' /\ EngineFits(t, todo[t])'
    BY <1>2, <2>3, EngineMove
  <2>5. v # t => todo'[v] = <<>>
    BY <1>2, <2>2 DEF Alone, MovesOn, Goes, ShapeInv
  <2>6. v # t => EngineFits(v, todo[v])'
    BY <2>5, NoneFitsNext
  <2> QED
    BY <2>4, <2>6
<1>3. CASE CutsShort
  <2>1. todo["api"] # <<>> /\ ~overlapped /\ ~\A u \in Threads : Busy(u) /\ "api" \in Threads
    BY <1>3 DEF CutsShort, Goes, Threads
  <2>2. Alone("api")
    <3>1. PICK t \in Threads : t = "api"
      BY DEF Threads
    <3> QED
      BY <2>1, <3>1, AloneWhile
  <2>3. todo'[v] = <<>>
    BY <1>3, <2>2 DEF Alone, CutsShort, Goes, ShapeInv
  <2>4. EngineFits(v, todo[v])'
    BY <2>3, NoneFitsNext
  <2>5. Held'
    BY <1>3, <2>1 DEF EngineInv, CutsShort, adapterVars, Held
  <2> QED
    BY <2>4, <2>5
<1>4. CASE Finalizes
  <2>1. todo'["watchdog"] = FinalizeSteps
    BY <1>4 DEF Finalizes, Finalize, Threads, ShapeInv
  <2>2. Held'
    BY <1>4 DEF Finalizes, adapterVars, EngineInv, Held
  <2>3. ASSUME Alone(v)' PROVE EngineFits(v, todo[v])'
    <3>1. v = "watchdog"
      BY <2>1, <2>3, FinalizeBegins DEF Alone, Threads
    <3>2. Ahead(FinalizeSteps) \cap {"start show", "start manual"} = {}
      BY FinalizeBegins DEF FinalizeNames, ForgetNames, AdapterStopNames, StopManualNames
    <3>3. EngineFits("watchdog", FinalizeSteps)'
      BY <3>2, FinalizeBegins DEF EngineFits
    <3> QED
      BY <2>1, <3>1, <3>3, FitsNext
  <2> QED
    BY <2>2, <2>3
<1>5. CASE Rests
  <2>1. /\ UNCHANGED <<showRef, manualRef, todo, victim, overlapped>>
        /\ running' \subseteq running
    BY <1>5 DEF Rests
  <2>2. Held'
    BY <2>1 DEF Held, EngineInv
  <2>3. Alone(v)' => Alone(v) /\ EngineFits(v, todo[v])
    BY <2>1 DEF Alone, EngineInv
  <2>4. EngineFits(v, todo[v]) => EngineFits(v, todo[v])'
    BY <2>1 DEF EngineFits
  <2> QED
    BY <2>2, <2>3, <2>4
<1> QED
  BY <1>1, <1>2, <1>3, <1>4, <1>5, EveryStep

LEMMA EngineInit == Init => EngineInv
<1> SUFFICES ASSUME Init PROVE EngineInv
  OBVIOUS
<1>1. \A t \in Threads : todo[t] = <<>>
  BY DEF Init
<1>2. \A t \in Threads : EngineFits(t, todo[t])
  BY <1>1, NoneFits
<1> QED
  BY <1>2 DEF Init, EngineInv, Held

LEMMA HeldIsOne == ASSUME Held PROVE Cardinality(running) <= 1
<1>1. CASE running = {}
  BY <1>1, FS_EmptySet
<1>2. CASE running # {}
  <2>1. PICK e : running = {e}
    BY <1>2 DEF Held
  <2> QED
    <3>1. Cardinality({e}) = 1
      BY FS_Singleton
    <3> QED
      BY <2>1, <3>1
<1> QED
  BY <1>1, <1>2

(* As long as no step of a request has come between the steps of a natural *)
(* end, or the other way round, at most one engine process drives the      *)
(* lights, and the adapter holds a reference to it                         *)
(* (real_engine_adapter.py, on_playback_start, on_manual_command).         *)
THEOREM OneEngine == Spec => []EnginesAccounted
<1>1. Init => ShapeInv /\ EngineInv
  BY ShapeInit, EngineInit
<1>2. ShapeInv /\ EngineInv /\ [Next]_vars => (ShapeInv /\ EngineInv)'
  BY ShapeNext, EngineNext
<1>3. EngineInv => EnginesAccounted
  BY HeldIsOne DEF EngineInv, EnginesAccounted, Held
<1> QED
  BY <1>1, <1>2, <1>3, PTL DEF Spec

----------------------------------------------------------------------------
(* The state and the adapter agree                                         *)

(* A request that needs the player and is not a play does nothing else.    *)
LEMMA OnlyPlayer ==
    ASSUME NEW s, Program(s), s # <<>>, Head(s) = "start mpv", NamesOk(Ahead(s)), Ends(s),
           wanted = NoShow
    PROVE  Ahead(s) \subseteq PlayerNames
<1>0. s \in Seq(StepName)
  BY DEF Program
<1>1. Head(s) = s[1] /\ "start mpv" \in Ahead(s)
  BY <1>0, TailOf
<1>2. SUFFICES ASSUME "declare" \in Ahead(s) PROVE FALSE
  BY <1>1 DEF NamesOk
<1> QED
  BY <1>2, PlaybackAssumption DEF Ends, OnEnds, ShowEnds

(* What comes before what, for the steps that change the state.            *)
LEMMA LastWord ==
    ASSUME NEW s, Program(s), s # <<>>
    PROVE  /\ Head(s) = "remember show" => "forget show" \notin Ahead(s)
           /\ Head(s) = "light" => "darken" \notin Ahead(s)
<1>0. s \in Seq(StepName)
  BY DEF Program
<1>1. Head(s) = s[1] /\ 1 \in 1..Len(s) /\ \A i \in 1..Len(s) : ~(i < 1)
  BY <1>0, TailOf
<1> QED
  BY <1>1 DEF Program, Precedes, Ahead

LEMMA EndsNext ==
    ASSUME NEW t, NEW s, todo'[t] = s, Ends(s)'
    PROVE  Ends(todo[t])'
  BY DEF Ends, OnEnds, ShowEnds, ActiveEnds, LitEnds, On

(* A step does not change what the steps of its thread end in.             *)
LEMMA AgreeMove ==
    ASSUME ShapeInv, NEW t \in Threads, MovesOn(t), Ends(todo[t]), NEW r, r = Tail(todo[t]),
           Ahead(todo[t]) \cap {"pause", "resume"} # {} => On
    PROVE  Ends(r)' /\ (Ahead(r) \cap {"pause", "resume"} # {} => On')
<1>0. PICK s, h : s = todo[t] /\ h = Head(s)
  OBVIOUS
<1>1. Ahead(s) = {h} \cup Ahead(r)
  BY <1>0, FirstSteps DEF ShapeInv, MovesOn
<1>2. /\ h = "remember show" => "forget show" \notin Ahead(s)
      /\ h = "light" => "darken" \notin Ahead(s)
  BY <1>0, LastWord DEF ShapeInv, MovesOn
<1>3. NamesOk(Ahead(s)) /\ Ends(s) /\ (Ahead(s) \cap {"pause", "resume"} # {} => On)
  BY <1>0 DEF ShapeInv
<1>4. StateEffect(h) /\ wanted' = wanted
  BY <1>0 DEF MovesOn
<1>5. /\ h = "drop show" => showRef' = NoEngine
      /\ h \notin {"drop show", "start show"} => showRef' = showRef
  BY <1>0 DEF MovesOn, EngineEffect
<1>6. OnEnds(r)' = OnEnds(s)
  <2>1. CASE h = "declare"
    <3>1. "halt" \notin Ahead(r) /\ On'
      BY <1>1, <1>3, <1>4, <2>1 DEF NamesOk, StateEffect, On
    <3> QED
      BY <1>1, <2>1, <3>1 DEF OnEnds
  <2>2. CASE h = "halt"
    <3>1. "declare" \notin Ahead(s) /\ ~On'
      BY <1>1, <1>3, <1>4, <2>2 DEF NamesOk, StateEffect, On
    <3>2. On' = FALSE
      BY <3>1 DEF On
    <3> QED
      BY <1>1, <2>2, <3>1, <3>2 DEF OnEnds
  <2>3. CASE h \notin {"declare", "halt"}
    <3>1. On' <=> On
      <4>1. CASE h \in {"pause", "resume"}
        <5>1. On
          BY <1>1, <1>3, <4>1
        <5>2. state' \in {"playing", "paused"}
          BY <1>4, <4>1 DEF StateEffect
        <5> QED
          BY <5>1, <5>2 DEF On
      <4>2. CASE h \notin {"pause", "resume"}
        <5>1. state' = state \/ (state = "paused" /\ state' = "playing")
          <6>1. h = "unpause" => state' = (IF state = "paused" THEN "playing" ELSE state)
            BY <1>4 DEF StateEffect
          <6>2. h # "unpause" => state' = state
            BY <1>4, <2>3, <4>2 DEF StateEffect
          <6> QED
            BY <6>1, <6>2
        <5> QED
          BY <5>1 DEF On
      <4> QED
        BY <4>1, <4>2
    <3>2. ("declare" \in Ahead(s) <=> "declare" \in Ahead(r)) /\ ("halt" \in Ahead(s) <=> "halt" \in Ahead(r))
      BY <1>1, <2>3
    <3> QED
      BY <3>1, <3>2 DEF OnEnds
  <2> QED
    BY <2>1, <2>2, <2>3
<1>7. ShowEnds(r)' = ShowEnds(s)
  BY <1>1, <1>3, <1>4 DEF ShowEnds, StateEffect, NamesOk
<1>8. ActiveEnds(r)' = ActiveEnds(s)
  BY <1>1, <1>2, <1>4 DEF ActiveEnds, StateEffect
<1>9. LitEnds(r)' = LitEnds(s)
  BY <1>1, <1>2, <1>4 DEF LitEnds, StateEffect
<1>10. Ends(r)'
  <2>1. CASE OnEnds(s)
    BY <1>3, <1>6, <1>7, <1>8, <1>9, <2>1 DEF Ends
  <2>2. CASE ~OnEnds(s)
    <3>1. /\ ShowEnds(s) = NoShow /\ ActiveEnds(s) = NoShow
          /\ "start show" \notin Ahead(s)
          /\ "drop show" \in Ahead(s) \/ showRef = NoEngine
      BY <1>3, <2>2 DEF Ends
    <3>2. "start show" \notin Ahead(r) /\ ("drop show" \in Ahead(r) \/ showRef' = NoEngine)
      BY <1>1, <1>5, <3>1
    <3> QED
      BY <1>6, <1>7, <1>8, <2>2, <3>1, <3>2 DEF Ends
  <2> QED
    BY <2>1, <2>2
<1>11. ASSUME Ahead(r) \cap {"pause", "resume"} # {} PROVE On'
  <2>1. On /\ Ahead(s) \subseteq PlayerNames
    BY <1>1, <1>3, <1>11 DEF NamesOk
  <2>2. h \in PlayerNames
    BY <1>1, <2>1
  <2> QED
    BY <1>4, <2>1, <2>2 DEF PlayerNames, EnsureNames, StateEffect, On
<1> QED
  BY <1>10, <1>11

(* A request taken when all is quiet ends in agreement.                    *)
LEMMA AgreeBegins ==
    ASSUME NEW s, Opens(s), Suits(s, wanted'), Ends(<<>>),
           UNCHANGED <<state, show, active, lit, showRef>>
    PROVE  Ends(s)' /\ (Ahead(s) \cap {"pause", "resume"} # {} => On')
<1>1. PICK names : names = Ahead(s)
  OBVIOUS
<1>2. NamesOk(names) /\ ("start manual" \in names => "drop show" \in names)
  BY <1>1 DEF Opens
<1>3. /\ "declare" \in names => wanted' \in Shows /\ {"remember show", "light"} \subseteq names
      /\ "halt" \in names => /\ {"forget show", "drop show"} \subseteq names
                             /\ names \cap {"remember show", "start show"} = {}
      /\ names \cap {"declare", "halt"} = {} =>
           /\ names \cap {"remember show", "forget show", "darken"} = {}
           /\ names \cap {"start show", "pause", "resume"} # {} => On
  BY <1>1 DEF Suits
<1>4. IF On THEN show \in Shows /\ active = show /\ lit
            ELSE show = NoShow /\ active = NoShow /\ showRef = NoEngine
  <2>1. Ahead(<<>>) = {}
    BY EmptyProgram
  <2> QED
    BY <2>1 DEF Ends, OnEnds, ShowEnds, ActiveEnds, LitEnds
<1>5. On' = On
  BY DEF On
<1>6. Ends(s)'
  <2>1. CASE "declare" \in names
    <3>1. OnEnds(s)' /\ ShowEnds(s)' = wanted' /\ ActiveEnds(s)' = wanted' /\ LitEnds(s)'
      BY <1>1, <1>3, <2>1 DEF OnEnds, ShowEnds, ActiveEnds, LitEnds
    <3> QED
      BY <1>3, <2>1, <3>1 DEF Ends
  <2>2. CASE "declare" \notin names /\ "halt" \in names
    <3>1. ~OnEnds(s)' /\ ShowEnds(s)' = NoShow /\ ActiveEnds(s)' = NoShow
      BY <1>1, <1>3, <2>2 DEF OnEnds, ShowEnds, ActiveEnds
    <3> QED
      BY <1>1, <1>3, <2>2, <3>1 DEF Ends
  <2>3. CASE "declare" \notin names /\ "halt" \notin names
    <3>1. /\ OnEnds(s)' = On /\ ShowEnds(s)' = show /\ ActiveEnds(s)' = active
          /\ lit => LitEnds(s)'
      BY <1>1, <1>3, <1>5, <2>3 DEF OnEnds, ShowEnds, ActiveEnds, LitEnds
    <3>2. ~On => "start show" \notin names
      BY <1>3, <2>3
    <3> QED
      BY <1>1, <1>4, <3>1, <3>2 DEF Ends
  <2> QED
    BY <2>1, <2>2, <2>3
<1>7. ASSUME names \cap {"pause", "resume"} # {} PROVE On'
  <2>1. names \cap {"declare", "halt"} = {}
    BY <1>2, <1>7 DEF NamesOk, PlayerNames, EnsureNames
  <2> QED
    BY <1>3, <1>5, <1>7, <2>1
<1> QED
  BY <1>1, <1>6, <1>7

(* A request that ends early has changed nothing.                          *)
LEMMA AgreeCut ==
    ASSUME NEW s, Program(s), s # <<>>, NamesOk(Ahead(s)), Ends(s),
           \/ Head(s) = "start mpv" /\ wanted = NoShow
           \/ Head(s) = "check show" /\ active = NoShow
    PROVE  Ends(<<>>)
<1>1. Head(s) \in Ahead(s)
  BY FirstSteps
<1>2. Ahead(<<>>) = {}
  BY EmptyProgram
<1>3. CASE Head(s) = "start mpv" /\ wanted = NoShow
  <2>1. Ahead(s) \subseteq PlayerNames
    BY <1>3, OnlyPlayer
  <2>2. Ahead(s) \cap {"declare", "halt", "remember show", "forget show", "light", "darken",
                       "drop show"} = {}
    BY <2>1 DEF PlayerNames, EnsureNames
  <2> QED
    BY <1>2, <2>2 DEF Ends, OnEnds, ShowEnds, ActiveEnds, LitEnds
<1>4. CASE Head(s) = "check show" /\ active = NoShow
  <2>1. /\ "start show" \in Ahead(s)
        /\ Ahead(s) \cap {"declare", "halt", "remember show", "forget show"} = {}
    BY <1>1, <1>4 DEF NamesOk
  <2>2. ShowEnds(s) \in Shows /\ ActiveEnds(s) = ShowEnds(s)
    BY <2>1 DEF Ends
  <2>3. ActiveEnds(s) = active
    BY <2>1 DEF ActiveEnds
  <2> QED
    BY <1>4, <2>2, <2>3, PlaybackAssumption
<1> QED
  BY <1>3, <1>4

LEMMA AgreeNext == ASSUME ShapeInv, AgreeInv, [Next]_vars PROVE AgreeInv'
<1>0. lit' \in BOOLEAN
  <2>1. lit \in BOOLEAN
    BY DEF AgreeInv
  <2>2. ASSUME NEW t \in Threads, MovesOn(t) PROVE lit' \in BOOLEAN
    BY <2>1, <2>2 DEF MovesOn, StateEffect
  <2>3. Request => lit' = lit
    BY RequestBegins DEF Begin
  <2>4. CutsShort \/ Finalizes \/ Rests => lit' = lit
    BY DEF CutsShort, Finalizes, Rests
  <2> QED
    BY <2>1, <2>2, <2>3, <2>4, EveryStep
<1> DEFINE Fine(t) == Ends(todo[t]) /\ (Ahead(todo[t]) \cap {"pause", "resume"} # {} => On)
<1> SUFFICES ASSUME ~overlapped', ~failed', NEW v \in Threads, Alone(v)'
             PROVE  Ends(todo[v])' /\ (Ahead(todo'[v]) \cap {"pause", "resume"} # {} => On')
  BY <1>0 DEF AgreeInv
<1>a. ASSUME NEW t \in Threads, Alone(t), ~overlapped, ~failed PROVE Fine(t)
  BY <1>a DEF AgreeInv
<1>b. ASSUME NEW s, todo'[v] = s, Ends(s)', Ahead(s) \cap {"pause", "resume"} # {} => On'
      PROVE  Ends(todo[v])' /\ (Ahead(todo'[v]) \cap {"pause", "resume"} # {} => On')
  BY <1>b, EndsNext
<1>1. CASE Request
  <2>1. PICK s : Begin(s) /\ Opens(s) /\ Suits(s, wanted')
    BY <1>1, RequestBegins
  <2>2. /\ UNCHANGED <<state, show, active, lit, showRef, overlapped, failed>>
        /\ todo["api"] = <<>>
    BY <2>1 DEF Begin, Busy, stateVars, adapterVars
  <2>3. todo'["api"] = s /\ s # <<>> /\ todo'["watchdog"] = todo["watchdog"]
    BY <2>1 DEF Begin, ShapeInv, Threads, Opens
  <2>4. v = "api" /\ todo'["watchdog"] = <<>>
    BY <2>3 DEF Alone, Threads
  <2>5. Alone("api") /\ "api" \in Threads
    BY <2>3, <2>4 DEF Alone, Threads
  <2>6. Ends(<<>>)
    BY <1>a, <2>2, <2>5
  <2>7. Ends(s)' /\ (Ahead(s) \cap {"pause", "resume"} # {} => On')
    BY <2>1, <2>2, <2>6, AgreeBegins
  <2> QED
    BY <1>b, <2>3, <2>4, <2>7
<1>2. ASSUME NEW t \in Threads, MovesOn(t)
      PROVE  Ends(todo[v])' /\ (Ahead(todo'[v]) \cap {"pause", "resume"} # {} => On')
  <2>1. todo[t] # <<>> /\ ~overlapped /\ ~failed /\ ~\A u \in Threads : Busy(u)
    BY <1>2 DEF MovesOn, Goes
  <2>2. Alone(t)
    BY <2>1, AloneWhile
  <2>3. PICK r : r = Tail(todo[t])
    OBVIOUS
  <2>4. Ends(r)' /\ (Ahead(r) \cap {"pause", "resume"} # {} => On')
    BY <1>2, <1>a, <2>1, <2>2, <2>3, AgreeMove
  <2>5. todo'[t] = r /\ \A u \in Threads : u # t => todo'[u] = <<>>
    BY <1>2, <2>2, <2>3 DEF Alone, MovesOn, Goes, ShapeInv
  <2>6. v = t \/ r = <<>>
    BY <2>5 DEF Alone
  <2>7. todo'[v] = r
    BY <2>5, <2>6
  <2> QED
    BY <1>b, <2>4, <2>7
<1>3. CASE CutsShort
  <2>a. todo["api"] # <<>> /\ ~overlapped /\ ~\A u \in Threads : Busy(u)
    BY <1>3 DEF CutsShort, Goes
  <2>b. ~failed
    BY <1>3 DEF CutsShort
  <2>1. todo["api"] # <<>> /\ ~overlapped /\ ~failed /\ ~\A u \in Threads : Busy(u)
    BY <2>a, <2>b
  <2>2. Alone("api") /\ "api" \in Threads
    <3>1. PICK t \in Threads : t = "api"
      BY DEF Threads
    <3> QED
      BY <2>1, <3>1, AloneWhile
  <2>3. todo'[v] = <<>>
    BY <1>3, <2>2 DEF Alone, CutsShort, Goes, ShapeInv
  <2>4. UNCHANGED <<state, show, active, lit, showRef, wanted>>
    BY <1>3 DEF CutsShort, stateVars, adapterVars
  <2>5. PICK s, e : s = todo["api"] /\ e = <<>>
    OBVIOUS
  <2>6. Ends(s) /\ Program(s) /\ NamesOk(Ahead(s)) /\ s # <<>>
    BY <1>a, <2>1, <2>2, <2>5 DEF ShapeInv
  <2>7. \/ Head(s) = "start mpv" /\ wanted = NoShow
        \/ Head(s) = "check show" /\ active = NoShow
    BY <1>3, <2>5 DEF CutsShort
  <2>8. Ends(e)
    BY <2>5, <2>6, <2>7, AgreeCut
  <2>9. Ends(e)'
    BY <2>4, <2>8 DEF Ends, OnEnds, ShowEnds, ActiveEnds, LitEnds, On
  <2>10. Ahead(e) = {}
    BY <2>5, EmptyProgram
  <2> QED
    BY <1>b, <2>3, <2>5, <2>9, <2>10
<1>4. CASE Finalizes
  <2>1. todo'["watchdog"] = FinalizeSteps
    BY <1>4 DEF Finalizes, Finalize, Threads, ShapeInv
  <2>2. v = "watchdog"
    BY <2>1, FinalizeBegins DEF Alone, Threads
  <2>3. PICK s : s = FinalizeSteps
    OBVIOUS
  <2>4. /\ {"halt", "forget show", "drop show"} \subseteq Ahead(s)
        /\ Ahead(s) \cap {"declare", "remember show", "start show", "pause", "resume"} = {}
    BY <2>3, FinalizeBegins DEF FinalizeNames, ForgetNames, AdapterStopNames, StopManualNames
  <2>5. Ends(s)'
    BY <2>4 DEF Ends, OnEnds, ShowEnds, ActiveEnds
  <2> QED
    BY <1>b, <2>1, <2>2, <2>3, <2>4, <2>5
<1>5. CASE Rests
  <2>1. UNCHANGED <<state, show, active, lit, showRef, wanted, todo, overlapped, failed>>
    BY <1>5 DEF Rests, stateVars
  <2>2. Alone(v)
    BY <2>1 DEF Alone
  <2>3. Fine(v)
    BY <1>a, <2>1, <2>2
  <2> QED
    BY <2>1, <2>3 DEF Ends, OnEnds, ShowEnds, ActiveEnds, LitEnds, On
<1> QED
  BY <1>1, <1>2, <1>3, <1>4, <1>5, EveryStep

LEMMA AgreeInit == Init => AgreeInv
<1> SUFFICES ASSUME Init PROVE AgreeInv
  OBVIOUS
<1>1. \A t \in Threads : todo[t] = <<>>
  BY DEF Init
<1>2. Ahead(<<>>) = {}
  BY EmptyProgram
<1>3. Ends(<<>>)
  BY <1>2 DEF Init, Ends, OnEnds, ShowEnds, ActiveEnds, On
<1> QED
  BY <1>1, <1>2, <1>3 DEF Init, AgreeInv

(* Whenever neither thread has anything to do, the show that _state calls  *)
(* playing or paused is the one the adapter can restart, and with no show  *)
(* there is no show engine (engine_adapter.py, playback_play,              *)
(* playback_stop, _finalize_natural_end).                                  *)
THEOREM AgreeWhenQuiet == Spec => []StateAgrees
<1>1. Init => ShapeInv /\ AgreeInv
  BY ShapeInit, AgreeInit
<1>2. ShapeInv /\ AgreeInv /\ [Next]_vars => (ShapeInv /\ AgreeInv)'
  BY ShapeNext, AgreeNext
<1>3. AgreeInv => StateAgrees
  <2> SUFFICES ASSUME AgreeInv, ~overlapped, ~failed, Quiet
               PROVE  IF On THEN show # NoShow /\ active = show /\ lit
                            ELSE show = NoShow /\ active = NoShow /\ showRef = NoEngine
    BY DEF StateAgrees, On
  <2>1. Alone("api") /\ todo["api"] = <<>> /\ "api" \in Threads
    BY DEF Quiet, Busy, Alone, Threads
  <2>2. Ends(<<>>)
    BY <2>1 DEF AgreeInv
  <2>3. Ahead(<<>>) = {}
    BY EmptyProgram
  <2> QED
    BY <2>2, <2>3, PlaybackAssumption DEF Ends, OnEnds, ShowEnds, ActiveEnds, LitEnds
<1> QED
  BY <1>1, <1>2, <1>3, PTL DEF Spec
=============================================================================
