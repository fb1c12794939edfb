----------------------- MODULE PresentationClockProofs -----------------------
(* Theorems about PresentationClock, for every configuration, every set of    *)
(* hosts with clocks far enough apart and every bound.                        *)
EXTENDS PresentationClock, TLAPS, FiniteSetTheorems, WellFoundedInduction

(* Machines and frames are of the past. *)
MachinesKnown ==
    /\ now \in 0..MaxTime /\ boot \in 0..now /\ strays \in 0..MaxStrays
    /\ host.uptime \in Uptimes
    /\ \A l \in lives : l.uptime \in Uptimes /\ l.from \in 0..now /\ l.to \in {None} \cup 0..now

BeaconsKnown ==
    \A b \in air : b.at \in 0..now /\ \E u \in Uptimes : b.host = u + b.at

(* A sample x of host u says how long its beacon took. *)
Took(x, started, u) == x + started + u

(* Each sample is of a beacon of some host, and none of a host with a later  *)
(* clock than the last.                                                       *)
SamplesKnown ==
    /\ clock.samples \in Seq(Int) /\ clock.host \in Nat
    /\ \A i \in 1..Len(clock.samples) :
          \E u \in Uptimes : u <= clock.host /\ Took(clock.samples[i], boot, u) \in 0..now

LatestKnown ==
    clock.samples # <<>> =>
        \E u \in Uptimes : /\ clock.host - u \in 0..now
                           /\ Took(clock.samples[Len(clock.samples)], boot, u) \in 0..now

(* Only strays took longer than MaxDelay. *)
Late(s, started) ==
    {i \in 1..Len(s) : \A u \in Uptimes : Took(s[i], started, u) \notin 0..MaxDelay}
FewLate == Cardinality(Late(clock.samples, boot)) <= strays

ClockInv == MachinesKnown /\ BeaconsKnown /\ SamplesKnown /\ LatestKnown /\ FewLate

-----------------------------------------------------------------------------
(* The ranks of samples                                                      *)

LEMMA LeastNumber ==
    ASSUME NEW T \in SUBSET Nat, T # {}
    PROVE  \E m \in T : \A n \in T : m <= n
<1> DEFINE R == OpToRel(<, Nat)
<1>1. \A n, m \in Nat : n < m => <<n, m>> \in R
  BY DEF OpToRel
<1>2. IsWellFoundedOn(R, Nat)
  BY NatLessThanWellFounded
<1> HIDE DEF R
<1>3. PICK m \in T : \A n \in T : ~ (<<n, m>> \in R)
  BY <1>2, WFMin
<1>4. \A n \in T : ~ (n < m)
  BY <1>1, <1>3
<1> QED
  BY <1>4

LEMMA GreatestNumber ==
    ASSUME NEW b \in Nat, NEW T \in SUBSET (0..b), T # {}
    PROVE  \E m \in T : \A n \in T : n <= m
<1> DEFINE D == {b - n : n \in T}
<1>1. D \in SUBSET Nat /\ D # {}
  <2>1. \A n \in T : n \in 0..b /\ b - n \in Nat
    OBVIOUS
  <2> QED
    BY <2>1
<1>2. PICK d \in D : \A e \in D : d <= e
  BY <1>1, LeastNumber
<1>3. PICK m \in T : d = b - m
  BY <1>2
<1>4. \A n \in T : b - n \in D
  OBVIOUS
<1>5. \A n \in T : b - m <= b - n
  BY <1>2, <1>3, <1>4
<1> QED
  BY <1>5

(* How many samples are below a value, and how many not above it. *)
Below(s, v) == {i \in DOMAIN s : s[i] < v}
UpTo(s, v) == {i \in DOMAIN s : s[i] <= v}

LEMMA CountsFinite ==
    ASSUME NEW s \in Seq(Int), NEW v \in Int
    PROVE  /\ IsFiniteSet(Below(s, v)) /\ Cardinality(Below(s, v)) \in 0..Len(s)
           /\ IsFiniteSet(UpTo(s, v)) /\ Cardinality(UpTo(s, v)) \in 0..Len(s)
<1>1. DOMAIN s = 1..Len(s) /\ Len(s) \in Nat
  OBVIOUS
<1>2. IsFiniteSet(DOMAIN s) /\ Cardinality(DOMAIN s) = Len(s)
  BY <1>1, FS_Interval
<1>3. Below(s, v) \in SUBSET DOMAIN s /\ UpTo(s, v) \in SUBSET DOMAIN s
  BY DEF Below, UpTo
<1>4. /\ IsFiniteSet(Below(s, v)) /\ Cardinality(Below(s, v)) <= Len(s)
      /\ IsFiniteSet(UpTo(s, v)) /\ Cardinality(UpTo(s, v)) <= Len(s)
  BY <1>2, <1>3, FS_Subset
<1>5. Cardinality(Below(s, v)) \in Nat /\ Cardinality(UpTo(s, v)) \in Nat
  BY <1>4, FS_CardinalityType
<1> QED
  BY <1>1, <1>4, <1>5

(* Of the samples a set of places holds, one is the greatest. *)
LEMMA GreatestSample ==
    ASSUME NEW s \in Seq(Int), NEW P \in SUBSET (DOMAIN s), P # {}
    PROVE  \E i \in P : \A j \in P : s[j] <= s[i]
<1> DEFINE c(i) == Cardinality(UpTo(s, s[i]))
           T == {c(i) : i \in P}
<1>1. \A i \in P : s[i] \in Int /\ i \in DOMAIN s
  OBVIOUS
<1>2. \A i \in P : c(i) \in 0..Len(s)
  BY <1>1, CountsFinite
<1>3. Len(s) \in Nat /\ T \in SUBSET (0..Len(s)) /\ T # {}
  BY <1>2
<1>4. PICK m \in T : \A n \in T : n <= m
  BY <1>3, GreatestNumber
<1>5. PICK i \in P : m = c(i)
  BY <1>4
<1>6. ASSUME NEW j \in P, s[j] > s[i] PROVE FALSE
  <2>1. UpTo(s, s[i]) \subseteq UpTo(s, s[j])
    BY <1>1, <1>6 DEF UpTo
  <2>2. j \in UpTo(s, s[j]) /\ j \notin UpTo(s, s[i])
    BY <1>1, <1>6 DEF UpTo
  <2>3. c(i) <= c(j) /\ c(i) # c(j)
    BY <1>1, <2>1, <2>2, CountsFinite, FS_Subset
  <2>4. c(j) <= c(i)
    BY <1>4, <1>5
  <2>5. c(i) \in Nat /\ c(j) \in Nat
    BY <1>2, <1>3
  <2> QED
    BY <2>3, <2>4, <2>5
<1>7. \A j \in P : s[j] <= s[i]
  BY <1>1, <1>6
<1> QED
  BY <1>7

(* There is a k-th smallest sample, so Ranked is one. *)
LEMMA RankedIsThere ==
    ASSUME NEW s \in Seq(Int), NEW k \in 1..Len(s)
    PROVE  /\ \E i \in DOMAIN s : Ranked(s, k) = s[i]
           /\ Cardinality(Below(s, Ranked(s, k))) < k
           /\ Cardinality(UpTo(s, Ranked(s, k))) >= k
<1>1. /\ DOMAIN s = 1..Len(s) /\ Len(s) \in Nat /\ Len(s) >= 1
      /\ \A i \in DOMAIN s : s[i] \in Int
  OBVIOUS
<1> DEFINE c(i) == Cardinality(UpTo(s, s[i]))
           P == {i \in DOMAIN s : c(i) >= k}
           T == {c(i) : i \in P}
<1>2. \A i \in DOMAIN s : c(i) \in 0..Len(s)
  BY <1>1, CountsFinite
<1>3. P # {}
  <2>1. PICK i \in DOMAIN s : \A j \in DOMAIN s : s[j] <= s[i]
    <3>1. DOMAIN s # {} /\ DOMAIN s \in SUBSET DOMAIN s
      BY <1>1
    <3> QED
      BY <3>1, GreatestSample
  <2>2. UpTo(s, s[i]) = 1..Len(s)
    BY <1>1, <2>1 DEF UpTo
  <2>3. c(i) = Len(s)
    <3>1. \A n \in Nat : n >= 1 => Cardinality(1..n) = n
      BY FS_Interval
    <3> QED
      BY <1>1, <2>2, <3>1
  <2> QED
    BY <1>1, <2>3
<1>4. T \in SUBSET Nat /\ T # {}
  BY <1>1, <1>2, <1>3
<1>5. PICK m \in T : \A n \in T : m <= n
  BY <1>4, LeastNumber
<1>6. PICK i \in P : m = c(i)
  BY <1>5
<1>7. Cardinality(Below(s, s[i])) < k
  <2> SUFFICES ASSUME Cardinality(Below(s, s[i])) >= k PROVE FALSE
    BY <1>1, CountsFinite
  <2>1. Below(s, s[i]) \in SUBSET DOMAIN s
    BY DEF Below
  <2>10. Below(s, s[i]) # {}
    <3>1. Cardinality({}) = 0 /\ ~ (0 >= k)
      BY <1>1, FS_EmptySet
    <3> QED
      BY <3>1
  <2>2. PICK j \in Below(s, s[i]) : \A h \in Below(s, s[i]) : s[h] <= s[j]
    BY <2>1, <2>10, GreatestSample
  <2>3. j \in DOMAIN s /\ s[j] < s[i]
    BY <2>2 DEF Below
  <2>4. UpTo(s, s[j]) = Below(s, s[i])
    BY <1>1, <2>2, <2>3 DEF UpTo, Below
  <2>5. j \in P /\ c(j) \in T
    BY <2>3, <2>4
  <2>6. m <= c(j)
    BY <1>5, <2>5
  <2>7. UpTo(s, s[j]) \subseteq UpTo(s, s[i]) /\ i \in UpTo(s, s[i]) /\ i \notin UpTo(s, s[j])
    BY <1>1, <1>6, <2>3 DEF UpTo
  <2>8. c(j) <= c(i) /\ c(j) # c(i)
    BY <1>1, <1>6, <2>3, <2>7, CountsFinite, FS_Subset
  <2>9. c(i) \in Nat /\ c(j) \in Nat
    BY <1>2, <1>6, <2>3
  <2> QED
    BY <1>6, <2>6, <2>8, <2>9
<1> DEFINE V == {s[h] : h \in DOMAIN s}
           Is(v) == /\ Cardinality({h \in DOMAIN s : s[h] < v}) < k
                    /\ Cardinality({h \in DOMAIN s : s[h] <= v}) >= k
<1>8. s[i] \in V /\ Is(s[i])
  BY <1>6, <1>7 DEF Below, UpTo
<1>9. Ranked(s, k) = CHOOSE v \in V : Is(v)
  BY DEF Ranked
<1>10. Ranked(s, k) \in V /\ Is(Ranked(s, k))
  <2> HIDE DEF V, Is
  <2> QED
    BY <1>8, <1>9
<1> QED
  BY <1>10 DEF Below, UpTo

-----------------------------------------------------------------------------
(* Samples that come and go                                                  *)

LEMMA LateFinite ==
    ASSUME NEW s \in Seq(Int), NEW b
    PROVE  IsFiniteSet(Late(s, b)) /\ Cardinality(Late(s, b)) \in Nat
<1>1. Len(s) \in Nat
  OBVIOUS
<1>2. IsFiniteSet(1..Len(s)) /\ Late(s, b) \in SUBSET (1..Len(s))
  BY <1>1, FS_Interval DEF Late
<1> QED
  BY <1>2, FS_Subset, FS_CardinalityType

LEMMA LateAppended ==
    ASSUME NEW s \in Seq(Int), NEW b \in Int, NEW x \in Int
    PROVE  /\ Cardinality(Late(Append(s, x), b)) <= Cardinality(Late(s, b)) + 1
           /\ (\E u \in Uptimes : Took(x, b, u) \in 0..MaxDelay)
                 => Cardinality(Late(Append(s, x), b)) <= Cardinality(Late(s, b))
<1> DEFINE n == Append(s, x)
           L == Len(s) + 1
<1>1. /\ Len(s) \in Nat /\ Len(n) = L /\ n[L] = x
      /\ \A i \in 1..Len(n) : i # L => i \in 1..Len(s) /\ n[i] = s[i]
  OBVIOUS
<1>2. Late(n, b) \subseteq Late(s, b) \cup {L}
  BY <1>1 DEF Late
<1>3. (\E u \in Uptimes : Took(x, b, u) \in 0..MaxDelay) => L \notin Late(n, b)
  BY <1>1 DEF Late
<1>4. /\ IsFiniteSet(Late(s, b)) /\ Cardinality(Late(s, b)) \in Nat
      /\ n \in Seq(Int) /\ IsFiniteSet(Late(n, b)) /\ Cardinality(Late(n, b)) \in Nat
  <2>1. n \in Seq(Int)
    OBVIOUS
  <2> QED
    BY <2>1, LateFinite
<1>5. /\ IsFiniteSet(Late(s, b) \cup {L})
      /\ Cardinality(Late(s, b) \cup {L}) <= Cardinality(Late(s, b)) + 1
  <2>1. PICK T : T = Late(s, b)
    OBVIOUS
  <2>2. IsFiniteSet(T) /\ Cardinality(T) \in Nat
    BY <1>4, <2>1
  <2> HIDE DEF L
  <2>3. /\ IsFiniteSet(T \cup {L})
        /\ \/ Cardinality(T \cup {L}) = Cardinality(T)
           \/ Cardinality(T \cup {L}) = Cardinality(T) + 1
    BY <2>2, FS_AddElement
  <2>4. Cardinality(T \cup {L}) <= Cardinality(T) + 1
    BY <2>2, <2>3
  <2> QED
    BY <2>1, <2>3, <2>4
<1>6. Cardinality(Late(n, b)) <= Cardinality(Late(s, b)) + 1
  <2>1. Cardinality(Late(n, b)) <= Cardinality(Late(s, b) \cup {L})
    BY <1>2, <1>5, FS_Subset
  <2>2. Cardinality(Late(s, b) \cup {L}) \in Nat
    BY <1>5, FS_CardinalityType
  <2> QED
    BY <1>4, <1>5, <2>1, <2>2
<1>7. ASSUME \E u \in Uptimes : Took(x, b, u) \in 0..MaxDelay
      PROVE  Cardinality(Late(n, b)) <= Cardinality(Late(s, b))
  <2>1. Late(n, b) \subseteq Late(s, b)
    BY <1>2, <1>3, <1>7
  <2> QED
    BY <1>4, <2>1, FS_Subset
<1> QED
  BY <1>6, <1>7

LEMMA LateTail ==
    ASSUME NEW s \in Seq(Int), s # <<>>, NEW b
    PROVE  Cardinality(Late(Tail(s), b)) <= Cardinality(Late(s, b))
<1>1. /\ Tail(s) \in Seq(Int) /\ Len(s) \in Nat /\ Len(Tail(s)) = Len(s) - 1
      /\ \A i \in 1..(Len(s) - 1) : Tail(s)[i] = s[i + 1]
  OBVIOUS
<1> DEFINE f == [i \in Late(Tail(s), b) |-> i + 1]
<1>2. \A i \in Late(Tail(s), b) : i \in 1..(Len(s) - 1) /\ i + 1 \in Late(s, b)
  BY <1>1 DEF Late
<1>3. f \in Injection(Late(Tail(s), b), Late(s, b))
  BY <1>2 DEF Injection, IsInjective
<1> QED
  BY <1>1, <1>3, LateFinite, FS_Injection

(* What a node may hold when it goes by beacons of time t at the latest.      *)
Holds(s, t) ==
    /\ s \in Seq(Int)
    /\ \A i \in 1..Len(s) : \E u \in Uptimes : u <= t /\ Took(s[i], boot, u) \in 0..now
    /\ Cardinality(Late(s, boot)) <= strays

LEMMA HoldsAfter ==
    ASSUME MachinesKnown, NEW s, NEW t \in Nat, Holds(s, t), NEW x \in Int,
           NEW u \in Uptimes, u <= t, Took(x, boot, u) \in 0..now,
           NEW more \in Nat, Took(x, boot, u) > MaxDelay => more >= strays + 1, more >= strays
    PROVE  /\ Appended(s, x) \in Seq(Int) /\ Appended(s, x) # <<>>
           /\ Appended(s, x)[Len(Appended(s, x))] = x
           /\ \A i \in 1..Len(Appended(s, x)) :
                 \E v \in Uptimes : v <= t /\ Took(Appended(s, x)[i], boot, v) \in 0..now
           /\ Cardinality(Late(Appended(s, x), boot)) <= more
<1> USE ConfigAssumption
<1>1. boot \in Int /\ strays \in Nat /\ s \in Seq(Int) /\ Len(s) \in Nat /\ Uptimes \subseteq Nat
      /\ now \in Nat
  BY DEF MachinesKnown, Holds
<1> DEFINE c == IF Len(s) < Window THEN s ELSE Tail(s)
<1>2. Appended(s, x) = Append(c, x)
  BY DEF Appended
<1>3. /\ c \in Seq(Int) /\ Cardinality(Late(c, boot)) <= strays
      /\ \A i \in 1..Len(c) : \E v \in Uptimes : v <= t /\ Took(c[i], boot, v) \in 0..now
  <2>1. CASE Len(s) < Window
    BY <2>1 DEF Holds
  <2>2. CASE ~ (Len(s) < Window)
    <3>1. s # <<>> /\ c = Tail(s) /\ Len(s) >= 1
      BY <1>1, <2>2
    <3>2. /\ c \in Seq(Int) /\ Len(c) = Len(s) - 1
          /\ \A i \in 1..(Len(s) - 1) : c[i] = s[i + 1] /\ i + 1 \in 1..Len(s)
      BY <1>1, <3>1
    <3>3. Cardinality(Late(c, boot)) <= Cardinality(Late(s, boot))
      BY <1>1, <3>1, LateTail
    <3>4. Cardinality(Late(s, boot)) \in Nat /\ Cardinality(Late(c, boot)) \in Nat
      BY <1>1, <3>2, LateFinite
    <3>5. Cardinality(Late(c, boot)) <= strays
      BY <1>1, <3>3, <3>4 DEF Holds
    <3>6. \A i \in 1..Len(c) : \E v \in Uptimes : v <= t /\ Took(c[i], boot, v) \in 0..now
      BY <3>2 DEF Holds
    <3> QED
      BY <3>2, <3>5, <3>6
  <2> QED
    BY <2>1, <2>2
<1> HIDE DEF c
<1> DEFINE n == Append(c, x)
<1>4. /\ n \in Seq(Int) /\ n # <<>> /\ Len(n) = Len(c) + 1 /\ Len(c) \in Nat
      /\ n[Len(n)] = x
      /\ \A i \in 1..Len(n) : i # Len(n) => i \in 1..Len(c) /\ n[i] = c[i]
  <2>1. \A q \in Seq(Int) :
           /\ Append(q, x) \in Seq(Int) /\ Len(Append(q, x)) = Len(q) + 1 /\ Len(q) \in Nat
           /\ Append(q, x)[Len(q) + 1] = x
           /\ \A i \in 1..(Len(q) + 1) : i # Len(q) + 1 => i \in 1..Len(q) /\ Append(q, x)[i] = q[i]
    OBVIOUS
  <2>2. n \in Seq(Int) /\ Len(n) = Len(c) + 1 /\ Len(c) \in Nat /\ n[Len(n)] = x
    BY <1>3, <2>1
  <2>3. n # <<>>
    BY <2>2
  <2> QED
    BY <1>3, <2>1, <2>2, <2>3
<1>5. \A i \in 1..Len(n) : \E v \in Uptimes : v <= t /\ Took(n[i], boot, v) \in 0..now
  BY <1>3, <1>4
<1>6. Cardinality(Late(n, boot)) <= more
  <2>1. Cardinality(Late(c, boot)) \in Nat /\ Cardinality(Late(n, boot)) \in Nat
    BY <1>3, <1>4, LateFinite
  <2>2. CASE Took(x, boot, u) > MaxDelay
    <3>1. Cardinality(Late(n, boot)) <= Cardinality(Late(c, boot)) + 1
      BY <1>1, <1>3, LateAppended
    <3> QED
      BY <1>1, <1>3, <2>1, <2>2, <3>1
  <2>3. CASE Took(x, boot, u) <= MaxDelay
    <3>1. Took(x, boot, u) \in 0..MaxDelay
      BY <1>1, <2>3
    <3>2. Cardinality(Late(n, boot)) <= Cardinality(Late(c, boot))
      BY <1>1, <1>3, <3>1, LateAppended
    <3> QED
      BY <1>1, <1>3, <2>1, <3>2
  <2>4. Took(x, boot, u) \in Int /\ MaxDelay \in Nat
    BY <1>1
  <2> QED
    BY <2>2, <2>3, <2>4
<1> QED
  BY <1>2, <1>4, <1>5, <1>6

LEMMA ObserveKeeps ==
    ASSUME ClockInv, NEW b \in air, Observe(b.host), UNCHANGED <<now, boot>>,
           strays' \in 0..MaxStrays,
           strays' = IF now - b.at <= MaxDelay THEN strays ELSE strays + 1
    PROVE  SamplesKnown' /\ LatestKnown' /\ FewLate'
<1> USE ConfigAssumption
<1>1. /\ now \in Nat /\ boot \in 0..now /\ strays \in Nat /\ Uptimes \subseteq Nat
      /\ b.at \in 0..now
  BY DEF ClockInv, MachinesKnown, BeaconsKnown
<1>2. PICK u \in Uptimes : b.host = u + b.at
  BY DEF ClockInv, BeaconsKnown
<1>3. u \in Nat /\ b.host \in Nat /\ u <= b.host
  BY <1>1, <1>2
<1>4. CASE UNCHANGED clock
  <2>1. Cardinality(Late(clock.samples, boot)) \in Nat
    BY <1>1, LateFinite DEF ClockInv, SamplesKnown
  <2>2. strays <= strays'
    BY <1>1
  <2>3. FewLate'
    BY <1>1, <1>4, <2>1, <2>2 DEF ClockInv, FewLate
  <2> QED
    BY <1>4, <2>3 DEF ClockInv, SamplesKnown, LatestKnown
<1>5. CASE Acceptable(b.host) /\ clock' # clock
  <2> DEFINE old == IF clock.samples # <<>> /\ Expired THEN <<>> ELSE clock.samples
             x == LocalTime - b.host
  <2>1. clock' = [samples |-> Appended(old, x), local |-> LocalTime, host |-> b.host]
    BY <1>5 DEF Observe
  <2>2. x \in Int /\ Took(x, boot, u) = now - b.at
    BY <1>1, <1>2, <1>3 DEF LocalTime, Took
  <2>3. Holds(old, b.host)
    <3>1. CASE old = <<>>
      <4>1. Late(old, boot) = {}
        BY <3>1 DEF Late
      <4>2. Cardinality(Late(old, boot)) = 0
        BY <4>1, FS_EmptySet
      <4> HIDE DEF old
      <4>3. old \in Seq(Int) /\ Len(old) = 0
        BY <3>1
      <4> QED
        BY <1>1, <4>2, <4>3 DEF Holds
    <3>2. CASE old # <<>>
      <4>1. old = clock.samples /\ ~Expired /\ clock.samples # <<>>
        BY <3>2
      <4>2. b.host > clock.host
        BY <1>5, <4>1 DEF Acceptable
      <4>3. \A i \in 1..Len(old) :
              \E v \in Uptimes : v <= clock.host /\ Took(old[i], boot, v) \in 0..now
        BY <4>1 DEF ClockInv, SamplesKnown
      <4>4. \A v \in Uptimes : v <= clock.host => v <= b.host
        BY <1>1, <1>3, <4>2 DEF ClockInv, SamplesKnown
      <4>5. \A i \in 1..Len(old) :
              \E v \in Uptimes : v <= b.host /\ Took(old[i], boot, v) \in 0..now
        BY <4>3, <4>4
      <4> QED
        BY <4>1, <4>5 DEF Holds, ClockInv, SamplesKnown, FewLate
    <3> QED
      BY <3>1, <3>2
  <2>4. /\ Took(x, boot, u) \in 0..now /\ strays' \in Nat /\ strays' >= strays
        /\ Took(x, boot, u) > MaxDelay => strays' >= strays + 1
    BY <1>1, <2>2
  <2> HIDE DEF old, x
  <2>5. /\ Appended(old, x) \in Seq(Int) /\ Appended(old, x) # <<>>
        /\ Appended(old, x)[Len(Appended(old, x))] = x
        /\ \A i \in 1..Len(Appended(old, x)) :
              \E v \in Uptimes : v <= b.host /\ Took(Appended(old, x)[i], boot, v) \in 0..now
        /\ Cardinality(Late(Appended(old, x), boot)) <= strays'
    BY <1>3, <2>2, <2>3, <2>4, HoldsAfter DEF ClockInv
  <2>6. clock'.samples = Appended(old, x) /\ clock'.host = b.host
    BY <2>1
  <2>7. SamplesKnown'
    BY <1>3, <2>5, <2>6 DEF SamplesKnown
  <2>8. LatestKnown'
    <3>1. clock'.host - u \in 0..now
      BY <1>1, <1>2, <1>3, <2>6
    <3> QED
      BY <2>4, <2>5, <2>6, <3>1 DEF LatestKnown
  <2>9. FewLate'
    BY <2>5, <2>6 DEF FewLate
  <2> QED
    BY <2>7, <2>8, <2>9
<1> QED
  BY <1>4, <1>5 DEF Observe

-----------------------------------------------------------------------------
(* The invariant                                                             *)

LEMMA InitClock == Init => ClockInv
<1> SUFFICES ASSUME Init PROVE ClockInv
  OBVIOUS
<1> USE ConfigAssumption
<1>1. MachinesKnown /\ BeaconsKnown
  BY DEF Init, MachinesKnown, BeaconsKnown, Started, None
<1>2. clock.samples = <<>> /\ clock.host = 0
  BY DEF Init, NewClock
<1>3. SamplesKnown /\ LatestKnown
  BY <1>2 DEF SamplesKnown, LatestKnown
<1>4. FewLate
  <2>1. Late(clock.samples, boot) = {}
    BY <1>2 DEF Late
  <2>2. Cardinality(Late(clock.samples, boot)) = 0
    BY <2>1, FS_EmptySet
  <2> QED
    BY <2>2 DEF FewLate, Init
<1> QED
  BY <1>1, <1>3, <1>4 DEF ClockInv

LEMMA NextKeepsClock == ClockInv /\ [Next]_vars => ClockInv'
<1> SUFFICES ASSUME ClockInv, [Next]_vars PROVE ClockInv'
  OBVIOUS
<1> USE ConfigAssumption
<1>1. CASE SendBeacon
  <2>1. now \in 0..MaxTime /\ host.uptime \in Uptimes
    BY DEF ClockInv, MachinesKnown
  <2>2. /\ host' = [host EXCEPT !.beacon = HostTime(host.uptime, now),
                                !.startup = IF @ > 0 THEN @ - 1 ELSE 0]
        /\ air' = air \cup {[host |-> HostTime(host.uptime, now), at |-> now]}
        /\ UNCHANGED <<now, boot, clock, strays, lives>>
    BY <1>1 DEF SendBeacon
  <2>3. host'.uptime \in Uptimes
    BY <2>1, <2>2
  <2>4. MachinesKnown'
    BY <2>2, <2>3 DEF ClockInv, MachinesKnown
  <2>5. BeaconsKnown'
    BY <2>1, <2>2 DEF ClockInv, BeaconsKnown, HostTime
  <2> QED
    BY <2>2, <2>4, <2>5 DEF ClockInv, SamplesKnown, LatestKnown, FewLate
<1>2. CASE Reopen
  <2>1. /\ host' = Started(host.uptime)
        /\ UNCHANGED <<now, air, boot, clock, strays, lives>>
    BY <1>2 DEF Reopen
  <2>2. host'.uptime = host.uptime
    BY <2>1 DEF Started
  <2> QED
    BY <2>1, <2>2 DEF ClockInv, MachinesKnown, BeaconsKnown, SamplesKnown, LatestKnown, FewLate
<1>3. CASE ChangeHost
  <2>1. PICK u \in Uptimes :
          /\ host' = Started(u)
          /\ lives' = {IF l.to = None THEN [l EXCEPT !.to = now] ELSE l : l \in lives}
                         \cup {[uptime |-> u, from |-> now, to |-> None]}
    BY <1>3 DEF ChangeHost
  <2>2. UNCHANGED <<now, air, boot, clock, strays>>
    BY <1>3 DEF ChangeHost
  <2>3. now \in 0..MaxTime /\ \A l \in lives :
          l.uptime \in Uptimes /\ l.from \in 0..now /\ l.to \in {None} \cup 0..now
    BY DEF ClockInv, MachinesKnown
  <2>4. ASSUME NEW l \in lives'
        PROVE  l.uptime \in Uptimes /\ l.from \in 0..now /\ l.to \in {None} \cup 0..now
    <3>1. CASE l = [uptime |-> u, from |-> now, to |-> None]
      BY <2>3, <3>1
    <3>2. ASSUME NEW k \in lives, l = IF k.to = None THEN [k EXCEPT !.to = now] ELSE k
          PROVE  l.uptime \in Uptimes /\ l.from \in 0..now /\ l.to \in {None} \cup 0..now
      <4>1. l.uptime = k.uptime /\ l.from = k.from /\ (l.to = k.to \/ l.to = now)
        BY <3>2
      <4> QED
        BY <2>3, <3>2, <4>1
    <3> QED
      BY <2>1, <3>1, <3>2
  <2>5. host'.uptime \in Uptimes
    BY <2>1 DEF Started
  <2>6. MachinesKnown'
    BY <2>2, <2>4, <2>5 DEF ClockInv, MachinesKnown
  <2> QED
    BY <2>2, <2>6 DEF ClockInv, BeaconsKnown, SamplesKnown, LatestKnown, FewLate
<1>4. CASE RestartNode
  <2>1. /\ boot' = now /\ clock'.samples = <<>> /\ clock'.host = 0
        /\ UNCHANGED <<now, host, air, strays, lives>>
    BY <1>4 DEF RestartNode, NewClock
  <2>2. MachinesKnown' /\ BeaconsKnown'
    BY <2>1 DEF ClockInv, MachinesKnown, BeaconsKnown
  <2>3. SamplesKnown' /\ LatestKnown'
    BY <2>1 DEF SamplesKnown, LatestKnown
  <2>4. FewLate'
    <3>1. Late(clock'.samples, boot') = {}
      BY <2>1 DEF Late
    <3>2. Cardinality(Late(clock'.samples, boot')) = 0
      BY <3>1, FS_EmptySet
    <3>3. strays' >= 0
      BY <2>1 DEF ClockInv, MachinesKnown
    <3> QED
      BY <3>2, <3>3 DEF FewLate
  <2> QED
    BY <2>2, <2>3, <2>4 DEF ClockInv
<1>5. CASE ReceiveBeacon
  <2>1. PICK b \in air :
          /\ Observe(b.host)
          /\ UNCHANGED <<now, host, air, boot, lives>>
          /\ IF now - b.at <= MaxDelay THEN UNCHANGED strays
             ELSE strays < MaxStrays /\ strays' = strays + 1
    BY <1>5 DEF ReceiveBeacon
  <2>2. strays \in 0..MaxStrays
    BY DEF ClockInv, MachinesKnown
  <2>3. /\ strays' \in 0..MaxStrays
        /\ strays' = IF now - b.at <= MaxDelay THEN strays ELSE strays + 1
    BY <2>1, <2>2
  <2>4. SamplesKnown' /\ LatestKnown' /\ FewLate'
    BY <2>1, <2>3, ObserveKeeps
  <2>5. MachinesKnown' /\ BeaconsKnown'
    BY <2>1, <2>3 DEF ClockInv, MachinesKnown, BeaconsKnown
  <2> QED
    BY <2>4, <2>5 DEF ClockInv
<1>6. CASE Tick
  <2>1. /\ now < MaxTime /\ now' = now + 1
        /\ UNCHANGED <<host, air, boot, clock, strays, lives>>
    BY <1>6 DEF Tick
  <2>2. now \in 0..MaxTime /\ 0..now \subseteq 0..now'
    BY <2>1 DEF ClockInv, MachinesKnown
  <2>3. MachinesKnown'
    BY <2>1, <2>2 DEF ClockInv, MachinesKnown
  <2>4. BeaconsKnown'
    BY <2>1, <2>2 DEF ClockInv, BeaconsKnown
  <2>5. SamplesKnown'
    BY <2>1, <2>2 DEF ClockInv, SamplesKnown
  <2>6. LatestKnown'
    BY <2>1, <2>2 DEF ClockInv, LatestKnown
  <2>7. FewLate'
    BY <2>1 DEF ClockInv, FewLate
  <2> QED
    BY <2>3, <2>4, <2>5, <2>6, <2>7 DEF ClockInv
<1>7. CASE UNCHANGED vars
  BY <1>7 DEF vars, ClockInv, MachinesKnown, BeaconsKnown, SamplesKnown, LatestKnown, FewLate
<1> QED
  BY <1>1, <1>2, <1>3, <1>4, <1>5, <1>6, <1>7 DEF Next

-----------------------------------------------------------------------------
(* The estimate                                                              *)

LEMMA Apart ==
    ASSUME NEW u \in Uptimes, NEW v \in Uptimes,
           v - u <= MaxTime + Lead + LateTolerance + MaxFuture + MaxUncertainty + RecoveryWindow,
           u - v <= MaxTime + Lead + LateTolerance + MaxFuture + MaxUncertainty + RecoveryWindow
    PROVE  u = v
  BY ConfigAssumption, UptimesAssumption

(* The smallest sample is of a beacon that was not late, and a quorum is     *)
(* what tells it: among as many samples one is of a beacon in time, and it   *)
(* is near enough the smallest to be of the same host.                       *)
LEMMA EstimateInTime ==
    ASSUME ClockInv, Ready
    PROVE  /\ Offset \in Int
           /\ \A j \in 1..Len(clock.samples) : Offset <= clock.samples[j]
           /\ \E u \in Uptimes : u <= clock.host /\ Took(Offset, boot, u) \in 0..MaxDelay
<1> USE ConfigAssumption, DelayAssumption
<1>1. PICK s \in Seq(Int) : s = clock.samples
  BY DEF ClockInv, SamplesKnown
<1>2. /\ DOMAIN s = 1..Len(s) /\ Len(s) \in Nat /\ MinSamples \in 1..Len(s) /\ 1 \in 1..Len(s)
      /\ \A i \in DOMAIN s : s[i] \in Int
  BY <1>1 DEF Ready, Enough
<1> DEFINE o == Ranked(s, 1)
           q == Ranked(s, MinSamples)
<1>3. /\ Offset = o /\ q - o <= MaxUncertainty
  <2>1. Quorum(s) = MinSamples
    <3>1. ~ (Len(s) < MinSamples)
      BY <1>2
    <3> QED
      BY <3>1 DEF Quorum
  <2> QED
    BY <1>1, <2>1 DEF Ready, Uncertainty, Offset
<1>4. PICK i \in DOMAIN s : o = s[i]
  BY <1>2, RankedIsThere
<1>5. o \in Int /\ q \in Int
  <2>1. \E j \in DOMAIN s : q = s[j]
    BY <1>2, RankedIsThere
  <2> QED
    BY <1>2, <1>4, <2>1
<1>15. \A x \in Int : /\ IsFiniteSet(Below(s, x)) /\ Cardinality(Below(s, x)) \in Nat
                      /\ Cardinality(UpTo(s, x)) \in Nat
  <2> TAKE x \in Int
  <2>1. /\ IsFiniteSet(Below(s, x)) /\ Cardinality(Below(s, x)) \in 0..Len(s)
        /\ Cardinality(UpTo(s, x)) \in 0..Len(s)
    BY CountsFinite
  <2> QED
    BY <1>2, <2>1
<1>6. \A j \in DOMAIN s : o <= s[j]
  <2>1. Cardinality(Below(s, o)) < 1
    BY <1>2, RankedIsThere
  <2> HIDE DEF o
  <2>2. IsFiniteSet(Below(s, o)) /\ Cardinality(Below(s, o)) \in Nat
    BY <1>5, <1>15
  <2>3. Below(s, o) = {}
    BY <2>1, <2>2, FS_EmptySet
  <2> QED
    BY <1>2, <1>5, <2>3 DEF Below
<1>7. PICK j \in DOMAIN s : s[j] <= q /\ j \notin Late(s, boot)
  <2>1. Cardinality(UpTo(s, q)) >= MinSamples
    BY <1>2, RankedIsThere
  <2>2. IsFiniteSet(Late(s, boot)) /\ Cardinality(Late(s, boot)) \in Nat
    BY LateFinite
  <2>3. Cardinality(Late(s, boot)) <= strays /\ strays \in 0..MaxStrays
    BY <1>1 DEF ClockInv, FewLate, MachinesKnown
  <2> HIDE DEF q
  <2>4. Cardinality(UpTo(s, q)) \in Nat
    BY <1>5, <1>15
  <2>5. ~ (Cardinality(UpTo(s, q)) <= Cardinality(Late(s, boot)))
    BY <2>1, <2>2, <2>3, <2>4
  <2>6. ~ (UpTo(s, q) \subseteq Late(s, boot))
    BY <2>2, <2>5, FS_Subset
  <2> QED
    BY <2>6 DEF UpTo
<1> HIDE DEF o, q
<1>8. PICK v \in Uptimes : Took(s[j], boot, v) \in 0..MaxDelay
  BY <1>2, <1>7 DEF Late
<1>9. PICK u \in Uptimes : u <= clock.host /\ Took(o, boot, u) \in 0..now
  BY <1>1, <1>2, <1>4 DEF ClockInv, SamplesKnown
<1>10. /\ now \in 0..MaxTime /\ boot \in Int /\ u \in Nat /\ v \in Nat
       /\ s[j] \in Int /\ o <= s[j] /\ s[j] - o <= MaxUncertainty
  BY <1>2, <1>3, <1>5, <1>6, <1>7 DEF ClockInv, MachinesKnown
<1>11. u = v
  <2>1. v - u <= MaxDelay
    BY <1>5, <1>8, <1>9, <1>10 DEF Took
  <2>2. u - v <= MaxUncertainty + MaxTime
    BY <1>5, <1>8, <1>9, <1>10 DEF Took
  <2> QED
    BY <1>10, <2>1, <2>2, Apart
<1>12. Took(o, boot, u) \in 0..MaxDelay
  <2>1. Took(o, boot, u) <= Took(s[j], boot, u)
    BY <1>5, <1>10 DEF Took
  <2>2. Took(o, boot, u) \in Int /\ Took(s[j], boot, u) \in Int
    BY <1>5, <1>10 DEF Took
  <2> QED
    BY <1>8, <1>9, <1>11, <2>1, <2>2
<1>13. \A h \in 1..Len(clock.samples) : Offset <= clock.samples[h]
  BY <1>1, <1>2, <1>3, <1>6
<1>14. Took(Offset, boot, u) \in 0..MaxDelay /\ u <= clock.host /\ Offset \in Int
  BY <1>3, <1>5, <1>9, <1>12
<1> QED
  BY <1>13, <1>14

(* What is known of a frame that has been sent. *)
LEMMA FramesKnown ==
    ASSUME ClockInv, NEW f \in Sent
    PROVE  \E v \in Uptimes, t \in 0..now :
              f.apply = v + t + Lead /\ f.due = t + Lead
<1>0. PICK l \in lives :
         \E t \in l.from..(IF l.to = None THEN now ELSE l.to) :
            f = [apply |-> HostTime(l.uptime, t) + Lead, due |-> t + Lead]
  BY DEF Sent
<1>1. PICK t \in l.from..(IF l.to = None THEN now ELSE l.to) :
         f = [apply |-> HostTime(l.uptime, t) + Lead, due |-> t + Lead]
  BY <1>0
<1>2. l.uptime \in Uptimes /\ l.from \in 0..now /\ l.to \in {None} \cup 0..now /\ now \in Nat
  BY DEF ClockInv, MachinesKnown
<1>3. t \in 0..now
  BY <1>1, <1>2
<1>4. f.apply = l.uptime + t + Lead /\ f.due = t + Lead
  BY <1>1 DEF HostTime
<1> QED
  BY <1>2, <1>3, <1>4

LEMMA InvGivesOnTime == ClockInv => OnTime
<1> SUFFICES ASSUME ClockInv, NEW f \in Sent, DeadlineOk(f.apply)
             PROVE  LocalDeadline(f.apply) - (f.due - boot) \in 0..MaxDelay
  BY DEF OnTime
<1> USE ConfigAssumption
<1>1. PICK v \in Uptimes, t \in 0..now : f.apply = v + t + Lead /\ f.due = t + Lead
  BY FramesKnown
<1>2. Offset \in Int /\ \E u \in Uptimes : Took(Offset, boot, u) \in 0..MaxDelay
  BY EstimateInTime DEF DeadlineOk
<1>3. PICK u \in Uptimes : Took(Offset, boot, u) \in 0..MaxDelay
  BY <1>2
<1>4. now \in 0..MaxTime /\ boot \in 0..now /\ u \in Nat /\ v \in Nat
  BY DEF ClockInv, MachinesKnown
<1> DEFINE d == Took(Offset, boot, u)
<1>5. /\ LocalDeadline(f.apply) = t + Lead - boot + (v - u) + d
      /\ d \in 0..MaxDelay
  BY <1>1, <1>2, <1>3, <1>4 DEF LocalDeadline, Took
<1>6. /\ (now - boot) - LocalDeadline(f.apply) <= LateTolerance
      /\ LocalDeadline(f.apply) - (now - boot) <= MaxFuture
  BY DEF DeadlineOk, LocalTime
<1> HIDE DEF d
<1>7. u = v
  <2>1. v - u <= MaxFuture + MaxTime
    BY <1>1, <1>4, <1>5, <1>6
  <2>2. u - v <= LateTolerance + Lead + MaxDelay
    BY <1>1, <1>4, <1>5, <1>6
  <2>3. MaxDelay <= MaxUncertainty
    BY DelayAssumption
  <2> QED
    BY <1>4, <2>1, <2>2, <2>3, Apart
<1> QED
  BY <1>1, <1>4, <1>5, <1>7

LEMMA InvGivesKeyTaken == ClockInv => KeyTaken
<1> SUFFICES ASSUME ClockInv, Fresh, clock.host - host.uptime \in 0..MaxTime,
                    NEW f \in Sent, f.apply = HostTime(host.uptime, f.due), now <= f.due,
                    Ready \/ f.apply - clock.host <= RecoveryWindow
             PROVE  DeadlineOk(f.apply) \/ Recoverable(f.apply)
  BY DEF KeyTaken
<1> USE ConfigAssumption
<1> DEFINE h == host.uptime
<1>1. PICK t \in 0..now : f.due = t + Lead
  BY FramesKnown
<1>2. /\ now \in 0..MaxTime /\ boot \in 0..now /\ h \in Uptimes /\ h \in Nat /\ h > 0
      /\ clock.host \in Nat /\ clock.host - h \in 0..MaxTime
  <2>1. now \in 0..MaxTime /\ boot \in 0..now /\ h \in Uptimes /\ clock.host \in Nat
    BY DEF ClockInv, MachinesKnown, SamplesKnown
  <2>2. clock.host - h \in 0..MaxTime
    OBVIOUS
  <2> HIDE DEF h
  <2>3. h \in Nat /\ h > 0
    BY <2>1
  <2> QED
    BY <2>1, <2>2, <2>3
<1>3. f.apply = h + f.due /\ f.apply \in Nat /\ f.apply # 0
  BY <1>1, <1>2 DEF HostTime
<1>4. PICK w \in Uptimes : /\ clock.host - w \in 0..now
                           /\ Took(clock.samples[Len(clock.samples)], boot, w) \in 0..now
  BY DEF ClockInv, LatestKnown, Fresh
<1> HIDE DEF h
<1>5. w = h
  <2>1. w \in Nat /\ w - h <= MaxTime /\ h - w <= MaxTime
    BY <1>2, <1>4
  <2> QED
    BY <1>2, <2>1, Apart
<1>6. CASE Ready
  <2>1. /\ Offset \in Int
        /\ \A j \in 1..Len(clock.samples) : Offset <= clock.samples[j]
        /\ \E u \in Uptimes : u <= clock.host /\ Took(Offset, boot, u) \in 0..MaxDelay
    BY <1>6, EstimateInTime
  <2>2. PICK u \in Uptimes : u <= clock.host /\ Took(Offset, boot, u) \in 0..MaxDelay
    BY <2>1
  <2>3. PICK x \in Int : x = clock.samples[Len(clock.samples)] /\ Offset <= x
    <3>1. PICK s \in Seq(Int) : s = clock.samples /\ s # <<>>
      BY DEF ClockInv, SamplesKnown, Fresh
    <3>2. Len(s) \in 1..Len(s) /\ s[Len(s)] \in Int
      BY <3>1
    <3> QED
      BY <2>1, <3>1, <3>2
  <2>4. u = h
    <3>1. u \in Nat /\ u - h <= MaxTime
      BY <1>2, <2>2
    <3>2. Took(x, boot, h) \in 0..now
      BY <1>4, <1>5, <2>3
    <3>3. x + boot + h <= now /\ Offset + boot + u >= 0
      BY <1>2, <2>1, <2>2, <3>1, <3>2 DEF Took
    <3>4. h - u <= MaxTime
      <4>1. now \in Int /\ now <= MaxTime /\ boot \in Int /\ h \in Int /\ u \in Int
            /\ Offset \in Int
        BY <1>2, <2>1, <3>1
      <4>2. Offset <= x
        BY <2>3
      <4> QED
        BY ONLY <3>3, <4>1, <4>2, x \in Int, MaxTime \in Nat
    <3> QED
      BY <1>2, <3>1, <3>4, Apart
  <2> DEFINE d == Took(Offset, boot, h)
  <2>5. LocalDeadline(f.apply) = f.due - boot + d /\ d \in 0..MaxDelay /\ f.due \in Nat
    <3>1. d \in 0..MaxDelay
      BY <2>2, <2>4
    <3>2. f.due \in Nat /\ boot \in Int /\ h \in Int /\ Offset \in Int
      BY <1>1, <1>2, <2>1
    <3>3. d = Offset + boot + h /\ LocalDeadline(f.apply) = h + f.due + Offset
      BY <1>3 DEF LocalDeadline, Took
    <3> HIDE DEF d
    <3> QED
      BY <3>1, <3>2, <3>3
  <2> HIDE DEF d
  <2>6. /\ LocalDeadline(f.apply) >= 0
        /\ (now - boot) - LocalDeadline(f.apply) <= LateTolerance
        /\ LocalDeadline(f.apply) - (now - boot) <= MaxFuture
    BY <1>1, <1>2, <2>5, DelayAssumption
  <2> QED
    BY <1>3, <1>6, <2>6 DEF DeadlineOk, LocalTime
<1>7. CASE ~Ready
  <2>1. clock.host # 0 /\ f.apply >= clock.host
    BY <1>1, <1>2, <1>3, <1>4, <1>5
  <2>2. f.apply - clock.host <= RecoveryWindow
    BY <1>7
  <2> QED
    BY <1>3, <1>7, <2>1, <2>2 DEF Recoverable, Acquiring
<1> QED
  BY <1>6, <1>7

(* A frame that passes evaluateDeadline is shown when it is due, or later by *)
(* no more than a timely beacon takes.                                       *)
THEOREM ClockOnTime == Spec => []OnTime
  BY InitClock, NextKeepsClock, InvGivesOnTime, PTL DEF Spec

(* A KEY that comes by its time, after a fresh beacon of its host, passes or *)
(* opens the session by recovery.                                            *)
THEOREM ClockTakesKey == Spec => []KeyTaken
  BY InitClock, NextKeepsClock, InvGivesKeyTaken, PTL DEF Spec

-----------------------------------------------------------------------------
(* The clock recovers                                                        *)

(* A beacon of the host that is sent after this time meets no estimate of    *)
(* another host that has not expired.                                        *)
Forgotten == steady + MaxDelay + MaxAge
LastSent == host.beacon - host.uptime

(* The host sends in time, and what is awaited may still come in time. *)
Pacing ==
    /\ steady \in 0..now /\ boot <= steady
    /\ clock.local \in Int /\ boot + clock.local <= now
    /\ clock.samples # <<>> => \E u \in Uptimes : clock.host - u \in 0..(boot + clock.local)
    /\ host \in [uptime : Uptimes, beacon : Int, startup : Nat]
    /\ host.beacon = None => host.startup > 0 /\ steady = now
    /\ host.beacon # None =>
          LastSent \in 0..now /\ now - LastSent <= IF host.startup > 0 THEN Spacing ELSE Interval
    /\ awaited \subseteq air /\ \A b \in awaited : now - b.at <= MaxDelay

OwnBeacons ==
    \A b \in air : b.at > steady =>
        b.host = host.uptime + b.at /\ host.beacon # None /\ b.at <= LastSent

(* After any time since then the next beacon follows in time, and when it is *)
(* not one of a startup none comes near it.                                  *)
Follows(t) ==
    \E b \in air :
        /\ t < b.at
        /\ \/ b.at <= t + Spacing
           \/ /\ b.at <= t + Interval /\ host.startup = 0
              /\ \A a \in air : a.at <= b.at \/ a.at >= b.at + Interval
Paced == host.beacon # None => \A t \in steady..now : t < LastSent => Follows(t)

(* The clock went last by a beacon of the host, or has heard of another only *)
(* what was in the air.                                                      *)
Latest == clock.host - host.uptime
Own == clock.samples # <<>> /\ Latest \in 0..(boot + clock.local)
Heard == clock.samples # <<>> => Own \/ boot + clock.local <= steady + MaxDelay
Tuned == Own /\ Latest > Forgotten
Answered == \A b \in air : b.at > Forgotten /\ b \notin awaited => Own /\ b.at <= Latest

(* The last k samples are of beacons of the host that came in time. *)
Lately(s, k) ==
    \A i \in 1..Len(s) : i > Len(s) - k => Took(s[i], boot, host.uptime) \in 0..MaxDelay
Counted ==
    Tuned => \E k \in 0..MinSamples :
                /\ k <= Len(clock.samples) /\ Lately(clock.samples, k)
                /\ k = MinSamples \/ Latest <= Forgotten + k * Interval

SteadyInv == Pacing /\ OwnBeacons /\ Paced /\ Heard /\ Answered /\ Counted

(* Where something was lost, late or restarted just now there is nothing to   *)
(* show.                                                                      *)
LEMMA SteadyAnew ==
    ASSUME Pacing, steady = now, now \in Nat, boot \in Nat, \A b \in air : b.at \in 0..now
    PROVE  SteadyInv
<1> USE ConfigAssumption
<1>1. OwnBeacons
  BY DEF OwnBeacons
<1>2. Paced
  <2> SUFFICES ASSUME host.beacon # None, NEW t \in steady..now, t < LastSent PROVE FALSE
    BY DEF Paced
  <2>1. LastSent \in 0..now
    BY DEF Pacing
  <2> QED
    BY <2>1
<1>3. Heard
  BY DEF Heard, Pacing
<1>4. Forgotten \in Nat /\ Forgotten >= now
  BY DEF Forgotten
<1>5. Answered
  BY <1>4 DEF Answered
<1>6. ~Tuned
  <2> SUFFICES ASSUME Latest \in 0..(boot + clock.local), Latest > Forgotten PROVE FALSE
    BY DEF Tuned, Own
  <2>1. clock.local \in Int /\ boot + clock.local <= now
    BY DEF Pacing
  <2>2. Latest \in Int /\ Latest <= boot + clock.local
    BY <2>1
  <2> HIDE DEF Latest
  <2>3. Latest <= now
    BY <2>1, <2>2
  <2>4. Forgotten \in Int /\ Latest > Forgotten
    BY <1>4
  <2> QED
    BY <1>4, <2>2, <2>3, <2>4
<1> QED
  BY <1>1, <1>2, <1>3, <1>5, <1>6 DEF SteadyInv, Counted

(* What is used of the other invariant. *)
LEMMA Basics ==
    ASSUME ClockInv
    PROVE  /\ now \in Nat /\ now <= MaxTime /\ boot \in Nat /\ boot <= now
           /\ host.uptime \in Uptimes /\ host.uptime \in Nat /\ host.uptime > 0
           /\ clock.host \in Nat /\ clock.samples \in Seq(Int)
           /\ \A b \in air : b.at \in 0..now /\ b.host \in Nat
<1> USE ConfigAssumption
<1>1. /\ now \in 0..MaxTime /\ boot \in 0..now /\ host.uptime \in Uptimes
      /\ clock.host \in Nat /\ clock.samples \in Seq(Int)
  BY DEF ClockInv, MachinesKnown, SamplesKnown
<1>2. ASSUME NEW b \in air PROVE b.at \in 0..now /\ b.host \in Nat
  <2>1. PICK u \in Uptimes : b.host = u + b.at
    BY DEF ClockInv, BeaconsKnown
  <2>2. b.at \in 0..now
    BY DEF ClockInv, BeaconsKnown
  <2> QED
    BY <1>1, <2>1, <2>2
<1>3. /\ now \in Nat /\ now <= MaxTime /\ boot \in Nat /\ boot <= now
  BY <1>1
<1>4. host.uptime \in Nat /\ host.uptime > 0
  <2>1. \A u \in Uptimes : u \in Nat /\ u > 0
    OBVIOUS
  <2> QED
    BY <1>1, <2>1
<1> QED
  BY <1>1, <1>2, <1>3, <1>4

(* The beacon after a time is not far: what overtakes it was sent meanwhile. *)
LEMMA NextBeacon ==
    ASSUME ClockInv, SteadyInv, NEW t \in steady..now, NEW b \in air, t < b.at,
           \A a \in air : a.at > t => a \in awaited
    PROVE  b.at <= t + Interval
<1> USE ConfigAssumption
<1>1. /\ now \in Nat /\ b.at \in 0..now /\ \A a \in air : a.at \in 0..now
      /\ steady \in 0..now /\ t \in Nat
  BY Basics DEF SteadyInv, Pacing
<1>2. host.beacon # None /\ b.at <= LastSent /\ LastSent \in 0..now
  BY <1>1 DEF SteadyInv, OwnBeacons, Pacing
<1>3. t < LastSent
  BY <1>1, <1>2
<1>4. PICK c \in air :
        /\ t < c.at
        /\ \/ c.at <= t + Spacing
           \/ c.at <= t + Interval /\ \A a \in air : a.at <= c.at \/ a.at >= c.at + Interval
  BY <1>2, <1>3 DEF SteadyInv, Paced, Follows
<1>5. now - c.at <= MaxDelay /\ c.at \in 0..now
  BY <1>1, <1>4 DEF SteadyInv, Pacing
<1>6. CASE c.at <= t + Spacing
  BY <1>1, <1>5, <1>6, PaceAssumption
<1>7. CASE c.at <= t + Interval /\ (b.at <= c.at \/ b.at >= c.at + Interval)
  BY <1>1, <1>5, <1>7, DelayAssumption
<1> QED
  BY <1>4, <1>6, <1>7

(* A clock that goes by a recent beacon of the host does not expire. *)
LEMMA TunedIsFresh ==
    ASSUME ClockInv, SteadyInv, Tuned
    PROVE  ~Expired /\ now <= Latest + Interval + MaxDelay /\ Latest \in steady..now
<1> USE ConfigAssumption
<1>1. /\ now \in Nat /\ boot \in Nat /\ steady \in 0..now /\ clock.local \in Int
      /\ boot + clock.local <= now /\ \A a \in air : a.at \in 0..now
  BY Basics DEF SteadyInv, Pacing
<1>2. Latest \in 0..(boot + clock.local) /\ Latest > Forgotten /\ Latest \in Int
  BY DEF Tuned, Own
<1> HIDE DEF Latest
<1>3. Latest \in steady..now
  BY <1>1, <1>2 DEF Forgotten
<1>4. now <= Latest + Interval + MaxDelay
  <2>1. host.beacon # None
    BY <1>1, <1>2 DEF SteadyInv, Pacing, Forgotten
  <2>2. LastSent \in 0..now /\ now - LastSent <= Interval
    BY <1>1, <2>1, PaceAssumption DEF SteadyInv, Pacing
  <2>3. CASE LastSent <= Latest
    BY <1>1, <1>3, <2>2, <2>3
  <2>4. CASE Latest < LastSent
    <3>1. PICK b \in air : Latest < b.at /\ (b.at <= Latest + Spacing \/ b.at <= Latest + Interval)
      BY <1>3, <2>1, <2>4 DEF SteadyInv, Paced, Follows
    <3>2. b.at \in 0..now /\ b.at > Forgotten /\ b.at <= Latest + Interval
      BY <1>1, <1>2, <1>3, <3>1, PaceAssumption DEF Forgotten
    <3>3. b \in awaited
      BY <1>2, <1>3, <3>1, <3>2 DEF SteadyInv, Answered
    <3>4. now - b.at <= MaxDelay
      BY <3>3 DEF SteadyInv, Pacing
    <3> QED
      BY <1>1, <1>3, <3>2, <3>4
  <2> QED
    BY <1>3, <2>2, <2>3, <2>4
<1>5. ~Expired
  BY <1>1, <1>2, <1>4, PaceAssumption DEF Expired, LocalTime
<1> QED
  BY <1>3, <1>4, <1>5

(* What suffices to be ready. *)
LEMMA QuorumIsReady ==
    ASSUME ClockInv, SteadyInv, Tuned, MinSamples <= Len(clock.samples),
           Lately(clock.samples, MinSamples)
    PROVE  Ready
<1> USE ConfigAssumption
<1>1. PICK s \in Seq(Int) : s = clock.samples
  BY Basics
<1>2. /\ DOMAIN s = 1..Len(s) /\ Len(s) \in Nat /\ MinSamples \in 1..Len(s) /\ 1 \in 1..Len(s)
      /\ \A i \in 1..Len(s) : s[i] \in Int
  BY <1>1
<1>3. PICK u \in Nat : u = host.uptime /\ u \in Uptimes
  BY Basics
<1> DEFINE low == 0 - boot - u
           high == MaxDelay - boot - u
           o == Ranked(s, 1)
           q == Ranked(s, MinSamples)
<1>4. boot \in Nat /\ now \in Nat /\ now <= MaxTime /\ low \in Int /\ high = low + MaxDelay
  BY <1>3, Basics
<1>5. o \in Int /\ q \in Int /\ \E i \in 1..Len(s) : o = s[i]
  <2>1. (\E i \in 1..Len(s) : o = s[i]) /\ (\E i \in 1..Len(s) : q = s[i])
    BY <1>2, RankedIsThere
  <2> HIDE DEF o, q
  <2> QED
    BY <1>2, <2>1
<1>6. \A i \in 1..Len(s) : s[i] >= low
  <2> SUFFICES ASSUME NEW i \in 1..Len(s) PROVE s[i] >= low
    OBVIOUS
  <2>1. PICK v \in Uptimes : v <= clock.host /\ Took(s[i], boot, v) \in 0..now
    BY <1>1 DEF ClockInv, SamplesKnown
  <2>2. PICK l \in Nat : l = Latest /\ l <= now /\ clock.host = u + l
    <3>1. Latest \in 0..(boot + clock.local) /\ boot + clock.local <= now
      BY DEF Tuned, Own, SteadyInv, Pacing
    <3>2. clock.local \in Int /\ clock.host \in Nat
      BY Basics DEF SteadyInv, Pacing
    <3>3. Latest \in Nat /\ Latest <= now
      BY <1>4, <3>1, <3>2
    <3>4. clock.host = u + Latest
      BY <1>3, <3>2 DEF Latest
    <3> QED
      BY <3>3, <3>4
  <2>3. v \in Nat /\ v - u <= MaxTime
    BY <1>4, <2>1, <2>2
  <2>4. v <= u
    <3> SUFFICES ASSUME u < v PROVE FALSE
      BY <2>3
    <3>1. v - u > MaxTime + Lead + LateTolerance + MaxFuture + MaxUncertainty + RecoveryWindow
      BY <1>3, UptimesAssumption
    <3> QED
      BY <2>3, <3>1
  <2>5. s[i] + boot + v >= 0 /\ s[i] \in Int
    BY <1>2, <1>4, <2>1, <2>3 DEF Took
  <2> QED
    BY <1>4, <2>3, <2>4, <2>5
<1>7. q <= high
  <2> SUFFICES ASSUME q > high PROVE FALSE
    BY <1>4, <1>5
  <2> DEFINE T == (Len(s) - MinSamples + 1)..Len(s)
  <2>1. \A i \in T : i \in 1..Len(s) /\ s[i] <= high
    <3> SUFFICES ASSUME NEW i \in T PROVE i \in 1..Len(s) /\ s[i] <= high
      OBVIOUS
    <3>1. i \in 1..Len(s) /\ i > Len(s) - MinSamples
      BY <1>2
    <3>2. Took(s[i], boot, u) \in 0..MaxDelay
      BY <1>1, <1>3, <3>1 DEF Lately
    <3> QED
      BY <1>2, <1>4, <3>1, <3>2 DEF Took
  <2>2. T \subseteq Below(s, q)
    <3> SUFFICES ASSUME NEW i \in T PROVE i \in Below(s, q)
      OBVIOUS
    <3>1. i \in DOMAIN s /\ s[i] \in Int /\ s[i] <= high
      BY <1>2, <2>1
    <3> HIDE DEF q, high
    <3>2. high \in Int
      BY <1>4 DEF high
    <3>3. s[i] < q
      BY <1>5, <3>1, <3>2
    <3> QED
      BY <3>1, <3>3 DEF Below
  <2>3. Cardinality(T) = MinSamples
    <3>1. Len(s) - MinSamples + 1 \in Int /\ Len(s) \in Int
      BY <1>2
    <3>2. Cardinality(T) = IF Len(s) - MinSamples + 1 > Len(s) THEN 0
                           ELSE Len(s) - (Len(s) - MinSamples + 1) + 1
      BY <3>1, FS_Interval
    <3> HIDE DEF T
    <3> QED
      BY <1>2, <3>2
  <2>4. /\ IsFiniteSet(Below(s, q)) /\ Cardinality(Below(s, q)) \in Nat
        /\ Cardinality(Below(s, q)) < MinSamples
    <3>1. Cardinality(Below(s, q)) < MinSamples
      BY <1>2, RankedIsThere
    <3> HIDE DEF q
    <3>2. IsFiniteSet(Below(s, q)) /\ Cardinality(Below(s, q)) \in 0..Len(s)
      BY <1>5, CountsFinite
    <3> QED
      BY <1>2, <3>1, <3>2
  <2> HIDE DEF T, q
  <2>5. Cardinality(T) <= Cardinality(Below(s, q))
    BY <2>2, <2>4, FS_Subset
  <2> QED
    BY <2>3, <2>4, <2>5
<1>8. Uncertainty = q - o
  <2>1. Quorum(s) = MinSamples
    <3>1. ~ (Len(s) < MinSamples)
      BY <1>2
    <3> QED
      BY <3>1 DEF Quorum
  <2> QED
    BY <1>1, <2>1 DEF Uncertainty, Offset
<1> HIDE DEF o, q
<1>9. o >= low
  BY <1>5, <1>6
<1> HIDE DEF low, high
<1>10. q - o <= MaxUncertainty
  <2>1. high \in Int
    BY <1>4
  <2> QED
    BY <1>4, <1>5, <1>7, <1>9, <2>1, DelayAssumption
<1>11. Fresh /\ Enough
  BY <1>1, <1>2, TunedIsFresh DEF Fresh, Enough, Tuned, Own
<1> QED
  BY <1>8, <1>10, <1>11 DEF Ready

LEMMA Products ==
    ASSUME NEW i \in Nat
    PROVE  /\ \A k \in Nat : k * i \in Nat /\ (k + 1) * i = k * i + i
           /\ \A k, m \in Nat : k <= m => k * i <= m * i
  OBVIOUS

LEMMA SteadyGivesRecovers == ClockInv /\ SteadyInv => Recovers
<1> SUFFICES ASSUME ClockInv, SteadyInv,
                    now - steady > MaxDelay + MaxAge + MinSamples * Interval + MaxDelay
             PROVE  Ready
  BY DEF Recovers
<1> USE ConfigAssumption
<1>1. /\ now \in Nat /\ boot \in Nat /\ steady \in 0..now /\ clock.local \in Int
      /\ boot + clock.local <= now /\ \A a \in air : a.at \in 0..now
  BY Basics DEF SteadyInv, Pacing
<1>2. PICK e \in Nat : e = Forgotten /\ e >= steady
  BY <1>1 DEF Forgotten
<1>3. PICK m \in Nat : m = MinSamples * Interval
  BY Products
<1>4. PICK n \in Nat : n + 1 = MinSamples
  <2>1. MinSamples - 1 \in Nat /\ (MinSamples - 1) + 1 = MinSamples
    OBVIOUS
  <2> QED
    BY <2>1
<1>5. PICK p \in Nat : p = n * Interval /\ m = p + Interval
  <2>1. n * Interval \in Nat /\ (n + 1) * Interval = n * Interval + Interval
    BY <1>4, Products
  <2> QED
    BY <1>3, <1>4, <2>1
<1>6. now > e + p + Interval + MaxDelay
  <2>1. now - steady > MaxDelay + MaxAge + m + MaxDelay
    BY <1>3
  <2> QED
    BY <1>1, <1>2, <1>5, <2>1 DEF Forgotten
<1>7. Tuned
  <2>1. host.beacon # None
    BY <1>1, <1>2, <1>6 DEF SteadyInv, Pacing
  <2>2. LastSent \in 0..now /\ now - LastSent <= Interval
    BY <1>1, <2>1, PaceAssumption DEF SteadyInv, Pacing
  <2>3. e \in steady..now /\ e < LastSent
    BY <1>1, <1>2, <1>6, <2>2
  <2>4. PICK b \in air : e < b.at /\ (b.at <= e + Spacing \/ b.at <= e + Interval)
    BY <2>1, <2>3 DEF SteadyInv, Paced, Follows
  <2>5. b.at \in 0..now /\ b.at <= e + Interval
    BY <1>1, <1>2, <2>4, PaceAssumption
  <2>6. ~ (now - b.at <= MaxDelay)
    BY <1>1, <1>2, <1>6, <2>5
  <2>7. b \notin awaited
    BY <2>6 DEF SteadyInv, Pacing
  <2>8. Own /\ b.at <= Latest
    BY <1>2, <2>4, <2>7 DEF SteadyInv, Answered
  <2>9. Latest \in Int
    BY <1>1, <2>8 DEF Own
  <2> QED
    BY <1>2, <2>4, <2>5, <2>8, <2>9 DEF Tuned
<1>8. Latest \in Int /\ Latest > e + p
  <2>1. Latest \in steady..now /\ now <= Latest + Interval + MaxDelay
    BY <1>7, TunedIsFresh
  <2> QED
    BY <1>1, <1>2, <1>6, <2>1
<1>9. PICK k \in 0..MinSamples : /\ k <= Len(clock.samples) /\ Lately(clock.samples, k)
                                 /\ k = MinSamples \/ Latest <= Forgotten + k * Interval
  BY <1>7 DEF SteadyInv, Counted
<1>10. k = MinSamples
  <2> SUFFICES ASSUME k # MinSamples PROVE FALSE
    OBVIOUS
  <2>1. k \in Nat /\ k <= n
    BY <1>4
  <2>2. k * Interval \in Nat /\ k * Interval <= p
    BY <1>4, <1>5, <2>1, Products
  <2>3. Latest <= e + k * Interval
    BY <1>2, <1>9
  <2> QED
    BY <1>2, <1>8, <2>2, <2>3
<1> QED
  BY <1>7, <1>9, <1>10, QuorumIsReady

LEMMA SteadyAnewNext ==
    (ClockInv /\ Pacing /\ steady = now)' => SteadyInv'
<1>1. ClockInv /\ Pacing /\ steady = now => SteadyInv
  BY SteadyAnew, Basics
<1> QED
  BY <1>1, PTL

LEMMA InitSteady == Init => SteadyInv
<1> SUFFICES ASSUME Init PROVE SteadyInv
  OBVIOUS
<1> USE ConfigAssumption
<1>1. /\ now = 0 /\ boot = 0 /\ steady = 0 /\ air = {} /\ awaited = {}
      /\ clock.local = 0 /\ clock.samples = <<>>
  BY DEF Init, NewClock
<1>2. PICK u \in Uptimes : host = [uptime |-> u, beacon |-> None, startup |-> StartupBeacons]
  BY DEF Init, Started
<1>3. host \in [uptime : Uptimes, beacon : Int, startup : Nat] /\ host.beacon = None /\ host.startup > 0
  BY <1>2 DEF None
<1>4. Pacing
  BY <1>1, <1>3 DEF Pacing
<1> QED
  BY <1>1, <1>4, SteadyAnew

(* The engine, the host or the node is started again. *)
LEMMA RestartIsSteady ==
    ASSUME ClockInv, ClockInv', SteadyInv, Reopen \/ ChangeHost \/ RestartNode
    PROVE  SteadyInv'
<1> USE ConfigAssumption
<1>1. UNCHANGED <<now, air, awaited>> /\ steady' = now
  BY DEF Reopen, ChangeHost, RestartNode
<1>2. /\ now \in Nat /\ boot \in Nat /\ boot <= now /\ steady \in 0..now
  BY Basics DEF SteadyInv, Pacing
<1>3. /\ boot' \in Nat /\ boot' <= now /\ clock'.local \in Int /\ boot' + clock'.local <= now
      /\ clock'.samples # <<>> => \E u \in Uptimes : clock'.host - u \in 0..(boot' + clock'.local)
  <2>1. CASE UNCHANGED <<boot, clock>>
    BY <1>2, <2>1 DEF SteadyInv, Pacing
  <2>2. CASE RestartNode
    BY <1>2, <2>2 DEF RestartNode, NewClock
  <2> QED
    BY <2>1, <2>2 DEF Reopen, ChangeHost
<1>4. \/ /\ host' \in [uptime : Uptimes, beacon : Int, startup : Nat]
         /\ host'.beacon = None /\ host'.startup > 0
      \/ host' = host
  <2>1. ASSUME NEW u \in Uptimes, host' = Started(u)
        PROVE  /\ host' \in [uptime : Uptimes, beacon : Int, startup : Nat]
               /\ host'.beacon = None /\ host'.startup > 0
    <3>1. host' = [uptime |-> u, beacon |-> None, startup |-> StartupBeacons]
      BY <2>1 DEF Started
    <3>2. None \in Int /\ StartupBeacons \in Nat /\ StartupBeacons > 0
      BY DEF None
    <3> HIDE DEF None
    <3> QED
      BY <3>1, <3>2
  <2>2. host.uptime \in Uptimes
    BY Basics
  <2>3. CASE RestartNode
    BY <2>3 DEF RestartNode
  <2>4. CASE Reopen
    <3>1. host' = Started(host.uptime)
      BY <2>4 DEF Reopen
    <3> QED
      BY <2>1, <2>2, <3>1
  <2>5. CASE ChangeHost
    <3>1. PICK u \in Uptimes : host' = Started(u)
      BY <2>5 DEF ChangeHost
    <3> QED
      BY <2>1, <3>1
  <2> QED
    BY <2>3, <2>4, <2>5
<1>5. awaited' \subseteq air' /\ \A b \in awaited' : now' - b.at <= MaxDelay
  BY <1>1 DEF SteadyInv, Pacing
<1>6. /\ host' \in [uptime : Uptimes, beacon : Int, startup : Nat]
      /\ host'.beacon = None => host'.startup > 0
      /\ host'.beacon # None =>
            LastSent' \in 0..now' /\ now' - LastSent' <= IF host'.startup > 0 THEN Spacing ELSE Interval
  <2>1. CASE host' = host
    BY <1>1, <2>1 DEF SteadyInv, Pacing, LastSent
  <2>2. CASE host' # host
    BY <1>4, <2>2
  <2> QED
    BY <2>1, <2>2
<1>7. steady' \in 0..now' /\ boot' <= steady'
  BY <1>1, <1>2, <1>3
<1>8. Pacing'
  BY <1>1, <1>3, <1>5, <1>6, <1>7 DEF Pacing
<1> QED
  BY <1>1, <1>8, SteadyAnewNext

LEMMA SendIsSteady ==
    ASSUME ClockInv, ClockInv', SteadyInv, SendBeacon
    PROVE  SteadyInv'
<1> USE ConfigAssumption
<1> DEFINE b == [host |-> HostTime(host.uptime, now), at |-> now]
<1>1. /\ BeaconDue
      /\ host' = [host EXCEPT !.beacon = HostTime(host.uptime, now),
                              !.startup = IF @ > 0 THEN @ - 1 ELSE 0]
      /\ air' = air \cup {b} /\ awaited' = awaited \cup {b}
      /\ UNCHANGED <<now, boot, clock, strays, restarts, lives, steady>>
  BY DEF SendBeacon
<1>2. /\ now \in Nat /\ boot \in Nat /\ steady \in 0..now /\ clock.local \in Int
      /\ host.uptime \in Nat /\ host.uptime > 0 /\ host.startup \in Nat /\ host.beacon \in Int
      /\ \A a \in air : a.at \in 0..now
  BY Basics DEF SteadyInv, Pacing
<1>3. /\ b.at = now /\ b.host = host.uptime + now
  BY DEF HostTime
<1>4. /\ host' = [uptime |-> host.uptime, beacon |-> host.uptime + now,
                  startup |-> IF host.startup > 0 THEN host.startup - 1 ELSE 0]
  <2>1. host \in [uptime : Uptimes, beacon : Int, startup : Nat]
    BY DEF SteadyInv, Pacing
  <2> QED
    BY <1>1, <2>1 DEF HostTime
<1>5. /\ host'.uptime = host.uptime /\ host'.beacon = host.uptime + now
      /\ host'.startup = IF host.startup > 0 THEN host.startup - 1 ELSE 0
      /\ host' \in [uptime : Uptimes, beacon : Int, startup : Nat]
  <2>1. host.uptime \in Uptimes /\ host.uptime + now \in Int
        /\ (IF host.startup > 0 THEN host.startup - 1 ELSE 0) \in Nat
    BY <1>2, Basics
  <2> QED
    BY <1>4, <2>1
<1>6. host'.beacon # None /\ LastSent' = now
  BY <1>2, <1>5 DEF LastSent, None
<1>7. Pacing'
  <2>1. awaited \subseteq air /\ \A a \in awaited : now - a.at <= MaxDelay
    BY DEF SteadyInv, Pacing
  <2>2. now - b.at <= MaxDelay
    BY <1>2, <1>3
  <2>3. awaited' \subseteq air' /\ \A a \in awaited' : now' - a.at <= MaxDelay
    BY <1>1, <2>1, <2>2
  <2>4. LastSent' \in 0..now' /\ now' - LastSent' = 0
    BY <1>1, <1>2, <1>6
  <2>5. now' - LastSent' <= IF host'.startup > 0 THEN Spacing ELSE Interval
    BY <2>4
  <2>6. /\ steady' \in 0..now' /\ boot' <= steady'
        /\ clock'.local \in Int /\ boot' + clock'.local <= now'
        /\ clock'.samples # <<>> => \E u \in Uptimes : clock'.host - u \in 0..(boot' + clock'.local)
    BY <1>1 DEF SteadyInv, Pacing
  <2> QED
    BY <1>5, <1>6, <2>3, <2>4, <2>5, <2>6 DEF Pacing
<1>8. OwnBeacons'
  <2> SUFFICES ASSUME NEW a \in air', a.at > steady
               PROVE  a.host = host'.uptime + a.at /\ a.at <= LastSent'
    BY <1>1, <1>6 DEF OwnBeacons
  <2>1. CASE a \in air
    BY <1>2, <1>5, <1>6, <2>1 DEF SteadyInv, OwnBeacons
  <2>2. CASE a = b
    BY <1>2, <1>3, <1>5, <1>6, <2>2
  <2> QED
    BY <1>1, <2>1, <2>2
<1>9. Paced'
  <2> SUFFICES ASSUME NEW t \in steady..now, t < now
               PROVE  Follows(t)'
    BY <1>1, <1>6 DEF Paced
  <2> HIDE DEF b
  <2>0. t \in Nat /\ host.beacon # None
    BY <1>2 DEF SteadyInv, Pacing
  <2>1. /\ LastSent \in 0..now
        /\ now - LastSent <= IF host.startup > 0 THEN Spacing ELSE Interval
    BY <2>0 DEF SteadyInv, Pacing
  <2>2. CASE LastSent <= t
    <3>1. b \in air' /\ t < b.at
      BY <1>1, <1>3
    <3>2. CASE host.startup > 0
      BY <1>2, <1>3, <2>0, <2>1, <2>2, <3>1, <3>2 DEF Follows
    <3>3. CASE ~ (host.startup > 0)
      <4>1. host'.startup = 0 /\ b.at <= t + Interval
        BY <1>2, <1>3, <1>5, <2>0, <2>1, <2>2, <3>3
      <4>2. \A a \in air' : a.at <= b.at
        BY <1>1, <1>2, <1>3
      <4> QED
        BY <3>1, <4>1, <4>2 DEF Follows
    <3> QED
      BY <3>2, <3>3
  <2>3. CASE t < LastSent
    <3>1. PICK c \in air :
            /\ t < c.at
            /\ \/ c.at <= t + Spacing
               \/ /\ c.at <= t + Interval /\ host.startup = 0
                  /\ \A a \in air : a.at <= c.at \/ a.at >= c.at + Interval
      BY <2>0, <2>3 DEF SteadyInv, Paced, Follows
    <3>2. CASE c.at <= t + Spacing
      BY <1>1, <3>1, <3>2 DEF Follows
    <3>3. CASE /\ c.at <= t + Interval /\ host.startup = 0
               /\ \A a \in air : a.at <= c.at \/ a.at >= c.at + Interval
      <4>1. now - LastSent >= Interval
        <5>1. HostTime(host.uptime, now) - host.beacon >= Interval
          BY <1>1, <1>2, <3>3 DEF BeaconDue
        <5> QED
          BY <1>2, <5>1 DEF HostTime, LastSent
      <4>2. c.at \in 0..now /\ c.at > steady
        BY <1>2, <2>0, <3>1
      <4>3. c.at <= LastSent
        BY <4>2 DEF SteadyInv, OwnBeacons
      <4>4. b.at >= c.at + Interval
        BY <1>2, <1>3, <2>1, <4>1, <4>2, <4>3
      <4>5. \A a \in air' : a.at <= c.at \/ a.at >= c.at + Interval
        BY <1>1, <3>3, <4>4
      <4> QED
        BY <1>1, <1>5, <3>1, <3>3, <4>5 DEF Follows
    <3> QED
      BY <3>1, <3>2, <3>3
  <2> QED
    BY <2>0, <2>1, <2>2, <2>3
<1>10. Latest' = Latest /\ (Own' <=> Own) /\ (Tuned' <=> Tuned) /\ Forgotten' = Forgotten
  BY <1>1, <1>5 DEF Latest, Own, Tuned, Forgotten
<1>11. Heard'
  BY <1>1, <1>10 DEF SteadyInv, Heard
<1>12. Answered'
  BY <1>1, <1>10 DEF SteadyInv, Answered
<1>13. Counted'
  BY <1>1, <1>5, <1>10 DEF SteadyInv, Counted, Lately
<1> QED
  BY <1>7, <1>8, <1>9, <1>11, <1>12, <1>13 DEF SteadyInv

LEMMA TickIsSteady ==
    ASSUME ClockInv, ClockInv', SteadyInv, Tick
    PROVE  SteadyInv'
<1> USE ConfigAssumption
<1>1. /\ ~BeaconDue /\ now' = now + 1 /\ awaited' = awaited \ Missed
      /\ steady' = IF Missed # {} THEN now' ELSE steady
      /\ UNCHANGED <<host, air, boot, clock>>
  BY DEF Tick
<1>2. /\ now \in Nat /\ boot \in Nat /\ boot <= now /\ steady \in 0..now /\ boot <= steady
      /\ clock.local \in Int /\ boot + clock.local <= now /\ awaited \subseteq air
      /\ host \in [uptime : Uptimes, beacon : Int, startup : Nat]
      /\ host.uptime \in Nat /\ host.uptime > 0 /\ host.startup \in Nat
      /\ \A a \in air : a.at \in 0..now
  BY Basics DEF SteadyInv, Pacing
<1>3. host.beacon # None
  BY <1>1 DEF BeaconDue, SteadyInv, Pacing
<1>4. LastSent \in 0..now /\ now' - LastSent <= IF host.startup > 0 THEN Spacing ELSE Interval
  <2>1. LastSent \in 0..now
    BY <1>3 DEF SteadyInv, Pacing
  <2>2. HostTime(host.uptime, now) - host.beacon = now - LastSent /\ host.beacon \in Int
    BY <1>2 DEF HostTime, LastSent
  <2>3. ~ (now - LastSent >= IF host.startup > 0 THEN Spacing ELSE Interval)
    BY <1>1, <2>2 DEF BeaconDue
  <2> QED
    BY <1>1, <1>2, <2>1, <2>3
<1>5. \A b \in awaited' : now' - b.at <= MaxDelay
  <2> SUFFICES ASSUME NEW b \in awaited' PROVE now' - b.at <= MaxDelay
    OBVIOUS
  <2>1. b \in awaited /\ b.at # now - MaxDelay
    BY <1>1 DEF Missed
  <2>2. now - b.at <= MaxDelay /\ b.at \in 0..now
    BY <1>2, <2>1 DEF SteadyInv, Pacing
  <2> QED
    BY <1>1, <1>2, <2>1, <2>2
<1>6. LastSent' = LastSent /\ Latest' = Latest
  BY <1>1 DEF LastSent, Latest
<1>7. Pacing'
  <2>1. steady' \in 0..now' /\ boot' <= steady'
    BY <1>1, <1>2
  <2>2. clock'.local \in Int /\ boot' + clock'.local <= now' /\ awaited' \subseteq air'
    BY <1>1, <1>2
  <2>3. LastSent' \in 0..now'
    BY <1>1, <1>2, <1>4, <1>6
  <2>4. clock'.samples # <<>> => \E u \in Uptimes : clock'.host - u \in 0..(boot' + clock'.local)
    BY <1>1 DEF SteadyInv, Pacing
  <2> QED
    BY <1>1, <1>2, <1>3, <1>4, <1>5, <1>6, <2>1, <2>2, <2>3, <2>4 DEF Pacing
<1>8. CASE Missed # {}
  <2>1. steady' = now'
    BY <1>1, <1>8
  <2> QED
    BY <1>7, <2>1, SteadyAnewNext
<1>9. CASE Missed = {}
  <2>1. steady' = steady /\ awaited' = awaited
    BY <1>1, <1>9
  <2>2. OwnBeacons'
    BY <1>1, <1>6, <2>1 DEF SteadyInv, OwnBeacons
  <2>3. Paced'
    <3> SUFFICES ASSUME NEW t \in steady..(now + 1), t < LastSent PROVE Follows(t)'
      BY <1>1, <1>6, <2>1 DEF Paced
    <3>1. t \in steady..now
      BY <1>2, <1>4
    <3>2. Follows(t)
      BY <1>3, <3>1 DEF SteadyInv, Paced
    <3> QED
      BY <1>1, <3>2 DEF Follows
  <2>4. (Own' <=> Own) /\ (Tuned' <=> Tuned) /\ Forgotten' = Forgotten
    BY <1>1, <1>6, <2>1 DEF Own, Tuned, Forgotten
  <2>5. Heard'
    BY <1>1, <2>1, <2>4 DEF SteadyInv, Heard
  <2>6. Answered'
    BY <1>1, <1>6, <2>1, <2>4 DEF SteadyInv, Answered
  <2>7. Counted'
    BY <1>1, <1>6, <2>4 DEF SteadyInv, Counted, Lately
  <2> QED
    BY <1>7, <2>2, <2>3, <2>5, <2>6, <2>7 DEF SteadyInv
<1> QED
  BY <1>8, <1>9

(* A good sample more. *)
LEMMA LatelyAppended ==
    ASSUME boot \in Nat, host.uptime \in Nat,
           NEW s \in Seq(Int), NEW x \in Int, NEW k \in Nat, NEW n \in Nat,
           Lately(s, k), k <= Len(s), n <= k + 1, n <= Window,
           Took(x, boot, host.uptime) \in 0..MaxDelay
    PROVE  /\ Appended(s, x) \in Seq(Int)
           /\ n <= Len(Appended(s, x)) /\ Lately(Appended(s, x), n)
<1> USE ConfigAssumption
<1>1. Len(s) \in Nat
  OBVIOUS
<1> DEFINE c == IF Len(s) < Window THEN s ELSE Tail(s)
<1>2. Appended(s, x) = Append(c, x)
  BY DEF Appended
<1>3. /\ c \in Seq(Int) /\ n <= Len(c) + 1 /\ Len(c) \in Nat
      /\ \A i \in 1..Len(c) : i > Len(c) - k => Took(c[i], boot, host.uptime) \in 0..MaxDelay
  <2>1. CASE Len(s) < Window
    BY <1>1, <2>1 DEF Lately
  <2>2. CASE ~ (Len(s) < Window)
    <3>1. s # <<>> /\ c = Tail(s) /\ Len(s) >= Window
      BY <1>1, <2>2
    <3>2. /\ c \in Seq(Int) /\ Len(c) = Len(s) - 1
          /\ \A i \in 1..(Len(s) - 1) : c[i] = s[i + 1] /\ i + 1 \in 1..Len(s)
      BY <1>1, <3>1
    <3>3. ASSUME NEW i \in 1..Len(c), i > Len(c) - k
          PROVE  Took(c[i], boot, host.uptime) \in 0..MaxDelay
      <4>1. c[i] = s[i + 1] /\ i + 1 \in 1..Len(s) /\ i + 1 > Len(s) - k
        BY <1>1, <3>2, <3>3
      <4> QED
        BY <4>1 DEF Lately
    <3>4. n <= Len(c) + 1 /\ Len(c) \in Nat
      <4>1. Len(s) >= 1 /\ Len(c) = Len(s) - 1
        BY <1>1, <3>1, <3>2
      <4> HIDE DEF c
      <4>2. Len(c) + 1 = Len(s) /\ Len(c) \in Nat
        BY <1>1, <4>1
      <4>3. n <= Len(s)
        BY <1>1, <3>1
      <4> QED
        BY <4>2, <4>3
    <3> HIDE DEF c
    <3> QED
      BY <3>2, <3>3, <3>4
  <2> QED
    BY <2>1, <2>2
<1> HIDE DEF c
<1>4. /\ Append(c, x) \in Seq(Int) /\ Len(Append(c, x)) = Len(c) + 1
      /\ Append(c, x)[Len(c) + 1] = x
      /\ \A i \in 1..Len(c) : Append(c, x)[i] = c[i]
  BY <1>3
<1> DEFINE r == Append(c, x)
<1>5. ASSUME NEW i \in 1..Len(r), i > Len(r) - n
      PROVE  Took(r[i], boot, host.uptime) \in 0..MaxDelay
  <2>1. CASE i = Len(c) + 1
    BY <1>4, <2>1
  <2>2. CASE i # Len(c) + 1
    <3>0. Len(r) = Len(c) + 1 /\ i \in Int
      BY <1>4
    <3> HIDE DEF r
    <3>1. i \in 1..Len(c) /\ i > Len(c) - k
      BY <1>3, <1>5, <2>2, <3>0
    <3>2. r[i] = c[i]
      BY <1>4, <3>1 DEF r
    <3> QED
      BY <1>3, <3>1, <3>2
  <2> QED
    BY <2>1, <2>2
<1> HIDE DEF r
<1>6. Lately(r, n)
  BY <1>5 DEF Lately
<1> QED
  BY <1>2, <1>3, <1>4, <1>6 DEF r

(* A beacon that comes in time. *)
LEMMA ReceiptIsSteady ==
    ASSUME ClockInv, ClockInv', SteadyInv, NEW b \in air, Observe(b.host),
           awaited' = awaited \ {b}, UNCHANGED <<now, host, air, boot, steady>>,
           now - b.at <= MaxDelay
    PROVE  SteadyInv'
<1> USE ConfigAssumption
<1>1. /\ now \in Nat /\ now <= MaxTime /\ boot \in Nat /\ boot <= now
      /\ steady \in 0..now /\ boot <= steady /\ clock.local \in Int /\ boot + clock.local <= now
      /\ host.uptime \in Nat /\ clock.host \in Nat /\ clock.samples \in Seq(Int)
      /\ b.at \in 0..now /\ b.host \in Nat /\ \A a \in air : a.at \in 0..now
  BY Basics DEF SteadyInv, Pacing
<1>2. PICK e \in Nat : e = Forgotten /\ e = steady + MaxDelay + MaxAge
  BY <1>1 DEF Forgotten
<1>3. Forgotten' = e /\ LastSent' = LastSent
  BY <1>2 DEF Forgotten, LastSent
<1> DEFINE x == LocalTime - b.host
           old == IF clock.samples # <<>> /\ Expired THEN <<>> ELSE clock.samples
<1>4. \/ ~Acceptable(b.host) /\ clock' = clock
      \/ /\ Acceptable(b.host)
         /\ clock' = [samples |-> Appended(old, x), local |-> LocalTime, host |-> b.host]
  BY DEF Observe
<1>5. \/ b.host = host.uptime + b.at
      \/ b.at <= steady
  <2>1. b.at > steady => b.host = host.uptime + b.at
    BY DEF SteadyInv, OwnBeacons
  <2> QED
    BY <1>1, <2>1
<1>6. PICK v \in Uptimes : b.host = v + b.at
  BY DEF ClockInv, BeaconsKnown
<1>7. Pacing'
  <2>1. /\ clock'.local \in Int /\ boot + clock'.local <= now
        /\ clock'.samples # <<>> => \E u \in Uptimes : clock'.host - u \in 0..(boot + clock'.local)
    <3>1. CASE clock' = clock
      BY <3>1 DEF SteadyInv, Pacing
    <3>2. CASE clock'.local = LocalTime /\ clock'.host = b.host
      <4>1. v \in Nat /\ b.host - v = b.at
        BY <1>1, <1>6
      <4>2. boot + clock'.local = now /\ clock'.local \in Int
        BY <1>1, <3>2 DEF LocalTime
      <4>3. clock'.host - v \in 0..(boot + clock'.local)
        BY <1>1, <3>2, <4>1, <4>2
      <4>4. \E u \in Uptimes : clock'.host - u \in 0..(boot + clock'.local)
        BY <4>3
      <4>5. boot + clock'.local <= now
        BY <1>1, <4>2
      <4> QED
        BY <4>2, <4>4, <4>5
    <3> QED
      BY <1>4, <3>1, <3>2
  <2> QED
    BY <2>1 DEF SteadyInv, Pacing, LastSent
<1>8. OwnBeacons' /\ Paced'
  BY DEF SteadyInv, OwnBeacons, Paced, Follows, LastSent
<1>9. CASE ~Acceptable(b.host) /\ clock' = clock
  <2>1. Latest' = Latest /\ (Own' <=> Own) /\ (Tuned' <=> Tuned)
    BY <1>2, <1>3, <1>9 DEF Latest, Own, Tuned
  <2>2. Heard' /\ Counted'
    BY <1>2, <1>3, <1>9, <2>1 DEF SteadyInv, Heard, Counted, Lately
  <2>3. ASSUME b.at > e
        PROVE  Own /\ b.at <= Latest
    <3>1. b.host = host.uptime + b.at
      BY <1>1, <1>2, <1>5, <2>3
    <3>2. /\ clock.samples # <<>> /\ b.host <= clock.host
          /\ ~ (Expired /\ b.host < clock.host)
      <4>1. ~Acceptable(b.host) /\ b.host \in Nat /\ clock.host \in Nat
        BY <1>1, <1>9
      <4> QED
        BY ONLY <4>1 DEF Acceptable
    <3>3. CASE Own
      <4>1. b.at <= Latest
        <5>1. Latest = clock.host - host.uptime
          BY DEF Latest
        <5>2. clock.host \in Int /\ host.uptime \in Int /\ b.at \in Int
          BY <1>1
        <5>3. host.uptime + b.at <= clock.host
          BY <3>1, <3>2
        <5> QED
          BY <5>1, <5>2, <5>3
      <4> QED
        BY <3>3, <4>1
    <3>4. CASE boot + clock.local <= steady + MaxDelay
      <4>1. Expired
        BY <1>1, <1>2, <2>3, <3>4 DEF Expired, LocalTime
      <4>2. clock.host = host.uptime + b.at
        BY <1>1, <3>1, <3>2, <4>1
      <4>3. PICK w \in Uptimes : clock.host - w \in 0..(boot + clock.local)
        BY <3>2 DEF SteadyInv, Pacing
      <4>4. w \in Nat /\ host.uptime \in Uptimes
        BY Basics
      <4>5. w - host.uptime <= MaxTime /\ host.uptime - w <= MaxTime
        <5>1. clock.host - w \in Int /\ 0 <= clock.host - w /\ clock.host - w <= now
          BY <1>1, <4>3, <4>4
        <5>2. PICK h \in Int, a \in Int, z \in Int, n \in Int, m \in Int :
                h = host.uptime /\ a = b.at /\ z = w /\ n = now /\ m = MaxTime
          BY <1>1, <4>4
        <5>3. h + a - z >= 0 /\ h + a - z <= n
          BY <4>2, <5>1, <5>2
        <5>4. a >= 0 /\ a <= n /\ n <= m
          BY <1>1, <5>2
        <5>5. z - h <= m /\ h - z <= m
          BY ONLY <5>2, <5>3, <5>4
        <5> QED
          BY <5>2, <5>5
      <4>6. w = host.uptime
        <5>1. MaxTime <= MaxTime + Lead + LateTolerance + MaxFuture + MaxUncertainty + RecoveryWindow
          OBVIOUS
        <5>2. w - host.uptime \in Int /\ host.uptime - w \in Int
          BY <1>1, <4>4
        <5> HIDE ConfigAssumption
        <5>3. /\ w - host.uptime <= MaxTime + Lead + LateTolerance + MaxFuture + MaxUncertainty + RecoveryWindow
              /\ host.uptime - w <= MaxTime + Lead + LateTolerance + MaxFuture + MaxUncertainty + RecoveryWindow
          BY <4>5, <5>1, <5>2, ConfigAssumption
        <5> QED
          BY <4>4, <5>3, Apart
      <4>7. b.at \in 0..(boot + clock.local)
        BY <1>1, <4>2, <4>3, <4>6
      <4> QED
        BY <1>1, <1>2, <2>3, <3>4, <4>7
    <3> QED
      BY <3>2, <3>3, <3>4 DEF SteadyInv, Heard
  <2>4. Answered'
    <3> SUFFICES ASSUME NEW a \in air, a.at > e, a \notin awaited \ {b}
                 PROVE  Own /\ a.at <= Latest
      BY <1>3, <2>1 DEF Answered
    <3>1. CASE a = b
      BY <2>3, <3>1
    <3>2. CASE a # b
      BY <1>2, <3>2 DEF SteadyInv, Answered
    <3> QED
      BY <3>1, <3>2
  <2> QED
    BY <1>7, <1>8, <2>2, <2>4 DEF SteadyInv
<1>10. ASSUME Acceptable(b.host),
              clock' = [samples |-> Appended(old, x), local |-> LocalTime, host |-> b.host]
       PROVE  SteadyInv'
  <2>1. /\ clock'.samples = Appended(old, x) /\ clock'.local = LocalTime
        /\ clock'.host = b.host /\ boot + clock'.local = now
    BY <1>1, <1>10 DEF LocalTime
  <2>2. x \in Int /\ old \in Seq(Int)
    BY <1>1 DEF LocalTime
  <2>3. CASE b.host = host.uptime + b.at
    <3>1. Took(x, boot, host.uptime) \in 0..MaxDelay
      <4>1. x + boot + host.uptime = now - b.at
        <5>1. PICK n \in Int, o \in Int, h \in Int, a \in Int :
                n = now /\ o = boot /\ h = host.uptime /\ a = b.at
          BY <1>1
        <5>2. x = (n - o) - (h + a)
          BY <2>3, <5>1 DEF LocalTime
        <5>3. x + o + h = n - a
          BY ONLY <5>1, <5>2
        <5> QED
          BY <5>1, <5>3
      <4> HIDE DEF x
      <4> QED
        BY <1>1, <4>1 DEF Took
    <3> HIDE DEF old, x
    <3>2. Latest' = b.at
      BY <1>1, <2>1, <2>3 DEF Latest
    <3>3. ASSUME NEW k \in Nat, NEW n \in Nat, Lately(old, k), k <= Len(old), n <= k + 1, n <= MinSamples
          PROVE  n <= Len(clock'.samples) /\ Lately(clock'.samples, n)
      <4>1. n <= Window
        BY <3>3
      <4> QED
        BY <1>1, <2>1, <2>2, <3>1, <3>3, <4>1, LatelyAppended
    <3>4. Lately(old, 0) /\ Len(old) \in Nat
      <4>1. \A i \in 1..Len(old) : ~ (i > Len(old) - 0)
        BY <2>2
      <4> QED
        BY <2>2, <4>1 DEF Lately
    <3>5. 1 <= Len(clock'.samples) /\ Lately(clock'.samples, 1)
      BY <3>3, <3>4
    <3>6. clock'.samples # <<>>
      BY <3>5
    <3>7. Own'
      BY <1>1, <2>1, <3>2, <3>6 DEF Own
    <3>8. Heard'
      BY <3>7 DEF Heard
    <3>9. Tuned => ~Expired /\ b.at > Latest /\ old = clock.samples /\ Latest \in steady..now
      <4> SUFFICES ASSUME Tuned
                   PROVE  ~Expired /\ b.at > Latest /\ old = clock.samples /\ Latest \in steady..now
        OBVIOUS
      <4>1. ~Expired /\ Latest \in steady..now
        BY TunedIsFresh
      <4>2. b.host > clock.host
        BY <1>10, <4>1 DEF Acceptable, Tuned, Own
      <4>3. b.at > Latest
        BY <1>1, <2>3, <4>2 DEF Latest
      <4> QED
        BY <4>1, <4>3 DEF old
    <3>10. ASSUME NEW a \in air, a.at > e, a \notin awaited
           PROVE  Tuned /\ a.at <= Latest
      <4>1. Own /\ a.at <= Latest
        BY <1>2, <3>10 DEF SteadyInv, Answered
      <4>2. Latest \in Int /\ a.at \in Int
        BY <1>1 DEF Latest
      <4> QED
        BY <1>2, <3>10, <4>1, <4>2 DEF Tuned
    <3>11. Answered'
      <4> SUFFICES ASSUME NEW a \in air, a.at > e, a \notin awaited \ {b}
                   PROVE  a.at <= b.at
        BY <1>3, <3>2, <3>7 DEF Answered
      <4>1. CASE a = b
        BY <1>1, <4>1
      <4>2. CASE a # b
        <5>1. a.at <= Latest /\ b.at > Latest /\ Latest \in Int
          BY <3>9, <3>10, <4>2 DEF Tuned, Own
        <5> QED
          BY <1>1, <5>1
      <4> QED
        BY <4>1, <4>2
    <3>12. Counted'
      <4> SUFFICES ASSUME b.at > e
                   PROVE  \E n \in 0..MinSamples :
                             /\ n <= Len(clock'.samples) /\ Lately(clock'.samples, n)
                             /\ n = MinSamples \/ b.at <= e + n * Interval
        BY <1>3, <3>2 DEF Counted, Tuned, Lately
      <4>1. CASE ~Tuned
        <5>1. e \in steady..now
          BY <1>1, <1>2
        <5>2. b.at <= e + Interval
          BY <3>10, <4>1, <5>1, NextBeacon
        <5>3. e + 1 * Interval = e + Interval /\ 1 \in 0..MinSamples
          OBVIOUS
        <5> QED
          BY <3>5, <5>2, <5>3
      <4>2. CASE Tuned
        <5>1. PICK k \in 0..MinSamples :
                 /\ k <= Len(clock.samples) /\ Lately(clock.samples, k)
                 /\ k = MinSamples \/ Latest <= e + k * Interval
          BY <1>2, <4>2 DEF SteadyInv, Counted
        <5>2. Latest \in steady..now /\ Latest < b.at /\ Latest > e
          BY <1>2, <3>9, <4>2 DEF Tuned
        <5>3. \A a \in air : a.at > Latest => a \in awaited
          <6> SUFFICES ASSUME NEW a \in air, a.at > Latest, a \notin awaited PROVE FALSE
            OBVIOUS
          <6>1. a.at > e /\ a.at \in Int /\ Latest \in Int
            BY <1>1, <5>2
          <6>2. a.at <= Latest
            BY <3>10, <6>1
          <6> QED
            BY <6>1, <6>2
        <5>4. b.at <= Latest + Interval
          BY <5>2, <5>3, NextBeacon
        <5>5. CASE k = MinSamples
          <6>1. MinSamples <= Len(clock'.samples) /\ Lately(clock'.samples, MinSamples)
            BY <3>3, <3>9, <4>2, <5>1, <5>5
          <6> QED
            BY <6>1
        <5>6. CASE k # MinSamples
          <6>1. k \in Nat /\ k + 1 \in 0..MinSamples
            BY <5>6
          <6>2. k + 1 <= Len(clock'.samples) /\ Lately(clock'.samples, k + 1)
            BY <3>3, <3>9, <4>2, <5>1, <6>1
          <6>3. k * Interval \in Nat /\ (k + 1) * Interval = k * Interval + Interval
            BY <6>1, Products
          <6>4. b.at <= e + (k + 1) * Interval
            <7>1. PICK p \in Nat : p = k * Interval
              BY <6>3
            <7>2. (k + 1) * Interval = p + Interval /\ Latest <= e + p
              BY <5>1, <5>6, <6>3, <7>1
            <7>3. Latest \in Int
              BY <1>1, <5>2
            <7>4. b.at <= e + (p + Interval)
              BY <1>1, <5>4, <7>2, <7>3
            <7> QED
              BY <7>2, <7>4
          <6> QED
            BY <6>1, <6>2, <6>4
        <5> QED
          BY <5>5, <5>6
      <4> QED
        BY <4>1, <4>2
    <3> QED
      BY <1>7, <1>8, <3>8, <3>11, <3>12 DEF SteadyInv
  <2>4. CASE b.at <= steady
    <3>1. now <= e /\ now <= steady + MaxDelay
      BY <1>1, <1>2, <2>4
    <3>2. Heard'
      BY <2>1, <3>1 DEF Heard
    <3>3. ~Tuned'
      <4> SUFFICES ASSUME Own', Latest' > e PROVE FALSE
        BY <1>3 DEF Tuned
      <4>1. Latest' \in 0..now
        BY <2>1 DEF Own
      <4> QED
        BY <1>1, <3>1, <4>1
    <3>4. Counted'
      BY <3>3 DEF Counted
    <3>5. Answered'
      BY <1>1, <1>3, <3>1 DEF Answered
    <3> QED
      BY <1>7, <1>8, <3>2, <3>4, <3>5 DEF SteadyInv
  <2> QED
    BY <1>5, <2>3, <2>4
<1> QED
  BY <1>4, <1>9, <1>10

LEMMA ReceiveIsSteady ==
    ASSUME ClockInv, ClockInv', SteadyInv, ReceiveBeacon
    PROVE  SteadyInv'
<1> USE ConfigAssumption
<1>1. PICK b \in air :
        /\ Observe(b.host)
        /\ awaited' = awaited \ {b}
        /\ UNCHANGED <<now, host, air, boot>>
        /\ IF now - b.at <= MaxDelay THEN steady' = steady ELSE steady' = now
  BY DEF ReceiveBeacon
<1>2. CASE now - b.at <= MaxDelay
  BY <1>1, <1>2, ReceiptIsSteady
<1>3. CASE ~ (now - b.at <= MaxDelay)
  <2>1. /\ now \in Nat /\ boot \in Nat /\ boot <= now /\ b.at \in 0..now
        /\ b.host \in Nat /\ steady \in 0..now
    BY Basics DEF SteadyInv, Pacing
  <2>2. PICK v \in Uptimes : b.host = v + b.at
    BY DEF ClockInv, BeaconsKnown
  <2>3. /\ clock'.local \in Int /\ boot + clock'.local <= now
        /\ clock'.samples # <<>> => \E u \in Uptimes : clock'.host - u \in 0..(boot + clock'.local)
    <3>1. CASE clock' = clock
      BY <3>1 DEF SteadyInv, Pacing
    <3>2. CASE clock'.local = LocalTime /\ clock'.host = b.host
      BY <2>1, <2>2, <3>2 DEF LocalTime
    <3> QED
      BY <1>1, <3>1, <3>2 DEF Observe
  <2>4. steady' = now' /\ now' = now
    BY <1>1, <1>3
  <2>5. awaited' \subseteq air' /\ \A a \in awaited' : now' - a.at <= MaxDelay
    BY <1>1 DEF SteadyInv, Pacing
  <2>6. /\ host' \in [uptime : Uptimes, beacon : Int, startup : Nat]
        /\ host'.beacon = None => host'.startup > 0
        /\ host'.beacon # None =>
              LastSent' \in 0..now' /\ now' - LastSent' <= IF host'.startup > 0 THEN Spacing ELSE Interval
    BY <1>1 DEF SteadyInv, Pacing, LastSent
  <2>7. Pacing'
    BY <1>1, <2>1, <2>3, <2>4, <2>5, <2>6 DEF Pacing
  <2> QED
    BY <2>4, <2>7, SteadyAnewNext
<1> QED
  BY <1>2, <1>3

LEMMA NextKeepsSteady == ClockInv /\ ClockInv' /\ SteadyInv /\ [Next]_vars => SteadyInv'
<1> SUFFICES ASSUME ClockInv, ClockInv', SteadyInv, [Next]_vars PROVE SteadyInv'
  OBVIOUS
<1>1. CASE UNCHANGED vars
  BY <1>1 DEF vars, SteadyInv, Pacing, OwnBeacons, Paced, Follows, Heard, Answered, Counted,
              Tuned, Own, Latest, LastSent, Forgotten, Lately
<1> QED
  BY <1>1, RestartIsSteady, SendIsSteady, TickIsSteady, ReceiveIsSteady DEF Next

(* The clock is ready once the beacons of the host have come in time for as   *)
(* long as another host's take to be forgotten and a quorum takes to come.    *)
THEOREM ClockRecovers == Spec => []Recovers
<1>1. Init => ClockInv /\ SteadyInv
  BY InitClock, InitSteady
<1>2. ClockInv /\ SteadyInv /\ [Next]_vars => (ClockInv /\ SteadyInv)'
  BY NextKeepsClock, NextKeepsSteady
<1> QED
  BY <1>1, <1>2, SteadyGivesRecovers, PTL DEF Spec

==============================================================================
