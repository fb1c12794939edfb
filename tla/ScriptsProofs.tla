--------------------------- MODULE ScriptsProofs ----------------------------
(* Theorems about NetworkSetup, for every set of networks and every bound, and
   about AgentCampaign, for every manifest, every set of files, any number of
   repairs, kills and restarts. *)
EXTENDS NetworkSetup, AgentCampaign, TLAPS, FiniteSetTheorems

-----------------------------------------------------------------------------
(* The network setup service *)

CabinStep ==
    {"begin", "serve", "exit", "cabin profile", "cabin up", "cabin look", "withdraw", "announce"}

StepName ==
    CabinStep \cup
    {"stop hotspot", "start hotspot", "try saved", "next saved", "look saved",
     "forget target", "connect target", "look target", "report success", "report failed",
     "switched", "check", "claim"}

StepsNamed == todo \in [Threads -> Seq(StepName)]

(* In portable mode no thread has a step of the hotspot or of a switch to do. *)
OnlyCabin ==
    Portable => /\ \A t \in Threads : todo[t] \in Seq(CabinStep)
                /\ active # Hotspot

(* Nobody else is at work while nothing has raced. *)
Alone == raced \/ \A t, u \in Threads : todo[t] # <<>> /\ todo[u] # <<>> => t = u

(* A step of the program comes right after another. *)
After(s, second, first) == \A i \in 2..Len(s) : s[i] = second => s[i - 1] = first

(* An address is announced right after the last one was withdrawn. *)
WithdrawnFirst == \A t \in Threads : After(todo[t], "announce", "withdraw")

NothingLeft ==
    raced \/ \A t \in Threads :
                 Does(t, "announce") => announced \subseteq leaked /\ held = NoAddr /\ mdns = NoAddr

SetupInv ==
    StepsNamed /\ OnlyCabin /\ Alone /\ WithdrawnFirst /\ NothingLeft /\ OneAnnouncement

-----------------------------------------------------------------------------
(* What the steps do to a thread's program                                   *)

(* Two programs one after the other. *)
LEMMA Joined ==
    ASSUME NEW S, NEW a \in S, NEW w \in S, NEW r \in Seq(S), NEW s \in Seq(S),
           After(r, a, w), After(s, a, w), r # <<>> /\ s # <<>> => s[1] # a
    PROVE  /\ r \o s \in Seq(S)
           /\ After(r \o s, a, w)
           /\ r # <<>> => (r \o s)[1] = r[1]
<1> DEFINE n == r \o s
<1>1. /\ n \in Seq(S) /\ Len(n) = Len(r) + Len(s) /\ Len(r) \in Nat /\ Len(s) \in Nat
      /\ \A i \in 1..Len(r) : n[i] = r[i]
      /\ \A i \in 1..Len(n) : i > Len(r) => n[i] = s[i - Len(r)]
  OBVIOUS
<1>2. ASSUME NEW i \in 2..Len(n), n[i] = a PROVE n[i - 1] = w
  <2>1. CASE i <= Len(r)
    <3>1. r[i] = a /\ i \in 2..Len(r) /\ i - 1 \in 1..Len(r)
      BY <1>1, <1>2, <2>1
    <3> QED
      BY <1>1, <3>1 DEF After
  <2>2. CASE i > Len(r) + 1
    <3> DEFINE j == i - Len(r)
    <3>1. s[j] = a /\ j \in 2..Len(s) /\ i - 1 \in 1..Len(n) /\ i - 1 > Len(r)
      BY <1>1, <1>2, <2>2
    <3>2. s[j - 1] = w
      BY <3>1 DEF After
    <3>3. n[i - 1] = s[(i - 1) - Len(r)] /\ (i - 1) - Len(r) = j - 1
      BY <1>1, <3>1
    <3> QED
      BY <3>2, <3>3
  <2>3. CASE i = Len(r) + 1
    <3>1. s[1] = a /\ Len(r) >= 1 /\ Len(s) >= 1
      BY <1>1, <1>2, <2>3
    <3> QED
      BY <3>1
  <2> QED
    BY <1>1, <2>1, <2>2, <2>3
<1>3. r # <<>> => n[1] = r[1]
  <2>1. r # <<>> => Len(r) >= 1
    BY <1>1
  <2> QED
    BY <1>1, <2>1
<1> QED
  BY <1>1, <1>2, <1>3 DEF After

LEMMA TailOf ==
    ASSUME NEW S, NEW a \in S, NEW w \in S, NEW s \in Seq(S), s # <<>>, After(s, a, w)
    PROVE  /\ Tail(s) \in Seq(S)
           /\ After(Tail(s), a, w)
           /\ Tail(s) # <<>> /\ Tail(s)[1] = a => s[1] = w
<1>1. /\ Tail(s) \in Seq(S) /\ Len(Tail(s)) = Len(s) - 1 /\ Len(s) \in Nat /\ Len(s) >= 1
      /\ \A i \in 1..(Len(s) - 1) : Tail(s)[i] = s[i + 1]
  OBVIOUS
<1>2. ASSUME NEW i \in 2..Len(Tail(s)), Tail(s)[i] = a PROVE Tail(s)[i - 1] = w
  <2>1. i + 1 \in 2..Len(s) /\ s[i + 1] = a
    BY <1>1, <1>2
  <2>2. s[i] = w
    BY <2>1 DEF After
  <2>3. i - 1 \in 1..(Len(s) - 1) /\ (i - 1) + 1 = i
    BY <1>1
  <2> QED
    BY <1>1, <2>2, <2>3
<1>3. ASSUME Tail(s) # <<>>, Tail(s)[1] = a PROVE s[1] = w
  <2>1. 2 \in 2..Len(s) /\ s[2] = a
    BY <1>1, <1>3
  <2> QED
    BY <2>1 DEF After
<1> QED
  BY <1>1, <1>2, <1>3 DEF After

(* Taking the first step of a program off, and putting others in its place. *)
LEMMA Replaced ==
    ASSUME NEW S, NEW a \in S, NEW w \in S,
           NEW s \in Seq(S), s # <<>>, After(s, a, w),
           NEW r \in Seq(S), After(r, a, w), r # <<>> => r[1] # a /\ s[1] # w
    PROVE  /\ r \o Tail(s) \in Seq(S)
           /\ After(r \o Tail(s), a, w)
           /\ r \o Tail(s) # <<>> /\ Head(r \o Tail(s)) = a => s[1] = w
<1>1. /\ Tail(s) \in Seq(S) /\ After(Tail(s), a, w)
      /\ Tail(s) # <<>> /\ Tail(s)[1] = a => s[1] = w
  BY TailOf
<1>2. /\ r \o Tail(s) \in Seq(S) /\ After(r \o Tail(s), a, w)
      /\ r # <<>> => (r \o Tail(s))[1] = r[1]
  <2>1. r # <<>> /\ Tail(s) # <<>> => Tail(s)[1] # a
    BY <1>1
  <2>2. Tail(s) \in Seq(S) /\ After(Tail(s), a, w)
    BY <1>1
  <2>3. \A q \in Seq(S) :
          After(q, a, w) /\ (r # <<>> /\ q # <<>> => q[1] # a) =>
            /\ r \o q \in Seq(S) /\ After(r \o q, a, w)
            /\ r # <<>> => (r \o q)[1] = r[1]
    BY Joined
  <2> QED
    BY <2>1, <2>2, <2>3
<1>3. r = <<>> => r \o Tail(s) = Tail(s)
  BY <1>1
<1>4. r \o Tail(s) # <<>> => Head(r \o Tail(s)) = (r \o Tail(s))[1]
  BY <1>2
<1>5. CASE r = <<>>
  <2>1. r \o Tail(s) = Tail(s)
    BY <1>3, <1>5
  <2> QED
    BY <1>1, <1>2, <1>4, <2>1
<1>6. CASE r # <<>>
  BY <1>2, <1>4, <1>6
<1> QED
  BY <1>5, <1>6

(* What a step may put before the rest, or in place, of a program. *)
Programs ==
    {<<>>, Startup, HotspotStart, Register, EnsureCabin, EnsureCabin \o <<"serve">>,
     Register \o <<"serve">>, <<"try saved", "serve">>, <<"try saved">>, <<"next saved">>,
     <<"look saved">>, <<"look target">>, <<"report success">>, <<"report failed">>, <<"exit">>,
     <<"check">>, <<"cabin look">>, <<"claim">>,
     HotspotStop \o <<"forget target", "connect target", "switched">>}

LEMMA Short ==
    ASSUME NEW S, NEW a \in S, NEW w \in S, NEW x \in S
    PROVE  /\ <<>> \in Seq(S) /\ After(<<>>, a, w)
           /\ <<x>> \in Seq(S) /\ <<x>>[1] = x /\ After(<<x>>, a, w)
           /\ \A y \in S : /\ <<x, y>> \in Seq(S) /\ <<x, y>>[1] = x
                           /\ (y # a \/ x = w) => After(<<x, y>>, a, w)
           /\ \A y, z \in S : /\ <<x, y, z>> \in Seq(S) /\ <<x, y, z>>[1] = x
                              /\ y # a /\ z # a => After(<<x, y, z>>, a, w)
<1>1. After(<<>>, a, w) /\ After(<<x>>, a, w)
  BY DEF After
<1>2. ASSUME NEW y \in S, y # a \/ x = w PROVE After(<<x, y>>, a, w)
  <2>1. Len(<<x, y>>) = 2 /\ <<x, y>>[2] = y /\ <<x, y>>[1] = x
    OBVIOUS
  <2>2. \A i \in 2..2 : i = 2 /\ i - 1 = 1
    OBVIOUS
  <2> QED
    BY <1>2, <2>1, <2>2 DEF After
<1>3. ASSUME NEW y \in S, NEW z \in S, y # a, z # a PROVE After(<<x, y, z>>, a, w)
  <2>1. Len(<<x, y, z>>) = 3 /\ <<x, y, z>>[2] = y /\ <<x, y, z>>[3] = z
    OBVIOUS
  <2>2. \A i \in 2..3 : i = 2 \/ i = 3
    OBVIOUS
  <2> QED
    BY <1>3, <2>1, <2>2 DEF After
<1> QED
  BY <1>1, <1>2, <1>3

InOrder(r) ==
    /\ r \in Seq(StepName) /\ After(r, "announce", "withdraw")
    /\ r # <<>> => r[1] # "announce"

LEMMA OrderJoins ==
    ASSUME NEW r, NEW s, InOrder(r), InOrder(s), r # <<>>
    PROVE  InOrder(r \o s)
<1>1. /\ r \in Seq(StepName) /\ s \in Seq(StepName)
      /\ "announce" \in StepName /\ "withdraw" \in StepName
  BY DEF InOrder, StepName, CabinStep
<1>2. r \o s \in Seq(StepName) /\ After(r \o s, "announce", "withdraw") /\ (r \o s)[1] = r[1]
  BY <1>1, Joined DEF InOrder
<1> QED
  BY <1>2 DEF InOrder

LEMMA ShortInOrder ==
    ASSUME NEW x \in StepName, x # "announce"
    PROVE  /\ InOrder(<<>>) /\ InOrder(<<x>>)
           /\ \A y \in StepName : y # "announce" \/ x = "withdraw" => InOrder(<<x, y>>)
           /\ \A y, z \in StepName :
                 y # "announce" /\ z # "announce" => InOrder(<<x, y, z>>)
<1>1. "announce" \in StepName /\ "withdraw" \in StepName
  BY DEF StepName, CabinStep
<1> QED
  BY <1>1, Short DEF InOrder

LEMMA ProgramsInOrder == \A r \in Programs : InOrder(r)
<1> USE DEF StepName, CabinStep
<1>1. /\ InOrder(<<>>) /\ InOrder(<<"try saved", "serve">>) /\ InOrder(<<"serve">>)
      /\ InOrder(<<"forget target", "connect target", "switched">>)
  BY ShortInOrder
<1>2. \A x \in {"begin", "stop hotspot", "start hotspot", "try saved", "next saved", "look saved",
                "look target", "report success", "report failed", "exit", "check", "cabin look",
                "claim"} : InOrder(<<x>>)
  BY ShortInOrder
<1>3. InOrder(Startup) /\ InOrder(HotspotStop)
  BY <1>2 DEF Startup, HotspotStop
<1>4. InOrder(Register) /\ InOrder(EnsureCabin)
  BY ShortInOrder DEF Register, EnsureCabin
<1>5. HotspotStop # <<>> /\ Register # <<>> /\ EnsureCabin # <<>>
  BY DEF HotspotStop, Register, EnsureCabin
<1>6. InOrder(HotspotStart)
  BY <1>2, <1>3, <1>5, OrderJoins DEF HotspotStart
<1>7. /\ InOrder(EnsureCabin \o <<"serve">>) /\ InOrder(Register \o <<"serve">>)
      /\ InOrder(HotspotStop \o <<"forget target", "connect target", "switched">>)
  BY <1>1, <1>3, <1>4, <1>5, OrderJoins
<1> QED
  BY <1>1, <1>2, <1>3, <1>4, <1>6, <1>7 DEF Programs

-----------------------------------------------------------------------------
(* The steps                                                                 *)

(* A thread takes off the step it did and puts others in its place, nothing  *)
(* before what follows a "withdraw"; or it gets another program.             *)
Moves(t) ==
    \E r \in Programs :
        \/ Only(t, r)
        \/ todo[t] # <<>> /\ (r # <<>> => Head(todo[t]) # "withdraw") /\ Then(t, r)

LEMMA EveryStepMoves ==
    ASSUME NEW t \in Threads, Step(t)
    PROVE  Moves(t)
<1> USE DEF Does
<1>1. CASE StopHotspot(t) \/ Withdraw(t) \/ Announce(t) \/ ForgetTarget(t) \/ Switched(t)
  <2>1. todo[t] # <<>> /\ Then(t, <<>>) /\ <<>> \in Programs
    BY <1>1 DEF StopHotspot, Withdraw, Announce, ForgetTarget, Switched, Programs
  <2> QED
    BY <2>1 DEF Moves
<1>2. CASE StartHotspot(t)
  <2>1. todo[t] # <<>> /\ Then(t, <<>>) /\ <<>> \in Programs
    BY <1>2 DEF StartHotspot, Programs
  <2> QED
    BY <2>1 DEF Moves
<1>3. CASE TrySaved(t)
  <2>1. todo[t] # <<>> /\ Head(todo[t]) = "try saved" /\ Then(t, <<"next saved">>)
    BY <1>3 DEF TrySaved
  <2>2. <<"next saved">> \in Programs
    BY DEF Programs
  <2> QED
    BY <2>1, <2>2 DEF Moves
<1>4. CASE NextSaved(t)
  <2>1. todo[t] # <<>> /\ Head(todo[t]) = "next saved"
    BY <1>4 DEF NextSaved
  <2>2. Then(t, HotspotStart) \/ Then(t, <<"look saved">>)
    BY <1>4 DEF NextSaved
  <2>3. HotspotStart \in Programs /\ <<"look saved">> \in Programs
    BY DEF Programs
  <2> QED
    BY <2>1, <2>2, <2>3 DEF Moves
<1>5. CASE LookSaved(t)
  <2>1. todo[t] # <<>> /\ Head(todo[t]) = "look saved"
    BY <1>5 DEF LookSaved
  <2>2. Then(t, Register) \/ Then(t, <<"next saved">>)
    BY <1>5 DEF LookSaved
  <2>3. Register \in Programs /\ <<"next saved">> \in Programs
    BY DEF Programs
  <2> QED
    BY <2>1, <2>2, <2>3 DEF Moves
<1>6. CASE ConnectTarget(t)
  <2>1. todo[t] # <<>> /\ Head(todo[t]) = "connect target"
    BY <1>6 DEF ConnectTarget
  <2>2. Then(t, <<"look target">>) \/ Then(t, <<"report failed">>)
    BY <1>6 DEF ConnectTarget
  <2>3. <<"look target">> \in Programs /\ <<"report failed">> \in Programs
    BY DEF Programs
  <2> QED
    BY <2>1, <2>2, <2>3 DEF Moves
<1>7. CASE LookTarget(t)
  <2>1. todo[t] # <<>> /\ Head(todo[t]) = "look target"
    BY <1>7 DEF LookTarget
  <2>2. Then(t, <<"report success">>) \/ Then(t, <<"report failed">>)
    BY <1>7 DEF LookTarget
  <2>3. <<"report success">> \in Programs /\ <<"report failed">> \in Programs
    BY DEF Programs
  <2> QED
    BY <2>1, <2>2, <2>3 DEF Moves
<1>8. CASE Report(t)
  <2>1. todo[t] # <<>> /\ Head(todo[t]) # "withdraw"
    BY <1>8 DEF Report
  <2>2. Then(t, Register) \/ Then(t, HotspotStart)
    BY <1>8 DEF Report
  <2>3. Register \in Programs /\ HotspotStart \in Programs
    BY DEF Programs
  <2> QED
    BY <2>1, <2>2, <2>3 DEF Moves
<1>9. CASE CabinProfile(t) \/ CabinUp(t)
  <2>1. todo[t] # <<>> /\ (Then(t, <<>>) \/ Raise(t))
    BY <1>9 DEF CabinProfile, CabinUp
  <2>2. <<>> \in Programs /\ <<"exit">> \in Programs
    BY DEF Programs
  <2> QED
    BY <2>1, <2>2 DEF Moves, Raise
<1>10. CASE CabinLook(t)
  <2>1. todo[t] # <<>> /\ Head(todo[t]) = "cabin look"
    BY <1>10 DEF CabinLook
  <2>2. Then(t, Register) \/ Then(t, <<>>)
    BY <1>10 DEF CabinLook
  <2>3. Register \in Programs /\ <<>> \in Programs
    BY DEF Programs
  <2> QED
    BY <2>1, <2>2, <2>3 DEF Moves
<1>11. CASE t = Main /\ (Begin \/ Serve)
  <2>1. \/ Only(t, EnsureCabin \o <<"serve">>) \/ Only(t, Register \o <<"serve">>)
        \/ Only(t, <<"try saved", "serve">>) \/ Only(t, <<>>)
    BY <1>11 DEF Begin, Serve
  <2>2. /\ EnsureCabin \o <<"serve">> \in Programs /\ Register \o <<"serve">> \in Programs
        /\ <<"try saved", "serve">> \in Programs /\ <<>> \in Programs
    BY DEF Programs
  <2> QED
    BY <2>1, <2>2 DEF Moves
<1>12. CASE t = Watchdog /\ Watch
  <2>1. Only(t, <<"cabin look">>) \/ Only(t, EnsureCabin) \/ Only(t, <<"check">>)
    BY <1>12 DEF Watch
  <2>2. <<"cabin look">> \in Programs /\ EnsureCabin \in Programs /\ <<"check">> \in Programs
    BY DEF Programs
  <2> QED
    BY <2>1, <2>2 DEF Moves
<1>13. CASE t = Watchdog /\ Check
  <2>1. todo[t] # <<>> /\ Head(todo[t]) = "check"
    BY <1>13 DEF Check
  <2>2. Then(t, Register) \/ Then(t, <<"try saved">>) \/ Then(t, <<>>)
    BY <1>13 DEF Check
  <2>3. Register \in Programs /\ <<"try saved">> \in Programs /\ <<>> \in Programs
    BY DEF Programs
  <2> QED
    BY <2>1, <2>2, <2>3 DEF Moves
<1>14. CASE t \in Requests /\ Claim(t)
  <2>1. Only(t, HotspotStop \o <<"forget target", "connect target", "switched">>)
    BY <1>14 DEF Claim
  <2>2. HotspotStop \o <<"forget target", "connect target", "switched">> \in Programs
    BY DEF Programs
  <2> QED
    BY <2>1, <2>2 DEF Moves
<1> QED
  BY <1>1, <1>2, <1>3, <1>4, <1>5, <1>6, <1>7, <1>8, <1>9, <1>10, <1>11, <1>12, <1>13, <1>14
     DEF Step

LEMMA MovesKeep ==
    ASSUME StepsNamed, WithdrawnFirst, NEW t \in Threads, Moves(t)
    PROVE  /\ StepsNamed' /\ WithdrawnFirst'
           /\ \A u \in Threads : u # t => todo'[u] = todo[u]
           /\ Does(t, "announce")' => Does(t, "withdraw")
<1> PICK r \in Programs :
        \/ Only(t, r)
        \/ todo[t] # <<>> /\ (r # <<>> => Head(todo[t]) # "withdraw") /\ Then(t, r)
  BY DEF Moves
<1>1. /\ r \in Seq(StepName) /\ After(r, "announce", "withdraw")
      /\ r # <<>> => r[1] # "announce"
  BY ProgramsInOrder DEF InOrder
<1>2. /\ \A u \in Threads : todo[u] \in Seq(StepName) /\ After(todo[u], "announce", "withdraw")
      /\ todo \in [Threads -> Seq(StepName)]
      /\ "announce" \in StepName /\ "withdraw" \in StepName
  BY DEF StepsNamed, WithdrawnFirst, StepName, CabinStep
<1>3. /\ todo' = [todo EXCEPT ![t] = todo'[t]]
      /\ todo'[t] \in Seq(StepName) /\ After(todo'[t], "announce", "withdraw")
      /\ todo'[t] # <<>> /\ Head(todo'[t]) = "announce" => Does(t, "withdraw")
  <2>1. CASE Only(t, r)
    <3>1. todo'[t] = r /\ todo' = [todo EXCEPT ![t] = r]
      BY <1>2, <2>1 DEF Only
    <3>2. r # <<>> => Head(r) = r[1]
      BY <1>1
    <3> QED
      BY <1>1, <3>1, <3>2
  <2>2. CASE todo[t] # <<>> /\ (r # <<>> => Head(todo[t]) # "withdraw") /\ Then(t, r)
    <3>1. todo'[t] = r \o Tail(todo[t]) /\ todo' = [todo EXCEPT ![t] = todo'[t]]
      BY <1>2, <2>2 DEF Then
    <3>2. PICK s \in Seq(StepName) : s = todo[t]
      BY <1>2
    <3>3. s # <<>> /\ Head(s) = s[1]
      BY <2>2, <3>2
    <3>4. After(s, "announce", "withdraw") /\ (r # <<>> => r[1] # "announce" /\ s[1] # "withdraw")
      BY <1>1, <1>2, <2>2, <3>2, <3>3
    <3>5. /\ r \o Tail(s) \in Seq(StepName)
          /\ After(r \o Tail(s), "announce", "withdraw")
          /\ r \o Tail(s) # <<>> /\ Head(r \o Tail(s)) = "announce" => s[1] = "withdraw"
      BY <1>1, <1>2, <3>3, <3>4, Replaced
    <3> QED
      BY <3>1, <3>2, <3>3, <3>5 DEF Does
  <2> QED
    BY <2>1, <2>2
<1>4. todo' \in [Threads -> Seq(StepName)] /\ \A u \in Threads : u # t => todo'[u] = todo[u]
  BY <1>2, <1>3
<1>5. \A u \in Threads : After(todo'[u], "announce", "withdraw")
  BY <1>2, <1>3, <1>4
<1> QED
  BY <1>3, <1>4, <1>5 DEF StepsNamed, WithdrawnFirst, Does

LEMMA EveryRequestMoves ==
    ASSUME NEW r \in Requests, Request(r)
    PROVE  /\ ~serving => FALSE
           /\ UNCHANGED naming
           /\ \/ ~Portable /\ \E p \in Programs : Only(r, p)
              \/ UNCHANGED todo
<1>1. ASSUME NEW q \in Sites, Connect(r, q) PROVE serving /\ UNCHANGED naming /\ ~Portable
             /\ \E p \in Programs : Only(r, p)
  <2>1. Only(r, <<"claim">>) /\ <<"claim">> \in Programs
    BY <1>1 DEF Connect, Programs
  <2> QED
    BY <1>1, <2>1 DEF Connect, Takes
<1>2. ASSUME OpenHotspot(r) PROVE serving /\ UNCHANGED naming /\ ~Portable
             /\ \E p \in Programs : Only(r, p)
  <2>1. Only(r, HotspotStart) /\ HotspotStart \in Programs
    BY <1>2 DEF OpenHotspot, Programs
  <2> QED
    BY <1>2, <2>1 DEF OpenHotspot, Takes
<1>3. ASSUME NEW q, Forget(r, q) PROVE serving /\ UNCHANGED naming /\ UNCHANGED todo
  BY <1>3 DEF Forget, Takes
<1> QED
  BY <1>1, <1>2, <1>3 DEF Request

LEMMA ThreadsFinite == IsFiniteSet(Threads)
<1>1. IsFiniteSet(1..MaxRequests)
  BY NetworkAssumption, FS_Interval
<1>2. IsFiniteSet({Main, Watchdog})
  <2>1. IsFiniteSet({Main}) /\ {Main, Watchdog} = {Main} \cup {Watchdog}
    BY FS_Singleton
  <2> QED
    BY <2>1, FS_AddElement
<1> QED
  BY <1>1, <1>2, FS_Union DEF Threads, Requests

(* What Racing counts: while nothing has raced one thread is at work.        *)
LEMMA RacingCounts ==
    ASSUME Racing
    PROVE  (raced => raced') /\ Alone'
<1>1. raced => raced'
  BY DEF Racing
<1>2. ASSUME ~raced', NEW t \in Threads, NEW u \in Threads,
             todo'[t] # <<>>, todo'[u] # <<>>, t # u
      PROVE  FALSE
  <2> DEFINE B == {x \in Threads : todo'[x] # <<>>}
  <2>1. B = Busy' /\ (Cardinality(Busy') > 1 => raced')
    BY DEF Racing, Busy
  <2>2. IsFiniteSet(B) /\ {t, u} \subseteq B
    BY <1>2, ThreadsFinite, FS_Subset
  <2>3. Cardinality({t, u}) = 2
    <3>1. IsFiniteSet({t}) /\ Cardinality({t}) = 1 /\ {t, u} = {t} \cup {u} /\ u \notin {t}
      BY <1>2, FS_Singleton
    <3> QED
      BY <3>1, FS_AddElement
  <2>4. Cardinality(B) \in Nat /\ Cardinality({t, u}) <= Cardinality(B)
    BY <2>2, FS_Subset, FS_CardinalityType
  <2> QED
    <3>1. Cardinality(B) > 1
      BY <2>3, <2>4
    <3>2. Cardinality(Busy') > 1
      BY <2>1, <3>1
    <3> QED
      BY <1>2, <2>1, <3>2
<1> QED
  BY <1>1, <1>2 DEF Alone

(* The two steps of mdns_register are all that touch the announcement.       *)
LEMMA OnlyRegistering ==
    ASSUME NEW t \in Threads, Step(t)
    PROVE  Withdraw(t) \/ Announce(t) \/ UNCHANGED naming
<1> USE DEF naming
<1>1. CASE StopHotspot(t) \/ StartHotspot(t) \/ TrySaved(t) \/ NextSaved(t) \/ LookSaved(t)
           \/ ForgetTarget(t) \/ ConnectTarget(t) \/ LookTarget(t) \/ Report(t) \/ Switched(t)
  BY <1>1 DEF StopHotspot, StartHotspot, TrySaved, NextSaved, LookSaved, ForgetTarget,
              ConnectTarget, LookTarget, Report, Switched
<1>2. CASE CabinProfile(t) \/ CabinUp(t) \/ CabinLook(t) \/ Begin \/ Serve \/ Watch \/ Check
           \/ Claim(t)
  BY <1>2 DEF CabinProfile, CabinUp, CabinLook, Begin, Serve, Watch, Check, Claim
<1> QED
  BY <1>1, <1>2 DEF Step

NamingInv == StepsNamed /\ Alone /\ WithdrawnFirst /\ NothingLeft /\ OneAnnouncement

LEMMA ThreadKeepsNaming ==
    ASSUME NamingInv, NEW t \in Threads, Run(t)
    PROVE  NamingInv'
<1> USE DEF NamingInv
<1>1. Step(t) /\ Racing
  BY DEF Run
<1>2. (raced => raced') /\ Alone'
  BY <1>1, RacingCounts
<1>3. /\ StepsNamed' /\ WithdrawnFirst'
      /\ \A u \in Threads : u # t => todo'[u] = todo[u]
      /\ Does(t, "announce")' => Does(t, "withdraw")
  BY <1>1, EveryStepMoves, MovesKeep
<1>4. Withdraw(t) \/ Announce(t) \/ UNCHANGED naming
  BY <1>1, OnlyRegistering
<1>5. Does(t, "withdraw") => Withdraw(t)
  BY <1>1 DEF Step, Does, Withdraw, StopHotspot, StartHotspot, Announce, TrySaved, NextSaved,
     LookSaved, ForgetTarget, ConnectTarget, LookTarget, Report, Switched, CabinProfile,
     CabinUp, CabinLook, Begin, Serve, Watch, Check, Claim
<1>6. OneAnnouncement'
  <2>1. CASE Withdraw(t)
    BY <1>2, <2>1 DEF Withdraw, OneAnnouncement
  <2>2. CASE Announce(t)
    <3>1. raced \/ (announced \subseteq leaked /\ mdns = NoAddr)
      BY <2>2 DEF Announce, NothingLeft
    <3> QED
      BY <1>2, <2>2, <3>1 DEF Announce, OneAnnouncement
  <2>3. CASE UNCHANGED naming
    BY <1>2, <2>3 DEF naming, OneAnnouncement
  <2> QED
    BY <1>4, <2>1, <2>2, <2>3
<1>7. NothingLeft'
  <2> SUFFICES ASSUME ~raced', NEW u \in Threads, Does(u, "announce")'
               PROVE  announced' \subseteq leaked' /\ held' = NoAddr /\ mdns' = NoAddr
    BY DEF NothingLeft
  <2>1. CASE u = t
    <3>1. Withdraw(t)
      BY <1>3, <1>5, <2>1
    <3> QED
      BY <1>2, <3>1 DEF Withdraw, OneAnnouncement
  <2>2. CASE u # t
    <3>1. Does(u, "announce")
      BY <1>3, <2>2 DEF Does
    <3>2. announced \subseteq leaked /\ held = NoAddr /\ mdns = NoAddr
      BY <1>2, <3>1 DEF NothingLeft
    <3>3. todo[t] = <<>>
      BY <1>2, <2>2, <3>1 DEF Alone, Does
    <3>4. UNCHANGED naming
      BY <1>4, <3>3 DEF Withdraw, Announce, Does
    <3> QED
      BY <3>2, <3>4 DEF naming
  <2> QED
    BY <2>1, <2>2
<1> QED
  BY <1>2, <1>3, <1>6, <1>7

LEMMA RequestKeepsNaming ==
    ASSUME NamingInv, NEW r \in Requests, Request(r), Racing
    PROVE  NamingInv'
<1> USE DEF NamingInv
<1>1. (raced => raced') /\ Alone'
  BY RacingCounts
<1>2. UNCHANGED naming /\ r \in Threads
  BY EveryRequestMoves DEF Threads
<1>3. CASE UNCHANGED todo
  BY <1>1, <1>2, <1>3
     DEF naming, StepsNamed, WithdrawnFirst, NothingLeft, OneAnnouncement, Does
<1>4. ASSUME NEW p \in Programs, Only(r, p) PROVE NamingInv'
  <2>1. /\ StepsNamed' /\ WithdrawnFirst'
        /\ \A u \in Threads : u # r => todo'[u] = todo[u]
    BY <1>2, <1>4, MovesKeep DEF Moves
  <2>2. ~Does(r, "announce")'
    <3>1. p \in Seq(StepName) /\ (p # <<>> => p[1] # "announce")
      BY ProgramsInOrder DEF InOrder
    <3>2. p # <<>> => Head(p) # "announce"
      BY <3>1
    <3>3. todo'[r] = p
      BY <1>2, <1>4 DEF Only, StepsNamed
    <3> QED
      BY <3>2, <3>3 DEF Does
  <2>3. ASSUME ~raced', NEW u \in Threads, Does(u, "announce")'
        PROVE  announced' \subseteq leaked' /\ held' = NoAddr /\ mdns' = NoAddr
    <3>1. u # r /\ Does(u, "announce")
      BY <2>1, <2>2, <2>3 DEF Does
    <3> QED
      BY <1>1, <1>2, <2>3, <3>1 DEF naming, NothingLeft
  <2> QED
    BY <1>1, <1>2, <2>1, <2>3 DEF naming, NothingLeft, OneAnnouncement
<1> QED
  BY <1>3, <1>4, EveryRequestMoves

(* A start of the service: only main has something to do.                    *)
LEMMA StoppedIsFresh ==
    ASSUME Stopped
    PROVE  NamingInv'
<1>1. /\ todo' = [t \in Threads |-> IF t = Main THEN Startup ELSE <<>>]
      /\ announced' = {} /\ mdns' = NoAddr /\ held' = NoAddr /\ InOrder(Startup) /\ InOrder(<<>>)
  BY ProgramsInOrder DEF Stopped, Programs
<1>2. StepsNamed'
  BY <1>1 DEF StepsNamed, InOrder
<1>3. WithdrawnFirst'
  BY <1>1 DEF WithdrawnFirst, InOrder
<1>4. Alone' /\ NothingLeft' /\ OneAnnouncement'
  BY <1>1 DEF Alone, NothingLeft, OneAnnouncement, Does, Startup
<1> QED
  BY <1>2, <1>3, <1>4 DEF NamingInv

LEMMA InitNaming == Init => NamingInv
<1> SUFFICES ASSUME Init PROVE NamingInv
  OBVIOUS
<1>1. /\ todo = [t \in Threads |-> IF t = Main THEN Startup ELSE <<>>]
      /\ announced = {} /\ mdns = NoAddr /\ held = NoAddr /\ InOrder(Startup) /\ InOrder(<<>>)
  BY ProgramsInOrder DEF Init, Programs
<1>2. StepsNamed
  BY <1>1 DEF StepsNamed, InOrder
<1>3. WithdrawnFirst
  BY <1>1 DEF WithdrawnFirst, InOrder
<1>4. Alone /\ NothingLeft /\ OneAnnouncement
  BY <1>1 DEF Alone, NothingLeft, OneAnnouncement, Does, Startup
<1> QED
  BY <1>2, <1>3, <1>4 DEF NamingInv

LEMMA NetworkKeepsAround ==
    ASSUME Network
    PROVE  UNCHANGED around
  BY DEF Network, Leave, Return, AutoConnect, Address, Renew, Drop, outside, around

LEMMA NextKeepsNaming == NamingInv /\ [Next]_vars => NamingInv'
<1> SUFFICES ASSUME NamingInv, [Next]_vars PROVE NamingInv'
  OBVIOUS
<1>1. CASE Terminate \/ Kill \/ Exit
  BY <1>1, StoppedIsFresh DEF Terminate, Kill, Exit
<1>2. CASE Network \/ UNCHANGED vars
  <2>1. UNCHANGED <<todo, naming, raced>>
    BY <1>2, NetworkKeepsAround DEF around, naming, vars
  <2> QED
    BY <2>1 DEF NamingInv, StepsNamed, Alone, WithdrawnFirst, NothingLeft, OneAnnouncement, Does,
       naming
<1> QED
  BY <1>1, <1>2, ThreadKeepsNaming, RequestKeepsNaming DEF Next

(* What is announced is what the service holds the handles of, or was left   *)
(* by a withdrawal that failed, unless two threads registered at once: while *)
(* no two were at work, nothing else is left announced where an address is   *)
(* about to be.                                                              *)
THEOREM OneAddressAnnounced == Spec => []OneAnnouncement
<1>1. NamingInv => OneAnnouncement
  BY DEF NamingInv
<1> QED
  BY <1>1, InitNaming, NextKeepsNaming, PTL DEF Spec

-----------------------------------------------------------------------------
(* Portable mode                                                             *)

CabinInv == StepsNamed /\ WithdrawnFirst /\ OnlyCabin

LEMMA CabinPrograms ==
    /\ EnsureCabin \in Seq(CabinStep) /\ EnsureCabin \o <<"serve">> \in Seq(CabinStep)
    /\ Register \in Seq(CabinStep) /\ Startup \in Seq(CabinStep)
    /\ <<>> \in Seq(CabinStep) /\ <<"exit">> \in Seq(CabinStep)
    /\ <<"cabin look">> \in Seq(CabinStep)
  BY DEF EnsureCabin, Register, Startup, CabinStep

(* What a step of a thread, a request or the network does in portable mode.  *)
KeepsCabin ==
    /\ \A t \in Threads : todo'[t] \in Seq(CabinStep)
    /\ Cabin \in profiles => Cabin \in profiles'
    /\ active' # Hotspot

LEMMA ProgramOfCabin ==
    ASSUME StepsNamed, NEW t \in Threads, NEW r \in Seq(CabinStep), Then(t, r) \/ Only(t, r),
           \A u \in Threads : todo[u] \in Seq(CabinStep), todo[t] # <<>> \/ Only(t, r)
    PROVE  \A u \in Threads : todo'[u] \in Seq(CabinStep)
<1>1. todo \in [Threads -> Seq(StepName)]
  BY DEF StepsNamed
<1>2. todo'[t] \in Seq(CabinStep)
  <2>1. CASE Only(t, r)
    BY <1>1, <2>1 DEF Only
  <2>2. CASE Then(t, r) /\ todo[t] # <<>>
    <3>1. todo'[t] = r \o Tail(todo[t]) /\ todo[t] \in Seq(CabinStep)
      BY <1>1, <2>2 DEF Then
    <3>2. Tail(todo[t]) \in Seq(CabinStep)
      BY <2>2, <3>1
    <3> QED
      BY <3>1, <3>2
  <2> QED
    BY <2>1, <2>2
<1>3. \A u \in Threads : u # t => todo'[u] = todo[u]
  BY <1>1 DEF Then, Only
<1> QED
  BY <1>2, <1>3

LEMMA ThreadKeepsCabin ==
    ASSUME StepsNamed, OnlyCabin, Portable, NEW t \in Threads, Step(t)
    PROVE  KeepsCabin
<1>1. /\ \A u \in Threads : todo[u] \in Seq(CabinStep)
      /\ active # Hotspot /\ Hotspot # Cabin /\ Hotspot # NoNet
  BY NetworkAssumption DEF OnlyCabin
<1>2. todo[t] # <<>> => Head(todo[t]) \in CabinStep
  BY <1>1
<1>3. CASE Withdraw(t) \/ Announce(t)
  <2>1. todo[t] # <<>> /\ Then(t, <<>>) /\ UNCHANGED <<profiles, active>>
    BY <1>3 DEF Withdraw, Announce, Does, nm
  <2> QED
    BY <1>1, <2>1, CabinPrograms, ProgramOfCabin DEF KeepsCabin
<1>4. CASE CabinProfile(t)
  <2>1. /\ todo[t] # <<>> /\ UNCHANGED active
        /\ Cabin \in profiles => Cabin \in profiles'
    BY <1>4 DEF CabinProfile, Does
  <2>2. Then(t, <<>>) \/ Only(t, <<"exit">>) \/ Only(t, <<>>)
    BY <1>4 DEF CabinProfile, Raise
  <2> QED
    BY <1>1, <2>1, <2>2, CabinPrograms, ProgramOfCabin DEF KeepsCabin
<1>5. CASE CabinUp(t)
  <2>1. todo[t] # <<>> /\ UNCHANGED profiles
    BY <1>5 DEF CabinUp, Does
  <2>2. active' # Hotspot
    BY <1>1, <1>5 DEF CabinUp, Up, Down
  <2>3. Then(t, <<>>) \/ Only(t, <<"exit">>) \/ Only(t, <<>>)
    BY <1>5 DEF CabinUp, Raise
  <2> QED
    BY <1>1, <2>1, <2>2, <2>3, CabinPrograms, ProgramOfCabin DEF KeepsCabin
<1>6. CASE CabinLook(t)
  <2>1. todo[t] # <<>> /\ UNCHANGED <<profiles, active>>
    BY <1>6 DEF CabinLook, Does, nm
  <2>2. Then(t, <<>>) \/ Then(t, Register)
    BY <1>6 DEF CabinLook
  <2> QED
    BY <1>1, <2>1, <2>2, CabinPrograms, ProgramOfCabin DEF KeepsCabin
<1>7. CASE t = Main /\ Begin
  <2>1. UNCHANGED <<profiles, active>> /\ Only(t, EnsureCabin \o <<"serve">>)
    BY <1>7 DEF Begin, nm
  <2> QED
    BY <1>1, <2>1, CabinPrograms, ProgramOfCabin DEF KeepsCabin
<1>8. CASE t = Main /\ Serve
  <2>1. UNCHANGED <<profiles, active>> /\ Only(t, <<>>)
    BY <1>8 DEF Serve, nm
  <2> QED
    BY <1>1, <2>1, CabinPrograms, ProgramOfCabin DEF KeepsCabin
<1>9. CASE t = Watchdog /\ Watch
  <2>1. UNCHANGED <<profiles, active>> /\ (Only(t, <<"cabin look">>) \/ Only(t, EnsureCabin))
    BY <1>9 DEF Watch, nm
  <2> QED
    BY <1>1, <2>1, CabinPrograms, ProgramOfCabin DEF KeepsCabin
<1>10. CASE StopHotspot(t) \/ StartHotspot(t) \/ TrySaved(t) \/ NextSaved(t) \/ LookSaved(t)
           \/ ForgetTarget(t) \/ ConnectTarget(t) \/ LookTarget(t) \/ Report(t) \/ Switched(t)
           \/ (t = Watchdog /\ Check) \/ Claim(t)
  <2>1. todo[t] # <<>> => Head(todo[t]) \in CabinStep
    BY <1>2
  <2> QED
    BY <1>10, <2>1 DEF StopHotspot, StartHotspot, TrySaved, NextSaved, LookSaved,
       ForgetTarget, ConnectTarget, LookTarget, Report, Switched, Check, Claim, Does, CabinStep
<1> QED
  BY <1>3, <1>4, <1>5, <1>6, <1>7, <1>8, <1>9, <1>10 DEF Step

LEMMA RequestKeepsCabin ==
    ASSUME NEW r \in Requests, Request(r), OnlyCabin, Portable
    PROVE  KeepsCabin
<1>1. UNCHANGED todo
  BY EveryRequestMoves
<1>2. PICK name : Forget(r, name)
  BY DEF Request, Connect, OpenHotspot
<1>3. MayForget(name) /\ Delete(Resolve(name))
  BY <1>2 DEF Forget
<1>4. Resolve(name) # Cabin
  BY <1>3 DEF MayForget
<1>5. (Cabin \in profiles => Cabin \in profiles') /\ active' # Hotspot
  BY <1>3, <1>4, NetworkAssumption DEF Delete, OnlyCabin
<1> QED
  BY <1>1, <1>5 DEF KeepsCabin, OnlyCabin

LEMMA RestKeepsCabin ==
    ASSUME OnlyCabin, Portable, Terminate \/ Kill \/ Exit \/ Network \/ UNCHANGED vars
    PROVE  KeepsCabin
<1>1. CASE Terminate \/ Kill \/ Exit
  <2>1. UNCHANGED <<profiles, active>>
    BY <1>1 DEF Terminate, Kill, Exit
  <2>2. todo' = [t \in Threads |-> IF t = Main THEN Startup ELSE <<>>]
    BY <1>1 DEF Terminate, Kill, Exit, Stopped
  <2> QED
    BY <2>1, <2>2, CabinPrograms DEF KeepsCabin, OnlyCabin
<1>2. CASE Network
  <2>1. UNCHANGED <<profiles, todo>>
    BY <1>2, NetworkKeepsAround DEF around
  <2>2. active' # Hotspot
    BY <1>2, NetworkAssumption
       DEF Network, Leave, Return, AutoConnect, Address, Renew, Drop, Up, OnlyCabin
  <2> QED
    BY <2>1, <2>2 DEF KeepsCabin, OnlyCabin
<1>3. CASE UNCHANGED vars
  BY <1>3 DEF vars, nm, KeepsCabin, OnlyCabin
<1> QED
  BY <1>1, <1>2, <1>3

LEMMA NextKeepsCabin == NamingInv /\ OnlyCabin /\ [Next]_vars => OnlyCabin' /\ (Portable => KeepsCabin)
<1> SUFFICES ASSUME NamingInv, OnlyCabin, [Next]_vars PROVE OnlyCabin' /\ (Portable => KeepsCabin)
  OBVIOUS
<1>1. UNCHANGED mode
  <2>1. CASE \E t \in Threads : Run(t)
    BY <2>1 DEF Run, Step, StopHotspot, StartHotspot, Withdraw, Announce, TrySaved, NextSaved,
       LookSaved, ForgetTarget, ConnectTarget, LookTarget, Report, Switched, CabinProfile,
       CabinUp, CabinLook, Begin, Serve, Watch, Check, Claim
  <2>2. CASE \E r \in Requests : Request(r)
    BY <2>2 DEF Request, Connect, OpenHotspot, Forget
  <2>3. CASE Terminate \/ Kill \/ Exit \/ Network \/ UNCHANGED vars
    BY <2>3, NetworkKeepsAround DEF Terminate, Kill, Exit, Stopped, around, vars
  <2> QED
    BY <2>1, <2>2, <2>3 DEF Next
<1>2. ASSUME Portable PROVE KeepsCabin
  BY <1>2, ThreadKeepsCabin, RequestKeepsCabin, RestKeepsCabin DEF Next, Run, NamingInv
<1>3. OnlyCabin'
  <2>1. Portable' => Portable
    BY <1>1 DEF Portable
  <2> QED
    BY <1>2, <2>1 DEF OnlyCabin, KeepsCabin
<1> QED
  BY <1>2, <1>3

LEMMA InitCabin == Init => OnlyCabin
<1> SUFFICES ASSUME Init PROVE OnlyCabin
  OBVIOUS
<1>1. todo = [t \in Threads |-> IF t = Main THEN Startup ELSE <<>>] /\ active = NoNet
  BY DEF Init
<1> QED
  BY <1>1, CabinPrograms, NetworkAssumption DEF OnlyCabin

(* In portable mode the service never loses the profile of the Cabin AP and  *)
(* never brings up the temporary hotspot: no thread comes by a step of the   *)
(* hotspot or of a switch, and no request names the profile.                 *)
THEOREM PortableKeepsCabin == Spec => CabinKept
<1>1. NamingInv /\ OnlyCabin /\ [Next]_vars =>
         [Portable => (Cabin \in profiles => Cabin \in profiles') /\ active' # Hotspot]_vars
  BY NextKeepsCabin DEF KeepsCabin
<1> QED
  BY <1>1, InitNaming, NextKeepsNaming, InitCabin, NextKeepsCabin, PTL DEF Spec, CabinKept

-----------------------------------------------------------------------------
(* The agent campaign *)

LEMMA ElementsOf == ASSUME NEW S, NEW s \in Seq(S) PROVE \A k \in DOMAIN s : s[k] \in S
OBVIOUS

LEMMA StepsArePhases ==
  /\ Steps[1].phase \in Phases
  /\ \A k \in Nat \ {0} : k <= Len(Steps) => Steps[k].phase \in Phases /\ Steps[k].repairs \in Nat
<1>1. \A k \in DOMAIN Steps : Steps[k] \in [phase : Phases, repairs : Nat]
  BY StepsAssumption, ElementsOf
<1>2. DOMAIN Steps = 1 .. Len(Steps) /\ Len(Steps) \in Nat \ {0}
  BY StepsAssumption
<1>3. \A k \in 1 .. Len(Steps) : Steps[k].phase \in Phases /\ Steps[k].repairs \in Nat
  BY <1>1, <1>2
<1> QED BY <1>2, <1>3

Pipes == [at : Places, phase : Phases, repairs : Nat, limit : Nat, keep : BOOLEAN]
Campaigns == [at : {"idle", "running", "failed", "passed"}, step : Nat \ {0}]

(* What passed the gate, in the worktree of an existing branch, is in scope until it is committed, on its branch and
   on the campaign branch. *)
ReviewInScope ==
  pipe.at \in {"review", "commit"} => tree[pipe.phase] \in [files : SUBSET Allowed(pipe.phase)]

BranchThere ==
  pipe.at \in {"link", "codex", "gate", "review", "commit"} => branch[pipe.phase] \in Branches

BranchesInScope ==
  \A p \in Phases : branch[p] # None => \/ branch[p].commit = None
                                        \/ /\ branch[p].commit.files \subseteq Allowed(p)
                                           /\ branch[p].commit.phase = p

ScopeInv == TypeOK /\ ReviewInScope /\ BranchThere /\ BranchesInScope /\ TrunkInScope

LEMMA GotoPlace ==
  ASSUME NEW at \in Places, pipe \in Pipes, Goto(at)
  PROVE  /\ pipe' \in Pipes
         /\ pipe'.at = at /\ pipe'.phase = pipe.phase
<1>1. pipe' = [pipe EXCEPT !.at = at]
  BY DEF Goto
<1> QED BY <1>1 DEF Pipes

LEMMA RepairPlace ==
  ASSUME pipe \in Pipes, RepairOrGiveUp
  PROVE  /\ pipe' \in Pipes
         /\ pipe'.at \in {"codex", "fail"} /\ pipe'.phase = pipe.phase
<1> "codex" \in Places /\ "fail" \in Places
  BY DEF Places
<1>1. CASE MayRepair
  <2>1. pipe' = [pipe EXCEPT !.at = "codex", !.repairs = @ + 1]
    BY <1>1 DEF RepairOrGiveUp
  <2>2. pipe.repairs + 1 \in Nat
    BY DEF Pipes
  <2>3. /\ pipe'.at = "codex" /\ pipe'.phase = pipe.phase
        /\ pipe' \in Pipes
    BY <2>1, <2>2 DEF Pipes
  <2> QED BY <2>3
<1>2. CASE ~MayRepair
  BY <1>2, GotoPlace DEF RepairOrGiveUp
<1> QED BY <1>1, <1>2

LEMMA NoRunPlace == NoRun \in Pipes /\ NoRun.at = "idle"
BY StepsArePhases DEF NoRun, Pipes, Places

LEMMA FailsPlace ==
  ASSUME campaign \in Campaigns, CampaignFails
  PROVE  campaign' \in Campaigns
BY DEF CampaignFails, Campaigns

LEMMA AppendedLast ==
  ASSUME NEW S, NEW s \in Seq(S), NEW e \in S
  PROVE  \A i \in DOMAIN Append(s, e) :
           \/ i = Len(s) + 1 /\ Append(s, e)[i] = e
           \/ i \in DOMAIN s /\ Append(s, e)[i] = s[i]
OBVIOUS

(* A cleanup leaves every other branch as it was. *)
LEMMA CleanedKept ==
  ASSUME ScopeInv, NEW p \in Phases, NEW force, CleanUp(p, force)
  PROVE  /\ tree' \in [Phases -> {None} \union [files : SUBSET Files]]
         /\ branch' \in [Phases -> {None} \union Branches]
         /\ BranchesInScope'
<1>1. tree' \in [Phases -> {None} \union [files : SUBSET Files]]
  BY DEF CleanUp, ScopeInv, TypeOK
<1>2. branch' \in {branch, [branch EXCEPT ![p] = None]}
  BY DEF CleanUp
<1>3. branch' \in [Phases -> {None} \union Branches]
  BY <1>2 DEF ScopeInv, TypeOK
<1>4. \A q \in Phases : branch'[q] # None => branch'[q] = branch[q]
  BY <1>2 DEF ScopeInv, TypeOK
<1> QED BY <1>1, <1>3, <1>4 DEF ScopeInv, BranchesInScope

(* A step of the pipeline keeps the files in scope: only the gate leads to the
   review, and only a review that changed no file leads to the commit. *)
LEMMA PipelineKeepsScope ==
  ASSUME ScopeInv, PipelineStep PROVE ScopeInv'
<1> USE DEF ScopeInv
<1>0. /\ pipe \in Pipes /\ pipe.phase \in Phases
      /\ "create" \in Places /\ "link" \in Places /\ "failed" \in Places /\ "fail" \in Places /\ "codex" \in Places
      /\ "gate" \in Places /\ "review" \in Places /\ "commit" \in Places
      /\ "remove" \in Places /\ "result" \in Places /\ "done" \in Places /\ "cleanup" \in Places
  BY DEF TypeOK, hand, Pipes, Places
<1>a. ASSUME pipe' \in Pipes, UNCHANGED git, UNCHANGED <<campaign, hand>>,
             pipe'.at \notin {"link", "codex", "gate", "review", "commit"}
      PROVE  ScopeInv'
  BY <1>a DEF git, TypeOK, hand, Pipes, ReviewInScope, BranchThere, BranchesInScope, TrunkInScope
<1>b. ASSUME NEW files \in SUBSET Files, Rewrite(files), pipe' \in Pipes, pipe'.phase = pipe.phase,
             pipe'.at \in {"review", "commit"} => files \subseteq Allowed(pipe.phase),
             pipe.at \in {"codex", "gate", "review"},
             UNCHANGED <<trunk, branch, report, campaign, hand>>
      PROVE  ScopeInv'
  <2>1. [files |-> files] \in [files : SUBSET Files]
    OBVIOUS
  <2>2. tree' \in [Phases -> {None} \union [files : SUBSET Files]]
    BY <2>1, <1>b DEF Rewrite, TypeOK
  <2>3. tree'[pipe.phase] = [files |-> files]
    BY <1>0, <1>b DEF Rewrite, TypeOK
  <2>4. ReviewInScope'
    BY <2>3, <1>b DEF ReviewInScope
  <2> QED BY <2>2, <2>4, <1>b DEF TypeOK, hand, Pipes, BranchThere, BranchesInScope, TrunkInScope
<1>1. CASE CreateWorktree
  <2>1. pipe' \in Pipes /\ pipe'.at \in {"link", "failed"}
    BY <1>0, <1>1, GotoPlace DEF CreateWorktree, NoContext
  <2>2. CASE NoContext
    <3>1. pipe'.at = "failed" /\ UNCHANGED git /\ UNCHANGED <<campaign, hand>>
      BY <2>2, <1>0, GotoPlace DEF NoContext
    <3> QED BY <2>1, <3>1, <1>a
  <2>3. CASE ~NoContext
    <3>1. /\ branch' = [branch EXCEPT ![pipe.phase] = Plan]
          /\ tree' = [tree EXCEPT ![pipe.phase] = [files |-> {}]]
          /\ UNCHANGED <<trunk, report, campaign, hand>>
      BY <2>3, <1>1 DEF CreateWorktree
    <3>2. Plan \in Branches /\ Plan.commit = None
      BY DEF TypeOK, Branches, Plan
    <3>3. branch' \in [Phases -> {None} \union Branches]
      BY <3>1, <3>2 DEF TypeOK
    <3>4. tree' \in [Phases -> {None} \union [files : SUBSET Files]]
      BY <3>1 DEF TypeOK
    <3>5. pipe'.phase = pipe.phase
      BY <2>3, <1>0, <1>1, GotoPlace DEF CreateWorktree, NoContext
    <3> QED BY <3>1, <3>2, <3>3, <3>4, <3>5, <2>1, <1>0
            DEF TypeOK, hand, Pipes, ReviewInScope, BranchThere, BranchesInScope, TrunkInScope
  <2> QED BY <2>2, <2>3
<1>2. CASE LinkPython
  <2>1. pipe' \in Pipes /\ pipe'.at \in {"codex", "failed"} /\ pipe'.phase = pipe.phase
    BY <1>0, <1>2, GotoPlace DEF LinkPython, NoContext
  <2> QED BY <2>1, <1>2 DEF LinkPython, NoContext, git, TypeOK, hand, Pipes, ReviewInScope,
             BranchThere, BranchesInScope, TrunkInScope
<1>3. CASE RunCodex
  <2>1. pipe' \in Pipes /\ pipe'.at \in {"gate", "fail"} /\ pipe'.phase = pipe.phase
    BY <1>0, <1>3, GotoPlace DEF RunCodex
  <2>2. PICK files \in SUBSET Files : Rewrite(files)
    BY <1>3 DEF RunCodex
  <2>3. pipe.at = "codex" /\ UNCHANGED <<trunk, branch, report, campaign, hand>>
    BY <1>3 DEF RunCodex
  <2>4. pipe'.at \notin {"review", "commit"} /\ pipe.at \in {"codex", "gate", "review"}
    BY <2>1, <2>3
  <2> QED BY <2>1, <2>2, <2>3, <2>4, <1>b
<1>4. CASE QualityGate
  <2>1. PICK files \in SUBSET Files :
          Rewrite(files) /\ (Goto("fail") \/ (InScope(files) /\ Goto("review")) \/ RepairOrGiveUp)
    BY <1>4 DEF QualityGate
  <2>2. CASE InScope(files) /\ Goto("review")
    <3>1. pipe' \in Pipes /\ pipe'.phase = pipe.phase
      BY <1>0, <2>2, GotoPlace
    <3> QED BY <3>1, <2>1, <2>2, <1>4, <1>b DEF QualityGate, InScope
  <2>3. CASE RepairOrGiveUp \/ Goto("fail")
    <3>1. pipe' \in Pipes /\ pipe'.phase = pipe.phase /\ pipe'.at \in {"codex", "fail"}
      BY <1>0, <2>3, RepairPlace, GotoPlace
    <3> QED BY <3>1, <2>1, <1>4, <1>b DEF QualityGate
  <2> QED BY <2>1, <2>2, <2>3
<1>5. CASE Review
  <2>1. PICK files \in SUBSET Files :
          /\ Rewrite(files)
          /\ \/ Goto("fail")
             \/ RepairOrGiveUp
             \/ ReviewAccepted(Worktree.files, files) /\ Goto("commit")
    BY <1>5 DEF Review
  <2>2. CASE RepairOrGiveUp \/ Goto("fail")
    <3>1. pipe' \in Pipes /\ pipe'.phase = pipe.phase /\ pipe'.at \in {"codex", "fail"}
      BY <1>0, <2>2, RepairPlace, GotoPlace
    <3> QED BY <3>1, <2>1, <1>5, <1>b DEF Review
  <2>3. CASE ReviewAccepted(Worktree.files, files) /\ Goto("commit")
    <3>1. pipe' \in Pipes /\ pipe'.phase = pipe.phase
      BY <1>0, <2>3, GotoPlace
    <3>2. Worktree \in [files : SUBSET Allowed(pipe.phase)]
      BY <1>5 DEF Review, ReviewInScope, Worktree
    <3>3. files \subseteq Allowed(pipe.phase)
      BY <3>2, <2>3 DEF ReviewAccepted
    <3> QED BY <3>1, <3>3, <2>1, <1>5, <1>b DEF Review
  <2> QED BY <2>1, <2>2, <2>3
<1>6. CASE Commit
  <2>1. pipe' \in Pipes /\ pipe'.at \in {"remove", "fail"}
    BY <1>0, <1>6, GotoPlace DEF Commit, CommandRaises
  <2>2. CASE UNCHANGED git
    BY <2>1, <2>2, <1>6, <1>a DEF Commit, CommandRaises
  <2>3. CASE ~UNCHANGED git
    <3> DEFINE c == [phase |-> pipe.phase, files |-> Worktree.files]
    <3>1. /\ branch' = [branch EXCEPT ![pipe.phase].commit = c]
          /\ tree' = [tree EXCEPT ![pipe.phase] = [files |-> {}]]
          /\ UNCHANGED <<trunk, report, campaign, hand>>
      BY <2>3, <1>6 DEF Commit, CommandRaises
    <3>2. Worktree \in [files : SUBSET Allowed(pipe.phase)]
      BY <1>6 DEF Commit, ReviewInScope, Worktree
    <3>3. c \in Commits /\ c.files \subseteq Allowed(pipe.phase) /\ c.phase = pipe.phase
      BY <3>2, <1>0 DEF Commits, Allowed
    <3>4. branch[pipe.phase] \in Branches
      BY <1>6 DEF Commit, BranchThere
    <3>5. [branch[pipe.phase] EXCEPT !.commit = c] \in Branches
      BY <3>3, <3>4 DEF Branches
    <3>6. branch' = [branch EXCEPT ![pipe.phase] = [branch[pipe.phase] EXCEPT !.commit = c]]
      BY <3>1
    <3>7. branch' \in [Phases -> {None} \union Branches]
      BY <3>5, <3>6 DEF TypeOK
    <3>8. tree' \in [Phases -> {None} \union [files : SUBSET Files]]
      BY <3>1 DEF TypeOK
    <3>9. TypeOK'
      BY <3>1, <3>7, <3>8, <2>1 DEF TypeOK, hand, Pipes
    <3>10. [branch[pipe.phase] EXCEPT !.commit = c].commit = c
      BY <3>4 DEF Branches
    <3>11. \A p \in Phases : branch'[p] = IF p = pipe.phase
               THEN [branch[pipe.phase] EXCEPT !.commit = c] ELSE branch[p]
      BY <3>6 DEF TypeOK
    <3>12. BranchesInScope'
      BY <3>3, <3>10, <3>11 DEF BranchesInScope
    <3> QED BY <3>1, <3>9, <3>12, <2>1 DEF ReviewInScope, BranchThere, TrunkInScope
  <2> QED BY <2>2, <2>3
<1>7. CASE RemoveWorktree
  <2>1. pipe' \in Pipes /\ pipe'.at \in {"result", "fail"}
    BY <1>0, <1>7, GotoPlace DEF RemoveWorktree, CommandRaises
  <2> QED BY <2>1, <1>7 DEF RemoveWorktree, CommandRaises, git, TypeOK, hand, Pipes, ReviewInScope,
             BranchThere, BranchesInScope, TrunkInScope
<1>8. CASE WriteResult
  <2>1. pipe' \in Pipes /\ pipe'.at \in {"done", "fail"}
    BY <1>0, <1>8, GotoPlace DEF WriteResult, CommandRaises
  <2> QED BY <2>1, <1>8 DEF WriteResult, CommandRaises, git, TypeOK, hand, Pipes, ReviewInScope,
             BranchThere, BranchesInScope, TrunkInScope
<1>9. CASE Fail
  <2>1. pipe' \in Pipes /\ pipe'.at \in {"failed", "cleanup"}
    BY <1>0, <1>9, GotoPlace DEF Fail
  <2> QED BY <2>1, <1>9 DEF Fail, TypeOK, hand, Pipes, ReviewInScope, BranchThere, BranchesInScope,
             TrunkInScope
<1>10. CASE Cleanup
  <2>1. pipe' \in Pipes /\ pipe'.at = "failed"
    BY <1>0, <1>10, GotoPlace DEF Cleanup
  <2>2. CleanUp(pipe.phase, TRUE) /\ UNCHANGED <<trunk, report, campaign, hand>>
    BY <1>10 DEF Cleanup
  <2>3. /\ tree' \in [Phases -> {None} \union [files : SUBSET Files]]
        /\ branch' \in [Phases -> {None} \union Branches]
        /\ BranchesInScope'
    BY <2>2, <1>0, CleanedKept
  <2> QED BY <2>1, <2>2, <2>3 DEF TypeOK, hand, Pipes, ReviewInScope, BranchThere, TrunkInScope
<1>11. CASE EndByHand
  BY <1>11, <1>a, NoRunPlace DEF EndByHand
<1>12. CASE Verify
  <2>1. pipe' \in Pipes /\ pipe'.at \in {"create", "failed"}
    BY <1>0, <1>12, GotoPlace DEF Verify, NoContext
  <2> QED BY <2>1, <1>12, <1>a DEF Verify, NoContext
<1> QED BY <1>1, <1>2, <1>3, <1>4, <1>5, <1>6, <1>7, <1>8, <1>9, <1>10, <1>11, <1>12
        DEF PipelineStep, BuildContext

(* The campaign and the operator put on the campaign branch only what a branch
   holds. *)
LEMMA OthersKeepScope ==
  ASSUME ScopeInv,
         CampaignStep \/ StartCampaign \/ Edit \/ Killed
           \/ \E p \in Phases : RunByHand(p) \/ CleanupByHand(p)
  PROVE  ScopeInv'
<1> USE DEF ScopeInv
<1>0. /\ pipe \in Pipes /\ pipe.phase \in Phases /\ campaign \in Campaigns
      /\ NoRun \in Pipes /\ NoRun.at = "idle" /\ "verify" \in Places
  BY NoRunPlace DEF TypeOK, Pipes, Campaigns, Places
<1>a. ASSUME pipe' \in Pipes, UNCHANGED <<trunk, branch, tree>>, campaign' \in Campaigns,
             report' \in [Phases -> {"absent", "open", "FAIL", "PASS"}],
             starts' \in 0 .. MaxStarts, clean' \in BOOLEAN,
             pipe' = pipe \/ pipe'.at \notin {"link", "codex", "gate", "review", "commit"}
      PROVE  ScopeInv'
  BY <1>a DEF TypeOK, Pipes, Campaigns, ReviewInScope, BranchThere, BranchesInScope, TrunkInScope
<1>1. CASE SkipStep
  BY <1>0, <1>1, <1>a DEF SkipStep, git, hand, TypeOK, Campaigns
<1>2. CASE RefuseStep
  BY <1>0, <1>2, <1>a, FailsPlace DEF RefuseStep, git, hand, TypeOK
<1>3. CASE LaunchStep
  <2>1. CurrentPhase \in Phases
    BY <1>0, <1>3, StepsArePhases DEF LaunchStep, AtStep, CurrentPhase, Campaigns
  <2>2. pipe' \in Pipes /\ pipe'.at = "verify"
    BY <2>1, <1>0, <1>3, StepsArePhases
       DEF LaunchStep, AtStep, Campaigns, Pipes, NoRun
  <2> QED BY <2>1, <2>2, <1>0, <1>3, <1>a DEF LaunchStep, hand, TypeOK
<1>4. CASE MergeStep
  <2>1. pipe' \in Pipes /\ pipe'.at = "idle"
    BY <1>0, <1>4 DEF MergeStep
  <2>2. campaign' \in Campaigns
    BY <1>0, <1>4, FailsPlace DEF MergeStep, Campaigns
  <2>3. UNCHANGED <<branch, tree, report, clean, starts>>
    BY <1>4 DEF MergeStep, hand
  <2>4. CASE trunk' = trunk
    BY <2>1, <2>2, <2>3, <2>4, <1>a DEF TypeOK
  <2>5. CASE trunk' # trunk
    <3>1. PICK c \in Commits : trunk' = Append(trunk, c) /\ c.files \subseteq Allowed(c.phase)
      <4>1. branch[pipe.phase] # None /\ branch[pipe.phase].commit # None
        BY <2>5, <1>4 DEF MergeStep
      <4>2. trunk' = Append(trunk, branch[pipe.phase].commit)
        BY <2>5, <1>4 DEF MergeStep
      <4> QED BY <4>1, <4>2, <1>0 DEF TypeOK, Branches, BranchesInScope
    <3>2. trunk \in Seq(Commits) /\ trunk' \in Seq(Commits)
      BY <3>1 DEF TypeOK
    <3>3. \A i \in DOMAIN Append(trunk, c) :
             \/ i = Len(trunk) + 1 /\ Append(trunk, c)[i] = c
             \/ i \in DOMAIN trunk /\ Append(trunk, c)[i] = trunk[i]
      BY <3>2, AppendedLast
    <3>5. TrunkInScope'
      BY <3>1, <3>3 DEF TrunkInScope
    <3> QED BY <3>2, <3>5, <2>1, <2>2, <2>3
            DEF TypeOK, Pipes, Campaigns, ReviewInScope, BranchThere, BranchesInScope
  <2> QED BY <2>4, <2>5
<1>5. CASE PhaseFailed
  BY <1>0, <1>5, <1>a, FailsPlace DEF PhaseFailed, git, hand, TypeOK
<1>6. CASE FinishCampaign
  BY <1>0, <1>6, <1>a DEF FinishCampaign, git, hand, TypeOK, Campaigns
<1>7. CASE StartCampaign
  BY <1>0, <1>7, <1>a, FailsPlace, BoundsAssumption DEF StartCampaign, git, hand, TypeOK, Campaigns
<1>8. CASE Killed
  BY <1>0, <1>8, <1>a DEF Killed, git, hand, TypeOK, Campaigns
<1>9. ASSUME NEW p \in Phases, RunByHand(p) PROVE ScopeInv'
  BY <1>0, <1>9, <1>a, BoundsAssumption DEF RunByHand, git, hand, TypeOK, Pipes, Campaigns
<1>10. ASSUME NEW p \in Phases, CleanupByHand(p) PROVE ScopeInv'
  <2>1. PICK force \in BOOLEAN : CleanUp(p, force)
    BY <1>10 DEF CleanupByHand
  <2>2. /\ tree' \in [Phases -> {None} \union [files : SUBSET Files]]
        /\ branch' \in [Phases -> {None} \union Branches]
        /\ BranchesInScope'
    BY <2>1, CleanedKept
  <2>3. pipe.at = "idle" /\ starts' \in 0 .. MaxStarts
        /\ UNCHANGED <<trunk, report, campaign, pipe, clean>>
    BY <1>10, BoundsAssumption DEF CleanupByHand, TypeOK
  <2> QED BY <2>2, <2>3 DEF TypeOK, Pipes, ReviewInScope, BranchThere, TrunkInScope
<1>11. CASE Edit
  BY <1>0, <1>11, <1>a, BoundsAssumption DEF Edit, git, TypeOK, Campaigns
<1> QED BY <1>1, <1>2, <1>3, <1>4, <1>5, <1>6, <1>7, <1>8, <1>9, <1>10, <1>11 DEF CampaignStep

LEMMA ScopeInvHolds == CampaignSpec => []ScopeInv
<1>1. CampaignInit => ScopeInv
  <2> SUFFICES ASSUME CampaignInit PROVE ScopeInv
    OBVIOUS
  <2>1. TypeOK
    BY NoRunPlace, BoundsAssumption DEF CampaignInit, TypeOK, Idle, Pipes
  <2> QED BY <2>1, NoRunPlace DEF CampaignInit, ScopeInv, ReviewInScope, BranchThere, BranchesInScope, TrunkInScope
<1>2. ScopeInv /\ [CampaignNext]_campaignVars => ScopeInv'
  <2>1. ASSUME ScopeInv, UNCHANGED campaignVars PROVE ScopeInv'
    BY <2>1 DEF campaignVars, ScopeInv, TypeOK, ReviewInScope, BranchThere, BranchesInScope, TrunkInScope
  <2> QED BY <2>1, PipelineKeepsScope, OthersKeepScope DEF CampaignNext
<1> QED BY <1>1, <1>2, PTL DEF CampaignSpec

(* Every variable keeps its type: git and the reports are always in one of the
   forms that agent_campaign.py and agent_pipeline.py expect to find. *)
THEOREM TypeCorrect == CampaignSpec => []TypeOK
<1>1. ScopeInv => TypeOK
  BY DEF ScopeInv
<1> QED BY <1>1, ScopeInvHolds, PTL

(* Nothing out of a task's scope reaches the campaign branch: git add -A in
   commit_success takes what the gate found in scope, because a review that
   changes the names git status prints is rejected. *)
THEOREM ScopeKept == CampaignSpec => []TrunkInScope
<1>1. ScopeInv => TrunkInScope
  BY DEF ScopeInv
<1> QED BY <1>1, ScopeInvHolds, PTL

-----------------------------------------------------------------------------
InTrunk(p) == \E i \in DOMAIN trunk : trunk[i].phase = p

(* A phase of the campaign branch has a report that says PASS, which no later
   run can open again; a run that works on a phase is of one not there yet. *)
MergedPassed == \A i \in DOMAIN trunk : report[trunk[i].phase] = "PASS"

RunIsNew ==
  /\ pipe.at \notin {"idle", "verify", "create", "failed"} => ~InTrunk(pipe.phase)
  /\ pipe.at = "done" => report[pipe.phase] = "PASS"

OnceInv == MergedPassed /\ RunIsNew /\ OncePerPhase

(* The pipeline opens a report only where none is, so of a phase that is not
   merged; nothing it does before its report says PASS concerns another one. *)
LEMMA PipelineKeepsOnce ==
  ASSUME ScopeInv, OnceInv, PipelineStep PROVE OnceInv'
<1> USE DEF OnceInv
<1>0. /\ pipe \in Pipes /\ pipe.phase \in Phases /\ trunk \in Seq(Commits)
      /\ report \in [Phases -> {"absent", "open", "FAIL", "PASS"}]
      /\ "create" \in Places /\ "link" \in Places /\ "failed" \in Places /\ "fail" \in Places
      /\ "codex" \in Places /\ "gate" \in Places /\ "review" \in Places /\ "commit" \in Places
      /\ "remove" \in Places /\ "result" \in Places /\ "done" \in Places /\ "cleanup" \in Places
  BY DEF ScopeInv, TypeOK, Pipes, Places
<1>1. trunk' = trunk
  BY DEF PipelineStep, Verify, BuildContext, CreateWorktree, LinkPython, RunCodex, QualityGate, Review, Commit,
     RemoveWorktree, WriteResult, Fail, Cleanup, EndByHand, NoContext, CommandRaises, git
<1>2. \A i \in DOMAIN trunk : trunk[i] \in Commits
  BY <1>0
<1>3. \A i \in DOMAIN trunk : trunk[i].phase \in Phases
  BY <1>2 DEF Commits
<1>a. ASSUME report' = report, pipe'.phase = pipe.phase, pipe.at \notin {"idle", "verify", "create", "failed"},
             pipe'.at # "done"
      PROVE  OnceInv'
  BY <1>1, <1>a DEF MergedPassed, RunIsNew, OncePerPhase, InTrunk
<1>b. ASSUME NEW r, report' = [report EXCEPT ![pipe.phase] = r], pipe'.phase = pipe.phase,
             pipe.at \notin {"idle", "verify", "create", "failed"}, pipe'.at = "done" => r = "PASS"
      PROVE  OnceInv'
  <2>1. ~InTrunk(pipe.phase)
    BY <1>b DEF RunIsNew
  <2>2. \A i \in DOMAIN trunk : report'[trunk[i].phase] = report[trunk[i].phase]
    BY <2>1, <1>0, <1>3, <1>b DEF InTrunk
  <2>3. report'[pipe.phase] = r
    BY <1>0, <1>b
  <2> QED BY <2>1, <2>2, <2>3, <1>1, <1>b DEF MergedPassed, RunIsNew, OncePerPhase, InTrunk
<1>c. ASSUME report' = report, pipe'.at \in {"idle", "create", "failed"}
      PROVE  OnceInv'
  BY <1>1, <1>c DEF MergedPassed, RunIsNew, OncePerPhase, InTrunk
<1>4. CASE CreateWorktree
  <2>1. CASE NoContext
    BY <2>1, <1>0, <1>c, GotoPlace DEF NoContext, git
  <2>2. CASE ~NoContext
    <3>1. report[pipe.phase] = "absent" /\ report' = report
      BY <2>2, <1>4 DEF CreateWorktree
    <3>2. pipe'.phase = pipe.phase /\ pipe'.at \in {"link", "failed"}
      BY <2>2, <1>4, <1>0, GotoPlace DEF CreateWorktree
    <3>3. ~InTrunk(pipe.phase)
      BY <3>1 DEF MergedPassed, InTrunk
    <3> QED BY <3>1, <3>2, <3>3, <1>1 DEF MergedPassed, RunIsNew, OncePerPhase, InTrunk
  <2> QED BY <2>1, <2>2
<1>5. CASE LinkPython
  <2>1. CASE NoContext
    BY <2>1, <1>0, <1>c, GotoPlace DEF NoContext, git
  <2>2. CASE ~NoContext
    <3>1. report' = [report EXCEPT ![pipe.phase] = "open"] /\ pipe.at = "link"
      BY <2>2, <1>5 DEF LinkPython
    <3>2. pipe'.phase = pipe.phase /\ pipe'.at = "codex"
      BY <2>2, <1>5, <1>0, GotoPlace DEF LinkPython
    <3> QED BY <3>1, <3>2, <1>b
  <2> QED BY <2>1, <2>2
<1>6. CASE RunCodex
  <2>1. pipe'.phase = pipe.phase /\ pipe'.at \in {"gate", "fail"}
    BY <1>6, <1>0, GotoPlace DEF RunCodex
  <2> QED BY <2>1, <1>6, <1>a DEF RunCodex
<1>7. CASE QualityGate
  <2>1. pipe'.phase = pipe.phase /\ pipe'.at \in {"review", "codex", "fail"}
    BY <1>7, <1>0, GotoPlace, RepairPlace DEF QualityGate
  <2> QED BY <2>1, <1>7, <1>a DEF QualityGate
<1>8. CASE Review
  <2>1. pipe'.phase = pipe.phase /\ pipe'.at \in {"commit", "codex", "fail"}
    BY <1>8, <1>0, GotoPlace, RepairPlace DEF Review
  <2> QED BY <2>1, <1>8, <1>a DEF Review
<1>9. CASE Commit
  <2>1. pipe'.phase = pipe.phase /\ pipe'.at \in {"remove", "fail"}
    BY <1>9, <1>0, GotoPlace DEF Commit, CommandRaises
  <2> QED BY <2>1, <1>9, <1>a DEF Commit, CommandRaises, git
<1>10. CASE RemoveWorktree
  <2>1. pipe'.phase = pipe.phase /\ pipe'.at \in {"result", "fail"}
    BY <1>10, <1>0, GotoPlace DEF RemoveWorktree, CommandRaises
  <2> QED BY <2>1, <1>10, <1>a DEF RemoveWorktree, CommandRaises, git
<1>11. CASE WriteResult
  <2>1. CASE CommandRaises
    <3>1. pipe'.phase = pipe.phase /\ pipe'.at = "fail"
      BY <2>1, <1>0, GotoPlace DEF CommandRaises
    <3> QED BY <2>1, <3>1, <1>11, <1>a DEF WriteResult, CommandRaises, git
  <2>2. CASE ~CommandRaises
    <3>1. pipe'.phase = pipe.phase /\ pipe'.at = "done"
      BY <2>2, <1>0, <1>11, GotoPlace DEF WriteResult
    <3> QED BY <2>2, <3>1, <1>11, <1>b DEF WriteResult
  <2> QED BY <2>1, <2>2
<1>12. CASE Fail
  <2>1. pipe'.phase = pipe.phase /\ pipe'.at \in {"failed", "cleanup"}
    BY <1>0, <1>12, GotoPlace DEF Fail
  <2> QED BY <2>1, <1>12, <1>b DEF Fail
<1>13. CASE Cleanup
  <2>1. pipe'.at = "failed"
    BY <1>0, <1>13, GotoPlace DEF Cleanup
  <2> QED BY <2>1, <1>13, <1>c DEF Cleanup
<1>14. CASE EndByHand
  BY <1>14, <1>c, NoRunPlace DEF EndByHand, git
<1>15. CASE Verify
  <2>1. pipe'.at \in {"create", "failed"}
    BY <1>0, <1>15, GotoPlace DEF Verify, NoContext
  <2> QED BY <2>1, <1>15, <1>c DEF Verify, NoContext, git
<1> QED BY <1>4, <1>5, <1>6, <1>7, <1>8, <1>9, <1>10, <1>11, <1>12, <1>13, <1>14, <1>15
        DEF PipelineStep, BuildContext

(* The campaign appends the commit of the phase that has just passed; it
   archives only a failed report, so of a phase that is not merged. *)
LEMMA OthersKeepOnce ==
  ASSUME ScopeInv, OnceInv,
         CampaignStep \/ StartCampaign \/ Edit \/ Killed
           \/ \E p \in Phases : RunByHand(p) \/ CleanupByHand(p)
  PROVE  OnceInv'
<1> USE DEF OnceInv
<1>0. /\ pipe \in Pipes /\ pipe.phase \in Phases /\ trunk \in Seq(Commits)
      /\ report \in [Phases -> {"absent", "open", "FAIL", "PASS"}]
      /\ NoRun.at = "idle" /\ campaign \in Campaigns
  BY NoRunPlace DEF ScopeInv, TypeOK, Pipes, Campaigns
<1>2. \A i \in DOMAIN trunk : trunk[i] \in Commits
  BY <1>0
<1>3. \A i \in DOMAIN trunk : trunk[i].phase \in Phases
  BY <1>2 DEF Commits
<1>a. ASSUME UNCHANGED <<trunk, report>>, pipe' = pipe \/ pipe'.at \in {"idle", "verify"}
      PROVE  OnceInv'
  BY <1>a DEF MergedPassed, RunIsNew, OncePerPhase, InTrunk
<1>4. CASE LaunchStep
  <2>1. CurrentPhase \in Phases
    BY <1>0, <1>4, StepsArePhases DEF LaunchStep, AtStep, CurrentPhase, Campaigns
  <2>2. pipe'.at = "verify" /\ trunk' = trunk
    BY <1>4 DEF LaunchStep, NoRun
  <2>3. report' = [report EXCEPT ![CurrentPhase] = "absent"] /\ report[CurrentPhase] # "PASS"
    BY <1>4 DEF LaunchStep, Archivable
  <2>4. \A i \in DOMAIN trunk : report'[trunk[i].phase] = report[trunk[i].phase]
    BY <2>1, <2>3, <1>0, <1>3 DEF MergedPassed
  <2> QED BY <2>2, <2>4 DEF MergedPassed, RunIsNew, OncePerPhase, InTrunk
<1>5. CASE MergeStep
  <2>1. pipe'.at = "idle" /\ report' = report
    BY <1>5, <1>0 DEF MergeStep
  <2>2. CASE trunk' = trunk
    BY <2>1, <2>2, <1>a
  <2>3. CASE trunk' # trunk
    <3>1. PICK c \in Commits : trunk' = Append(trunk, c) /\ c.phase = pipe.phase
      <4>1. branch[pipe.phase] # None /\ branch[pipe.phase].commit # None
        BY <2>3, <1>5 DEF MergeStep
      <4>2. trunk' = Append(trunk, branch[pipe.phase].commit)
        BY <2>3, <1>5 DEF MergeStep
      <4> QED BY <4>1, <4>2, <1>0 DEF ScopeInv, TypeOK, Branches, BranchesInScope
    <3>2. \A i \in DOMAIN Append(trunk, c) :
             \/ i = Len(trunk) + 1 /\ Append(trunk, c)[i] = c
             \/ i \in DOMAIN trunk /\ Append(trunk, c)[i] = trunk[i]
      BY <1>0, AppendedLast
    <3>3. report[pipe.phase] = "PASS" /\ \A i \in DOMAIN trunk : trunk[i].phase # pipe.phase
      BY <1>5 DEF MergeStep, RunIsNew, InTrunk
    <3>4. OncePerPhase'
      BY <3>1, <3>2, <3>3 DEF OncePerPhase
    <3>5. MergedPassed'
      BY <3>1, <3>2, <3>3, <2>1 DEF MergedPassed
    <3> QED BY <3>4, <3>5, <2>1 DEF RunIsNew
  <2> QED BY <2>2, <2>3
<1>6. CASE SkipStep \/ RefuseStep \/ PhaseFailed \/ FinishCampaign
  BY <1>6, <1>0, <1>a DEF SkipStep, RefuseStep, PhaseFailed, FinishCampaign, git
<1>7. CASE StartCampaign \/ Edit \/ Killed
  BY <1>7, <1>0, <1>a DEF StartCampaign, Edit, Killed, git
<1>8. ASSUME NEW p \in Phases, RunByHand(p) \/ CleanupByHand(p) PROVE OnceInv'
  BY <1>8, <1>0, <1>a DEF RunByHand, CleanupByHand, git
<1> QED BY <1>4, <1>5, <1>6, <1>7, <1>8 DEF CampaignStep

(* However often the scripts are killed and started again and whatever branches
   are cleaned up, no phase is committed twice: the report of a merged phase
   says PASS, and agent_campaign.py archives no such report. *)
THEOREM OnceKept == CampaignSpec => []OncePerPhase
<1>1. CampaignInit => OnceInv
  BY DEF CampaignInit, OnceInv, MergedPassed, RunIsNew, OncePerPhase, NoRun, InTrunk
<1>2. ScopeInv /\ OnceInv /\ [CampaignNext]_campaignVars => OnceInv'
  <2>1. ASSUME OnceInv, UNCHANGED campaignVars PROVE OnceInv'
    BY <2>1 DEF campaignVars, OnceInv, MergedPassed, RunIsNew, OncePerPhase, InTrunk
  <2> QED BY <2>1, PipelineKeepsOnce, OthersKeepOnce DEF CampaignNext
<1>3. OnceInv => OncePerPhase
  BY DEF OnceInv
<1> QED BY <1>1, <1>2, <1>3, ScopeInvHolds, PTL DEF CampaignSpec
=============================================================================
