---------------------------- MODULE StripPromise ----------------------------
(***************************************************************************)
(* What an ESP32 node promises about its strip, whatever the network does: *)
(* it is black or shows one frame; every physical commit goes strictly     *)
(* forward in (session generation, sequence), but for the frame that opens *)
(* a session, which may be committed again while nothing of the session    *)
(* has followed it; and a commit belongs to a generation that was          *)
(* admitted, that is whose KEY was completely encoded.  A session is       *)
(* admitted only after every session admitted before it.                   *)
(***************************************************************************)
EXTENDS Integers

CONSTANTS Generations,  \* the session generations, a set of integers
          Frames,       \* what the strip can show
          SeqOf(_)      \* the sequence of a frame

VARIABLES admitted,     \* the generations whose KEY was encoded
          generation,   \* the generation of the last commit
          sequence,     \* the sequence of the last commit
          strip         \* {} when black, else the one frame on the strip

promiseVars == <<admitted, generation, sequence, strip>>

Init == admitted = {} /\ generation = 0 /\ sequence = 0 /\ strip = {}

Admit(g) ==
    /\ \A h \in admitted : h <= g
    /\ admitted' = admitted \cup {g}
    /\ UNCHANGED <<generation, sequence, strip>>

Show(g, f) ==
    /\ g \in admitted
    /\ g > generation \/ (g = generation /\ SeqOf(f) > sequence)
    /\ generation' = g
    /\ sequence' = SeqOf(f)
    /\ strip' = {f}
    /\ UNCHANGED admitted

(* The opening frame once more: the one on the strip, if it is not black.  *)
ShowAgain(f) ==
    /\ generation \in admitted
    /\ sequence = 1 /\ SeqOf(f) = 1
    /\ strip \subseteq {f}
    /\ strip' = {f}
    /\ UNCHANGED <<admitted, generation, sequence>>

Black == strip' = {} /\ UNCHANGED <<admitted, generation, sequence>>

Next ==
    \/ \E g \in Generations : Admit(g) \/ \E f \in Frames : Show(g, f)
    \/ \E f \in Frames : ShowAgain(f)
    \/ Black

Spec == Init /\ [][Next]_promiseVars
=============================================================================
