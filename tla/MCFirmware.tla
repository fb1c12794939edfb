----------------------------- MODULE MCFirmware -----------------------------
(* What the two kinds of nodes make of what they receive, on small         *)
(* instances: FrameReassembly with two sessions of three frames of two     *)
(* interchangeable chunks, and AnalogNode.  The nodes share nothing, so    *)
(* the order of their steps does not matter: each runs while the other has *)
(* not begun.                                                              *)
EXTENDS FrameReassembly, AnalogNode, TLC

ChunkSymmetry == Permutations(Chunks)

NodesInit == FrameInit /\ Init

NodesNext ==
    \/ FrameNext /\ Init /\ UNCHANGED vars
    \/ Next /\ FrameInit /\ UNCHANGED frameVars

NodesSpec == NodesInit /\ [][NodesNext]_<<frameVars, vars>>
=============================================================================
