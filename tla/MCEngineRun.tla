---------------------------- MODULE MCEngineRun ----------------------------
(* EngineRun on a small instance: one output of each kind.                 *)
EXTENDS EngineRun

MCOutputs == <<"ddp", "udp", "serial">>
=============================================================================
