--------------------------- MODULE MCNodeSession ---------------------------
(* NodeSession on small instances: the schedule the host follows.          *)
EXTENDS NodeSession

(* The second session begins while the last frame of the first is due: its *)
(* datagrams can arrive after the new KEY and still meet their deadline.   *)
MCOverlapping == [f \in HostFrame |-> IF f.session = 1 THEN 2 * (f.seq - 1) ELSE f.seq + 2]
=============================================================================
