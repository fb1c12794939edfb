--------------------------- MODULE MCNetworkSetup ---------------------------
(* One site network beside the two access points, one request that starts a
   thread or forgets a profile, two faults and a restart; the watchdog acts at
   its second failed look.  The second fault is what it takes for a repair to
   fail after the failure it repairs. *)
EXTENDS NetworkSetup
=============================================================================
