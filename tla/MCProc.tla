------------------------------- MODULE MCProc -------------------------------
(* idle, init and two more processes, alive or reaped and made again; one   *)
(* device; as many pids as processes, so that they wrap round and are used  *)
(* again.                                                                   *)
EXTENDS Proc

CONSTANTS idle, init, p1, p2, disk

MCThread == {idle, init, p1, p2}
MCDevQueue == {disk}
MCWaitQueue == MCThread \cup MCDevQueue
=============================================================================
