------------------------------ MODULE MCSched ------------------------------
(* Model-checking instances of Sched: idle and two more threads, one queue  *)
(* only threads wake and one that interrupts wake.                          *)
EXTENDS Sched

CONSTANTS idle, t1, t2, plainq, devq

MCThread == {idle, t1, t2}
MCWaitQueue == {plainq, devq}
MCDevQueue == {devq}
=============================================================================
