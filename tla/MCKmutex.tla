------------------------------ MODULE MCKmutex ------------------------------
(* Three threads (a holder, a waiter and one that cancels the waiter), one  *)
(* mutex and one device queue on which a holder may block.                  *)
EXTENDS Kmutex

CONSTANTS idle, t1, t2, mtx, devq

MCThread == {idle, t1, t2}
MCMutex == {mtx}
MCDevQueue == {devq}
MCWaitQueue == {mtx, devq}
=============================================================================
