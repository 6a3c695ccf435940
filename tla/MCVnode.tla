------------------------------- MODULE MCVnode -------------------------------
(* Three threads and one inode, so that all of them meet at its vnode, two  *)
(* directories that name it, two vnode structures, and two pages, the first *)
(* written to up to twice, the second only read.                            *)
EXTENDS Vnode, TLC

CONSTANTS t1, t2, t3, v1, v2, d1, d2, n1, n2

MCThread == {t1, t2, t3}
MCVnodeT == {v1, v2}
MCDir == {d1, d2}
MCPage == {n1, n2}
MCSymmetry == Permutations(MCThread) \cup Permutations(MCVnodeT) \cup Permutations(MCDir)
=============================================================================
