------------------------------- MODULE MCKmem -------------------------------
(* Blocks of 1, 2 and 4 pages over 7 pages: one of the largest, and a tail  *)
(* of 2 and 1.  Two buckets of kmalloc, whose slabs are of 1 and 2 pages,   *)
(* and one cache that is created on the way.                                *)
EXTENDS Slab

CONSTANTS self, k1, k2, c1
MCCache == {self, k1, k2, c1}
MCBuckets == <<k1, k2>>
MCObjSize == [c \in MCCache |-> IF c = k2 THEN 8 ELSE 2]
=============================================================================
