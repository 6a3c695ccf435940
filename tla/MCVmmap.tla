------------------------------- MODULE MCVmmap -------------------------------
(* Four pages of user memory in two page tables, two bytes to a page.      *)
EXTENDS Exec

CONSTANTS o1, o2, o3, o4, file
MCObject == {o1, o2, o3, o4, file}
MCKinds == {<<TRUE, TRUE>>, <<FALSE, FALSE>>}

Seg(vaddr, offset, filesz, memsz) ==
  [vaddr |-> vaddr, offset |-> offset, filesz |-> filesz, memsz |-> memsz]

(* A program that ends in two pages of zeros, the first one shared with its *)
(* data, with an interpreter; one whose break begins on a page of its own;  *)
(* and one whose second segment overlaps the first                          *)
MCProgram ==
  {[segs |-> <<Seg(6, 0, 1, 3)>>, interp |-> <<Seg(0, 0, 2, 2)>>],
   [segs |-> <<Seg(6, 0, 2, 2)>>, interp |-> <<>>],
   [segs |-> <<Seg(8, 0, 2, 2), Seg(9, 1, 1, 1)>>, interp |-> <<>>]}

(* The names of objects do not matter: an object is told by the first area  *)
(* over it.                                                                 *)
Nth(o) == IF \E i \in DOMAIN vmm_list : vmm_list[i].obj = o
          THEN CHOOSE i \in DOMAIN vmm_list :
                 vmm_list[i].obj = o /\ \A j \in 1 .. (i - 1) : vmm_list[j].obj # o
          ELSE 0
MCView ==
  <<[i \in DOMAIN vmm_list |-> [vmm_list[i] EXCEPT !.obj = <<Nth(@), @ = file, refs[@]>>]],
    [t \in DOMAIN pagedir |->
       IF pagedir[t] = NoTable THEN <<>>
       ELSE [e \in DOMAIN pagedir[t] |->
               IF pagedir[t][e] = NoEntry THEN <<>>
               ELSE <<Nth(pagedir[t][e].obj), pagedir[t][e].pn>>]],
    {refs[o] : o \in {u \in Object : Nth(u) = 0}}, breaks, panic>>
=============================================================================
