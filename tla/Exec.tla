--------------------------------- MODULE Exec ---------------------------------
(***************************************************************************)
(* Loading a program (api/exec.c, binfmt.c, elf32.c): the segments of an   *)
(* ELF file and of its interpreter, the stack and the break make a new     *)
(* address space, beside the old one until nothing can fail any more.      *)
(*                                                                         *)
(* A program is its table of loadable segments; those of its interpreter,  *)
(* if it names one, are linked as if to begin at page 0.  Headers that are *)
(* refused before anything is mapped change nothing and are left out, and  *)
(* so are the bytes of the arguments and of the file.  Reading the file    *)
(* may block, but nobody else touches this address space.                  *)
(***************************************************************************)
EXTENDS Vmmap

CONSTANTS
  Program,     (* records [segs, interp], sequences of segments            *)
  StackPages,  (* DEFAULT_STACK_SIZE / PAGE_SIZE and one                   *)
  NoPage

Segment == [vaddr : Nat, offset : Nat, filesz : Nat, memsz : Nat]

(* What a linker makes: loadable segments, with room for the stack below    *)
ASSUME ExecAssumption ==
  /\ StackPages \in Nat \ {0}
  /\ Program \subseteq [segs : Seq(Segment) \ {<<>>}, interp : Seq(Segment)]
  /\ \A prog \in Program : \A i \in DOMAIN prog.segs :
       /\ ADDR_TO_PN(prog.segs[i].vaddr) >= UserLow + StackPages
       /\ prog.segs[i].vaddr + prog.segs[i].memsz <= UserHigh * PageSize
  /\ \A prog \in Program : \A i \in DOMAIN prog.interp :
       prog.interp[i].vaddr + prog.interp[i].memsz <= UserHigh * PageSize

(* Where a load can fail besides on the segments themselves: reading the    *)
(* file, finding the interpreter, arguments that do not fit on the stack    *)
Failure == {"none", "read", "interp", "last"}
-----------------------------------------------------------------------------
SegEnd(seg) == seg.vaddr + seg.memsz
FileEnd(seg) == seg.vaddr + seg.filesz
proglow(segs) == Min({segs[i].vaddr : i \in DOMAIN segs} \cup {WordSize - 1})
proghigh(segs) == Max({SegEnd(segs[i]) : i \in DOMAIN segs} \cup {0})
Relocated(seg, memoff) == [seg EXCEPT !.vaddr = @ + memoff * PageSize]

(* The pages that the file's part of a segment and its zeros take: both, if *)
(* the file's part ends within a page                                       *)
FilePages(seg) == ADDR_TO_PN(FileEnd(seg) - 1) - ADDR_TO_PN(seg.vaddr) + 1
ZeroPages(seg) == ADDR_TO_PN(PAGE_ALIGN_UP(SegEnd(seg))) - ADDR_TO_PN(FileEnd(seg))

(* _elf32_map_segment, on m, an address space and whether it is going well. *)
(* The page in which the file's part ends is mapped again with zeros, and   *)
(* then filled from the file by hand.                                       *)
MapFilePart(m, seg) ==
  LET lo == ADDR_TO_PN(seg.vaddr) IN
  IF seg.filesz = 0 THEN m
  ELSE IF ~vmmap_is_range_empty(m.list, lo, FilePages(seg)) THEN [m EXCEPT !.ok = FALSE]
  ELSE vmmap_map(m, lo, FilePages(seg), TRUE, FALSE, ADDR_TO_PN(seg.offset))

MapZeroPart(m, seg, fails) ==
  LET lo == ADDR_TO_PN(FileEnd(seg))
      n == ZeroPages(seg)
      byHand == ~PAGE_ALIGNED(FileEnd(seg)) /\ seg.filesz > 0
  IN  IF ~m.ok \/ seg.memsz <= seg.filesz THEN m
      ELSE IF n > 1 /\ ~vmmap_is_range_empty(m.list, lo + 1, n - 1) THEN [m EXCEPT !.ok = FALSE]
      ELSE [vmmap_map(m, lo, n, FALSE, FALSE, 0) EXCEPT !.ok = @ /\ ~(byHand /\ fails = "read")]

map_segment(m, seg, fails) ==
  IF \/ ~m.ok
     \/ seg.filesz > seg.memsz
     \/ seg.vaddr % PageSize # seg.offset % PageSize
  THEN [m EXCEPT !.ok = FALSE]
  ELSE MapZeroPart(MapFilePart(m, seg), seg, fails)

map_progsegs(m, segs, memoff, fails) ==
  LET map[i \in 0 .. Len(segs)] ==
        IF i = 0 THEN m ELSE map_segment(map[i - 1], Relocated(segs[i], memoff), fails)
  IN  map[Len(segs)]

(* The interpreter goes where there is room for all of its pages.           *)
LoadInterp(m, segs, fails) ==
  LET n == ADDR_TO_PN(PAGE_ALIGN_UP(proghigh(segs))) - ADDR_TO_PN(proglow(segs))
      base == vmmap_find_range(m.list, n)
  IN  IF ~m.ok \/ segs = <<>> THEN m
      ELSE IF base = 0 \/ fails = "interp" THEN [m EXCEPT !.ok = FALSE]
      ELSE map_progsegs(m, segs, base - ADDR_TO_PN(proglow(segs)), fails)

(* Immediately below the program                                            *)
MapStack(m, segs) ==
  IF ~m.ok THEN m
  ELSE vmmap_map(m, ADDR_TO_PN(proglow(segs)) - StackPages, StackPages, FALSE, FALSE, 0)

(* _elf32_load up to the point of no return, from an empty address space    *)
elf32_load(prog, fails) ==
  LET empty == [Space EXCEPT !.list = <<>>]
      program == map_progsegs(empty, prog.segs, 0, fails)
      both == LoadInterp(program, prog.interp, fails)
      all == MapStack(both, prog.segs)
  IN  [all EXCEPT !.ok = @ /\ fails # "last"]

(* Each area in turn is removed, also from the page table of the process,   *)
(* whether or not it is the map of the process that is destroyed.           *)
vmmap_destroy(m) ==
  LET left[i \in 0 .. Len(m.list)] ==
        IF i = 0 THEN m
        ELSE vmmap_remove(left[i - 1], m.list[i].start, m.list[i].end - m.list[i].start)
  IN  left[Len(m.list)]

(* Either the new map takes the place of the old one, or it is destroyed    *)
(* and has cost the program page table entries, no more.                    *)
do_execve(prog, fails) ==
  /\ ~panic
  /\ prog.interp = <<>> => fails # "interp"
  /\ \E m \in {elf32_load(prog, fails)} :
     \/ m.null /\ Panic
     \/ /\ m.ok
        /\ vmm_list' = m.list
        /\ \E old \in {vmmap_destroy([m EXCEPT !.list = vmm_list,
                                               !.dir = pt_unmap_range(@, UserLow, UserHigh)])} :
             refs' = old.refs /\ pagedir' = old.dir
        /\ p_brk' = proghigh(prog.segs) /\ p_start_brk' = proghigh(prog.segs)
        /\ UNCHANGED panic
     \/ /\ ~m.ok /\ ~m.null
        /\ \E new \in {vmmap_destroy(m)} : refs' = new.refs /\ pagedir' = new.dir
        /\ UNCHANGED <<vmm_list, breaks, panic>>

ExecNext ==
  \/ \E prog \in Program, fails \in Failure : do_execve(prog, fails)
  \/ VmmapNext

ExecSpec == VmmapInit /\ [][ExecNext]_vmmapVars
-----------------------------------------------------------------------------
viewBar ==
  [pn \in UserPage |->
     LET shown == {[obj |-> a.obj, pn |-> PageShown(a, pn), shared |-> a.shared] :
                     a \in {b \in ToSet(vmm_list) : Covers(b, pn)}}
     IN  IF shown = {} THEN NoPage ELSE CHOOSE s \in shown : TRUE]

(* What a program looks like in memory, page by page: its stack, the zeros  *)
(* of each segment, and the file where there are no zeros.                  *)
PageUp(addr) == (addr + PageSize - 1) \div PageSize
Zeros(seg) == IF seg.memsz = seg.filesz THEN {}
              ELSE ADDR_TO_PN(FileEnd(seg)) .. (PageUp(SegEnd(seg)) - 1)
FromFile(seg) == (ADDR_TO_PN(seg.vaddr) .. (PageUp(FileEnd(seg)) - 1)) \ Zeros(seg)
Taken(seg) == Zeros(seg) \cup FromFile(seg)
AllTaken(segs) == UNION {Taken(segs[i]) : i \in DOMAIN segs}

Loadable(prog) ==
  \A segs \in {prog.segs, prog.interp} : \A i \in DOMAIN segs :
    /\ segs[i].vaddr % PageSize = segs[i].offset % PageSize
    /\ segs[i].filesz <= segs[i].memsz
    /\ \A j \in DOMAIN segs \ {i} : Taken(segs[i]) \cap Taken(segs[j]) = {}

ImageOf(prog) ==
  LET size == PageUp(proghigh(prog.interp))
      gaps == {lo \in UserLow .. (UserHigh - size) :
                 AllTaken(prog.segs) \cap (lo .. (lo + size - 1)) = {}}
      base == CHOOSE lo \in gaps : \A other \in gaps : other <= lo
      segs == prog.segs \o [i \in DOMAIN prog.interp |-> Relocated(prog.interp[i], base)]
      low == ADDR_TO_PN(proglow(prog.segs)) - StackPages
      shown(p, i) ==
        IF p \in Zeros(segs[i])
        THEN [part |-> <<"zeros", i>>, pn |-> p - ADDR_TO_PN(FileEnd(segs[i]))]
        ELSE [part |-> <<"file", i>>,
              pn |-> p - ADDR_TO_PN(segs[i].vaddr) + ADDR_TO_PN(segs[i].offset)]
  IN  [shows |-> [p \in UserPage |->
                    IF p \in low .. (low + StackPages - 1)
                    THEN [part |-> <<"stack", 0>>, pn |-> p - low]
                    ELSE IF p \in AllTaken(segs)
                    THEN shown(p, CHOOSE i \in DOMAIN segs : p \in Taken(segs[i]))
                    ELSE NoPage],
       top |-> PageUp(proghigh(prog.segs))]

Images == {ImageOf(prog) : prog \in {p \in Program : Loadable(p)}}

Pages == INSTANCE PageMap WITH
  FilePage <- FileOff, view <- viewBar, top <- ADDR_TO_PN(PAGE_ALIGN_UP(p_brk)),
  Image <- Images

(* The list of areas implements a map from pages to what they show: an      *)
(* unmapped range is gone to the page, what is left of an area still shows  *)
(* the pages it showed, a new mapping takes its range and nothing else, the *)
(* heap grows into free pages only, and a program that is loaded sees its   *)
(* own image and nothing of the last one's, or the last one goes on with    *)
(* what it had (vmmap.c:459-509, brk.c:76-107, elf32.c:470-704).            *)
ImplementsPageMap == Pages!PageMapInit /\ [][Pages!PageMapNext]_(Pages!mapVars)
=============================================================================
