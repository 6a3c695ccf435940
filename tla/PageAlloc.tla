----------------------------- MODULE PageAlloc -----------------------------
(***************************************************************************)
(* The page allocator, kernel/mm/page.c: one group of pages, in blocks of  *)
(* 2^order pages on a free list per order, the list head first.  Pages are *)
(* numbered from the base address of the group.                            *)
(*                                                                         *)
(* pg_map[order] has one bit for every pair of buddies of order - 1, here  *)
(* the set of the indices whose bit is 1.  The code takes it to say that   *)
(* exactly one of the two is free.  A state of the group is a value g; the *)
(* operators return the next one.                                          *)
(***************************************************************************)
EXTENDS Naturals, Sequences, SequencesExt

CONSTANTS
  PAGE_NSIZES,  (* blocks have orders 0 to PAGE_NSIZES - 1                 *)
  NPages        (* the pages of the group, its bit maps not counted        *)

ASSUME PageAllocAssumption == PAGE_NSIZES \in Nat \ {0} /\ NPages \in Nat

Order == 0 .. (PAGE_NSIZES - 1)
Top == PAGE_NSIZES - 1
Page == 0 .. (NPages - 1)
NULL == NPages

(* 1 << order, the pages of a block                                         *)
npages[order \in Nat] == IF order = 0 THEN 1 ELSE 2 * npages[order - 1]

(* A loop: from start, the turns lo + 1 to hi                               *)
Iterate(Turn(_, _), start, lo, hi) ==
  LET at[n \in lo .. hi] == IF n = lo THEN start ELSE Turn(at[n - 1], n) IN at[hi]

Block(addr, order) == addr .. (addr + npages[order] - 1)
Buddy(addr, order) ==
  IF (addr \div npages[order]) % 2 = 1 THEN addr - npages[order] ELSE addr + npages[order]
-----------------------------------------------------------------------------
(* pagegroup_create: as many of the largest blocks as there is room for; of *)
(* the pages that are left, one block for each binary digit of their number. *)
TailBlock(order) ==
  IF (NPages \div npages[order]) % 2 = 1 THEN <<NPages - (NPages % npages[order + 1])>> ELSE <<>>

pagegroup_create ==
  LET blocks == NPages \div npages[Top] IN
    [pg_freelist |-> [order \in Order |->
                        IF order < Top THEN TailBlock(order)
                        ELSE [i \in 1 .. blocks |-> (blocks - i) * npages[Top]]],
     pg_map |-> [order \in Order \ {0} |-> {}],
     page_freecount |-> NPages,
     intact |-> TRUE]  (* no link has been taken off a list it was not on  *)

calculate_index(order, addr) == addr \div npages[order]

bit_flip(g, order, addr) ==
  IF order > Top THEN g
  ELSE [g EXCEPT !.pg_map[order] =
          SymDiff(@, {calculate_index(order, addr)})]

split_keeps_bit(g, order) ==
  LET target == Head(g.pg_freelist[order])
  IN  [g EXCEPT
         !.pg_freelist[order] = Tail(@),
         !.pg_freelist[order - 1] = <<target + npages[order - 1], target>> \o @]

(* The first free block of the order goes and its two halves come.          *)
split(g, order) ==
  LET target == Head(g.pg_freelist[order])
  IN  [bit_flip(g, order + 1, target) EXCEPT
         !.pg_freelist[order] = Tail(@),
         !.pg_freelist[order - 1] = <<target + npages[order - 1], target>> \o @]

Larger(g, order) == {n \in (order + 1) .. Top : g.pg_freelist[n] # <<>>}

(* The smallest larger block is split down to the order asked for.          *)
page_split(g, order) ==
  LET norder == CHOOSE n \in Larger(g, order) : \A m \in Larger(g, order) : n <= m
  IN  Iterate(LAMBDA h, n : split(h, norder - (n - 1)), g, 0, norder - order)

Available(g, order) == g.pg_freelist[order] # <<>> \/ Larger(g, order) # {}

(* page_alloc_order, when there is a block: addr and the group after it     *)
page_alloc_order(g, order) ==
  LET s == IF g.pg_freelist[order] # <<>> THEN g ELSE page_split(g, order)
      addr == Head(s.pg_freelist[order])
  IN  [addr |-> addr,
       group |-> [bit_flip(s, order + 1, addr) EXCEPT
                    !.pg_freelist[order] = Tail(@),
                    !.page_freecount = @ - npages[order]]]

(* One turn of the loop of page_join: two buddies are taken off their list  *)
(* and come back as one block.  What list_remove does with a buddy that is  *)
(* on no list is anybody's guess: it writes through what the page holds.    *)
Joins(g, order, addr) ==
  order < Top /\ calculate_index(order + 1, addr) \notin g.pg_map[order + 1]

list_remove(list, addr) ==
  IF addr \in ToSet(list) THEN RemoveAt(list, CHOOSE i \in DOMAIN list : list[i] = addr)
  ELSE list

join(j, order) ==
  IF ~j.joining \/ ~Joins(j.group, order, j.addr) THEN [j EXCEPT !.joining = FALSE]
  ELSE LET buddy == Buddy(j.addr, order)
           low == IF buddy < j.addr THEN buddy ELSE j.addr
           listed == buddy \in ToSet(j.group.pg_freelist[order])
           unlinked == [j.group EXCEPT
                          !.pg_freelist[order] = list_remove(list_remove(@, j.addr), buddy),
                          !.intact = @ /\ listed]
           linked == [unlinked EXCEPT !.pg_freelist[order + 1] = <<low>> \o @]
       IN  [addr |-> low, joining |-> listed, group |-> bit_flip(linked, order + 2, low)]

page_free_no_join(g, addr, order) ==
  bit_flip([g EXCEPT !.pg_freelist[order] = <<addr>> \o @,
                     !.page_freecount = @ + npages[order]], order + 1, addr)

page_free_order(g, addr, order) ==
  LET listed == [g EXCEPT !.pg_freelist[order] = <<addr>> \o @,
                          !.page_freecount = @ + npages[order]]
  IN  Iterate(LAMBDA j, n : join(j, n - 1),
              [addr |-> addr, joining |-> TRUE, group |-> bit_flip(listed, order + 1, addr)],
              order, Top).group

(* page_alloc_n and page_free_n round the number of pages up to a block.    *)
OrderOf(asked) ==
  CHOOSE n \in Order : npages[n] >= asked /\ \A m \in Order : m < n => npages[m] < asked
-----------------------------------------------------------------------------
FreeBlocks(g) == {b \in Page \X Order : b[1] \in ToSet(g.pg_freelist[b[2]])}

FreePages(g) == {p \in Page : \E b \in FreeBlocks(g) : p \in Block(b[1], b[2])}

(* Blocks of the largest order come first; what lies behind them has, at    *)
(* some order, no buddy in the group.                                       *)
InTail(addr) == addr >= (NPages \div npages[Top]) * npages[Top]
=============================================================================
