-------------------------------- MODULE Vmmap --------------------------------
(***************************************************************************)
(* The address space of one process: the list of areas of vm/vmmap.c, the  *)
(* calls that change it (vm/mmap.c, vm/brk.c), the two-level page table    *)
(* that follows it (mm/pagetable.c), and the checks the kernel makes       *)
(* before it copies to or from user memory (api/access.c).                 *)
(*                                                                         *)
(* Memory objects are Cow's subject: here an object is a name and the      *)
(* number of its references from areas, and the objects that a private     *)
(* mapping stacks on a file or on zeros are one new object.  None of the   *)
(* operations below has a scheduling point.                                *)
(***************************************************************************)
EXTENDS Naturals, FiniteSets, SequencesExt

CONSTANTS
  PageSize,           (* bytes of a page, few                              *)
  PtEntryCount,       (* pages of one page table (PT_ENTRY_COUNT)          *)
  UserLow, UserHigh,  (* USER_MEM_LOW and USER_MEM_HIGH, in pages          *)
  WordSize,           (* the numbers an address register holds             *)
  Object, File,       (* mmobjs; the one of the file that can be mapped    *)
  FilePage,           (* the pages of the file                             *)
  FileOff,            (* those at which a mapping of it starts             *)
  MapKind,            (* the kinds of mapping made, <<of a file, shared>>  *)
  CallAddr, Length,   (* the addresses and lengths that calls are made with*)
  TouchPage,          (* the pages the program touches                     *)
  BrkAddr,            (* the addresses brk is called with                  *)
  MaxAreas,           (* bound on the areas there are when mmap is called  *)
  NoObj, NoEntry, NoTable

ASSUME VmmapAssumption ==
  /\ PageSize \in Nat \ {0} /\ PtEntryCount \in Nat \ {0}
  /\ UserLow \in Nat \ {0} /\ UserHigh \in Nat /\ UserLow < UserHigh
  /\ UserLow % PtEntryCount = 0 /\ UserHigh % PtEntryCount = 0
  /\ WordSize \in Nat /\ WordSize > UserHigh * PageSize
  /\ File \in Object /\ MapKind \subseteq BOOLEAN \X BOOLEAN
  /\ FilePage \subseteq Nat /\ FileOff \subseteq Nat /\ TouchPage \subseteq Nat /\ BrkAddr \subseteq Nat
  /\ Length \subseteq Nat \ {0} /\ CallAddr \subseteq 0 .. (WordSize - 1)
  /\ NoObj \notin [start : Nat, end : Nat, off : Nat, obj : Object, shared : BOOLEAN, olink : BOOLEAN]
  /\ NoEntry \notin [obj : Object, pn : Nat]
  /\ NoTable \notin [0 .. (PtEntryCount - 1) -> {NoEntry} \cup [obj : Object, pn : Nat]]

VARIABLES
  vmm_list,  (* the areas, in order: [start, end, off, obj, shared, olink]; *)
             (* olink says whether the area is on its object's mmo_vmas     *)
  refs,      (* object -> the references that areas hold; 0: it is freed    *)
  pagedir,   (* index of a table -> NoTable or its entries                  *)
  p_brk,
  p_start_brk,  (* 0 until a program has been loaded                       *)
  panic      (* the kernel has failed an assertion or followed NULL         *)

space == <<vmm_list, refs, pagedir>>
breaks == <<p_brk, p_start_brk>>
vmmapVars == <<space, breaks, panic>>

UserPage == UserLow .. (UserHigh - 1)
Addr == 0 .. (WordSize - 1)
ADDR_TO_PN(addr) == addr \div PageSize
PN_TO_ADDR(pn) == (pn * PageSize) % WordSize
PAGE_ALIGNED(addr) == addr % PageSize = 0
PAGE_ALIGN_UP(addr) == (((addr - 1) \div PageSize) * PageSize + PageSize) % WordSize
PagesOf(len) == len \div PageSize + (IF len % PageSize # 0 THEN 1 ELSE 0)
-----------------------------------------------------------------------------
(* The list of areas                                                        *)
Covers(a, pn) == a.start <= pn /\ pn < a.end
vmmap_lookup(list, pn) ==
  IF \E i \in DOMAIN list : Covers(list[i], pn)
  THEN list[CHOOSE i \in DOMAIN list :
              Covers(list[i], pn) /\ \A j \in 1 .. (i - 1) : ~Covers(list[j], pn)]
  ELSE NoObj
Mapped(list, pn) == vmmap_lookup(list, pn) # NoObj
PageShown(a, pn) == pn - a.start + a.off

vmmap_is_range_empty(list, lo, n) ==
  \A i \in DOMAIN list : lo >= list[i].end \/ n + lo <= list[i].start

(* Before the first area that begins at or behind its end, or at the end    *)
vmmap_insert(list, a) ==
  LET behind == {i \in DOMAIN list : a.end <= list[i].start}
  IN  IF behind = {} THEN Append(list, a)
      ELSE InsertAt(list, CHOOSE i \in behind : \A j \in behind : i <= j, a)

(* The gap behind the i-th area, or, for 0, in front of the first; that of  *)
(* the highest that is long enough. -1 is written 0, which is no user page. *)
GapStart(list, i) == IF i = 0 THEN UserLow ELSE list[i].end
GapEnd(list, i) == IF i = Len(list) THEN UserHigh ELSE list[i + 1].start
EndOfHighest(list, gaps, n) ==
  IF gaps = {} THEN 0 ELSE GapEnd(list, CHOOSE i \in gaps : \A j \in gaps : j <= i) - n

vmmap_find_range_off_by_one(list, n) ==
  EndOfHighest(list, {i \in 0 .. Len(list) : GapEnd(list, i) > n + GapStart(list, i)}, n)
vmmap_find_range(list, n) ==
  EndOfHighest(list, {i \in 0 .. Len(list) : GapEnd(list, i) >= n + GapStart(list, i)}, n)

(* The four cases of an area that meets the pages lo .. hi-1: it is split,  *)
(* loses its end, loses its beginning, or goes.                             *)
Splits(a, lo, hi)    == a.end > hi /\ lo > a.start
LosesEnd(a, lo, hi)  == a.end <= hi /\ a.start < lo /\ a.end > lo
LosesHead(a, lo, hi) == a.end > hi /\ a.start >= lo /\ a.start < hi
Goes(a, lo, hi)      == a.end <= hi /\ a.start >= lo

Remaining(a, lo, hi) ==
  IF Splits(a, lo, hi) \/ LosesEnd(a, lo, hi) THEN [a EXCEPT !.end = lo]
  ELSE IF LosesHead(a, lo, hi)
       THEN [a EXCEPT !.off = @ + hi - a.start, !.start = hi]
       ELSE a
SecondHalf_from_its_start(a, lo, hi) == [a EXCEPT !.start = hi, !.olink = FALSE]
SecondHalf(a, lo, hi) ==
  [a EXCEPT !.start = hi, !.off = @ + hi - a.start, !.olink = FALSE]

(* vmmap_remove.  At most one area is split (AreasOrdered); its second half *)
(* is inserted, with a reference of its own.                                *)
NthOf(S, k) == CHOOSE i \in S : Cardinality({j \in S : j <= i}) = k
AreasWithout(list, lo, hi) ==
  LET kept == {i \in DOMAIN list : ~Goes(list[i], lo, hi)}
      cut == [k \in 1 .. Cardinality(kept) |-> Remaining(list[NthOf(kept, k)], lo, hi)]
      split == {i \in DOMAIN list : Splits(list[i], lo, hi)}
  IN  IF split = {} THEN cut
      ELSE vmmap_insert(cut, SecondHalf(list[CHOOSE i \in split : TRUE], lo, hi))

Many(list, P(_)) == Cardinality({i \in DOMAIN list : P(list[i])})
RefsWithout(list, rs, lo, hi) ==
  [o \in Object |-> rs[o] + Many(list, LAMBDA a : a.obj = o /\ Splits(a, lo, hi))
                          - Many(list, LAMBDA a : a.obj = o /\ Goes(a, lo, hi))]
-----------------------------------------------------------------------------
(* The page table: which table, and which entry in it                       *)
Tbl(pn) == pn \div PtEntryCount
Entry(pn) == pn % PtEntryCount
EmptyTable == [e \in 0 .. (PtEntryCount - 1) |-> NoEntry]
Pte(pd, pn) == IF pd[Tbl(pn)] = NoTable THEN NoEntry ELSE pd[Tbl(pn)][Entry(pn)]

pt_map(pd, pn, entry) ==
  [pd EXCEPT ![Tbl(pn)] = [(IF @ = NoTable THEN EmptyTable ELSE @) EXCEPT ![Entry(pn)] = entry]]
pt_unmap(pd, pn) ==
  [pd EXCEPT ![Tbl(pn)] = IF @ = NoTable THEN @ ELSE [@ EXCEPT ![Entry(pn)] = NoEntry]]

(* The rest of the table in which lo lies, the table in which hi lies up to *)
(* hi, and the tables in between, which are freed                           *)
pt_unmap_range_tables_only(pd, lo, hi) ==
  [t \in DOMAIN pd |-> IF Tbl(lo) < t /\ t < Tbl(hi) THEN NoTable ELSE pd[t]]
pt_unmap_range(pd, lo, hi) ==
  LET first == Tbl(lo + ((PtEntryCount - Entry(lo)) % PtEntryCount))
      cleared(t, e) == \/ t = Tbl(lo) /\ Entry(lo) # 0 /\ e >= Entry(lo)
                       \/ t = Tbl(hi) /\ e < Entry(hi)
  IN  [t \in DOMAIN pd |->
         IF pd[t] = NoTable \/ (first <= t /\ t < Tbl(hi)) THEN NoTable
         ELSE [e \in DOMAIN pd[t] |-> IF cleared(t, e) THEN NoEntry ELSE pd[t][e]]]
-----------------------------------------------------------------------------
(* The areas with their references, and the table; whether a load is going  *)
(* well, and whether an object was needed when there was none, where        *)
(* vmmap_map follows NULL                                                   *)
Space == [list |-> vmm_list, refs |-> refs, dir |-> pagedir, ok |-> TRUE, null |-> FALSE]
Becomes(sp) == \E m \in {sp} : vmm_list' = m.list /\ refs' = m.refs /\ pagedir' = m.dir

vmmap_remove(m, lo, n) ==
  [m EXCEPT !.list = AreasWithout(@, lo, lo + n),
            !.refs = RefsWithout(m.list, @, lo, lo + n),
            !.dir = pt_unmap_range(@, lo, lo + n)]

(* vmmap_map of n pages at lo: an object that nothing else refers to, or    *)
(* the file itself for a shared mapping of it                               *)
Unreferenced(m) == {o \in Object \ {File} : m.refs[o] = 0}
vmmap_map(m, lo, n, file, shared, off) ==
  LET cut == IF vmmap_is_range_empty(m.list, lo, n) THEN m ELSE vmmap_remove(m, lo, n)
      o == IF file /\ shared THEN File ELSE CHOOSE new \in Unreferenced(cut) : TRUE
  IN  IF ~(file /\ shared) /\ Unreferenced(cut) = {} THEN [m EXCEPT !.ok = FALSE, !.null = TRUE]
      ELSE [cut EXCEPT !.list = vmmap_insert(@, [start |-> lo, end |-> lo + n, off |-> off,
                                                 obj |-> o, shared |-> shared, olink |-> TRUE]),
                       !.refs[o] = @ + 1]
-----------------------------------------------------------------------------
(* proc_create: nothing is mapped, until a program is loaded (module Exec). *)
VmmapInit ==
  /\ vmm_list = <<>>
  /\ refs = [o \in Object |-> 0]
  /\ pagedir = [t \in Tbl(UserLow) .. Tbl(UserHigh - 1) |-> NoTable]
  /\ p_brk = 0 /\ p_start_brk = 0
  /\ panic = FALSE

(* A program runs.                                                          *)
InUser == ~panic /\ p_start_brk # 0

Panic == panic' = TRUE /\ UNCHANGED <<space, breaks>>

(* do_munmap, when its arguments pass the checks; the KASSERTs are those of *)
(* pt_unmap_range, on addresses that have wrapped round.                    *)
do_munmap(addr, len) ==
  LET lo == ADDR_TO_PN(addr)
      n == PagesOf(len)
      vlow == PN_TO_ADDR(lo)
      vhigh == PN_TO_ADDR(lo + n)
  IN  /\ InUser
      /\ len <= UserHigh * PageSize
      /\ (len + addr) % WordSize <= UserHigh * PageSize
      /\ UserLow * PageSize <= addr
      /\ IF vlow < vhigh /\ vhigh <= UserHigh * PageSize
         THEN Becomes(vmmap_remove(Space, lo, n)) /\ UNCHANGED <<breaks, panic>>
         ELSE Panic

(* do_mmap, when its arguments pass the checks.  A private mapping of the   *)
(* file is one of a new object; see the head of this module.                *)
do_mmap(addr, len, file, shared, off) ==
  LET n == PagesOf(len)
      lo == IF addr = 0 THEN vmmap_find_range(vmm_list, n) ELSE ADDR_TO_PN(addr)
  IN  /\ InUser
      /\ PAGE_ALIGNED(addr)
      /\ (addr + len) % WordSize <= UserHigh * PageSize
      /\ addr = 0 => lo # 0
      /\ \E m \in {vmmap_map(Space, lo, n, file, shared, off)} :
           IF UserLow <= lo /\ lo + n <= UserHigh /\ ~m.null
           THEN Becomes(m) /\ UNCHANGED <<breaks, panic>>
           ELSE Panic

(* do_brk, when addr is not below p_start_brk and not above the user pages  *)
do_brk(addr) ==
  LET a == vmmap_lookup(vmm_list, ADDR_TO_PN(p_start_brk))
      end == ADDR_TO_PN(PAGE_ALIGN_UP(addr))
  IN  /\ InUser
      /\ p_start_brk <= addr /\ addr <= UserHigh * PageSize
      /\ IF a = NoObj THEN Panic
         ELSE /\ end > a.end => vmmap_is_range_empty(vmm_list, a.end, end - a.end)
              /\ IF end >= a.end
                 THEN /\ vmm_list' = [i \in DOMAIN vmm_list |->
                           IF vmm_list[i] = a THEN [a EXCEPT !.end = end] ELSE vmm_list[i]]
                      /\ UNCHANGED <<refs, pagedir>>
                 ELSE Becomes(vmmap_remove(Space, end, a.end - end))
              /\ p_brk' = addr
              /\ UNCHANGED <<p_start_brk, panic>>

(* The program touches a page that it has mapped; elsewhere it is ended.    *)
handle_pagefault(pn) ==
  LET a == vmmap_lookup(vmm_list, pn) IN
  /\ InUser
  /\ a # NoObj
  /\ pagedir' = pt_map(pagedir, pn, [obj |-> a.obj, pn |-> PageShown(a, pn)])
  /\ UNCHANGED <<vmm_list, refs, breaks, panic>>

(* A page of the file is freed or written out: the entries that map it go,  *)
(* as far as the areas on the file's list tell where they are.  (Private    *)
(* mappings, which may show the file's own frames too, are Cow's subject.)  *)
pframe_remove_from_pts_without_off(pn) ==
  LET maps(a) == a.obj = File /\ a.olink /\ pn < a.end - a.start
      at == {a.start + pn : a \in {b \in ToSet(vmm_list) : maps(b)}}
  IN  /\ InUser
      /\ pagedir' = [t \in DOMAIN pagedir |->
           IF pagedir[t] = NoTable THEN NoTable
           ELSE [e \in DOMAIN pagedir[t] |->
                   IF t * PtEntryCount + e \in at THEN NoEntry ELSE pagedir[t][e]]]
      /\ UNCHANGED <<vmm_list, refs, breaks, panic>>
pframe_remove_from_pts(pn) ==
  LET maps(a) == /\ a.obj = File /\ a.olink
                 /\ pn >= a.off /\ pn < a.off + (a.end - a.start)
      at == {a.start + pn - a.off : a \in {b \in ToSet(vmm_list) : maps(b)}}
  IN  /\ InUser
      /\ pagedir' = [t \in DOMAIN pagedir |->
           IF pagedir[t] = NoTable THEN NoTable
           ELSE [e \in DOMAIN pagedir[t] |->
                   IF t * PtEntryCount + e \in at THEN NoEntry ELSE pagedir[t][e]]]
      /\ UNCHANGED <<vmm_list, refs, breaks, panic>>

(* The kernel copies len bytes at addr in or out: range_perm looks at one   *)
(* address every PageSize bytes, vmmap_read and vmmap_write use them all.   *)
range_perm_ends(addr, len) ==
  Mapped(vmm_list, ADDR_TO_PN(addr)) /\ Mapped(vmm_list, ADDR_TO_PN(addr + len - 1))
range_perm(addr, len) ==
  \A i \in 0 .. (len - 1) : PAGE_ALIGNED(i) => Mapped(vmm_list, ADDR_TO_PN(addr + i))
user_copy(addr, len) ==
  /\ InUser
  /\ range_perm(addr, len)
  /\ IF \A i \in 0 .. (len - 1) : Mapped(vmm_list, ADDR_TO_PN(addr + i))
     THEN UNCHANGED vmmapVars
     ELSE Panic

VmmapNext ==
  \/ \E addr \in BrkAddr : do_brk(addr)
  \/ \E addr \in CallAddr, len \in Length :
       \/ do_munmap(addr, len)
       \/ user_copy(addr, len)
       \/ Len(vmm_list) < MaxAreas /\ \E k \in MapKind, off \in FileOff :
            do_mmap(addr, len, k[1], k[2], IF k[1] THEN off ELSE 0)
  \/ \E pn \in TouchPage : handle_pagefault(pn)
  \/ \E pn \in FilePage : pframe_remove_from_pts(pn)
-----------------------------------------------------------------------------
VmmapTypeOK ==
  /\ vmm_list \in Seq([start : Nat, end : Nat, off : Nat, obj : Object,
                       shared : BOOLEAN, olink : BOOLEAN])
  /\ refs \in [Object -> Nat]
  /\ pagedir \in [Tbl(UserLow) .. Tbl(UserHigh - 1) ->
                    {NoTable} \cup [0 .. (PtEntryCount - 1) ->
                                      {NoEntry} \cup [obj : Object, pn : Nat]]]
  /\ p_start_brk \in Addr /\ p_brk \in p_start_brk .. (UserHigh * PageSize)
  /\ panic \in BOOLEAN

(* The list stays ordered and the areas apart, non-empty and in user memory *)
(* - what find_range, insert and remove take for granted - and an object    *)
(* has one reference for every area over it, also after splits              *)
(* (vmmap.c:197, 464, 479).                                                 *)
AreasOrdered ==
  /\ \A i \in DOMAIN vmm_list :
       /\ UserLow <= vmm_list[i].start /\ vmm_list[i].end <= UserHigh
       /\ vmm_list[i].start < vmm_list[i].end
       /\ i > 1 => vmm_list[i - 1].end <= vmm_list[i].start
  /\ \A o \in Object : refs[o] = Many(vmm_list, LAMBDA a : a.obj = o)

(* find_range finds the highest place for a mapping of any length, and none *)
(* only if there is none (vmmap.c:205-241).                                 *)
FindsHighestGap ==
  \A n \in 1 .. (UserHigh - UserLow) :
    LET fits == {lo \in UserLow .. (UserHigh - n) :
                   \A pn \in lo .. (lo + n - 1) : ~Mapped(vmm_list, pn)}
        found == vmmap_find_range(vmm_list, n)
    IN  IF fits = {} THEN found = 0
        ELSE found \in fits /\ \A lo \in fits : lo <= found

(* The areas hang together, and what is free among them is found.           *)
AreasSound == VmmapTypeOK /\ AreasOrdered /\ FindsHighestGap

(* No entry of the page table shows anything but what the area over its     *)
(* page says: whatever range is unmapped, replaced or given back with brk   *)
(* and used again, nothing of what was there can be seen                    *)
(* (pagetable.c:173-206, vmmap.c:506).                                      *)
TableFollowsAreas ==
  \A pn \in UserPage :
    LET a == vmmap_lookup(vmm_list, pn)
    IN  Pte(pagedir, pn) # NoEntry =>
          a # NoObj /\ Pte(pagedir, pn) = [obj |-> a.obj, pn |-> PageShown(a, pn)]

(* range_perm answers for every page of the range but the last: there it    *)
(* looks only if the range begins in its page as far in as it ends          *)
(* (access.c:152).                                                          *)
ChecksAllButLast ==
  \A addr \in Addr, len \in Length :
    range_perm(addr, len) =>
      \A i \in 0 .. (len - 1) :
        Mapped(vmm_list, ADDR_TO_PN(addr + i))
        \/ ADDR_TO_PN(addr + i) = ADDR_TO_PN(addr + len - 1)

(* "Remove a page frame from the page tables of all processes that map it"  *)
(* (pframe.c:643): of those, it reaches every page that an area on the      *)
(* object's list shows, wherever areas have been cut; what it misses are    *)
(* second halves of areas that were split (vmmap.c:477).                    *)
RemovedButForSplits ==
  [][\A pn \in FilePage : pframe_remove_from_pts(pn) =>
       \A p \in UserPage : Pte(pagedir', p) = [obj |-> File, pn |-> pn] =>
         ~vmmap_lookup(vmm_list, p).olink]_vmmapVars
=============================================================================
