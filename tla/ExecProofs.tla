------------------------------ MODULE ExecProofs ------------------------------
(***************************************************************************)
(* Proofs about address spaces.  First what the helpers of vm/vmmap.c and  *)
(* mm/pagetable.c do, for every size of page, table and memory and for     *)
(* every list of areas: to one area, to a range of the table, to a list    *)
(* that is in order.  Then that the address space of a process stays       *)
(* sound, whatever it maps, unmaps, touches and loads: the inductive       *)
(* invariant of Vmmap's operations and of execve, and what follows from it.*)
(*                                                                         *)
(* While a program is loaded there are two lists of areas over the same    *)
(* objects, and one of them is removed area by area in the end, so that    *)
(* the lemmas speak of an address space beside another one (Good).         *)
(***************************************************************************)
EXTENDS Exec, SequenceTheorems, FiniteSetTheorems, WellFoundedInduction, TLAPS

AreaT == [start : Nat, end : Nat, off : Nat, obj : Object,
          shared : BOOLEAN, olink : BOOLEAN]
Outside(pn, lo, hi) == pn < lo \/ hi <= pn

-----------------------------------------------------------------------------
(* The four cases of vmmap_remove (vmmap.c:465, 482, 487, 493) meet no area *)
(* twice, and an area that meets none of them lies outside the range.       *)
THEOREM CasesExclusive ==
  ASSUME NEW a \in AreaT, NEW lo \in Nat, NEW hi \in Nat, a.start < a.end, lo < hi
  PROVE  /\ Splits(a, lo, hi) => ~LosesEnd(a, lo, hi) /\ ~LosesHead(a, lo, hi) /\ ~Goes(a, lo, hi)
         /\ LosesEnd(a, lo, hi) => ~LosesHead(a, lo, hi) /\ ~Goes(a, lo, hi)
         /\ LosesHead(a, lo, hi) => ~Goes(a, lo, hi)
         /\ ~Splits(a, lo, hi) /\ ~LosesEnd(a, lo, hi) /\ ~LosesHead(a, lo, hi) /\ ~Goes(a, lo, hi)
              => a.end <= lo \/ hi <= a.start
BY DEF AreaT, Splits, LosesEnd, LosesHead, Goes

(* What is left of an area, in one piece or two, is the area outside the    *)
(* range, to the page: nothing more goes and nothing stays (vmmap.c:459).   *)
THEOREM RemoveCutsExactly ==
  ASSUME NEW a \in AreaT, NEW lo \in Nat, NEW hi \in Nat, a.start < a.end, lo < hi,
         NEW pn \in Nat
  PROVE  Covers(a, pn) /\ Outside(pn, lo, hi)
           <=> \/ ~Goes(a, lo, hi) /\ Covers(Remaining(a, lo, hi), pn)
               \/ Splits(a, lo, hi) /\ Covers(SecondHalf(a, lo, hi), pn)
BY DEF AreaT, Outside, Covers, Remaining, SecondHalf, Splits, LosesEnd, LosesHead, Goes

(* Every page that stays shows the page of the object it showed before: the *)
(* offset moves with the start, also where an area is split                 *)
(* (vmmap.c:472, 489).                                                      *)
THEOREM RemoveKeepsPages ==
  ASSUME NEW a \in AreaT, NEW lo \in Nat, NEW hi \in Nat, a.start < a.end, lo < hi,
         NEW pn \in Nat
  PROVE  /\ Remaining(a, lo, hi).obj = a.obj /\ SecondHalf(a, lo, hi).obj = a.obj
         /\ Covers(a, pn) /\ Covers(Remaining(a, lo, hi), pn) =>
              PageShown(Remaining(a, lo, hi), pn) = PageShown(a, pn)
         /\ Covers(SecondHalf(a, lo, hi), pn) =>
              PageShown(SecondHalf(a, lo, hi), pn) = PageShown(a, pn)
BY DEF AreaT, Covers, PageShown, Remaining, SecondHalf, Splits, LosesEnd, LosesHead, Goes

(* Neither piece is empty, they do not meet, and both are areas.            *)
THEOREM RemoveLeavesAreas ==
  ASSUME NEW a \in AreaT, NEW lo \in Nat, NEW hi \in Nat, a.start < a.end, lo < hi
  PROVE  /\ ~Goes(a, lo, hi) =>
              /\ Remaining(a, lo, hi) \in AreaT
              /\ Remaining(a, lo, hi).start < Remaining(a, lo, hi).end
         /\ Splits(a, lo, hi) =>
              /\ SecondHalf(a, lo, hi) \in AreaT
              /\ SecondHalf(a, lo, hi).start < SecondHalf(a, lo, hi).end
              /\ Remaining(a, lo, hi).end <= SecondHalf(a, lo, hi).start
<1>1. ASSUME ~Goes(a, lo, hi)
      PROVE  /\ Remaining(a, lo, hi) \in AreaT
             /\ Remaining(a, lo, hi).start < Remaining(a, lo, hi).end
  <2>1. CASE Splits(a, lo, hi) \/ LosesEnd(a, lo, hi)
    <3>1. Remaining(a, lo, hi) = [a EXCEPT !.end = lo] /\ a.start < lo
      BY <2>1 DEF Remaining, Splits, LosesEnd
    <3>2. QED BY <3>1 DEF AreaT
  <2>2. CASE LosesHead(a, lo, hi)
    <3>1. /\ Remaining(a, lo, hi) = [a EXCEPT !.off = @ + hi - a.start, !.start = hi]
          /\ hi < a.end /\ a.start < hi
      BY <2>2, CasesExclusive DEF Remaining, LosesHead
    <3>2. a.off + hi - a.start \in Nat
      BY <3>1 DEF AreaT
    <3>3. [a EXCEPT !.off = a.off + hi - a.start] \in AreaT
      BY <3>2 DEF AreaT
    <3>4. Remaining(a, lo, hi) = [[a EXCEPT !.off = a.off + hi - a.start] EXCEPT !.start = hi]
      BY <3>1
    <3>5. [[a EXCEPT !.off = a.off + hi - a.start] EXCEPT !.start = hi] \in AreaT
      BY <3>3 DEF AreaT
    <3>6. Remaining(a, lo, hi).start = hi /\ Remaining(a, lo, hi).end = a.end
      BY <3>1 DEF AreaT
    <3>7. QED BY <3>1, <3>4, <3>5, <3>6
  <2>3. CASE ~Splits(a, lo, hi) /\ ~LosesEnd(a, lo, hi) /\ ~LosesHead(a, lo, hi)
    BY <2>3 DEF Remaining
  <2>4. QED BY <2>1, <2>2, <2>3
<1>2. ASSUME Splits(a, lo, hi)
      PROVE  /\ SecondHalf(a, lo, hi) \in AreaT
             /\ SecondHalf(a, lo, hi).start < SecondHalf(a, lo, hi).end
             /\ Remaining(a, lo, hi).end <= SecondHalf(a, lo, hi).start
  <2>1. a.start < lo /\ hi < a.end
    BY <1>2 DEF Splits
  <2>2. a.off + hi - a.start \in Nat
    BY <2>1 DEF AreaT
  <2>3. [[a EXCEPT !.start = hi] EXCEPT !.off = a.off + hi - a.start] \in AreaT
    <3>1. [a EXCEPT !.start = hi] \in AreaT
      BY DEF AreaT
    <3>2. QED BY <2>2, <3>1 DEF AreaT
  <2>4. [[[a EXCEPT !.start = hi] EXCEPT !.off = a.off + hi - a.start] EXCEPT !.olink = FALSE] \in AreaT
    BY <2>3 DEF AreaT
  <2>5. SecondHalf(a, lo, hi)
          = [[[a EXCEPT !.start = hi] EXCEPT !.off = a.off + hi - a.start] EXCEPT !.olink = FALSE]
    BY DEF SecondHalf
  <2>6. /\ SecondHalf(a, lo, hi).start = hi /\ SecondHalf(a, lo, hi).end = a.end
        /\ Remaining(a, lo, hi).end = lo
    BY <1>2 DEF AreaT, SecondHalf, Remaining
  <2>7. QED BY <2>1, <2>4, <2>5, <2>6
<1>3. QED BY <1>1, <1>2

(* vmmap_is_range_empty answers for the pages of the range: it is true if   *)
(* and only if none of them is mapped (vmmap.c:515-540).                    *)
THEOREM EmptyMeansUnmapped ==
  ASSUME NEW list \in Seq(AreaT), NEW lo \in Nat, NEW n \in Nat \ {0},
         \A i \in DOMAIN list : list[i].start < list[i].end
  PROVE  vmmap_is_range_empty(list, lo, n)
           <=> \A i \in DOMAIN list : \A pn \in lo .. (lo + n - 1) : ~Covers(list[i], pn)
<1>1. ASSUME vmmap_is_range_empty(list, lo, n),
             NEW i \in DOMAIN list, NEW pn \in lo .. (lo + n - 1)
      PROVE  ~Covers(list[i], pn)
  <2>1. list[i] \in AreaT
    OBVIOUS
  <2>2. lo >= list[i].end \/ n + lo <= list[i].start
    BY <1>1 DEF vmmap_is_range_empty
  <2>3. QED BY <2>1, <2>2 DEF Covers, AreaT
<1>2. ASSUME \A i \in DOMAIN list : \A pn \in lo .. (lo + n - 1) : ~Covers(list[i], pn),
             NEW i \in DOMAIN list
      PROVE  lo >= list[i].end \/ n + lo <= list[i].start
  <2>1. list[i] \in AreaT /\ list[i].start < list[i].end
    OBVIOUS
  <2>2. CASE list[i].start <= lo
    <3>1. lo \in lo .. (lo + n - 1)
      OBVIOUS
    <3>2. ~Covers(list[i], lo)
      BY <1>2, <3>1
    <3>3. QED BY <2>1, <2>2, <3>2 DEF Covers, AreaT
  <2>3. CASE lo < list[i].start
    <3>1. CASE n + lo <= list[i].start
      BY <3>1
    <3>2. CASE list[i].start < n + lo
      <4>1. list[i].start \in lo .. (lo + n - 1)
        BY <2>1, <2>3, <3>2 DEF AreaT
      <4>2. ~Covers(list[i], list[i].start)
        BY <1>2, <4>1
      <4>3. QED BY <2>1, <4>2 DEF Covers, AreaT
    <3>3. QED BY <2>1, <3>1, <3>2 DEF AreaT
  <2>4. QED BY <2>1, <2>2, <2>3 DEF AreaT
<1>3. QED BY <1>1, <1>2 DEF vmmap_is_range_empty
(* Division and remainder by the entries of a page table                    *)
LEMMA TblEntry ==
  ASSUME NEW n \in Nat
  PROVE  /\ Tbl(n) \in Nat /\ Entry(n) \in 0 .. (PtEntryCount - 1)
         /\ n = PtEntryCount * Tbl(n) + Entry(n)
BY VmmapAssumption, Z3 DEF Tbl, Entry

LEMMA TblMonotone ==
  ASSUME NEW m \in Nat, NEW n \in Nat, m <= n
  PROVE  Tbl(m) <= Tbl(n) /\ (Tbl(m) = Tbl(n) => Entry(m) <= Entry(n))
<1> DEFINE k == PtEntryCount
<1>1. k \in Nat \ {0}
  BY VmmapAssumption
<1>2. /\ Tbl(m) \in Nat /\ Entry(m) \in 0 .. (k - 1) /\ m = k * Tbl(m) + Entry(m)
      /\ Tbl(n) \in Nat /\ Entry(n) \in 0 .. (k - 1) /\ n = k * Tbl(n) + Entry(n)
  BY TblEntry
<1> HIDE DEF k
<1>3. ASSUME Tbl(n) < Tbl(m) PROVE FALSE
  <2>1. PICK d \in Nat : Tbl(m) = Tbl(n) + 1 + d
    <3>1. Tbl(m) - Tbl(n) - 1 \in Nat
      BY <1>2, <1>3
    <3>2. QED BY <1>2, <3>1
  <2>2. k * Tbl(m) = k * Tbl(n) + k + k * d
    BY <1>1, <1>2, <2>1
  <2>3. k * d >= 0
    BY <1>1, <2>1
  <2>4. QED BY <1>1, <1>2, <2>2, <2>3
<1>4. ASSUME Tbl(m) = Tbl(n) PROVE Entry(m) <= Entry(n)
  BY <1>1, <1>2, <1>4
<1>5. QED BY <1>2, <1>3, <1>4

(* The first table that pt_unmap_range frees (pagetable.c:188): that of lo  *)
(* if lo begins it, else the next                                           *)
FirstTable(lo) == Tbl(lo + ((PtEntryCount - Entry(lo)) % PtEntryCount))

LEMMA FirstTableIs ==
  ASSUME NEW lo \in Nat
  PROVE  FirstTable(lo) = IF Entry(lo) = 0 THEN Tbl(lo) ELSE Tbl(lo) + 1
<1> DEFINE k == PtEntryCount
           next == lo + (k - Entry(lo))
<1>1. k \in Nat \ {0}
  BY VmmapAssumption
<1>2. Tbl(lo) \in Nat /\ Entry(lo) \in 0 .. (k - 1) /\ lo = k * Tbl(lo) + Entry(lo)
  BY TblEntry
<1>3. CASE Entry(lo) = 0
  <2>1. (k - Entry(lo)) % k = 0
    BY <1>1, <1>3
  <2>2. QED BY <1>3, <2>1 DEF FirstTable
<1>4. CASE Entry(lo) # 0
  <2>1. (k - Entry(lo)) % k = k - Entry(lo)
    <3>1. k - Entry(lo) \in 1 .. (k - 1)
      BY <1>1, <1>2, <1>4
    <3>2. \A x \in 0 .. (k - 1) : x % k = x
      <4> HIDE DEF k
      <4>1. QED BY <1>1, Z3
    <3>3. QED BY <3>1, <3>2
  <2>2. next \in Nat /\ next = k * (Tbl(lo) + 1)
    BY <1>1, <1>2
  <2>3. Tbl(next) = Tbl(lo) + 1
    <3>1. /\ Tbl(next) \in Nat /\ Entry(next) \in 0 .. (k - 1)
          /\ next = k * Tbl(next) + Entry(next)
      BY <2>2, TblEntry
    <3> HIDE DEF k, next
    <3>2. PICK d \in Int : Tbl(next) = Tbl(lo) + 1 + d
      <4>1. Tbl(next) - Tbl(lo) - 1 \in Int
        BY <1>2, <3>1
      <4>2. QED BY <1>2, <3>1, <4>1
    <3>3. k * d = 0 - Entry(next)
      BY <1>1, <1>2, <2>2, <3>1, <3>2
    <3>4. d = 0
      <4>1. CASE d >= 1
        <5>1. k * d >= k
          BY <1>1, <4>1
        <5>2. QED BY <1>1, <3>1, <3>3, <5>1
      <4>2. CASE d <= -1
        <5>1. k * d <= 0 - k
          BY <1>1, <4>2
        <5>2. QED BY <1>1, <3>1, <3>3, <5>1
      <4>3. QED BY <4>1, <4>2
    <3>5. QED BY <1>2, <3>2, <3>4
  <2>4. QED BY <1>4, <2>1, <2>3 DEF FirstTable
<1>5. QED BY <1>3, <1>4

PageDirT ==
  [Tbl(UserLow) .. Tbl(UserHigh - 1) ->
     {NoTable} \cup [0 .. (PtEntryCount - 1) -> {NoEntry} \cup [obj : Object, pn : Nat]]]

(* pt_unmap_range clears the entry of every page of the range, whichever    *)
(* tables it begins and ends in (pagetable.c:173-206); entries that it also *)
(* clears outside the range are only faulted in again.                      *)
THEOREM UnmapRangeClears ==
  ASSUME NEW pd \in PageDirT, NEW lo \in Nat, NEW hi \in Nat, lo < hi,
         UserLow <= lo, hi <= UserHigh,
         NEW pn \in lo .. (hi - 1)
  PROVE  Pte(pt_unmap_range(pd, lo, hi), pn) = NoEntry
<1> DEFINE after == pt_unmap_range(pd, lo, hi)
           t == Tbl(pn)
           e == Entry(pn)
           cleared == \/ t = Tbl(lo) /\ Entry(lo) # 0 /\ e >= Entry(lo)
                      \/ t = Tbl(hi) /\ e < Entry(hi)
           freed == FirstTable(lo) <= t /\ t < Tbl(hi)
<1>1. pn \in Nat /\ lo <= pn /\ pn < hi /\ pn <= UserHigh - 1 /\ UserHigh - 1 \in Nat
  BY VmmapAssumption
<1>2. /\ Tbl(UserLow) \in Nat /\ Tbl(lo) \in Nat /\ Tbl(hi) \in Nat /\ t \in Nat
      /\ Tbl(UserHigh - 1) \in Nat
      /\ e \in 0 .. (PtEntryCount - 1) /\ Entry(lo) \in Nat /\ Entry(hi) \in Nat
  <2>1. UserLow \in Nat /\ PtEntryCount \in Nat
    BY VmmapAssumption
  <2>2. Entry(lo) \in 0 .. (PtEntryCount - 1) /\ Entry(hi) \in 0 .. (PtEntryCount - 1)
    BY TblEntry
  <2>3. Tbl(UserLow) \in Nat /\ Tbl(UserHigh - 1) \in Nat
    BY <1>1, <2>1, TblEntry
  <2>4. /\ Tbl(lo) \in Nat /\ Tbl(hi) \in Nat /\ t \in Nat
        /\ e \in 0 .. (PtEntryCount - 1)
    BY <1>1, TblEntry
  <2>5. QED BY <2>1, <2>2, <2>3, <2>4
<1>3. Tbl(UserLow) <= t /\ t <= Tbl(UserHigh - 1)
  <2>1. UserLow \in Nat /\ UserLow <= pn
    BY <1>1, VmmapAssumption
  <2>2. QED BY <1>1, <2>1, TblMonotone
<1>4. t \in DOMAIN pd /\ DOMAIN pd = Tbl(UserLow) .. Tbl(UserHigh - 1)
  BY <1>2, <1>3 DEF PageDirT
<1>5. after[t] = IF pd[t] = NoTable \/ freed THEN NoTable
                 ELSE [x \in DOMAIN pd[t] |->
                         IF \/ t = Tbl(lo) /\ Entry(lo) # 0 /\ x >= Entry(lo)
                            \/ t = Tbl(hi) /\ x < Entry(hi)
                         THEN NoEntry ELSE pd[t][x]]
  BY <1>4 DEF pt_unmap_range, FirstTable
<1>6. freed \/ cleared
  <2>1. /\ Tbl(lo) <= t /\ (Tbl(lo) = t => Entry(lo) <= e)
        /\ t <= Tbl(hi) /\ (t = Tbl(hi) => e <= Entry(hi))
    BY <1>1, TblMonotone
  <2>2. t = Tbl(hi) => e < Entry(hi)
    <3>1. /\ pn = PtEntryCount * t + e
          /\ hi = PtEntryCount * Tbl(hi) + Entry(hi)
      BY <1>1, TblEntry
    <3>2. ASSUME t = Tbl(hi), e = Entry(hi) PROVE FALSE
      <4>1. pn = hi
        BY <3>1, <3>2
      <4>2. QED BY <1>1, <4>1
    <3>3. QED BY <1>2, <2>1, <3>2
  <2>3. FirstTable(lo) = IF Entry(lo) = 0 THEN Tbl(lo) ELSE Tbl(lo) + 1
    BY FirstTableIs
  <2> HIDE DEF t, e
  <2>4. CASE t = Tbl(hi)
    BY <2>2, <2>4
  <2>5. CASE t # Tbl(hi)
    <3>1. t < Tbl(hi)
      BY <1>2, <2>1, <2>5
    <3>2. CASE Entry(lo) # 0 /\ t = Tbl(lo)
      BY <1>2, <2>1, <3>2
    <3>3. CASE Entry(lo) = 0
      BY <2>1, <2>3, <3>1, <3>3
    <3>4. CASE Entry(lo) # 0 /\ t # Tbl(lo)
      BY <1>2, <2>1, <2>3, <3>1, <3>4
    <3>5. QED BY <3>2, <3>3, <3>4
  <2>6. QED BY <2>4, <2>5
<1>7. CASE pd[t] = NoTable \/ freed
  BY <1>5, <1>7 DEF Pte
<1>8. CASE pd[t] # NoTable /\ ~freed
  <2>1. pd[t] \in [0 .. (PtEntryCount - 1) -> {NoEntry} \cup [obj : Object, pn : Nat]]
    BY <1>4, <1>8 DEF PageDirT
  <2>2. e \in DOMAIN pd[t] /\ cleared
    BY <1>2, <1>6, <1>8, <2>1
  <2>3. after[t][e] = NoEntry
    BY <1>5, <1>8, <2>2
  <2>4. QED BY <2>3 DEF Pte
<1>9. QED BY <1>7, <1>8

(* Division and remainder by the size of a page                             *)
LEMMA PageOffset ==
  ASSUME NEW n \in Nat
  PROVE  /\ ADDR_TO_PN(n) \in Nat /\ n % PageSize \in 0 .. (PageSize - 1)
         /\ n = PageSize * ADDR_TO_PN(n) + (n % PageSize)
<1>1. PageSize \in Nat \ {0}
  BY VmmapAssumption
<1>. QED BY <1>1, Z3 DEF ADDR_TO_PN

(* and those of page q at offset c                                          *)
LEMMA OffsetPage ==
  ASSUME NEW q \in Nat, NEW c \in 0 .. (PageSize - 1)
  PROVE  ADDR_TO_PN(PageSize * q + c) = q /\ (PageSize * q + c) % PageSize = c
<1> DEFINE P == PageSize
           n == P * q + c
<1>1. P \in Nat \ {0}
  BY VmmapAssumption
<1>2. P * q \in Nat /\ n \in Nat
  BY <1>1
<1>3. /\ ADDR_TO_PN(n) \in Nat /\ n % P \in 0 .. (P - 1)
      /\ n = P * ADDR_TO_PN(n) + (n % P)
  BY <1>2, PageOffset
<1>4. PICK a \in Nat, r \in 0 .. (P - 1) : a = ADDR_TO_PN(n) /\ r = n % P
  BY <1>3
<1>5. P * q + c = P * a + r
  BY <1>3, <1>4
<1> HIDE DEF P, n
<1>6. PICK d \in Int : a = q + d
  <2>1. a - q \in Int
    OBVIOUS
  <2>2. QED BY <2>1
<1>7. P * a = P * q + P * d
  BY <1>1, <1>6
<1>8. d = 0
  <2>1. CASE d >= 1
    <3>1. P * d >= P
      BY ONLY <1>1, <2>1, d \in Int
    <3>2. QED BY <1>1, <1>2, <1>5, <1>7, <3>1 DEF P
  <2>2. CASE d <= -1
    <3>1. P * d <= 0 - P
      BY ONLY <1>1, <2>2, d \in Int
    <3>2. QED BY <1>1, <1>2, <1>5, <1>7, <3>1 DEF P
  <2>3. QED BY <2>1, <2>2
<1>9. a = q /\ r = c
  BY <1>1, <1>2, <1>5, <1>6, <1>7, <1>8 DEF P
<1>. QED BY <1>4, <1>9 DEF P, n

(* What range_perm answers for (access.c:152): a range that it accepts is   *)
(* mapped on every page but, at most, the last, for any size of page, any   *)
(* address and any length. The addresses it looks at are a page apart, so   *)
(* each page but the last has one of them.                                  *)
THEOREM RangePermSamples == ChecksAllButLast
<1> SUFFICES ASSUME NEW addr \in Addr, NEW len \in Length, range_perm(addr, len),
                    NEW i \in 0 .. (len - 1),
                    ADDR_TO_PN(addr + i) # ADDR_TO_PN(addr + len - 1)
             PROVE  Mapped(vmm_list, ADDR_TO_PN(addr + i))
  BY DEF ChecksAllButLast
<1> DEFINE P == PageSize
           last == addr + len - 1
<1>1. /\ P \in Nat \ {0} /\ len \in Nat \ {0} /\ addr \in Nat
      /\ addr + i \in Nat /\ last \in Nat /\ addr + i <= last /\ addr <= addr + i
  BY VmmapAssumption DEF Addr
<1>2. PICK b \in Nat, c \in 0 .. (P - 1) : b = ADDR_TO_PN(addr) /\ addr = P * b + c
  BY <1>1, PageOffset
<1>3. PICK q \in Nat, r \in 0 .. (P - 1) : q = ADDR_TO_PN(addr + i) /\ addr + i = P * q + r
  BY <1>1, PageOffset
<1>4. PICK z \in Nat, y \in 0 .. (P - 1) : z = ADDR_TO_PN(last) /\ last = P * z + y
  BY <1>1, PageOffset
<1>5. P * b \in Nat /\ P * q \in Nat /\ P * z \in Nat
  BY <1>1
<1>6. b <= q /\ q < z
  <2> HIDE DEF P, last
  <2>1. ASSUME NEW m \in Nat, NEW n \in Nat, n < m PROVE P * m >= P * n + P
    <3>1. PICK d \in Nat : m = n + 1 + d
      <4>1. m - n - 1 \in Nat
        BY <2>1
      <4>2. QED BY <4>1
    <3>2. P * m = P * n + P + P * d /\ P * d >= 0
      BY ONLY <1>1, <3>1, m \in Nat, n \in Nat, d \in Nat
    <3>3. QED BY ONLY <1>1, <3>2, m \in Nat, n \in Nat, P * n \in Int, P * d \in Int
  <2>2. ~(q < b)
    <3>1. q < b => P * b >= (P * q) + P
      BY <2>1
    <3>2. QED BY ONLY <1>1, <1>2, <1>3, <1>5, <3>1
  <2>3. ~(z < q)
    <3>1. z < q => P * q >= P * z + P
      BY <2>1
    <3>2. QED BY ONLY <1>1, <1>3, <1>4, <1>5, <3>1
  <2>4. q # z
    BY <1>3, <1>4 DEF last
  <2>. QED BY <2>2, <2>3, <2>4
<1>7. PICK k \in Nat : k = P * (q - b) /\ addr + k = P * q + c /\ k <= len - 1 /\ k % P = 0
  <2> DEFINE k == P * (q - b)
  <2>1. q - b \in Nat
    BY <1>6
  <2>2. k \in Nat /\ k = P * q - P * b
    BY ONLY <1>1, <2>1, q \in Nat, b \in Nat
  <2>3. k % P = 0
    <3>1. 0 \in 0 .. (P - 1) /\ P * (q - b) + 0 = k
      BY <1>1, <2>2
    <3>2. QED BY <2>1, <3>1, OffsetPage
  <2>4. P * z >= P * q + P
    <3>1. PICK d \in Nat : z = q + 1 + d
      <4>1. z - q - 1 \in Nat
        BY <1>6
      <4>2. QED BY <4>1
    <3>2. P * z = P * q + P + P * d /\ P * d >= 0 /\ P * d \in Int
      BY ONLY <1>1, <3>1, q \in Nat, d \in Nat
    <3>3. QED BY ONLY <1>1, <1>5, <3>2
  <2>5. addr + k = P * q + c
    BY <1>2, <1>5, <2>2
  <2>6. k <= len - 1
    <3> HIDE DEF k, P
    <3>1. addr + k <= last
      BY <1>1, <1>2, <1>4, <1>5, <2>4, <2>5
    <3>2. QED BY <1>1, <2>2, <3>1
  <2>. QED BY <2>2, <2>3, <2>5, <2>6
<1>8. ADDR_TO_PN(addr + k) = q
  BY <1>7, OffsetPage
<1>9. k \in 0 .. (len - 1) /\ PAGE_ALIGNED(k)
  BY <1>1, <1>7 DEF PAGE_ALIGNED
<1>. QED BY <1>3, <1>8, <1>9 DEF range_perm
-----------------------------------------------------------------------------
(* Induction.  The library's rules take an operator, the provers a set.     *)
LEMMA LeastElement ==
  ASSUME NEW T \in SUBSET Nat, T # {}
  PROVE  \E n \in T : \A m \in T : ~(m < n)
<1>1. IsWellFoundedOn(OpToRel(<, Nat), Nat)
  BY NatLessThanWellFounded
<1>2. PICK n \in T : \A m \in T : ~(<<m, n>> \in OpToRel(<, Nat))
  BY <1>1, WFMin
<1>3. \A m \in T : <<m, n>> \in OpToRel(<, Nat) <=> m < n
  BY DEF OpToRel
<1>. QED BY <1>2, <1>3

(* A set of naturals with 0 and the successor of each member has them all.  *)
LEMMA SetInduction ==
  ASSUME NEW T, 0 \in T, \A n \in Nat : n \in T => n + 1 \in T
  PROVE  \A n \in Nat : n \in T
<1> SUFFICES ASSUME Nat \ T # {} PROVE FALSE
  OBVIOUS
<1>1. PICK n \in Nat \ T : \A m \in Nat \ T : ~(m < n)
  BY LeastElement
<1>2. n - 1 \in Nat /\ n - 1 < n /\ (n - 1) + 1 = n
  BY <1>1
<1>3. n - 1 \in T
  BY <1>1, <1>2
<1>. QED BY <1>1, <1>2, <1>3

(* A set of naturals with an upper bound has a greatest element.            *)
LEMMA GreatestElement ==
  ASSUME NEW T \in SUBSET Nat, T # {}, NEW b \in Nat, \A n \in T : n <= b
  PROVE  \E n \in T : \A m \in T : m <= n
<1> DEFINE D == {d \in Nat : b - d \in T}
<1>1. PICK t \in T : TRUE
  OBVIOUS
<1>2. b - t \in D
  BY <1>1
<1>3. PICK d \in D : \A e \in D : ~(e < d)
  BY <1>2, LeastElement
<1>4. ASSUME NEW m \in T PROVE m <= b - d
  <2>1. b - m \in D
    OBVIOUS
  <2>2. d \in Nat /\ m \in Nat /\ ~(b - m < d)
    BY <1>3, <2>1
  <2>. QED BY <2>2
<1>5. PICK n \in T : n = b - d
  BY <1>3
<1>. QED BY <1>4, <1>5

(* What is done n times, step i on what came of step i - 1                  *)
LEMMA Iteration ==
  ASSUME NEW S, NEW b \in S, NEW n \in Nat, NEW F \in [1..n -> [S -> S]]
  PROVE  \E g \in [0..n -> S] : g[0] = b /\ \A i \in 1..n : g[i] = F[i][g[i - 1]]
<1> DEFINE Runs(g, k) == g \in [0..k -> S] /\ g[0] = b /\ \A i \in 1..k : g[i] = F[i][g[i - 1]]
           T == {k \in Nat : k <= n => \E g : Runs(g, k)}
<1>1. 0 \in T
  <2>1. Runs([i \in 0..0 |-> b], 0)
    OBVIOUS
  <2>. QED BY <2>1
<1>2. ASSUME NEW k \in Nat, k \in T PROVE k + 1 \in T
  <2> SUFFICES ASSUME k + 1 <= n PROVE \E g : Runs(g, k + 1)
    OBVIOUS
  <2>1. PICK g : Runs(g, k)
    BY <1>2
  <2>2. PICK y \in S : y = F[k + 1][g[k]]
    <3>1. g[k] \in S /\ k + 1 \in 1..n
      BY <2>1
    <3>. QED BY <3>1
  <2> DEFINE h == [i \in 0..(k + 1) |-> IF i = k + 1 THEN y ELSE g[i]]
  <2>3. h \in [0..(k + 1) -> S] /\ h[0] = b
    BY <2>1, <2>2
  <2>4. ASSUME NEW i \in 1..(k + 1) PROVE h[i] = F[i][h[i - 1]]
    <3>1. i - 1 \in 0..k /\ h[i - 1] = g[i - 1]
      OBVIOUS
    <3>2. CASE i = k + 1
      BY <2>2, <3>1, <3>2
    <3>3. CASE i # k + 1
      <4>1. i \in 1..k /\ h[i] = g[i]
        BY <3>3
      <4>. QED BY <2>1, <3>1, <4>1
    <3>. QED BY <3>2, <3>3
  <2>5. Runs(h, k + 1)
    BY <2>3, <2>4
  <2>. QED BY <2>5
<1> HIDE DEF T
<1>3. n \in T
  BY <1>1, <1>2, SetInduction
<1>. QED BY <1>3 DEF T
-----------------------------------------------------------------------------
(* The members of a set of indices, counted off in order                    *)
LEMMA IndicesFinite ==
  ASSUME NEW n \in Nat, NEW K \in SUBSET (1..n)
  PROVE  IsFiniteSet(K) /\ Cardinality(K) \in Nat
<1>1. IsFiniteSet(1..n)
  BY FS_Interval
<1>2. IsFiniteSet(K)
  BY <1>1, FS_Subset
<1>. QED BY ONLY <1>2, FS_CardinalityType

(* Counted off, the members of a set of indices come in order, each once    *)
(* (vmmap.c:460-503: the areas that stay keep their order).                 *)
LEMMA NthOfIs ==
  ASSUME NEW n \in Nat, NEW K \in SUBSET (1..n), NEW c, c = Cardinality(K)
  PROVE  /\ c \in Nat
         /\ \A k \in 1..c : NthOf(K, k) \in K
         /\ \A j, k \in 1..c : j < k => NthOf(K, j) < NthOf(K, k)
         /\ \A i \in K : \E k \in 1..c : NthOf(K, k) = i
<1> DEFINE Upto(i) == {j \in K : j <= i}
           rank == [i \in K |-> Cardinality(Upto(i))]
<1>1. IsFiniteSet(K) /\ c \in Nat
  BY IndicesFinite
<1>2. ASSUME NEW i \in K PROVE IsFiniteSet(Upto(i)) /\ rank[i] \in 1..c
  <2>1. IsFiniteSet(Upto(i)) /\ Cardinality(Upto(i)) <= c /\ Cardinality(Upto(i)) \in Nat
    BY <1>1, FS_Subset, FS_CardinalityType
  <2>2. Cardinality(Upto(i)) # 0
    <3>1. i \in Upto(i)
      OBVIOUS
    <3>. QED BY <2>1, <3>1, FS_EmptySet
  <2>3. rank[i] = Cardinality(Upto(i))
    OBVIOUS
  <2> HIDE DEF rank, Upto
  <2>. QED BY <1>1, <2>1, <2>2, <2>3
<1>3. ASSUME NEW i \in K, NEW j \in K, i < j PROVE rank[i] < rank[j]
  <2>0. \A x \in K : x \in Nat
    OBVIOUS
  <2>1. Upto(i) \in SUBSET Upto(j) /\ j \in Upto(j) /\ j \notin Upto(i)
    <3>1. \A x \in K : x <= i => x <= j
      BY ONLY <1>3, <2>0, i \in K, j \in K
    <3>2. ~(j <= i) /\ j <= j
      BY ONLY <1>3, <2>0, i \in K, j \in K
    <3>. QED BY <3>1, <3>2
  <2>2. IsFiniteSet(Upto(j)) /\ rank[i] \in 1..c /\ rank[j] \in 1..c
    BY <1>2
  <2>3. Cardinality(Upto(i)) <= Cardinality(Upto(j)) /\ Cardinality(Upto(i)) # Cardinality(Upto(j))
    BY <2>1, <2>2, FS_Subset
  <2>. QED BY <1>1, <2>2, <2>3
<1>4. rank \in Injection(K, 1..c)
  <2>1. rank \in [K -> 1..c]
    BY <1>2
  <2>2. ASSUME NEW i \in K, NEW j \in K, rank[i] = rank[j] PROVE i = j
    <3>1. rank[i] \in 1..c /\ rank[j] \in 1..c
      BY <1>2
    <3>2. ~(i < j) /\ ~(j < i)
      BY <1>3, <2>2, <3>1, <1>1
    <3>. QED BY <3>2
  <2>3. DOMAIN rank = K
    OBVIOUS
  <2> HIDE DEF rank
  <2>. QED BY <2>1, <2>2, <2>3 DEF Injection, IsInjective
<1>5. rank \in Surjection(K, 1..c)
  <2>1. IsFiniteSet(1..c) /\ Cardinality(1..c) = c
    BY <1>1, FS_Interval
  <2> HIDE DEF rank
  <2>. QED BY <1>4, <2>1, FS_Injection
<1>6. ASSUME NEW k \in 1..c PROVE NthOf(K, k) \in K /\ rank[NthOf(K, k)] = k
  <2>1. \E i \in K : rank[i] = k
    <3> HIDE DEF rank
    <3>. QED BY <1>5 DEF Surjection
  <2>2. \E i \in K : Cardinality({j \in K : j <= i}) = k
    BY <2>1
  <2>. QED BY <2>2 DEF NthOf
<1> HIDE DEF rank
<1>7. ASSUME NEW j \in 1..c, NEW k \in 1..c, j < k PROVE NthOf(K, j) < NthOf(K, k)
  <2>1. PICK x \in K, y \in K : x = NthOf(K, j) /\ y = NthOf(K, k) /\ rank[x] = j /\ rank[y] = k
    BY <1>6
  <2>2. ~(y < x) /\ y # x
    BY <1>1, <1>3, <1>7, <2>1
  <2>. QED BY <2>1, <2>2
<1>8. ASSUME NEW i \in K PROVE \E k \in 1..c : NthOf(K, k) = i
  <2>1. PICK k \in 1..c : k = rank[i]
    BY <1>2
  <2>2. NthOf(K, k) \in K /\ rank[NthOf(K, k)] = rank[i]
    BY <1>6, <2>1
  <2>. QED BY <1>4, <2>1, <2>2 DEF Injection, IsInjective
<1>. QED BY <1>1, <1>6, <1>7, <1>8
-----------------------------------------------------------------------------
(* Lists of areas that are ordered and apart                                *)
Area == {a \in AreaT : UserLow <= a.start /\ a.end <= UserHigh /\ a.start < a.end}
Apart(list) == \A i, j \in DOMAIN list : i < j => list[i].end <= list[j].start
AreaList == {list \in Seq(Area) : Apart(list)}
Over(list, o) == {i \in DOMAIN list : list[i].obj = o}
Clear(a, b) == a.end <= b.start \/ b.end <= a.start

(* The types of a list of areas                                             *)
LEMMA ListFacts ==
  ASSUME NEW list \in Seq(Area)
  PROVE  /\ Len(list) \in Nat /\ DOMAIN list = 1..Len(list)
         /\ \A i \in DOMAIN list : list[i] \in Area
BY LenProperties, ElementOfSeq

(* The types of an area that lies in user memory                            *)
LEMMA AreaFacts ==
  ASSUME NEW a \in Area
  PROVE  /\ a \in AreaT /\ a.start \in Nat /\ a.end \in Nat /\ a.off \in Nat /\ a.obj \in Object
         /\ a.shared \in BOOLEAN /\ a.olink \in BOOLEAN
         /\ UserLow <= a.start /\ a.end <= UserHigh /\ a.start < a.end
BY DEF Area, AreaT

(* Two sets with a one-to-one map from one onto the other have as many      *)
(* members.                                                                 *)
LEMMA SameCount ==
  ASSUME NEW I, NEW J, IsFiniteSet(I), NEW f \in [I -> J],
         \A x, y \in I : f[x] = f[y] => x = y,
         \A y \in J : \E x \in I : f[x] = y
  PROVE  IsFiniteSet(J) /\ Cardinality(J) = Cardinality(I)
<1>1. f \in Injection(I, J) /\ f \in Surjection(I, J)
  <2>1. DOMAIN f = I
    OBVIOUS
  <2>. QED BY <2>1 DEF Injection, IsInjective, Surjection
<1>2. f \in Bijection(I, J)
  BY <1>1 DEF Bijection
<1>. QED BY <1>2, FS_Bijection DEF ExistsBijection

(* Where vmmap_insert puts an area                                          *)
InsertedAt(list, a, new, p) ==
  /\ \A i \in 1..(Len(list) + 1) :
       new[i] = IF i < p THEN list[i] ELSE IF i = p THEN a ELSE list[i - 1]
  /\ \A i \in 1..(p - 1) : ~(a.end <= list[i].start)
  /\ p <= Len(list) => a.end <= list[p].start

(* vmmap_insert puts the area in one place and keeps all others in order.   *)
LEMMA InsertIs ==
  ASSUME NEW list \in Seq(Area), NEW a \in Area, NEW new, new = vmmap_insert(list, a)
  PROVE  /\ new \in Seq(Area) /\ Len(new) = Len(list) + 1
         /\ \E p \in 1..(Len(list) + 1) : InsertedAt(list, a, new, p)
<1> DEFINE behind == {i \in DOMAIN list : a.end <= list[i].start}
           n == Len(list)
<1>1. n \in Nat /\ DOMAIN list = 1..n /\ \A i \in 1..n : list[i] \in Area
  BY ListFacts
<1>2. CASE behind = {}
  <2>1. new = Append(list, a)
    BY <1>2 DEF vmmap_insert
  <2>2. /\ new \in Seq(Area) /\ Len(new) = n + 1
        /\ \A i \in 1..n : new[i] = list[i]
        /\ new[n + 1] = a
    BY <2>1, AppendProperties
  <2>3. n + 1 \in 1..(n + 1)
    BY <1>1
  <2>4. \A i \in 1..(n + 1) : new[i] = IF i < n + 1 THEN list[i] ELSE IF i = n + 1 THEN a ELSE list[i - 1]
    BY <1>1, <2>2
  <2>5. \A i \in 1..((n + 1) - 1) : ~(a.end <= list[i].start)
    BY <1>1, <1>2
  <2>. QED BY <1>1, <2>2, <2>3, <2>4, <2>5 DEF InsertedAt
<1>3. CASE behind # {}
  <2>1. \E i \in behind : \A j \in behind : i <= j
    <3>1. behind \in SUBSET Nat
      BY <1>1
    <3>2. PICK i \in behind : \A j \in behind : ~(j < i)
      BY <1>3, <3>1, LeastElement
    <3>. QED BY <3>1, <3>2
  <2>2. PICK p \in behind : /\ p = CHOOSE i \in behind : \A j \in behind : i <= j
                            /\ \A j \in behind : p <= j
    BY <2>1
  <2>3. p \in 1..n /\ a.end <= list[p].start /\ \A i \in 1..(p - 1) : ~(a.end <= list[i].start)
    BY <1>1, <2>2
  <2>4. new = SubSeq(list, 1, p - 1) \o <<a>> \o SubSeq(list, p, n)
    BY <1>3, <2>2 DEF vmmap_insert, InsertAt
  <2> HIDE DEF behind
  <2>5. /\ SubSeq(list, 1, p - 1) \in Seq(Area) /\ Len(SubSeq(list, 1, p - 1)) = p - 1
        /\ \A i \in 1..(p - 1) : SubSeq(list, 1, p - 1)[i] = list[i]
    <3>1. \A i \in 1..(p - 1) : list[i] \in Area
      BY <1>1, <2>3
    <3>2. /\ SubSeq(list, 1, p - 1) \in Seq(Area)
          /\ Len(SubSeq(list, 1, p - 1)) = IF 1 <= p - 1 THEN (p - 1) - 1 + 1 ELSE 0
          /\ \A i \in 1..((p - 1) - 1 + 1) : SubSeq(list, 1, p - 1)[i] = list[1 + i - 1]
      BY <1>1, <2>3, <3>1, SubSeqProperties
    <3>. QED BY <2>3, <3>2
  <2>6. /\ SubSeq(list, p, n) \in Seq(Area) /\ Len(SubSeq(list, p, n)) = n - p + 1
        /\ \A i \in 1..(n - p + 1) : SubSeq(list, p, n)[i] = list[p + i - 1]
    <3>1. \A i \in p..n : list[i] \in Area
      BY <1>1, <2>3
    <3>. QED BY <1>1, <2>3, <3>1, SubSeqProperties
  <2>7. <<a>> \in Seq(Area) /\ Len(<<a>>) = 1 /\ <<a>>[1] = a
    OBVIOUS
  <2>8. PICK l \in Seq(Area), m \in Seq(Area), r \in Seq(Area) :
          l = SubSeq(list, 1, p - 1) /\ m = <<a>> /\ r = SubSeq(list, p, n)
    BY <2>5, <2>6, <2>7
  <2>9. /\ l \o m \in Seq(Area) /\ Len(l \o m) = p
        /\ \A i \in 1..p : (l \o m)[i] = IF i <= p - 1 THEN list[i] ELSE a
    <3>1. /\ l \o m \in Seq(Area) /\ Len(l \o m) = (p - 1) + 1
          /\ \A i \in 1..((p - 1) + 1) : (l \o m)[i] = IF i <= p - 1 THEN l[i] ELSE m[i - (p - 1)]
      BY <2>5, <2>7, <2>8, ConcatProperties
    <3>2. \A i \in 1..p : ~(i <= p - 1) => i - (p - 1) = 1
      BY <2>3, <1>1
    <3>3. m[1] = a /\ \A i \in 1..(p - 1) : l[i] = list[i]
      BY <2>5, <2>7, <2>8
    <3>. QED BY <1>1, <2>3, <3>1, <3>2, <3>3
  <2>10. PICK lm \in Seq(Area) : lm = l \o m
    BY <2>9
  <2>11. /\ lm \o r \in Seq(Area) /\ Len(lm \o r) = p + (n - p + 1)
         /\ \A i \in 1..(p + (n - p + 1)) : (lm \o r)[i] = IF i <= p THEN lm[i] ELSE r[i - p]
    <3>1. Len(lm) = p /\ Len(r) = n - p + 1
      BY <2>6, <2>8, <2>9, <2>10
    <3>2. /\ lm \o r \in Seq(Area) /\ Len(lm \o r) = Len(lm) + Len(r)
          /\ \A i \in 1..(Len(lm) + Len(r)) :
               (lm \o r)[i] = IF i <= Len(lm) THEN lm[i] ELSE r[i - Len(lm)]
      BY ConcatProperties
    <3>. QED BY ONLY <3>1, <3>2
  <2>12. new = lm \o r
    BY <2>4, <2>8, <2>10
  <2>13. p + (n - p + 1) = n + 1
    BY <1>1, <2>3
  <2>14. ASSUME NEW i \in 1..(n + 1)
         PROVE  new[i] = IF i < p THEN list[i] ELSE IF i = p THEN a ELSE list[i - 1]
    <3>1. new[i] = IF i <= p THEN lm[i] ELSE r[i - p]
      BY <2>11, <2>12, <2>13
    <3>2. CASE i <= p
      BY <1>1, <2>3, <2>9, <2>10, <3>1, <3>2
    <3>3. CASE ~(i <= p)
      <4>1. i - p \in 1..(n - p + 1) /\ p + (i - p) - 1 = i - 1 /\ ~(i < p) /\ i # p
        BY <1>1, <2>3, <3>3
      <4>2. r[i - p] = list[i - 1]
        BY <2>6, <2>8, <4>1
      <4>. QED BY <3>1, <3>3, <4>1, <4>2
    <3>. QED BY <3>2, <3>3
  <2>15. p \in 1..(n + 1)
    BY <1>1, <2>3
  <2>. QED BY <2>3, <2>11, <2>12, <2>13, <2>14, <2>15 DEF InsertedAt
<1>. QED BY <1>2, <1>3

(* An area that is clear of all others goes where it keeps them apart, and  *)
(* counts once for its object.                                              *)
LEMMA InsertSound ==
  ASSUME NEW list \in AreaList, NEW a \in Area, NEW new, new = vmmap_insert(list, a),
         \A i \in DOMAIN list : Clear(list[i], a)
  PROVE  /\ new \in AreaList
         /\ \A i \in DOMAIN list : \E j \in DOMAIN new : new[j] = list[i]
         /\ \E j \in DOMAIN new : new[j] = a
         /\ \A j \in DOMAIN new : new[j] = a \/ \E i \in DOMAIN list : new[j] = list[i]
<1> DEFINE n == Len(list)
<1>1. list \in Seq(Area) /\ Apart(list)
  BY DEF AreaList
<1>2. n \in Nat /\ DOMAIN list = 1..n /\ \A i \in 1..n : list[i] \in Area
  BY <1>1, ListFacts
<1>3. new \in Seq(Area) /\ Len(new) = n + 1
  BY <1>1, InsertIs
<1>p. PICK p \in 1..(n + 1) : InsertedAt(list, a, new, p)
  BY <1>1, InsertIs
<1>4. /\ \A i \in 1..(n + 1) :
           new[i] = IF i < p THEN list[i] ELSE IF i = p THEN a ELSE list[i - 1]
      /\ \A i \in 1..(p - 1) : ~(a.end <= list[i].start)
      /\ p <= n => a.end <= list[p].start
  BY <1>p DEF InsertedAt
<1>5. DOMAIN new = 1..(n + 1)
  BY <1>3, ListFacts
<1> HIDE DEF n
<1>6. \A i \in 1..n : i < p => list[i].end <= a.start
  <2>1. ASSUME NEW i \in 1..n, i < p PROVE list[i].end <= a.start
    <3>1. ~(a.end <= list[i].start)
      BY <1>2, <1>4, <2>1
    <3>. QED BY <1>2, <3>1 DEF Clear
  <2>. QED BY <2>1
<1>7. \A i \in 1..n : ~(i < p) => a.end <= list[i].start
  <2>1. ASSUME NEW i \in 1..n, ~(i < p) PROVE a.end <= list[i].start
    <3>1. p \in 1..n /\ a.end <= list[p].start
      BY <1>2, <1>4, <2>1
    <3>2. i = p \/ (p < i /\ list[p].end <= list[i].start)
      BY <1>1, <1>2, <2>1, <3>1 DEF Apart
    <3>3. CASE i = p
      BY <3>1, <3>3
    <3>4. CASE list[p].end <= list[i].start
      <4>1. PICK x \in Area, y \in Area : x = list[p] /\ y = list[i]
        BY <1>2, <3>1
      <4>. QED BY <3>1, <3>4, <4>1, AreaFacts
    <3>. QED BY <3>2, <3>3, <3>4
  <2>. QED BY <2>1
<1>8. Apart(new)
  <2>1. ASSUME NEW i \in 1..(n + 1), NEW j \in 1..(n + 1), i < j
        PROVE  new[i].end <= new[j].start
    <3>1. CASE j < p
      <4>1. i < p /\ i \in 1..n /\ j \in 1..n
        BY <1>2, <2>1, <3>1
      <4>. QED BY <1>1, <1>2, <1>4, <2>1, <3>1, <4>1 DEF Apart
    <3>2. CASE j = p
      <4>1. i < p /\ i \in 1..n
        BY <1>2, <2>1, <3>2
      <4>. QED BY <1>4, <1>6, <3>2, <4>1
    <3>3. CASE p < j
      <4>1. j - 1 \in 1..n /\ ~(j - 1 < p) /\ ~(j < p) /\ j # p
        BY <1>2, <2>1, <3>3
      <4>2. new[j] = list[j - 1]
        BY <1>4, <4>1
      <4>3. CASE i < p
        <5>1. i \in 1..n /\ i < j - 1
          BY <1>2, <3>3, <4>3
        <5>. QED BY <1>1, <1>2, <1>4, <4>1, <4>2, <4>3, <5>1 DEF Apart
      <4>4. CASE i = p
        BY <1>4, <1>7, <4>1, <4>2, <4>4
      <4>5. CASE p < i
        <5>1. i - 1 \in 1..n /\ i - 1 < j - 1 /\ ~(i < p) /\ i # p
          BY <1>2, <2>1, <4>5
        <5>2. new[i] = list[i - 1]
          BY <1>4, <5>1
        <5>. QED BY <1>1, <1>2, <4>1, <4>2, <5>1, <5>2 DEF Apart
      <4>. QED BY <4>3, <4>4, <4>5
    <3>. QED BY <3>1, <3>2, <3>3
  <2>. QED BY <1>5, <2>1 DEF Apart
<1>9. new \in AreaList
  BY <1>3, <1>8 DEF AreaList
<1>10. ASSUME NEW i \in 1..n PROVE \E j \in 1..(n + 1) : new[j] = list[i]
  <2>1. CASE i < p
    <3>1. i \in 1..(n + 1) /\ new[i] = list[i]
      BY <1>2, <1>4, <2>1
    <3>. QED BY <3>1
  <2>2. CASE ~(i < p)
    <3>1. i + 1 \in 1..(n + 1) /\ ~(i + 1 < p) /\ i + 1 # p /\ (i + 1) - 1 = i
      BY <1>2, <2>2
    <3>2. new[i + 1] = list[i]
      BY <1>4, <3>1
    <3>. QED BY <3>1, <3>2
  <2>. QED BY <2>1, <2>2
<1>11. new[p] = a
  BY <1>4
<1>12. ASSUME NEW j \in 1..(n + 1) PROVE new[j] = a \/ \E i \in 1..n : new[j] = list[i]
  <2>1. CASE j < p
    BY <1>2, <1>4, <2>1
  <2>2. CASE p < j
    <3>1. j - 1 \in 1..n /\ ~(j < p) /\ j # p
      BY <1>2, <2>2
    <3>. QED BY <1>4, <3>1
  <2>. QED BY <1>11, <2>1, <2>2
<1>13. DOMAIN list = 1..n /\ DOMAIN new = 1..(n + 1) /\ p \in DOMAIN new
  BY <1>2, <1>5
<1>14. \A i \in DOMAIN list : \E j \in DOMAIN new : new[j] = list[i]
  BY <1>10, <1>13
<1>15. \A j \in DOMAIN new : new[j] = a \/ \E i \in DOMAIN list : new[j] = list[i]
  BY <1>12, <1>13
<1>. QED BY <1>9, <1>11, <1>13, <1>14, <1>15

(* Sets of indices of a list can be counted.                                *)
LEMMA OverFinite ==
  ASSUME NEW list \in Seq(Area), NEW K, K \subseteq DOMAIN list
  PROVE  IsFiniteSet(K) /\ Cardinality(K) \in Nat
BY ListFacts, IndicesFinite

(* An area that is put in counts once for its object (vmmap.c:181-196).     *)
LEMMA InsertCounts ==
  ASSUME NEW list \in Seq(Area), NEW a \in Area, NEW new, new = vmmap_insert(list, a), NEW o
  PROVE  Cardinality(Over(new, o)) = Cardinality(Over(list, o)) + (IF a.obj = o THEN 1 ELSE 0)
<1> DEFINE n == Len(list)
<1>1. n \in Nat /\ DOMAIN list = 1..n
  BY ListFacts
<1>2. new \in Seq(Area) /\ Len(new) = n + 1
  BY InsertIs
<1>p. PICK p \in 1..(n + 1) : InsertedAt(list, a, new, p)
  BY InsertIs
<1>3. \A i \in 1..(n + 1) : new[i] = IF i < p THEN list[i] ELSE IF i = p THEN a ELSE list[i - 1]
  BY <1>p DEF InsertedAt
<1>4. DOMAIN new = 1..(n + 1)
  BY <1>2, ListFacts
<1> HIDE DEF n
<1> DEFINE I == Over(list, o)
           J == Over(new, o)
           f == [i \in I |-> IF i < p THEN i ELSE i + 1]
<1>5. I \in SUBSET (1..n) /\ J \in SUBSET (1..(n + 1)) /\ IsFiniteSet(I) /\ Cardinality(I) \in Nat
  <2>1. I \in SUBSET (1..n) /\ J \in SUBSET (1..(n + 1))
    BY <1>1, <1>4 DEF Over
  <2>. QED BY <1>1, <2>1, IndicesFinite
<1>6. f \in [I -> J \ {p}]
  <2>1. ASSUME NEW i \in I PROVE (IF i < p THEN i ELSE i + 1) \in J \ {p}
    <3>1. i \in 1..n /\ list[i].obj = o
      BY <1>1 DEF Over
    <3>2. CASE i < p
      <4>1. i \in 1..(n + 1) /\ new[i] = list[i] /\ i # p
        BY <1>1, <1>3, <3>1, <3>2
      <4>. QED BY <1>4, <3>1, <3>2, <4>1 DEF Over
    <3>3. CASE ~(i < p)
      <4>1. i + 1 \in 1..(n + 1) /\ ~(i + 1 < p) /\ i + 1 # p /\ (i + 1) - 1 = i
        BY <1>1, <3>1, <3>3
      <4>2. new[i + 1] = list[i]
        BY <1>3, <4>1
      <4>. QED BY <1>4, <3>1, <3>3, <4>1, <4>2 DEF Over
    <3>. QED BY <3>2, <3>3
  <2>. QED BY <2>1
<1>7. \A x, y \in I : f[x] = f[y] => x = y
  <2>1. \A x, y \in 1..n : (IF x < p THEN x ELSE x + 1) = (IF y < p THEN y ELSE y + 1) => x = y
    BY <1>1
  <2>2. \A x \in I : x \in 1..n /\ f[x] = IF x < p THEN x ELSE x + 1
    BY <1>5
  <2>. QED BY ONLY <2>1, <2>2
<1>8. \A y \in J \ {p} : \E x \in I : f[x] = y
  <2>1. ASSUME NEW y \in J \ {p} PROVE \E x \in I : f[x] = y
    <3>1. y \in 1..(n + 1) /\ new[y].obj = o /\ y # p
      BY <1>4 DEF Over
    <3>2. CASE y < p
      <4>1. y \in 1..n /\ new[y] = list[y]
        BY <1>1, <1>3, <3>1, <3>2
      <4>2. y \in I
        BY <1>1, <3>1, <4>1 DEF Over
      <4>3. f[y] = y
        BY <3>2, <4>2
      <4>. QED BY <4>2, <4>3
    <3>3. CASE p < y
      <4>1. y - 1 \in 1..n /\ new[y] = list[y - 1] /\ ~(y - 1 < p) /\ (y - 1) + 1 = y
        BY <1>1, <1>3, <3>1, <3>3
      <4>2. y - 1 \in I
        BY <1>1, <3>1, <4>1 DEF Over
      <4>3. f[y - 1] = y
        BY <4>1, <4>2
      <4>. QED BY <4>2, <4>3
    <3>. QED BY <1>1, <3>1, <3>2, <3>3
  <2>. QED BY <2>1
<1> HIDE DEF f, I, J
<1>9. IsFiniteSet(J \ {p}) /\ Cardinality(J \ {p}) = Cardinality(I)
  BY <1>5, <1>6, <1>7, <1>8, SameCount
<1>10. p \in J <=> a.obj = o
  <2>1. new[p] = a
    BY <1>3
  <2>. QED BY <1>4, <2>1 DEF J, Over
<1>11. CASE a.obj = o
  <2>1. (J \ {p}) \cup {p} = J
    BY <1>10, <1>11
  <2>2. Cardinality((J \ {p}) \cup {p}) = Cardinality(J \ {p}) + 1
    BY <1>9, FS_AddElement
  <2>. QED BY <1>9, <1>11, <2>1, <2>2 DEF I, J
<1>12. CASE a.obj # o
  <2>1. J \ {p} = J
    BY <1>10, <1>12
  <2>2. Cardinality(J) = Cardinality(I)
    BY <1>9, <2>1
  <2>3. Cardinality(J) = Cardinality(I) + 0
    BY ONLY <1>5, <2>2
  <2>. QED BY <1>12, <2>3 DEF I, J
<1>. QED BY <1>11, <1>12
-----------------------------------------------------------------------------
(* vmmap_remove on a list                                                   *)
Kept(list, lo, hi) == {i \in DOMAIN list : ~Goes(list[i], lo, hi)}
Cut(list, lo, hi) ==
  [k \in 1..Cardinality(Kept(list, lo, hi)) |->
     Remaining(list[NthOf(Kept(list, lo, hi), k)], lo, hi)]
SplitAt(list, lo, hi) == {i \in DOMAIN list : Splits(list[i], lo, hi)}

(* vmmap_remove, said with the names above                                  *)
LEMMA AreasWithoutIs ==
  ASSUME NEW list, NEW lo, NEW hi
  PROVE  AreasWithout(list, lo, hi) =
           IF SplitAt(list, lo, hi) = {} THEN Cut(list, lo, hi)
           ELSE vmmap_insert(Cut(list, lo, hi),
                             SecondHalf(list[CHOOSE i \in SplitAt(list, lo, hi) : TRUE], lo, hi))
BY DEF AreasWithout, SplitAt, Cut, Kept

(* What is left of an area, the first piece and the second, lies in user    *)
(* memory, belongs to the same object and is outside the range              *)
(* (vmmap.c:465-500).                                                       *)
LEMMA Pieces ==
  ASSUME NEW a \in Area, NEW lo \in Nat, NEW hi \in Nat, lo < hi
  PROVE  /\ ~Goes(a, lo, hi) =>
              LET r == Remaining(a, lo, hi) IN
              /\ r \in Area /\ r.obj = a.obj /\ a.start <= r.start /\ r.end <= a.end
              /\ r.end <= lo \/ hi <= r.start
         /\ Splits(a, lo, hi) =>
              LET s == SecondHalf(a, lo, hi) IN
              /\ s \in Area /\ s.obj = a.obj /\ s.start = hi /\ s.end = a.end
              /\ ~Goes(a, lo, hi) /\ Remaining(a, lo, hi).end <= hi /\ a.start <= hi
<1>1. /\ a \in AreaT /\ a.start \in Nat /\ a.end \in Nat /\ a.off \in Nat
      /\ UserLow <= a.start /\ a.end <= UserHigh /\ a.start < a.end
  BY AreaFacts
<1>2. ASSUME ~Goes(a, lo, hi)
      PROVE  LET r == Remaining(a, lo, hi) IN
              /\ r \in Area /\ r.obj = a.obj /\ a.start <= r.start /\ r.end <= a.end
              /\ r.end <= lo \/ hi <= r.start
  <2>1. Remaining(a, lo, hi) \in AreaT /\ Remaining(a, lo, hi).start < Remaining(a, lo, hi).end
    BY <1>1, <1>2, RemoveLeavesAreas
  <2>2. /\ Remaining(a, lo, hi).obj = a.obj /\ a.start <= Remaining(a, lo, hi).start
        /\ Remaining(a, lo, hi).end <= a.end
        /\ Remaining(a, lo, hi).end <= lo \/ hi <= Remaining(a, lo, hi).start
    BY <1>1, <1>2 DEF AreaT, Remaining, Splits, LosesEnd, LosesHead, Goes
  <2>3. PICK r \in AreaT : r = Remaining(a, lo, hi)
    BY <2>1
  <2>4. UserLow <= r.start /\ r.end <= UserHigh
    BY <1>1, <2>2, <2>3, VmmapAssumption DEF AreaT
  <2>. QED BY <2>1, <2>2, <2>3, <2>4 DEF Area
<1>3. ASSUME Splits(a, lo, hi)
      PROVE  LET s == SecondHalf(a, lo, hi) IN
              /\ s \in Area /\ s.obj = a.obj /\ s.start = hi /\ s.end = a.end
              /\ ~Goes(a, lo, hi) /\ Remaining(a, lo, hi).end <= hi /\ a.start <= hi
  <2>1. SecondHalf(a, lo, hi) \in AreaT /\ SecondHalf(a, lo, hi).start < SecondHalf(a, lo, hi).end
    BY <1>1, <1>3, RemoveLeavesAreas
  <2>2. /\ SecondHalf(a, lo, hi).obj = a.obj /\ SecondHalf(a, lo, hi).start = hi
        /\ SecondHalf(a, lo, hi).end = a.end /\ a.start < lo
    BY <1>1, <1>3 DEF AreaT, SecondHalf, Splits
  <2>3. Remaining(a, lo, hi).end = lo /\ ~Goes(a, lo, hi)
    BY <1>1, <1>3 DEF AreaT, Remaining, Splits, Goes
  <2>4. PICK s \in AreaT : s = SecondHalf(a, lo, hi)
    BY <2>1
  <2>5. UserLow <= s.start /\ s.end <= UserHigh
    BY <1>1, <2>2, <2>4, VmmapAssumption
  <2>. QED BY <1>1, <2>1, <2>2, <2>3, <2>4, <2>5 DEF Area
<1>. QED BY <1>2, <1>3

(* The first pieces, in order, are a list of areas again, and count for     *)
(* their objects what the areas that stay counted.                          *)
LEMMA CutIs ==
  ASSUME NEW list \in AreaList, NEW lo \in Nat, NEW hi \in Nat, lo < hi,
         NEW cut, cut = Cut(list, lo, hi)
  PROVE  /\ cut \in AreaList
         /\ \A i \in Kept(list, lo, hi) : \E k \in DOMAIN cut : cut[k] = Remaining(list[i], lo, hi)
         /\ \A k \in DOMAIN cut : \E i \in Kept(list, lo, hi) : cut[k] = Remaining(list[i], lo, hi)
         /\ \A o : Cardinality(Over(cut, o)) =
                     Cardinality({i \in Kept(list, lo, hi) : list[i].obj = o})
<1> DEFINE n == Len(list)
           K == Kept(list, lo, hi)
           c == Cardinality(K)
           at == [k \in 1..c |-> NthOf(K, k)]
           R(i) == Remaining(list[i], lo, hi)
<1>1. list \in Seq(Area) /\ Apart(list) /\ n \in Nat /\ DOMAIN list = 1..n /\ \A i \in 1..n : list[i] \in Area
  BY ListFacts DEF AreaList
<1>2. K \in SUBSET (1..n) /\ \A i \in K : ~Goes(list[i], lo, hi)
  BY <1>1 DEF Kept
<1> HIDE DEF n, K
<1>3. /\ c \in Nat /\ IsFiniteSet(K)
      /\ \A k \in 1..c : NthOf(K, k) \in K
      /\ \A j, k \in 1..c : j < k => NthOf(K, j) < NthOf(K, k)
      /\ \A i \in K : \E k \in 1..c : NthOf(K, k) = i
  BY <1>1, <1>2, NthOfIs, IndicesFinite
<1> HIDE DEF c
<1>4. /\ at \in [1..c -> K]
      /\ \A j, k \in 1..c : j < k => at[j] < at[k]
      /\ \A i \in K : \E k \in 1..c : at[k] = i
  BY <1>3
<1>5. cut = [k \in 1..c |-> R(at[k])]
  BY DEF Cut, K, c
<1> HIDE DEF at
<1>6. \A i \in K : /\ R(i) \in Area /\ R(i).obj = list[i].obj
                   /\ list[i].start <= R(i).start /\ R(i).end <= list[i].end
  BY <1>1, <1>2, Pieces
<1>7. cut \in Seq(Area) /\ DOMAIN cut = 1..c
  <2>1. cut \in [1..c -> Area]
    BY <1>4, <1>5, <1>6
  <2>. QED BY <1>3, <2>1
<1>8. \A k \in 1..c : at[k] \in K /\ cut[k] = R(at[k])
  BY <1>4, <1>5
<1>9. Apart(cut)
  <2>1. ASSUME NEW j \in 1..c, NEW k \in 1..c, j < k PROVE cut[j].end <= cut[k].start
    <3>1. PICK x \in K, y \in K : x = at[j] /\ y = at[k] /\ x < y
      BY <1>4, <2>1
    <3>2. list[x].end <= list[y].start
      BY <1>1, <1>2, <3>1 DEF Apart
    <3>3. PICK p \in Area, q \in Area : p = list[x] /\ q = list[y]
      BY <1>1, <1>2
    <3>4. PICK r \in Area, s \in Area : r = R(x) /\ s = R(y)
      BY <1>6
    <3>5. r.end <= p.end /\ q.start <= s.start
      BY <1>6, <3>3, <3>4
    <3>6. r.end <= s.start
      BY <3>2, <3>3, <3>5, AreaFacts
    <3>. QED BY <1>8, <3>1, <3>4, <3>6
  <2>. QED BY <1>7, <2>1 DEF Apart
<1>10. ASSUME NEW o PROVE Cardinality(Over(cut, o)) = Cardinality({i \in K : list[i].obj = o})
  <2> DEFINE I == Over(cut, o)
             J == {i \in K : list[i].obj = o}
             f == [k \in I |-> at[k]]
  <2>1. I \in SUBSET (1..c) /\ IsFiniteSet(I)
    <3>1. I \in SUBSET (1..c)
      BY <1>7 DEF Over
    <3>. QED BY <1>3, <3>1, IndicesFinite
  <2>2. \A k \in 1..c : k \in I <=> at[k] \in J
    BY <1>6, <1>7, <1>8 DEF Over
  <2> HIDE DEF I
  <2>3. f \in [I -> J]
    BY <2>1, <2>2
  <2>4. \A x, y \in I : f[x] = f[y] => x = y
    <3>1. \A x, y \in 1..c : at[x] = at[y] => ~(x < y) /\ ~(y < x)
      <4>1. \A x \in 1..c : at[x] \in 1..n
        BY <1>2, <1>8
      <4>2. \A x, y \in 1..n : x < y => x # y
        BY <1>1
      <4>. QED BY <1>4, <4>1, <4>2
    <3>2. \A x, y \in 1..c : ~(x < y) /\ ~(y < x) => x = y
      BY <1>3
    <3>. QED BY <2>1, <3>1, <3>2
  <2>5. \A y \in J : \E x \in I : f[x] = y
    <3>1. ASSUME NEW y \in J PROVE \E x \in I : f[x] = y
      <4>1. PICK x \in 1..c : at[x] = y
        BY <1>4
      <4>2. x \in I
        BY <2>2, <4>1
      <4>. QED BY <4>1, <4>2
    <3>. QED BY <3>1
  <2> HIDE DEF J, f
  <2>6. Cardinality(J) = Cardinality(I)
    BY <2>1, <2>3, <2>4, <2>5, SameCount
  <2>. QED BY <2>6 DEF I, J
<1>11. cut \in AreaList
  BY <1>7, <1>9 DEF AreaList
<1>12. \A i \in K : \E k \in 1..c : cut[k] = R(i)
  BY <1>4, <1>8
<1>. QED BY <1>7, <1>8, <1>10, <1>11, <1>12 DEF K
-----------------------------------------------------------------------------
(* At most one area is split, and what is behind the cut of it is clear of  *)
(* what is left of the others.                                              *)
LEMMA SplitOnce ==
  ASSUME NEW list \in AreaList, NEW lo \in Nat, NEW hi \in Nat, lo < hi,
         NEW s \in SplitAt(list, lo, hi)
  PROVE  /\ SplitAt(list, lo, hi) = {s} /\ s \in DOMAIN list /\ s \in Kept(list, lo, hi)
         /\ \A i \in Kept(list, lo, hi) :
              Clear(Remaining(list[i], lo, hi), SecondHalf(list[s], lo, hi))
<1> DEFINE n == Len(list)
<1>1. /\ list \in Seq(Area) /\ Apart(list) /\ n \in Nat /\ DOMAIN list = 1..n
      /\ \A i \in 1..n : list[i] \in Area
  BY ListFacts DEF AreaList
<1>2. s \in 1..n /\ Splits(list[s], lo, hi)
  BY <1>1 DEF SplitAt
<1> HIDE DEF n
<1>3. PICK a \in Area : a = list[s]
  BY <1>1, <1>2
<1>4. PICK h \in Area : h = SecondHalf(list[s], lo, hi) /\ h.start = hi /\ h.end = a.end
  BY <1>2, <1>3, Pieces
<1>5. a.start < lo /\ hi < a.end /\ ~Goes(list[s], lo, hi) /\ Remaining(list[s], lo, hi).end <= hi
  BY <1>2, <1>3, Pieces, AreaFacts DEF Splits
<1>6. ASSUME NEW i \in 1..n, i # s
      PROVE  list[i].end <= a.start \/ a.end <= list[i].start
  <2>1. i < s \/ s < i
    BY <1>1, <1>2, <1>6
  <2>. QED BY <1>1, <1>2, <1>3, <2>1 DEF Apart
<1>7. ASSUME NEW i \in 1..n, Splits(list[i], lo, hi) PROVE i = s
  <2>1. PICK b \in Area : b = list[i]
    BY <1>1
  <2>2. b.start < lo /\ hi < b.end
    BY <1>7, <2>1, AreaFacts DEF Splits
  <2>3. ~(b.end <= a.start) /\ ~(a.end <= b.start)
    BY <1>5, <2>2, AreaFacts
  <2>. QED BY <1>6, <2>1, <2>3
<1>8. ASSUME NEW i \in Kept(list, lo, hi)
      PROVE  Clear(Remaining(list[i], lo, hi), SecondHalf(list[s], lo, hi))
  <2>1. i \in 1..n /\ ~Goes(list[i], lo, hi)
    BY <1>1 DEF Kept
  <2>2. PICK b \in Area, r \in Area : /\ b = list[i] /\ r = Remaining(list[i], lo, hi)
                                      /\ b.start <= r.start /\ r.end <= b.end
    BY <1>1, <2>1, Pieces
  <2>3. CASE i = s
    BY <1>4, <1>5, <2>2, <2>3 DEF Clear
  <2>4. CASE i # s /\ b.end <= a.start
    <3>1. r.end <= h.start
      BY <1>4, <1>5, <2>2, <2>4, AreaFacts
    <3>. QED BY <1>4, <2>2, <3>1 DEF Clear
  <2>5. CASE i # s /\ a.end <= b.start
    <3>1. h.end <= r.start
      BY <1>4, <1>5, <2>2, <2>5, AreaFacts
    <3>. QED BY <1>4, <2>2, <3>1 DEF Clear
  <2>. QED BY <1>6, <2>1, <2>2, <2>3, <2>4, <2>5
<1>. QED BY <1>1, <1>2, <1>5, <1>7, <1>8 DEF SplitAt, Kept

(* vmmap_remove leaves the areas ordered and apart, and of each the pieces  *)
(* outside the range.                                                       *)
LEMMA RemoveList ==
  ASSUME NEW list \in AreaList, NEW lo \in Nat, NEW hi \in Nat, lo < hi,
         NEW new, new = AreasWithout(list, lo, hi)
  PROVE  /\ new \in AreaList
         /\ \A i \in Kept(list, lo, hi) : \E k \in DOMAIN new : new[k] = Remaining(list[i], lo, hi)
         /\ \A i \in SplitAt(list, lo, hi) : \E k \in DOMAIN new : new[k] = SecondHalf(list[i], lo, hi)
         /\ \A k \in DOMAIN new :
              \/ \E i \in Kept(list, lo, hi) : new[k] = Remaining(list[i], lo, hi)
              \/ \E i \in SplitAt(list, lo, hi) : new[k] = SecondHalf(list[i], lo, hi)
<1>1. PICK cut : cut = Cut(list, lo, hi)
  OBVIOUS
<1>2. /\ cut \in AreaList
      /\ \A i \in Kept(list, lo, hi) : \E k \in DOMAIN cut : cut[k] = Remaining(list[i], lo, hi)
      /\ \A k \in DOMAIN cut : \E i \in Kept(list, lo, hi) : cut[k] = Remaining(list[i], lo, hi)
  BY <1>1, CutIs
<1>3. CASE SplitAt(list, lo, hi) = {}
  <2>1. new = cut
    BY <1>1, <1>3, AreasWithoutIs
  <2>. QED BY <1>2, <1>3, <2>1
<1>4. CASE SplitAt(list, lo, hi) # {}
  <2>1. PICK s \in SplitAt(list, lo, hi) : s = CHOOSE i \in SplitAt(list, lo, hi) : TRUE
    BY <1>4
  <2>2. /\ SplitAt(list, lo, hi) = {s} /\ s \in DOMAIN list
        /\ \A i \in Kept(list, lo, hi) :
              Clear(Remaining(list[i], lo, hi), SecondHalf(list[s], lo, hi))
    BY SplitOnce
  <2>3. list[s] \in Area /\ Splits(list[s], lo, hi)
    BY <2>2, ListFacts DEF AreaList, SplitAt
  <2>4. PICK h \in Area : h = SecondHalf(list[s], lo, hi)
    BY <2>3, Pieces
  <2>5. new = vmmap_insert(cut, h)
    BY <1>1, <1>4, <2>1, <2>4, AreasWithoutIs
  <2>6. \A k \in DOMAIN cut : Clear(cut[k], h)
    BY <1>2, <2>2, <2>4
  <2>7. /\ new \in AreaList
        /\ \A i \in DOMAIN cut : \E j \in DOMAIN new : new[j] = cut[i]
        /\ \E j \in DOMAIN new : new[j] = h
        /\ \A j \in DOMAIN new : new[j] = h \/ \E i \in DOMAIN cut : new[j] = cut[i]
    BY <1>2, <2>5, <2>6, InsertSound
  <2>8. ASSUME NEW i \in Kept(list, lo, hi)
        PROVE  \E k \in DOMAIN new : new[k] = Remaining(list[i], lo, hi)
    <3>1. PICK k \in DOMAIN cut : cut[k] = Remaining(list[i], lo, hi)
      BY <1>2
    <3>. QED BY <2>7, <3>1
  <2>9. ASSUME NEW k \in DOMAIN new
        PROVE  \/ \E i \in Kept(list, lo, hi) : new[k] = Remaining(list[i], lo, hi)
               \/ \E i \in SplitAt(list, lo, hi) : new[k] = SecondHalf(list[i], lo, hi)
    <3>1. CASE new[k] = h
      BY <2>4, <3>1
    <3>2. CASE \E i \in DOMAIN cut : new[k] = cut[i]
      BY <1>2, <3>2
    <3>. QED BY <2>7, <3>1, <3>2
  <2>. QED BY <2>2, <2>4, <2>7, <2>8, <2>9
<1>. QED BY <1>3, <1>4

(* It counts the references right: one more for the area that is split, one *)
(* less for each that goes.                                                 *)
GoesOver(list, o, lo, hi) == {i \in DOMAIN list : list[i].obj = o /\ Goes(list[i], lo, hi)}
SplitOver(list, o, lo, hi) == {i \in DOMAIN list : list[i].obj = o /\ Splits(list[i], lo, hi)}

(* The counts of the new list, object by object (vmmap.c:479, 499)          *)
LEMMA RemoveCounts ==
  ASSUME NEW list \in AreaList, NEW lo \in Nat, NEW hi \in Nat, lo < hi,
         NEW new, new = AreasWithout(list, lo, hi), NEW o
  PROVE  /\ Cardinality(Over(list, o)) \in Nat /\ Cardinality(Over(new, o)) \in Nat
         /\ Cardinality(SplitOver(list, o, lo, hi)) \in Nat
         /\ Cardinality(GoesOver(list, o, lo, hi)) \in Nat
         /\ Cardinality(Over(new, o)) =
              Cardinality(Over(list, o)) + Cardinality(SplitOver(list, o, lo, hi))
                                         - Cardinality(GoesOver(list, o, lo, hi))
<1> DEFINE KO == {i \in Kept(list, lo, hi) : list[i].obj = o}
           GO == GoesOver(list, o, lo, hi)
           SO == SplitOver(list, o, lo, hi)
           I == Over(list, o)
<1>1. list \in Seq(Area)
  BY DEF AreaList
<1>2. /\ KO \subseteq DOMAIN list /\ GO \subseteq DOMAIN list /\ SO \subseteq DOMAIN list
      /\ I \subseteq DOMAIN list
  BY DEF Kept, GoesOver, SplitOver, Over
<1>3. /\ IsFiniteSet(KO) /\ Cardinality(KO) \in Nat /\ IsFiniteSet(GO) /\ Cardinality(GO) \in Nat
      /\ IsFiniteSet(SO) /\ Cardinality(SO) \in Nat /\ IsFiniteSet(I) /\ Cardinality(I) \in Nat
  BY <1>1, <1>2, OverFinite
<1>4. KO \cup GO = I /\ KO \cap GO = {}
  BY DEF Kept, GoesOver, Over
<1> HIDE DEF KO, GO, SO, I
<1>5. Cardinality(I) = Cardinality(KO) + Cardinality(GO)
  <2>1. Cardinality(KO \cup GO) = Cardinality(KO) + Cardinality(GO) - Cardinality(KO \cap GO)
    BY <1>3, FS_Union
  <2>2. Cardinality(KO \cap GO) = 0
    BY <1>4, FS_EmptySet
  <2>3. Cardinality(KO \cup GO) = Cardinality(I)
    BY <1>4
  <2>. QED BY ONLY <1>3, <2>1, <2>2, <2>3
<1>6. PICK cut \in AreaList : cut = Cut(list, lo, hi) /\ Cardinality(Over(cut, o)) = Cardinality(KO)
  <2>1. PICK cut : cut = Cut(list, lo, hi)
    OBVIOUS
  <2>. QED BY <2>1, CutIs DEF KO
<1>7. Cardinality(Over(new, o)) = Cardinality(KO) + Cardinality(SO)
  <2>1. CASE SplitAt(list, lo, hi) = {}
    <3>1. new = cut
      BY <1>6, <2>1, AreasWithoutIs
    <3>2. SO = {}
      BY <2>1 DEF SO, SplitOver, SplitAt
    <3>3. Cardinality(SO) = 0
      BY <3>2, FS_EmptySet
    <3>. QED BY <1>3, <1>6, <3>1, <3>3
  <2>2. CASE SplitAt(list, lo, hi) # {}
    <3>1. PICK s \in SplitAt(list, lo, hi) : s = CHOOSE i \in SplitAt(list, lo, hi) : TRUE
      BY <2>2
    <3>2. SplitAt(list, lo, hi) = {s} /\ s \in DOMAIN list
      BY SplitOnce
    <3>3. list[s] \in Area /\ Splits(list[s], lo, hi)
      BY <1>1, <3>2, ListFacts DEF SplitAt
    <3>4. PICK h \in Area : h = SecondHalf(list[s], lo, hi) /\ h.obj = list[s].obj
      BY <3>3, Pieces
    <3>5. new = vmmap_insert(cut, h)
      BY <1>6, <2>2, <3>1, <3>4, AreasWithoutIs
    <3>6. cut \in Seq(Area)
      BY DEF AreaList
    <3>7. Cardinality(Over(new, o)) = Cardinality(Over(cut, o)) + (IF h.obj = o THEN 1 ELSE 0)
      BY <3>5, <3>6, InsertCounts
    <3>8. SO = IF h.obj = o THEN {s} ELSE {}
      BY <3>2, <3>4 DEF SO, SplitOver, SplitAt
    <3>9. Cardinality(SO) = IF h.obj = o THEN 1 ELSE 0
      BY <3>8, FS_EmptySet, FS_Singleton
    <3>. QED BY <1>6, <3>7, <3>9
  <2>. QED BY <2>1, <2>2
<1>8. Cardinality(Over(new, o)) \in Nat
  BY <1>3, <1>7
<1>. QED BY <1>3, <1>5, <1>7, <1>8 DEF GO, SO, I
-----------------------------------------------------------------------------
(* What the areas show on a page                                            *)
ShownBy(list, pn, e) ==
  \E i \in DOMAIN list : Covers(list[i], pn) /\ e = [obj |-> list[i].obj, pn |-> PageShown(list[i], pn)]
Follows(list, dir) ==
  \A pn \in UserPage : Pte(dir, pn) # NoEntry => ShownBy(list, pn, Pte(dir, pn))

(* User pages are numbers within the bounds.                                *)
LEMMA UserPages == ASSUME NEW pn \in UserPage PROVE pn \in Nat /\ UserLow <= pn /\ pn < UserHigh
BY VmmapAssumption DEF UserPage

(* vmmap_lookup finds the one area over a page, and only that               *)
(* (vmmap.c:247-262).                                                       *)
LEMMA LookupIs ==
  ASSUME NEW list \in AreaList, NEW pn \in Nat
  PROVE  /\ \A i \in DOMAIN list : Covers(list[i], pn) => vmmap_lookup(list, pn) = list[i]
         /\ vmmap_lookup(list, pn) # NoObj =>
              \E i \in DOMAIN list : Covers(list[i], pn) /\ vmmap_lookup(list, pn) = list[i]
<1> DEFINE n == Len(list)
           C(i) == /\ Covers(list[i], pn)
                   /\ \A j \in 1 .. (i - 1) : ~Covers(list[j], pn)
<1>1. /\ list \in Seq(Area) /\ Apart(list) /\ n \in Nat /\ DOMAIN list = 1..n
      /\ \A i \in 1..n : list[i] \in Area
  BY ListFacts DEF AreaList
<1> HIDE DEF n
<1>2. ASSUME NEW i \in 1..n, NEW j \in 1..n, Covers(list[i], pn), Covers(list[j], pn)
      PROVE  i = j
  <2>1. PICK a \in Area, b \in Area : a = list[i] /\ b = list[j]
    BY <1>1
  <2>2. ~(a.end <= b.start) /\ ~(b.end <= a.start)
    BY <1>2, <2>1, AreaFacts DEF Covers
  <2>3. ~(i < j) /\ ~(j < i)
    BY <1>1, <2>1, <2>2 DEF Apart
  <2>. QED BY <2>3
<1>3. ASSUME NEW i \in 1..n, Covers(list[i], pn) PROVE C(i)
  <2>1. \A j \in 1 .. (i - 1) : j \in 1..n /\ j # i
    BY <1>1
  <2>. QED BY <1>2, <1>3, <2>1
<1>4. ASSUME NEW i \in 1..n, Covers(list[i], pn) PROVE vmmap_lookup(list, pn) = list[i]
  <2>1. \A j \in 1..n : C(j) => j = i
    BY <1>2, <1>4
  <2>2. (CHOOSE j \in 1..n : C(j)) = i
    <3>1. i \in 1..n /\ C(i)
      BY <1>3, <1>4
    <3> HIDE DEF C
    <3>. QED BY <2>1, <3>1
  <2>. QED BY <1>1, <1>4, <2>2 DEF vmmap_lookup
<1>5. ASSUME vmmap_lookup(list, pn) # NoObj PROVE \E i \in 1..n : Covers(list[i], pn)
  BY <1>1, <1>5 DEF vmmap_lookup
<1>. QED BY <1>1, <1>4, <1>5

(* No area is what vmmap_lookup returns for a page without one.             *)
LEMMA NoObjNoArea == ASSUME NEW a \in Area PROVE a # NoObj
BY VmmapAssumption DEF Area, AreaT

(* The table follows the areas, said with vmmap_lookup                      *)
LEMMA FollowsLookup ==
  ASSUME NEW list \in AreaList, NEW dir, Follows(list, dir), NEW pn \in UserPage,
         Pte(dir, pn) # NoEntry
  PROVE  /\ vmmap_lookup(list, pn) # NoObj
         /\ Pte(dir, pn) = [obj |-> vmmap_lookup(list, pn).obj,
                            pn |-> PageShown(vmmap_lookup(list, pn), pn)]
<1>1. PICK i \in DOMAIN list : Covers(list[i], pn) /\ Pte(dir, pn) = [obj |-> list[i].obj, pn |-> PageShown(list[i], pn)]
  BY DEF Follows, ShownBy
<1>2. vmmap_lookup(list, pn) = list[i]
  BY <1>1, LookupIs, UserPages
<1>3. list[i] \in Area
  BY ListFacts DEF AreaList
<1>. QED BY <1>1, <1>2, <1>3, NoObjNoArea

(* vmmap_remove changes nothing outside the range, and an area put in       *)
(* hides nothing.                                                           *)
LEMMA RemoveShows ==
  ASSUME NEW list \in AreaList, NEW lo \in Nat, NEW hi \in Nat, lo < hi,
         NEW new, new = AreasWithout(list, lo, hi),
         NEW pn \in Nat, Outside(pn, lo, hi), NEW e, ShownBy(list, pn, e)
  PROVE  ShownBy(new, pn, e)
<1>1. PICK i \in DOMAIN list : Covers(list[i], pn) /\ e = [obj |-> list[i].obj, pn |-> PageShown(list[i], pn)]
  BY DEF ShownBy
<1>2. PICK a \in Area : a = list[i]
  BY ListFacts DEF AreaList
<1>3. a \in AreaT /\ a.start < a.end
  BY AreaFacts
<1>4. CASE ~Goes(a, lo, hi) /\ Covers(Remaining(a, lo, hi), pn)
  <2>1. Remaining(a, lo, hi).obj = a.obj /\ PageShown(Remaining(a, lo, hi), pn) = PageShown(a, pn)
    BY <1>1, <1>2, <1>3, <1>4, RemoveKeepsPages
  <2>2. i \in Kept(list, lo, hi)
    BY <1>2, <1>4 DEF Kept
  <2>3. PICK k \in DOMAIN new : new[k] = Remaining(a, lo, hi)
    BY <1>2, <2>2, RemoveList
  <2>. QED BY <1>1, <1>2, <1>4, <2>1, <2>3 DEF ShownBy
<1>5. CASE Splits(a, lo, hi) /\ Covers(SecondHalf(a, lo, hi), pn)
  <2>1. SecondHalf(a, lo, hi).obj = a.obj /\ PageShown(SecondHalf(a, lo, hi), pn) = PageShown(a, pn)
    BY <1>3, <1>5, RemoveKeepsPages
  <2>2. i \in SplitAt(list, lo, hi)
    BY <1>2, <1>5 DEF SplitAt
  <2>3. PICK k \in DOMAIN new : new[k] = SecondHalf(a, lo, hi)
    BY <1>2, <2>2, RemoveList
  <2>. QED BY <1>1, <1>2, <1>5, <2>1, <2>3 DEF ShownBy
<1>. QED BY <1>1, <1>2, <1>3, <1>4, <1>5, RemoveCutsExactly

(* A page shows what it showed as long as its area stays.                   *)
LEMMA SameShows ==
  ASSUME NEW list, NEW new, \A i \in DOMAIN list : \E j \in DOMAIN new : new[j] = list[i],
         NEW pn, NEW e, ShownBy(list, pn, e)
  PROVE  ShownBy(new, pn, e)
<1>1. PICK i \in DOMAIN list : Covers(list[i], pn) /\ e = [obj |-> list[i].obj, pn |-> PageShown(list[i], pn)]
  BY DEF ShownBy
<1>2. PICK j \in DOMAIN new : new[j] = list[i]
  OBVIOUS
<1>. QED BY <1>1, <1>2 DEF ShownBy

(* What is left has no page in the range.                                   *)
LEMMA RemoveClears ==
  ASSUME NEW list \in AreaList, NEW lo \in Nat, NEW hi \in Nat, lo < hi,
         NEW new, new = AreasWithout(list, lo, hi), NEW k \in DOMAIN new
  PROVE  new[k].end <= lo \/ hi <= new[k].start
<1>1. CASE \E i \in Kept(list, lo, hi) : new[k] = Remaining(list[i], lo, hi)
  <2>1. PICK i \in Kept(list, lo, hi) : new[k] = Remaining(list[i], lo, hi)
    BY <1>1
  <2>2. list[i] \in Area /\ ~Goes(list[i], lo, hi)
    BY ListFacts DEF AreaList, Kept
  <2>. QED BY <2>1, <2>2, Pieces
<1>2. CASE \E i \in SplitAt(list, lo, hi) : new[k] = SecondHalf(list[i], lo, hi)
  <2>1. PICK i \in SplitAt(list, lo, hi) : new[k] = SecondHalf(list[i], lo, hi)
    BY <1>2
  <2>2. list[i] \in Area /\ Splits(list[i], lo, hi)
    BY ListFacts DEF AreaList, SplitAt
  <2>3. SecondHalf(list[i], lo, hi).start = hi
    BY <2>2, Pieces
  <2>. QED BY <2>1, <2>3
<1>. QED BY <1>1, <1>2, RemoveList
-----------------------------------------------------------------------------
(* Page tables that have lost entries, and no more                          *)
PteT == [obj : Object, pn : Nat]
TableT == [0 .. (PtEntryCount - 1) -> {NoEntry} \cup PteT]
Loses(new, old) ==
  /\ new \in PageDirT
  /\ \A pn \in UserPage : Pte(new, pn) = NoEntry \/ Pte(new, pn) = Pte(old, pn)

(* A table that loses entries goes on following the areas.                  *)
LEMMA LosesFollows ==
  ASSUME NEW list, NEW old, NEW new, Loses(new, old), Follows(list, old)
  PROVE  Follows(list, new)
BY DEF Loses, Follows

(* Losing entries twice is losing entries.                                  *)
LEMMA LosesTwice ==
  ASSUME NEW a, NEW b, NEW c, Loses(c, b), Loses(b, a)
  PROVE  Loses(c, a)
BY DEF Loses

(* A table has lost nothing of itself.                                      *)
LEMMA LosesNothing == ASSUME NEW a \in PageDirT PROVE Loses(a, a)
BY DEF Loses

(* The table and the entry of a user page exist (pagetable.c:131-150).      *)
LEMMA TableOf ==
  ASSUME NEW pn \in UserPage
  PROVE  /\ Tbl(pn) \in Tbl(UserLow) .. Tbl(UserHigh - 1)
         /\ Entry(pn) \in 0 .. (PtEntryCount - 1)
<1>1. pn \in Nat /\ UserLow <= pn /\ pn <= UserHigh - 1 /\ UserLow \in Nat /\ UserHigh - 1 \in Nat
  BY UserPages, VmmapAssumption
<1>2. /\ Tbl(UserLow) \in Nat /\ Tbl(UserHigh - 1) \in Nat /\ Tbl(pn) \in Nat
      /\ Entry(pn) \in 0 .. (PtEntryCount - 1)
  BY <1>1, TblEntry
<1>3. Tbl(UserLow) <= Tbl(pn) /\ Tbl(pn) <= Tbl(UserHigh - 1)
  BY <1>1, TblMonotone
<1>. QED BY <1>2, <1>3

(* No two pages share an entry.                                             *)
LEMMA SameEntry ==
  ASSUME NEW p \in UserPage, NEW q \in UserPage, Tbl(p) = Tbl(q), Entry(p) = Entry(q)
  PROVE  p = q
BY UserPages, TblEntry

(* No table is what stands for a missing one.                               *)
LEMMA TablesNotNone == ASSUME NEW x \in TableT PROVE x # NoTable
BY VmmapAssumption DEF TableT, PteT

(* The types of an entry                                                    *)
LEMMA PteIs ==
  ASSUME NEW pd \in PageDirT, NEW pn \in UserPage
  PROVE  Pte(pd, pn) \in {NoEntry} \cup PteT
<1>1. pd[Tbl(pn)] \in {NoTable} \cup TableT
  BY TableOf DEF PageDirT, TableT, PteT
<1>2. CASE pd[Tbl(pn)] = NoTable
  BY <1>2 DEF Pte
<1>3. CASE pd[Tbl(pn)] # NoTable
  <2>1. pd[Tbl(pn)] \in TableT
    BY <1>1, <1>3
  <2>. QED BY <1>3, <2>1, TableOf DEF Pte, TableT
<1>. QED BY <1>2, <1>3

(* pt_unmap_range, and pframe_remove_from_pts, only clear entries.          *)
LEMMA ClearedLoses ==
  ASSUME NEW pd \in PageDirT, NEW new, DOMAIN new = DOMAIN pd,
         \A t \in DOMAIN pd :
           \/ new[t] = NoTable
           \/ /\ pd[t] # NoTable /\ new[t] \in TableT
              /\ \A e \in 0 .. (PtEntryCount - 1) : new[t][e] = NoEntry \/ new[t][e] = pd[t][e],
         new = [t \in DOMAIN pd |-> new[t]]
  PROVE  Loses(new, pd)
<1> DEFINE D == Tbl(UserLow) .. Tbl(UserHigh - 1)
<1>1. DOMAIN pd = D
  BY DEF PageDirT
<1>2. new \in [D -> {NoTable} \cup TableT]
  BY <1>1
<1>3. new \in PageDirT
  BY <1>2 DEF PageDirT, TableT, PteT
<1>4. ASSUME NEW pn \in UserPage PROVE Pte(new, pn) = NoEntry \/ Pte(new, pn) = Pte(pd, pn)
  <2>1. Tbl(pn) \in DOMAIN pd /\ Entry(pn) \in 0 .. (PtEntryCount - 1)
    BY <1>1, TableOf
  <2>2. CASE new[Tbl(pn)] = NoTable
    BY <2>2 DEF Pte
  <2>3. CASE new[Tbl(pn)] # NoTable
    BY <2>1, <2>3 DEF Pte
  <2>. QED BY <2>2, <2>3
<1>. QED BY <1>3, <1>4 DEF Loses

(* pt_unmap_range sets no entry (pagetable.c:173-206).                      *)
LEMMA UnmapRangeLoses ==
  ASSUME NEW pd \in PageDirT, NEW lo, NEW hi
  PROVE  Loses(pt_unmap_range(pd, lo, hi), pd)
<1> DEFINE new == pt_unmap_range(pd, lo, hi)
<1>1. DOMAIN new = DOMAIN pd /\ new = [t \in DOMAIN pd |-> new[t]]
  BY DEF pt_unmap_range
<1>2. ASSUME NEW t \in DOMAIN pd, new[t] # NoTable
      PROVE  /\ pd[t] # NoTable /\ new[t] \in TableT
             /\ \A e \in 0 .. (PtEntryCount - 1) : new[t][e] = NoEntry \/ new[t][e] = pd[t][e]
  <2>1. /\ pd[t] # NoTable
        /\ new[t] = [e \in DOMAIN pd[t] |->
                       IF \/ t = Tbl(lo) /\ Entry(lo) # 0 /\ e >= Entry(lo)
                          \/ t = Tbl(hi) /\ e < Entry(hi)
                       THEN NoEntry ELSE pd[t][e]]
    BY <1>2 DEF pt_unmap_range
  <2>2. pd[t] \in TableT
    BY <2>1 DEF PageDirT, TableT, PteT
  <2> HIDE DEF new
  <2>. QED BY <2>1, <2>2 DEF TableT
<1>. QED BY <1>1, <1>2, ClearedLoses
-----------------------------------------------------------------------------
(* pt_map sets the entry of its page and leaves those of all other pages    *)
(* (pagetable.c:126-155).                                                   *)
LEMMA MapIs ==
  ASSUME NEW pd \in PageDirT, NEW pn \in UserPage, NEW e \in PteT
  PROVE  /\ pt_map(pd, pn, e) \in PageDirT
         /\ Pte(pt_map(pd, pn, e), pn) = e
         /\ \A p \in UserPage \ {pn} : Pte(pt_map(pd, pn, e), p) = Pte(pd, p)
<1> DEFINE D == Tbl(UserLow) .. Tbl(UserHigh - 1)
           base == IF pd[Tbl(pn)] = NoTable THEN EmptyTable ELSE pd[Tbl(pn)]
           table == [base EXCEPT ![Entry(pn)] = e]
           new == pt_map(pd, pn, e)
<1>1. pd \in [D -> {NoTable} \cup TableT] /\ Tbl(pn) \in D /\ Entry(pn) \in 0 .. (PtEntryCount - 1)
  BY TableOf DEF PageDirT, TableT, PteT
<1>2. base \in TableT
  BY <1>1 DEF EmptyTable, TableT
<1>3. table \in TableT /\ table # NoTable /\ table[Entry(pn)] = e
  <2>1. table \in TableT /\ table[Entry(pn)] = e
    BY <1>1, <1>2 DEF TableT
  <2>. QED BY <2>1, TablesNotNone
<1>4. new = [pd EXCEPT ![Tbl(pn)] = table]
  BY DEF pt_map
<1> HIDE DEF new, D, base
<1>5. \A x \in 0 .. (PtEntryCount - 1) : x # Entry(pn) => table[x] = base[x]
  BY <1>2 DEF TableT
<1> HIDE DEF table
<1>6. new \in [D -> {NoTable} \cup TableT] /\ new[Tbl(pn)] = table
  BY <1>1, <1>3, <1>4
<1>7. \A t \in D \ {Tbl(pn)} : new[t] = pd[t]
  BY <1>1, <1>4
<1>8. new \in PageDirT
  BY <1>6 DEF PageDirT, D, TableT, PteT
<1>9. Pte(new, pn) = e
  BY <1>3, <1>6 DEF Pte
<1>10. ASSUME NEW p \in UserPage, p # pn PROVE Pte(new, p) = Pte(pd, p)
  <2>1. Tbl(p) \in D /\ Entry(p) \in 0 .. (PtEntryCount - 1)
    BY TableOf DEF D
  <2>2. CASE Tbl(p) # Tbl(pn)
    BY <1>7, <2>1, <2>2 DEF Pte
  <2>3. CASE Tbl(p) = Tbl(pn)
    <3>1. Entry(p) # Entry(pn)
      BY <1>10, <2>3, SameEntry
    <3>2. Pte(new, p) = base[Entry(p)]
      BY <1>3, <1>5, <1>6, <2>1, <2>3, <3>1 DEF Pte
    <3>3. CASE pd[Tbl(pn)] = NoTable
      <4>1. base[Entry(p)] = NoEntry
        BY <2>1, <3>3 DEF base, EmptyTable
      <4>. QED BY <2>3, <3>2, <3>3, <4>1 DEF Pte
    <3>4. CASE pd[Tbl(pn)] # NoTable
      BY <2>3, <3>2, <3>4 DEF Pte, base
    <3>. QED BY <3>3, <3>4
  <2>. QED BY <2>2, <2>3
<1>. QED BY <1>8, <1>9, <1>10 DEF new

(* vmmap_find_range: what it finds is free, and nothing higher is.          *)
FreeRun(list, lo, n) ==
  /\ UserLow <= lo /\ lo + n <= UserHigh
  /\ \A i \in DOMAIN list : list[i].end <= lo \/ lo + n <= list[i].start

(* vmmap_find_range: what it finds is free, and no higher place is; it      *)
(* finds one if there is one (vmmap.c:205-241).                             *)
LEMMA FindRangeIs ==
  ASSUME NEW list \in AreaList, NEW n \in Nat,
         NEW found, found = vmmap_find_range(list, n)
  PROVE  /\ found \in Nat /\ (found # 0 => FreeRun(list, found, n))
         /\ \A lo \in Nat : FreeRun(list, lo, n) => found # 0 /\ lo <= found
<1> DEFINE len == Len(list)
           gaps == {i \in 0 .. len : GapEnd(list, i) >= n + GapStart(list, i)}
<1>1. /\ list \in Seq(Area) /\ Apart(list) /\ len \in Nat /\ DOMAIN list = 1..len
      /\ \A i \in 1..len : list[i] \in Area
  BY ListFacts DEF AreaList
<1>2. UserLow \in Nat \ {0} /\ UserHigh \in Nat
  BY VmmapAssumption
<1>3. found = EndOfHighest(list, gaps, n)
  BY DEF vmmap_find_range
<1> HIDE DEF len
<1>4. ASSUME NEW i \in 0 .. len
      PROVE  /\ GapStart(list, i) \in Nat /\ GapEnd(list, i) \in Nat
             /\ UserLow <= GapStart(list, i) /\ GapEnd(list, i) <= UserHigh
             /\ i > 0 => GapStart(list, i) = list[i].end
             /\ i < len => GapEnd(list, i) = list[i + 1].start
             /\ i = 0 => GapStart(list, i) = UserLow
             /\ i = len => GapEnd(list, i) = UserHigh
  <2>1. /\ GapStart(list, i) \in Nat /\ UserLow <= GapStart(list, i)
        /\ i > 0 => GapStart(list, i) = list[i].end
        /\ i = 0 => GapStart(list, i) = UserLow
    <3>1. CASE i = 0
      BY <1>2, <3>1 DEF GapStart
    <3>2. CASE i # 0
      <4>1. PICK a \in Area : a = list[i]
        BY <1>1, <3>2
      <4>. QED BY <1>1, <1>2, <3>2, <4>1, AreaFacts DEF GapStart
    <3>. QED BY <3>1, <3>2
  <2>2. /\ GapEnd(list, i) \in Nat /\ GapEnd(list, i) <= UserHigh
        /\ i < len => GapEnd(list, i) = list[i + 1].start
        /\ i = len => GapEnd(list, i) = UserHigh
    <3>1. CASE i = len
      BY <1>1, <1>2, <3>1 DEF GapEnd, len
    <3>2. CASE i # len
      <4>1. i + 1 \in 1..len
        BY <1>1, <3>2
      <4>2. PICK a \in Area : a = list[i + 1]
        BY <1>1, <4>1
      <4>3. GapEnd(list, i) = a.start
        BY <3>2, <4>2 DEF GapEnd, len
      <4>. QED BY <1>1, <1>2, <3>2, <4>2, <4>3, AreaFacts
    <3>. QED BY <3>1, <3>2
  <2>. QED BY <2>1, <2>2
<1>5. ASSUME NEW g \in 0 .. len, NEW i \in 1..len
      PROVE  /\ i <= g => list[i].end <= GapStart(list, g)
             /\ g < i => GapEnd(list, g) <= list[i].start
  <2>1. PICK a \in Area : a = list[i]
    BY <1>1
  <2>2. ASSUME i <= g PROVE list[i].end <= GapStart(list, g)
    <3>1. g \in 1..len /\ GapStart(list, g) = list[g].end
      BY <1>1, <1>4, <2>2
    <3>2. PICK b \in Area : b = list[g]
      BY <1>1, <3>1
    <3>3. i = g \/ a.end <= b.start
      BY <1>1, <2>1, <2>2, <3>1, <3>2 DEF Apart
    <3>. QED BY <2>1, <3>1, <3>2, <3>3, AreaFacts
  <2>3. ASSUME g < i PROVE GapEnd(list, g) <= list[i].start
    <3>1. g + 1 \in 1..len /\ GapEnd(list, g) = list[g + 1].start
      BY <1>1, <1>4, <2>3
    <3>2. PICK b \in Area : b = list[g + 1]
      BY <1>1, <3>1
    <3>3. i = g + 1 \/ g + 1 < i
      BY <2>3
    <3>4. i = g + 1 \/ b.end <= a.start
      BY <1>1, <2>1, <3>1, <3>2, <3>3 DEF Apart
    <3>. QED BY <2>1, <3>1, <3>2, <3>4, AreaFacts
  <2>. QED BY <2>2, <2>3
<1>6. ASSUME NEW lo \in Nat, FreeRun(list, lo, n)
      PROVE  \E i \in gaps : GapStart(list, i) <= lo /\ lo + n <= GapEnd(list, i)
  <2> DEFINE T == {0} \cup {i \in 1..len : list[i].end <= lo}
  <2>1. PICK i \in T : \A m \in T : m <= i
    <3>1. T \in SUBSET Nat /\ T # {} /\ \A m \in T : m <= len
      BY <1>1
    <3>. QED BY <1>1, <3>1, GreatestElement
  <2>2. i \in 0 .. len
    BY <1>1
  <2>3. GapStart(list, i) <= lo
    <3>1. CASE i = 0
      BY <1>4, <1>6, <2>2, <3>1 DEF FreeRun
    <3>2. CASE i # 0
      BY <1>4, <2>1, <2>2, <3>2
    <3>. QED BY <3>1, <3>2
  <2>4. lo + n <= GapEnd(list, i)
    <3>1. CASE i = len
      BY <1>4, <1>6, <2>2, <3>1 DEF FreeRun
    <3>2. CASE i # len
      <4>1. i + 1 \in 1..len /\ i + 1 \notin T
        BY <1>1, <2>1, <2>2, <3>2
      <4>2. ~(list[i + 1].end <= lo)
        BY <4>1
      <4>3. lo + n <= list[i + 1].start
        BY <1>1, <1>6, <4>1, <4>2 DEF FreeRun
      <4>. QED BY <1>1, <1>4, <2>2, <3>2, <4>3
    <3>. QED BY <3>1, <3>2
  <2>5. GapEnd(list, i) >= n + GapStart(list, i)
    BY <1>4, <2>2, <2>3, <2>4
  <2>. QED BY <2>2, <2>3, <2>4, <2>5
<1>7. CASE gaps = {}
  <2>1. found = 0
    BY <1>3, <1>7 DEF EndOfHighest
  <2>. QED BY <1>6, <1>7, <2>1
<1>8. CASE gaps # {}
  <2>1. \E g \in gaps : \A j \in gaps : j <= g
    <3>1. gaps \in SUBSET Nat /\ \A m \in gaps : m <= len
      BY <1>1
    <3>. QED BY <1>1, <1>8, <3>1, GreatestElement
  <2>2. PICK g \in gaps : /\ g = CHOOSE i \in gaps : \A j \in gaps : j <= i
                          /\ \A j \in gaps : j <= g
    BY <2>1
  <2>3. found = GapEnd(list, g) - n
    BY <1>3, <1>8, <2>2 DEF EndOfHighest
  <2>4. g \in 0 .. len /\ GapEnd(list, g) >= n + GapStart(list, g)
    OBVIOUS
  <2> HIDE DEF gaps
  <2>5. PICK s \in Nat, e \in Nat :
          /\ s = GapStart(list, g) /\ e = GapEnd(list, g) /\ UserLow <= s /\ e <= UserHigh
          /\ e >= n + s /\ found = e - n
    BY <1>4, <2>3, <2>4
  <2>6. found \in Nat /\ found # 0 /\ UserLow <= found /\ found + n <= UserHigh /\ s <= found /\ found + n = e
    BY <1>2, <2>5
  <2>7. ASSUME NEW i \in 1..len PROVE list[i].end <= found \/ found + n <= list[i].start
    <3>1. PICK a \in Area : a = list[i]
      BY <1>1
    <3>2. a.end <= s \/ e <= a.start
      <4>1. i <= g \/ g < i
        BY <2>4
      <4>. QED BY <1>5, <2>4, <2>5, <3>1, <4>1
    <3>. QED BY <2>6, <3>1, <3>2, AreaFacts
  <2>8. FreeRun(list, found, n)
    BY <1>1, <2>6, <2>7 DEF FreeRun
  <2>9. ASSUME NEW lo \in Nat, FreeRun(list, lo, n) PROVE lo <= found
    <3>1. PICK i \in gaps : GapStart(list, i) <= lo /\ lo + n <= GapEnd(list, i)
      BY <1>6, <2>9
    <3>2. i <= g /\ i \in 0 .. len
      BY <2>2, <3>1 DEF gaps
    <3>3. CASE i = g
      BY <2>5, <2>6, <3>1, <3>3
    <3>4. CASE i # g
      <4>1. i < g /\ g \in 1..len
        BY <1>1, <2>4, <3>2, <3>4
      <4>2. GapEnd(list, i) <= list[g].start
        BY <1>5, <3>2, <4>1
      <4>3. PICK a \in Area : a = list[g]
        BY <1>1, <4>1
      <4>4. s = a.end
        <5>1. s = GapStart(list, g) /\ g # 0
          BY <1>1, <2>5, <4>1
        <5>. QED BY <4>3, <5>1 DEF GapStart
      <4>5. PICK e2 \in Nat : e2 = GapEnd(list, i)
        BY <1>4, <3>2
      <4>. QED BY <2>6, <3>1, <4>2, <4>3, <4>4, <4>5, AreaFacts
    <3>. QED BY <3>3, <3>4
  <2>. QED BY <2>6, <2>8, <2>9
<1>. QED BY <1>7, <1>8
-----------------------------------------------------------------------------
(* Hence no list in order makes it miss a place, or choose a lower one.     *)
LEMMA FindsHighest == ASSUME vmm_list \in AreaList PROVE FindsHighestGap
<1> SUFFICES ASSUME NEW n \in 1 .. (UserHigh - UserLow),
                    NEW fits, fits = {lo \in UserLow .. (UserHigh - n) :
                                        \A pn \in lo .. (lo + n - 1) : ~Mapped(vmm_list, pn)},
                    NEW found, found = vmmap_find_range(vmm_list, n)
             PROVE  IF fits = {} THEN found = 0
                    ELSE found \in fits /\ \A lo \in fits : lo <= found
  BY DEF FindsHighestGap
<1>1. UserLow \in Nat \ {0} /\ UserHigh \in Nat /\ n \in Nat \ {0}
  BY VmmapAssumption
<1>2. /\ vmm_list \in Seq(Area) /\ vmm_list \in Seq(AreaT)
      /\ \A i \in DOMAIN vmm_list : vmm_list[i] \in Area /\ vmm_list[i].start < vmm_list[i].end
  <2>1. vmm_list \in Seq(Area)
    BY DEF AreaList
  <2>2. Area \subseteq AreaT
    BY DEF Area
  <2>3. vmm_list \in Seq(AreaT)
    BY <2>1, <2>2, SeqMonotonic
  <2>. QED BY <2>1, <2>3, ListFacts, AreaFacts
<1>3. ASSUME NEW lo \in Nat PROVE FreeRun(vmm_list, lo, n) <=> lo \in fits
  <2>1. \A pn \in Nat : ~Mapped(vmm_list, pn) <=> \A i \in DOMAIN vmm_list : ~Covers(vmm_list[i], pn)
    BY <1>2, LookupIs, NoObjNoArea DEF Mapped
  <2>2. lo .. (lo + n - 1) \subseteq Nat
    BY <1>1
  <2>3. vmmap_is_range_empty(vmm_list, lo, n)
          <=> \A pn \in lo .. (lo + n - 1) : ~Mapped(vmm_list, pn)
    <3>1. vmmap_is_range_empty(vmm_list, lo, n)
            <=> \A i \in DOMAIN vmm_list : \A pn \in lo .. (lo + n - 1) : ~Covers(vmm_list[i], pn)
      BY <1>1, <1>2, EmptyMeansUnmapped
    <3>. QED BY <2>1, <2>2, <3>1
  <2>4. FreeRun(vmm_list, lo, n) <=> /\ UserLow <= lo /\ lo + n <= UserHigh
                                     /\ vmmap_is_range_empty(vmm_list, lo, n)
    <3>1. \A i \in DOMAIN vmm_list : vmm_list[i].end \in Nat /\ vmm_list[i].start \in Nat
      BY <1>2, AreaFacts
    <3>2. vmmap_is_range_empty(vmm_list, lo, n) <=>
            \A i \in DOMAIN vmm_list : vmm_list[i].end <= lo \/ lo + n <= vmm_list[i].start
      BY <1>1, <3>1 DEF vmmap_is_range_empty
    <3>. QED BY <3>2 DEF FreeRun
  <2>5. lo \in UserLow .. (UserHigh - n) <=> UserLow <= lo /\ lo + n <= UserHigh
    BY <1>1
  <2>. QED BY <2>3, <2>4, <2>5
<1>4. /\ found \in Nat /\ (found # 0 => FreeRun(vmm_list, found, n))
      /\ \A lo \in Nat : FreeRun(vmm_list, lo, n) => found # 0 /\ lo <= found
  BY <1>1, FindRangeIs
<1>5. fits \subseteq Nat
  BY <1>1
<1>. QED BY <1>3, <1>4, <1>5

(* pframe_remove_from_pts sets no entry, and clears that of every page at   *)
(* which an area on the list of the file shows the page (pframe.c:647-664). *)
LEMMA PframeRemoves ==
  ASSUME vmm_list \in AreaList, pagedir \in PageDirT, NEW pn \in FilePage,
         pframe_remove_from_pts(pn)
  PROVE  /\ Loses(pagedir', pagedir)
         /\ \A i \in DOMAIN vmm_list : \A p \in UserPage :
              /\ Covers(vmm_list[i], p) /\ vmm_list[i].obj = File /\ vmm_list[i].olink
              /\ PageShown(vmm_list[i], p) = pn
              => Pte(pagedir', p) = NoEntry
<1> DEFINE maps(a) == /\ a.obj = File /\ a.olink
                      /\ pn >= a.off /\ pn < a.off + (a.end - a.start)
           at == {a.start + pn - a.off : a \in {b \in ToSet(vmm_list) : maps(b)}}
<1>1. pagedir' = [t \in DOMAIN pagedir |->
           IF pagedir[t] = NoTable THEN NoTable
           ELSE [e \in DOMAIN pagedir[t] |->
                   IF t * PtEntryCount + e \in at THEN NoEntry ELSE pagedir[t][e]]]
  BY DEF pframe_remove_from_pts
<1> HIDE DEF at
<1>2. Loses(pagedir', pagedir)
  <2>1. DOMAIN pagedir' = DOMAIN pagedir /\ pagedir' = [t \in DOMAIN pagedir |-> pagedir'[t]]
    BY <1>1
  <2>2. ASSUME NEW t \in DOMAIN pagedir, pagedir'[t] # NoTable
        PROVE  /\ pagedir[t] # NoTable /\ pagedir'[t] \in TableT
               /\ \A e \in 0 .. (PtEntryCount - 1) :
                    pagedir'[t][e] = NoEntry \/ pagedir'[t][e] = pagedir[t][e]
    <3>1. /\ pagedir[t] # NoTable
          /\ pagedir'[t] = [e \in DOMAIN pagedir[t] |->
                   IF t * PtEntryCount + e \in at THEN NoEntry ELSE pagedir[t][e]]
      BY <1>1, <2>2
    <3>2. pagedir[t] \in TableT
      BY <3>1 DEF PageDirT, TableT, PteT
    <3>. QED BY <3>1, <3>2 DEF TableT
  <2>. QED BY <2>1, <2>2, ClearedLoses
<1>3. ASSUME NEW i \in DOMAIN vmm_list, NEW p \in UserPage, Covers(vmm_list[i], p),
             vmm_list[i].obj = File, vmm_list[i].olink, PageShown(vmm_list[i], p) = pn
      PROVE  Pte(pagedir', p) = NoEntry
  <2>1. PICK a \in Area : a = vmm_list[i]
    BY ListFacts DEF AreaList
  <2>2. a \in ToSet(vmm_list)
    BY <2>1 DEF ToSet
  <2>3. p \in Nat /\ pn \in Nat /\ a.start <= p /\ p < a.end /\ p - a.start + a.off = pn
    BY <1>3, <2>1, UserPages, VmmapAssumption DEF Covers, PageShown
  <2>4. maps(a) /\ a.start + pn - a.off = p
    BY <1>3, <2>1, <2>3, AreaFacts
  <2>5. p \in at
    BY <2>2, <2>4 DEF at
  <2>6. Tbl(p) \in DOMAIN pagedir /\ Entry(p) \in 0 .. (PtEntryCount - 1)
    BY TableOf DEF PageDirT
  <2>7. Tbl(p) * PtEntryCount + Entry(p) = p
    <3>1. Tbl(p) \in Nat /\ p = PtEntryCount * Tbl(p) + Entry(p) /\ PtEntryCount \in Nat
      BY <2>3, TblEntry, VmmapAssumption
    <3>. QED BY <3>1
  <2>8. CASE pagedir[Tbl(p)] = NoTable
    BY <1>1, <2>6, <2>8 DEF Pte
  <2>9. CASE pagedir[Tbl(p)] # NoTable
    <3>1. DOMAIN pagedir[Tbl(p)] = 0 .. (PtEntryCount - 1)
      BY <2>6, <2>9 DEF PageDirT
    <3>2. pagedir'[Tbl(p)][Entry(p)] = NoEntry
      BY <1>1, <2>5, <2>6, <2>7, <2>9, <3>1
    <3>. QED BY <3>2 DEF Pte
  <2>. QED BY <2>8, <2>9
<1>. QED BY <1>2, <1>3
-----------------------------------------------------------------------------
(* Pages and addresses                                                      *)
LEMMA Scaled ==
  ASSUME NEW k \in Nat \ {0}, NEW a \in Int, NEW b \in Int
  PROVE  /\ k * a \in Int
         /\ a <= b <=> k * a <= k * b
         /\ a < b <=> k * a < k * b
         /\ a < b <=> k * a + k <= k * b
<1>1. PICK d \in Int : b = a + d
  <2>1. b - a \in Int
    OBVIOUS
  <2>. QED BY <2>1
<1>2. k * b = k * a + k * d /\ k * a \in Int /\ k * d \in Int
  BY <1>1
<1>3. d >= 1 => k * d >= k
  BY ONLY k \in Nat \ {0}, d \in Int
<1>4. d <= -1 => k * d <= 0 - k
  BY ONLY k \in Nat \ {0}, d \in Int
<1>5. d = 0 => k * d = 0
  BY ONLY k \in Nat \ {0}, d \in Int
<1>. QED BY <1>1, <1>2, <1>3, <1>4, <1>5

(* A number that fits in a register stays itself; one that is too large by  *)
(* less than a register comes round once.                                   *)
LEMMA Wrap ==
  ASSUME NEW w \in Nat, NEW x \in Nat
  PROVE  /\ x < w => x % w = x
         /\ w <= x /\ x < w + w => x % w = x - w
BY Z3

(* Pages are in the order of their addresses.                               *)
LEMMA PageMonotone ==
  ASSUME NEW x \in Nat, NEW y \in Nat, x <= y
  PROVE  ADDR_TO_PN(x) <= ADDR_TO_PN(y)
<1>1. PICK a \in Nat, r \in 0 .. (PageSize - 1) : a = ADDR_TO_PN(x) /\ x = PageSize * a + r
  BY PageOffset
<1>2. PICK b \in Nat, s \in 0 .. (PageSize - 1) : b = ADDR_TO_PN(y) /\ y = PageSize * b + s
  BY PageOffset
<1>3. PageSize \in Nat \ {0} /\ PageSize * a \in Int /\ PageSize * b \in Int
  BY VmmapAssumption
<1>4. b < a => PageSize * b + PageSize <= PageSize * a
  BY <1>3, Scaled
<1>5. ~(b < a)
  BY <1>1, <1>2, <1>3, <1>4
<1>. QED BY <1>1, <1>2, <1>5

(* An address within the first n pages                                      *)
LEMMA PageBelow ==
  ASSUME NEW x \in Nat, NEW n \in Nat
  PROVE  /\ x < n * PageSize => ADDR_TO_PN(x) < n
         /\ x <= n * PageSize => ADDR_TO_PN(x) <= n
         /\ n * PageSize <= x => n <= ADDR_TO_PN(x)
<1>1. PICK a \in Nat, r \in 0 .. (PageSize - 1) : a = ADDR_TO_PN(x) /\ x = PageSize * a + r
  BY PageOffset
<1>2. PageSize \in Nat \ {0} /\ PageSize * a \in Int /\ PageSize * n \in Int /\ n * PageSize = PageSize * n
  BY VmmapAssumption
<1>3. /\ n <= a <=> PageSize * n <= PageSize * a
      /\ n < a <=> PageSize * n + PageSize <= PageSize * a
      /\ a < n <=> PageSize * a + PageSize <= PageSize * n
  BY <1>2, Scaled
<1>. QED BY <1>1, <1>2, <1>3

(* A length takes at least one page, and no more than it fits in            *)
(* (mmap.c:137, 188).                                                       *)
LEMMA PagesOfIs ==
  ASSUME NEW len \in Nat \ {0}
  PROVE  /\ PagesOf(len) \in Nat \ {0}
         /\ \A n \in Nat : len <= n * PageSize => PagesOf(len) <= n
<1>1. PICK a \in Nat, r \in 0 .. (PageSize - 1) :
         a = ADDR_TO_PN(len) /\ r = len % PageSize /\ len = PageSize * a + r
  BY PageOffset
<1>2. PagesOf(len) = a + (IF r # 0 THEN 1 ELSE 0)
  BY <1>1 DEF PagesOf, ADDR_TO_PN
<1>3. PageSize \in Nat \ {0} /\ PageSize * a \in Int
  BY VmmapAssumption
<1>4. PagesOf(len) # 0
  <2>1. CASE a = 0
    <3>1. r # 0
      BY <1>1, <1>3, <2>1
    <3>. QED BY <1>2, <2>1, <3>1
  <2>2. CASE a # 0
    <3>1. a >= 1
      BY <2>2
    <3>. QED BY <1>2, <3>1
  <2>. QED BY <2>1, <2>2
<1>5. ASSUME NEW n \in Nat, len <= n * PageSize PROVE PagesOf(len) <= n
  <2>1. PageSize * n \in Int /\ n * PageSize = PageSize * n
    BY <1>3
  <2>2. /\ n < a <=> PageSize * n + PageSize <= PageSize * a
        /\ a = n => PageSize * a = PageSize * n
    BY <1>3, Scaled
  <2>3. PICK x \in Int, y \in Int : x = PageSize * a /\ y = PageSize * n
    BY <1>3, <2>1
  <2>4. ~(n < a)
    BY ONLY <1>1, <1>3, <1>5, <2>1, <2>2, <2>3
  <2>5. a = n => r = 0
    BY ONLY <1>1, <1>3, <1>5, <2>1, <2>2, <2>3
  <2>6. a <= n - (IF r # 0 THEN 1 ELSE 0)
    BY ONLY <2>4, <2>5, a \in Nat, n \in Nat
  <2>7. PICK z \in {0, 1} : z = IF r # 0 THEN 1 ELSE 0
    OBVIOUS
  <2>. QED BY ONLY <1>2, <2>6, <2>7, a \in Nat, n \in Nat
<1>. QED BY <1>1, <1>2, <1>4, <1>5

(* Rounded up to a page, an address in user memory does not wrap.           *)
LEMMA AlignedUp ==
  ASSUME NEW x \in Nat \ {0}, x <= UserHigh * PageSize
  PROVE  /\ ADDR_TO_PN(PAGE_ALIGN_UP(x)) = ADDR_TO_PN(x - 1) + 1
         /\ ADDR_TO_PN(x - 1) + 1 <= UserHigh
         /\ x <= (ADDR_TO_PN(x - 1) + 1) * PageSize
<1>1. /\ PageSize \in Nat \ {0} /\ UserHigh \in Nat /\ WordSize \in Nat
      /\ WordSize > UserHigh * PageSize /\ UserHigh * PageSize \in Nat /\ x - 1 \in Nat
  BY VmmapAssumption
<1>2. PICK q \in Nat, r \in 0 .. (PageSize - 1) :
         q = ADDR_TO_PN(x - 1) /\ x - 1 = PageSize * q + r
  BY <1>1, PageOffset
<1>3. q < UserHigh
  BY <1>1, <1>2, PageBelow
<1>4. /\ q * PageSize + PageSize = PageSize * (q + 1) /\ PageSize * (q + 1) \in Nat
      /\ (q + 1) * PageSize = PageSize * (q + 1) /\ PageSize * q \in Nat
      /\ PageSize * (q + 1) = PageSize * q + PageSize /\ UserHigh * PageSize = PageSize * UserHigh
  BY <1>1
<1>5. PageSize * (q + 1) <= PageSize * UserHigh
  <2>1. q + 1 \in Int /\ q + 1 <= UserHigh
    BY <1>1, <1>3
  <2>. QED BY <1>1, <2>1, Scaled
<1>6. PAGE_ALIGN_UP(x) = PageSize * (q + 1)
  <2>1. PAGE_ALIGN_UP(x) = (q * PageSize + PageSize) % WordSize
    BY <1>2 DEF PAGE_ALIGN_UP, ADDR_TO_PN
  <2>2. PageSize * (q + 1) < WordSize
    BY <1>1, <1>4, <1>5
  <2>3. (PageSize * (q + 1)) % WordSize = PageSize * (q + 1)
    BY <1>1, <1>4, <2>2, Wrap
  <2>. QED BY <1>4, <2>1, <2>3
<1>7. ADDR_TO_PN(PAGE_ALIGN_UP(x)) = q + 1
  <2>1. 0 \in 0 .. (PageSize - 1) /\ PageSize * (q + 1) + 0 = PageSize * (q + 1) /\ q + 1 \in Nat
    BY <1>1, <1>4
  <2>. QED BY <1>6, <2>1, OffsetPage
<1>8. x <= (q + 1) * PageSize
  BY <1>1, <1>2, <1>4
<1>. QED BY <1>1, <1>2, <1>3, <1>7, <1>8

(* do_munmap only gets to vmmap_remove with pages of user memory.           *)
LEMMA UnmapsUserPages ==
  ASSUME NEW addr \in Addr, NEW len \in Nat \ {0}, NEW lo, lo = ADDR_TO_PN(addr),
         NEW n, n = PagesOf(len), len <= UserHigh * PageSize, UserLow * PageSize <= addr,
         PN_TO_ADDR(lo) < PN_TO_ADDR(lo + n), PN_TO_ADDR(lo + n) <= UserHigh * PageSize
  PROVE  lo \in Nat /\ n \in Nat \ {0} /\ UserLow <= lo /\ lo + n <= UserHigh
<1> DEFINE P == PageSize
           W == WordSize
<1>1. /\ P \in Nat \ {0} /\ UserHigh \in Nat /\ UserLow \in Nat /\ W \in Nat /\ W > P * UserHigh
      /\ addr \in Nat /\ addr < W /\ UserHigh * P = P * UserHigh /\ P * UserHigh \in Nat
  BY VmmapAssumption DEF Addr
<1>2. n \in Nat \ {0} /\ n <= UserHigh
  BY <1>1, PagesOfIs
<1>3. PICK r \in 0 .. (P - 1) : lo \in Nat /\ addr = P * lo + r
  BY <1>1, PageOffset
<1>4. UserLow <= lo
  BY <1>1, PageBelow
<1>5. /\ lo * P = P * lo /\ P * lo \in Nat /\ P * n \in Nat /\ P * n <= P * UserHigh
      /\ (lo + n) * P = P * lo + P * n /\ P * (lo + n) = P * lo + P * n
  <2>1. P * n <= P * UserHigh
    BY <1>1, <1>2, Scaled
  <2>. QED BY <1>1, <1>2, <1>3, <2>1
<1> HIDE DEF P, W
<1>6. PN_TO_ADDR(lo) = P * lo
  <2>1. P * lo < W
    BY <1>1, <1>3, <1>5
  <2>2. (P * lo) % W = P * lo
    BY <1>1, <1>5, <2>1, Wrap
  <2>. QED BY <1>5, <2>2 DEF PN_TO_ADDR, P, W
<1>7. PN_TO_ADDR(lo + n) = (P * lo + P * n) % W
  BY <1>5 DEF PN_TO_ADDR, P, W
<1>8. PICK x \in Nat : x = P * lo + P * n
  BY <1>5
<1>9. CASE x < W
  <2>1. PN_TO_ADDR(lo + n) = P * (lo + n)
    <3>1. x % W = x
      BY <1>1, <1>9, Wrap
    <3>. QED BY <1>5, <1>7, <1>8, <3>1
  <2>2. P * (lo + n) <= P * UserHigh
    BY <1>1, <2>1 DEF P
  <2>3. lo + n <= UserHigh
    <3>1. lo + n \in Int
      BY <1>2, <1>3
    <3>. QED BY <1>1, <2>2, <3>1, Scaled
  <2>. QED BY <1>2, <1>3, <1>4, <2>3
<1>10. CASE W <= x
  <2>1. x < W + W
    <3>1. PICK y \in Nat, z \in Nat, u \in Nat : y = P * lo /\ z = P * n /\ u = P * UserHigh
      BY <1>1, <1>5
    <3>2. W > u /\ z <= u /\ y <= addr /\ addr < W /\ x = y + z
      BY <1>1, <1>3, <1>5, <1>8, <3>1
    <3>. QED BY ONLY <3>2, <1>1, y \in Nat, z \in Nat, u \in Nat
  <2>2. x % W = x - W
    BY <1>1, <1>10, <2>1, Wrap
  <2>3. P * lo < x - W
    BY <1>6, <1>7, <1>8, <2>2
  <2>. QED BY <1>1, <1>5, <1>8, <2>3
<1>. QED BY <1>1, <1>9, <1>10
-----------------------------------------------------------------------------
(* An address space whose areas are ordered and apart, with references that *)
(* count its own areas and those of another list over the same objects, and *)
(* a page table that has only lost entries of dir                           *)
SpaceT == [list : AreaList, refs : [Object -> Nat], dir : PageDirT, ok : BOOLEAN, null : BOOLEAN]
Good(m, other, dir) ==
  /\ m \in SpaceT
  /\ \A o \in Object : m.refs[o] = Cardinality(Over(m.list, o)) + other[o]
  /\ Loses(m.dir, dir)

(* The parts of such an address space, with their types                     *)
LEMMA GoodParts ==
  ASSUME NEW other, NEW dir, NEW m, Good(m, other, dir)
  PROVE  /\ m.list \in AreaList /\ m.refs \in [Object -> Nat] /\ m.dir \in PageDirT
         /\ m.ok \in BOOLEAN /\ m.null \in BOOLEAN
         /\ m = [list |-> m.list, refs |-> m.refs, dir |-> m.dir, ok |-> m.ok, null |-> m.null]
BY DEF Good, SpaceT

(* The areas over an object can be counted.                                 *)
LEMMA CountNat ==
  ASSUME NEW list \in AreaList, NEW o
  PROVE  Cardinality(Over(list, o)) \in Nat
BY OverFinite DEF AreaList, Over

(* vmmap_remove keeps an address space good, and changes neither flag       *)
(* (vmmap.c:456-509).                                                       *)
LEMMA RemoveGood ==
  ASSUME NEW other \in [Object -> Nat], NEW dir, NEW m, Good(m, other, dir),
         NEW lo \in Nat, NEW n \in Nat \ {0}, NEW new, new = vmmap_remove(m, lo, n)
  PROVE  /\ Good(new, other, dir) /\ new.ok = m.ok /\ new.null = m.null
         /\ new.list = AreasWithout(m.list, lo, lo + n)
         /\ new.dir = pt_unmap_range(m.dir, lo, lo + n)
<1> DEFINE hi == lo + n
           list == AreasWithout(m.list, lo, hi)
           rs == RefsWithout(m.list, m.refs, lo, hi)
           pd == pt_unmap_range(m.dir, lo, hi)
<1>1. /\ m.list \in AreaList /\ m.refs \in [Object -> Nat] /\ m.dir \in PageDirT
      /\ m = [list |-> m.list, refs |-> m.refs, dir |-> m.dir, ok |-> m.ok, null |-> m.null]
      /\ m.ok \in BOOLEAN /\ m.null \in BOOLEAN
  BY GoodParts
<1>2. hi \in Nat /\ lo < hi
  OBVIOUS
<1>3. new = [list |-> list, refs |-> rs, dir |-> pd, ok |-> m.ok, null |-> m.null]
  BY <1>1 DEF vmmap_remove
<1> HIDE DEF hi
<1>4. list \in AreaList
  BY <1>1, <1>2, RemoveList
<1>5. Loses(pd, dir) /\ pd \in PageDirT
  <2>1. Loses(pd, m.dir)
    BY <1>1, UnmapRangeLoses
  <2>2. Loses(m.dir, dir)
    BY DEF Good
  <2>. QED BY <2>1, <2>2, LosesTwice DEF Loses
<1>6. ASSUME NEW o \in Object
      PROVE  rs[o] \in Nat /\ rs[o] = Cardinality(Over(list, o)) + other[o]
  <2>1. rs[o] = m.refs[o] + Cardinality(SplitOver(m.list, o, lo, hi))
                          - Cardinality(GoesOver(m.list, o, lo, hi))
    BY DEF RefsWithout, Many, SplitOver, GoesOver
  <2>2. m.refs[o] = Cardinality(Over(m.list, o)) + other[o]
    BY DEF Good
  <2>3. PICK c \in Nat, d \in Nat, s \in Nat, g \in Nat :
          /\ c = Cardinality(Over(m.list, o)) /\ d = Cardinality(Over(list, o))
          /\ s = Cardinality(SplitOver(m.list, o, lo, hi))
          /\ g = Cardinality(GoesOver(m.list, o, lo, hi))
          /\ d = c + s - g
    BY <1>1, <1>2, RemoveCounts
  <2>4. PICK x \in Nat : x = other[o]
    OBVIOUS
  <2>5. rs[o] = (c + x) + s - g
    BY <2>1, <2>2, <2>3, <2>4
  <2>6. rs[o] = d + x
    BY ONLY <2>3, <2>5, x \in Nat
  <2>. QED BY <2>3, <2>4, <2>6
<1>7. rs \in [Object -> Nat]
  BY <1>6 DEF RefsWithout
<1> HIDE DEF list, rs, pd
<1>8. new \in SpaceT
  BY <1>1, <1>3, <1>4, <1>5, <1>7 DEF SpaceT
<1>9. new.list = list /\ new.refs = rs /\ new.dir = pd /\ new.ok = m.ok /\ new.null = m.null
  BY <1>3
<1>10. Good(new, other, dir)
  BY <1>5, <1>6, <1>8, <1>9 DEF Good
<1>. QED BY <1>9, <1>10 DEF list, pd, hi

(* The table follows the areas where a range is unmapped.                   *)
LEMMA RemoveFollows ==
  ASSUME NEW list \in AreaList, NEW dir \in PageDirT, Follows(list, dir),
         NEW lo \in Nat, NEW hi \in Nat, lo < hi, UserLow <= lo, hi <= UserHigh
  PROVE  Follows(AreasWithout(list, lo, hi), pt_unmap_range(dir, lo, hi))
<1> DEFINE pd == pt_unmap_range(dir, lo, hi)
<1>1. ASSUME NEW pn \in UserPage, Pte(pd, pn) # NoEntry
      PROVE  ShownBy(AreasWithout(list, lo, hi), pn, Pte(pd, pn))
  <2>1. Pte(pd, pn) = Pte(dir, pn)
    BY <1>1, UnmapRangeLoses DEF Loses
  <2>2. Outside(pn, lo, hi)
    <3>1. pn \notin lo .. (hi - 1)
      BY <1>1, UnmapRangeClears
    <3>. QED BY <3>1, UserPages DEF Outside
  <2>3. ShownBy(list, pn, Pte(dir, pn))
    BY <1>1, <2>1 DEF Follows
  <2>. QED BY <2>1, <2>2, <2>3, RemoveShows, UserPages
<1>. QED BY <1>1 DEF Follows

(* The same with a page table that follows the areas, where the range is in *)
(* user memory                                                              *)
LEMMA UnmapGood ==
  ASSUME NEW other \in [Object -> Nat], NEW dir, NEW m, Good(m, other, dir),
         Follows(m.list, m.dir),
         NEW lo \in Nat, NEW n \in Nat \ {0}, UserLow <= lo, lo + n <= UserHigh,
         NEW new, new = vmmap_remove(m, lo, n)
  PROVE  Good(new, other, dir) /\ Follows(new.list, new.dir)
<1>1. /\ Good(new, other, dir) /\ new.list = AreasWithout(m.list, lo, lo + n)
      /\ new.dir = pt_unmap_range(m.dir, lo, lo + n)
  <2>1. Good(new, other, dir)
    BY RemoveGood
  <2>2. new.list = AreasWithout(m.list, lo, lo + n)
    BY RemoveGood
  <2>3. new.dir = pt_unmap_range(m.dir, lo, lo + n)
    BY RemoveGood
  <2>. QED BY <2>1, <2>2, <2>3
<1>2. m.list \in AreaList /\ m.dir \in PageDirT
  BY GoodParts
<1>3. PICK hi \in Nat : hi = lo + n /\ lo < hi /\ hi <= UserHigh
  OBVIOUS
<1>4. Follows(AreasWithout(m.list, lo, hi), pt_unmap_range(m.dir, lo, hi))
  BY <1>2, <1>3, RemoveFollows
<1>. QED BY <1>1, <1>3, <1>4

(* vmmap_map of a range of user pages                                       *)
NewArea(lo, n, off, o, shared) ==
  [start |-> lo, end |-> lo + n, off |-> off, obj |-> o, shared |-> shared, olink |-> TRUE]

(* A new area with one more reference to its object (vmmap.c:370-418)       *)
LEMMA InsertGood ==
  ASSUME NEW other \in [Object -> Nat], NEW dir, NEW m, Good(m, other, dir),
         NEW a \in Area, \A i \in DOMAIN m.list : Clear(m.list[i], a),
         NEW new, new = [list |-> vmmap_insert(m.list, a), refs |-> [m.refs EXCEPT ![a.obj] = @ + 1],
                         dir |-> m.dir, ok |-> m.ok, null |-> m.null]
  PROVE  /\ Good(new, other, dir) /\ new.ok = m.ok /\ new.null = m.null
         /\ new.list = vmmap_insert(m.list, a) /\ new.dir = m.dir
<1> DEFINE list == vmmap_insert(m.list, a)
           rs == [m.refs EXCEPT ![a.obj] = @ + 1]
<1>1. /\ m.list \in AreaList /\ m.refs \in [Object -> Nat] /\ m.dir \in PageDirT
      /\ m = [list |-> m.list, refs |-> m.refs, dir |-> m.dir, ok |-> m.ok, null |-> m.null]
      /\ m.ok \in BOOLEAN /\ m.null \in BOOLEAN
  BY GoodParts
<1>2. a.obj \in Object
  BY AreaFacts
<1>3. new = [list |-> list, refs |-> rs, dir |-> m.dir, ok |-> m.ok, null |-> m.null]
  OBVIOUS
<1>4. list \in AreaList /\ rs \in [Object -> Nat]
  BY <1>1, <1>2, InsertSound
<1>5. ASSUME NEW o \in Object PROVE rs[o] = Cardinality(Over(list, o)) + other[o]
  <2>1. m.list \in Seq(Area)
    BY <1>1 DEF AreaList
  <2>2. Cardinality(Over(list, o)) = Cardinality(Over(m.list, o)) + (IF a.obj = o THEN 1 ELSE 0)
    BY <2>1, InsertCounts
  <2>3. m.refs[o] = Cardinality(Over(m.list, o)) + other[o]
    BY DEF Good
  <2>4. PICK c \in Nat, x \in Nat : c = Cardinality(Over(m.list, o)) /\ x = other[o]
    BY <1>1, CountNat
  <2>5. CASE a.obj = o
    BY <1>1, <1>2, <2>2, <2>3, <2>4, <2>5
  <2>6. CASE a.obj # o
    BY <1>1, <1>2, <2>2, <2>3, <2>4, <2>6
  <2>. QED BY <2>5, <2>6
<1> HIDE DEF list, rs
<1>6. new.list = list /\ new.refs = rs /\ new.dir = m.dir /\ new.ok = m.ok /\ new.null = m.null
  BY ONLY <1>3
<1>7. new \in SpaceT
  <2>1. m.dir \in PageDirT /\ m.ok \in BOOLEAN /\ m.null \in BOOLEAN
    BY <1>1
  <2>2. PICK d \in PageDirT, k \in BOOLEAN, z \in BOOLEAN : d = m.dir /\ k = m.ok /\ z = m.null
    BY <2>1
  <2>3. new = [list |-> list, refs |-> rs, dir |-> d, ok |-> k, null |-> z]
    BY <1>3, <2>2
  <2>. QED BY ONLY <1>4, <2>3, d \in PageDirT, k \in BOOLEAN, z \in BOOLEAN DEF SpaceT
<1>8. Loses(new.dir, dir)
  BY <1>6 DEF Good
<1>. QED BY <1>5, <1>6, <1>7, <1>8 DEF Good, list

(* vmmap_map keeps an address space good, whether or not it finds an        *)
(* object, and its page table goes on following (vmmap.c:327-425).          *)
LEMMA MapGood ==
  ASSUME NEW other \in [Object -> Nat], NEW dir, NEW m, Good(m, other, dir),
         NEW lo \in Nat, NEW n \in Nat \ {0}, UserLow <= lo, lo + n <= UserHigh,
         NEW file \in BOOLEAN, NEW shared \in BOOLEAN, NEW off \in Nat,
         NEW new, new = vmmap_map(m, lo, n, file, shared, off)
  PROVE  /\ Good(new, other, dir)
         /\ Follows(m.list, m.dir) => Follows(new.list, new.dir)
<1> DEFINE cut == IF vmmap_is_range_empty(m.list, lo, n) THEN m ELSE vmmap_remove(m, lo, n)
           o == IF file /\ shared THEN File ELSE CHOOSE x \in Unreferenced(cut) : TRUE
           a == NewArea(lo, n, off, o, shared)
           none == ~(file /\ shared) /\ Unreferenced(cut) = {}
<1>1. /\ m.list \in AreaList /\ m.refs \in [Object -> Nat] /\ m.dir \in PageDirT
      /\ m = [list |-> m.list, refs |-> m.refs, dir |-> m.dir, ok |-> m.ok, null |-> m.null]
      /\ m.ok \in BOOLEAN /\ m.null \in BOOLEAN
  BY GoodParts
<1>2. Good(cut, other, dir)
  BY RemoveGood
<1>3. /\ lo + n \in Nat /\ lo < lo + n
  OBVIOUS
<1>4. /\ \A i \in DOMAIN cut.list : cut.list[i].end <= lo \/ lo + n <= cut.list[i].start
      /\ Follows(m.list, m.dir) => Follows(cut.list, cut.dir)
  <2>1. CASE vmmap_is_range_empty(m.list, lo, n)
    <3>1. cut = m
      BY <2>1
    <3>2. ASSUME NEW i \in DOMAIN m.list PROVE m.list[i].end <= lo \/ lo + n <= m.list[i].start
      <4>1. PICK b \in Area : b = m.list[i]
        BY <1>1, ListFacts DEF AreaList
      <4>2. lo >= b.end \/ n + lo <= b.start
        BY <2>1, <4>1 DEF vmmap_is_range_empty
      <4>. QED BY <4>1, <4>2, AreaFacts
    <3>. QED BY <3>1, <3>2
  <2>2. CASE ~vmmap_is_range_empty(m.list, lo, n)
    <3>1. PICK list : list = AreasWithout(m.list, lo, lo + n)
      OBVIOUS
    <3>2. cut.list = list /\ cut.dir = pt_unmap_range(m.dir, lo, lo + n)
      BY <2>2, <3>1, RemoveGood
    <3>3. \A i \in DOMAIN list : list[i].end <= lo \/ lo + n <= list[i].start
      BY <1>1, <1>3, <3>1, RemoveClears
    <3>4. Follows(m.list, m.dir) => Follows(list, pt_unmap_range(m.dir, lo, lo + n))
      BY <1>1, <1>3, <3>1, RemoveFollows
    <3>. QED BY <3>2, <3>3, <3>4
  <2>. QED BY <2>1, <2>2
<1>5. new = IF none THEN [m EXCEPT !.ok = FALSE, !.null = TRUE]
            ELSE [cut EXCEPT !.list = vmmap_insert(@, a), !.refs[o] = @ + 1]
  BY DEF vmmap_map, NewArea
<1> HIDE DEF cut
<1>6. CASE none
  <2>1. new = [list |-> m.list, refs |-> m.refs, dir |-> m.dir, ok |-> FALSE, null |-> TRUE]
    BY <1>1, <1>5, <1>6
  <2>2. new.list = m.list /\ new.refs = m.refs /\ new.dir = m.dir
    BY <2>1
  <2>3. new \in SpaceT
    BY <1>1, <2>1 DEF SpaceT
  <2>4. Good(new, other, dir)
    BY <2>2, <2>3 DEF Good
  <2>. QED BY <2>2, <2>4
<1>7. CASE ~none
  <2>1. o \in Object
    BY <1>7, VmmapAssumption DEF Unreferenced
  <2> HIDE DEF o
  <2>2. PICK b : b = a
    OBVIOUS
  <2>3. b \in Area /\ b.start = lo /\ b.end = lo + n /\ b.obj = o
    BY <1>3, <2>1, <2>2 DEF NewArea, Area, AreaT
  <2>4. \A i \in DOMAIN cut.list : Clear(cut.list[i], b)
    BY <1>4, <2>3 DEF Clear
  <2>c. PICK c : c = cut
    OBVIOUS
  <2>5. new = [list |-> vmmap_insert(c.list, b), refs |-> [c.refs EXCEPT ![b.obj] = @ + 1],
               dir |-> c.dir, ok |-> c.ok, null |-> c.null]
    <3>1. c = [list |-> c.list, refs |-> c.refs, dir |-> c.dir, ok |-> c.ok, null |-> c.null]
      BY <1>2, <2>c, GoodParts
    <3>2. new = [c EXCEPT !.list = vmmap_insert(@, b), !.refs[b.obj] = @ + 1]
      BY <1>5, <1>7, <2>2, <2>3, <2>c
    <3>. QED BY <3>1, <3>2
  <2>6. Good(new, other, dir) /\ new.list = vmmap_insert(cut.list, b) /\ new.dir = cut.dir
    <3>1. Good(c, other, dir) /\ b \in Area /\ \A i \in DOMAIN c.list : Clear(c.list[i], b)
      BY <1>2, <2>3, <2>4, <2>c
    <3>2. Good(new, other, dir) /\ new.list = vmmap_insert(c.list, b) /\ new.dir = c.dir
      BY <2>5, <3>1, InsertGood
    <3>. QED BY <3>2, <2>c
  <2>7. ASSUME Follows(m.list, m.dir) PROVE Follows(new.list, new.dir)
    <3>1. cut.list \in AreaList
      BY <1>2, GoodParts
    <3>2. \A i \in DOMAIN cut.list : \E j \in DOMAIN new.list : new.list[j] = cut.list[i]
      BY <2>3, <2>4, <2>6, <3>1, InsertSound
    <3>3. Follows(cut.list, cut.dir)
      BY <1>4, <2>7
    <3>. QED BY <2>6, <3>2, <3>3, SameShows DEF Follows
  <2>. QED BY <2>6, <2>7
<1>. QED BY <1>6, <1>7
-----------------------------------------------------------------------------
(* The inductive invariant                                                  *)
Zero == [o \in Object |-> 0]
SpaceInv(list, rs, dir) ==
  /\ list \in AreaList
  /\ rs \in [Object -> Nat] /\ \A o \in Object : rs[o] = Cardinality(Over(list, o))
  /\ dir \in PageDirT /\ Follows(list, dir)
BreaksInv == p_start_brk \in Addr /\ p_brk \in p_start_brk .. (UserHigh * PageSize)
VmmapInv == SpaceInv(vmm_list, refs, pagedir) /\ BreaksInv /\ panic \in BOOLEAN

(* The address space of the process is a good one.                          *)
LEMMA SpaceGood ==
  ASSUME SpaceInv(vmm_list, refs, pagedir)
  PROVE  Good(Space, Zero, pagedir) /\ Follows(Space.list, Space.dir)
<1>1. /\ Space.list = vmm_list /\ Space.refs = refs /\ Space.dir = pagedir
      /\ Space \in SpaceT
  BY DEF Space, SpaceT, SpaceInv
<1>2. ASSUME NEW o \in Object PROVE refs[o] = Cardinality(Over(vmm_list, o)) + Zero[o]
  <2>1. Cardinality(Over(vmm_list, o)) \in Nat
    BY CountNat DEF SpaceInv
  <2>. QED BY <2>1 DEF SpaceInv, Zero
<1>3. Loses(pagedir, pagedir) /\ Follows(vmm_list, pagedir)
  BY LosesNothing DEF SpaceInv
<1>. QED BY <1>1, <1>2, <1>3 DEF Good

(* A good one that takes its place keeps the invariant.                     *)
LEMMA GoodSpaceInv ==
  ASSUME NEW m, NEW dir, Good(m, Zero, dir), Follows(m.list, m.dir), Becomes(m)
  PROVE  SpaceInv(vmm_list', refs', pagedir')
<1>1. vmm_list' = m.list /\ refs' = m.refs /\ pagedir' = m.dir
  BY DEF Becomes
<1>2. m.list \in AreaList /\ m.refs \in [Object -> Nat] /\ m.dir \in PageDirT
  BY GoodParts
<1>3. ASSUME NEW o \in Object PROVE m.refs[o] = Cardinality(Over(m.list, o))
  <2>1. Cardinality(Over(m.list, o)) \in Nat
    BY <1>2, CountNat
  <2>. QED BY <2>1 DEF Good, Zero
<1>. QED BY <1>1, <1>2, <1>3 DEF SpaceInv

(* munmap (mmap.c:173-199): with wrapped arguments it panics, with others   *)
(* it unmaps user pages only.                                               *)
LEMMA MunmapSound ==
  ASSUME VmmapInv, NEW addr \in CallAddr, NEW len \in Length, do_munmap(addr, len)
  PROVE  VmmapInv'
<1>1. PICK lo, n : lo = ADDR_TO_PN(addr) /\ n = PagesOf(len)
  OBVIOUS
<1>2. addr \in Addr /\ len \in Nat \ {0}
  BY VmmapAssumption DEF Addr
<1>3. CASE PN_TO_ADDR(lo) < PN_TO_ADDR(lo + n) /\ PN_TO_ADDR(lo + n) <= UserHigh * PageSize
  <2>1. /\ Becomes(vmmap_remove(Space, lo, n)) /\ UNCHANGED <<breaks, panic>>
        /\ len <= UserHigh * PageSize /\ UserLow * PageSize <= addr
    BY <1>1, <1>3 DEF do_munmap
  <2>2. lo \in Nat /\ n \in Nat \ {0} /\ UserLow <= lo /\ lo + n <= UserHigh
    BY <1>1, <1>2, <1>3, <2>1, UnmapsUserPages
  <2>3. Good(Space, Zero, pagedir) /\ Follows(Space.list, Space.dir)
    BY SpaceGood DEF VmmapInv
  <2>4. PICK new : new = vmmap_remove(Space, lo, n)
    OBVIOUS
  <2>5. Good(new, Zero, pagedir) /\ Follows(new.list, new.dir)
    <3>1. Zero \in [Object -> Nat]
      BY DEF Zero
    <3>. QED BY <2>2, <2>3, <2>4, <3>1, UnmapGood
  <2>6. SpaceInv(vmm_list', refs', pagedir')
    BY <2>1, <2>4, <2>5, GoodSpaceInv
  <2>. QED BY <2>1, <2>6 DEF VmmapInv, BreaksInv, breaks
<1>4. CASE ~(PN_TO_ADDR(lo) < PN_TO_ADDR(lo + n) /\ PN_TO_ADDR(lo + n) <= UserHigh * PageSize)
  <2>1. Panic
    BY <1>1, <1>4 DEF do_munmap
  <2>. QED BY <2>1 DEF Panic, VmmapInv, BreaksInv, breaks, space
<1>. QED BY <1>3, <1>4

(* mmap (mmap.c:51-166), at a place of its own or one that the caller names *)
LEMMA MmapSound ==
  ASSUME VmmapInv, NEW addr \in CallAddr, NEW len \in Length,
         NEW file \in BOOLEAN, NEW shared \in BOOLEAN, NEW off \in Nat,
         do_mmap(addr, len, file, shared, off)
  PROVE  VmmapInv'
<1>1. PICK n : n = PagesOf(len)
  OBVIOUS
<1>2. PICK lo : lo = IF addr = 0 THEN vmmap_find_range(vmm_list, n) ELSE ADDR_TO_PN(addr)
  OBVIOUS
<1>3. PICK m : m = vmmap_map(Space, lo, n, file, shared, off)
  OBVIOUS
<1>4. addr \in Nat /\ len \in Nat \ {0}
  BY VmmapAssumption
<1>5. n \in Nat \ {0}
  BY <1>1, <1>4, PagesOfIs
<1>6. lo \in Nat
  <2>1. vmm_list \in AreaList
    BY DEF VmmapInv, SpaceInv
  <2>2. vmmap_find_range(vmm_list, n) \in Nat
    BY <1>5, <2>1, FindRangeIs
  <2>3. ADDR_TO_PN(addr) \in Nat
    BY <1>4, PageOffset
  <2>. QED BY <1>2, <2>2, <2>3
<1>7. CASE UserLow <= lo /\ lo + n <= UserHigh /\ ~m.null
  <2>1. Becomes(m) /\ UNCHANGED <<breaks, panic>>
    BY <1>1, <1>2, <1>3, <1>7 DEF do_mmap
  <2>2. Good(Space, Zero, pagedir) /\ Follows(Space.list, Space.dir) /\ Zero \in [Object -> Nat]
    BY SpaceGood DEF VmmapInv, Zero
  <2>3. Good(m, Zero, pagedir) /\ Follows(m.list, m.dir)
    BY <1>3, <1>5, <1>6, <1>7, <2>2, MapGood
  <2>4. SpaceInv(vmm_list', refs', pagedir')
    BY <2>1, <2>3, GoodSpaceInv
  <2>. QED BY <2>1, <2>4 DEF VmmapInv, BreaksInv, breaks
<1>8. CASE ~(UserLow <= lo /\ lo + n <= UserHigh /\ ~m.null)
  <2>1. Panic
    BY <1>1, <1>2, <1>3, <1>8 DEF do_mmap
  <2>. QED BY <2>1 DEF Panic, VmmapInv, BreaksInv, breaks, space
<1>. QED BY <1>7, <1>8

(* A page fault enters what the area over the page says                     *)
(* (pagefault.c:50-133).                                                    *)
LEMMA PagefaultSound ==
  ASSUME VmmapInv, NEW pn \in TouchPage, handle_pagefault(pn)
  PROVE  VmmapInv'
<1>1. PICK a : a = vmmap_lookup(vmm_list, pn)
  OBVIOUS
<1>2. /\ a # NoObj /\ UNCHANGED <<vmm_list, refs, breaks, panic>>
      /\ pagedir' = pt_map(pagedir, pn, [obj |-> a.obj, pn |-> PageShown(a, pn)])
  BY <1>1 DEF handle_pagefault
<1>3. pn \in Nat
  BY VmmapAssumption
<1>4. vmm_list \in AreaList /\ pagedir \in PageDirT /\ Follows(vmm_list, pagedir)
  BY DEF VmmapInv, SpaceInv
<1>5. PICK i \in DOMAIN vmm_list : Covers(vmm_list[i], pn) /\ a = vmm_list[i]
  BY <1>1, <1>2, <1>3, <1>4, LookupIs
<1>6. a \in Area
  BY <1>4, <1>5, ListFacts DEF AreaList
<1>7. a.start <= pn /\ pn < a.end
  BY <1>5 DEF Covers
<1>8. pn \in UserPage
  BY <1>3, <1>6, <1>7, AreaFacts, VmmapAssumption DEF UserPage
<1>9. PICK e \in PteT : e = [obj |-> a.obj, pn |-> PageShown(a, pn)]
  <2>1. PageShown(a, pn) \in Nat /\ a.obj \in Object
    BY <1>3, <1>6, <1>7, AreaFacts DEF PageShown
  <2>. QED BY <2>1 DEF PteT
<1>10. /\ pagedir' \in PageDirT /\ Pte(pagedir', pn) = e
       /\ \A p \in UserPage \ {pn} : Pte(pagedir', p) = Pte(pagedir, p)
  BY <1>2, <1>4, <1>8, <1>9, MapIs
<1>11. Follows(vmm_list, pagedir')
  <2>1. ASSUME NEW p \in UserPage, Pte(pagedir', p) # NoEntry
        PROVE  ShownBy(vmm_list, p, Pte(pagedir', p))
    <3>1. CASE p = pn
      BY <1>5, <1>9, <1>10, <3>1 DEF ShownBy
    <3>2. CASE p # pn
      BY <1>4, <1>10, <2>1, <3>2 DEF Follows
    <3>. QED BY <3>1, <3>2
  <2>. QED BY <2>1 DEF Follows
<1>12. SpaceInv(vmm_list', refs', pagedir')
  BY <1>2, <1>10, <1>11 DEF VmmapInv, SpaceInv
<1>. QED BY <1>2, <1>12 DEF VmmapInv, BreaksInv, breaks

(* Taking a page of the file away from the tables only clears entries.      *)
LEMMA PframeSound ==
  ASSUME VmmapInv, NEW pn \in FilePage, pframe_remove_from_pts(pn)
  PROVE  VmmapInv'
<1>1. vmm_list \in AreaList /\ pagedir \in PageDirT /\ Follows(vmm_list, pagedir)
  BY DEF VmmapInv, SpaceInv
<1>2. UNCHANGED <<vmm_list, refs, breaks, panic>>
  BY DEF pframe_remove_from_pts
<1>3. Loses(pagedir', pagedir)
  BY <1>1, PframeRemoves
<1>4. pagedir' \in PageDirT /\ Follows(vmm_list, pagedir')
  BY <1>1, <1>3, LosesFollows DEF Loses
<1>5. SpaceInv(vmm_list', refs', pagedir')
  BY <1>2, <1>4 DEF VmmapInv, SpaceInv
<1>. QED BY <1>2, <1>5 DEF VmmapInv, BreaksInv, breaks

(* A copy from or to user memory changes nothing, or panics.                *)
LEMMA UserCopySound ==
  ASSUME VmmapInv, NEW addr, NEW len, user_copy(addr, len)
  PROVE  VmmapInv'
<1>1. Panic \/ UNCHANGED vmmapVars
  BY DEF user_copy
<1>. QED BY <1>1 DEF Panic, VmmapInv, BreaksInv, breaks, space, vmmapVars
-----------------------------------------------------------------------------
(* The area that the break ends grows up to the next one.                   *)
LEMMA GrowSound ==
  ASSUME NEW list \in AreaList, NEW k \in DOMAIN list, NEW end \in Nat,
         list[k].end <= end, end <= UserHigh,
         \A i \in DOMAIN list : i > k => end <= list[i].start,
         NEW new, new = [i \in DOMAIN list |->
                           IF list[i] = list[k] THEN [list[k] EXCEPT !.end = end] ELSE list[i]]
  PROVE  /\ new \in AreaList
         /\ \A o : Over(new, o) = Over(list, o)
         /\ \A e : \A pn \in Nat : ShownBy(list, pn, e) => ShownBy(new, pn, e)
<1> DEFINE n == Len(list)
<1>1. /\ list \in Seq(Area) /\ Apart(list) /\ n \in Nat /\ DOMAIN list = 1..n
      /\ \A i \in 1..n : list[i] \in Area
  BY ListFacts DEF AreaList
<1> HIDE DEF n
<1>2. PICK a \in Area : a = list[k]
  BY <1>1
<1>3. PICK b : b = [a EXCEPT !.end = end]
  OBVIOUS
<1>4. /\ b \in Area /\ b.start = a.start /\ b.end = end /\ b.obj = a.obj /\ b.off = a.off
      /\ a.end <= end
  <2>1. a \in AreaT /\ a.end <= end
    BY <1>2, AreaFacts
  <2>2. b \in AreaT /\ b.start = a.start /\ b.end = end /\ b.obj = a.obj /\ b.off = a.off
    BY <1>3, <2>1, ZenonT(30) DEF AreaT
  <2>3. UserLow <= b.start /\ b.end <= UserHigh /\ b.start < b.end
    BY <2>1, <2>2, AreaFacts
  <2>. QED BY <2>1, <2>2, <2>3 DEF Area
<1>5. \A i \in 1..n : list[i] = a <=> i = k
  <2>1. ASSUME NEW i \in 1..n, list[i] = a, i # k PROVE FALSE
    <3>1. i < k \/ k < i
      BY <1>1, <2>1
    <3>2. a.end <= a.start
      BY <1>1, <1>2, <2>1, <3>1 DEF Apart
    <3>. QED BY <3>2, AreaFacts
  <2>. QED BY <1>2, <2>1
<1>6. new = [i \in 1..n |-> IF i = k THEN b ELSE list[i]]
  BY <1>1, <1>2, <1>3, <1>5
<1>7. new \in Seq(Area) /\ DOMAIN new = 1..n
  <2>1. new \in [1..n -> Area]
    BY <1>1, <1>4, <1>6
  <2>2. n \in Nat
    BY <1>1
  <2>. QED BY ONLY <2>1, <2>2
<1>8. Apart(new)
  <2>1. ASSUME NEW i \in 1..n, NEW j \in 1..n, i < j PROVE new[i].end <= new[j].start
    <3>1. list[i].end <= list[j].start
      BY <1>1, <2>1 DEF Apart
    <3>2. CASE i = k
      <4>1. new[i] = b /\ new[j] = list[j] /\ j > k
        BY <1>1, <1>6, <2>1, <3>2
      <4>2. end <= list[j].start
        BY <1>1, <4>1
      <4>. QED BY <1>4, <4>1, <4>2
    <3>3. CASE i # k /\ j = k
      BY <1>2, <1>4, <1>6, <3>1, <3>3
    <3>4. CASE i # k /\ j # k
      BY <1>6, <3>1, <3>4
    <3>. QED BY <3>2, <3>3, <3>4
  <2>. QED BY <1>7, <2>1 DEF Apart
<1>9. \A i \in 1..n : /\ new[i].obj = list[i].obj /\ new[i].start = list[i].start
                      /\ new[i].off = list[i].off
  BY <1>2, <1>4, <1>6
<1>10. ASSUME NEW pn \in Nat, NEW e, ShownBy(list, pn, e) PROVE ShownBy(new, pn, e)
  <2>1. PICK i \in 1..n : Covers(list[i], pn) /\ e = [obj |-> list[i].obj, pn |-> PageShown(list[i], pn)]
    BY <1>1, <1>10 DEF ShownBy
  <2>2. Covers(new[i], pn)
    <3>1. CASE i = k
      <4>1. pn < a.end /\ a.start <= pn
        BY <1>2, <2>1, <3>1 DEF Covers
      <4>. QED BY <1>4, <1>6, <3>1, <4>1, AreaFacts DEF Covers
    <3>2. CASE i # k
      BY <1>6, <2>1, <3>2
    <3>. QED BY <3>1, <3>2
  <2>3. new[i].obj = list[i].obj /\ PageShown(new[i], pn) = PageShown(list[i], pn)
    BY <1>9 DEF PageShown
  <2>. QED BY <1>7, <2>1, <2>2, <2>3 DEF ShownBy
<1>11. new \in AreaList /\ \A o : Over(new, o) = Over(list, o)
  BY <1>1, <1>7, <1>8, <1>9 DEF AreaList, Over
<1>. QED BY <1>10, <1>11

(* brk (brk.c:76-110): the area that ends in the break grows into free      *)
(* pages, or loses its last pages.                                          *)
LEMMA BrkSound ==
  ASSUME VmmapInv, NEW addr \in BrkAddr, do_brk(addr)
  PROVE  VmmapInv'
<1>1. PICK a : a = vmmap_lookup(vmm_list, ADDR_TO_PN(p_start_brk))
  OBVIOUS
<1>2. PICK end : end = ADDR_TO_PN(PAGE_ALIGN_UP(addr))
  OBVIOUS
<1>3. /\ p_start_brk # 0 /\ p_start_brk <= addr /\ addr <= UserHigh * PageSize
      /\ a = NoObj => Panic
      /\ a # NoObj =>
           /\ end > a.end => vmmap_is_range_empty(vmm_list, a.end, end - a.end)
           /\ IF end >= a.end
              THEN /\ vmm_list' = [i \in DOMAIN vmm_list |->
                           IF vmm_list[i] = a THEN [a EXCEPT !.end = end] ELSE vmm_list[i]]
                   /\ UNCHANGED <<refs, pagedir>>
              ELSE Becomes(vmmap_remove(Space, end, a.end - end))
           /\ p_brk' = addr /\ UNCHANGED <<p_start_brk, panic>>
  BY <1>1, <1>2 DEF do_brk, InUser
<1>4. /\ addr \in Nat /\ p_start_brk \in Nat \ {0} /\ UserHigh * PageSize \in Nat
      /\ p_start_brk \in Addr
  BY <1>3, VmmapAssumption DEF VmmapInv, BreaksInv, Addr
<1>5. SpaceInv(vmm_list, refs, pagedir) /\ vmm_list \in AreaList /\ pagedir \in PageDirT
      /\ panic \in BOOLEAN
  BY DEF VmmapInv, SpaceInv
<1>6. CASE a = NoObj
  BY <1>3, <1>6 DEF Panic, VmmapInv, BreaksInv, breaks, space
<1>7. CASE a # NoObj
  <2>0. ADDR_TO_PN(p_start_brk) \in Nat
    BY <1>4, PageOffset
  <2>1. PICK k \in DOMAIN vmm_list : Covers(vmm_list[k], ADDR_TO_PN(p_start_brk)) /\ a = vmm_list[k]
    BY <1>1, <1>5, <1>7, <2>0, LookupIs
  <2>2. a \in Area
    BY <1>5, <2>1, ListFacts DEF AreaList
  <2>3. /\ end \in Nat /\ end <= UserHigh /\ a.start <= end
    <3>1. addr \in Nat \ {0}
      BY <1>3, <1>4
    <3>2. end = ADDR_TO_PN(addr - 1) + 1 /\ end <= UserHigh /\ addr <= end * PageSize
      BY <1>2, <1>3, <3>1, AlignedUp
    <3>3. ADDR_TO_PN(addr - 1) \in Nat
      BY <3>1, PageOffset
    <3>4. end \in Nat
      BY <3>2, <3>3
    <3>5. ADDR_TO_PN(p_start_brk) <= end
      <4>1. p_start_brk <= end * PageSize
        BY <1>3, <1>4, <3>2, <3>4, VmmapAssumption
      <4>. QED BY <1>4, <3>4, <4>1, PageBelow
    <3>6. a.start <= ADDR_TO_PN(p_start_brk)
      BY <2>1 DEF Covers
    <3>. QED BY <2>0, <2>2, <3>2, <3>4, <3>5, <3>6, AreaFacts
  <2>4. BreaksInv'
    BY <1>3, <1>4, <1>7 DEF BreaksInv
  <2>5. CASE end >= a.end
    <3>1. /\ vmm_list' = [i \in DOMAIN vmm_list |->
                IF vmm_list[i] = vmm_list[k] THEN [vmm_list[k] EXCEPT !.end = end] ELSE vmm_list[i]]
          /\ refs' = refs /\ pagedir' = pagedir
      BY <1>3, <1>7, <2>1, <2>5
    <3>2. ASSUME NEW i \in DOMAIN vmm_list, i > k PROVE end <= vmm_list[i].start
      <4>1. PICK b \in Area : b = vmm_list[i]
        BY <1>5, ListFacts DEF AreaList
      <4>2. a.end <= b.start
        <5>1. k < i
          <6>1. k \in Nat /\ i \in Nat
            BY <1>5, ListFacts DEF AreaList
          <6>. QED BY <3>2, <6>1
        <5>. QED BY <1>5, <2>1, <4>1, <5>1 DEF AreaList, Apart
      <4>3. CASE end = a.end
        BY <4>1, <4>2, <4>3
      <4>4. CASE end # a.end
        <5>1. end > a.end
          BY <2>2, <2>3, <2>5, <4>4, AreaFacts
        <5>2. a.end >= b.end \/ (end - a.end) + a.end <= b.start
          BY <1>3, <1>7, <4>1, <5>1 DEF vmmap_is_range_empty
        <5>. QED BY <2>2, <2>3, <4>1, <4>2, <5>2, AreaFacts
      <4>. QED BY <4>3, <4>4
    <3>3. /\ vmm_list' \in AreaList
          /\ \A o : Over(vmm_list', o) = Over(vmm_list, o)
          /\ \A e : \A pn \in Nat : ShownBy(vmm_list, pn, e) => ShownBy(vmm_list', pn, e)
      <4>1. PICK new : new = vmm_list'
        OBVIOUS
      <4>2. vmm_list[k].end <= end
        BY <2>1, <2>2, <2>3, <2>5, AreaFacts
      <4>3. /\ new \in AreaList
            /\ \A o : Over(new, o) = Over(vmm_list, o)
            /\ \A e : \A pn \in Nat : ShownBy(vmm_list, pn, e) => ShownBy(new, pn, e)
        BY <1>5, <2>3, <3>1, <3>2, <4>1, <4>2, GrowSound
      <4>. QED BY <4>1, <4>3
    <3>4. Follows(vmm_list', pagedir')
      <4>1. \A pn \in UserPage : Pte(pagedir, pn) # NoEntry => ShownBy(vmm_list, pn, Pte(pagedir, pn))
        BY <1>5 DEF SpaceInv, Follows
      <4>2. \A pn \in UserPage : Pte(pagedir, pn) # NoEntry => ShownBy(vmm_list', pn, Pte(pagedir, pn))
        BY <3>3, <4>1, UserPages
      <4>. QED BY <3>1, <4>2 DEF Follows
    <3>5. SpaceInv(vmm_list', refs', pagedir')
      BY <1>5, <3>1, <3>3, <3>4 DEF SpaceInv
    <3>. QED BY <1>3, <1>5, <1>7, <2>4, <3>5 DEF VmmapInv
  <2>6. CASE ~(end >= a.end)
    <3>1. PICK n : n = a.end - end
      OBVIOUS
    <3>2. PICK new : new = vmmap_remove(Space, end, n)
      OBVIOUS
    <3>3. Becomes(new)
      BY <1>3, <1>7, <2>6, <3>1, <3>2
    <3>4. n \in Nat \ {0} /\ UserLow <= end /\ end + n <= UserHigh
      <4>1. a.end \in Nat /\ a.end <= UserHigh /\ UserLow <= a.start /\ a.start \in Nat /\ UserLow \in Nat
        BY <2>2, AreaFacts, VmmapAssumption
      <4>. QED BY <2>3, <2>6, <3>1, <4>1
    <3>5. Good(Space, Zero, pagedir) /\ Follows(Space.list, Space.dir) /\ Zero \in [Object -> Nat]
      BY <1>5, SpaceGood DEF Zero
    <3>6. Good(new, Zero, pagedir) /\ Follows(new.list, new.dir)
      BY <2>3, <3>2, <3>4, <3>5, UnmapGood
    <3>7. SpaceInv(vmm_list', refs', pagedir')
      BY <3>3, <3>6, GoodSpaceInv
    <3>. QED BY <1>3, <1>5, <1>7, <2>4, <3>7 DEF VmmapInv
  <2>. QED BY <2>5, <2>6
<1>. QED BY <1>6, <1>7

(* Every step of the process itself keeps the invariant.                    *)
LEMMA VmmapNextSound ==
  ASSUME VmmapInv, VmmapNext
  PROVE  VmmapInv'
<1>1. CASE \E addr \in BrkAddr : do_brk(addr)
  BY <1>1, BrkSound
<1>2. CASE \E addr \in CallAddr, len \in Length : do_munmap(addr, len)
  BY <1>2, MunmapSound
<1>3. CASE \E addr \in CallAddr, len \in Length : user_copy(addr, len)
  BY <1>3, UserCopySound
<1>4. CASE \E addr \in CallAddr, len \in Length, k \in MapKind, off \in FileOff :
             do_mmap(addr, len, k[1], k[2], IF k[1] THEN off ELSE 0)
  <2>1. PICK addr \in CallAddr, len \in Length, k \in MapKind, off \in FileOff :
          do_mmap(addr, len, k[1], k[2], IF k[1] THEN off ELSE 0)
    BY <1>4
  <2>2. k[1] \in BOOLEAN /\ k[2] \in BOOLEAN /\ off \in Nat
    BY VmmapAssumption
  <2>3. PICK f \in BOOLEAN, s \in BOOLEAN, x \in Nat :
          f = k[1] /\ s = k[2] /\ x = IF k[1] THEN off ELSE 0
    BY <2>2
  <2>4. do_mmap(addr, len, f, s, x)
    BY <2>1, <2>3
  <2>. QED BY <2>4, MmapSound
<1>5. CASE \E pn \in TouchPage : handle_pagefault(pn)
  BY <1>5, PagefaultSound
<1>6. CASE \E pn \in FilePage : pframe_remove_from_pts(pn)
  BY <1>6, PframeSound
<1>. QED BY <1>1, <1>2, <1>3, <1>4, <1>5, <1>6 DEF VmmapNext
-----------------------------------------------------------------------------
(* Loading a program.  A segment that lies in user memory                   *)
GoodSeg(seg) ==
  seg \in Segment /\ UserLow <= ADDR_TO_PN(seg.vaddr) /\ SegEnd(seg) <= UserHigh * PageSize

(* A load that fails stays a good address space.                            *)
LEMMA SetOk ==
  ASSUME NEW other, NEW dir, NEW m, Good(m, other, dir), NEW b \in BOOLEAN,
         NEW new, new = [m EXCEPT !.ok = b]
  PROVE  Good(new, other, dir) /\ new.list = m.list
<1>1. /\ m.list \in AreaList /\ m.refs \in [Object -> Nat] /\ m.dir \in PageDirT /\ m.null \in BOOLEAN
      /\ m = [list |-> m.list, refs |-> m.refs, dir |-> m.dir, ok |-> m.ok, null |-> m.null]
  BY GoodParts
<1>2. new = [list |-> m.list, refs |-> m.refs, dir |-> m.dir, ok |-> b, null |-> m.null]
  BY <1>1
<1>3. PICK l \in AreaList, r \in [Object -> Nat], d \in PageDirT, z \in BOOLEAN :
         l = m.list /\ r = m.refs /\ d = m.dir /\ z = m.null
  BY <1>1
<1>4. new = [list |-> l, refs |-> r, dir |-> d, ok |-> b, null |-> z]
  BY <1>2, <1>3
<1>5. new \in SpaceT /\ new.list = l /\ new.refs = r /\ new.dir = d
  BY ONLY <1>4, l \in AreaList, r \in [Object -> Nat], d \in PageDirT, b \in BOOLEAN, z \in BOOLEAN
     DEF SpaceT
<1>. QED BY <1>3, <1>5 DEF Good

(* The types of a segment in user memory                                    *)
LEMMA SegFacts ==
  ASSUME NEW seg, GoodSeg(seg)
  PROVE  /\ seg.vaddr \in Nat /\ seg.offset \in Nat /\ seg.filesz \in Nat /\ seg.memsz \in Nat
         /\ SegEnd(seg) = seg.vaddr + seg.memsz /\ FileEnd(seg) = seg.vaddr + seg.filesz
         /\ ADDR_TO_PN(seg.vaddr) \in Nat /\ UserLow <= ADDR_TO_PN(seg.vaddr)
         /\ SegEnd(seg) <= UserHigh * PageSize
BY PageOffset DEF GoodSeg, Segment, SegEnd, FileEnd

(* The part of a segment that comes from the file lies in user memory       *)
(* (elf32.c:99-116).                                                        *)
LEMMA FilePartGood ==
  ASSUME NEW other \in [Object -> Nat], NEW dir, NEW m, Good(m, other, dir),
         NEW seg, GoodSeg(seg), ~(seg.filesz > seg.memsz),
         NEW new, new = MapFilePart(m, seg)
  PROVE  Good(new, other, dir)
<1>1. CASE seg.filesz = 0
  BY <1>1 DEF MapFilePart
<1>2. PICK lo, n : lo = ADDR_TO_PN(seg.vaddr) /\ n = FilePages(seg)
  OBVIOUS
<1>3. CASE seg.filesz # 0 /\ ~vmmap_is_range_empty(m.list, lo, n)
  <2>1. new = [m EXCEPT !.ok = FALSE]
    BY <1>2, <1>3 DEF MapFilePart
  <2>. QED BY <2>1, SetOk
<1>4. CASE seg.filesz # 0 /\ vmmap_is_range_empty(m.list, lo, n)
  <2>1. PICK v \in Nat, f \in Nat \ {0}, z \in Nat, off \in Nat :
          /\ v = seg.vaddr /\ f = seg.filesz /\ z = seg.memsz /\ off = ADDR_TO_PN(seg.offset)
          /\ f <= z /\ v + z <= UserHigh * PageSize /\ FileEnd(seg) = v + f
          /\ lo = ADDR_TO_PN(v) /\ lo \in Nat /\ UserLow <= lo
    <3>1. ADDR_TO_PN(seg.offset) \in Nat
      BY SegFacts, PageOffset
    <3>. QED BY <1>2, <1>4, <3>1, SegFacts
  <2>2. PICK e \in Nat : e = ADDR_TO_PN(v + f - 1) /\ lo <= e /\ e < UserHigh
    <3>1. v + f - 1 \in Nat /\ v <= v + f - 1
      OBVIOUS
    <3>2. ADDR_TO_PN(v + f - 1) \in Nat /\ lo <= ADDR_TO_PN(v + f - 1)
      BY <2>1, <3>1, PageOffset, PageMonotone
    <3>3. UserHigh \in Nat /\ UserHigh * PageSize \in Nat
      BY VmmapAssumption
    <3>4. v + f - 1 < UserHigh * PageSize
      BY <2>1, <3>3
    <3>5. ADDR_TO_PN(v + f - 1) < UserHigh
      BY <3>1, <3>3, <3>4, PageBelow
    <3>. QED BY <3>2, <3>5
  <2>3. n = e - lo + 1
    BY <1>2, <2>1, <2>2 DEF FilePages
  <2>4. n \in Nat \ {0} /\ lo + n <= UserHigh /\ lo \in Nat
    <3>1. UserHigh \in Nat /\ lo \in Nat
      BY <2>1, VmmapAssumption
    <3>. QED BY ONLY <2>2, <2>3, <3>1, e \in Nat
  <2>5. new = vmmap_map(m, lo, n, TRUE, FALSE, off)
    BY <1>2, <1>4, <2>1 DEF MapFilePart
  <2>. QED BY <2>1, <2>4, <2>5, MapGood
<1>. QED BY <1>1, <1>3, <1>4

(* So do its zeros (elf32.c:118-152).                                       *)
LEMMA ZeroPartGood ==
  ASSUME NEW other \in [Object -> Nat], NEW dir, NEW m, Good(m, other, dir),
         NEW seg, GoodSeg(seg), NEW fails, NEW new, new = MapZeroPart(m, seg, fails)
  PROVE  Good(new, other, dir)
<1>1. PICK lo, n : lo = ADDR_TO_PN(FileEnd(seg)) /\ n = ZeroPages(seg)
  OBVIOUS
<1>2. CASE ~m.ok \/ seg.memsz <= seg.filesz
  BY <1>2 DEF MapZeroPart
<1>3. CASE ~(~m.ok \/ seg.memsz <= seg.filesz) /\ n > 1 /\ ~vmmap_is_range_empty(m.list, lo + 1, n - 1)
  <2>1. new = [m EXCEPT !.ok = FALSE]
    BY <1>1, <1>3 DEF MapZeroPart
  <2>. QED BY <2>1, SetOk
<1>4. CASE /\ ~(~m.ok \/ seg.memsz <= seg.filesz)
           /\ ~(n > 1 /\ ~vmmap_is_range_empty(m.list, lo + 1, n - 1))
  <2>1. PICK v \in Nat, f \in Nat, z \in Nat \ {0} :
          /\ v = seg.vaddr /\ f = seg.filesz /\ z = seg.memsz
          /\ f < z /\ v + z <= UserHigh * PageSize /\ FileEnd(seg) = v + f /\ SegEnd(seg) = v + z
          /\ ADDR_TO_PN(v) \in Nat /\ UserLow <= ADDR_TO_PN(v)
    BY <1>4, SegFacts
  <2>2. lo \in Nat /\ UserLow <= lo
    <3>1. v + f \in Nat /\ v <= v + f
      OBVIOUS
    <3>2. lo \in Nat /\ ADDR_TO_PN(v) <= lo
      BY <1>1, <2>1, <3>1, PageOffset, PageMonotone
    <3>. QED BY <2>1, <3>2, VmmapAssumption
  <2>3. PICK e \in Nat : e = ADDR_TO_PN(v + z - 1) /\ lo <= e
    <3>1. v + f \in Nat /\ v + z - 1 \in Nat /\ v + f <= v + z - 1
      BY <2>1
    <3>. QED BY <1>1, <2>1, <3>1, PageOffset, PageMonotone
  <2>4. ADDR_TO_PN(PAGE_ALIGN_UP(v + z)) = e + 1 /\ e + 1 <= UserHigh
    <3>1. v + z \in Nat \ {0}
      OBVIOUS
    <3>. QED BY <2>1, <2>3, <3>1, AlignedUp
  <2>5. n = (e + 1) - lo
    BY <1>1, <2>1, <2>4 DEF ZeroPages
  <2>6. n \in Nat \ {0} /\ lo + n <= UserHigh
    BY <2>2, <2>3, <2>4, <2>5, VmmapAssumption
  <2>7. PICK mapped : mapped = vmmap_map(m, lo, n, FALSE, FALSE, 0)
    OBVIOUS
  <2>8. Good(mapped, other, dir)
    BY <2>2, <2>6, <2>7, MapGood
  <2>9. PICK b \in BOOLEAN : new = [mapped EXCEPT !.ok = b]
    <3>1. PICK c \in BOOLEAN : c = (~PAGE_ALIGNED(FileEnd(seg)) /\ seg.filesz > 0 /\ fails = "read")
      OBVIOUS
    <3>2. new = [mapped EXCEPT !.ok = @ /\ ~(((~PAGE_ALIGNED(FileEnd(seg))) /\ seg.filesz > 0) /\ fails = "read")]
      BY <1>1, <1>4, <2>7 DEF MapZeroPart
    <3>. QED BY <3>2
  <2>. QED BY <2>8, <2>9, SetOk
<1>. QED BY <1>2, <1>3, <1>4

(* Hence a segment keeps the new address space good.                        *)
LEMMA SegmentGood ==
  ASSUME NEW other \in [Object -> Nat], NEW dir, NEW m, Good(m, other, dir),
         NEW seg, GoodSeg(seg), NEW fails, NEW new, new = map_segment(m, seg, fails)
  PROVE  Good(new, other, dir)
<1>1. CASE new = [m EXCEPT !.ok = FALSE]
  BY <1>1, SetOk
<1>2. CASE new = MapZeroPart(MapFilePart(m, seg), seg, fails) /\ ~(seg.filesz > seg.memsz)
  <2>1. PICK part : part = MapFilePart(m, seg)
    OBVIOUS
  <2>2. Good(part, other, dir)
    BY <1>2, <2>1, FilePartGood
  <2>. QED BY <1>2, <2>1, <2>2, ZeroPartGood
<1>. QED BY <1>1, <1>2 DEF map_segment

(* All segments of a program, one after the other                           *)
LEMMA ProgsegsGood ==
  ASSUME NEW other \in [Object -> Nat], NEW dir, NEW m, Good(m, other, dir),
         NEW segs, NEW n \in Nat, Len(segs) = n, NEW memoff, NEW fails,
         \A i \in 1..n : GoodSeg(Relocated(segs[i], memoff)),
         NEW new, new = map_progsegs(m, segs, memoff, fails)
  PROVE  Good(new, other, dir)
<1> DEFINE S == {x \in SpaceT : Good(x, other, dir)}
           step(i, x) == map_segment(x, Relocated(segs[i], memoff), fails)
           F == [i \in 1..n |-> [x \in S |-> step(i, x)]]
           map[i \in 0 .. Len(segs)] == IF i = 0 THEN m ELSE map_segment(map[i - 1], Relocated(segs[i], memoff), fails)
<1>1. ASSUME NEW i \in 1..n, NEW x \in S PROVE step(i, x) \in S
  <2>1. PICK y : y = step(i, x)
    OBVIOUS
  <2>2. Good(y, other, dir)
    BY <2>1, SegmentGood
  <2>. QED BY <2>1, <2>2 DEF Good
<1>2. m \in S
  BY DEF Good
<1>3. F \in [1..n -> [S -> S]]
  BY <1>1
<1>4. new = map[Len(segs)]
  BY DEF map_progsegs
<1>5. PICK g \in [0..n -> S] : g[0] = m /\ \A i \in 1..n : g[i] = F[i][g[i - 1]]
  <2> HIDE DEF F, S
  <2>. QED BY <1>2, <1>3, Iteration
<1>6. \A i \in 1..n : g[i] = step(i, g[i - 1])
  <2>1. ASSUME NEW i \in 1..n PROVE g[i] = step(i, g[i - 1])
    <3>1. i - 1 \in 0..n
      OBVIOUS
    <3>2. g[i - 1] \in S
      BY <3>1
    <3> HIDE DEF S, step
    <3>. QED BY <1>5, <3>2
  <2>. QED BY <2>1
<1> HIDE DEF F, S
<1>7. g = [i \in 0 .. Len(segs) |-> IF i = 0 THEN m ELSE map_segment(g[i - 1], Relocated(segs[i], memoff), fails)]
  <2>1. \A i \in 0..n : i # 0 => i \in 1..n
    OBVIOUS
  <2>. QED BY <1>5, <1>6, <2>1
<1>8. map = [i \in 0 .. Len(segs) |-> IF i = 0 THEN m ELSE map_segment(map[i - 1], Relocated(segs[i], memoff), fails)]
  BY <1>7
<1> HIDE DEF map
<1>9. map[0] = m /\ \A i \in 1..n : map[i] = step(i, map[i - 1])
  <2>1. \A i \in 1..n : i \in 0..n /\ i # 0
    OBVIOUS
  <2>2. 0 \in 0..n
    OBVIOUS
  <2>. QED BY <1>8, <2>1, <2>2
<1> HIDE DEF step
<1> DEFINE T == {k \in Nat : k <= n => map[k] \in S}
<1>10. 0 \in T
  BY <1>2, <1>9
<1>11. ASSUME NEW k \in Nat, k \in T PROVE k + 1 \in T
  <2> SUFFICES ASSUME k + 1 <= n PROVE map[k + 1] \in S
    OBVIOUS
  <2>1. k + 1 \in 1..n /\ (k + 1) - 1 = k /\ k <= n
    OBVIOUS
  <2>2. map[k] \in S
    BY <1>11, <2>1
  <2>3. map[k + 1] = step(k + 1, map[k])
    BY <1>9, <2>1
  <2>. QED BY <1>1, <2>1, <2>2, <2>3
<1> HIDE DEF T
<1>12. n \in T
  BY <1>10, <1>11, SetInduction
<1>. QED BY <1>4, <1>12 DEF T, S
-----------------------------------------------------------------------------
(* Where a program begins and ends                                          *)
LEMMA MinIs ==
  ASSUME NEW T \in SUBSET Nat, T # {}
  PROVE  Min(T) \in T /\ \A x \in T : Min(T) <= x
<1>1. PICK n \in T : \A x \in T : ~(x < n)
  BY LeastElement
<1>2. \E x \in T : \A y \in T : x <= y
  BY <1>1
<1>. QED BY <1>2 DEF Min

(* The greatest of a bounded one                                            *)
LEMMA MaxIs ==
  ASSUME NEW T \in SUBSET Nat, T # {}, NEW b \in Nat, \A n \in T : n <= b
  PROVE  Max(T) \in T /\ \A x \in T : x <= Max(T)
<1>1. PICK n \in T : \A x \in T : x <= n
  BY GreatestElement
<1>2. \E x \in T : \A y \in T : x >= y
  BY <1>1
<1>3. Max(T) \in T /\ \A y \in T : Max(T) >= y
  BY <1>2 DEF Max
<1>. QED BY <1>3

(* A program is between the bounds that elf32.c:297-315 computes.           *)
LEMMA ProgBounds ==
  ASSUME NEW segs \in Seq(Segment), \A i \in DOMAIN segs : SegEnd(segs[i]) <= UserHigh * PageSize
  PROVE  /\ proglow(segs) \in Nat /\ \A i \in DOMAIN segs : proglow(segs) <= segs[i].vaddr
         /\ segs # <<>> => \E i \in DOMAIN segs : proglow(segs) = segs[i].vaddr
         /\ proghigh(segs) \in Nat /\ proghigh(segs) <= UserHigh * PageSize
         /\ \A i \in DOMAIN segs : SegEnd(segs[i]) <= proghigh(segs)
<1> DEFINE V == {segs[i].vaddr : i \in DOMAIN segs} \cup {WordSize - 1}
           E == {SegEnd(segs[i]) : i \in DOMAIN segs} \cup {0}
<1>1. \A i \in DOMAIN segs : /\ segs[i].vaddr \in Nat /\ segs[i].memsz \in Nat
                             /\ SegEnd(segs[i]) = segs[i].vaddr + segs[i].memsz
  <2>1. \A i \in DOMAIN segs : segs[i] \in Segment
    BY ElementOfSeq
  <2>. QED BY <2>1 DEF Segment, SegEnd
<1>2. UserHigh * PageSize \in Nat /\ WordSize \in Nat /\ WordSize > UserHigh * PageSize
  BY VmmapAssumption
<1>3. V \in SUBSET Nat /\ V # {}
  BY <1>1, <1>2
<1>4. proglow(segs) \in V /\ \A x \in V : proglow(segs) <= x
  <2>1. proglow(segs) = Min(V)
    BY DEF proglow
  <2> HIDE DEF V
  <2>. QED BY <1>3, <2>1, MinIs
<1>5. E \in SUBSET Nat /\ E # {} /\ \A x \in E : x <= UserHigh * PageSize
  BY <1>1, <1>2
<1>6. proghigh(segs) \in E /\ \A x \in E : x <= proghigh(segs)
  <2>1. proghigh(segs) = Max(E)
    BY DEF proghigh
  <2> HIDE DEF E
  <2>. QED BY <1>2, <1>5, <2>1, MaxIs
<1>7. ASSUME segs # <<>> PROVE \E i \in DOMAIN segs : proglow(segs) = segs[i].vaddr
  <2>1. PICK i \in DOMAIN segs : TRUE
    BY <1>7, EmptySeq
  <2>2. proglow(segs) <= segs[i].vaddr /\ segs[i].vaddr <= WordSize - 1
    BY <1>1, <1>2, <1>4
  <2>3. CASE proglow(segs) = WordSize - 1
    BY <1>1, <1>2, <2>2, <2>3
  <2>4. CASE proglow(segs) # WordSize - 1
    BY <1>4, <2>4
  <2>. QED BY <2>3, <2>4
<1>. QED BY <1>3, <1>4, <1>5, <1>6, <1>7

(* Address 0, rounded up to a page, wraps round to page 0: the interpreter  *)
(* that has no segments.                                                    *)
LEMMA ZeroAligned == ADDR_TO_PN(PAGE_ALIGN_UP(0)) = 0
<1>1. PageSize \in Nat \ {0} /\ WordSize \in Nat \ {0}
  BY VmmapAssumption
<1>2. (0 - 1) \div PageSize = -1
  BY <1>1, Z3
<1>3. ((0 - 1) \div PageSize) * PageSize + PageSize = 0
  BY <1>1, <1>2
<1>4. 0 % WordSize = 0 /\ 0 \div PageSize = 0
  BY <1>1, Z3
<1>. QED BY <1>3, <1>4 DEF PAGE_ALIGN_UP, ADDR_TO_PN

(* The pages that an interpreter takes, whatever its size, and where its    *)
(* segments come to lie                                                     *)
LEMMA InterpPages ==
  ASSUME NEW segs \in Seq(Segment), segs # <<>>,
         \A i \in DOMAIN segs : SegEnd(segs[i]) <= UserHigh * PageSize,
         NEW hp, hp = ADDR_TO_PN(PAGE_ALIGN_UP(proghigh(segs))),
         NEW lp, lp = ADDR_TO_PN(proglow(segs))
  PROVE  /\ hp \in Nat /\ lp \in Nat /\ lp <= hp /\ proghigh(segs) <= hp * PageSize
<1>1. /\ proglow(segs) \in Nat /\ \A i \in DOMAIN segs : proglow(segs) <= segs[i].vaddr
      /\ \E i \in DOMAIN segs : proglow(segs) = segs[i].vaddr
      /\ proghigh(segs) \in Nat /\ proghigh(segs) <= UserHigh * PageSize
      /\ \A i \in DOMAIN segs : SegEnd(segs[i]) <= proghigh(segs)
  BY ProgBounds
<1>2. PICK i \in DOMAIN segs : proglow(segs) = segs[i].vaddr
  BY <1>1
<1>3. segs[i].vaddr \in Nat /\ segs[i].memsz \in Nat /\ SegEnd(segs[i]) = segs[i].vaddr + segs[i].memsz
  <2>1. segs[i] \in Segment
    BY ElementOfSeq
  <2>. QED BY <2>1 DEF Segment, SegEnd
<1>4. PICK low \in Nat, high \in Nat : low = proglow(segs) /\ high = proghigh(segs) /\ low <= high
  BY <1>1, <1>2, <1>3
<1>5. lp \in Nat
  BY <1>4, PageOffset
<1>6. hp \in Nat /\ high <= hp * PageSize
  <2>1. CASE high = 0
    <3>1. hp = 0
      BY <1>4, <2>1, ZeroAligned
    <3>. QED BY <2>1, <3>1, VmmapAssumption
  <2>2. CASE high # 0
    <3>1. hp = ADDR_TO_PN(high - 1) + 1 /\ high <= hp * PageSize
      BY <1>1, <1>4, <2>2, AlignedUp
    <3>2. ADDR_TO_PN(high - 1) \in Nat
      <4>1. high - 1 \in Nat
        BY <2>2
      <4>. QED BY <4>1, PageOffset
    <3>. QED BY <3>1, <3>2
  <2>. QED BY <2>1, <2>2
<1>7. lp <= hp
  <2>1. low <= hp * PageSize
    BY <1>4, <1>6, VmmapAssumption
  <2>. QED BY <1>4, <1>6, <2>1, PageBelow
<1>. QED BY <1>4, <1>5, <1>6, <1>7

(* A segment of the interpreter, moved to the place found for the whole,    *)
(* lies in user memory (elf32.c:570-600).                                   *)
LEMMA RelocatedGood ==
  ASSUME NEW seg \in Segment, NEW lp \in Nat, NEW hp \in Nat, NEW base \in Nat,
         lp <= ADDR_TO_PN(seg.vaddr), SegEnd(seg) <= hp * PageSize,
         UserLow <= base, base + (hp - lp) <= UserHigh,
         NEW new, new = Relocated(seg, base - lp)
  PROVE  GoodSeg(new)
<1> DEFINE P == PageSize
<1>1. P \in Nat \ {0} /\ UserLow \in Nat /\ UserHigh \in Nat
  BY VmmapAssumption
<1>2. PICK v \in Nat, z \in Nat : v = seg.vaddr /\ z = seg.memsz /\ SegEnd(seg) = v + z
  BY DEF Segment, SegEnd
<1>3. PICK q \in Nat, r \in 0 .. (P - 1) : q = ADDR_TO_PN(v) /\ v = P * q + r
  BY PageOffset
<1>4. PICK d \in Int : d = base - lp
  OBVIOUS
<1>5. q + d \in Nat /\ base <= q + d
  BY <1>2, <1>3, <1>4
<1>6. v + d * P = P * (q + d) + r /\ P * (q + d) \in Nat /\ v + d * P \in Nat
  <2>1. P * (q + d) = P * q + P * d /\ d * P = P * d /\ P * q \in Int /\ P * d \in Int /\ P * (q + d) \in Nat
    BY ONLY <1>1, <1>5, q \in Nat, d \in Int
  <2>. QED BY ONLY <1>1, <1>3, <2>1, r \in 0 .. (P - 1)
<1>7. new = [seg EXCEPT !.vaddr = v + d * P]
  BY <1>2, <1>4 DEF Relocated
<1>8. new \in Segment /\ new.vaddr = v + d * P /\ new.memsz = z
  BY <1>2, <1>6, <1>7, ZenonT(30) DEF Segment
<1>9. ADDR_TO_PN(new.vaddr) = q + d
  <2>1. ADDR_TO_PN(P * (q + d) + r) = q + d
    BY <1>5, OffsetPage
  <2>. QED BY <1>6, <1>8, <2>1
<1>10. SegEnd(new) <= UserHigh * PageSize
  <2>1. SegEnd(new) = v + d * P + z
    BY <1>8 DEF SegEnd
  <2>2. hp + d <= UserHigh /\ hp + d \in Int
    BY <1>1, <1>4
  <2>3. P * (hp + d) <= P * UserHigh
    BY <1>1, <2>2, Scaled
  <2>4. /\ P * (hp + d) = P * hp + P * d /\ d * P = P * d /\ hp * P = P * hp /\ UserHigh * P = P * UserHigh
        /\ P * hp \in Int /\ P * d \in Int /\ P * UserHigh \in Int
    BY ONLY <1>1, hp \in Nat, d \in Int
  <2>5. v + z <= P * hp
    BY <1>2, <2>4
  <2>. QED BY ONLY <2>1, <2>3, <2>4, <2>5, v \in Nat, z \in Nat
<1>. QED BY <1>1, <1>5, <1>8, <1>9, <1>10 DEF GoodSeg

(* The interpreter keeps the new address space good, wherever it is put.    *)
LEMMA InterpGood ==
  ASSUME NEW other \in [Object -> Nat], NEW dir, NEW m, Good(m, other, dir),
         NEW segs \in Seq(Segment),
         \A i \in DOMAIN segs : SegEnd(segs[i]) <= UserHigh * PageSize,
         NEW fails, NEW new, new = LoadInterp(m, segs, fails)
  PROVE  Good(new, other, dir)
<1>1. PICK hp, lp : hp = ADDR_TO_PN(PAGE_ALIGN_UP(proghigh(segs))) /\ lp = ADDR_TO_PN(proglow(segs))
  OBVIOUS
<1>2. PICK base : base = vmmap_find_range(m.list, hp - lp)
  OBVIOUS
<1>3. CASE ~m.ok \/ segs = <<>>
  BY <1>3 DEF LoadInterp
<1>4. CASE ~(~m.ok \/ segs = <<>>) /\ (base = 0 \/ fails = "interp")
  <2>1. new = [m EXCEPT !.ok = FALSE]
    BY <1>1, <1>2, <1>4 DEF LoadInterp
  <2>. QED BY <2>1, SetOk
<1>5. CASE ~(~m.ok \/ segs = <<>>) /\ ~(base = 0 \/ fails = "interp")
  <2>1. new = map_progsegs(m, segs, base - lp, fails)
    BY <1>1, <1>2, <1>5 DEF LoadInterp
  <2>2. hp \in Nat /\ lp \in Nat /\ lp <= hp /\ proghigh(segs) <= hp * PageSize
    BY <1>1, <1>5, InterpPages
  <2>3. PICK n \in Nat : n = hp - lp
    BY <2>2
  <2>4. base \in Nat /\ FreeRun(m.list, base, n)
    <3>1. m.list \in AreaList /\ base = vmmap_find_range(m.list, n) /\ base # 0
      BY <1>2, <1>5, <2>3, GoodParts
    <3>. QED BY <3>1, FindRangeIs
  <2>5. UserLow <= base /\ base + (hp - lp) <= UserHigh
    BY <2>3, <2>4 DEF FreeRun
  <2>6. ASSUME NEW i \in DOMAIN segs PROVE GoodSeg(Relocated(segs[i], base - lp))
    <3>1. segs[i] \in Segment
      BY ElementOfSeq
    <3>2. PICK v \in Nat, e \in Nat : v = segs[i].vaddr /\ e = SegEnd(segs[i])
      BY <3>1 DEF Segment, SegEnd
    <3>3. proglow(segs) \in Nat /\ proglow(segs) <= v /\ proghigh(segs) \in Nat /\ e <= proghigh(segs)
      BY <3>2, ProgBounds
    <3>4. lp <= ADDR_TO_PN(v)
      BY <1>1, <3>3, PageMonotone
    <3>5. e <= hp * PageSize
      BY <2>2, <3>3, VmmapAssumption
    <3>. QED BY <2>2, <2>4, <2>5, <3>1, <3>2, <3>4, <3>5, RelocatedGood
  <2>7. PICK len \in Nat : len = Len(segs) /\ DOMAIN segs = 1..len
    BY LenProperties
  <2>. QED BY <2>1, <2>6, <2>7, ProgsegsGood
<1>. QED BY <1>3, <1>4, <1>5

(* So does the stack, for which the linker leaves room below the program    *)
(* (elf32.c:643-648).                                                       *)
LEMMA StackGood ==
  ASSUME NEW other \in [Object -> Nat], NEW dir, NEW m, Good(m, other, dir),
         NEW prog \in Program, NEW new, new = MapStack(m, prog.segs)
  PROVE  Good(new, other, dir)
<1>1. /\ prog.segs \in Seq(Segment) /\ prog.segs # <<>>
      /\ \A i \in DOMAIN prog.segs :
           /\ ADDR_TO_PN(prog.segs[i].vaddr) >= UserLow + StackPages
           /\ SegEnd(prog.segs[i]) <= UserHigh * PageSize
  BY ExecAssumption DEF SegEnd
<1>2. CASE ~m.ok
  BY <1>2 DEF MapStack
<1>3. CASE m.ok
  <2>1. PICK i \in DOMAIN prog.segs : proglow(prog.segs) = prog.segs[i].vaddr
    BY <1>1, ProgBounds
  <2>2. PICK v \in Nat : v = proglow(prog.segs)
    BY <1>1, ProgBounds
  <2>3. PICK p \in Nat : p = ADDR_TO_PN(v) /\ p >= UserLow + StackPages /\ p <= UserHigh
    <3>1. ADDR_TO_PN(v) \in Nat /\ ADDR_TO_PN(v) >= UserLow + StackPages
      BY <1>1, <2>1, <2>2, PageOffset
    <3>2. v <= UserHigh * PageSize
      <4>1. prog.segs[i] \in Segment /\ SegEnd(prog.segs[i]) <= UserHigh * PageSize
        BY <1>1, <2>1, ElementOfSeq
      <4>2. prog.segs[i].memsz \in Nat /\ SegEnd(prog.segs[i]) = v + prog.segs[i].memsz
        BY <2>1, <2>2, <4>1 DEF Segment, SegEnd
      <4>. QED BY <4>1, <4>2, VmmapAssumption
    <3>. QED BY <3>1, <3>2, PageBelow, VmmapAssumption
  <2>4. PICK lo \in Nat, n \in Nat \ {0} :
          lo = p - StackPages /\ n = StackPages /\ UserLow <= lo /\ lo + n <= UserHigh
    <3>1. UserLow \in Nat /\ UserHigh \in Nat /\ StackPages \in Nat \ {0}
      BY ExecAssumption, VmmapAssumption
    <3>2. p - StackPages \in Nat /\ UserLow <= p - StackPages /\ (p - StackPages) + StackPages <= UserHigh
      BY <2>3, <3>1
    <3>. QED BY <3>1, <3>2
  <2>5. new = vmmap_map(m, lo, n, FALSE, FALSE, 0)
    BY <1>3, <2>2, <2>3, <2>4 DEF MapStack
  <2>. QED BY <2>4, <2>5, MapGood
<1>. QED BY <1>2, <1>3

(* Hence what elf32_load has built when it ends, in success or failure, is  *)
(* a good address space, next to the old one (elf32.c:459-712).             *)
LEMMA LoadGood ==
  ASSUME NEW other \in [Object -> Nat], NEW dir, NEW empty, Good(empty, other, dir),
         empty = [Space EXCEPT !.list = <<>>],
         NEW prog \in Program, NEW fails, NEW new, new = elf32_load(prog, fails)
  PROVE  Good(new, other, dir)
<1>1. PICK program, both, all :
         /\ program = map_progsegs(empty, prog.segs, 0, fails)
         /\ both = LoadInterp(program, prog.interp, fails)
         /\ all = MapStack(both, prog.segs)
  OBVIOUS
<1>2. /\ prog.segs \in Seq(Segment)
      /\ \A i \in DOMAIN prog.segs :
           /\ ADDR_TO_PN(prog.segs[i].vaddr) >= UserLow + StackPages
           /\ SegEnd(prog.segs[i]) <= UserHigh * PageSize
      /\ prog.interp \in Seq(Segment)
      /\ \A i \in DOMAIN prog.interp : SegEnd(prog.interp[i]) <= UserHigh * PageSize
  BY ExecAssumption DEF SegEnd
<1>3. ASSUME NEW i \in DOMAIN prog.segs PROVE GoodSeg(Relocated(prog.segs[i], 0))
  <2>1. PICK seg \in Segment : seg = prog.segs[i]
    BY <1>2, ElementOfSeq
  <2>2. PICK v \in Nat : v = seg.vaddr
    BY DEF Segment
  <2>3. Relocated(seg, 0) = [seg EXCEPT !.vaddr = v]
    <3>1. v + 0 * PageSize = v
      BY VmmapAssumption
    <3>. QED BY <2>2, <3>1 DEF Relocated
  <2>4. Relocated(seg, 0) = seg
    BY <2>2, <2>3 DEF Segment
  <2>5. UserLow <= ADDR_TO_PN(seg.vaddr)
    <3>1. ADDR_TO_PN(v) \in Nat /\ ADDR_TO_PN(v) >= UserLow + StackPages
      BY <1>2, <2>1, <2>2, PageOffset
    <3>. QED BY <2>2, <3>1, ExecAssumption, VmmapAssumption
  <2>. QED BY <1>2, <2>1, <2>4, <2>5 DEF GoodSeg
<1>4. Good(program, other, dir)
  <2>1. PICK len \in Nat : len = Len(prog.segs) /\ DOMAIN prog.segs = 1..len
    BY <1>2, LenProperties
  <2>. QED BY <1>1, <1>3, <2>1, ProgsegsGood
<1>5. Good(both, other, dir)
  BY <1>1, <1>2, <1>4, InterpGood
<1>6. Good(all, other, dir)
  BY <1>1, <1>5, StackGood
<1>7. new = [all EXCEPT !.ok = @ /\ fails # "last"]
  BY <1>1 DEF elf32_load
<1>8. PICK b \in BOOLEAN : new = [all EXCEPT !.ok = b]
  BY <1>7
<1>. QED BY <1>6, <1>8, SetOk
-----------------------------------------------------------------------------
(* vmmap_destroy, area by area: what is left are the areas not yet removed, *)
(* and in the end there is none.                                            *)
LeftFrom(list, all, k) ==
  \A j \in DOMAIN list : \E i \in DOMAIN all : i > k /\ list[j] = all[i]

(* Each area that is removed leaves those behind it.                        *)
LEMMA DestroyStep ==
  ASSUME NEW all \in AreaList, NEW k \in DOMAIN all,
         NEW list \in AreaList, LeftFrom(list, all, k - 1),
         NEW new, new = AreasWithout(list, all[k].start, all[k].end)
  PROVE  LeftFrom(new, all, k)
<1> DEFINE n == Len(all)
<1>1. /\ n \in Nat /\ DOMAIN all = 1..n /\ Apart(all) /\ \A i \in 1..n : all[i] \in Area
      /\ \A j \in DOMAIN list : list[j] \in Area
  BY ListFacts DEF AreaList
<1> HIDE DEF n
<1>2. PICK lo \in Nat, hi \in Nat : lo = all[k].start /\ hi = all[k].end /\ lo < hi
  BY <1>1, AreaFacts
<1>3. ASSUME NEW j \in DOMAIN list
      PROVE  /\ ~Splits(list[j], lo, hi)
             /\ ~Goes(list[j], lo, hi) => /\ Remaining(list[j], lo, hi) = list[j]
                                          /\ \E i \in 1..n : i > k /\ list[j] = all[i]
  <2>1. PICK i \in 1..n : i >= k /\ list[j] = all[i]
    <3>1. PICK i \in 1..n : i > k - 1 /\ list[j] = all[i]
      BY <1>1 DEF LeftFrom
    <3>. QED BY <1>1, <3>1
  <2>2. PICK a \in Area : a = list[j]
    BY <1>1
  <2>3. CASE i = k
    <3>1. a.start = lo /\ a.end = hi
      BY <1>2, <2>1, <2>2, <2>3
    <3>. QED BY <2>2, <3>1 DEF Splits, Goes
  <2>4. CASE i # k
    <3>1. k < i
      BY <1>1, <2>1, <2>4
    <3>2. hi <= a.start
      BY <1>1, <1>2, <2>1, <2>2, <3>1 DEF Apart
    <3>3. ~Splits(a, lo, hi) /\ ~LosesEnd(a, lo, hi) /\ ~LosesHead(a, lo, hi)
      BY <1>2, <3>2, AreaFacts DEF Splits, LosesEnd, LosesHead
    <3>4. Remaining(a, lo, hi) = a
      BY <3>3 DEF Remaining
    <3>. QED BY <2>1, <2>2, <3>1, <3>3, <3>4
  <2>. QED BY <2>3, <2>4
<1>4. ASSUME NEW j \in DOMAIN new PROVE \E i \in 1..n : i > k /\ new[j] = all[i]
  <2>1. \/ \E i \in Kept(list, lo, hi) : new[j] = Remaining(list[i], lo, hi)
        \/ \E i \in SplitAt(list, lo, hi) : new[j] = SecondHalf(list[i], lo, hi)
    <3>1. new = AreasWithout(list, lo, hi)
      BY <1>2
    <3>2. lo < hi
      BY <1>2
    <3>3. /\ \A x \in DOMAIN new :
              \/ \E i \in Kept(list, lo, hi) : new[x] = Remaining(list[i], lo, hi)
              \/ \E i \in SplitAt(list, lo, hi) : new[x] = SecondHalf(list[i], lo, hi)
      BY ONLY <3>1, <3>2, list \in AreaList, lo \in Nat, hi \in Nat, RemoveList
    <3>. QED BY <3>3
  <2>2. SplitAt(list, lo, hi) = {}
    BY <1>3 DEF SplitAt
  <2>3. PICK i \in Kept(list, lo, hi) : new[j] = Remaining(list[i], lo, hi)
    BY <2>1, <2>2
  <2>. QED BY <1>3, <2>3 DEF Kept
<1>. QED BY <1>1, <1>4 DEF LeftFrom

(* vmmap_destroy gives back one reference for every area, so that the other *)
(* list alone is counted (vmmap.c:142-158).                                 *)
LEMMA DestroyGood ==
  ASSUME NEW other \in [Object -> Nat], NEW dir, NEW m, Good(m, other, dir),
         NEW new, new = vmmap_destroy(m)
  PROVE  /\ Good(new, other, dir)
         /\ new.refs \in [Object -> Nat] /\ \A o \in Object : new.refs[o] = other[o]
<1> DEFINE S == {x \in SpaceT : Good(x, other, dir)}
           all == m.list
           n == Len(m.list)
           step(i, x) == vmmap_remove(x, m.list[i].start, m.list[i].end - m.list[i].start)
           F == [i \in 1..n |-> [x \in S |-> step(i, x)]]
           left[i \in 0 .. Len(m.list)] ==
             IF i = 0 THEN m
             ELSE vmmap_remove(left[i - 1], m.list[i].start, m.list[i].end - m.list[i].start)
<1>1. all \in AreaList /\ n \in Nat /\ DOMAIN all = 1..n /\ \A i \in 1..n : all[i] \in Area
  BY GoodParts, ListFacts DEF AreaList
<1> HIDE DEF all, n
<1>2. ASSUME NEW i \in 1..n, NEW x, Good(x, other, dir)
      PROVE  /\ Good(step(i, x), other, dir)
             /\ step(i, x).list = AreasWithout(x.list, all[i].start, all[i].end)
  <2>1. PICK lo \in Nat, len \in Nat \ {0} :
          /\ lo = m.list[i].start /\ len = m.list[i].end - m.list[i].start
          /\ all[i].start = lo /\ all[i].end = lo + len
    <3>1. PICK a \in Area : a = m.list[i]
      BY <1>1 DEF all
    <3>2. PICK s \in Nat, e \in Nat : s = a.start /\ e = a.end /\ s < e
      BY AreaFacts
    <3>3. e - s \in Nat \ {0} /\ s + (e - s) = e
      BY <3>2
    <3>. QED BY <3>1, <3>2, <3>3 DEF all
  <2>2. PICK y : y = step(i, x)
    OBVIOUS
  <2>3. y = vmmap_remove(x, lo, len)
    BY <2>1, <2>2
  <2>4. Good(y, other, dir)
    BY <1>2, <2>3, RemoveGood
  <2>5. y.list = AreasWithout(x.list, lo, lo + len)
    BY <1>2, <2>3, RemoveGood
  <2>. QED BY <2>1, <2>2, <2>4, <2>5
<1>3. m \in S /\ \A x \in S : Good(x, other, dir)
  BY DEF Good
<1>4. F \in [1..n -> [S -> S]]
  <2>1. \A i \in 1..n : \A x \in S : step(i, x) \in S
    BY <1>2 DEF Good
  <2> HIDE DEF S, step
  <2>. QED BY <2>1
<1>5. new = left[Len(m.list)]
  BY DEF vmmap_destroy
<1>6. PICK g \in [0..n -> S] : g[0] = m /\ \A i \in 1..n : g[i] = F[i][g[i - 1]]
  <2> HIDE DEF F, S
  <2>1. PICK I \in [1..n -> [S -> S]] : I = F
    BY <1>4
  <2>2. \E g \in [0..n -> S] : g[0] = m /\ \A i \in 1..n : g[i] = I[i][g[i - 1]]
    BY ONLY <1>1, <1>3, <2>1, Iteration
  <2>. QED BY <2>1, <2>2
<1>7. \A i \in 1..n : g[i] = step(i, g[i - 1])
  <2>1. ASSUME NEW i \in 1..n PROVE g[i] = step(i, g[i - 1])
    <3>1. i - 1 \in 0..n
      BY <1>1
    <3>2. g[i - 1] \in S
      BY <3>1
    <3> HIDE DEF S, step
    <3>. QED BY <1>6, <3>2
  <2>. QED BY <2>1
<1> HIDE DEF F, S
<1>8. g = [i \in 0 .. Len(m.list) |->
             IF i = 0 THEN m
             ELSE vmmap_remove(g[i - 1], m.list[i].start, m.list[i].end - m.list[i].start)]
  <2>1. \A i \in 0..n : i # 0 => i \in 1..n
    BY <1>1
  <2>. QED BY <1>6, <1>7, <2>1 DEF n
<1>9. left = [i \in 0 .. Len(m.list) |->
                IF i = 0 THEN m
                ELSE vmmap_remove(left[i - 1], m.list[i].start, m.list[i].end - m.list[i].start)]
  BY <1>8
<1> HIDE DEF left
<1>10. left[0] = m /\ \A i \in 1..n : left[i] = step(i, left[i - 1])
  <2>1. \A i \in 1..n : i \in 0..n /\ i # 0
    BY <1>1
  <2>2. 0 \in 0..n
    BY <1>1
  <2>. QED BY <1>9, <2>1, <2>2 DEF n
<1> HIDE DEF step
<1> DEFINE P(k) == /\ Good(left[k], other, dir)
                   /\ LeftFrom(left[k].list, all, k)
           T == {k \in Nat : k <= n => P(k)}
<1>11. 0 \in T
  <2>1. \A i \in 1..n : i > 0
    BY <1>1
  <2>. QED BY <1>1, <1>10, <2>1 DEF all, LeftFrom
<1>12. ASSUME NEW k \in Nat, k \in T PROVE k + 1 \in T
  <2> SUFFICES ASSUME k + 1 <= n PROVE P(k + 1)
    OBVIOUS
  <2>1. k + 1 \in 1..n /\ (k + 1) - 1 = k /\ k <= n
    BY <1>1
  <2>2. PICK x, y : x = left[k] /\ y = left[k + 1]
    OBVIOUS
  <2>3. P(k)
    BY <1>12, <2>1
  <2>4. y = step(k + 1, x)
    BY <1>10, <2>1, <2>2
  <2>5. Good(x, other, dir) /\ x.list \in AreaList
    BY <2>2, <2>3, GoodParts
  <2>6. Good(y, other, dir) /\ y.list = AreasWithout(x.list, all[k + 1].start, all[k + 1].end)
    BY <1>2, <2>1, <2>4, <2>5
  <2>7. LeftFrom(y.list, all, k + 1)
    <3>1. PICK l, list, z : l \in DOMAIN all /\ list \in AreaList /\ l = k + 1 /\ list = x.list /\ z = y.list
      BY <1>1, <2>1, <2>5
    <3>2. LeftFrom(list, all, l - 1) /\ z = AreasWithout(list, all[l].start, all[l].end)
      BY <2>1, <2>2, <2>3, <2>6, <3>1
    <3>. QED BY <1>1, <3>1, <3>2, DestroyStep
  <2>. QED BY <2>2, <2>6, <2>7
<1> HIDE DEF T
<1>13. n \in T
  BY <1>1, <1>11, <1>12, SetInduction
<1>14. P(n)
  BY <1>1, <1>13 DEF T
<1>15. new = left[n]
  BY <1>5 DEF n
<1>16. Good(new, other, dir) /\ DOMAIN new.list = {}
  <2>1. \A i \in 1..n : ~(i > n)
    BY <1>1
  <2>. QED BY <1>1, <1>14, <1>15, <2>1 DEF LeftFrom
<1>17. ASSUME NEW o \in Object PROVE new.refs[o] = other[o]
  <2>1. Over(new.list, o) = {}
    BY <1>16 DEF Over
  <2>2. Cardinality(Over(new.list, o)) = 0
    BY <2>1, FS_EmptySet
  <2>. QED BY <1>16, <2>2 DEF Good
<1>. QED BY <1>16, <1>17, GoodParts
-----------------------------------------------------------------------------
(* A new, empty address space next to that of the process                   *)
LEMMA EmptyGood ==
  ASSUME SpaceInv(vmm_list, refs, pagedir), NEW empty, empty = [Space EXCEPT !.list = <<>>],
         NEW other, other = [o \in Object |-> Cardinality(Over(vmm_list, o))]
  PROVE  Good(empty, other, pagedir) /\ other \in [Object -> Nat]
<1>1. empty = [list |-> <<>>, refs |-> refs, dir |-> pagedir, ok |-> TRUE, null |-> FALSE]
  BY DEF Space
<1>2. <<>> \in AreaList
  BY DEF AreaList, Apart
<1>3. empty.list = <<>> /\ empty.refs = refs /\ empty.dir = pagedir /\ empty \in SpaceT
  <2>1. PICK l \in AreaList, r \in [Object -> Nat], d \in PageDirT : l = <<>> /\ r = refs /\ d = pagedir
    BY <1>2 DEF SpaceInv
  <2>2. empty = [list |-> l, refs |-> r, dir |-> d, ok |-> TRUE, null |-> FALSE]
    BY <1>1, <2>1
  <2>3. empty \in SpaceT /\ empty.list = l /\ empty.refs = r /\ empty.dir = d
    BY ONLY <2>2, l \in AreaList, r \in [Object -> Nat], d \in PageDirT DEF SpaceT
  <2>. QED BY <2>1, <2>3
<1>4. other \in [Object -> Nat]
  BY CountNat DEF SpaceInv
<1>5. ASSUME NEW o \in Object PROVE refs[o] = Cardinality(Over(<<>>, o)) + other[o]
  <2>1. Over(<<>>, o) = {}
    BY DEF Over
  <2>2. Cardinality(Over(<<>>, o)) = 0
    BY <2>1, FS_EmptySet
  <2>3. refs[o] = other[o] /\ other[o] \in Nat
    BY <1>4 DEF SpaceInv
  <2>. QED BY <2>2, <2>3
<1>6. Loses(pagedir, pagedir)
  BY LosesNothing DEF SpaceInv
<1>. QED BY <1>3, <1>4, <1>5, <1>6 DEF Good

(* The old areas take the place of the new ones to be destroyed, with the   *)
(* page table cleared.                                                      *)
LEMMA SwapGood ==
  ASSUME NEW list \in AreaList, NEW dir, NEW m,
         NEW mine, mine = [o \in Object |-> Cardinality(Over(list, o))], Good(m, mine, dir),
         NEW new, new = [m EXCEPT !.list = list, !.dir = pt_unmap_range(@, UserLow, UserHigh)],
         NEW other, other = [o \in Object |-> Cardinality(Over(m.list, o))]
  PROVE  /\ Good(new, other, new.dir)
         /\ new.dir = pt_unmap_range(m.dir, UserLow, UserHigh)
<1> DEFINE pd == pt_unmap_range(m.dir, UserLow, UserHigh)
<1>1. /\ m.list \in AreaList /\ m.refs \in [Object -> Nat] /\ m.dir \in PageDirT
      /\ m = [list |-> m.list, refs |-> m.refs, dir |-> m.dir, ok |-> m.ok, null |-> m.null]
      /\ m.ok \in BOOLEAN /\ m.null \in BOOLEAN
  BY GoodParts
<1>2. Loses(pd, m.dir) /\ pd \in PageDirT
  BY <1>1, UnmapRangeLoses DEF Loses
<1>3. new = [list |-> list, refs |-> m.refs, dir |-> pd, ok |-> m.ok, null |-> m.null]
  BY <1>1
<1>4. other \in [Object -> Nat]
  BY <1>1, CountNat
<1> HIDE DEF pd
<1>5. new \in SpaceT /\ new.list = list /\ new.refs = m.refs /\ new.dir = pd
  <2>1. PICK r \in [Object -> Nat], k \in BOOLEAN, z \in BOOLEAN :
          r = m.refs /\ k = m.ok /\ z = m.null
    BY <1>1
  <2>2. new = [list |-> list, refs |-> r, dir |-> pd, ok |-> k, null |-> z]
    BY <1>3, <2>1
  <2>3. pd \in PageDirT
    BY <1>2
  <2>4. new \in SpaceT /\ new.list = list /\ new.refs = r /\ new.dir = pd
    BY ONLY <2>2, <2>3, list \in AreaList, r \in [Object -> Nat], k \in BOOLEAN, z \in BOOLEAN DEF SpaceT
  <2>. QED BY <2>1, <2>4
<1>6. ASSUME NEW o \in Object PROVE m.refs[o] = Cardinality(Over(list, o)) + other[o]
  <2>1. m.refs[o] = Cardinality(Over(m.list, o)) + Cardinality(Over(list, o))
    BY DEF Good
  <2>2. Cardinality(Over(m.list, o)) \in Nat /\ Cardinality(Over(list, o)) \in Nat
    BY <1>1, CountNat
  <2>. QED BY <2>1, <2>2
<1>7. Loses(pd, pd)
  BY <1>2, LosesNothing
<1>. QED BY <1>4, <1>5, <1>6, <1>7 DEF Good, pd

(* With all user pages unmapped, no entry is left (elf32.c:685).            *)
LEMMA AllUnmapped ==
  ASSUME NEW pd \in PageDirT, NEW pn \in UserPage
  PROVE  Pte(pt_unmap_range(pd, UserLow, UserHigh), pn) = NoEntry
<1>1. UserLow \in Nat /\ UserHigh \in Nat /\ UserLow < UserHigh
  BY VmmapAssumption
<1>2. pn \in UserLow .. (UserHigh - 1)
  BY DEF UserPage
<1>. QED BY <1>1, <1>2, UnmapRangeClears

(* execve (exec.c, elf32.c:459-712): the new areas with a clear table, or   *)
(* the old ones, whose table has lost entries, and every reference of the   *)
(* others is given back.                                                    *)
LEMMA ExecveSound ==
  ASSUME VmmapInv, NEW prog \in Program, NEW fails, do_execve(prog, fails)
  PROVE  VmmapInv'
<1>1. PICK m : m = elf32_load(prog, fails)
  OBVIOUS
<1>2. PICK empty, other : /\ empty = [Space EXCEPT !.list = <<>>]
                          /\ other = [o \in Object |-> Cardinality(Over(vmm_list, o))]
  OBVIOUS
<1>3. SpaceInv(vmm_list, refs, pagedir) /\ vmm_list \in AreaList /\ pagedir \in PageDirT
      /\ Follows(vmm_list, pagedir)
  BY DEF VmmapInv, SpaceInv
<1>4. Good(empty, other, pagedir) /\ other \in [Object -> Nat]
  BY <1>2, <1>3, EmptyGood
<1>5. Good(m, other, pagedir)
  BY <1>1, <1>2, <1>4, LoadGood
<1>6. m.list \in AreaList /\ m.refs \in [Object -> Nat] /\ m.dir \in PageDirT
  BY <1>5, GoodParts
<1>7. CASE m.null /\ Panic
  BY <1>7 DEF Panic, VmmapInv, BreaksInv, breaks, space
<1>8. CASE /\ m.ok
           /\ vmm_list' = m.list
           /\ \E old \in {vmmap_destroy([m EXCEPT !.list = vmm_list,
                                                  !.dir = pt_unmap_range(@, UserLow, UserHigh)])} :
                refs' = old.refs /\ pagedir' = old.dir
           /\ p_brk' = proghigh(prog.segs) /\ p_start_brk' = proghigh(prog.segs)
           /\ UNCHANGED panic
  <2>1. PICK start, old, count :
          /\ start = [m EXCEPT !.list = vmm_list, !.dir = pt_unmap_range(@, UserLow, UserHigh)]
          /\ old = vmmap_destroy(start)
          /\ count = [o \in Object |-> Cardinality(Over(m.list, o))]
    OBVIOUS
  <2>2. vmm_list' = m.list /\ refs' = old.refs /\ pagedir' = old.dir
    BY <1>8, <2>1
  <2>3. /\ Good(start, count, start.dir) /\ count \in [Object -> Nat]
        /\ start.dir = pt_unmap_range(m.dir, UserLow, UserHigh)
    <3>1. PICK l \in AreaList : l = vmm_list
      BY <1>3
    <3>2. PICK d : d = pagedir
      OBVIOUS
    <3>3. /\ start = [m EXCEPT !.list = l, !.dir = pt_unmap_range(@, UserLow, UserHigh)]
          /\ other = [o \in Object |-> Cardinality(Over(l, o))] /\ Good(m, other, d)
      BY <1>2, <1>5, <2>1, <3>1, <3>2
    <3>4. Good(start, count, start.dir)
      BY <2>1, <3>3, SwapGood
    <3>5. count \in [Object -> Nat]
      BY <1>6, <2>1, CountNat
    <3>6. start.dir = pt_unmap_range(m.dir, UserLow, UserHigh)
      BY <2>1, <3>3, SwapGood
    <3>. QED BY <3>4, <3>5, <3>6
  <2>4. /\ Good(old, count, start.dir) /\ old.refs \in [Object -> Nat]
        /\ \A o \in Object : old.refs[o] = count[o]
    BY <2>1, <2>3, DestroyGood
  <2>5. old.dir \in PageDirT /\ Follows(m.list, old.dir)
    <3>1. Loses(old.dir, start.dir)
      BY <2>4 DEF Good
    <3>2. \A pn \in UserPage : Pte(start.dir, pn) = NoEntry
      BY <1>6, <2>3, AllUnmapped
    <3>. QED BY <3>1, <3>2 DEF Loses, Follows
  <2>6. SpaceInv(vmm_list', refs', pagedir')
    BY <1>6, <2>1, <2>2, <2>4, <2>5 DEF SpaceInv
  <2>7. BreaksInv'
    <3>1. /\ prog.segs \in Seq(Segment)
          /\ \A i \in DOMAIN prog.segs : SegEnd(prog.segs[i]) <= UserHigh * PageSize
      BY ExecAssumption DEF SegEnd
    <3>2. PICK h \in Nat : h = proghigh(prog.segs) /\ h <= UserHigh * PageSize
      BY <3>1, ProgBounds
    <3>3. UserHigh * PageSize \in Nat /\ WordSize \in Nat /\ WordSize > UserHigh * PageSize
      BY VmmapAssumption
    <3>4. h \in Addr /\ h \in h .. (UserHigh * PageSize)
      BY <3>2, <3>3 DEF Addr
    <3>. QED BY <1>8, <3>2, <3>4 DEF BreaksInv
  <2>. QED BY <1>8, <2>6, <2>7 DEF VmmapInv
<1>9. CASE /\ ~m.ok /\ ~m.null
           /\ \E new \in {vmmap_destroy(m)} : refs' = new.refs /\ pagedir' = new.dir
           /\ UNCHANGED <<vmm_list, breaks, panic>>
  <2>1. PICK new : new = vmmap_destroy(m)
    OBVIOUS
  <2>2. refs' = new.refs /\ pagedir' = new.dir /\ vmm_list' = vmm_list /\ UNCHANGED <<breaks, panic>>
    BY <1>9, <2>1
  <2>3. /\ Good(new, other, pagedir) /\ new.refs \in [Object -> Nat]
        /\ \A o \in Object : new.refs[o] = other[o]
    BY <1>4, <1>5, <2>1, DestroyGood
  <2>4. new.dir \in PageDirT /\ Follows(vmm_list, new.dir)
    BY <1>3, <2>3, LosesFollows DEF Good, Loses
  <2>5. SpaceInv(vmm_list', refs', pagedir')
    BY <1>2, <1>3, <2>2, <2>3, <2>4 DEF SpaceInv
  <2>. QED BY <2>2, <2>5 DEF VmmapInv, BreaksInv, breaks
<1>. QED BY <1>1, <1>7, <1>8, <1>9 DEF do_execve
-----------------------------------------------------------------------------
(* A process begins with nothing mapped.                                    *)
LEMMA InitSound == VmmapInit => VmmapInv
<1> SUFFICES ASSUME VmmapInit PROVE VmmapInv
  OBVIOUS
<1>1. /\ vmm_list = <<>> /\ refs = [o \in Object |-> 0]
      /\ pagedir = [t \in Tbl(UserLow) .. Tbl(UserHigh - 1) |-> NoTable]
      /\ p_brk = 0 /\ p_start_brk = 0 /\ panic = FALSE
  BY DEF VmmapInit
<1>2. vmm_list \in AreaList /\ refs \in [Object -> Nat] /\ pagedir \in PageDirT
  BY <1>1 DEF AreaList, Apart, PageDirT
<1>3. ASSUME NEW o \in Object PROVE refs[o] = Cardinality(Over(vmm_list, o))
  <2>1. Over(vmm_list, o) = {}
    BY <1>1 DEF Over
  <2>. QED BY <1>1, <2>1, FS_EmptySet
<1>4. Follows(vmm_list, pagedir)
  <2>1. \A pn \in UserPage : Pte(pagedir, pn) = NoEntry
    BY <1>1, TableOf DEF Pte
  <2>. QED BY <2>1 DEF Follows
<1>5. BreaksInv
  <2>1. UserHigh * PageSize \in Nat /\ WordSize \in Nat /\ WordSize > UserHigh * PageSize
    BY VmmapAssumption
  <2>. QED BY <1>1, <2>1 DEF BreaksInv, Addr
<1>. QED BY <1>1, <1>2, <1>3, <1>4, <1>5 DEF VmmapInv, SpaceInv

(* Every step keeps the invariant, a program loaded at any time included.   *)
LEMMA NextSound ==
  ASSUME VmmapInv, [ExecNext]_vmmapVars
  PROVE  VmmapInv'
<1>1. CASE \E prog \in Program, fails \in Failure : do_execve(prog, fails)
  BY <1>1, ExecveSound
<1>2. CASE VmmapNext
  BY <1>2, VmmapNextSound
<1>3. CASE UNCHANGED vmmapVars
  BY <1>3 DEF VmmapInv, BreaksInv, vmmapVars, space, breaks
<1>. QED BY <1>1, <1>2, <1>3 DEF ExecNext

(* The areas of a process are in order, apart, non-empty and in user        *)
(* memory; every object counts its areas; every entry of the page table     *)
(* shows what the area over its page says; the break is where an area can   *)
(* end: whatever programs it loads, maps, unmaps, touches and frees, with   *)
(* loads that fail in any place (vmmap.c, mmap.c, brk.c, elf32.c).          *)
THEOREM VmmapInductive == ExecSpec => []VmmapInv
BY InitSound, NextSound, PTL DEF ExecSpec

(* The invariant says what the run checks of the areas,                     *)
LEMMA InvAreas == ASSUME VmmapInv PROVE AreasSound
<1>1. vmm_list \in AreaList /\ refs \in [Object -> Nat] /\ pagedir \in PageDirT
  BY DEF VmmapInv, SpaceInv
<1>2. /\ vmm_list \in Seq(Area) /\ Apart(vmm_list) /\ DOMAIN vmm_list = 1..Len(vmm_list)
      /\ Len(vmm_list) \in Nat /\ \A i \in DOMAIN vmm_list : vmm_list[i] \in Area
  BY <1>1, ListFacts DEF AreaList
<1>3. VmmapTypeOK
  <2>1. vmm_list \in Seq(AreaT)
    <3>1. Area \subseteq AreaT
      BY DEF Area
    <3>. QED BY <1>2, <3>1, SeqMonotonic
  <2>. QED BY <1>1, <2>1 DEF VmmapTypeOK, VmmapInv, BreaksInv, AreaT, PageDirT
<1>4. AreasOrdered
  <2>1. ASSUME NEW i \in DOMAIN vmm_list
        PROVE  /\ UserLow <= vmm_list[i].start /\ vmm_list[i].end <= UserHigh
               /\ vmm_list[i].start < vmm_list[i].end
               /\ i > 1 => vmm_list[i - 1].end <= vmm_list[i].start
    <3>1. i > 1 => i - 1 \in DOMAIN vmm_list /\ i - 1 < i
      BY <1>2
    <3>. QED BY <1>2, <3>1, AreaFacts DEF Apart
  <2>2. \A o \in Object : refs[o] = Many(vmm_list, LAMBDA a : a.obj = o)
    BY DEF VmmapInv, SpaceInv, Over, Many
  <2>. QED BY <2>1, <2>2 DEF AreasOrdered
<1>. QED BY <1>1, <1>3, <1>4, FindsHighest DEF AreasSound

(* and of the page table.                                                   *)
LEMMA InvTable == ASSUME VmmapInv PROVE TableFollowsAreas
BY FollowsLookup DEF VmmapInv, SpaceInv, TableFollowsAreas

(* The list that vmmap_find_range, vmmap_insert and vmmap_remove take for   *)
(* granted is kept by all of them, splits and failed loads included, and    *)
(* the highest place for a mapping is found (vmmap.c:197, 205-241, 464,     *)
(* 479).                                                                    *)
THEOREM AreasStaySound == ExecSpec => []AreasSound
BY VmmapInductive, InvAreas, PTL

(* Nothing of what was mapped at a page can be seen there after it has been *)
(* unmapped, replaced, or given back with brk (pagetable.c:173-206,         *)
(* vmmap.c:506).                                                            *)
THEOREM TableFollows == ExecSpec => []TableFollowsAreas
BY VmmapInductive, InvTable, PTL

(* After a page of the file has been taken away from the tables, only pages *)
(* of areas that are not on its list still show it.                         *)
LEMMA PframeReaches ==
  ASSUME VmmapInv, NEW pn \in FilePage, pframe_remove_from_pts(pn),
         NEW p \in UserPage, Pte(pagedir', p) = [obj |-> File, pn |-> pn]
  PROVE  ~vmmap_lookup(vmm_list, p).olink
<1>1. vmm_list \in AreaList /\ pagedir \in PageDirT /\ Follows(vmm_list, pagedir)
  BY DEF VmmapInv, SpaceInv
<1>2. Loses(pagedir', pagedir)
  BY <1>1, PframeRemoves
<1>3. Pte(pagedir', p) # NoEntry
  <2>1. pn \in Nat /\ File \in Object /\ NoEntry \notin [obj : Object, pn : Nat]
    BY VmmapAssumption
  <2>2. [obj |-> File, pn |-> pn] \in [obj : Object, pn : Nat]
    BY <2>1
  <2>. QED BY <2>1, <2>2
<1>4. Pte(pagedir, p) = [obj |-> File, pn |-> pn]
  BY <1>2, <1>3 DEF Loses
<1>5. PICK i \in DOMAIN vmm_list : /\ Covers(vmm_list[i], p)
         /\ Pte(pagedir, p) = [obj |-> vmm_list[i].obj, pn |-> PageShown(vmm_list[i], p)]
  BY <1>1, <1>3, <1>4 DEF Follows, ShownBy
<1>6. vmm_list[i].obj = File /\ PageShown(vmm_list[i], p) = pn
  BY <1>4, <1>5
<1>7. vmmap_lookup(vmm_list, p) = vmm_list[i]
  BY <1>1, <1>5, LookupIs, UserPages
<1>. QED BY <1>1, <1>3, <1>5, <1>6, <1>7, PframeRemoves

(* A page of the file that is freed or cleaned is taken out of every entry  *)
(* but those of the second halves of split areas (pframe.c:643,             *)
(* vmmap.c:477).                                                            *)
THEOREM PframeReachesAll == ExecSpec => RemovedButForSplits
<1> DEFINE Reaches == \A pn \in FilePage : pframe_remove_from_pts(pn) =>
             \A p \in UserPage : Pte(pagedir', p) = [obj |-> File, pn |-> pn] =>
               ~vmmap_lookup(vmm_list, p).olink
<1>1. VmmapInv /\ [ExecNext]_vmmapVars => [Reaches]_vmmapVars
  BY PframeReaches
<1>2. RemovedButForSplits <=> [][Reaches]_vmmapVars
  BY DEF RemovedButForSplits
<1> HIDE DEF Reaches
<1>. QED BY <1>1, <1>2, VmmapInductive, PTL DEF ExecSpec
=============================================================================
