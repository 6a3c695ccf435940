---------------------------- MODULE KmemProofs ----------------------------
(***************************************************************************)
(* Proofs about Slab and PageAlloc, for any number of pages and of orders, *)
(* any caches and any sizes of their objects.                              *)
(*                                                                         *)
(* First the page allocator alone: blocks as sets of pages, the buddies,   *)
(* the bits of pg_map; what page_split, page_alloc_order, page_free_order  *)
(* and pagegroup_create do to a sound group (Good).  Then the slabs:       *)
(* memory is sound (MemGood) when the free blocks, the slabs and the pages *)
(* of the callers make up the group and every slab counts its objects;     *)
(* what every call does to it (Outcome).  Last the theorems.               *)
(***************************************************************************)
EXTENDS Slab, Integers, SequenceTheorems, FiniteSetTheorems, WellFoundedInduction, TLAPS

USE PageAllocAssumption

(* Induction.  The library's rules take an operator, the provers a set.     *)
LEMMA LeastElement ==
  ASSUME NEW T \in SUBSET Nat, T # {}
  PROVE  \E n \in T : \A m \in T : n <= m
<1>1. IsWellFoundedOn(OpToRel(<, Nat), Nat)
  BY NatLessThanWellFounded
<1>2. PICK n \in T : \A m \in T : ~(<<m, n>> \in OpToRel(<, Nat))
  BY <1>1, WFMin
<1>3. \A m \in T : <<m, n>> \in OpToRel(<, Nat) <=> m < n
  BY DEF OpToRel
<1>4. \A m \in T : m \in Nat /\ n \in Nat
  OBVIOUS
<1>5. \A m \in T : ~(m < n)
  BY <1>2, <1>3
<1>. QED BY <1>4, <1>5

(* A set of naturals with 0 and the successor of each member has them all.  *)
LEMMA SetInduction ==
  ASSUME NEW T, 0 \in T, \A n \in Nat : n \in T => n + 1 \in T
  PROVE  \A n \in Nat : n \in T
<1> SUFFICES ASSUME Nat \ T # {} PROVE FALSE
  OBVIOUS
<1>1. PICK n \in Nat \ T : \A m \in Nat \ T : n <= m
  BY LeastElement
<1>2. n - 1 \in Nat /\ n - 1 < n /\ (n - 1) + 1 = n
  BY <1>1
<1>3. n - 1 \in T
  BY <1>1, <1>2
<1>. QED BY <1>1, <1>2, <1>3
-----------------------------------------------------------------------------
(* 1 << order                                                               *)
IsPower(f, n) == f = [k \in 0 .. n |-> IF k = 0 THEN 1 ELSE 2 * f[k - 1]]

(* The recursive definition of npages has a solution.                       *)
LEMMA PowerExists ==
  ASSUME NEW n \in Nat
  PROVE  \E f : IsPower(f, n)
<1> DEFINE T == {k \in Nat : \E f : IsPower(f, k)}
<1>1. 0 \in T
  <2> DEFINE f == [i \in 0 .. 0 |-> 1]
  <2>1. f = [i \in 0 .. 0 |-> IF i = 0 THEN 1 ELSE 2 * f[i - 1]]
    OBVIOUS
  <2>. QED BY <2>1 DEF IsPower
<1>2. ASSUME NEW k \in Nat, k \in T PROVE k + 1 \in T
  <2>1. PICK g : IsPower(g, k)
    BY <1>2
  <2> DEFINE h == [i \in 0 .. (k + 1) |-> IF i = k + 1 THEN 2 * g[k] ELSE g[i]]
  <2>2. ASSUME NEW i \in 0 .. (k + 1)
        PROVE  h[i] = IF i = 0 THEN 1 ELSE 2 * h[i - 1]
    <3>1. CASE i = 0
      BY <2>1, <3>1 DEF IsPower
    <3>2. CASE i = k + 1
      <4>1. h[i] = 2 * g[k] /\ i - 1 = k /\ h[k] = g[k]
        BY <3>2
      <4>. QED BY <3>2, <4>1
    <3>3. CASE i # 0 /\ i # k + 1
      <4>1. i \in 0 .. k /\ i - 1 \in 0 .. k /\ h[i] = g[i] /\ h[i - 1] = g[i - 1]
        BY <3>3
      <4>2. g[i] = 2 * g[i - 1]
        BY <2>1, <3>3, <4>1 DEF IsPower
      <4>. QED BY <3>3, <4>1, <4>2
    <3>. QED BY <3>1, <3>2, <3>3
  <2>3. IsPower(h, k + 1)
    <3>1. h = [i \in 0 .. (k + 1) |-> IF i = 0 THEN 1 ELSE 2 * h[i - 1]]
      BY <2>2
    <3>. QED BY <3>1 DEF IsPower
  <2>. QED BY <2>3
<1> HIDE DEF T
<1>3. n \in T
  BY <1>1, <1>2, SetInduction
<1>. QED BY <1>3 DEF T

(* There is one such function on the naturals up to n.                      *)
LEMMA PowerUnique ==
  ASSUME NEW n \in Nat, NEW m \in Nat, NEW f, IsPower(f, n), NEW g, IsPower(g, m)
  PROVE  \A k \in Nat : k <= n /\ k <= m => f[k] = g[k]
<1> DEFINE T == {k \in Nat : k <= n /\ k <= m => f[k] = g[k]}
<1>1. /\ \A k \in 0 .. n : f[k] = IF k = 0 THEN 1 ELSE 2 * f[k - 1]
      /\ \A k \in 0 .. m : g[k] = IF k = 0 THEN 1 ELSE 2 * g[k - 1]
  BY DEF IsPower
<1>2. 0 \in T
  BY <1>1
<1>3. ASSUME NEW k \in Nat, k \in T PROVE k + 1 \in T
  <2> SUFFICES ASSUME k + 1 <= n, k + 1 <= m PROVE f[k + 1] = g[k + 1]
    OBVIOUS
  <2>1. f[k] = g[k]
    BY <1>3
  <2>2. k + 1 \in 0 .. n /\ k + 1 \in 0 .. m /\ k + 1 # 0 /\ (k + 1) - 1 = k
    OBVIOUS
  <2>. QED BY <1>1, <2>1, <2>2
<1> HIDE DEF T
<1>4. \A k \in Nat : k \in T
  BY <1>2, <1>3, SetInduction
<1>. QED BY <1>4 DEF T

(* npages is what its equation says.                                        *)
LEMMA PowerDef == npages = [k \in Nat |-> IF k = 0 THEN 1 ELSE 2 * npages[k - 1]]
<1> DEFINE part(n) == CHOOSE f : IsPower(f, n)
           p == [n \in Nat |-> part(n)[n]]
<1>1. \A n \in Nat : IsPower(part(n), n)
  BY PowerExists
<1> HIDE DEF part
<1>2. ASSUME NEW n \in Nat PROVE p[n] = IF n = 0 THEN 1 ELSE 2 * p[n - 1]
  <2>1. IsPower(part(n), n)
    BY <1>1
  <2>2. part(n)[n] = IF n = 0 THEN 1 ELSE 2 * part(n)[n - 1]
    BY <2>1 DEF IsPower
  <2>3. CASE n = 0
    BY <2>2, <2>3
  <2>4. CASE n # 0
    <3>1. n - 1 \in Nat /\ n - 1 <= n /\ IsPower(part(n - 1), n - 1)
      BY <1>1, <2>4
    <3>2. part(n)[n - 1] = part(n - 1)[n - 1]
      BY <2>1, <3>1, PowerUnique
    <3>. QED BY <2>2, <2>4, <3>1, <3>2
  <2>. QED BY <2>3, <2>4
<1>3. p = [k \in Nat |-> IF k = 0 THEN 1 ELSE 2 * p[k - 1]]
  BY <1>2
<1> HIDE DEF p
<1>4. npages = CHOOSE f : f = [k \in Nat |-> IF k = 0 THEN 1 ELSE 2 * f[k - 1]]
  BY DEF npages
<1>. QED BY <1>3, <1>4

(* A block has a positive number of pages, twice those of the order below.  *)
LEMMA PowerFacts ==
  /\ npages[0] = 1
  /\ \A n \in Nat : npages[n] \in Nat \ {0} /\ npages[n + 1] = 2 * npages[n]
<1>1. npages[0] = 1
  BY PowerDef
<1>2. \A n \in Nat : npages[n + 1] = 2 * npages[n]
  <2> TAKE n \in Nat
  <2>1. n + 1 \in Nat /\ n + 1 # 0 /\ (n + 1) - 1 = n
    OBVIOUS
  <2>. QED BY <2>1, PowerDef
<1> DEFINE T == {n \in Nat : npages[n] \in Nat \ {0}}
<1>3. 0 \in T
  BY <1>1
<1>4. ASSUME NEW n \in Nat, n \in T PROVE n + 1 \in T
  BY <1>2, <1>4
<1> HIDE DEF T
<1>5. \A n \in Nat : n \in T
  BY <1>3, <1>4, SetInduction
<1>. QED BY <1>1, <1>2, <1>5 DEF T

(* A block of a larger order has as many blocks of a smaller as a factor.   *)
LEMMA PowerFactor ==
  ASSUME NEW n \in Nat
  PROVE  \A d \in Nat : \E f \in Nat \ {0} : npages[n + d] = f * npages[n]
<1> DEFINE T == {d \in Nat : \E f \in Nat \ {0} : npages[n + d] = f * npages[n]}
<1>1. 0 \in T
  <2>1. npages[n + 0] = 1 * npages[n]
    BY PowerFacts
  <2>. QED BY <2>1
<1>2. ASSUME NEW d \in Nat, d \in T PROVE d + 1 \in T
  <2>1. PICK f \in Nat \ {0} : npages[n + d] = f * npages[n]
    BY <1>2
  <2>2. npages[(n + d) + 1] = 2 * npages[n + d] /\ npages[n] \in Nat
    BY PowerFacts
  <2>3. 2 * (f * npages[n]) = (2 * f) * npages[n]
    BY <2>2
  <2>4. npages[n + (d + 1)] = (2 * f) * npages[n] /\ 2 * f \in Nat \ {0}
    BY <2>1, <2>2, <2>3
  <2>. QED BY <2>4
<1> HIDE DEF T
<1>3. \A d \in Nat : d \in T
  BY <1>1, <1>2, SetInduction
<1>. QED BY <1>3 DEF T

(* A larger order has no fewer pages.                                       *)
LEMMA PowerGrows ==
  ASSUME NEW n \in Nat, NEW m \in Nat, n <= m
  PROVE  npages[n] <= npages[m]
<1>1. m - n \in Nat /\ n + (m - n) = m
  OBVIOUS
<1>2. PICK f \in Nat \ {0} : npages[n + (m - n)] = f * npages[n]
  BY <1>1, PowerFactor
<1>3. npages[n] \in Nat
  BY PowerFacts
<1>4. f * npages[n] >= npages[n]
  BY <1>3
<1>. QED BY <1>1, <1>2, <1>4
-----------------------------------------------------------------------------
(* Addresses.  A block starts at a multiple of its size.                    *)
Aligned(addr, order) == \E k \in Nat : addr = k * npages[order]

(* Division by what need not be a constant                                  *)
LEMMA Division ==
  ASSUME NEW s \in Nat \ {0}, NEW k \in Nat, NEW r \in Nat, r < s
  PROVE  (k * s + r) \div s = k /\ (k * s + r) % s = r
OBVIOUS

(* Quotient and remainder make up the dividend.                             *)
LEMMA Divided ==
  ASSUME NEW s \in Nat \ {0}, NEW x \in Nat
  PROVE  /\ x \div s \in Nat /\ x % s \in Nat /\ x % s < s
         /\ x = (x \div s) * s + (x % s)
OBVIOUS

(* An aligned address is its index times the size of the block.             *)
LEMMA AlignedIndex ==
  ASSUME NEW order \in Nat, NEW a \in Nat, Aligned(a, order)
  PROVE  /\ calculate_index(order, a) \in Nat
         /\ a = calculate_index(order, a) * npages[order]
<1>1. npages[order] \in Nat \ {0}
  BY PowerFacts
<1>2. PICK k \in Nat : a = k * npages[order]
  BY DEF Aligned
<1>3. (k * npages[order] + 0) \div npages[order] = k
  BY <1>1, Division
<1>4. a \div npages[order] = k
  BY <1>1, <1>2, <1>3
<1>. QED BY <1>2, <1>4 DEF calculate_index

(* Every multiple of the size is aligned, and its index is the factor.      *)
LEMMA IndexAligned ==
  ASSUME NEW order \in Nat, NEW k \in Nat
  PROVE  /\ k * npages[order] \in Nat /\ Aligned(k * npages[order], order)
         /\ calculate_index(order, k * npages[order]) = k
<1>1. npages[order] \in Nat \ {0}
  BY PowerFacts
<1>2. (k * npages[order] + 0) \div npages[order] = k
  BY <1>1, Division
<1>. QED BY <1>1, <1>2 DEF Aligned, calculate_index

(* What is aligned for an order is aligned for the smaller ones.            *)
LEMMA AlignedDown ==
  ASSUME NEW n \in Nat, NEW m \in Nat, n <= m, NEW a \in Nat, Aligned(a, m)
  PROVE  Aligned(a, n)
<1>1. PICK k \in Nat : a = k * npages[m]
  BY DEF Aligned
<1>2. m - n \in Nat /\ n + (m - n) = m
  OBVIOUS
<1>3. PICK f \in Nat \ {0} : npages[n + (m - n)] = f * npages[n]
  BY <1>2, PowerFactor
<1>4. npages[n] \in Nat
  BY PowerFacts
<1>5. k * (f * npages[n]) = (k * f) * npages[n]
  BY <1>4
<1>6. a = (k * f) * npages[n] /\ k * f \in Nat
  BY <1>1, <1>2, <1>3, <1>5
<1>. QED BY <1>6 DEF Aligned

(* Buddies: the two halves of one block of the next order                   *)
Low(a, order) == IF Buddy(a, order) < a THEN Buddy(a, order) ELSE a

(* A block is the first half or the second of the block one order up, and   *)
(* its buddy the other half.                                                *)
LEMMA BuddyCases ==
  ASSUME NEW order \in Nat, NEW a \in Nat, Aligned(a, order)
  PROVE  \E q \in Nat :
           \/ /\ a = q * npages[order + 1] /\ Buddy(a, order) = a + npages[order]
              /\ Low(a, order) = a /\ calculate_index(order + 1, a) = q
           \/ /\ a = q * npages[order + 1] + npages[order]
              /\ Buddy(a, order) = q * npages[order + 1]
              /\ Low(a, order) = q * npages[order + 1] /\ calculate_index(order + 1, a) = q
<1> DEFINE s == npages[order]
<1>1. s \in Nat \ {0} /\ npages[order + 1] = 2 * s /\ 2 * s \in Nat \ {0}
  BY PowerFacts
<1>2. PICK k \in Nat : k = calculate_index(order, a) /\ a = k * s
  BY AlignedIndex
<1>3. PICK q \in Nat : q = k \div 2
  OBVIOUS
<1>4. k % 2 \in {0, 1} /\ k = 2 * q + (k % 2)
  BY <1>3
<1>5. a \div s = k
  BY <1>2 DEF calculate_index
<1>6. q * (2 * s) = (2 * q) * s
  BY <1>1
<1> HIDE DEF s
<1>7. CASE k % 2 = 0
  <2>1. a = q * (2 * s)
    BY <1>2, <1>4, <1>6, <1>7
  <2>2. Buddy(a, order) = a + s
    BY <1>5, <1>7 DEF Buddy, s
  <2>3. ~(a + s < a)
    BY <1>1
  <2>4. (q * (2 * s) + 0) \div (2 * s) = q
    BY <1>1, Division
  <2>5. a \div (2 * s) = q
    BY <1>1, <2>1, <2>4
  <2>. QED BY <1>1, <2>1, <2>2, <2>3, <2>5 DEF Low, calculate_index, s
<1>8. CASE k % 2 = 1
  <2>1. k = 2 * q + 1
    BY <1>4, <1>8
  <2>2. (2 * q + 1) * s = (2 * q) * s + s
    BY <1>1
  <2>3. a = q * (2 * s) + s
    BY <1>2, <1>6, <2>1, <2>2
  <2>4. Buddy(a, order) = a - s
    BY <1>5, <1>8 DEF Buddy, s
  <2>5. a - s = q * (2 * s) /\ a - s < a /\ q * (2 * s) \in Nat
    BY <1>1, <2>3
  <2>6. s < 2 * s
    BY <1>1
  <2>7. (q * (2 * s) + s) \div (2 * s) = q
    BY <1>1, <2>6, Division
  <2>. QED BY <1>1, <2>3, <2>4, <2>5, <2>7 DEF Low, calculate_index, s
<1>. QED BY <1>4, <1>7, <1>8

(* The two share an index, and no third one does (page.c 156 to 168).       *)
LEMMA BuddyFacts ==
  ASSUME NEW order \in Nat, NEW a \in Nat, Aligned(a, order)
  PROVE  LET b == Buddy(a, order)
             low == Low(a, order)
             i == calculate_index(order + 1, a)
         IN  /\ b \in Nat /\ Aligned(b, order) /\ b # a /\ Buddy(b, order) = a
             /\ low \in Nat /\ Aligned(low, order + 1) /\ low \in {a, b} /\ low <= a /\ low <= b
             /\ i \in Nat /\ low = i * npages[order + 1] /\ calculate_index(order + 1, b) = i
             /\ {a, b} = {low, low + npages[order]}
<1> DEFINE s == npages[order]
<1>1. s \in Nat \ {0} /\ npages[order + 1] = 2 * s /\ order + 1 \in Nat
  BY PowerFacts
<1>2. PICK q \in Nat :
           \/ /\ a = q * npages[order + 1] /\ Buddy(a, order) = a + npages[order]
              /\ Low(a, order) = a /\ calculate_index(order + 1, a) = q
           \/ /\ a = q * npages[order + 1] + npages[order]
              /\ Buddy(a, order) = q * npages[order + 1]
              /\ Low(a, order) = q * npages[order + 1] /\ calculate_index(order + 1, a) = q
  BY BuddyCases
<1> DEFINE low == q * npages[order + 1]
<1>3. low \in Nat /\ Aligned(low, order + 1) /\ calculate_index(order + 1, low) = q
  BY <1>1, IndexAligned
<1>4. Aligned(low, order)
  BY <1>1, <1>3, AlignedDown
<1>5. low + s \in Nat /\ Aligned(low + s, order)
  <2>1. q * (2 * s) + s = (2 * q + 1) * s
    BY <1>1
  <2>2. low + s = (2 * q + 1) * s /\ 2 * q + 1 \in Nat
    BY <1>1, <2>1
  <2>. QED BY <1>1, <1>3, <2>2, IndexAligned
<1>6. calculate_index(order + 1, low + s) = q
  <2>1. s < 2 * s
    BY <1>1
  <2>2. (q * (2 * s) + s) \div (2 * s) = q
    BY <1>1, <2>1, Division
  <2>. QED BY <1>1, <2>2 DEF calculate_index
<1>7. Buddy(low, order) = low + s
  <2>1. PICK r \in Nat :
           \/ /\ low = r * npages[order + 1] /\ Buddy(low, order) = low + npages[order]
           \/ /\ low = r * npages[order + 1] + npages[order]
              /\ calculate_index(order + 1, low) = r
    BY <1>3, <1>4, BuddyCases
  <2>2. CASE low = r * npages[order + 1] + npages[order] /\ calculate_index(order + 1, low) = r
    <3>1. r = q
      BY <1>3, <2>2
    <3>2. low = low + s
      BY <2>2, <3>1
    <3>. QED BY <1>1, <1>3, <3>2
  <2>. QED BY <2>1, <2>2
<1>8. Buddy(low + s, order) = low
  <2>1. PICK r \in Nat :
           \/ /\ low + s = r * npages[order + 1] /\ calculate_index(order + 1, low + s) = r
           \/ /\ low + s = r * npages[order + 1] + npages[order]
              /\ Buddy(low + s, order) = r * npages[order + 1]
              /\ calculate_index(order + 1, low + s) = r
    BY <1>5, BuddyCases
  <2>2. r = q
    BY <1>6, <2>1
  <2>3. CASE low + s = r * npages[order + 1]
    BY <1>1, <1>3, <2>2, <2>3
  <2>. QED BY <2>1, <2>2, <2>3
<1> HIDE DEF s, low
<1>9. CASE a = low /\ Buddy(a, order) = low + s /\ Low(a, order) = low /\ calculate_index(order + 1, a) = q
  BY <1>1, <1>3, <1>4, <1>5, <1>6, <1>7, <1>8, <1>9 DEF s, low
<1>10. CASE a = low + s /\ Buddy(a, order) = low /\ Low(a, order) = low /\ calculate_index(order + 1, a) = q
  BY <1>1, <1>3, <1>4, <1>5, <1>6, <1>7, <1>8, <1>10 DEF s, low
<1>. QED BY <1>2, <1>9, <1>10 DEF s, low

(* Only buddies share a bit of pg_map.                                      *)
LEMMA IndexOfBuddies ==
  ASSUME NEW order \in Nat, NEW a \in Nat, NEW b \in Nat, Aligned(a, order), Aligned(b, order),
         calculate_index(order + 1, a) = calculate_index(order + 1, b)
  PROVE  b = a \/ b = Buddy(a, order)
<1>1. npages[order] \in Nat /\ npages[order + 1] \in Nat
  BY PowerFacts
<1>2. PICK q \in Nat :
           \/ /\ a = q * npages[order + 1] /\ Buddy(a, order) = a + npages[order]
              /\ calculate_index(order + 1, a) = q
           \/ /\ a = q * npages[order + 1] + npages[order]
              /\ Buddy(a, order) = q * npages[order + 1]
              /\ calculate_index(order + 1, a) = q
  BY BuddyCases
<1>3. PICK r \in Nat :
           \/ /\ b = r * npages[order + 1] /\ calculate_index(order + 1, b) = r
           \/ /\ b = r * npages[order + 1] + npages[order] /\ calculate_index(order + 1, b) = r
  BY BuddyCases
<1>4. r = q
  BY <1>2, <1>3
<1>. QED BY <1>1, <1>2, <1>3, <1>4
-----------------------------------------------------------------------------
(* The blocks of the largest order end at a multiple of every smaller size. *)
LEMMA TailOfPair ==
  ASSUME NEW order \in 0 .. (Top - 1), NEW a \in Nat, Aligned(a, order)
  PROVE  /\ InTail(Buddy(a, order)) <=> InTail(a)
         /\ InTail(Low(a, order)) <=> InTail(a)
<1>1. Top \in Nat
  BY DEF Top
<1>2. order \in Nat /\ order + 1 \in Nat /\ Top \in Nat /\ order + 1 <= Top
  BY <1>1
<1>3. npages[order] \in Nat \ {0} /\ npages[order + 1] = 2 * npages[order] /\ npages[Top] \in Nat \ {0}
  BY <1>2, PowerFacts
<1> DEFINE s == npages[order + 1]
           end == (NPages \div npages[Top]) * npages[Top]
<1>4. NPages \div npages[Top] \in Nat
  <2>1. NPages \in Nat /\ npages[Top] \in Nat \ {0}
    BY <1>3
  <2>. QED BY <2>1, Divided
<1>5. end \in Nat /\ Aligned(end, Top)
  BY <1>2, <1>4, IndexAligned
<1>6. Aligned(end, order + 1)
  BY <1>2, <1>5, AlignedDown
<1>7. PICK u \in Nat : end = u * s
  BY <1>6 DEF Aligned
<1>8. PICK q \in Nat :
           \/ a = q * s /\ Buddy(a, order) = a + npages[order] /\ Low(a, order) = a
           \/ /\ a = q * s + npages[order] /\ Buddy(a, order) = q * s
              /\ Low(a, order) = q * s
  BY <1>2, BuddyCases
<1>9. \A x : InTail(x) <=> x >= end
  BY DEF InTail
<1> HIDE DEF end, s
<1>10. s \in Nat \ {0} /\ npages[order] < s
  BY <1>3 DEF s
<1>11. q < u => (q + 1) * s <= u * s
  BY <1>10
<1>12. (q + 1) * s = q * s + s
  BY <1>10
<1>13. ~(q < u) => q * s >= u * s
  BY <1>10
<1>14. q * s \in Nat /\ u * s \in Nat
  BY <1>10
<1>15. q * s + npages[order] >= end <=> q * s >= end
  BY <1>3, <1>7, <1>10, <1>11, <1>12, <1>13, <1>14
<1>. QED BY <1>8, <1>9, <1>15
-----------------------------------------------------------------------------
(* Free lists                                                               *)
LEMMA ListPush ==
  ASSUME NEW list \in Seq(Nat), NEW x \in Nat
  PROVE  /\ <<x>> \o list \in Seq(Nat)
         /\ ToSet(<<x>> \o list) = ToSet(list) \cup {x}
         /\ IsInjective(list) /\ x \notin ToSet(list) => IsInjective(<<x>> \o list)
         /\ <<x>> \o list # <<>> /\ Head(<<x>> \o list) = x
<1> DEFINE r == <<x>> \o list
<1>1. r \in Seq(Nat) /\ Len(r) = Len(list) + 1 /\ Len(list) \in Nat
  OBVIOUS
<1>2. r[1] = x /\ \A k \in 2 .. Len(r) : k - 1 \in 1 .. Len(list) /\ r[k] = list[k - 1]
  BY <1>1
<1>3. DOMAIN r = 1 .. Len(r) /\ DOMAIN list = 1 .. Len(list)
  BY <1>1
<1>4. r # <<>> /\ Head(r) = x
  BY <1>1, <1>2
<1> HIDE DEF r
<1>5. \A k \in 1 .. Len(list) : k + 1 \in 2 .. Len(r) /\ r[k + 1] = list[k]
  BY <1>1, <1>2
<1>6. \A k \in 1 .. Len(r) : k = 1 \/ k \in 2 .. Len(r)
  BY <1>1
<1>7. 1 \in 1 .. Len(r) /\ \A k \in 2 .. Len(r) : k \in 1 .. Len(r)
  BY <1>1
<1>8. ToSet(r) = ToSet(list) \cup {x}
  <2>1. ASSUME NEW y \in ToSet(r) PROVE y \in ToSet(list) \cup {x}
    <3>1. PICK k \in 1 .. Len(r) : y = r[k]
      BY <1>3 DEF ToSet
    <3>2. k \in 2 .. Len(r) => y = list[k - 1] /\ k - 1 \in DOMAIN list
      BY <1>2, <1>3, <3>1
    <3>. QED BY <1>2, <1>6, <3>1, <3>2 DEF ToSet
  <2>2. ASSUME NEW y \in ToSet(list) PROVE y \in ToSet(r)
    <3>1. PICK k \in 1 .. Len(list) : y = list[k]
      BY <1>3 DEF ToSet
    <3>2. k + 1 \in DOMAIN r /\ y = r[k + 1]
      BY <1>3, <1>5, <1>7, <3>1
    <3>. QED BY <3>2 DEF ToSet
  <2>3. x \in ToSet(r)
    BY <1>2, <1>3, <1>7 DEF ToSet
  <2>. QED BY <2>1, <2>2, <2>3
<1>9. ASSUME IsInjective(list), x \notin ToSet(list) PROVE IsInjective(r)
  <2> SUFFICES ASSUME NEW j \in 1 .. Len(r), NEW k \in 1 .. Len(r), r[j] = r[k] PROVE j = k
    BY <1>3 DEF IsInjective
  <2>1. \A l \in 2 .. Len(r) : r[l] \in ToSet(list)
    BY <1>2, <1>3 DEF ToSet
  <2>2. CASE j \in 2 .. Len(r) /\ k \in 2 .. Len(r)
    <3>1. j - 1 \in DOMAIN list /\ k - 1 \in DOMAIN list /\ list[j - 1] = list[k - 1]
      BY <1>2, <1>3, <2>2
    <3>2. j - 1 = k - 1
      BY <1>9, <3>1 DEF IsInjective
    <3>. QED BY <3>2
  <2>3. CASE ~(j \in 2 .. Len(r) /\ k \in 2 .. Len(r))
    BY <1>2, <1>6, <1>9, <2>1, <2>3
  <2>. QED BY <2>2, <2>3
<1>. QED BY <1>1, <1>4, <1>8, <1>9 DEF r

(* The head of a free list goes.                                            *)
LEMMA ListPop ==
  ASSUME NEW list \in Seq(Nat), list # <<>>
  PROVE  /\ Tail(list) \in Seq(Nat) /\ Head(list) \in ToSet(list) /\ Head(list) \in Nat
         /\ ToSet(Tail(list)) \subseteq ToSet(list)
         /\ IsInjective(list) => /\ ToSet(Tail(list)) = ToSet(list) \ {Head(list)}
                                 /\ IsInjective(Tail(list))
<1> DEFINE r == Tail(list)
           x == Head(list)
<1>1. r \in Seq(Nat) /\ Len(list) = Len(r) + 1 /\ Len(r) \in Nat
  OBVIOUS
<1>2. /\ list[1] = x /\ 1 \in 1 .. Len(list)
      /\ \A k \in 1 .. Len(r) : k + 1 \in 1 .. Len(list) /\ r[k] = list[k + 1]
  BY <1>1
<1>3. DOMAIN r = 1 .. Len(r) /\ DOMAIN list = 1 .. Len(list)
  BY <1>1
<1>4. x \in Nat
  OBVIOUS
<1> HIDE DEF r, x
<1>5. \A k \in 1 .. Len(list) : k = 1 \/ (k - 1 \in 1 .. Len(r) /\ r[k - 1] = list[k])
  <2> TAKE k \in 1 .. Len(list)
  <2>1. k = 1 \/ k - 1 \in 1 .. Len(r)
    BY <1>1
  <2>2. k = (k - 1) + 1
    OBVIOUS
  <2>. QED BY <1>2, <2>1, <2>2
<1>6. x \in ToSet(list)
  BY <1>2, <1>3 DEF ToSet
<1>7. ToSet(r) \subseteq ToSet(list)
  BY <1>2, <1>3 DEF ToSet
<1>8. ASSUME IsInjective(list) PROVE ToSet(r) = ToSet(list) \ {x} /\ IsInjective(r)
  <2>1. \A j, k \in 1 .. Len(list) : list[j] = list[k] => j = k
    BY <1>3, <1>8 DEF IsInjective
  <2>2. ASSUME NEW k \in 1 .. Len(r) PROVE r[k] # x
    <3>1. k + 1 # 1 /\ k + 1 \in 1 .. Len(list) /\ r[k] = list[k + 1]
      BY <1>2
    <3>. QED BY <1>2, <2>1, <3>1
  <2>3. ToSet(r) = ToSet(list) \ {x}
    <3>1. \A y \in ToSet(r) : y # x
      BY <1>3, <2>2 DEF ToSet
    <3>2. ASSUME NEW y \in ToSet(list), y # x PROVE y \in ToSet(r)
      <4>1. PICK k \in 1 .. Len(list) : y = list[k]
        BY <1>3 DEF ToSet
      <4>2. k - 1 \in DOMAIN r /\ y = r[k - 1]
        BY <1>2, <1>3, <1>5, <3>2, <4>1
      <4>. QED BY <4>2 DEF ToSet
    <3>. QED BY <1>7, <3>1, <3>2
  <2>4. ASSUME NEW j \in 1 .. Len(r), NEW k \in 1 .. Len(r), r[j] = r[k] PROVE j = k
    <3>1. j + 1 \in 1 .. Len(list) /\ k + 1 \in 1 .. Len(list) /\ list[j + 1] = list[k + 1]
      BY <1>2, <2>4
    <3>2. j + 1 = k + 1
      BY <2>1, <3>1
    <3>. QED BY <3>2
  <2>. QED BY <1>3, <2>3, <2>4 DEF IsInjective
<1>. QED BY <1>1, <1>4, <1>6, <1>7, <1>8 DEF r, x

(* RemoveAt, element by element                                             *)
LEMMA RemoveAtProperties ==
  ASSUME NEW S, NEW f \in Seq(S), NEW k \in 1..Len(f)
  PROVE  /\ RemoveAt(f, k) \in Seq(S)
         /\ Len(RemoveAt(f, k)) = Len(f) - 1
         /\ \A i \in 1..(Len(f) - 1) :
              RemoveAt(f, k)[i] = IF i < k THEN f[i] ELSE f[i + 1]
<1> DEFINE a == SubSeq(f, 1, k - 1)
           b == SubSeq(f, k + 1, Len(f))
<1>1. a \in Seq(S) /\ Len(a) = k - 1 /\ \A i \in 1..(k - 1) : a[i] = f[i]
  OBVIOUS
<1>2. /\ b \in Seq(S) /\ Len(b) = Len(f) - k
      /\ \A i \in 1..(Len(f) - k) : b[i] = f[k + i]
  OBVIOUS
<1>3. RemoveAt(f, k) = a \o b
  BY DEF RemoveAt
<1> HIDE DEF a, b
<1>4. a \o b \in Seq(S) /\ Len(a \o b) = Len(f) - 1
  <2>1. a \o b \in Seq(S) /\ Len(a \o b) = Len(a) + Len(b)
    BY <1>1, <1>2, ConcatProperties, Zenon
  <2>2. Len(f) \in Nat
    OBVIOUS
  <2>. QED BY <1>1, <1>2, <2>1, <2>2
<1>5. ASSUME NEW i \in 1..(Len(f) - 1)
      PROVE  (a \o b)[i] = IF i < k THEN f[i] ELSE f[i + 1]
  <2>1. CASE i < k
    BY <1>1, <1>2, <2>1
  <2>2. CASE ~(i < k)
    <3>1. i - Len(a) \in 1..(Len(f) - k) /\ k + (i - Len(a)) = i + 1
      BY <1>1, <2>2
    <3>2. (a \o b)[i] = b[i - Len(a)]
      BY <1>1, <1>2, <2>2
    <3>. QED BY <1>2, <2>2, <3>1, <3>2
  <2>. QED BY <2>1, <2>2
<1>. QED BY <1>3, <1>4, <1>5

(* What list_remove leaves: all but the address, and no less.               *)
LEMMA ListRemove ==
  ASSUME NEW list \in Seq(Nat), NEW x
  PROVE  /\ list_remove(list, x) \in Seq(Nat)
         /\ ToSet(list) \subseteq ToSet(list_remove(list, x)) \cup {x}
         /\ IsInjective(list) => /\ ToSet(list_remove(list, x)) = ToSet(list) \ {x}
                                 /\ IsInjective(list_remove(list, x))
<1>1. CASE x \notin ToSet(list)
  BY <1>1 DEF list_remove
<1>2. CASE x \in ToSet(list)
  <2> DEFINE p == CHOOSE i \in DOMAIN list : list[i] = x
             r == RemoveAt(list, p)
  <2>1. DOMAIN list = 1 .. Len(list) /\ Len(list) \in Nat
    OBVIOUS
  <2>2. p \in 1 .. Len(list) /\ list[p] = x
    <3>1. \E i \in DOMAIN list : list[i] = x
      BY <1>2 DEF ToSet
    <3>. QED BY <2>1, <3>1
  <2> HIDE DEF p
  <2>3. /\ r \in Seq(Nat) /\ Len(r) = Len(list) - 1
        /\ \A i \in 1 .. Len(r) : r[i] = IF i < p THEN list[i] ELSE list[i + 1]
    BY <2>2, RemoveAtProperties
  <2>4. list_remove(list, x) = r
    BY <1>2 DEF list_remove, p
  <2> HIDE DEF r
  <2>5. DOMAIN r = 1 .. Len(r) /\ Len(r) \in Nat
    BY <2>3
  <2>6. ASSUME NEW i \in 1 .. Len(list), i # p PROVE list[i] \in ToSet(r)
    <3>1. CASE i < p
      <4>1. i \in 1 .. Len(r) /\ r[i] = list[i]
        BY <2>1, <2>2, <2>3, <3>1
      <4>. QED BY <2>5, <4>1 DEF ToSet
    <3>2. CASE ~(i < p)
      <4>1. i - 1 \in 1 .. Len(r) /\ r[i - 1] = list[i]
        BY <2>1, <2>2, <2>3, <2>6, <3>2
      <4>. QED BY <2>5, <4>1 DEF ToSet
    <3>. QED BY <3>1, <3>2
  <2>7. ToSet(list) \subseteq ToSet(r) \cup {x}
    BY <2>1, <2>2, <2>6 DEF ToSet
  <2>8. ASSUME IsInjective(list) PROVE ToSet(r) = ToSet(list) \ {x} /\ IsInjective(r)
    <3>1. \A j, k \in 1 .. Len(list) : list[j] = list[k] => j = k
      BY <2>1, <2>8 DEF IsInjective
    <3>2. ASSUME NEW i \in 1 .. Len(r)
          PROVE \E j \in 1 .. Len(list) : j # p /\ r[i] = list[j] /\ j = IF i < p THEN i ELSE i + 1
      <4>1. CASE i < p
        BY <2>1, <2>2, <2>3, <4>1
      <4>2. CASE ~(i < p)
        <5>1. i + 1 \in 1 .. Len(list) /\ i + 1 # p /\ r[i] = list[i + 1]
          BY <2>1, <2>2, <2>3, <4>2
        <5>. QED BY <4>2, <5>1
      <4>. QED BY <4>1, <4>2
    <3>3. \A y \in ToSet(r) : y \in ToSet(list) /\ y # x
      BY <2>1, <2>2, <2>5, <3>1, <3>2 DEF ToSet
    <3>4. IsInjective(r)
      <4> SUFFICES ASSUME NEW i \in 1 .. Len(r), NEW k \in 1 .. Len(r), r[i] = r[k] PROVE i = k
        BY <2>5 DEF IsInjective
      <4>1. PICK j \in 1 .. Len(list) : r[i] = list[j] /\ j = IF i < p THEN i ELSE i + 1
        BY <3>2
      <4>2. PICK l \in 1 .. Len(list) : r[k] = list[l] /\ l = IF k < p THEN k ELSE k + 1
        BY <3>2
      <4>3. j = l
        BY <3>1, <4>1, <4>2
      <4>. QED BY <2>1, <2>2, <4>1, <4>2, <4>3
    <3>. QED BY <2>7, <3>3, <3>4
  <2>. QED BY <2>3, <2>4, <2>7, <2>8
<1>. QED BY <1>1, <1>2
-----------------------------------------------------------------------------
(* What is in use: blocks that do not overlap and make up a set of pages    *)
Tiles(U, X) ==
  /\ \A u \in U : Block(u[1], u[2]) \subseteq X
  /\ \A p \in X : \E u \in U : p \in Block(u[1], u[2])
  /\ \A u, v \in U : \A p \in Block(u[1], u[2]) : p \in Block(v[1], v[2]) => u = v

(* A block that is apart from all others comes.                             *)
LEMMA TilesAdd ==
  ASSUME NEW U, NEW X, Tiles(U, X), NEW u, \A p \in Block(u[1], u[2]) : p \notin X
  PROVE  Tiles(U \cup {u}, X \cup Block(u[1], u[2]))
BY DEF Tiles

(* A block goes, and with it its pages.                                     *)
LEMMA TilesRemove ==
  ASSUME NEW U, NEW X, Tiles(U, X), NEW u \in U
  PROVE  /\ Tiles(U \ {u}, X \ Block(u[1], u[2])) /\ Block(u[1], u[2]) \subseteq X
BY DEF Tiles

(* A block has a page, its first, so that no block is there twice.          *)
LEMMA BlockFacts ==
  ASSUME NEW order \in Nat, NEW a \in Nat
  PROVE  /\ a \in Block(a, order) /\ Block(a, order) \subseteq Nat
         /\ Block(a, order + 1) = Block(a, order) \cup Block(a + npages[order], order)
         /\ Block(a, order) \cap Block(a + npages[order], order) = {}
         /\ IsFiniteSet(Block(a, order)) /\ Cardinality(Block(a, order)) = npages[order]
<1>1. npages[order] \in Nat \ {0} /\ npages[order + 1] = 2 * npages[order]
  BY PowerFacts
<1>2. a + npages[order] - 1 \in Nat
  BY <1>1
<1>3. /\ IsFiniteSet(a .. (a + npages[order] - 1))
      /\ Cardinality(a .. (a + npages[order] - 1)) = npages[order]
  <2> DEFINE b == a + npages[order] - 1
  <2>1. a \in Int /\ b \in Int /\ ~(a > b) /\ b - a + 1 = npages[order]
    BY <1>1
  <2> HIDE DEF b
  <2>2. IsFiniteSet(a .. b) /\ Cardinality(a .. b) = IF a > b THEN 0 ELSE b - a + 1
    BY <2>1, FS_Interval
  <2>3. IsFiniteSet(a .. b) /\ Cardinality(a .. b) = npages[order]
    BY <2>1, <2>2
  <2>. QED BY <2>3 DEF b
<1>4. Block(a, order + 1) = Block(a, order) \cup Block(a + npages[order], order)
  BY <1>1 DEF Block
<1>5. Block(a, order) \cap Block(a + npages[order], order) = {}
  BY <1>1 DEF Block
<1>6. a \in Block(a, order) /\ Block(a, order) \subseteq Nat
  BY <1>1 DEF Block
<1>. QED BY <1>3, <1>4, <1>5, <1>6 DEF Block
-----------------------------------------------------------------------------
FreeListT == [Order -> Seq(Nat)]
GroupT == [pg_freelist: FreeListT, pg_map: [Order \ {0} -> SUBSET Nat],
           page_freecount: Int, intact: BOOLEAN]

(* The free lists of a group                                                *)
Blocks(fl) == {b \in Page \X Order : b[1] \in ToSet(fl[b[2]])}
ListsOK(fl) ==
  \A o \in Order : /\ IsInjective(fl[o])
                   /\ \A a \in ToSet(fl[o]) : a \in Page /\ Aligned(a, o)

Flip(map, o, a) ==
  IF o > Top THEN map ELSE [map EXCEPT ![o] = SymDiff(@, {calculate_index(o, a)})]

(* Orders and pages are numbers.                                            *)
LEMMA OrderFacts ==
  /\ Top \in Nat /\ Order = 0 .. Top /\ Order \subseteq Nat /\ 0 \in Order /\ Top \in Order
  /\ Page \subseteq Nat
<1>1. Top \in Nat /\ Top = PAGE_NSIZES - 1
  BY DEF Top
<1>. QED BY <1>1 DEF Order, Page

(* What is listed at an order is a free block of it.                        *)
LEMMA InBlocks ==
  ASSUME NEW fl, NEW a, NEW o
  PROVE  <<a, o>> \in Blocks(fl) <=> a \in Page /\ o \in Order /\ a \in ToSet(fl[o])
BY DEF Blocks

(* What a free block consists of.                                           *)
LEMMA OfBlocks ==
  ASSUME NEW fl, NEW b \in Blocks(fl)
  PROVE  b = <<b[1], b[2]>> /\ b[1] \in Page /\ b[2] \in Order /\ b[1] \in ToSet(fl[b[2]])
BY DEF Blocks

(* The free blocks of a group are those of its lists.                       *)
LEMMA FreeBlocksAre ==
  ASSUME NEW g
  PROVE  FreeBlocks(g) = Blocks(g.pg_freelist)
BY DEF FreeBlocks, Blocks

(* A flipped bit map is a bit map.                                          *)
LEMMA FlipType ==
  ASSUME NEW map \in [Order \ {0} -> SUBSET Nat], NEW o \in Nat \ {0}, NEW a \in Nat
  PROVE  Flip(map, o, a) \in [Order \ {0} -> SUBSET Nat]
<1>1. npages[o] \in Nat \ {0}
  BY PowerFacts
<1>2. calculate_index(o, a) \in Nat
  BY <1>1, Divided DEF calculate_index
<1>3. \A x \in SUBSET Nat : SymDiff(x, {calculate_index(o, a)}) \in SUBSET Nat
  BY <1>2 DEF SymDiff
<1>4. CASE o > Top
  BY <1>4 DEF Flip
<1>5. CASE ~(o > Top)
  <2>1. o \in Order \ {0}
    BY <1>5, OrderFacts
  <2>. QED BY <1>3, <1>5, <2>1 DEF Flip
<1>. QED BY <1>4, <1>5

(* bit_flip changes the bit map only.                                       *)
LEMMA BitFlip ==
  ASSUME NEW g \in GroupT, NEW o \in Nat \ {0}, NEW a \in Nat
  PROVE  /\ bit_flip(g, o, a) = [g EXCEPT !.pg_map = Flip(g.pg_map, o, a)]
         /\ bit_flip(g, o, a) \in GroupT
<1>1. Flip(g.pg_map, o, a) \in [Order \ {0} -> SUBSET Nat]
  BY FlipType DEF GroupT
<1>2. bit_flip(g, o, a) = [g EXCEPT !.pg_map = Flip(g.pg_map, o, a)]
  <2>1. CASE o > Top
    <3>1. [g EXCEPT !.pg_map = g.pg_map] = g
      BY DEF GroupT
    <3>. QED BY <2>1, <3>1 DEF bit_flip, Flip
  <2>2. CASE ~(o > Top)
    BY <2>2 DEF bit_flip, Flip, GroupT
  <2>. QED BY <2>1, <2>2
<1>. QED BY <1>1, <1>2 DEF GroupT

(* The fields after one                                                     *)
LEMMA BitFlipIs ==
  ASSUME NEW g \in GroupT, NEW o \in Nat \ {0}, NEW a \in Nat, NEW h, h = bit_flip(g, o, a)
  PROVE  /\ h \in GroupT /\ h.pg_freelist = g.pg_freelist /\ h.pg_map = Flip(g.pg_map, o, a)
         /\ h.page_freecount = g.page_freecount /\ h.intact = g.intact
<1>1. h = [g EXCEPT !.pg_map = Flip(g.pg_map, o, a)] /\ h \in GroupT
  BY BitFlip
<1>2. DOMAIN g = {"pg_freelist", "pg_map", "page_freecount", "intact"}
  BY DEF GroupT
<1>. QED BY <1>1, <1>2
-----------------------------------------------------------------------------
SetList(fl, o, list, fl2) == fl2 = [fl EXCEPT ![o] = list]

(* The block a of order o is off its list, or is on it, in the lists fl2.    *)
Leaves(fl, o, list, a, fl2) ==
  /\ fl \in FreeListT /\ ListsOK(fl) /\ o \in Order /\ list \in Seq(Nat) /\ IsInjective(list)
  /\ ToSet(list) = ToSet(fl[o]) \ {a} /\ SetList(fl, o, list, fl2)
Comes(fl, o, list, a, fl2) ==
  /\ fl \in FreeListT /\ ListsOK(fl) /\ o \in Order /\ list \in Seq(Nat) /\ IsInjective(list)
  /\ a \in Page /\ Aligned(a, o)
  /\ ToSet(list) = ToSet(fl[o]) \cup {a} /\ SetList(fl, o, list, fl2)

(* One block leaves its list or comes to one.                               *)
LEMMA BlockLeaves ==
  ASSUME NEW fl, NEW o, NEW list, NEW a, NEW fl2, Leaves(fl, o, list, a, fl2)
  PROVE  fl2 \in FreeListT /\ ListsOK(fl2) /\ Blocks(fl2) = Blocks(fl) \ {<<a, o>>}
<1> USE DEF Leaves
<1>1. fl2 \in FreeListT /\ fl2[o] = list /\ \A n \in Order : n # o => fl2[n] = fl[n]
  BY DEF FreeListT, SetList
<1>2. ListsOK(fl2)
  BY <1>1 DEF ListsOK
<1>3. ASSUME NEW b \in Page \X Order
      PROVE  b \in Blocks(fl2) <=> b \in Blocks(fl) \ {<<a, o>>}
  <2>1. b = <<b[1], b[2]>> /\ b[1] \in Page /\ b[2] \in Order
    OBVIOUS
  <2>2. b \in Blocks(fl2) <=> b[1] \in ToSet(fl2[b[2]])
    BY DEF Blocks
  <2>3. b \in Blocks(fl) <=> b[1] \in ToSet(fl[b[2]])
    BY DEF Blocks
  <2>4. b = <<a, o>> <=> b[1] = a /\ b[2] = o
    BY <2>1
  <2>. QED BY <1>1, <2>1, <2>2, <2>3, <2>4
<1>4. Blocks(fl2) \subseteq Page \X Order /\ Blocks(fl) \subseteq Page \X Order
  BY DEF Blocks
<1>. QED BY <1>1, <1>2, <1>3, <1>4

(* A block put on a list is one block more.                                 *)
LEMMA BlockComes ==
  ASSUME NEW fl, NEW o, NEW list, NEW a, NEW fl2, Comes(fl, o, list, a, fl2)
  PROVE  fl2 \in FreeListT /\ ListsOK(fl2) /\ Blocks(fl2) = Blocks(fl) \cup {<<a, o>>}
<1> USE DEF Comes
<1>1. fl2 \in FreeListT /\ fl2[o] = list /\ \A n \in Order : n # o => fl2[n] = fl[n]
  BY DEF FreeListT, SetList
<1>2. ListsOK(fl2)
  BY <1>1 DEF ListsOK
<1>3. ASSUME NEW b \in Page \X Order
      PROVE  b \in Blocks(fl2) <=> b \in Blocks(fl) \cup {<<a, o>>}
  <2>1. b = <<b[1], b[2]>> /\ b[1] \in Page /\ b[2] \in Order
    OBVIOUS
  <2>2. b \in Blocks(fl2) <=> b[1] \in ToSet(fl2[b[2]])
    BY DEF Blocks
  <2>3. b \in Blocks(fl) <=> b[1] \in ToSet(fl[b[2]])
    BY DEF Blocks
  <2>4. b = <<a, o>> <=> b[1] = a /\ b[2] = o
    BY <2>1
  <2>. QED BY <1>1, <2>1, <2>2, <2>3, <2>4
<1>4. Blocks(fl2) \subseteq Page \X Order /\ Blocks(fl) \subseteq Page \X Order
  BY DEF Blocks
<1>. QED BY <1>1, <1>2, <1>3, <1>4
-----------------------------------------------------------------------------
(* The bit of two buddies below the tail tells whether just one is free.    *)
BitsOK(B, map) ==
  \A o \in 0 .. (Top - 1) : \A a \in Nat :
    Aligned(a, o) /\ ~InTail(a) =>
      (calculate_index(o + 1, a) \in map[o + 1]
         <=> ~(<<a, o>> \in B <=> <<Buddy(a, o), o>> \in B))

(* Two free buddies are x and its, or there are none.                       *)
JoinedBut(B, x, n) ==
  \A o \in 0 .. (Top - 1) : \A a \in Nat :
    /\ Aligned(a, o) /\ ~InTail(a) /\ <<a, o>> \in B /\ <<Buddy(a, o), o>> \in B
    => o = n /\ a \in {x, Buddy(x, n)}

Joined(B) ==
  \A o \in 0 .. (Top - 1) : \A a \in Nat :
    Aligned(a, o) /\ ~InTail(a) => ~(<<a, o>> \in B /\ <<Buddy(a, o), o>> \in B)

(* What the flipped map has at the order of the flip.                       *)
LEMMA FlippedAt ==
  ASSUME NEW map \in [Order \ {0} -> SUBSET Nat], NEW o \in Order \ {0}, NEW a
  PROVE  Flip(map, o, a)[o] = SymDiff(map[o], {calculate_index(o, a)})
<1>1. o \in Int /\ Top \in Int /\ ~(o > Top)
  BY OrderFacts
<1>. QED BY <1>1 DEF Flip

(* When the state of one block changes and its bit is flipped, the bits are *)
(* right again.                                                             *)
LEMMA SomeFlips ==
  ASSUME NEW B, NEW B2, NEW map \in [Order \ {0} -> SUBSET Nat], BitsOK(B, map),
         NEW o \in Order, NEW a \in Nat, Aligned(a, o),
         ~(<<a, o>> \in B2 <=> <<a, o>> \in B),
         \A x \in Nat, n \in Order : <<x, n>> # <<a, o>> => (<<x, n>> \in B2 <=> <<x, n>> \in B)
  PROVE  BitsOK(B2, Flip(map, o + 1, a))
<1> SUFFICES ASSUME NEW n \in 0 .. (Top - 1), NEW x \in Nat, Aligned(x, n), ~InTail(x)
             PROVE  calculate_index(n + 1, x) \in Flip(map, o + 1, a)[n + 1]
                      <=> ~(<<x, n>> \in B2 <=> <<Buddy(x, n), n>> \in B2)
  BY DEF BitsOK
<1> DEFINE f == Flip(map, o + 1, a)
           i == calculate_index(n + 1, x)
           y == Buddy(x, n)
<1>1. n \in Nat /\ n \in Order /\ o \in Nat /\ n + 1 \in Order \ {0} /\ n + 1 <= Top
  BY OrderFacts
<1>2. y \in Nat /\ Aligned(y, n) /\ y # x /\ Buddy(y, n) = x /\ i \in Nat
  BY <1>1, BuddyFacts
<1>3. i \in map[n + 1] <=> ~(<<x, n>> \in B <=> <<y, n>> \in B)
  BY DEF BitsOK
<1>4. CASE n # o
  <2>1. f[n + 1] = map[n + 1]
    BY <1>1, <1>4 DEF Flip
  <2>2. <<x, n>> # <<a, o>> /\ <<y, n>> # <<a, o>>
    BY <1>4
  <2>3. (<<x, n>> \in B2 <=> <<x, n>> \in B) /\ (<<y, n>> \in B2 <=> <<y, n>> \in B)
    BY <1>1, <1>2, <2>2
  <2>. QED BY <1>3, <2>1, <2>3
<1>5. CASE n = o /\ calculate_index(n + 1, a) # i
  <2>1. f[n + 1] = SymDiff(map[n + 1], {calculate_index(n + 1, a)})
    BY <1>1, <1>5, FlippedAt
  <2>2. i \in f[n + 1] <=> i \in map[n + 1]
    BY <1>5, <2>1 DEF SymDiff
  <2>3. a # x /\ a # y
    BY <1>1, <1>5, BuddyFacts
  <2>4. (<<x, n>> \in B2 <=> <<x, n>> \in B) /\ (<<y, n>> \in B2 <=> <<y, n>> \in B)
    BY <1>1, <1>2, <2>3
  <2>. QED BY <1>3, <2>2, <2>4
<1>6. CASE n = o /\ calculate_index(n + 1, a) = i
  <2>1. Flip(map, n + 1, a)[n + 1] = SymDiff(map[n + 1], {calculate_index(n + 1, a)})
    BY <1>1, FlippedAt
  <2>2. f[n + 1] = SymDiff(map[n + 1], {i})
    BY <1>6, <2>1
  <2>3. i \in f[n + 1] <=> ~(i \in map[n + 1])
    BY <2>2 DEF SymDiff
  <2>4. a = x \/ a = y
    BY <1>1, <1>6, IndexOfBuddies
  <2>5. CASE a = x
    <3>1. <<y, n>> \in B2 <=> <<y, n>> \in B
      BY <1>1, <1>2, <2>5
    <3>. QED BY <1>3, <1>6, <2>3, <2>5, <3>1
  <2>6. CASE a = y
    <3>1. <<x, n>> \in B2 <=> <<x, n>> \in B
      BY <1>1, <1>2, <2>6
    <3>. QED BY <1>3, <1>6, <2>3, <2>6, <3>1
  <2>. QED BY <2>4, <2>5, <2>6
<1>. QED BY <1>4, <1>5, <1>6

(* Two buddies that come or go together leave their bit as it is.           *)
LEMMA BothFlip ==
  ASSUME NEW B, NEW B2, NEW map, BitsOK(B, map),
         NEW o \in 0 .. (Top - 1), NEW a \in Nat, Aligned(a, o),
         <<a, o>> \in B <=> <<Buddy(a, o), o>> \in B,
         <<a, o>> \in B2 <=> <<Buddy(a, o), o>> \in B2,
         \A x \in Nat, n \in Order :
           <<x, n>> # <<a, o>> /\ <<x, n>> # <<Buddy(a, o), o>> => (<<x, n>> \in B2 <=> <<x, n>> \in B)
  PROVE  BitsOK(B2, map)
<1> SUFFICES ASSUME NEW n \in 0 .. (Top - 1), NEW x \in Nat, Aligned(x, n), ~InTail(x)
             PROVE  calculate_index(n + 1, x) \in map[n + 1]
                      <=> ~(<<x, n>> \in B2 <=> <<Buddy(x, n), n>> \in B2)
  BY DEF BitsOK
<1> DEFINE y == Buddy(x, n)
           b == Buddy(a, o)
<1>1. n \in Nat /\ n \in Order /\ o \in Nat
  BY OrderFacts
<1>2. y \in Nat /\ Buddy(y, n) = x /\ b \in Nat /\ Buddy(b, o) = a
  BY <1>1, BuddyFacts
<1>3. calculate_index(n + 1, x) \in map[n + 1] <=> ~(<<x, n>> \in B <=> <<y, n>> \in B)
  BY DEF BitsOK
<1>4. CASE n = o /\ x \in {a, b}
  <2>1. {x, y} = {a, b}
    BY <1>2, <1>4
  <2>. QED BY <1>3, <1>4, <2>1
<1>5. CASE ~(n = o /\ x \in {a, b})
  <2>1. ~(n = o /\ y \in {a, b})
    BY <1>2, <1>5
  <2>2. /\ <<x, n>> # <<a, o>> /\ <<x, n>> # <<b, o>>
        /\ <<y, n>> # <<a, o>> /\ <<y, n>> # <<b, o>>
    BY <1>5, <2>1
  <2>3. (<<x, n>> \in B2 <=> <<x, n>> \in B) /\ (<<y, n>> \in B2 <=> <<y, n>> \in B)
    BY <1>1, <1>2, <2>2
  <2>. QED BY <1>3, <2>3
<1>. QED BY <1>4, <1>5
-----------------------------------------------------------------------------
(* The two halves of a block                                                *)
LEMMA Halves ==
  ASSUME NEW o \in Nat, NEW t \in Nat, Aligned(t, o + 1)
  PROVE  /\ Aligned(t, o) /\ Buddy(t, o) = t + npages[o]
         /\ t + npages[o] \in Nat /\ Aligned(t + npages[o], o) /\ Buddy(t + npages[o], o) = t
<1>1. npages[o] \in Nat \ {0} /\ npages[o + 1] \in Nat \ {0} /\ o + 1 \in Nat
  BY PowerFacts
<1>2. Aligned(t, o)
  BY <1>1, AlignedDown
<1>3. PICK q \in Nat :
           \/ t = q * npages[o + 1] /\ Buddy(t, o) = t + npages[o]
           \/ t = q * npages[o + 1] + npages[o] /\ calculate_index(o + 1, t) = q
  BY <1>2, BuddyCases
<1>4. t = calculate_index(o + 1, t) * npages[o + 1]
  BY <1>1, AlignedIndex
<1>5. Buddy(t, o) = t + npages[o]
  <2>1. CASE t = q * npages[o + 1] + npages[o] /\ calculate_index(o + 1, t) = q
    <3>1. t = q * npages[o + 1] /\ q * npages[o + 1] \in Nat
      BY <1>1, <1>4, <2>1
    <3>. QED BY <1>1, <2>1, <3>1
  <2>. QED BY <1>3, <2>1
<1>. QED BY <1>1, <1>2, <1>5, BuddyFacts

(* Removing the one of two free buddies leaves no two.                      *)
LEMMA OneGone ==
  ASSUME NEW B, NEW x \in Nat, NEW n \in Order, Aligned(x, n), JoinedBut(B, x, n)
  PROVE  Joined(B \ {<<x, n>>})
<1> SUFFICES ASSUME NEW o \in 0 .. (Top - 1), NEW a \in Nat, Aligned(a, o), ~InTail(a),
                    <<a, o>> \in B \ {<<x, n>>}, <<Buddy(a, o), o>> \in B \ {<<x, n>>}
             PROVE  FALSE
  BY DEF Joined
<1>1. o = n /\ a \in {x, Buddy(x, n)}
  BY DEF JoinedBut
<1>2. a = x \/ Buddy(a, o) = x
  BY <1>1, OrderFacts, BuddyFacts
<1>. QED BY <1>1, <1>2

(* Where no two buddies are free, none are but any given two.               *)
LEMMA JoinedIsBut ==
  ASSUME NEW B, Joined(B), NEW x, NEW n
  PROVE  JoinedBut(B, x, n)
BY DEF Joined, JoinedBut

(* One more free block: it and its buddy may both be free now.              *)
LEMMA OneMore ==
  ASSUME NEW B, NEW x \in Nat, NEW n \in Order, Aligned(x, n), Joined(B)
  PROVE  JoinedBut(B \cup {<<x, n>>}, x, n)
<1> SUFFICES ASSUME NEW o \in 0 .. (Top - 1), NEW a \in Nat, Aligned(a, o), ~InTail(a),
                    <<a, o>> \in B \cup {<<x, n>>}, <<Buddy(a, o), o>> \in B \cup {<<x, n>>}
             PROVE  o = n /\ a \in {x, Buddy(x, n)}
  BY DEF JoinedBut
<1>1. <<a, o>> = <<x, n>> \/ <<Buddy(a, o), o>> = <<x, n>>
  BY DEF Joined
<1>2. CASE <<a, o>> = <<x, n>>
  BY <1>2
<1>3. CASE <<Buddy(a, o), o>> = <<x, n>>
  <2>1. o \in Nat /\ o = n /\ Buddy(a, o) = x
    BY <1>3
  <2>2. Buddy(x, n) = a
    BY <2>1, BuddyFacts
  <2>. QED BY <2>1, <2>2
<1>. QED BY <1>1, <1>2, <1>3

(* A block is taken apart: what is free then.                               *)
TakenApart(B, F, map, n, t, u, B1, B2, B3) ==
  /\ F \in SUBSET Page /\ Tiles(B, F) /\ map \in [Order \ {0} -> SUBSET Nat] /\ BitsOK(B, map)
  /\ n \in Order \ {0} /\ t \in Nat /\ Aligned(t, n) /\ <<t, n>> \in B /\ JoinedBut(B, t, n)
  /\ u = t + npages[n - 1]
  /\ B1 = B \ {<<t, n>>} /\ B2 = B1 \cup {<<t, n - 1>>} /\ B3 = B2 \cup {<<u, n - 1>>}

(* A block and its two halves: the blocks still make up F, and the bits are *)
(* right after the one flip of split.                                       *)
LEMMA SplitBlocks ==
  ASSUME NEW B, NEW F, NEW map, NEW n, NEW t, NEW u, NEW B1, NEW B2, NEW B3,
         TakenApart(B, F, map, n, t, u, B1, B2, B3)
  PROVE  /\ t \in Page /\ u \in Page /\ Aligned(t, n - 1) /\ Aligned(u, n - 1)
         /\ <<t, n - 1>> \notin B1 /\ <<u, n - 1>> \notin B2
         /\ Tiles(B3, F) /\ BitsOK(B3, Flip(map, n + 1, t)) /\ JoinedBut(B3, u, n - 1)
<1> USE DEF TakenApart
<1>1. n \in Nat /\ n - 1 \in Nat /\ n = (n - 1) + 1 /\ n - 1 \in Order /\ n - 1 \in 0 .. (Top - 1)
  BY OrderFacts
<1>2. /\ Aligned(t, n - 1) /\ Buddy(t, n - 1) = u /\ u \in Nat /\ Aligned(u, n - 1)
      /\ Buddy(u, n - 1) = t /\ u # t
  <2> DEFINE o == n - 1
  <2>1. o \in Nat /\ o + 1 = n
    BY <1>1
  <2> HIDE DEF o
  <2>2. Aligned(t, o + 1)
    BY <2>1
  <2>3. /\ Aligned(t, o) /\ Buddy(t, o) = t + npages[o]
        /\ t + npages[o] \in Nat /\ Aligned(t + npages[o], o) /\ Buddy(t + npages[o], o) = t
    BY <2>1, <2>2, Halves
  <2>4. Buddy(t, o) # t
    BY <2>1, <2>3, BuddyFacts
  <2>. QED BY <2>3, <2>4 DEF o
<1>3. /\ t \in Block(t, n - 1) /\ u \in Block(u, n - 1)
      /\ Block(t, n) = Block(t, n - 1) \cup Block(u, n - 1)
      /\ Block(t, n - 1) \cap Block(u, n - 1) = {}
  <2> DEFINE o == n - 1
  <2>1. o \in Nat /\ o + 1 = n
    BY <1>1
  <2>2. u = t + npages[o]
    OBVIOUS
  <2> HIDE DEF o
  <2>3. /\ t \in Block(t, o) /\ u \in Block(u, o)
        /\ Block(t, o + 1) = Block(t, o) \cup Block(u, o) /\ Block(t, o) \cap Block(u, o) = {}
    BY <1>2, <2>1, <2>2, BlockFacts
  <2>. QED BY <2>1, <2>3 DEF o
<1>4. Tiles(B1, F \ Block(t, n)) /\ Block(t, n) \subseteq F
  <2>1. <<t, n>>[1] = t /\ <<t, n>>[2] = n
    OBVIOUS
  <2>. QED BY <2>1, TilesRemove
<1>5. t \in Page /\ u \in Page
  BY <1>3, <1>4
<1>6. <<t, n - 1>> \notin B1
  <2>1. ASSUME <<t, n - 1>> \in B1 PROVE FALSE
    <3>1. Block(<<t, n - 1>>[1], <<t, n - 1>>[2]) \subseteq F \ Block(t, n)
      BY <1>4, <2>1 DEF Tiles
    <3>2. Block(t, n - 1) \subseteq F \ Block(t, n)
      BY <3>1
    <3>. QED BY <1>3, <3>2
  <2>. QED BY <2>1
<1>7. Tiles(B2, (F \ Block(t, n)) \cup Block(t, n - 1))
  <2>1. <<t, n - 1>>[1] = t /\ <<t, n - 1>>[2] = n - 1
    OBVIOUS
  <2>2. \A p \in Block(t, n - 1) : p \notin F \ Block(t, n)
    BY <1>3
  <2>. QED BY <1>4, <2>1, <2>2, TilesAdd
<1>8. <<u, n - 1>> \notin B2
  <2>1. ASSUME <<u, n - 1>> \in B2 PROVE FALSE
    <3>1. Block(<<u, n - 1>>[1], <<u, n - 1>>[2]) \subseteq (F \ Block(t, n)) \cup Block(t, n - 1)
      BY <1>7, <2>1 DEF Tiles
    <3>2. Block(u, n - 1) \subseteq (F \ Block(t, n)) \cup Block(t, n - 1)
      BY <3>1
    <3>. QED BY <1>3, <3>2
  <2>. QED BY <2>1
<1>9. Tiles(B3, F)
  <2>1. <<u, n - 1>>[1] = u /\ <<u, n - 1>>[2] = n - 1
    OBVIOUS
  <2>2. \A p \in Block(u, n - 1) : p \notin (F \ Block(t, n)) \cup Block(t, n - 1)
    BY <1>3
  <2>3. Tiles(B3, ((F \ Block(t, n)) \cup Block(t, n - 1)) \cup Block(u, n - 1))
    BY <1>7, <2>1, <2>2, TilesAdd
  <2>4. ((F \ Block(t, n)) \cup Block(t, n - 1)) \cup Block(u, n - 1) = F
    BY <1>3, <1>4
  <2>. QED BY <2>3, <2>4
<1>10. BitsOK(B1, Flip(map, n + 1, t))
  <2>1. ~(<<t, n>> \in B1 <=> <<t, n>> \in B)
    OBVIOUS
  <2>2. \A x \in Nat, m \in Order : <<x, m>> # <<t, n>> => (<<x, m>> \in B1 <=> <<x, m>> \in B)
    OBVIOUS
  <2>. QED BY <2>1, <2>2, SomeFlips
<1>11. BitsOK(B3, Flip(map, n + 1, t))
  <2>1. <<u, n - 1>> \notin B1
    BY <1>8
  <2>2. <<t, n - 1>> \in B3 /\ <<u, n - 1>> \in B3
    OBVIOUS
  <2>3. \A x \in Nat, m \in Order : <<x, m>> # <<t, n - 1>> /\ <<x, m>> # <<u, n - 1>>
                                      => (<<x, m>> \in B3 <=> <<x, m>> \in B1)
    OBVIOUS
  <2>. QED BY <1>1, <1>2, <1>6, <1>10, <2>1, <2>2, <2>3, BothFlip
<1>12. JoinedBut(B3, u, n - 1)
  <2>1. Joined(B1)
    BY OneGone
  <2> SUFFICES ASSUME NEW o \in 0 .. (Top - 1), NEW a \in Nat, Aligned(a, o), ~InTail(a),
                      <<a, o>> \in B3, <<Buddy(a, o), o>> \in B3
               PROVE  o = n - 1 /\ a \in {u, Buddy(u, n - 1)}
    BY DEF JoinedBut
  <2>2. ~(<<a, o>> \in B1 /\ <<Buddy(a, o), o>> \in B1)
    BY <2>1 DEF Joined
  <2>3. <<a, o>> \in {<<t, n - 1>>, <<u, n - 1>>} \/ <<Buddy(a, o), o>> \in {<<t, n - 1>>, <<u, n - 1>>}
    BY <2>2
  <2>4. o = n - 1 /\ (a \in {t, u} \/ Buddy(a, o) \in {t, u})
    BY <2>3
  <2>5. o \in Nat /\ Buddy(Buddy(a, o), o) = a
    BY <1>1, <2>4, BuddyFacts
  <2>. QED BY <1>2, <2>4, <2>5
<1>. QED BY <1>2, <1>5, <1>6, <1>8, <1>9, <1>11, <1>12
-----------------------------------------------------------------------------
(* Two free buddies become one block.                                       *)
PutTogether(B, F, map, n, a, b, low, B1, B2, B3) ==
  /\ F \in SUBSET Page /\ Tiles(B, F) /\ map \in [Order \ {0} -> SUBSET Nat] /\ BitsOK(B, map)
  /\ n \in 0 .. (Top - 1) /\ a \in Nat /\ Aligned(a, n) /\ <<a, n>> \in B /\ JoinedBut(B, a, n)
  /\ b = Buddy(a, n) /\ <<b, n>> \in B /\ low = Low(a, n)
  /\ B1 = B \ {<<a, n>>} /\ B2 = B1 \ {<<b, n>>} /\ B3 = B2 \cup {<<low, n + 1>>}

(* Two free buddies become one block, and only this one may now have a free *)
(* buddy.                                                                   *)
LEMMA JoinBlocks ==
  ASSUME NEW B, NEW F, NEW map, NEW n, NEW a, NEW b, NEW low, NEW B1, NEW B2, NEW B3,
         PutTogether(B, F, map, n, a, b, low, B1, B2, B3)
  PROVE  /\ low \in Page /\ Aligned(low, n + 1) /\ <<low, n + 1>> \notin B2
         /\ Tiles(B3, F) /\ BitsOK(B3, Flip(map, (n + 1) + 1, low)) /\ JoinedBut(B3, low, n + 1)
<1> USE DEF PutTogether
<1>1. n \in Nat /\ n \in Order /\ n + 1 \in Order /\ n + 1 \in Nat
  BY OrderFacts
<1>2. /\ b \in Nat /\ Aligned(b, n) /\ b # a /\ Buddy(b, n) = a
      /\ low \in Nat /\ Aligned(low, n + 1) /\ {a, b} = {low, low + npages[n]}
      /\ low \in {a, b}
  BY <1>1, BuddyFacts
<1>3. /\ Block(low, n + 1) = Block(a, n) \cup Block(b, n)
      /\ Block(a, n) \cap Block(b, n) = {} /\ a \in Block(a, n) /\ b \in Block(b, n)
  <2>1. /\ Block(low, n + 1) = Block(low, n) \cup Block(low + npages[n], n)
        /\ Block(low, n) \cap Block(low + npages[n], n) = {}
    BY <1>1, <1>2, BlockFacts
  <2>2. (a = low /\ b = low + npages[n]) \/ (a = low + npages[n] /\ b = low)
    BY <1>2
  <2>3. a \in Block(a, n) /\ b \in Block(b, n)
    BY <1>1, <1>2, BlockFacts
  <2>. QED BY <2>1, <2>2, <2>3
<1>4. Tiles(B1, F \ Block(a, n)) /\ Block(a, n) \subseteq F
  <2>1. <<a, n>>[1] = a /\ <<a, n>>[2] = n
    OBVIOUS
  <2>. QED BY <2>1, TilesRemove
<1>5. Tiles(B2, (F \ Block(a, n)) \ Block(b, n)) /\ Block(b, n) \subseteq F
  <2>1. <<b, n>>[1] = b /\ <<b, n>>[2] = n /\ <<b, n>> \in B1
    BY <1>2
  <2>2. Tiles(B2, (F \ Block(a, n)) \ Block(b, n)) /\ Block(b, n) \subseteq F \ Block(a, n)
    BY <1>4, <2>1, TilesRemove
  <2>. QED BY <2>2
<1>6. low \in Page
  BY <1>2, <1>3, <1>4, <1>5
<1>7. <<low, n + 1>> \notin B2
  <2>1. ASSUME <<low, n + 1>> \in B2 PROVE FALSE
    <3>1. Block(<<low, n + 1>>[1], <<low, n + 1>>[2]) \subseteq (F \ Block(a, n)) \ Block(b, n)
      BY <1>5, <2>1 DEF Tiles
    <3>2. Block(low, n + 1) \subseteq (F \ Block(a, n)) \ Block(b, n)
      BY <3>1
    <3>. QED BY <1>3, <3>2
  <2>. QED BY <2>1
<1>8. Tiles(B3, F)
  <2>1. <<low, n + 1>>[1] = low /\ <<low, n + 1>>[2] = n + 1
    OBVIOUS
  <2>2. \A p \in Block(low, n + 1) : p \notin (F \ Block(a, n)) \ Block(b, n)
    BY <1>3
  <2>3. Tiles(B3, ((F \ Block(a, n)) \ Block(b, n)) \cup Block(low, n + 1))
    BY <1>5, <2>1, <2>2, TilesAdd
  <2>4. ((F \ Block(a, n)) \ Block(b, n)) \cup Block(low, n + 1) = F
    BY <1>3, <1>4, <1>5
  <2>. QED BY <2>3, <2>4
<1>9. BitsOK(B2, map)
  <2>1. <<a, n>> \notin B2 /\ <<b, n>> \notin B2
    OBVIOUS
  <2>2. \A x \in Nat, m \in Order : <<x, m>> # <<a, n>> /\ <<x, m>> # <<b, n>>
                                      => (<<x, m>> \in B2 <=> <<x, m>> \in B)
    OBVIOUS
  <2>. QED BY <2>1, <2>2, BothFlip
<1>10. BitsOK(B3, Flip(map, (n + 1) + 1, low))
  <2>1. ~(<<low, n + 1>> \in B3 <=> <<low, n + 1>> \in B2)
    BY <1>7
  <2>2. \A x \in Nat, m \in Order : <<x, m>> # <<low, n + 1>> => (<<x, m>> \in B3 <=> <<x, m>> \in B2)
    OBVIOUS
  <2>3. n + 1 \in Order /\ low \in Nat /\ Aligned(low, n + 1)
    BY <1>1, <1>2
  <2> DEFINE o == n + 1
  <2> HIDE DEF o
  <2>4. BitsOK(B3, Flip(map, o + 1, low))
    BY <1>9, <2>1, <2>2, <2>3, SomeFlips DEF o
  <2>. QED BY <2>4 DEF o
<1>11. Joined(B2)
  <2> SUFFICES ASSUME NEW o \in 0 .. (Top - 1), NEW x \in Nat, Aligned(x, o), ~InTail(x),
                      <<x, o>> \in B2, <<Buddy(x, o), o>> \in B2
               PROVE  FALSE
    BY DEF Joined
  <2>1. o = n /\ x \in {a, b}
    BY DEF JoinedBut
  <2>. QED BY <2>1
<1>12. JoinedBut(B3, low, n + 1)
  BY <1>1, <1>2, <1>11, OneMore
<1>. QED BY <1>2, <1>6, <1>7, <1>8, <1>10, <1>12
-----------------------------------------------------------------------------
(* A group whose free blocks make up F, with x and its buddy perhaps both free *)
Holds(g, F) ==
  /\ g \in GroupT /\ ListsOK(g.pg_freelist) /\ F \in SUBSET Page
  /\ Tiles(Blocks(g.pg_freelist), F) /\ BitsOK(Blocks(g.pg_freelist), g.pg_map)
  /\ g.page_freecount = Cardinality(F)
GoodBut(g, F, x, n) == Holds(g, F) /\ JoinedBut(Blocks(g.pg_freelist), x, n)
Good(g, F) == Holds(g, F) /\ Joined(Blocks(g.pg_freelist))

(* What Holds says of the parts of a group.                                 *)
LEMMA HoldsFacts ==
  ASSUME NEW g, NEW F, Holds(g, F)
  PROVE  /\ g \in GroupT /\ g.pg_freelist \in FreeListT /\ ListsOK(g.pg_freelist)
         /\ g.pg_map \in [Order \ {0} -> SUBSET Nat]
BY DEF Holds, GroupT

(* The first block of a list                                                *)
LEMMA HeadOfList ==
  ASSUME NEW g, NEW F, Holds(g, F), NEW n \in Order, g.pg_freelist[n] # <<>>,
         NEW t, t = Head(g.pg_freelist[n])
  PROVE  /\ t \in Page /\ t \in Nat /\ Aligned(t, n) /\ <<t, n>> \in Blocks(g.pg_freelist)
         /\ Block(t, n) \subseteq F /\ t \in F
<1>1. g.pg_freelist[n] \in Seq(Nat) /\ ListsOK(g.pg_freelist)
  BY HoldsFacts DEF FreeListT
<1>2. t \in ToSet(g.pg_freelist[n])
  BY <1>1, ListPop
<1>3. t \in Page /\ Aligned(t, n)
  BY <1>1, <1>2 DEF ListsOK
<1>4. <<t, n>> \in Blocks(g.pg_freelist)
  BY <1>2, <1>3, InBlocks
<1>5. <<t, n>>[1] = t /\ <<t, n>>[2] = n
  OBVIOUS
<1>6. Block(t, n) \subseteq F
  BY <1>4, <1>5 DEF Holds, Tiles
<1>7. t \in Nat /\ n \in Nat
  BY <1>3, OrderFacts
<1>. QED BY <1>3, <1>4, <1>6, <1>7, BlockFacts

SplitOf(g, n, t, u, h) ==
  /\ g \in GroupT /\ n \in Order \ {0} /\ g.pg_freelist[n] # <<>>
  /\ t = Head(g.pg_freelist[n]) /\ u = t + npages[n - 1] /\ h = split(g, n)

(* split, field by field                                                    *)
SplitLeaves(g, n, t, u, h) ==
  /\ h \in GroupT /\ t \in Nat /\ h.pg_map = Flip(g.pg_map, n + 1, t)
  /\ h.page_freecount = g.page_freecount /\ h.intact = g.intact
  /\ h.pg_freelist =
       [[g.pg_freelist EXCEPT ![n] = Tail(g.pg_freelist[n])]
          EXCEPT ![n - 1] = <<u>> \o (<<t>> \o g.pg_freelist[n - 1])]
  /\ h.pg_freelist[n - 1] # <<>> /\ Head(h.pg_freelist[n - 1]) = u

(* Two addresses are put on a list one after the other.                     *)
LEMMA PushTwo ==
  ASSUME NEW x \in Nat, NEW y \in Nat, NEW list \in Seq(Nat)
  PROVE  <<x, y>> \o list = <<x>> \o (<<y>> \o list)
<1> DEFINE p == <<x, y>> \o list
           q == <<x>> \o (<<y>> \o list)
<1>1. p \in Seq(Nat) /\ q \in Seq(Nat) /\ Len(p) = Len(list) + 2 /\ Len(q) = Len(list) + 2
  OBVIOUS
<1>2. \A k \in 1 .. Len(p) : p[k] = IF k = 1 THEN x ELSE IF k = 2 THEN y ELSE list[k - 2]
  OBVIOUS
<1>3. \A k \in 1 .. Len(p) : q[k] = IF k = 1 THEN x ELSE IF k = 2 THEN y ELSE list[k - 2]
  OBVIOUS
<1> HIDE DEF p, q
<1>4. Len(p) = Len(q) /\ \A k \in 1 .. Len(p) : p[k] = q[k]
  BY <1>1, <1>2, <1>3
<1>5. p = q
  BY <1>1, <1>4, SeqEqual
<1>. QED BY <1>5 DEF p, q

(* What split does to each part of the group.                               *)
LEMMA SplitIs ==
  ASSUME NEW g, NEW n, NEW t, NEW u, NEW h, SplitOf(g, n, t, u, h)
  PROVE  SplitLeaves(g, n, t, u, h)
<1> USE DEF SplitOf, SplitLeaves
<1>1. n \in Nat /\ n - 1 \in Nat /\ n - 1 \in Order /\ n \in Order /\ n - 1 # n /\ n + 1 \in Nat \ {0}
  BY OrderFacts
<1>2. g.pg_freelist[n] \in Seq(Nat) /\ g.pg_freelist[n - 1] \in Seq(Nat)
  BY <1>1 DEF GroupT, FreeListT
<1>3. t \in Nat /\ Tail(g.pg_freelist[n]) \in Seq(Nat)
  BY <1>2, ListPop
<1>4. t + npages[n - 1] \in Nat
  <2>1. npages[n - 1] \in Nat
    BY <1>1, PowerFacts
  <2>. QED BY <1>3, <2>1
<1> DEFINE m == bit_flip(g, n + 1, t)
           l == g.pg_freelist[n - 1]
           l2 == <<t + npages[n - 1]>> \o (<<t>> \o l)
<1>5. /\ m \in GroupT /\ m.pg_freelist = g.pg_freelist /\ m.pg_map = Flip(g.pg_map, n + 1, t)
      /\ m.page_freecount = g.page_freecount /\ m.intact = g.intact
  <2>1. \A o \in Nat \ {0}, x \in Nat : \A y : y = bit_flip(g, o, x) =>
          /\ y \in GroupT /\ y.pg_freelist = g.pg_freelist /\ y.pg_map = Flip(g.pg_map, o, x)
          /\ y.page_freecount = g.page_freecount /\ y.intact = g.intact
    BY BitFlipIs
  <2>2. m = bit_flip(g, n + 1, t)
    OBVIOUS
  <2> HIDE DEF m
  <2>3. \A y : y = bit_flip(g, n + 1, t) =>
          /\ y \in GroupT /\ y.pg_freelist = g.pg_freelist /\ y.pg_map = Flip(g.pg_map, n + 1, t)
          /\ y.page_freecount = g.page_freecount /\ y.intact = g.intact
    BY <1>1, <1>3, <2>1
  <2>. QED BY <2>2, <2>3, Zenon
<1>6. <<t + npages[n - 1], t>> \o l = l2
  BY <1>2, <1>3, <1>4, PushTwo
<1>7. l2 \in Seq(Nat) /\ l2 # <<>> /\ Head(l2) = t + npages[n - 1]
  BY <1>2, <1>3, <1>4, ListPush
<1>8. h = [m EXCEPT !.pg_freelist[n] = Tail(@), !.pg_freelist[n - 1] = <<t + npages[n - 1], t>> \o @]
  BY Zenon DEF split
<1> HIDE DEF m, l2
<1>9. /\ h.pg_freelist = [[m.pg_freelist EXCEPT ![n] = Tail(m.pg_freelist[n])]
                            EXCEPT ![n - 1] = <<t + npages[n - 1], t>> \o m.pg_freelist[n - 1]]
      /\ h.pg_map = m.pg_map /\ h.page_freecount = m.page_freecount /\ h.intact = m.intact
      /\ h = [pg_freelist |-> h.pg_freelist, pg_map |-> h.pg_map,
              page_freecount |-> h.page_freecount, intact |-> h.intact]
  BY <1>1, <1>5, <1>8 DEF GroupT, FreeListT
<1>10. h.pg_freelist = [[g.pg_freelist EXCEPT ![n] = Tail(g.pg_freelist[n])] EXCEPT ![n - 1] = l2]
  BY <1>5, <1>6, <1>9
<1>11. g.pg_freelist \in FreeListT
  BY DEF GroupT
<1>12. h.pg_freelist \in FreeListT /\ h.pg_freelist[n - 1] = l2
  BY <1>1, <1>3, <1>7, <1>10, <1>11 DEF FreeListT
<1>13. h \in GroupT
  BY <1>5, <1>9, <1>12 DEF GroupT
<1>. QED BY <1>3, <1>5, <1>7, <1>9, <1>10, <1>12, <1>13 DEF l2
-----------------------------------------------------------------------------
(* The loops of the code, each a function of the turns taken.  There is one *)
(* such function, as for npages.                                            *)
StepOf(loop, p, x, k) ==
  IF loop = 1 THEN split(x, p - (k - 1))
  ELSE IF loop = 2 THEN join(x, k - 1)
  ELSE IF loop = 3 THEN reclaim_slab(x, p)
  ELSE IF loop = 4 THEN reclaim_cache(x, p[k])
  ELSE CreateBucket(x, kmalloc_allocators[k])

IsLoop(loop, p, at, S, lo, hi) ==
  at = [k \in lo .. hi |-> IF k = lo THEN S ELSE StepOf(loop, p, at[k - 1], k)]

(* Induction over the turns of a loop.                                      *)
LEMMA RangeInduction ==
  ASSUME NEW lo \in Nat, NEW hi \in Nat, NEW T, lo \in T,
         \A k \in lo .. (hi - 1) : k \in T => k + 1 \in T
  PROVE  \A k \in lo .. hi : k \in T
<1> DEFINE U == {d \in Nat : lo + d <= hi => lo + d \in T}
<1>1. 0 \in U
  OBVIOUS
<1>2. \A d \in Nat : d \in U => d + 1 \in U
  <2> SUFFICES ASSUME NEW d \in Nat, d \in U, lo + (d + 1) <= hi PROVE lo + (d + 1) \in T
    OBVIOUS
  <2>1. lo + d \in lo .. (hi - 1) /\ (lo + d) + 1 = lo + (d + 1)
    OBVIOUS
  <2>. QED BY <2>1
<1>3. \A d \in Nat : d \in U
  <2> HIDE DEF U
  <2>. QED BY <1>1, <1>2, SetInduction
<1>4. \A k \in lo .. hi : k - lo \in Nat /\ lo + (k - lo) = k
  OBVIOUS
<1>. QED BY <1>3, <1>4

(* Every loop of the model runs.                                            *)
LEMMA LoopExists ==
  ASSUME NEW loop, NEW p, NEW S, NEW lo \in Nat, NEW hi \in Nat, lo <= hi
  PROVE  \E at : IsLoop(loop, p, at, S, lo, hi)
<1> DEFINE T == {k \in Nat : \E at : IsLoop(loop, p, at, S, lo, k)}
<1>1. lo \in T
  <2> DEFINE at == [i \in lo .. lo |-> S]
  <2>1. at = [i \in lo .. lo |-> IF i = lo THEN S ELSE StepOf(loop, p, at[i - 1], i)]
    OBVIOUS
  <2>. QED BY <2>1 DEF IsLoop
<1>2. ASSUME NEW k \in lo .. (hi - 1), k \in T PROVE k + 1 \in T
  <2>1. PICK g : IsLoop(loop, p, g, S, lo, k)
    BY <1>2
  <2>2. PICK y : y = StepOf(loop, p, g[k], k + 1)
    OBVIOUS
  <2> DEFINE h == [i \in lo .. (k + 1) |-> IF i = k + 1 THEN y ELSE g[i]]
  <2>3. ASSUME NEW i \in lo .. (k + 1)
        PROVE  h[i] = IF i = lo THEN S ELSE StepOf(loop, p, h[i - 1], i)
    <3>1. CASE i = lo
      <4>1. h[i] = g[i] /\ i \in lo .. k
        BY <3>1
      <4>. QED BY <2>1, <3>1, <4>1 DEF IsLoop
    <3>2. CASE i = k + 1
      <4>1. h[i] = y /\ i - 1 = k /\ h[k] = g[k] /\ i # lo
        BY <3>2
      <4>. QED BY <2>2, <3>2, <4>1
    <3>3. CASE i # lo /\ i # k + 1
      <4>1. i \in lo .. k /\ i - 1 \in lo .. k /\ h[i] = g[i] /\ h[i - 1] = g[i - 1]
        BY <3>3
      <4>2. g[i] = StepOf(loop, p, g[i - 1], i)
        BY <2>1, <3>3, <4>1 DEF IsLoop
      <4>. QED BY <3>3, <4>1, <4>2
    <3>. QED BY <3>1, <3>2, <3>3
  <2>4. IsLoop(loop, p, h, S, lo, k + 1)
    <3>1. h = [i \in lo .. (k + 1) |-> IF i = lo THEN S ELSE StepOf(loop, p, h[i - 1], i)]
      BY <2>3
    <3>. QED BY <3>1 DEF IsLoop
  <2>. QED BY <2>4
<1> HIDE DEF T
<1>3. hi \in T
  BY <1>1, <1>2, RangeInduction
<1>. QED BY <1>3 DEF T

(* From turn to turn                                                        *)
Turns(loop, p, at, S, lo, hi) ==
  at[lo] = S /\ \A k \in lo .. (hi - 1) : at[k + 1] = StepOf(loop, p, at[k], k + 1)

(* The recursive function of a loop does what each of its turns does.       *)
LEMMA LoopTurns ==
  ASSUME NEW loop, NEW p, NEW S, NEW lo \in Nat, NEW hi \in Nat, lo <= hi, NEW at,
         at = CHOOSE f : IsLoop(loop, p, f, S, lo, hi)
  PROVE  Turns(loop, p, at, S, lo, hi)
<1>1. IsLoop(loop, p, at, S, lo, hi)
  BY LoopExists
<1>2. \A k \in lo .. hi : at[k] = IF k = lo THEN S ELSE StepOf(loop, p, at[k - 1], k)
  BY <1>1 DEF IsLoop
<1>3. \A k \in lo .. (hi - 1) : k + 1 \in lo .. hi /\ k + 1 # lo /\ (k + 1) - 1 = k
  OBVIOUS
<1>4. ASSUME NEW k \in lo .. (hi - 1) PROVE at[k + 1] = StepOf(loop, p, at[k], k + 1)
  BY <1>2, <1>3
<1>. QED BY <1>2, <1>4 DEF Turns
-----------------------------------------------------------------------------
(* A block is put on a list, or taken off it.                               *)
LEMMA PushBlock ==
  ASSUME NEW fl \in FreeListT, ListsOK(fl), NEW o \in Order, NEW a \in Page, Aligned(a, o),
         <<a, o>> \notin Blocks(fl), NEW fl2, SetList(fl, o, <<a>> \o fl[o], fl2)
  PROVE  /\ fl2 \in FreeListT /\ ListsOK(fl2) /\ Blocks(fl2) = Blocks(fl) \cup {<<a, o>>}
         /\ fl2[o] = <<a>> \o fl[o]
<1>1. fl[o] \in Seq(Nat) /\ IsInjective(fl[o]) /\ a \in Nat
  BY OrderFacts DEF FreeListT, ListsOK
<1>2. a \notin ToSet(fl[o])
  BY InBlocks
<1>3. PICK l : l = <<a>> \o fl[o]
  OBVIOUS
<1>4. l \in Seq(Nat) /\ ToSet(l) = ToSet(fl[o]) \cup {a} /\ IsInjective(l)
  BY <1>1, <1>2, <1>3, ListPush
<1>5. SetList(fl, o, l, fl2)
  BY <1>3
<1>6. Comes(fl, o, l, a, fl2)
  BY <1>4, <1>5 DEF Comes
<1>7. fl2 \in FreeListT /\ ListsOK(fl2) /\ Blocks(fl2) = Blocks(fl) \cup {<<a, o>>}
  BY <1>6, BlockComes
<1>. QED BY <1>3, <1>5, <1>7 DEF FreeListT, SetList

(* The first block of a list is taken off.                                  *)
LEMMA PopBlock ==
  ASSUME NEW fl \in FreeListT, ListsOK(fl), NEW o \in Order, fl[o] # <<>>,
         NEW a, a = Head(fl[o]), NEW fl2, SetList(fl, o, Tail(fl[o]), fl2)
  PROVE  fl2 \in FreeListT /\ ListsOK(fl2) /\ Blocks(fl2) = Blocks(fl) \ {<<a, o>>}
<1>1. fl[o] \in Seq(Nat) /\ IsInjective(fl[o])
  BY DEF FreeListT, ListsOK
<1>2. PICK l : l = Tail(fl[o])
  OBVIOUS
<1>3. l \in Seq(Nat) /\ ToSet(l) = ToSet(fl[o]) \ {a} /\ IsInjective(l)
  BY <1>1, <1>2, ListPop
<1>4. SetList(fl, o, l, fl2)
  BY <1>2
<1>5. Leaves(fl, o, l, a, fl2)
  BY <1>1, <1>3, <1>4 DEF Leaves
<1>. QED BY <1>5, BlockLeaves

Removes(fl, o, a, fl2) ==
  fl \in FreeListT /\ ListsOK(fl) /\ o \in Order /\ SetList(fl, o, list_remove(fl[o], a), fl2)

(* list_remove takes a block off.                                           *)
LEMMA RemoveBlock ==
  ASSUME NEW fl, NEW o, NEW a, NEW fl2, Removes(fl, o, a, fl2)
  PROVE  /\ fl2 \in FreeListT /\ ListsOK(fl2) /\ Blocks(fl2) = Blocks(fl) \ {<<a, o>>}
         /\ fl2[o] = list_remove(fl[o], a)
<1> USE DEF Removes
<1>1. fl[o] \in Seq(Nat) /\ IsInjective(fl[o])
  BY DEF FreeListT, ListsOK
<1>2. PICK l : l = list_remove(fl[o], a)
  OBVIOUS
<1>3. l \in Seq(Nat) /\ ToSet(l) = ToSet(fl[o]) \ {a} /\ IsInjective(l)
  BY <1>1, <1>2, ListRemove
<1>4. SetList(fl, o, l, fl2)
  BY <1>2
<1>5. fl2 \in FreeListT /\ ListsOK(fl2) /\ Blocks(fl2) = Blocks(fl) \ {<<a, o>>}
  <2>1. Leaves(fl, o, l, a, fl2)
    BY <1>3, <1>4 DEF Leaves
  <2>. QED BY <2>1, BlockLeaves
<1>. QED BY <1>2, <1>4, <1>5 DEF FreeListT, SetList

(* The lists of split                                                       *)
SplitsLists(fl, n, k, t, u, fl1, fl3, B1, B2) ==
  /\ fl \in FreeListT /\ ListsOK(fl) /\ n \in Order /\ k \in Order /\ k # n /\ fl[n] # <<>>
  /\ t \in Page /\ t = Head(fl[n]) /\ u \in Page /\ Aligned(t, k) /\ Aligned(u, k)
  /\ B1 = Blocks(fl) \ {<<t, n>>} /\ B2 = B1 \cup {<<t, k>>}
  /\ <<t, k>> \notin B1 /\ <<u, k>> \notin B2
  /\ SetList(fl, n, Tail(fl[n]), fl1) /\ SetList(fl1, k, <<u>> \o (<<t>> \o fl[k]), fl3)

(* The lists after a split.                                                 *)
LEMMA SplitLists ==
  ASSUME NEW fl, NEW n, NEW k, NEW t, NEW u, NEW fl1, NEW fl3, NEW B1, NEW B2,
         SplitsLists(fl, n, k, t, u, fl1, fl3, B1, B2)
  PROVE  fl3 \in FreeListT /\ ListsOK(fl3) /\ Blocks(fl3) = B2 \cup {<<u, k>>}
<1> USE DEF SplitsLists
<1>1. fl1 \in FreeListT /\ ListsOK(fl1) /\ Blocks(fl1) = B1
  BY PopBlock
<1>2. fl1[k] = fl[k]
  BY DEF FreeListT, SetList
<1>3. PICK fl2 : SetList(fl1, k, <<t>> \o fl1[k], fl2)
  BY DEF SetList
<1>4. fl2 \in FreeListT /\ ListsOK(fl2) /\ Blocks(fl2) = B2 /\ fl2[k] = <<t>> \o fl1[k]
  BY <1>1, <1>3, PushBlock
<1>5. SetList(fl2, k, <<u>> \o fl2[k], fl3)
  BY <1>1, <1>2, <1>3, <1>4 DEF FreeListT, SetList
<1>6. \A x, y : /\ x \in FreeListT /\ ListsOK(x) /\ y \in Page /\ Aligned(y, k)
                /\ <<y, k>> \notin Blocks(x) /\ SetList(x, k, <<y>> \o x[k], fl3)
                => fl3 \in FreeListT /\ ListsOK(fl3) /\ Blocks(fl3) = Blocks(x) \cup {<<y, k>>}
  BY PushBlock
<1>. QED BY <1>4, <1>5, <1>6

(* split keeps the group sound, but for the two halves, which are both      *)
(* free.                                                                    *)
LEMMA SplitGood ==
  ASSUME NEW g, NEW F, NEW n \in Order \ {0}, g.pg_freelist[n] # <<>>,
         GoodBut(g, F, Head(g.pg_freelist[n]), n), NEW h, h = split(g, n)
  PROVE  /\ h.pg_freelist[n - 1] # <<>> /\ GoodBut(h, F, Head(h.pg_freelist[n - 1]), n - 1)
         /\ h.intact = g.intact
<1>1. n \in Order /\ n - 1 \in Order /\ n - 1 # n
  BY OrderFacts
<1>2. PICK fl : fl = g.pg_freelist
  OBVIOUS
<1>3. PICK t : t = Head(fl[n])
  OBVIOUS
<1>4. PICK u : u = t + npages[n - 1]
  OBVIOUS
<1>5. PICK B : B = Blocks(fl)
  OBVIOUS
<1>6. PICK B1 : B1 = B \ {<<t, n>>}
  OBVIOUS
<1>7. PICK B2 : B2 = B1 \cup {<<t, n - 1>>}
  OBVIOUS
<1>8. PICK B3 : B3 = B2 \cup {<<u, n - 1>>}
  OBVIOUS
<1>9. /\ Holds(g, F) /\ JoinedBut(B, t, n) /\ g \in GroupT /\ fl \in FreeListT /\ ListsOK(fl)
      /\ g.pg_map \in [Order \ {0} -> SUBSET Nat]
  BY <1>2, <1>3, <1>5, HoldsFacts DEF GoodBut
<1>10. t \in Nat /\ Aligned(t, n) /\ <<t, n>> \in B
  BY <1>1, <1>2, <1>3, <1>5, <1>9, HeadOfList
<1>11. F \in SUBSET Page /\ Tiles(B, F) /\ BitsOK(B, g.pg_map) /\ g.page_freecount = Cardinality(F)
  BY <1>2, <1>5, <1>9 DEF Holds
<1>12. PICK map : map = g.pg_map
  OBVIOUS
<1>13. /\ t \in Page /\ u \in Page /\ Aligned(t, n - 1) /\ Aligned(u, n - 1)
       /\ <<t, n - 1>> \notin B1 /\ <<u, n - 1>> \notin B2
       /\ Tiles(B3, F) /\ BitsOK(B3, Flip(map, n + 1, t)) /\ JoinedBut(B3, u, n - 1)
  <2>1. TakenApart(B, F, map, n, t, u, B1, B2, B3)
    BY <1>4, <1>6, <1>7, <1>8, <1>9, <1>10, <1>11, <1>12 DEF TakenApart
  <2>. QED BY <2>1, SplitBlocks
<1>14. /\ h \in GroupT /\ h.pg_map = Flip(map, n + 1, t)
       /\ h.page_freecount = g.page_freecount /\ h.intact = g.intact
       /\ h.pg_freelist =
            [[fl EXCEPT ![n] = Tail(fl[n])] EXCEPT ![n - 1] = <<u>> \o (<<t>> \o fl[n - 1])]
       /\ h.pg_freelist[n - 1] # <<>> /\ Head(h.pg_freelist[n - 1]) = u
  <2>1. SplitOf(g, n, t, u, h)
    BY <1>2, <1>3, <1>4, <1>9 DEF SplitOf
  <2>2. SplitLeaves(g, n, t, u, h)
    BY <2>1, SplitIs
  <2>. QED BY <1>2, <1>12, <2>2 DEF SplitLeaves
<1>15. PICK fl3 : fl3 = h.pg_freelist
  OBVIOUS
<1>16. PICK k \in Order : k = n - 1
  BY <1>1
<1>17. fl3 \in FreeListT /\ ListsOK(fl3) /\ Blocks(fl3) = B3
  <2>1. fl[n] # <<>>
    BY <1>2
  <2>2. /\ <<t, k>> \notin B1 /\ <<u, k>> \notin B2 /\ B2 = B1 \cup {<<t, k>>} /\ k # n
        /\ Aligned(t, k) /\ Aligned(u, k) /\ B1 = Blocks(fl) \ {<<t, n>>} /\ t \in Page /\ u \in Page
    BY <1>1, <1>5, <1>6, <1>7, <1>13, <1>16
  <2>3. PICK fl1 : fl1 = [fl EXCEPT ![n] = Tail(fl[n])]
    OBVIOUS
  <2>4. SetList(fl, n, Tail(fl[n]), fl1) /\ SetList(fl1, k, <<u>> \o (<<t>> \o fl[k]), fl3)
    BY <1>14, <1>15, <1>16, <2>3 DEF SetList
  <2>5. fl3 \in FreeListT /\ ListsOK(fl3) /\ Blocks(fl3) = B2 \cup {<<u, k>>}
    <3>1. SplitsLists(fl, n, k, t, u, fl1, fl3, B1, B2)
      BY <1>1, <1>3, <1>9, <2>1, <2>2, <2>4 DEF SplitsLists
    <3>. QED BY <3>1, SplitLists
  <2>. QED BY <1>8, <1>16, <2>5
<1>18. Holds(h, F)
  BY <1>11, <1>13, <1>14, <1>15, <1>17 DEF Holds
<1>. QED BY <1>13, <1>14, <1>15, <1>17, <1>18 DEF GoodBut
-----------------------------------------------------------------------------
(* The first block of an order is there to be taken.                        *)
Ready(g, F, n) ==
  n \in Order /\ g.pg_freelist[n] # <<>> /\ GoodBut(g, F, Head(g.pg_freelist[n]), n)

(* A split of an available block makes one available an order below.        *)
LEMMA SplitReady ==
  ASSUME NEW g, NEW F, NEW n \in Order \ {0}, Ready(g, F, n), NEW h, h = split(g, n)
  PROVE  Ready(h, F, n - 1) /\ h.intact = g.intact
<1>1. n - 1 \in Order
  BY OrderFacts
<1>. QED BY <1>1, SplitGood DEF Ready

(* page_split ends with a block of the order asked for.                     *)
LEMMA PageSplitReady ==
  ASSUME NEW g, NEW F, Good(g, F), NEW order \in Order, Larger(g, order) # {},
         NEW s, s = page_split(g, order)
  PROVE  Ready(s, F, order) /\ s.intact = g.intact
<1>1. Larger(g, order) \in SUBSET Nat
  BY OrderFacts DEF Larger
<1>2. PICK norder : norder = CHOOSE n \in Larger(g, order) : \A m \in Larger(g, order) : n <= m
  OBVIOUS
<1>3. norder \in Larger(g, order)
  <2>1. \E n \in Larger(g, order) : \A m \in Larger(g, order) : n <= m
    BY <1>1, LeastElement
  <2>. QED BY <1>2, <2>1
<1>4. norder \in (order + 1) .. Top /\ g.pg_freelist[norder] # <<>> /\ norder \in Order
  BY <1>3, OrderFacts DEF Larger
<1>5. PICK d : d = norder - order
  OBVIOUS
<1>6. d \in Nat /\ norder \in Nat /\ order \in Nat /\ norder <= Top /\ Top \in Nat
  BY <1>4, <1>5, OrderFacts
<1> DEFINE at == CHOOSE f : f = [k \in 0 .. d |-> IF k = 0 THEN g ELSE split(f[k - 1], norder - (k - 1))]
<1>7. s = at[d]
  BY <1>2, <1>5, Zenon DEF page_split, Iterate
<1>8. at = CHOOSE f : IsLoop(1, norder, f, g, 0, d)
  BY DEF IsLoop, StepOf
<1> HIDE DEF at
<1>9. Turns(1, norder, at, g, 0, d)
  BY <1>6, <1>8, LoopTurns
<1>10. at[0] = g /\ \A k \in 0 .. (d - 1) : at[k + 1] = split(at[k], norder - k)
  <2>1. \A k \in 0 .. (d - 1) : (k + 1) - 1 = k
    BY <1>6
  <2>. QED BY <1>9, <2>1 DEF Turns, StepOf
<1> DEFINE T == {k \in 0 .. d : Ready(at[k], F, norder - k) /\ at[k].intact = g.intact}
<1>11. 0 \in T
  <2>1. norder - 0 = norder
    BY <1>6
  <2>2. GoodBut(g, F, Head(g.pg_freelist[norder]), norder)
    BY JoinedIsBut DEF Good, GoodBut
  <2>. QED BY <1>4, <1>6, <1>10, <2>1, <2>2 DEF Ready
<1>12. ASSUME NEW k \in 0 .. (d - 1), k \in T PROVE k + 1 \in T
  <2>1. /\ k + 1 \in 0 .. d /\ norder - (k + 1) = (norder - k) - 1 /\ norder - k \in Order \ {0}
        /\ Ready(at[k], F, norder - k) /\ at[k].intact = g.intact
    BY <1>5, <1>6, <1>12, OrderFacts
  <2>2. at[k + 1] = split(at[k], norder - k)
    BY <1>10
  <2>3. PICK n : n = norder - k
    OBVIOUS
  <2>4. Ready(at[k + 1], F, n - 1) /\ at[k + 1].intact = at[k].intact
    BY <2>1, <2>2, <2>3, SplitReady
  <2>. QED BY <2>1, <2>3, <2>4
<1>13. d \in T
  <2> HIDE DEF T
  <2>1. \A k \in 0 .. d : k \in T
    BY <1>6, <1>11, <1>12, RangeInduction
  <2>. QED BY <1>6, <2>1
<1>14. norder - d = order
  BY <1>5, <1>6
<1>. QED BY <1>7, <1>13, <1>14
-----------------------------------------------------------------------------
(* page_alloc_order: the block it takes was free, and the rest still is.    *)
TakesBlock(g, F, order, got) ==
  /\ Good(g, F) /\ order \in Order /\ Available(g, order) /\ got = page_alloc_order(g, order)

BlockTaken(g, F, order, addr, h) ==
  /\ addr \in Page /\ Aligned(addr, order) /\ Block(addr, order) \subseteq F
  /\ Good(h, F \ Block(addr, order)) /\ h.intact = g.intact

IsFlipped(g, o, a, h) ==
  /\ h \in GroupT /\ h.pg_freelist = g.pg_freelist /\ h.pg_map = Flip(g.pg_map, o, a)
  /\ h.page_freecount = g.page_freecount /\ h.intact = g.intact
  /\ h = [pg_freelist |-> h.pg_freelist, pg_map |-> h.pg_map,
          page_freecount |-> h.page_freecount, intact |-> h.intact]

(* bit_flip, part by part.                                                  *)
LEMMA FlipGroup ==
  ASSUME NEW g \in GroupT, NEW o \in Order, NEW a \in Nat
  PROVE  IsFlipped(g, o + 1, a, bit_flip(g, o + 1, a))
<1>1. PICK h : h = bit_flip(g, o + 1, a)
  OBVIOUS
<1>2. o + 1 \in Nat \ {0}
  BY OrderFacts
<1>3. /\ h \in GroupT /\ h.pg_freelist = g.pg_freelist /\ h.pg_map = Flip(g.pg_map, o + 1, a)
      /\ h.page_freecount = g.page_freecount /\ h.intact = g.intact
  <2>1. \A n \in Nat \ {0}, x \in Nat : \A y : y = bit_flip(g, n, x) =>
          /\ y \in GroupT /\ y.pg_freelist = g.pg_freelist /\ y.pg_map = Flip(g.pg_map, n, x)
          /\ y.page_freecount = g.page_freecount /\ y.intact = g.intact
    BY BitFlipIs
  <2>. QED BY <1>1, <1>2, <2>1
<1>4. h = [pg_freelist |-> h.pg_freelist, pg_map |-> h.pg_map,
           page_freecount |-> h.page_freecount, intact |-> h.intact]
  BY <1>3 DEF GroupT
<1>5. IsFlipped(g, o + 1, a, h)
  BY <1>3, <1>4 DEF IsFlipped
<1>. QED BY <1>1, <1>5

IsPop(s, order, addr, h) ==
  /\ s \in GroupT /\ order \in Order /\ addr \in Nat
  /\ h = [bit_flip(s, order + 1, addr) EXCEPT !.pg_freelist[order] = Tail(@),
                                              !.page_freecount = @ - npages[order]]
Popped(s, order, addr, h) ==
  /\ h.pg_map = Flip(s.pg_map, order + 1, addr) /\ h.intact = s.intact
  /\ h.page_freecount = s.page_freecount - npages[order]
  /\ SetList(s.pg_freelist, order, Tail(s.pg_freelist[order]), h.pg_freelist)
  /\ h = [pg_freelist |-> h.pg_freelist, pg_map |-> h.pg_map,
          page_freecount |-> h.page_freecount, intact |-> h.intact]

(* page_alloc_order, part by part, once there is a block on the list.       *)
LEMMA PopIs ==
  ASSUME NEW s, NEW order, NEW addr, NEW h, IsPop(s, order, addr, h)
  PROVE  Popped(s, order, addr, h)
<1>1. s \in GroupT /\ order \in Order /\ addr \in Nat
  BY DEF IsPop
<1>2. PICK m : m = bit_flip(s, order + 1, addr)
  OBVIOUS
<1>3. IsFlipped(s, order + 1, addr, m)
  BY <1>1, <1>2, FlipGroup
<1>4. h = [m EXCEPT !.pg_freelist[order] = Tail(@), !.page_freecount = @ - npages[order]]
  BY <1>2 DEF IsPop
<1>5. PICK fl, map, cnt, int :
        m = [pg_freelist |-> fl, pg_map |-> map, page_freecount |-> cnt, intact |-> int]
  BY <1>3 DEF IsFlipped
<1>6. fl = s.pg_freelist /\ map = Flip(s.pg_map, order + 1, addr) /\ cnt = s.page_freecount
      /\ int = s.intact
  BY <1>3, <1>5 DEF IsFlipped
<1>7. PICK fl2 : fl2 = [fl EXCEPT ![order] = Tail(fl[order])]
  OBVIOUS
<1>8. h = [pg_freelist |-> [fl EXCEPT ![order] = Tail(fl[order])], pg_map |-> map,
           page_freecount |-> cnt - npages[order], intact |-> int]
  BY <1>4, <1>5
<1>9. h = [pg_freelist |-> fl2, pg_map |-> map, page_freecount |-> cnt - npages[order], intact |-> int]
  BY <1>7, <1>8
<1>10. SetList(fl, order, Tail(fl[order]), fl2)
  BY <1>7 DEF SetList
<1>. QED BY <1>6, <1>9, <1>10 DEF Popped

Gone(B, F, map, n, t) ==
  /\ F \in SUBSET Page /\ Tiles(B, F) /\ map \in [Order \ {0} -> SUBSET Nat] /\ BitsOK(B, map)
  /\ n \in Order /\ t \in Nat /\ Aligned(t, n) /\ <<t, n>> \in B /\ JoinedBut(B, t, n)

(* A free block is taken: the others make up the rest, with the bits right  *)
(* and nothing left to join.                                                *)
LEMMA BlockGone ==
  ASSUME NEW B, NEW F, NEW map, NEW n, NEW t, Gone(B, F, map, n, t)
  PROVE  /\ Tiles(B \ {<<t, n>>}, F \ Block(t, n)) /\ Block(t, n) \subseteq F
         /\ BitsOK(B \ {<<t, n>>}, Flip(map, n + 1, t)) /\ Joined(B \ {<<t, n>>})
         /\ Cardinality(F \ Block(t, n)) = Cardinality(F) - npages[n]
<1> USE DEF Gone
<1>1. <<t, n>>[1] = t /\ <<t, n>>[2] = n
  OBVIOUS
<1>2. Tiles(B \ {<<t, n>>}, F \ Block(t, n)) /\ Block(t, n) \subseteq F
  BY <1>1, TilesRemove
<1>3. BitsOK(B \ {<<t, n>>}, Flip(map, n + 1, t))
  <2>1. PICK B1 : B1 = B \ {<<t, n>>}
    OBVIOUS
  <2>2. ~(<<t, n>> \in B1 <=> <<t, n>> \in B)
    BY <2>1
  <2>3. \A x \in Nat, m \in Order : <<x, m>> # <<t, n>> => (<<x, m>> \in B1 <=> <<x, m>> \in B)
    BY <2>1
  <2>4. BitsOK(B1, Flip(map, n + 1, t))
    BY <2>2, <2>3, SomeFlips
  <2>. QED BY <2>1, <2>4
<1>4. Joined(B \ {<<t, n>>})
  BY OneGone
<1>5. n \in Nat /\ Page = 0 .. (NPages - 1)
  BY OrderFacts DEF Page
<1>6. IsFiniteSet(Page) /\ IsFiniteSet(F)
  <2>1. 0 \in Int /\ NPages - 1 \in Int
    OBVIOUS
  <2>2. IsFiniteSet(0 .. (NPages - 1))
    BY <2>1, FS_Interval
  <2>3. IsFiniteSet(Page)
    BY <1>5, <2>2
  <2>. QED BY <2>3, FS_Subset
<1>7. Cardinality(F \ Block(t, n)) = Cardinality(F) - Cardinality(F \cap Block(t, n))
  BY <1>6, FS_Difference
<1>8. F \cap Block(t, n) = Block(t, n) /\ Cardinality(Block(t, n)) = npages[n]
  BY <1>2, <1>5, BlockFacts
<1>. QED BY <1>2, <1>3, <1>4, <1>7, <1>8

(* page_alloc_order returns a block that was free, and leaves the rest      *)
(* sound.                                                                   *)
LEMMA PageAllocTakes ==
  ASSUME NEW g, NEW F, NEW order, NEW got, TakesBlock(g, F, order, got)
  PROVE  BlockTaken(g, F, order, got.addr, got.group)
<1>1. Good(g, F) /\ order \in Order /\ Available(g, order) /\ got = page_alloc_order(g, order)
  BY DEF TakesBlock
<1>2. PICK s : s = IF g.pg_freelist[order] # <<>> THEN g ELSE page_split(g, order)
  OBVIOUS
<1>3. Ready(s, F, order) /\ s.intact = g.intact
  <2>1. CASE g.pg_freelist[order] # <<>>
    <3>1. GoodBut(g, F, Head(g.pg_freelist[order]), order)
      BY <1>1, JoinedIsBut DEF Good, GoodBut
    <3>. QED BY <1>1, <1>2, <2>1, <3>1 DEF Ready
  <2>2. CASE ~(g.pg_freelist[order] # <<>>)
    <3>1. Larger(g, order) # {} /\ s = page_split(g, order)
      BY <1>1, <1>2, <2>2 DEF Available
    <3>. QED BY <1>1, <3>1, PageSplitReady
  <2>. QED BY <2>1, <2>2
<1>4. PICK addr : addr = Head(s.pg_freelist[order])
  OBVIOUS
<1>5. PICK h : h = [bit_flip(s, order + 1, addr) EXCEPT !.pg_freelist[order] = Tail(@),
                                                        !.page_freecount = @ - npages[order]]
  OBVIOUS
<1>6. got.addr = addr /\ got.group = h
  <2>1. got = [addr |-> addr, group |-> h]
    BY <1>1, <1>2, <1>4, <1>5, Zenon DEF page_alloc_order
  <2>. QED BY <2>1
<1>7. /\ s \in GroupT /\ s.pg_freelist \in FreeListT /\ ListsOK(s.pg_freelist)
      /\ s.pg_map \in [Order \ {0} -> SUBSET Nat] /\ Holds(s, F)
      /\ JoinedBut(Blocks(s.pg_freelist), addr, order) /\ s.pg_freelist[order] # <<>>
  BY <1>3, <1>4, HoldsFacts DEF Ready, GoodBut
<1>8. /\ addr \in Page /\ addr \in Nat /\ Aligned(addr, order)
      /\ <<addr, order>> \in Blocks(s.pg_freelist) /\ Block(addr, order) \subseteq F
  BY <1>1, <1>4, <1>7, HeadOfList
<1>9. /\ h.pg_map = Flip(s.pg_map, order + 1, addr) /\ h.intact = s.intact
      /\ h.page_freecount = s.page_freecount - npages[order]
      /\ SetList(s.pg_freelist, order, Tail(s.pg_freelist[order]), h.pg_freelist)
      /\ h = [pg_freelist |-> h.pg_freelist, pg_map |-> h.pg_map,
              page_freecount |-> h.page_freecount, intact |-> h.intact]
  <2>1. IsPop(s, order, addr, h)
    BY <1>1, <1>5, <1>7, <1>8 DEF IsPop
  <2>2. Popped(s, order, addr, h)
    BY <2>1, PopIs
  <2>. QED BY <2>2 DEF Popped
<1>10. PICK B : B = Blocks(s.pg_freelist)
  OBVIOUS
<1>11. /\ F \in SUBSET Page /\ Tiles(B, F) /\ BitsOK(B, s.pg_map)
       /\ s.page_freecount = Cardinality(F)
  BY <1>7, <1>10 DEF Holds
<1>12. /\ h.pg_freelist \in FreeListT /\ ListsOK(h.pg_freelist)
       /\ Blocks(h.pg_freelist) = B \ {<<addr, order>>}
  BY <1>1, <1>4, <1>7, <1>9, <1>10, PopBlock
<1>13. /\ Tiles(B \ {<<addr, order>>}, F \ Block(addr, order))
       /\ BitsOK(B \ {<<addr, order>>}, Flip(s.pg_map, order + 1, addr))
       /\ Joined(B \ {<<addr, order>>})
       /\ Cardinality(F \ Block(addr, order)) = Cardinality(F) - npages[order]
  <2>1. Gone(B, F, s.pg_map, order, addr)
    BY <1>1, <1>7, <1>8, <1>10, <1>11 DEF Gone
  <2>. QED BY <2>1, BlockGone
<1>14. Flip(s.pg_map, order + 1, addr) \in [Order \ {0} -> SUBSET Nat] /\ npages[order] \in Nat
  <2>1. order \in Nat /\ order + 1 \in Nat \ {0}
    BY <1>1, OrderFacts
  <2>. QED BY <1>7, <1>8, <2>1, FlipType, PowerFacts
<1>15. h \in GroupT
  BY <1>7, <1>9, <1>12, <1>14 DEF GroupT
<1>16. Good(h, F \ Block(addr, order))
  <2>1. F \ Block(addr, order) \in SUBSET Page
    BY <1>11
  <2>2. Holds(h, F \ Block(addr, order))
    BY <1>9, <1>11, <1>12, <1>13, <1>15, <2>1 DEF Holds
  <2>. QED BY <1>12, <1>13, <2>2 DEF Good
<1>. QED BY <1>3, <1>6, <1>8, <1>9, <1>16 DEF BlockTaken
-----------------------------------------------------------------------------
(* The pages of the blocks on the lists                                     *)
Covered(fl) == {p \in Page : \E b \in Blocks(fl) : p \in Block(b[1], b[2])}

(* The free pages of a group are those its lists cover.                     *)
LEMMA FreePagesAre ==
  ASSUME NEW g
  PROVE  FreePages(g) = Covered(g.pg_freelist)
BY FreeBlocksAre DEF FreePages, Covered

(* The lists cover every block on them.                                     *)
LEMMA CoversBlock ==
  ASSUME NEW fl, NEW a \in Page, NEW o \in Order, a \in ToSet(fl[o])
  PROVE  Block(a, o) \cap Page \subseteq Covered(fl)
<1>1. <<a, o>> \in Blocks(fl)
  BY InBlocks
<1>2. <<a, o>>[1] = a /\ <<a, o>>[2] = o
  OBVIOUS
<1>. QED BY <1>1, <1>2 DEF Covered

(* join, when it joins                                                      *)
JoinT == [addr: Page, joining: BOOLEAN, group: GroupT]

IsJoin(j, n, b, low, k) ==
  /\ j \in JoinT /\ n \in Order /\ j.joining /\ Joins(j.group, n, j.addr) /\ Aligned(j.addr, n)
  /\ b = Buddy(j.addr, n) /\ low = Low(j.addr, n) /\ k = join(j, n)

DoneJoin(j, n, b, low, listed, fl2, k) ==
  /\ listed = (b \in ToSet(j.group.pg_freelist[n]))
  /\ k \in JoinT /\ k.addr = low /\ k.joining = listed
  /\ SetList(j.group.pg_freelist, n,
             list_remove(list_remove(j.group.pg_freelist[n], j.addr), b), fl2)
  /\ SetList(fl2, n + 1, <<low>> \o fl2[n + 1], k.group.pg_freelist)
  /\ k.group.pg_map = Flip(j.group.pg_map, (n + 1) + 1, low)
  /\ k.group.page_freecount = j.group.page_freecount
  /\ k.group.intact = (j.group.intact /\ listed)

(* A turn of page_join that finds the bit 0, part by part.                  *)
LEMMA JoinIs ==
  ASSUME NEW j, NEW n, NEW b, NEW low, NEW k, IsJoin(j, n, b, low, k)
  PROVE  \E listed, fl2 : DoneJoin(j, n, b, low, listed, fl2, k)
<1>1. /\ j \in JoinT /\ n \in Order /\ j.joining /\ Joins(j.group, n, j.addr) /\ Aligned(j.addr, n)
      /\ b = Buddy(j.addr, n) /\ low = Low(j.addr, n) /\ k = join(j, n)
  BY DEF IsJoin
<1>2. n \in Nat /\ n < Top /\ n + 1 \in Order /\ n + 1 \in Nat /\ n + 2 = (n + 1) + 1
  BY <1>1, OrderFacts DEF Joins
<1>3. PICK a : a = j.addr
  OBVIOUS
<1>4. PICK g : g = j.group
  OBVIOUS
<1>5. a \in Page /\ a \in Nat /\ g \in GroupT
  BY <1>1, <1>3, <1>4, OrderFacts DEF JoinT
<1>6. b \in Nat /\ low \in Nat /\ low <= a
  BY <1>1, <1>2, <1>3, <1>5, BuddyFacts
<1>7. low \in Page
  BY <1>5, <1>6 DEF Page
<1>8. PICK listed : listed \in BOOLEAN /\ listed = (b \in ToSet(g.pg_freelist[n]))
  <2>1. CASE b \in ToSet(g.pg_freelist[n])
    <3>1. (b \in ToSet(g.pg_freelist[n])) = TRUE
      BY <2>1
    <3>. QED BY <3>1
  <2>2. CASE b \notin ToSet(g.pg_freelist[n])
    <3>1. (b \in ToSet(g.pg_freelist[n])) = FALSE
      BY <2>2
    <3>. QED BY <3>1
  <2>. QED BY <2>1, <2>2
<1>9. PICK fl, map, cnt, int :
        g = [pg_freelist |-> fl, pg_map |-> map, page_freecount |-> cnt, intact |-> int]
  BY <1>5 DEF GroupT
<1>10. /\ g.pg_freelist = fl /\ g.pg_map = map /\ g.page_freecount = cnt /\ g.intact = int
       /\ fl \in FreeListT /\ map \in [Order \ {0} -> SUBSET Nat] /\ cnt \in Int /\ int \in BOOLEAN
  BY <1>5, <1>9 DEF GroupT
<1>11. PICK l : l = list_remove(list_remove(fl[n], a), b)
  OBVIOUS
<1>12. PICK fl2 : fl2 = [fl EXCEPT ![n] = l]
  OBVIOUS
<1>13. PICK fl3 : fl3 = [fl2 EXCEPT ![n + 1] = <<low>> \o fl2[n + 1]]
  OBVIOUS
<1>14. fl2 \in FreeListT /\ fl3 \in FreeListT
  <2>1. fl[n] \in Seq(Nat)
    BY <1>1, <1>10 DEF FreeListT
  <2>2. list_remove(fl[n], a) \in Seq(Nat)
    BY <2>1, ListRemove
  <2>3. l \in Seq(Nat)
    BY <1>11, <2>2, ListRemove
  <2>4. fl2 \in FreeListT /\ fl2[n + 1] \in Seq(Nat)
    BY <1>1, <1>2, <1>10, <1>12, <2>3 DEF FreeListT
  <2>5. <<low>> \o fl2[n + 1] \in Seq(Nat)
    BY <1>6, <2>4, ListPush
  <2>. QED BY <1>13, <2>4, <2>5 DEF FreeListT
<1>15. PICK lists : lists = [pg_freelist |-> fl3, pg_map |-> map, page_freecount |-> cnt,
                             intact |-> int /\ listed]
  OBVIOUS
<1>16. lists \in GroupT
  BY <1>8, <1>10, <1>14, <1>15 DEF GroupT
<1>17. PICK g1 : g1 = [g EXCEPT !.pg_freelist[n] = list_remove(list_remove(@, a), b),
                                !.intact = @ /\ listed]
  OBVIOUS
<1>18. k = [addr |-> low, joining |-> listed, group |-> bit_flip(lists, n + 2, low)]
  <2>1. join(j, n) =
          LET buddy == Buddy(j.addr, n)
              low2 == IF buddy < j.addr THEN buddy ELSE j.addr
              listed2 == buddy \in ToSet(j.group.pg_freelist[n])
              unlinked == [j.group EXCEPT
                             !.pg_freelist[n] = list_remove(list_remove(@, j.addr), buddy),
                             !.intact = @ /\ listed2]
              linked == [unlinked EXCEPT !.pg_freelist[n + 1] = <<low2>> \o @]
          IN  [addr |-> low2, joining |-> listed2, group |-> bit_flip(linked, n + 2, low2)]
    BY <1>1, Zenon DEF join
  <2>2. (IF b < a THEN b ELSE a) = low
    BY <1>1, <1>3 DEF Low
  <2>3. join(j, n) = [addr |-> low, joining |-> listed,
                      group |-> bit_flip([g1 EXCEPT !.pg_freelist[n + 1] = <<low>> \o @], n + 2, low)]
    BY <1>1, <1>3, <1>4, <1>8, <1>17, <2>1, <2>2, Zenon
  <2>4. g1 = [pg_freelist |-> fl2, pg_map |-> map, page_freecount |-> cnt, intact |-> int /\ listed]
    BY <1>9, <1>11, <1>12, <1>17
  <2>5. [g1 EXCEPT !.pg_freelist[n + 1] = <<low>> \o @] = lists
    <3>1. PICK ok : ok = (int /\ listed)
      OBVIOUS
    <3>2. g1 = [pg_freelist |-> fl2, pg_map |-> map, page_freecount |-> cnt, intact |-> ok]
      BY <2>4, <3>1, Zenon
    <3>3. lists = [pg_freelist |-> fl3, pg_map |-> map, page_freecount |-> cnt, intact |-> ok]
      BY <1>15, <3>1, Zenon
    <3>4. PICK g2 : g2 = [g1 EXCEPT !.pg_freelist[n + 1] = <<low>> \o @]
      OBVIOUS
    <3>5. g2 = [pg_freelist |-> fl3, pg_map |-> map, page_freecount |-> cnt, intact |-> ok]
      BY <1>13, <3>2, <3>4
    <3>. QED BY <3>3, <3>4, <3>5
  <2>. QED BY <1>1, <2>3, <2>5
<1>19. PICK h : h = bit_flip(lists, (n + 1) + 1, low)
  OBVIOUS
<1>20. IsFlipped(lists, (n + 1) + 1, low, h)
  BY <1>2, <1>6, <1>16, <1>19, FlipGroup
<1>21. k = [addr |-> low, joining |-> listed, group |-> h]
  BY <1>2, <1>18, <1>19
<1>22. /\ h \in GroupT /\ h.pg_freelist = fl3 /\ h.pg_map = Flip(map, (n + 1) + 1, low)
       /\ h.page_freecount = cnt /\ h.intact = (int /\ listed)
  BY <1>15, <1>20 DEF IsFlipped
<1>23. k \in JoinT /\ k.addr = low /\ k.joining = listed /\ k.group = h
  BY <1>7, <1>8, <1>21, <1>22 DEF JoinT
<1>24. SetList(fl, n, list_remove(list_remove(fl[n], a), b), fl2)
  BY <1>11, <1>12 DEF SetList
<1>25. SetList(fl2, n + 1, <<low>> \o fl2[n + 1], fl3)
  BY <1>13 DEF SetList
<1>26. DoneJoin(j, n, b, low, listed, fl2, k)
  BY <1>3, <1>4, <1>8, <1>10, <1>22, <1>23, <1>24, <1>25 DEF DoneJoin
<1>. QED BY <1>26
-----------------------------------------------------------------------------
(* One list is replaced and the others are not.                             *)
LEMMA SetListFacts ==
  ASSUME NEW fl \in FreeListT, NEW o \in Order, NEW l, NEW fl2, SetList(fl, o, l, fl2)
  PROVE  fl2[o] = l /\ \A n \in Order : n # o => fl2[n] = fl[n]
BY DEF FreeListT, SetList

(* A page that a block covers stays covered when it is joined.              *)
LEMMA JoinCovers ==
  ASSUME NEW j, NEW n, NEW b, NEW low, NEW k, IsJoin(j, n, b, low, k),
         NEW listed, NEW fl2, DoneJoin(j, n, b, low, listed, fl2, k)
  PROVE  Covered(j.group.pg_freelist) \subseteq Covered(k.group.pg_freelist)
<1>1. PICK fl : fl = j.group.pg_freelist
  OBVIOUS
<1>2. PICK fl3 : fl3 = k.group.pg_freelist
  OBVIOUS
<1>3. PICK a : a = j.addr
  OBVIOUS
<1>4. /\ fl \in FreeListT /\ n \in Order /\ n < Top /\ a \in Page /\ Aligned(a, n)
      /\ b = Buddy(a, n) /\ low = Low(a, n)
  BY <1>1, <1>3 DEF IsJoin, JoinT, GroupT, Joins
<1>5. n \in Nat /\ n + 1 \in Order /\ n + 1 # n /\ a \in Nat
  BY <1>4, OrderFacts
<1>6. /\ SetList(fl, n, list_remove(list_remove(fl[n], a), b), fl2)
      /\ SetList(fl2, n + 1, <<low>> \o fl2[n + 1], fl3) /\ low \in Page
  BY <1>1, <1>2, <1>3 DEF DoneJoin, JoinT
<1>7. fl[n] \in Seq(Nat)
  BY <1>4 DEF FreeListT
<1>8. PICK l1 : l1 = list_remove(fl[n], a)
  OBVIOUS
<1>9. l1 \in Seq(Nat) /\ ToSet(fl[n]) \subseteq ToSet(l1) \cup {a}
  BY <1>7, <1>8, ListRemove
<1>10. PICK l2 : l2 = list_remove(l1, b)
  OBVIOUS
<1>11. l2 \in Seq(Nat) /\ ToSet(l1) \subseteq ToSet(l2) \cup {b}
  BY <1>9, <1>10, ListRemove
<1>12. SetList(fl, n, l2, fl2)
  BY <1>6, <1>8, <1>10
<1>13. fl2[n] = l2 /\ \A o \in Order : o # n => fl2[o] = fl[o]
  BY <1>4, <1>12, SetListFacts
<1>14. fl2 \in FreeListT
  BY <1>4, <1>11, <1>12 DEF SetList, FreeListT
<1>15. fl3[n + 1] = <<low>> \o fl2[n + 1] /\ \A o \in Order : o # n + 1 => fl3[o] = fl2[o]
  <2>1. PICK m \in Order : m = n + 1
    BY <1>5
  <2>2. SetList(fl2, m, <<low>> \o fl2[m], fl3)
    BY <1>6, <2>1
  <2>3. PICK l : l = <<low>> \o fl2[m]
    OBVIOUS
  <2>4. SetList(fl2, m, l, fl3)
    BY <2>2, <2>3
  <2>5. fl3[m] = l /\ \A o \in Order : o # m => fl3[o] = fl2[o]
    BY <1>14, <2>4, SetListFacts
  <2>. QED BY <2>1, <2>5, <2>3
<1>16. ToSet(fl3[n + 1]) = ToSet(fl2[n + 1]) \cup {low}
  <2>1. fl2[n + 1] \in Seq(Nat) /\ low \in Nat
    BY <1>5, <1>6, <1>14, OrderFacts DEF FreeListT
  <2>. QED BY <1>15, <2>1, ListPush
<1>17. Block(low, n + 1) \cap Page \subseteq Covered(fl3)
  BY <1>5, <1>6, <1>16, CoversBlock
<1>18. Block(a, n) \subseteq Block(low, n + 1) /\ Block(b, n) \subseteq Block(low, n + 1)
  <2>1. {a, b} = {low, low + npages[n]} /\ low \in Nat
    BY <1>4, <1>5, BuddyFacts
  <2>2. Block(low, n + 1) = Block(low, n) \cup Block(low + npages[n], n)
    BY <1>5, <2>1, BlockFacts
  <2>3. a \in {low, low + npages[n]} /\ b \in {low, low + npages[n]}
    BY <2>1
  <2>. QED BY <2>2, <2>3
<1>19. ASSUME NEW p \in Page, NEW c \in Blocks(fl), p \in Block(c[1], c[2])
       PROVE  p \in Covered(fl3)
  <2>1. c[1] \in Page /\ c[2] \in Order /\ c[1] \in ToSet(fl[c[2]])
    BY OfBlocks
  <2>2. CASE c[2] = n /\ (c[1] = a \/ c[1] = b)
    BY <1>17, <1>18, <1>19, <2>2
  <2>3. CASE ~(c[2] = n /\ (c[1] = a \/ c[1] = b))
    <3>1. c[1] \in ToSet(fl2[c[2]])
      <4>1. CASE c[2] = n
        BY <1>9, <1>11, <1>13, <2>1, <2>3, <4>1
      <4>2. CASE c[2] # n
        BY <1>13, <2>1, <4>2
      <4>. QED BY <4>1, <4>2
    <3>2. c[1] \in ToSet(fl3[c[2]])
      <4>1. CASE c[2] = n + 1
        BY <1>16, <3>1, <4>1
      <4>2. CASE c[2] # n + 1
        BY <1>15, <2>1, <3>1, <4>2
      <4>. QED BY <4>1, <4>2
    <3>3. Block(c[1], c[2]) \cap Page \subseteq Covered(fl3)
      BY <2>1, <3>2, CoversBlock
    <3>. QED BY <1>19, <3>3
  <2>. QED BY <2>2, <2>3
<1>. QED BY <1>1, <1>2, <1>19 DEF Covered

(* What holds at every turn, whatever the lists are                         *)
TypedAt(j, n, int, X) ==
  /\ j \in JoinT /\ (j.joining => Aligned(j.addr, n))
  /\ (j.group.intact => int) /\ X \subseteq Covered(j.group.pg_freelist)

Stops(j, n, k) ==
  j \in JoinT /\ ~(j.joining /\ Joins(j.group, n, j.addr)) /\ k = join(j, n)

(* The turn that ends page_join changes nothing of the group.               *)
LEMMA StopIs ==
  ASSUME NEW j, NEW n, NEW k, Stops(j, n, k)
  PROVE  k \in JoinT /\ ~k.joining /\ k.group = j.group /\ k.addr = j.addr
<1>1. k = [j EXCEPT !.joining = FALSE]
  BY DEF Stops, join
<1>. QED BY <1>1 DEF Stops, JoinT

(* A turn of page_join keeps the types and covers no less, whatever it      *)
(* finds.                                                                   *)
LEMMA JoinTyped ==
  ASSUME NEW j, NEW n \in Order, NEW int, NEW X, TypedAt(j, n, int, X), NEW k, k = join(j, n)
  PROVE  TypedAt(k, n + 1, int, X)
<1>1. j \in JoinT /\ (j.joining => Aligned(j.addr, n))
  BY DEF TypedAt
<1>2. CASE ~(j.joining /\ Joins(j.group, n, j.addr))
  <2>1. Stops(j, n, k)
    BY <1>1, <1>2 DEF Stops
  <2>2. k \in JoinT /\ ~k.joining /\ k.group = j.group
    BY <2>1, StopIs
  <2>. QED BY <2>2 DEF TypedAt
<1>3. CASE j.joining /\ Joins(j.group, n, j.addr)
  <2>1. PICK b, low : b = Buddy(j.addr, n) /\ low = Low(j.addr, n)
    OBVIOUS
  <2>2. IsJoin(j, n, b, low, k)
    BY <1>1, <1>3, <2>1 DEF IsJoin
  <2>3. PICK listed, fl2 : DoneJoin(j, n, b, low, listed, fl2, k)
    BY <2>2, JoinIs
  <2>4. Covered(j.group.pg_freelist) \subseteq Covered(k.group.pg_freelist)
    BY <2>2, <2>3, JoinCovers
  <2>5. k \in JoinT /\ k.addr = low /\ k.group.intact = (j.group.intact /\ listed)
    BY <2>3 DEF DoneJoin
  <2>6. k.group.intact => j.group.intact
    BY <2>5
  <2>7. Aligned(low, n + 1)
    <3>1. n \in Nat /\ j.addr \in Nat
      BY <1>1, OrderFacts DEF JoinT
    <3>. QED BY <1>1, <1>3, <2>1, <3>1, BuddyFacts
  <2>. QED BY <2>4, <2>5, <2>6, <2>7 DEF TypedAt
<1>. QED BY <1>2, <1>3
-----------------------------------------------------------------------------
(* What holds at every turn of freeing in a group whose free pages are F    *)
FreeAt(j, n, F, tail) ==
  /\ j.joining => /\ j.group.intact /\ GoodBut(j.group, F, j.addr, n)
                  /\ <<j.addr, n>> \in Blocks(j.group.pg_freelist)
                  /\ InTail(j.addr) <=> tail
  /\ ~j.joining /\ j.group.intact => Good(j.group, F)
  /\ ~j.group.intact => tail

(* Two buddies whose bit is 1 are not both free.                            *)
LEMMA BitKeepsApart ==
  ASSUME NEW B, NEW map, BitsOK(B, map), NEW n \in Order, NEW a \in Nat, Aligned(a, n),
         JoinedBut(B, a, n), n < Top => calculate_index(n + 1, a) \in map[n + 1]
  PROVE  Joined(B)
<1> SUFFICES ASSUME NEW o \in 0 .. (Top - 1), NEW x \in Nat, Aligned(x, o), ~InTail(x),
                    <<x, o>> \in B, <<Buddy(x, o), o>> \in B
             PROVE  FALSE
  BY DEF Joined
<1>1. o = n /\ x \in {a, Buddy(a, n)}
  BY DEF JoinedBut
<1>2. n \in Nat /\ n < Top
  BY <1>1, OrderFacts
<1>3. calculate_index(n + 1, x) = calculate_index(n + 1, a)
  BY <1>1, <1>2, BuddyFacts
<1>4. calculate_index(o + 1, x) \in map[o + 1]
  BY <1>1, <1>2, <1>3
<1>. QED BY <1>4 DEF BitsOK

JoinsGood(j, n, F, tail, b, low, k) ==
  /\ IsJoin(j, n, b, low, k) /\ FreeAt(j, n, F, tail)

(* A turn that finds the buddy on its list keeps the group sound.           *)
LEMMA JoinListed ==
  ASSUME NEW j, NEW n, NEW F, NEW tail, NEW b, NEW low, NEW k, JoinsGood(j, n, F, tail, b, low, k),
         NEW fl2, DoneJoin(j, n, b, low, TRUE, fl2, k)
  PROVE  FreeAt(k, n + 1, F, tail)
<1>1. PICK a : a = j.addr
  OBVIOUS
<1>2. PICK g : g = j.group
  OBVIOUS
<1>3. PICK B : B = Blocks(g.pg_freelist)
  OBVIOUS
<1>4. /\ n \in Order /\ n < Top /\ a \in Page /\ Aligned(a, n) /\ b = Buddy(a, n) /\ low = Low(a, n)
      /\ g.intact /\ GoodBut(g, F, a, n) /\ <<a, n>> \in B /\ (InTail(a) <=> tail)
  BY <1>1, <1>2, <1>3 DEF JoinsGood, IsJoin, FreeAt, Joins, JoinT
<1>5. n \in Nat /\ n + 1 \in Order /\ n + 1 # n /\ a \in Nat /\ n \in 0 .. (Top - 1)
  BY <1>4, OrderFacts
<1>6. /\ Holds(g, F) /\ JoinedBut(B, a, n) /\ g.pg_freelist \in FreeListT /\ ListsOK(g.pg_freelist)
      /\ g.pg_map \in [Order \ {0} -> SUBSET Nat] /\ F \in SUBSET Page /\ Tiles(B, F)
      /\ BitsOK(B, g.pg_map) /\ g.page_freecount = Cardinality(F)
  BY <1>3, <1>4, HoldsFacts DEF GoodBut, Holds
<1>7. PICK fl : fl = g.pg_freelist
  OBVIOUS
<1>8. /\ b \in ToSet(fl[n]) /\ k \in JoinT /\ k.addr = low /\ k.joining
      /\ SetList(fl, n, list_remove(list_remove(fl[n], a), b), fl2)
      /\ SetList(fl2, n + 1, <<low>> \o fl2[n + 1], k.group.pg_freelist)
      /\ k.group.pg_map = Flip(g.pg_map, (n + 1) + 1, low)
      /\ k.group.page_freecount = g.page_freecount /\ k.group.intact
  BY <1>1, <1>2, <1>4, <1>7 DEF DoneJoin
<1>9. b \in Page /\ <<b, n>> \in B
  <2>1. b \in Page
    BY <1>4, <1>6, <1>7, <1>8 DEF ListsOK
  <2>. QED BY <1>3, <1>4, <1>7, <1>8, <2>1, InBlocks
<1>10. PICK B1, B2, B3 : /\ B1 = B \ {<<a, n>>} /\ B2 = B1 \ {<<b, n>>}
                         /\ B3 = B2 \cup {<<low, n + 1>>}
  OBVIOUS
<1>11. PutTogether(B, F, g.pg_map, n, a, b, low, B1, B2, B3)
  BY <1>4, <1>5, <1>6, <1>9, <1>10 DEF PutTogether
<1>12. /\ low \in Page /\ Aligned(low, n + 1) /\ <<low, n + 1>> \notin B2
       /\ Tiles(B3, F) /\ BitsOK(B3, Flip(g.pg_map, (n + 1) + 1, low)) /\ JoinedBut(B3, low, n + 1)
  BY <1>11, JoinBlocks
<1>13. PICK fl1 : SetList(fl, n, list_remove(fl[n], a), fl1)
  BY DEF SetList
<1>14. /\ fl1 \in FreeListT /\ ListsOK(fl1) /\ Blocks(fl1) = B1
       /\ fl1[n] = list_remove(fl[n], a)
  <2>1. Removes(fl, n, a, fl1)
    BY <1>4, <1>6, <1>7, <1>13 DEF Removes
  <2>. QED BY <1>3, <1>7, <1>10, <2>1, RemoveBlock
<1>15. SetList(fl1, n, list_remove(fl1[n], b), fl2)
  <2>1. SetList(fl, n, list_remove(fl1[n], b), fl2)
    BY <1>7, <1>8, <1>14
  <2>2. fl1 = [fl EXCEPT ![n] = fl1[n]] /\ fl \in FreeListT
    BY <1>4, <1>6, <1>7, <1>13 DEF SetList, FreeListT
  <2>3. PICK l : l = list_remove(fl1[n], b)
    OBVIOUS
  <2>4. fl2 = [fl EXCEPT ![n] = l]
    BY <2>1, <2>3 DEF SetList
  <2>5. fl2 = [fl1 EXCEPT ![n] = l]
    BY <1>4, <2>2, <2>4 DEF FreeListT
  <2>. QED BY <2>3, <2>5 DEF SetList
<1>16. fl2 \in FreeListT /\ ListsOK(fl2) /\ Blocks(fl2) = B2
  <2>1. Removes(fl1, n, b, fl2)
    BY <1>4, <1>14, <1>15 DEF Removes
  <2>. QED BY <1>10, <1>14, <2>1, RemoveBlock
<1>17. PICK fl3 : fl3 = k.group.pg_freelist
  OBVIOUS
<1>18. PICK m \in Order : m = n + 1
  BY <1>5
<1>19. fl3 \in FreeListT /\ ListsOK(fl3) /\ Blocks(fl3) = B3
  <2>1. SetList(fl2, m, <<low>> \o fl2[m], fl3) /\ <<low, m>> \notin Blocks(fl2) /\ Aligned(low, m)
    BY <1>8, <1>12, <1>16, <1>17, <1>18
  <2>2. fl3 \in FreeListT /\ ListsOK(fl3) /\ Blocks(fl3) = Blocks(fl2) \cup {<<low, m>>}
    BY <1>12, <1>16, <2>1, PushBlock
  <2>. QED BY <1>10, <1>16, <1>18, <2>2
<1>20. GoodBut(k.group, F, low, n + 1)
  <2>1. k.group \in GroupT
    BY <1>8 DEF JoinT
  <2>. QED BY <1>6, <1>8, <1>12, <1>17, <1>19, <2>1 DEF GoodBut, Holds
<1>21. <<low, n + 1>> \in Blocks(k.group.pg_freelist)
  BY <1>10, <1>17, <1>19
<1>22. InTail(low) <=> tail
  BY <1>4, <1>5, TailOfPair
<1>. QED BY <1>8, <1>20, <1>21, <1>22 DEF FreeAt

(* A buddy that is not listed although the bit says so is in the tail.      *)
LEMMA JoinNotListed ==
  ASSUME NEW j, NEW n, NEW F, NEW tail, NEW b, NEW low, NEW k, JoinsGood(j, n, F, tail, b, low, k),
         NEW fl2, DoneJoin(j, n, b, low, FALSE, fl2, k)
  PROVE  FreeAt(k, n + 1, F, tail)
<1>1. PICK a : a = j.addr
  OBVIOUS
<1>2. PICK g : g = j.group
  OBVIOUS
<1>3. PICK B : B = Blocks(g.pg_freelist)
  OBVIOUS
<1>4. /\ n \in Order /\ n < Top /\ a \in Page /\ Aligned(a, n) /\ b = Buddy(a, n)
      /\ GoodBut(g, F, a, n) /\ <<a, n>> \in B /\ (InTail(a) <=> tail)
      /\ calculate_index(n + 1, a) \notin g.pg_map[n + 1]
  BY <1>1, <1>2, <1>3 DEF JoinsGood, IsJoin, FreeAt, Joins, JoinT
<1>5. n \in 0 .. (Top - 1) /\ a \in Nat
  BY <1>4, OrderFacts
<1>6. BitsOK(B, g.pg_map)
  BY <1>3, <1>4 DEF GoodBut, Holds
<1>7. ~(b \in ToSet(g.pg_freelist[n])) /\ ~k.joining /\ ~k.group.intact
  BY <1>2 DEF DoneJoin
<1>8. tail
  <2> SUFFICES ASSUME ~InTail(a) PROVE FALSE
    BY <1>4
  <2>1. <<a, n>> \in B <=> <<Buddy(a, n), n>> \in B
    BY <1>4, <1>5, <1>6 DEF BitsOK
  <2>2. <<b, n>> \in B
    BY <1>4, <2>1
  <2>. QED BY <1>3, <1>7, <2>2, InBlocks
<1>. QED BY <1>7, <1>8 DEF FreeAt

(* A turn of page_join keeps the group sound, or breaks it in the tail.     *)
LEMMA JoinGood ==
  ASSUME NEW j, NEW n \in Order, NEW F, NEW tail, j \in JoinT, j.joining => Aligned(j.addr, n),
         FreeAt(j, n, F, tail), NEW k, k = join(j, n)
  PROVE  FreeAt(k, n + 1, F, tail)
<1>1. CASE ~j.joining
  <2>1. Stops(j, n, k)
    BY <1>1 DEF Stops
  <2>2. ~k.joining /\ k.group = j.group
    BY <2>1, StopIs
  <2>. QED BY <1>1, <2>2 DEF FreeAt
<1>2. CASE j.joining /\ ~Joins(j.group, n, j.addr)
  <2>1. Stops(j, n, k)
    BY <1>2 DEF Stops
  <2>2. ~k.joining /\ k.group = j.group
    BY <2>1, StopIs
  <2>3. PICK g : g = j.group
    OBVIOUS
  <2>4. PICK a : a = j.addr
    OBVIOUS
  <2>5. a \in Nat /\ GoodBut(g, F, a, n) /\ g.intact
    BY <1>2, <2>3, <2>4, OrderFacts DEF FreeAt, JoinT
  <2>6. PICK B : B = Blocks(g.pg_freelist)
    OBVIOUS
  <2>7. Holds(g, F) /\ BitsOK(B, g.pg_map) /\ JoinedBut(B, a, n)
    BY <2>5, <2>6 DEF GoodBut, Holds
  <2>8. n < Top => calculate_index(n + 1, a) \in g.pg_map[n + 1]
    BY <1>2, <2>3, <2>4 DEF Joins
  <2>9. Joined(B)
    BY <1>2, <2>4, <2>5, <2>7, <2>8, BitKeepsApart
  <2>10. Good(k.group, F)
    BY <2>2, <2>3, <2>6, <2>7, <2>9 DEF Good
  <2>. QED BY <2>2, <2>3, <2>5, <2>10 DEF FreeAt
<1>3. CASE j.joining /\ Joins(j.group, n, j.addr)
  <2>1. PICK b, low : b = Buddy(j.addr, n) /\ low = Low(j.addr, n)
    OBVIOUS
  <2>2. IsJoin(j, n, b, low, k)
    BY <1>3, <2>1 DEF IsJoin
  <2>3. PICK listed, fl2 : DoneJoin(j, n, b, low, listed, fl2, k)
    BY <2>2, JoinIs
  <2>4. JoinsGood(j, n, F, tail, b, low, k)
    BY <2>2 DEF JoinsGood
  <2>5. listed = TRUE \/ listed = FALSE
    BY <2>3 DEF DoneJoin
  <2>6. CASE listed = TRUE
    <3>1. DoneJoin(j, n, b, low, TRUE, fl2, k)
      BY <2>3, <2>6
    <3>. QED BY <2>4, <3>1, JoinListed
  <2>7. CASE listed = FALSE
    <3>1. DoneJoin(j, n, b, low, FALSE, fl2, k)
      BY <2>3, <2>7
    <3>. QED BY <2>4, <3>1, JoinNotListed
  <2>. QED BY <2>5, <2>6, <2>7
<1>. QED BY <1>1, <1>2, <1>3
-----------------------------------------------------------------------------
(* page_free_order                                                          *)
FreesBlock(g, addr, order, h) ==
  /\ g \in GroupT /\ order \in Order /\ addr \in Page /\ Aligned(addr, order)
  /\ h = page_free_order(g, addr, order)

(* The start of it: the block is put on its list and its bit is flipped.    *)
Listed(g, addr, order) ==
  bit_flip([g EXCEPT !.pg_freelist[order] = <<addr>> \o @,
                     !.page_freecount = @ + npages[order]], order + 1, addr)

IsListed(g, addr, order, h) ==
  g \in GroupT /\ order \in Order /\ addr \in Page /\ h = Listed(g, addr, order)
Put(g, addr, order, h) ==
  /\ h \in GroupT /\ h.pg_map = Flip(g.pg_map, order + 1, addr) /\ h.intact = g.intact
  /\ h.page_freecount = g.page_freecount + npages[order]
  /\ SetList(g.pg_freelist, order, <<addr>> \o g.pg_freelist[order], h.pg_freelist)

(* page_free_order before it joins, part by part.                           *)
LEMMA ListedIs ==
  ASSUME NEW g, NEW addr, NEW order, NEW h, IsListed(g, addr, order, h)
  PROVE  Put(g, addr, order, h)
<1>1. g \in GroupT /\ order \in Order /\ addr \in Page /\ addr \in Nat /\ npages[order] \in Nat
  BY OrderFacts, PowerFacts DEF IsListed
<1>2. PICK m : m = [g EXCEPT !.pg_freelist[order] = <<addr>> \o @,
                             !.page_freecount = @ + npages[order]]
  OBVIOUS
<1>3. h = bit_flip(m, order + 1, addr)
  BY <1>2, Zenon DEF IsListed, Listed
<1>4. PICK fl, map, cnt, int :
        g = [pg_freelist |-> fl, pg_map |-> map, page_freecount |-> cnt, intact |-> int]
  BY <1>1 DEF GroupT
<1>5. /\ g.pg_freelist = fl /\ g.pg_map = map /\ g.page_freecount = cnt /\ g.intact = int
      /\ fl \in FreeListT /\ map \in [Order \ {0} -> SUBSET Nat] /\ cnt \in Int /\ int \in BOOLEAN
  BY <1>1, <1>4 DEF GroupT
<1>6. PICK l : l = <<addr>> \o fl[order]
  OBVIOUS
<1>7. PICK fl2 : fl2 = [fl EXCEPT ![order] = l]
  OBVIOUS
<1>8. m = [pg_freelist |-> fl2, pg_map |-> map, page_freecount |-> cnt + npages[order], intact |-> int]
  BY <1>2, <1>4, <1>6, <1>7
<1>9. fl2 \in FreeListT
  <2>1. fl[order] \in Seq(Nat)
    BY <1>1, <1>5 DEF FreeListT
  <2>2. l \in Seq(Nat)
    BY <1>1, <1>6, <2>1, ListPush
  <2>. QED BY <1>1, <1>5, <1>7, <2>2 DEF FreeListT
<1>10. m \in GroupT
  BY <1>1, <1>5, <1>8, <1>9 DEF GroupT
<1>11. IsFlipped(m, order + 1, addr, h)
  BY <1>1, <1>3, <1>10, FlipGroup
<1>12. SetList(fl, order, l, fl2)
  BY <1>7 DEF SetList
<1>13. m.pg_freelist = fl2 /\ m.pg_map = map /\ m.page_freecount = cnt + npages[order] /\ m.intact = int
  BY <1>8
<1>. QED BY <1>5, <1>6, <1>11, <1>12, <1>13 DEF Put, IsFlipped

(* It covers the pages of the block, and all it covered.                    *)
LEMMA ListedTyped ==
  ASSUME NEW g, NEW addr, NEW order, NEW h, IsListed(g, addr, order, h)
  PROVE  Covered(g.pg_freelist) \cup (Block(addr, order) \cap Page) \subseteq Covered(h.pg_freelist)
<1>1. g \in GroupT /\ order \in Order /\ addr \in Page /\ addr \in Nat
  BY OrderFacts DEF IsListed
<1>2. PICK fl : fl = g.pg_freelist
  OBVIOUS
<1>3. PICK fl2 : fl2 = h.pg_freelist
  OBVIOUS
<1>4. PICK l : l = <<addr>> \o fl[order]
  OBVIOUS
<1>5. fl \in FreeListT /\ fl[order] \in Seq(Nat)
  BY <1>1, <1>2 DEF GroupT, FreeListT
<1>6. SetList(fl, order, l, fl2)
  BY <1>2, <1>3, <1>4, ListedIs DEF Put
<1>7. ToSet(l) = ToSet(fl[order]) \cup {addr}
  BY <1>1, <1>4, <1>5, ListPush
<1>8. fl2[order] = l /\ \A n \in Order : n # order => fl2[n] = fl[n]
  BY <1>1, <1>5, <1>6, SetListFacts
<1>9. Block(addr, order) \cap Page \subseteq Covered(fl2)
  BY <1>1, <1>7, <1>8, CoversBlock
<1>10. ASSUME NEW p \in Page, NEW c \in Blocks(fl), p \in Block(c[1], c[2])
       PROVE  p \in Covered(fl2)
  <2>1. c[1] \in Page /\ c[2] \in Order /\ c[1] \in ToSet(fl[c[2]])
    BY OfBlocks
  <2>2. c[1] \in ToSet(fl2[c[2]])
    BY <1>7, <1>8, <2>1
  <2>3. Block(c[1], c[2]) \cap Page \subseteq Covered(fl2)
    BY <2>1, <2>2, CoversBlock
  <2>. QED BY <1>10, <2>3
<1>. QED BY <1>2, <1>3, <1>9, <1>10 DEF Covered

(* A free block more                                                        *)
Come(B, F, map, n, t) ==
  /\ F \in SUBSET Page /\ Tiles(B, F) /\ map \in [Order \ {0} -> SUBSET Nat] /\ BitsOK(B, map)
  /\ n \in Order /\ t \in Nat /\ Aligned(t, n) /\ Joined(B)
  /\ Block(t, n) \subseteq Page /\ Block(t, n) \cap F = {}

Came(B, F, map, n, t) ==
  /\ <<t, n>> \notin B
  /\ F \cup Block(t, n) \in SUBSET Page /\ Tiles(B \cup {<<t, n>>}, F \cup Block(t, n))
  /\ BitsOK(B \cup {<<t, n>>}, Flip(map, n + 1, t)) /\ JoinedBut(B \cup {<<t, n>>}, t, n)
  /\ Cardinality(F \cup Block(t, n)) = Cardinality(F) + npages[n]

(* A block that was in use is free: only this one may have a free buddy.    *)
LEMMA BlockCome ==
  ASSUME NEW B, NEW F, NEW map, NEW n, NEW t, Come(B, F, map, n, t)
  PROVE  Came(B, F, map, n, t)
<1> USE DEF Come, Came
<1>1. <<t, n>>[1] = t /\ <<t, n>>[2] = n
  OBVIOUS
<1>2. Tiles(B \cup {<<t, n>>}, F \cup Block(t, n))
  <2>1. \A p \in Block(t, n) : p \notin F
    OBVIOUS
  <2>. QED BY <1>1, <2>1, TilesAdd
<1>3. n \in Nat /\ t \in Block(t, n) /\ IsFiniteSet(Block(t, n)) /\ Cardinality(Block(t, n)) = npages[n]
  BY OrderFacts, BlockFacts
<1>4. <<t, n>> \notin B
  <2> SUFFICES ASSUME <<t, n>> \in B PROVE FALSE
    OBVIOUS
  <2>1. Block(<<t, n>>[1], <<t, n>>[2]) \subseteq F
    BY DEF Tiles
  <2>. QED BY <1>1, <1>3, <2>1
<1>5. BitsOK(B \cup {<<t, n>>}, Flip(map, n + 1, t))
  <2>1. PICK B1 : B1 = B \cup {<<t, n>>}
    OBVIOUS
  <2>2. ~(<<t, n>> \in B1 <=> <<t, n>> \in B)
    BY <1>4, <2>1
  <2>3. \A x \in Nat, m \in Order : <<x, m>> # <<t, n>> => (<<x, m>> \in B1 <=> <<x, m>> \in B)
    BY <2>1
  <2>4. BitsOK(B1, Flip(map, n + 1, t))
    BY <2>2, <2>3, SomeFlips
  <2>. QED BY <2>1, <2>4
<1>6. JoinedBut(B \cup {<<t, n>>}, t, n)
  BY OneMore
<1>7. IsFiniteSet(F)
  <2>1. 0 \in Int /\ NPages - 1 \in Int
    OBVIOUS
  <2>2. IsFiniteSet(0 .. (NPages - 1))
    BY <2>1, FS_Interval
  <2>. QED BY <2>2, FS_Subset DEF Page
<1>8. Cardinality(F \cup Block(t, n))
        = Cardinality(F) + Cardinality(Block(t, n)) - Cardinality(F \cap Block(t, n))
  BY <1>3, <1>7, FS_Union
<1>9. F \cap Block(t, n) = {} /\ Cardinality({}) = 0
  BY FS_EmptySet
<1>10. Cardinality(F) \in Nat /\ npages[n] \in Nat
  BY <1>3, <1>7, FS_CardinalityType, PowerFacts
<1>11. Cardinality(F \cup Block(t, n)) = Cardinality(F) + npages[n]
  BY <1>3, <1>8, <1>9, <1>10
<1>. QED BY <1>2, <1>4, <1>5, <1>6, <1>11

FreesGood(g, F, addr, order) ==
  /\ Good(g, F) /\ g.intact /\ order \in Order /\ addr \in Page /\ Aligned(addr, order)
  /\ Block(addr, order) \subseteq Page /\ Block(addr, order) \cap F = {}

(* page_free_order before it joins keeps the group sound.                   *)
LEMMA ListedGood ==
  ASSUME NEW g, NEW F, NEW addr, NEW order, FreesGood(g, F, addr, order),
         NEW h, h = Listed(g, addr, order)
  PROVE  /\ GoodBut(h, F \cup Block(addr, order), addr, order) /\ h.intact
         /\ <<addr, order>> \in Blocks(h.pg_freelist)
<1>1. PICK B : B = Blocks(g.pg_freelist)
  OBVIOUS
<1>2. /\ g \in GroupT /\ g.pg_freelist \in FreeListT /\ ListsOK(g.pg_freelist)
      /\ g.pg_map \in [Order \ {0} -> SUBSET Nat] /\ F \in SUBSET Page /\ Tiles(B, F)
      /\ BitsOK(B, g.pg_map) /\ g.page_freecount = Cardinality(F) /\ Joined(B)
  BY <1>1, HoldsFacts DEF FreesGood, Good, Holds
<1>3. addr \in Page /\ addr \in Nat /\ order \in Order /\ Aligned(addr, order)
  BY OrderFacts DEF FreesGood
<1>4. Come(B, F, g.pg_map, order, addr)
  BY <1>2, <1>3 DEF Come, FreesGood
<1>5. PICK X : X = F \cup Block(addr, order)
  OBVIOUS
<1>6. PICK B2 : B2 = B \cup {<<addr, order>>}
  OBVIOUS
<1>7. /\ <<addr, order>> \notin B /\ X \in SUBSET Page /\ Tiles(B2, X)
      /\ BitsOK(B2, Flip(g.pg_map, order + 1, addr)) /\ JoinedBut(B2, addr, order)
      /\ Cardinality(X) = Cardinality(F) + npages[order]
  <2>1. Came(B, F, g.pg_map, order, addr)
    BY <1>4, BlockCome
  <2>. QED BY <1>5, <1>6, <2>1 DEF Came
<1>8. IsListed(g, addr, order, h)
  BY <1>2, <1>3 DEF IsListed
<1>9. Put(g, addr, order, h)
  BY <1>8, ListedIs
<1>10. PICK fl, fl2 : fl = g.pg_freelist /\ fl2 = h.pg_freelist
  OBVIOUS
<1>11. SetList(fl, order, <<addr>> \o fl[order], fl2)
  BY <1>9, <1>10 DEF Put
<1>12. fl2 \in FreeListT /\ ListsOK(fl2) /\ Blocks(fl2) = B2
  BY <1>1, <1>2, <1>3, <1>6, <1>7, <1>10, <1>11, PushBlock
<1>13. Holds(h, X)
  BY <1>2, <1>7, <1>9, <1>10, <1>12 DEF Holds, Put
<1>. QED BY <1>5, <1>6, <1>7, <1>9, <1>10, <1>12, <1>13 DEF GoodBut, Put, FreesGood
-----------------------------------------------------------------------------
(* The turns of page_free_order                                             *)
FreeTurns(g, addr, order, h, at) ==
  /\ at[order] = [addr |-> addr, joining |-> TRUE, group |-> Listed(g, addr, order)]
  /\ \A n \in order .. (Top - 1) : at[n + 1] = join(at[n], n)
  /\ h = at[Top].group

(* page_free_order runs through its turns.                                  *)
LEMMA FreeTurnsExist ==
  ASSUME NEW g, NEW addr, NEW order, NEW h, FreesBlock(g, addr, order, h)
  PROVE  \E at : FreeTurns(g, addr, order, h, at)
<1>1. order \in Nat /\ Top \in Nat /\ order <= Top /\ h = page_free_order(g, addr, order)
  BY OrderFacts DEF FreesBlock
<1>2. PICK S : S = [addr |-> addr, joining |-> TRUE, group |-> Listed(g, addr, order)]
  OBVIOUS
<1> DEFINE at == CHOOSE f : f = [n \in order .. Top |-> IF n = order THEN S ELSE join(f[n - 1], n - 1)]
<1>3. h = at[Top].group
  BY <1>1, <1>2, Zenon DEF page_free_order, Listed, Iterate
<1>4. at = CHOOSE f : IsLoop(2, 0, f, S, order, Top)
  BY DEF IsLoop, StepOf
<1> HIDE DEF at
<1>5. Turns(2, 0, at, S, order, Top)
  BY <1>1, <1>4, LoopTurns
<1>6. at[order] = S /\ \A n \in order .. (Top - 1) : at[n + 1] = join(at[n], n)
  <2>1. \A n \in order .. (Top - 1) : (n + 1) - 1 = n
    BY <1>1
  <2>. QED BY <1>5, <2>1 DEF Turns, StepOf
<1>7. FreeTurns(g, addr, order, h, at)
  BY <1>2, <1>3, <1>6 DEF FreeTurns
<1>. QED BY <1>7

(* All its turns keep the types and cover the block.                        *)
LEMMA FreeTyped ==
  ASSUME NEW g, NEW addr, NEW order, NEW h, FreesBlock(g, addr, order, h),
         NEW at, FreeTurns(g, addr, order, h, at)
  PROVE  \A n \in order .. Top : TypedAt(at[n], n, g.intact,
                                   Covered(g.pg_freelist) \cup (Block(addr, order) \cap Page))
<1>1. order \in Nat /\ Top \in Nat /\ order <= Top
  BY OrderFacts DEF FreesBlock
<1>2. PICK X : X = Covered(g.pg_freelist) \cup (Block(addr, order) \cap Page)
  OBVIOUS
<1> DEFINE T == {n \in Nat : TypedAt(at[n], n, g.intact, X)}
<1>3. order \in T
  <2>1. PICK h0 : h0 = Listed(g, addr, order)
    OBVIOUS
  <2>2. IsListed(g, addr, order, h0)
    BY <2>1 DEF IsListed, FreesBlock
  <2>3. Put(g, addr, order, h0) /\ X \subseteq Covered(h0.pg_freelist)
    BY <1>2, <2>2, ListedIs, ListedTyped
  <2>4. at[order] = [addr |-> addr, joining |-> TRUE, group |-> h0]
    BY <2>1 DEF FreeTurns
  <2>5. at[order] \in JoinT /\ at[order].addr = addr /\ at[order].group = h0
    BY <2>3, <2>4 DEF JoinT, Put, FreesBlock
  <2>. QED BY <1>1, <2>3, <2>5 DEF TypedAt, Put, FreesBlock
<1>4. ASSUME NEW n \in order .. (Top - 1), n \in T PROVE n + 1 \in T
  <2>1. n \in Order /\ n + 1 \in Nat
    BY <1>1, OrderFacts
  <2>2. at[n + 1] = join(at[n], n)
    BY DEF FreeTurns
  <2>3. TypedAt(at[n + 1], n + 1, g.intact, X)
    BY <1>4, <2>1, <2>2, JoinTyped
  <2>. QED BY <2>1, <2>3
<1>5. \A n \in order .. Top : n \in T
  <2> HIDE DEF T
  <2>. QED BY <1>1, <1>3, <1>4, RangeInduction
<1>. QED BY <1>2, <1>5

(* Whatever the lists are: a group comes back that has no page less free.   *)
LEMMA PageFreeTyped ==
  ASSUME NEW g, NEW addr, NEW order, NEW h, FreesBlock(g, addr, order, h)
  PROVE  /\ h \in GroupT /\ (h.intact => g.intact)
         /\ Covered(g.pg_freelist) \cup (Block(addr, order) \cap Page) \subseteq Covered(h.pg_freelist)
<1>1. PICK at : FreeTurns(g, addr, order, h, at)
  BY FreeTurnsExist
<1>2. Top \in order .. Top
  BY OrderFacts DEF FreesBlock
<1>3. TypedAt(at[Top], Top, g.intact, Covered(g.pg_freelist) \cup (Block(addr, order) \cap Page))
  BY <1>1, <1>2, FreeTyped
<1>4. h = at[Top].group
  BY <1>1 DEF FreeTurns
<1>. QED BY <1>3, <1>4 DEF TypedAt, JoinT

(* In a group that is well kept the block comes to the free ones, and only  *)
(* a block behind those of the largest order can break the lists.           *)
LEMMA PageFreeGood ==
  ASSUME NEW g, NEW F, NEW addr, NEW order, FreesGood(g, F, addr, order),
         NEW h, h = page_free_order(g, addr, order)
  PROVE  /\ h.intact => Good(h, F \cup Block(addr, order))
         /\ ~h.intact => InTail(addr)
<1>1. order \in Nat /\ Top \in Nat /\ order <= Top /\ g \in GroupT
  BY OrderFacts DEF FreesGood, Good, Holds
<1>2. FreesBlock(g, addr, order, h)
  BY <1>1 DEF FreesBlock, FreesGood
<1>3. PICK at : FreeTurns(g, addr, order, h, at)
  BY <1>2, FreeTurnsExist
<1>4. \A n \in order .. Top : TypedAt(at[n], n, g.intact,
                                Covered(g.pg_freelist) \cup (Block(addr, order) \cap Page))
  BY <1>2, <1>3, FreeTyped
<1>5. PICK X : X = F \cup Block(addr, order)
  OBVIOUS
<1>6. PICK tail : tail = InTail(addr)
  OBVIOUS
<1> DEFINE T == {n \in Nat : FreeAt(at[n], n, X, tail)}
<1>7. order \in T
  <2>1. PICK h0 : h0 = Listed(g, addr, order)
    OBVIOUS
  <2>2. GoodBut(h0, X, addr, order) /\ h0.intact /\ <<addr, order>> \in Blocks(h0.pg_freelist)
    BY <1>5, <2>1, ListedGood
  <2>3. at[order] = [addr |-> addr, joining |-> TRUE, group |-> h0]
    BY <1>3, <2>1 DEF FreeTurns
  <2>4. at[order].addr = addr /\ at[order].group = h0 /\ at[order].joining
    BY <2>3
  <2>. QED BY <1>1, <1>6, <2>2, <2>4 DEF FreeAt
<1>8. ASSUME NEW n \in order .. (Top - 1), n \in T PROVE n + 1 \in T
  <2>1. n \in Order /\ n + 1 \in Nat /\ n \in order .. Top
    BY <1>1, OrderFacts
  <2>2. at[n + 1] = join(at[n], n)
    BY <1>3 DEF FreeTurns
  <2>3. at[n] \in JoinT /\ (at[n].joining => Aligned(at[n].addr, n))
    BY <1>4, <2>1 DEF TypedAt
  <2>4. FreeAt(at[n + 1], n + 1, X, tail)
    BY <1>8, <2>1, <2>2, <2>3, JoinGood
  <2>. QED BY <2>1, <2>4
<1>9. \A n \in order .. Top : n \in T
  <2> HIDE DEF T
  <2>. QED BY <1>1, <1>7, <1>8, RangeInduction
<1>10. FreeAt(at[Top], Top, X, tail) /\ h = at[Top].group
  BY <1>1, <1>3, <1>9 DEF FreeTurns
<1>11. h.intact => Good(h, X)
  <2>1. CASE ~at[Top].joining
    BY <1>10, <2>1 DEF FreeAt
  <2>2. CASE at[Top].joining
    <3>1. GoodBut(h, X, at[Top].addr, Top)
      BY <1>10, <2>2 DEF FreeAt
    <3>2. Joined(Blocks(h.pg_freelist))
      <4>1. \A o \in 0 .. (Top - 1) : o # Top
        BY <1>1
      <4>. QED BY <3>1, <4>1 DEF GoodBut, JoinedBut, Joined
    <3>. QED BY <3>1, <3>2 DEF GoodBut, Good
  <2>. QED BY <2>1, <2>2
<1>12. ~h.intact => tail
  BY <1>10 DEF FreeAt
<1>. QED BY <1>5, <1>6, <1>11, <1>12
-----------------------------------------------------------------------------
(* The number of pages, digit by digit                                      *)
Over(n) == NPages % npages[n]

(* Quotient and remainder are the only ones.                                *)
LEMMA DivisionOf ==
  ASSUME NEW s \in Nat \ {0}, NEW x \in Nat
  PROVE  /\ x \div s \in Nat /\ x % s \in Nat /\ x % s < s
         /\ x = (x \div s) * s + (x % s)
         /\ \A k \in Nat, r \in Nat : x = k * s + r /\ r < s => x \div s = k /\ x % s = r
<1>1. /\ x \div s \in Nat /\ x % s \in Nat /\ x % s < s
      /\ x = (x \div s) * s + (x % s)
  BY Divided
<1>2. ASSUME NEW k \in Nat, NEW r \in Nat, x = k * s + r, r < s PROVE x \div s = k /\ x % s = r
  BY <1>2, Division
<1>. QED BY <1>1, <1>2

(* One more binary digit of the number of pages.                            *)
LEMMA NextDigit ==
  ASSUME NEW n \in Nat
  PROVE  /\ Over(n) \in Nat /\ Over(n) <= NPages
         /\ Over(n + 1) = IF (NPages \div npages[n]) % 2 = 1 THEN npages[n] + Over(n) ELSE Over(n)
<1>1. PICK s \in Nat \ {0} : s = npages[n] /\ npages[n + 1] = 2 * s
  BY PowerFacts
<1>2. PICK q \in Nat, r \in Nat : q = NPages \div s /\ r = NPages % s /\ r < s /\ NPages = q * s + r
  BY DivisionOf
<1>3. PICK c \in Nat, e \in Nat : e = q % 2 /\ q = 2 * c + e /\ e < 2
  <2>1. q \div 2 \in Nat /\ q % 2 \in Nat /\ q % 2 < 2 /\ q = 2 * (q \div 2) + (q % 2)
    OBVIOUS
  <2>. QED BY <2>1
<1>4. Over(n) \in Nat /\ Over(n) <= NPages
  <2>1. q * s \in Nat
    OBVIOUS
  <2>. QED BY <1>1, <1>2, <2>1 DEF Over
<1>5. CASE e = 0
  <2>1. NPages = c * (2 * s) + r /\ r < 2 * s /\ 2 * s \in Nat \ {0}
    BY <1>2, <1>3, <1>5
  <2>2. NPages % (2 * s) = r
    BY <2>1, DivisionOf
  <2>3. (NPages \div npages[n]) % 2 # 1 /\ Over(n) = r /\ Over(n + 1) = r
    BY <1>1, <1>2, <1>3, <1>5, <2>2 DEF Over
  <2>. QED BY <1>4, <2>3
<1>6. CASE e = 1
  <2>1. NPages = c * (2 * s) + (s + r) /\ s + r < 2 * s /\ 2 * s \in Nat \ {0} /\ s + r \in Nat
    BY <1>2, <1>3, <1>6
  <2>2. NPages % (2 * s) = s + r
    BY <2>1, DivisionOf
  <2>3. (NPages \div npages[n]) % 2 = 1 /\ Over(n) = r /\ Over(n + 1) = s + r
    BY <1>1, <1>2, <1>3, <1>6, <2>2 DEF Over
  <2>. QED BY <1>1, <1>4, <2>3
<1>7. e = 0 \/ e = 1
  BY <1>3
<1>. QED BY <1>5, <1>6, <1>7, <1>4

(* What is left of the pages when as many blocks as possible are taken      *)
LEMMA OverAligned ==
  ASSUME NEW n \in Nat
  PROVE  NPages - Over(n) \in Nat /\ Aligned(NPages - Over(n), n)
<1>1. PICK s \in Nat \ {0} : s = npages[n]
  BY PowerFacts
<1>2. PICK q \in Nat, r \in Nat : q = NPages \div s /\ r = NPages % s /\ r < s /\ NPages = q * s + r
  BY DivisionOf
<1>3. NPages - Over(n) = q * s /\ q * s \in Nat
  <2>1. Over(n) = r
    BY <1>1, <1>2 DEF Over
  <2>2. PICK y \in Nat : y = q * s
    OBVIOUS
  <2>. QED BY <1>2, <2>1, <2>2
<1>. QED BY <1>1, <1>3 DEF Aligned

(* The pages that are left over at an order are in the tail.                *)
LEMMA OverInTail ==
  ASSUME NEW n \in 0 .. Top
  PROVE  InTail(NPages - Over(n))
<1>1. n \in Nat /\ Top \in Nat /\ Top - n \in Nat /\ n + (Top - n) = Top
  BY OrderFacts
<1>2. PICK s \in Nat \ {0}, w \in Nat \ {0} : s = npages[n] /\ w = npages[Top]
  BY <1>1, PowerFacts
<1>3. PICK f \in Nat \ {0} : w = f * s
  <2>1. PICK d \in Nat : d = Top - n /\ n + d = Top
    BY <1>1
  <2>2. PICK f \in Nat \ {0} : npages[n + d] = f * npages[n]
    BY <1>1, PowerFactor
  <2>3. npages[Top] = f * npages[n]
    BY <2>1, <2>2
  <2>. QED BY <1>2, <2>3
<1>4. PICK q \in Nat, r \in Nat : q = NPages \div s /\ r = NPages % s /\ r < s /\ NPages = q * s + r
  BY DivisionOf
<1>5. PICK k \in Nat, t \in Nat : k = NPages \div w /\ t = NPages % w /\ NPages = k * w + t
  BY DivisionOf
<1>6. PICK m \in Nat : m = k * f
  OBVIOUS
<1>7. k * w = m * s
  BY <1>3, <1>6
<1>8. m <= q
  <2> SUFFICES ASSUME m >= q + 1 PROVE FALSE
    OBVIOUS
  <2>1. PICK d \in Nat : m = q + 1 + d
    <3>1. m - (q + 1) \in Nat /\ m = q + 1 + (m - (q + 1))
      OBVIOUS
    <3>. QED BY <3>1
  <2>2. m * s = q * s + s + d * s /\ d * s \in Nat /\ q * s \in Nat
    BY <2>1
  <2>3. PICK x \in Nat, y \in Nat : x = q * s /\ y = d * s
    BY <2>2
  <2>4. m * s = x + s + y /\ NPages = x + r /\ NPages = m * s + t
    BY <1>4, <1>5, <1>7, <2>2, <2>3
  <2>5. x + r = x + s + y + t
    BY <2>4
  <2>6. r = s + y + t
    BY <2>5
  <2>. QED BY <1>4, <2>6
<1>9. m * s <= q * s
  <2>1. q - m \in Nat
    BY <1>8
  <2>2. q * s = m * s + (q - m) * s /\ (q - m) * s \in Nat /\ m * s \in Nat
    BY <2>1
  <2>. QED BY <2>2
<1>10. NPages - Over(n) = q * s /\ q * s \in Nat /\ m * s \in Nat
  <2>1. Over(n) = r
    BY <1>2, <1>4 DEF Over
  <2>2. PICK y \in Nat, z \in Nat : y = q * s /\ z = m * s
    OBVIOUS
  <2>. QED BY <1>4, <2>1, <2>2
<1>. QED BY <1>2, <1>5, <1>7, <1>9, <1>10 DEF InTail
-----------------------------------------------------------------------------
(* Two sets of blocks side by side.                                         *)
LEMMA TilesUnion ==
  ASSUME NEW U, NEW X, Tiles(U, X), NEW V, NEW Y, Tiles(V, Y), X \cap Y = {}
  PROVE  Tiles(U \cup V, X \cup Y)
<1>1. \A u \in U \cup V : Block(u[1], u[2]) \subseteq X \cup Y
  BY DEF Tiles
<1>2. \A p \in X \cup Y : \E u \in U \cup V : p \in Block(u[1], u[2])
  BY DEF Tiles
<1>3. ASSUME NEW u \in U \cup V, NEW v \in U \cup V, NEW p \in Block(u[1], u[2]), p \in Block(v[1], v[2])
      PROVE  u = v
  <2>1. CASE u \in U /\ v \in U
    BY <1>3, <2>1 DEF Tiles
  <2>2. CASE u \in V /\ v \in V
    BY <1>3, <2>2 DEF Tiles
  <2>3. CASE (u \in U /\ v \in V) \/ (u \in V /\ v \in U)
    <3>1. p \in X /\ p \in Y
      BY <1>3, <2>3 DEF Tiles
    <3>. QED BY <3>1
  <2>. QED BY <2>1, <2>2, <2>3
<1>. QED BY <1>1, <1>2, <1>3 DEF Tiles

(* The lists the group starts with                                          *)
Start == pagegroup_create.pg_freelist

(* The parts of the group pagegroup_create makes.                           *)
LEMMA StartIs ==
  /\ pagegroup_create.pg_map = [order \in Order \ {0} |-> {}]
  /\ pagegroup_create.page_freecount = NPages /\ pagegroup_create.intact
  /\ pagegroup_create = [pg_freelist |-> Start, pg_map |-> pagegroup_create.pg_map,
                         page_freecount |-> NPages, intact |-> TRUE]
  /\ \A n \in Order : n < Top => Start[n] = TailBlock(n)
  /\ Start[Top] = [i \in 1 .. NPages \div npages[Top] |-> ((NPages \div npages[Top]) - i) * npages[Top]]
  /\ DOMAIN Start = Order /\ Start = [n \in Order |-> Start[n]]
<1>1. PICK fl : fl = [order \in Order |->
                        IF order < Top THEN TailBlock(order)
                        ELSE [i \in 1 .. NPages \div npages[Top] |->
                                ((NPages \div npages[Top]) - i) * npages[Top]]]
  OBVIOUS
<1>2. pagegroup_create = [pg_freelist |-> fl, pg_map |-> [order \in Order \ {0} |-> {}],
                          page_freecount |-> NPages, intact |-> TRUE]
  BY <1>1, Zenon DEF pagegroup_create
<1>3. Start = fl
  BY <1>2 DEF Start
<1>4. Top \in Order /\ ~(Top < Top)
  BY OrderFacts
<1>5. pagegroup_create = [pg_freelist |-> Start, pg_map |-> pagegroup_create.pg_map,
                          page_freecount |-> NPages, intact |-> TRUE]
  BY <1>2, <1>3
<1>. QED BY <1>1, <1>2, <1>3, <1>4, <1>5

(* A list of a smaller order has a block of the tail, or none.              *)
LEMMA TailList ==
  ASSUME NEW n \in Order, n < Top
  PROVE  /\ Start[n] \in Seq(Nat) /\ IsInjective(Start[n])
         /\ ToSet(Start[n]) = IF (NPages \div npages[n]) % 2 = 1 THEN {NPages - Over(n + 1)} ELSE {}
         /\ \A a \in ToSet(Start[n]) : a \in Page /\ Aligned(a, n) /\ InTail(a)
<1>1. n \in Nat /\ n + 1 \in 0 .. Top /\ n + 1 \in Nat /\ n <= n + 1
  BY OrderFacts
<1>2. PICK a : a = NPages - Over(n + 1)
  OBVIOUS
<1>3. a \in Nat /\ Aligned(a, n + 1) /\ InTail(a)
  BY <1>1, <1>2, OverAligned, OverInTail
<1>4. Aligned(a, n)
  BY <1>1, <1>3, AlignedDown
<1>5. Start[n] = IF (NPages \div npages[n]) % 2 = 1 THEN <<a>> ELSE <<>>
  BY <1>2, StartIs, Zenon DEF TailBlock, Over
<1>6. CASE (NPages \div npages[n]) % 2 = 1
  <2>1. Start[n] = <<a>>
    BY <1>5, <1>6
  <2>2. Over(n + 1) = npages[n] + Over(n) /\ Over(n) \in Nat /\ Over(n) <= NPages
    BY <1>1, <1>6, NextDigit
  <2>3. npages[n] \in Nat \ {0}
    BY <1>1, PowerFacts
  <2>4. a < NPages
    BY <1>2, <2>2, <2>3
  <2>5. a \in Page
    BY <1>3, <2>4 DEF Page
  <2>6. <<a>> \in Seq(Nat) /\ IsInjective(<<a>>) /\ ToSet(<<a>>) = {a}
    BY <1>3 DEF IsInjective, ToSet
  <2>. QED BY <1>2, <1>3, <1>4, <1>6, <2>1, <2>5, <2>6
<1>7. CASE (NPages \div npages[n]) % 2 # 1
  <2>1. Start[n] = <<>>
    BY <1>5, <1>7
  <2>2. <<>> \in Seq(Nat) /\ IsInjective(<<>>) /\ ToSet(<<>>) = {}
    BY DEF IsInjective, ToSet
  <2>. QED BY <1>7, <2>1, <2>2
<1>. QED BY <1>6, <1>7

(* The blocks of the largest order, from the last to the first.             *)
LEMMA TopList ==
  /\ Start[Top] \in Seq(Nat) /\ IsInjective(Start[Top])
  /\ \A a : a \in ToSet(Start[Top]) <=> \E k \in 0 .. ((NPages \div npages[Top]) - 1) : a = k * npages[Top]
  /\ \A a \in ToSet(Start[Top]) : a \in Page /\ Aligned(a, Top)
<1>1. PICK w \in Nat \ {0} : w = npages[Top]
  BY OrderFacts, PowerFacts
<1>2. PICK c \in Nat, r \in Nat : c = NPages \div w /\ r = NPages % w /\ NPages = c * w + r
  BY DivisionOf
<1>3. PICK l : l = Start[Top]
  OBVIOUS
<1>4. l = [i \in 1 .. c |-> (c - i) * w]
  BY <1>1, <1>2, <1>3, StartIs
<1>5. \A i \in 1 .. c : c - i \in Nat /\ (c - i) * w \in Nat
  BY <1>2
<1>6. l \in Seq(Nat) /\ Len(l) = c /\ DOMAIN l = 1 .. c
  BY <1>4, <1>5
<1>7. IsInjective(l)
  <2> SUFFICES ASSUME NEW i \in 1 .. c, NEW k \in 1 .. c, l[i] = l[k] PROVE i = k
    BY <1>6 DEF IsInjective
  <2>1. (c - i) * w = (c - k) * w
    BY <1>4
  <2>2. c - i \in Nat /\ c - k \in Nat
    OBVIOUS
  <2>3. ((c - i) * w + 0) \div w = c - i /\ ((c - k) * w + 0) \div w = c - k
    BY <2>2, Division
  <2>. QED BY <2>1, <2>2, <2>3
<1>8. ASSUME NEW a
      PROVE  a \in ToSet(l) <=> \E k \in 0 .. (c - 1) : a = k * w
  <2>1. ASSUME a \in ToSet(l) PROVE \E k \in 0 .. (c - 1) : a = k * w
    <3>1. PICK i \in 1 .. c : a = l[i]
      BY <1>6, <2>1 DEF ToSet
    <3>2. c - i \in 0 .. (c - 1) /\ a = (c - i) * w
      BY <1>4, <3>1
    <3>. QED BY <3>2
  <2>2. ASSUME NEW k \in 0 .. (c - 1), a = k * w PROVE a \in ToSet(l)
    <3>1. c - k \in 1 .. c /\ c - (c - k) = k
      OBVIOUS
    <3>2. l[c - k] = a
      BY <1>4, <2>2, <3>1
    <3>. QED BY <1>6, <3>1, <3>2 DEF ToSet
  <2>. QED BY <2>1, <2>2
<1>9. ASSUME NEW k \in 0 .. (c - 1) PROVE k * w \in Page /\ Aligned(k * w, Top)
  <2>1. PICK d \in Nat : c = k + 1 + d
    <3>1. c - (k + 1) \in Nat /\ c = k + 1 + (c - (k + 1))
      OBVIOUS
    <3>. QED BY <3>1
  <2>2. c * w = k * w + w + d * w /\ d * w \in Nat /\ k * w \in Nat
    BY <2>1
  <2>3. k * w < NPages
    BY <1>2, <2>2
  <2>. QED BY <1>1, <2>2, <2>3 DEF Page, Aligned
<1>. QED BY <1>1, <1>2, <1>3, <1>6, <1>7, <1>8, <1>9
-----------------------------------------------------------------------------
Small(n) == {b \in Blocks(Start) : b[2] < n}
Tail0(n) == (NPages - Over(n)) .. (NPages - 1)

(* The blocks of the tail below an order make up what is left over there.   *)
LEMMA TailTiles ==
  \A n \in 0 .. Top : Tiles(Small(n), Tail0(n))
<1>1. 0 \in Nat /\ Top \in Nat
  BY OrderFacts
<1> DEFINE T == {n \in Nat : Tiles(Small(n), Tail0(n))}
<1>2. 0 \in T
  <2>1. Small(0) = {}
    <3>1. \A b \in Blocks(Start) : b[2] \in Nat
      BY OfBlocks, OrderFacts
    <3>. QED BY <3>1 DEF Small
  <2>2. Tail0(0) = {}
    <3>1. NPages = NPages * 1 + 0
      OBVIOUS
    <3>2. NPages % 1 = 0
      BY <3>1, DivisionOf
    <3>3. Over(0) = 0
      BY <3>2, PowerFacts DEF Over
    <3>. QED BY <3>3 DEF Tail0
  <2>. QED BY <2>1, <2>2 DEF Tiles
<1>3. ASSUME NEW n \in 0 .. (Top - 1), n \in T PROVE n + 1 \in T
  <2>1. n \in Nat /\ n \in Order /\ n < Top /\ n + 1 \in Nat
    BY OrderFacts
  <2>2. Tiles(Small(n), Tail0(n))
    BY <1>3
  <2>3. /\ Over(n) \in Nat /\ Over(n) <= NPages /\ Over(n + 1) \in Nat /\ Over(n + 1) <= NPages
        /\ Over(n + 1) = IF (NPages \div npages[n]) % 2 = 1 THEN npages[n] + Over(n) ELSE Over(n)
    BY <2>1, NextDigit
  <2>4. PICK a : a = NPages - Over(n + 1)
    OBVIOUS
  <2>5. ToSet(Start[n]) = IF (NPages \div npages[n]) % 2 = 1 THEN {a} ELSE {}
    BY <2>1, <2>4, TailList
  <2>6. \A b : b \in Small(n + 1) <=> b \in Small(n) \/ (b \in Blocks(Start) /\ b[2] = n)
    <3>1. \A b \in Blocks(Start) : b[2] \in Nat
      BY OfBlocks, OrderFacts
    <3>. QED BY <2>1, <3>1 DEF Small
  <2>7. CASE (NPages \div npages[n]) % 2 = 1
    <3>1. a \in Page
      BY <2>1, <2>5, <2>7, TailList
    <3>2. <<a, n>> \in Blocks(Start)
      BY <2>1, <2>5, <2>7, <3>1, InBlocks
    <3>3. \A b \in Blocks(Start) : b[2] = n => b = <<a, n>>
      BY <2>5, <2>7, OfBlocks
    <3>4. Small(n + 1) = Small(n) \cup {<<a, n>>}
      <4>1. <<a, n>>[2] = n
        OBVIOUS
      <4>. QED BY <2>6, <3>2, <3>3, <4>1
    <3>5. npages[n] \in Nat \ {0}
      BY <2>1, PowerFacts
    <3>6. Block(a, n) = a .. (a + npages[n] - 1)
      BY DEF Block
    <3>7. a + npages[n] = NPages - Over(n) /\ a \in Int
      BY <2>3, <2>4, <2>7, <3>5
    <3>8. Tail0(n + 1) = Tail0(n) \cup Block(a, n)
      <4>1. PICK y \in Nat \ {0} : y = npages[n]
        BY <3>5
      <4>2. Tail0(n + 1) = a .. (NPages - 1) /\ Tail0(n) = (a + y) .. (NPages - 1)
        BY <2>4, <3>7, <4>1 DEF Tail0
      <4>3. Block(a, n) = a .. (a + y - 1)
        BY <3>6, <4>1
      <4>4. a \in Int /\ a + y <= NPages
        BY <2>3, <3>7, <4>1
      <4>. QED BY <4>2, <4>3, <4>4
    <3>9. \A p \in Block(a, n) : p \notin Tail0(n)
      BY <2>3, <3>5, <3>6, <3>7 DEF Tail0
    <3>10. <<a, n>>[1] = a /\ <<a, n>>[2] = n
      OBVIOUS
    <3>11. Tiles(Small(n) \cup {<<a, n>>}, Tail0(n) \cup Block(a, n))
      BY <2>2, <3>9, <3>10, TilesAdd
    <3>. QED BY <2>1, <3>4, <3>8, <3>11
  <2>8. CASE (NPages \div npages[n]) % 2 # 1
    <3>1. \A b \in Blocks(Start) : b[2] # n
      BY <2>5, <2>8, OfBlocks
    <3>2. Small(n + 1) = Small(n)
      BY <2>6, <3>1
    <3>3. Over(n + 1) = Over(n)
      BY <2>3, <2>8
    <3>4. Tail0(n + 1) = Tail0(n)
      BY <3>3 DEF Tail0
    <3>. QED BY <2>1, <2>2, <3>2, <3>4
  <2>. QED BY <2>7, <2>8
<1>4. \A n \in 0 .. Top : n \in T
  <2> HIDE DEF T
  <2>. QED BY <1>1, <1>2, <1>3, RangeInduction
<1>. QED BY <1>4

(* The blocks of the largest order make up all but the tail.                *)
LEMMA TopTiles ==
  Tiles({b \in Blocks(Start) : b[2] = Top}, 0 .. (NPages - Over(Top) - 1))
<1>1. PICK w \in Nat \ {0} : w = npages[Top]
  BY OrderFacts, PowerFacts
<1>2. PICK c \in Nat, r \in Nat : c = NPages \div w /\ r = NPages % w /\ r < w /\ NPages = c * w + r
  BY DivisionOf
<1>3. PICK z \in Nat : z = c * w
  OBVIOUS
<1>4. Over(Top) = r /\ NPages - Over(Top) = z
  <2>1. Over(Top) = r
    BY <1>1, <1>2 DEF Over
  <2>2. NPages = z + r
    BY <1>2, <1>3
  <2>. QED BY <2>1, <2>2
<1>5. PICK X : X = 0 .. (z - 1)
  OBVIOUS
<1>6. PICK U : U = {b \in Blocks(Start) : b[2] = Top}
  OBVIOUS
<1>7. \A a : a \in ToSet(Start[Top]) <=> \E k \in 0 .. (c - 1) : a = k * w
  BY <1>1, <1>2, TopList
<1>8. Top \in Order /\ \A a \in ToSet(Start[Top]) : a \in Page
  BY OrderFacts, TopList
<1>9. ASSUME NEW b
      PROVE  b \in U <=> \E k \in 0 .. (c - 1) : b = <<k * w, Top>>
  <2>1. ASSUME b \in U PROVE \E k \in 0 .. (c - 1) : b = <<k * w, Top>>
    <3>1. b = <<b[1], b[2]>> /\ b[2] = Top /\ b[1] \in ToSet(Start[b[2]])
      BY <1>6, <2>1, OfBlocks
    <3>2. b = <<b[1], Top>> /\ b[1] \in ToSet(Start[Top])
      BY <3>1
    <3>. QED BY <1>7, <3>2
  <2>2. ASSUME NEW k \in 0 .. (c - 1), b = <<k * w, Top>> PROVE b \in U
    <3>1. k * w \in ToSet(Start[Top]) /\ k * w \in Page
      BY <1>7, <1>8
    <3>2. <<k * w, Top>> \in Blocks(Start)
      BY <1>8, <3>1, InBlocks
    <3>3. b[2] = Top
      BY <2>2
    <3>. QED BY <1>6, <2>2, <3>2, <3>3
  <2>. QED BY <2>1, <2>2
<1>10. ASSUME NEW k \in Nat
       PROVE  /\ k * w \in Nat /\ Block(k * w, Top) = (k * w) .. (k * w + w - 1)
              /\ \A p \in Block(k * w, Top) : p \in Nat /\ p \div w = k
  <2>1. k * w \in Nat /\ Block(k * w, Top) = (k * w) .. (k * w + w - 1)
    BY <1>1 DEF Block
  <2>2. ASSUME NEW p \in (k * w) .. (k * w + w - 1) PROVE p \in Nat /\ p \div w = k
    <3>1. PICK y \in Nat : y = k * w
      BY <2>1
    <3>2. p - y \in Nat /\ p - y < w /\ p = y + (p - y) /\ p \in Nat
      BY <3>1
    <3>3. PICK d \in Nat : d = p - y
      BY <3>2
    <3>4. p = k * w + d /\ d < w
      BY <3>1, <3>2, <3>3
    <3>. QED BY <3>2, <3>4, DivisionOf
  <2>. QED BY <2>1, <2>2
<1>11. ASSUME NEW k \in 0 .. (c - 1) PROVE Block(k * w, Top) \subseteq X
  <2>1. PICK d \in Nat : c = k + 1 + d
    <3>1. c - (k + 1) \in Nat /\ c = k + 1 + (c - (k + 1))
      OBVIOUS
    <3>. QED BY <3>1
  <2>2. PICK x \in Nat, y \in Nat : x = k * w /\ y = d * w
    OBVIOUS
  <2>3. z = x + w + y
    BY <1>3, <2>1, <2>2
  <2>4. k \in Nat
    OBVIOUS
  <2>5. Block(x, Top) = x .. (x + w - 1)
    BY <1>1 DEF Block
  <2>6. Block(k * w, Top) = Block(x, Top)
    BY <2>2
  <2>. QED BY <1>5, <2>3, <2>5, <2>6
<1>12. ASSUME NEW p \in X
       PROVE  \E k \in 0 .. (c - 1) : p \in Block(k * w, Top)
  <2>1. p \in Nat /\ p < z
    BY <1>5
  <2>2. PICK k \in Nat, t \in Nat : k = p \div w /\ t = p % w /\ t < w /\ p = k * w + t
    <3>1. p \div w \in Nat /\ p % w \in Nat /\ p % w < w /\ p = (p \div w) * w + (p % w)
      BY <2>1, DivisionOf
    <3>. QED BY <3>1
  <2>3. k < c
    <3> SUFFICES ASSUME k >= c PROVE FALSE
      OBVIOUS
    <3>1. PICK d \in Nat : k = c + d
      <4>1. k - c \in Nat /\ k = c + (k - c)
        OBVIOUS
      <4>. QED BY <4>1
    <3>2. PICK y \in Nat : y = d * w
      OBVIOUS
    <3>3. p = z + y + t
      BY <1>3, <2>2, <3>1, <3>2
    <3>. QED BY <2>1, <3>3
  <2>4. PICK x \in Nat : x = k * w
    OBVIOUS
  <2>5. p \in Block(k * w, Top)
    <3>1. Block(x, Top) = x .. (x + w - 1)
      BY <1>1 DEF Block
    <3>2. p = x + t /\ t < w
      BY <2>2, <2>4
    <3>3. p \in Block(x, Top)
      BY <3>1, <3>2
    <3>. QED BY <2>4, <3>3
  <2>6. k \in 0 .. (c - 1)
    BY <2>2, <2>3
  <2>. QED BY <2>5, <2>6, Zenon
<1>13. \A u \in U : Block(u[1], u[2]) \subseteq X
  <2> SUFFICES ASSUME NEW u \in U PROVE Block(u[1], u[2]) \subseteq X
    OBVIOUS
  <2>1. PICK k \in 0 .. (c - 1) : u = <<k * w, Top>>
    BY <1>9
  <2>2. u[1] = k * w /\ u[2] = Top
    BY <2>1
  <2>. QED BY <1>11, <2>2
<1>14. \A p \in X : \E u \in U : p \in Block(u[1], u[2])
  <2> SUFFICES ASSUME NEW p \in X PROVE \E u \in U : p \in Block(u[1], u[2])
    OBVIOUS
  <2>1. PICK k \in 0 .. (c - 1) : p \in Block(k * w, Top)
    BY <1>12
  <2>2. <<k * w, Top>> \in U /\ <<k * w, Top>>[1] = k * w /\ <<k * w, Top>>[2] = Top
    BY <1>9
  <2>. QED BY <2>1, <2>2
<1>15. ASSUME NEW u \in U, NEW v \in U, NEW p \in Block(u[1], u[2]), p \in Block(v[1], v[2])
       PROVE  u = v
  <2>1. PICK k \in 0 .. (c - 1) : u = <<k * w, Top>>
    BY <1>9
  <2>2. PICK m \in 0 .. (c - 1) : v = <<m * w, Top>>
    BY <1>9
  <2>3. p \in Block(k * w, Top) /\ p \in Block(m * w, Top) /\ k \in Nat /\ m \in Nat
    BY <1>15, <2>1, <2>2
  <2>4. p \div w = k /\ p \div w = m
    BY <1>10, <2>3
  <2>. QED BY <2>1, <2>2, <2>4
<1>16. Tiles(U, X)
  BY <1>13, <1>14, <1>15 DEF Tiles
<1>. QED BY <1>4, <1>5, <1>6, <1>16

(* pagegroup_create makes a group whose pages are all free.                 *)
LEMMA CreateGood ==
  Good(pagegroup_create, Page) /\ pagegroup_create.intact
<1>1. PICK g : g = pagegroup_create
  OBVIOUS
<1>2. PICK B : B = Blocks(Start)
  OBVIOUS
<1>3. /\ g.pg_freelist = Start /\ g.pg_map = [order \in Order \ {0} |-> {}]
      /\ g.page_freecount = NPages /\ g.intact
      /\ g = [pg_freelist |-> Start, pg_map |-> g.pg_map, page_freecount |-> NPages, intact |-> TRUE]
  BY <1>1, StartIs DEF Start
<1>4. \A n \in Order : n = Top \/ n < Top
  BY OrderFacts
<1>5. \A n \in Order : /\ Start[n] \in Seq(Nat) /\ IsInjective(Start[n])
                       /\ \A a \in ToSet(Start[n]) : a \in Page /\ Aligned(a, n)
  BY <1>4, TailList, TopList
<1>6. Start \in FreeListT /\ ListsOK(Start)
  BY <1>5, StartIs DEF FreeListT, ListsOK
<1>7. g \in GroupT
  <2>1. [order \in Order \ {0} |-> {}] \in [Order \ {0} -> SUBSET Nat]
    OBVIOUS
  <2>2. NPages \in Int /\ TRUE \in BOOLEAN
    OBVIOUS
  <2>. QED BY <1>3, <1>6, <2>1, <2>2 DEF GroupT
<1>8. Tiles(B, Page)
  <2>1. Top \in 0 .. Top /\ Top \in Nat
    BY OrderFacts
  <2>2. Tiles(Small(Top), Tail0(Top))
    BY <2>1, TailTiles
  <2>3. Over(Top) \in Nat /\ Over(Top) <= NPages
    BY <2>1, NextDigit
  <2>4. PICK X, U : X = 0 .. (NPages - Over(Top) - 1) /\ U = {b \in Blocks(Start) : b[2] = Top}
    OBVIOUS
  <2>5. Tiles(U, X)
    BY <2>4, TopTiles
  <2>6. X \cup Tail0(Top) = Page /\ X \cap Tail0(Top) = {}
    BY <2>3, <2>4 DEF Tail0, Page
  <2>7. U \cup Small(Top) = B
    <3>1. \A b \in Blocks(Start) : b[2] = Top \/ b[2] < Top
      BY <1>4, OfBlocks
    <3>. QED BY <1>2, <2>4, <3>1 DEF Small
  <2>8. Tiles(U \cup Small(Top), X \cup Tail0(Top))
    BY <2>2, <2>5, <2>6, TilesUnion
  <2>. QED BY <2>6, <2>7, <2>8
<1>9. ASSUME NEW o \in 0 .. (Top - 1), NEW a \in Nat, Aligned(a, o), ~InTail(a)
      PROVE  <<a, o>> \notin B /\ <<Buddy(a, o), o>> \notin B
  <2>1. o \in Order /\ o < Top /\ o \in Nat
    BY OrderFacts
  <2>2. ~InTail(Buddy(a, o))
    BY <1>9, TailOfPair
  <2>3. \A x : <<x, o>> \in B => InTail(x)
    BY <1>2, <2>1, InBlocks, TailList
  <2>. QED BY <1>9, <2>2, <2>3
<1>10. BitsOK(B, g.pg_map)
  <2> SUFFICES ASSUME NEW o \in 0 .. (Top - 1), NEW a \in Nat, Aligned(a, o), ~InTail(a)
               PROVE  calculate_index(o + 1, a) \in g.pg_map[o + 1]
                        <=> ~(<<a, o>> \in B <=> <<Buddy(a, o), o>> \in B)
    BY DEF BitsOK
  <2>1. o + 1 \in Order \ {0}
    BY OrderFacts
  <2>2. g.pg_map[o + 1] = {}
    BY <1>3, <2>1
  <2>. QED BY <1>9, <2>2
<1>11. Joined(B)
  BY <1>9 DEF Joined
<1>12. Cardinality(Page) = NPages
  <2>1. PICK a, b : a = 0 /\ b = NPages - 1
    OBVIOUS
  <2>2. a \in Int /\ b \in Int
    BY <2>1
  <2>3. Cardinality(a .. b) = IF a > b THEN 0 ELSE b - a + 1
    BY <2>2, FS_Interval
  <2>4. Cardinality(a .. b) = NPages
    BY <2>1, <2>3
  <2>. QED BY <2>1, <2>4 DEF Page
<1>13. Page \in SUBSET Page
  OBVIOUS
<1>. QED BY <1>1, <1>2, <1>3, <1>6, <1>7, <1>8, <1>10, <1>11, <1>12, <1>13 DEF Good, Holds
-----------------------------------------------------------------------------
(* There is a smallest order whose block is large enough.                   *)
LEMMA LeastOrder ==
  ASSUME NEW bytes \in Nat, NEW unit \in Nat, unit * npages[Top] >= bytes
  PROVE  \E n \in Order : /\ unit * npages[n] >= bytes
                          /\ \A m \in Order : m < n => unit * npages[m] < bytes
<1> DEFINE T == {n \in Order : unit * npages[n] >= bytes}
<1>1. T \in SUBSET Nat /\ T # {}
  BY OrderFacts
<1>2. PICK n \in T : \A m \in T : n <= m
  <2> HIDE DEF T
  <2>. QED BY <1>1, LeastElement
<1>3. ASSUME NEW m \in Order, m < n PROVE unit * npages[m] < bytes
  <2>1. m \in Nat /\ n \in Nat
    BY OrderFacts
  <2>2. m \notin T
    BY <1>2, <1>3, <2>1
  <2>3. npages[m] \in Nat
    BY <2>1, PowerFacts
  <2>4. unit * npages[m] \in Nat
    BY <2>3
  <2>. QED BY <2>2, <2>4
<1>. QED BY <1>2, <1>3

(* page_alloc_n finds an order.                                             *)
LEMMA OrderOfIs ==
  ASSUME NEW asked \in NPagesAsked
  PROVE  OrderOf(asked) \in Order
<1>1. asked \in Nat /\ asked <= npages[Top]
  BY SlabAssumption
<1>2. npages[Top] \in Nat /\ \A n \in Order : npages[n] \in Nat
  BY OrderFacts, PowerFacts
<1>3. \E n \in Order : /\ 1 * npages[n] >= asked
                       /\ \A m \in Order : m < n => 1 * npages[m] < asked
  BY <1>1, <1>2, LeastOrder
<1>4. \A n \in Order : 1 * npages[n] = npages[n]
  BY <1>2
<1>5. \E n \in Order : npages[n] >= asked /\ \A m \in Order : m < n => npages[m] < asked
  BY <1>3, <1>4
<1>. QED BY <1>5, Zenon DEF OrderOf
-----------------------------------------------------------------------------
(* The size of an object with its slab_bufctl, and of a slab's block        *)
Stride(c) == sa_objsize[c] + BufctlSize
Bytes(n) == PAGE_SIZE * npages[n]

(* The sizes of the objects of a cache.                                     *)
LEMMA CacheSizes ==
  ASSUME NEW c \in Cache
  PROVE  /\ sa_objsize[c] = ObjSize[c] + 2 * RedZone /\ sa_objsize[c] \in Nat
         /\ ObjSize[c] \in Nat \ {0} /\ RedZone \in Nat
         /\ Stride(c) \in Nat \ {0} /\ SlabSize \in Nat /\ PAGE_SIZE \in Nat \ {0}
         /\ BufctlSize \in Nat \ {0}
         /\ Bytes(Top) >= Stride(c) + SlabSize
<1>1. ObjSize[c] \in Nat \ {0} /\ RedZone \in Nat /\ BufctlSize \in Nat \ {0} /\ SlabSize \in Nat
      /\ PAGE_SIZE \in Nat \ {0}
  BY SlabAssumption
<1>2. sa_objsize[c] = ObjSize[c] + 2 * RedZone
  BY DEF sa_objsize
<1>3. Bytes(Top) >= ObjSize[c] + 2 * RedZone + BufctlSize + SlabSize
  BY SlabAssumption DEF Bytes
<1>4. sa_objsize[c] \in Nat /\ Stride(c) \in Nat \ {0} /\ Stride(c) = ObjSize[c] + 2 * RedZone + BufctlSize
  BY <1>1, <1>2 DEF Stride
<1>. QED BY <1>1, <1>2, <1>3, <1>4

(* A larger order has no fewer bytes.                                       *)
LEMMA BlockBytes ==
  ASSUME NEW n \in Nat
  PROVE  /\ Bytes(n) \in Nat
         /\ \A m \in Nat : n <= m => Bytes(n) <= Bytes(m)
<1>1. npages[n] \in Nat /\ PAGE_SIZE \in Nat /\ \A m \in Nat : npages[m] \in Nat
  BY PowerFacts, SlabAssumption
<1>2. ASSUME NEW m \in Nat, n <= m PROVE Bytes(n) <= Bytes(m)
  <2>1. npages[n] <= npages[m]
    BY <1>2, PowerGrows
  <2>2. PICK d \in Nat : npages[m] = npages[n] + d
    <3>1. npages[m] - npages[n] \in Nat /\ npages[m] = npages[n] + (npages[m] - npages[n])
      BY <1>1, <2>1
    <3>. QED BY <3>1
  <2>3. PICK x \in Nat, y \in Nat : x = PAGE_SIZE * npages[n] /\ y = PAGE_SIZE * d
    BY <1>1
  <2>4. PAGE_SIZE * npages[m] = x + y
    BY <1>1, <2>2, <2>3
  <2>. QED BY <2>3, <2>4 DEF Bytes
<1>3. Bytes(n) \in Nat
  BY <1>1 DEF Bytes
<1>. QED BY <1>2, <1>3

(* One object fits into a slab of the smallest order.                       *)
LEMMA MinOrder ==
  ASSUME NEW c \in Cache, NEW n, n = minorder(sa_objsize[c])
  PROVE  n \in Order /\ Bytes(n) >= Stride(c) + SlabSize
<1>1. PICK y \in Nat : y = Stride(c) + SlabSize
  BY CacheSizes
<1>2. slab_size(sa_objsize[c], 1) = y
  BY <1>1, CacheSizes DEF slab_size, Stride
<1>3. \E m \in Order : /\ PAGE_SIZE * npages[m] >= y
                       /\ \A k \in Order : k < m => PAGE_SIZE * npages[k] < y
  <2>1. PAGE_SIZE \in Nat /\ PAGE_SIZE * npages[Top] >= y
    BY <1>1, CacheSizes DEF Bytes
  <2>. QED BY <2>1, LeastOrder
<1>4. n \in Order /\ PAGE_SIZE * npages[n] >= y
  BY <1>2, <1>3, Zenon DEF minorder
<1>. QED BY <1>1, <1>4 DEF Bytes

(* How many objects a block holds, and what is left of it                   *)
LEMMA SlabFits ==
  ASSUME NEW c \in Cache, NEW n \in Order, Bytes(n) >= Stride(c) + SlabSize,
         NEW k, k = slab_nobjs(sa_objsize[c], n)
  PROVE  /\ k \in Nat \ {0} /\ k * Stride(c) + SlabSize <= Bytes(n)
         /\ slab_waste(sa_objsize[c], n) \in Nat
<1>1. PICK z \in Nat \ {0} : z = Stride(c)
  BY CacheSizes
<1>2. PICK b \in Nat : b = Bytes(n)
  BY OrderFacts, BlockBytes
<1>3. SlabSize \in Nat /\ b >= z + SlabSize
  BY <1>1, <1>2, CacheSizes
<1>4. PICK x \in Nat : x = b - SlabSize
  BY <1>3
<1>5. k = x \div z
  <2>1. k = (PAGE_SIZE * npages[n] - SlabSize) \div (sa_objsize[c] + BufctlSize)
    BY DEF slab_nobjs
  <2>2. PAGE_SIZE * npages[n] = b /\ sa_objsize[c] + BufctlSize = z
    BY <1>1, <1>2 DEF Bytes, Stride
  <2>. QED BY <1>4, <2>1, <2>2
<1>6. k \in Nat /\ x % z \in Nat /\ x % z < z /\ x = k * z + (x % z)
  BY <1>5, DivisionOf
<1>7. PICK r \in Nat, y \in Nat : r = x % z /\ y = k * z
  BY <1>6
<1>8. x = y + r /\ r < z
  BY <1>6, <1>7
<1>9. k # 0
  <2> SUFFICES ASSUME k = 0 PROVE FALSE
    OBVIOUS
  <2>1. y = 0
    BY <1>7
  <2>. QED BY <1>3, <1>4, <1>8, <2>1
<1>10. y + SlabSize <= b
  BY <1>3, <1>4, <1>8
<1>11. slab_waste(sa_objsize[c], n) \in Nat
  <2>1. slab_size(sa_objsize[c], k) = y + SlabSize
    BY <1>1, <1>7 DEF slab_size, Stride
  <2>2. slab_waste(sa_objsize[c], n) = b - (y + SlabSize)
    BY <1>2, <2>1 DEF slab_waste, Bytes
  <2>. QED BY <1>3, <1>10, <2>2
<1>. QED BY <1>1, <1>2, <1>6, <1>7, <1>9, <1>10, <1>11

(* One object fits into a slab of the order calc_slab_size chooses.         *)
LEMMA CalcSlabSize ==
  ASSUME NEW c \in Cache, NEW n, n = calc_slab_size(sa_objsize[c])
  PROVE  n \in Order /\ Bytes(n) >= Stride(c) + SlabSize
<1>1. PICK s : s = sa_objsize[c]
  OBVIOUS
<1>2. PICK m : m = minorder(s)
  OBVIOUS
<1>3. m \in Order /\ m \in Nat /\ Bytes(m) >= Stride(c) + SlabSize
  BY <1>1, <1>2, MinOrder, OrderFacts
<1>4. PICK tried : tried = {m} \cup (m + 1) .. (SLAB_MAX_ORDER - 1)
  OBVIOUS
<1>5. SLAB_MAX_ORDER \in Nat /\ SLAB_MAX_ORDER <= PAGE_NSIZES /\ Top = PAGE_NSIZES - 1
  BY SlabAssumption DEF Top
<1>6. ASSUME NEW k \in tried PROVE k \in Order /\ k \in Nat /\ Bytes(k) >= Stride(c) + SlabSize
  <2>1. k \in Nat /\ m <= k
    BY <1>3, <1>4, <1>5
  <2>2. k \in Order
    BY <1>3, <1>4, <1>5, OrderFacts
  <2>3. Bytes(m) <= Bytes(k) /\ Bytes(m) \in Nat /\ Bytes(k) \in Nat
    BY <1>3, <2>1, BlockBytes
  <2>4. Stride(c) \in Nat /\ SlabSize \in Nat
    BY CacheSizes
  <2>5. Bytes(k) >= Stride(c) + SlabSize
    BY <1>3, <2>3, <2>4
  <2>. QED BY <2>1, <2>2, <2>5
<1>7. \A k \in tried : slab_waste(s, k) \in Nat
  BY <1>1, <1>6, SlabFits
<1> DEFINE W == {slab_waste(s, k) : k \in tried}
<1>8. PICK w \in W : \A v \in W : w <= v
  <2>1. W \in SUBSET Nat /\ W # {}
    BY <1>4, <1>7
  <2> HIDE DEF W
  <2>. QED BY <2>1, LeastElement
<1> DEFINE T == {k \in tried : slab_waste(s, k) = w}
<1>9. PICK k \in T : \A v \in T : k <= v
  <2>1. T \in SUBSET Nat /\ T # {}
    BY <1>6, <1>8
  <2> HIDE DEF T
  <2>. QED BY <2>1, LeastElement
<1>10. \E x \in tried : \A v \in tried : /\ slab_waste(s, x) <= slab_waste(s, v)
                                         /\ slab_waste(s, x) = slab_waste(s, v) => x <= v
  BY <1>8, <1>9
<1>11. n \in tried
  BY <1>1, <1>2, <1>4, <1>10, Zenon DEF calc_slab_size
<1>. QED BY <1>6, <1>11

(* What the slabs of a cache are like                                       *)
LEMMA CacheFacts ==
  ASSUME NEW c \in Cache
  PROVE  /\ sa_order[c] \in Order /\ sa_slab_nobjs[c] \in Nat \ {0}
         /\ sa_slab_nobjs[c] * Stride(c) + SlabSize <= Bytes(sa_order[c])
<1>1. sa_order[c] = calc_slab_size(sa_objsize[c])
  BY DEF sa_order
<1>2. sa_slab_nobjs[c] = slab_nobjs(sa_objsize[c], sa_order[c])
  BY DEF sa_slab_nobjs
<1>3. PICK o : o = sa_order[c]
  OBVIOUS
<1>4. o \in Order /\ Bytes(o) >= Stride(c) + SlabSize
  BY <1>1, <1>3, CalcSlabSize
<1>. QED BY <1>2, <1>3, <1>4, SlabFits
-----------------------------------------------------------------------------
(* Lists of slabs                                                           *)
SlabT == [s_addr: Page, s_inuse: Int, s_free: Seq(Nat)]

Distinct(L) == \A i, j \in DOMAIN L : L[i].s_addr = L[j].s_addr => i = j

(* L2 has one slab more than L.                                             *)
Insert(L, k, x, L2) ==
  /\ L \in Seq(SlabT) /\ L2 \in Seq(SlabT) /\ Len(L2) = Len(L) + 1 /\ k \in 1 .. Len(L2)
  /\ L2[k] = x
  /\ \A i \in 1 .. Len(L) : L[i] = IF i < k THEN L2[i] ELSE L2[i + 1]

(* A list of slabs with one slab more.                                      *)
LEMMA InsertFacts ==
  ASSUME NEW L, NEW k, NEW x, NEW L2, Insert(L, k, x, L2)
  PROVE  /\ ToSet(L2) = ToSet(L) \cup {x} /\ x \in SlabT
         /\ Distinct(L2) <=> Distinct(L) /\ \A s \in ToSet(L) : s.s_addr # x.s_addr
<1>1. /\ L \in Seq(SlabT) /\ L2 \in Seq(SlabT) /\ Len(L2) = Len(L) + 1 /\ k \in 1 .. Len(L2)
      /\ L2[k] = x /\ Len(L) \in Nat /\ k \in Nat
      /\ DOMAIN L = 1 .. Len(L) /\ DOMAIN L2 = 1 .. Len(L2)
  BY DEF Insert
<1>2. x \in SlabT
  BY <1>1
<1>3. PICK n \in Nat : n = Len(L) /\ n + 1 = Len(L2)
  BY <1>1
<1>4. \A i \in 1 .. n : L[i] = IF i < k THEN L2[i] ELSE L2[i + 1]
  BY <1>3 DEF Insert
<1>5. k \in 1 .. (n + 1) /\ DOMAIN L = 1 .. n /\ DOMAIN L2 = 1 .. (n + 1)
  BY <1>1, <1>3
(* Where a slab of L2 is in L, and a slab of L in L2                         *)
<1> DEFINE from(i) == IF i < k THEN i ELSE i - 1
           to(i) == IF i < k THEN i ELSE i + 1
<1>6. \A i \in 1 .. (n + 1) : i # k => from(i) \in 1 .. n /\ to(from(i)) = i /\ L2[i] = L[from(i)]
  <2> SUFFICES ASSUME NEW i \in 1 .. (n + 1), i # k
               PROVE  from(i) \in 1 .. n /\ to(from(i)) = i /\ L2[i] = L[from(i)]
    OBVIOUS
  <2>1. CASE i < k
    BY <1>4, <1>5, <2>1
  <2>2. CASE i > k
    <3>1. i - 1 \in 1 .. n /\ ~(i - 1 < k) /\ (i - 1) + 1 = i /\ ~(i < k)
      BY <1>5, <2>2
    <3>2. from(i) = i - 1 /\ to(i - 1) = i
      BY <3>1
    <3>3. L[i - 1] = L2[i]
      BY <1>4, <3>1
    <3>. QED BY <3>1, <3>2, <3>3
  <2>. QED BY <1>5, <2>1, <2>2
<1>7. \A i \in 1 .. n : to(i) \in 1 .. (n + 1) /\ to(i) # k /\ from(to(i)) = i /\ L2[to(i)] = L[i]
  <2> SUFFICES ASSUME NEW i \in 1 .. n
               PROVE  to(i) \in 1 .. (n + 1) /\ to(i) # k /\ from(to(i)) = i /\ L2[to(i)] = L[i]
    OBVIOUS
  <2>1. CASE i < k
    BY <1>4, <1>5, <2>1
  <2>2. CASE ~(i < k)
    <3>1. i + 1 \in 1 .. (n + 1) /\ ~(i + 1 < k) /\ (i + 1) - 1 = i /\ i + 1 # k
      BY <1>5, <2>2
    <3>. QED BY <1>4, <2>2, <3>1
  <2>. QED BY <2>1, <2>2
<1> HIDE DEF from, to
<1>8. ToSet(L2) = ToSet(L) \cup {x}
  <2>1. ASSUME NEW y \in ToSet(L2) PROVE y \in ToSet(L) \cup {x}
    <3>1. PICK i \in 1 .. (n + 1) : y = L2[i]
      BY <1>5 DEF ToSet
    <3>. QED BY <1>1, <1>5, <1>6, <3>1 DEF ToSet
  <2>2. ASSUME NEW y \in ToSet(L) PROVE y \in ToSet(L2)
    <3>1. PICK i \in 1 .. n : y = L[i]
      BY <1>5 DEF ToSet
    <3>. QED BY <1>5, <1>7, <3>1 DEF ToSet
  <2>3. x \in ToSet(L2)
    BY <1>1, <1>5 DEF ToSet
  <2>. QED BY <2>1, <2>2, <2>3
<1>9. ASSUME Distinct(L2) PROVE Distinct(L) /\ \A s \in ToSet(L) : s.s_addr # x.s_addr
  <2>1. ASSUME NEW i \in 1 .. n, NEW j \in 1 .. n, L[i].s_addr = L[j].s_addr PROVE i = j
    <3>1. to(i) = to(j)
      BY <1>5, <1>7, <1>9, <2>1 DEF Distinct
    <3>. QED BY <1>7, <3>1
  <2>2. ASSUME NEW i \in 1 .. n, L[i].s_addr = x.s_addr PROVE FALSE
    <3>1. to(i) = k
      BY <1>1, <1>5, <1>7, <1>9, <2>2 DEF Distinct
    <3>. QED BY <1>7, <3>1
  <2>3. Distinct(L)
    BY <1>5, <2>1 DEF Distinct
  <2>4. \A s \in ToSet(L) : s.s_addr # x.s_addr
    BY <1>5, <2>2 DEF ToSet
  <2>. QED BY <2>3, <2>4
<1>10. ASSUME Distinct(L), \A s \in ToSet(L) : s.s_addr # x.s_addr PROVE Distinct(L2)
  <2> SUFFICES ASSUME NEW i \in 1 .. (n + 1), NEW j \in 1 .. (n + 1), L2[i].s_addr = L2[j].s_addr
               PROVE  i = j
    BY <1>5 DEF Distinct
  <2>1. \A e \in 1 .. n : L[e] \in ToSet(L)
    BY <1>5 DEF ToSet
  <2>2. CASE i # k /\ j # k
    <3>1. from(i) = from(j)
      BY <1>5, <1>6, <1>10, <2>2 DEF Distinct
    <3>. QED BY <1>6, <2>2, <3>1
  <2>3. CASE i = k \/ j = k
    BY <1>1, <1>6, <1>10, <2>1, <2>3
  <2>. QED BY <2>2, <2>3
<1>. QED BY <1>2, <1>8, <1>9, <1>10

(* slab_allocator_grow puts a slab first.                                   *)
LEMMA PushSlab ==
  ASSUME NEW L \in Seq(SlabT), NEW x \in SlabT, NEW L2, L2 = <<x>> \o L
  PROVE  Insert(L, 1, x, L2) /\ L2 # <<>>
<1>1. L2 \in Seq(SlabT) /\ Len(L2) = Len(L) + 1 /\ Len(L) \in Nat
  OBVIOUS
<1>2. L2[1] = x /\ \A i \in 1 .. Len(L) : L2[i + 1] = L[i]
  OBVIOUS
<1>3. \A i \in 1 .. Len(L) : ~(i < 1)
  BY <1>1
<1>. QED BY <1>1, <1>2, <1>3 DEF Insert

(* slab_allocators_reclaim takes one off.                                   *)
LEMMA RemoveSlab ==
  ASSUME NEW L \in Seq(SlabT), NEW k \in 1 .. Len(L), NEW L2, L2 = RemoveAt(L, k)
  PROVE  Insert(L2, k, L[k], L) /\ Len(L2) = Len(L) - 1
<1>1. Len(L) \in Nat
  OBVIOUS
<1>2. /\ L2 \in Seq(SlabT) /\ Len(L2) = Len(L) - 1
      /\ \A i \in 1 .. (Len(L) - 1) : L2[i] = IF i < k THEN L[i] ELSE L[i + 1]
  BY RemoveAtProperties
<1>. QED BY <1>1, <1>2 DEF Insert

(* A slab is replaced by one at the same address.                           *)
Replace(L, k, y, L2) ==
  /\ L \in Seq(SlabT) /\ Distinct(L) /\ k \in DOMAIN L /\ y \in SlabT /\ y.s_addr = L[k].s_addr
  /\ L2 = [L EXCEPT ![k] = y]

(* A list of slabs with one slab changed.                                   *)
LEMMA ReplaceFacts ==
  ASSUME NEW L, NEW k, NEW y, NEW L2, Replace(L, k, y, L2)
  PROVE  /\ L2 \in Seq(SlabT) /\ Distinct(L2) /\ Len(L2) = Len(L)
         /\ ToSet(L2) = (ToSet(L) \ {L[k]}) \cup {y}
         /\ \A s \in ToSet(L) : s.s_addr = y.s_addr => s = L[k]
<1> USE DEF Replace
<1>1. L2 \in Seq(SlabT) /\ Len(L2) = Len(L) /\ DOMAIN L2 = DOMAIN L
  OBVIOUS
<1>2. L2[k] = y /\ \A i \in DOMAIN L : i # k => L2[i] = L[i]
  OBVIOUS
<1>3. \A i \in DOMAIN L : L2[i].s_addr = L[i].s_addr
  BY <1>2
<1>4. Distinct(L2)
  BY <1>1, <1>3 DEF Distinct
<1>5. \A i \in DOMAIN L : i # k => L[i] # L[k]
  BY DEF Distinct
<1>6. ToSet(L2) = (ToSet(L) \ {L[k]}) \cup {y}
  BY <1>1, <1>2, <1>5 DEF ToSet
<1>7. \A s \in ToSet(L) : s.s_addr = y.s_addr => s = L[k]
  BY DEF Distinct, ToSet
<1>. QED BY <1>1, <1>4, <1>6, <1>7
-----------------------------------------------------------------------------
(* What the slabs and the callers have                                      *)
SlabsT(S) ==
  /\ S \in [Cache -> Seq(SlabT)]
  /\ \A c \in Cache : \A s \in ToSet(S[c]) : Aligned(s.s_addr, sa_order[c])

Objects(hd, c, addr) ==
  {h.obj : h \in {o \in hd : o.kind = "object" /\ o.cache = c /\ o.addr = addr}}

SlabOK(c, slab, H) ==
  /\ ToSet(slab.s_free) \cup H = 1 .. sa_slab_nobjs[c]
  /\ ToSet(slab.s_free) \cap H = {}
  /\ IsInjective(slab.s_free)
  /\ slab.s_inuse = Cardinality(H)

SlabUses(S) ==
  {u \in Page \X Order \X {"slab"} \X Cache :
     u[2] = sa_order[u[4]] /\ \E s \in ToSet(S[u[4]]) : s.s_addr = u[1]}
PageUses(hd) == {u \in Page \X Order \X {"pages"} \X {Self} : Pages(u[1], u[2]) \in hd}

HeldT == [kind: {"pages"}, addr: Page, order: Order]
           \cup [kind: {"object"}, cache: Cache, addr: Page, obj: Nat]
HeldOK(hd, S) ==
  /\ hd \subseteq HeldT
  /\ \A h \in hd : h.kind = "pages" => Aligned(h.addr, h.order)
  /\ \A h \in hd : h.kind = "object" => \E s \in ToSet(S[h.cache]) : s.s_addr = h.addr

(* What is not in F is in one slab or with one caller, and every slab       *)
(* counts what it has handed out.                                           *)
MemOK(S, hd, F) ==
  /\ SlabsT(S) /\ HeldOK(hd, S) /\ F \in SUBSET Page
  /\ \A c \in Cache : Distinct(S[c])
  /\ Tiles(SlabUses(S) \cup PageUses(hd), Page \ F)
  /\ \A c \in Cache : \A s \in ToSet(S[c]) : SlabOK(c, s, Objects(hd, c, s.s_addr))

(* One slab more                                                            *)
More(S, c, x, S2) ==
  /\ c \in Cache /\ S \in [Cache -> Seq(SlabT)] /\ S2 \in [Cache -> Seq(SlabT)]
  /\ \E k : Insert(S[c], k, x, S2[c])
  /\ \A d \in Cache : d # c => S2[d] = S[d]

UseOf(c, x) == <<x.s_addr, sa_order[c], "slab", c>>

(* The parts of the use of a slab.                                          *)
LEMMA UseFacts ==
  ASSUME NEW c \in Cache, NEW x \in SlabT
  PROVE  /\ UseOf(c, x) \in Page \X Order \X {"slab"} \X Cache
         /\ UseOf(c, x)[1] = x.s_addr /\ UseOf(c, x)[2] = sa_order[c]
         /\ UseOf(c, x)[3] = "slab" /\ UseOf(c, x)[4] = c
<1>1. x.s_addr \in Page /\ sa_order[c] \in Order
  BY CacheFacts DEF SlabT
<1>. QED BY <1>1 DEF UseOf

(* One slab more is one use more.                                           *)
LEMMA MoreFacts ==
  ASSUME NEW S, NEW c, NEW x, NEW S2, More(S, c, x, S2)
  PROVE  /\ x \in SlabT
         /\ ToSet(S2[c]) = ToSet(S[c]) \cup {x} /\ \A d \in Cache : d # c => S2[d] = S[d]
         /\ (\A d \in Cache : Distinct(S2[d])) <=>
              (\A d \in Cache : Distinct(S[d])) /\ \A s \in ToSet(S[c]) : s.s_addr # x.s_addr
         /\ SlabUses(S2) = SlabUses(S) \cup {UseOf(c, x)}
<1>1. c \in Cache /\ \A d \in Cache : d # c => S2[d] = S[d]
  BY DEF More
<1>2. /\ x \in SlabT /\ ToSet(S2[c]) = ToSet(S[c]) \cup {x}
      /\ Distinct(S2[c]) <=> Distinct(S[c]) /\ \A s \in ToSet(S[c]) : s.s_addr # x.s_addr
  BY InsertFacts DEF More
<1>3. (\A d \in Cache : Distinct(S2[d])) <=>
         (\A d \in Cache : Distinct(S[d])) /\ \A s \in ToSet(S[c]) : s.s_addr # x.s_addr
  BY <1>1, <1>2
<1>4. PICK v : v = UseOf(c, x)
  OBVIOUS
<1>5. v \in Page \X Order \X {"slab"} \X Cache /\ v = <<x.s_addr, sa_order[c], "slab", c>>
      /\ v[1] = x.s_addr /\ v[2] = sa_order[c] /\ v[4] = c
  BY <1>1, <1>2, <1>4, UseFacts DEF UseOf
<1>6. ASSUME NEW u \in Page \X Order \X {"slab"} \X Cache
      PROVE  u \in SlabUses(S2) <=> u \in SlabUses(S) \/ u = v
  <2>1. u = <<u[1], u[2], u[3], u[4]>> /\ u[3] = "slab" /\ u[4] \in Cache
    OBVIOUS
  <2>2. CASE u[4] # c
    <3>1. S2[u[4]] = S[u[4]] /\ u # v
      BY <1>1, <1>5, <2>1, <2>2
    <3>. QED BY <3>1 DEF SlabUses
  <2>3. CASE u[4] = c
    <3>1. ToSet(S2[u[4]]) = ToSet(S[u[4]]) \cup {x}
      BY <1>2, <2>3
    <3>2. u[1] = x.s_addr /\ u[2] = sa_order[u[4]] <=> u = v
      BY <1>5, <2>1, <2>3
    <3>. QED BY <3>1, <3>2 DEF SlabUses
  <2>. QED BY <2>2, <2>3
<1>7. /\ SlabUses(S2) \subseteq Page \X Order \X {"slab"} \X Cache
      /\ SlabUses(S) \subseteq Page \X Order \X {"slab"} \X Cache
  BY DEF SlabUses
<1>8. SlabUses(S2) = SlabUses(S) \cup {v}
  BY <1>5, <1>6, <1>7
<1>. QED BY <1>1, <1>2, <1>3, <1>4, <1>8

(* A use is of a slab or of pages.                                          *)
LEMMA UsesApart ==
  ASSUME NEW S, NEW hd, NEW c \in Cache, NEW x \in SlabT
  PROVE  UseOf(c, x) \notin PageUses(hd)
<1>1. \A u \in PageUses(hd) : u[3] = "pages"
  BY DEF PageUses
<1>2. UseOf(c, x)[3] = "slab"
  BY UseFacts
<1>. QED BY <1>1, <1>2

(* The block of a slab is none of the free ones.                            *)
LEMMA UsedBlock ==
  ASSUME NEW S, NEW hd, NEW F, MemOK(S, hd, F), NEW c \in Cache, NEW x \in ToSet(S[c])
  PROVE  /\ x \in SlabT /\ x.s_addr \in Page /\ sa_order[c] \in Order /\ Aligned(x.s_addr, sa_order[c])
         /\ Block(x.s_addr, sa_order[c]) \subseteq Page
         /\ Block(x.s_addr, sa_order[c]) \cap F = {}
         /\ x.s_addr \in Block(x.s_addr, sa_order[c])
         /\ UseOf(c, x) \in SlabUses(S)
<1>1. x \in SlabT
  <2>1. S[c] \in Seq(SlabT)
    BY DEF MemOK, SlabsT
  <2>. QED BY <2>1 DEF ToSet
<1>2. x.s_addr \in Page /\ sa_order[c] \in Order /\ Aligned(x.s_addr, sa_order[c])
  BY <1>1, CacheFacts DEF SlabT, MemOK, SlabsT
<1>3. PICK u : u = UseOf(c, x)
  OBVIOUS
<1>4. u \in Page \X Order \X {"slab"} \X Cache /\ u[1] = x.s_addr /\ u[2] = sa_order[c] /\ u[4] = c
  BY <1>1, <1>3, UseFacts
<1>5. u \in SlabUses(S)
  BY <1>4 DEF SlabUses
<1>6. Block(u[1], u[2]) \subseteq Page \ F
  BY <1>5 DEF MemOK, Tiles
<1>7. x.s_addr \in Block(x.s_addr, sa_order[c])
  BY <1>2, BlockFacts, OrderFacts
<1>. QED BY <1>1, <1>2, <1>3, <1>4, <1>5, <1>6, <1>7

(* slab_allocator_grow: a free block becomes a slab.                        *)
Grows(S, hd, F, c, x, S2) ==
  /\ MemOK(S, hd, F) /\ More(S, c, x, S2)
  /\ Aligned(x.s_addr, sa_order[c]) /\ Block(x.s_addr, sa_order[c]) \subseteq F
  /\ SlabOK(c, x, {})

(* A free block that becomes a slab is accounted for.                       *)
LEMMA SlabGrown ==
  ASSUME NEW S, NEW hd, NEW F, NEW c, NEW x, NEW S2, Grows(S, hd, F, c, x, S2)
  PROVE  MemOK(S2, hd, F \ Block(x.s_addr, sa_order[c]))
<1>1. /\ MemOK(S, hd, F) /\ More(S, c, x, S2) /\ c \in Cache
      /\ Aligned(x.s_addr, sa_order[c]) /\ Block(x.s_addr, sa_order[c]) \subseteq F
      /\ SlabOK(c, x, {})
  BY DEF Grows, More
<1>2. /\ x \in SlabT
      /\ ToSet(S2[c]) = ToSet(S[c]) \cup {x} /\ \A d \in Cache : d # c => S2[d] = S[d]
      /\ (\A d \in Cache : Distinct(S2[d])) <=>
           (\A d \in Cache : Distinct(S[d])) /\ \A s \in ToSet(S[c]) : s.s_addr # x.s_addr
      /\ SlabUses(S2) = SlabUses(S) \cup {UseOf(c, x)}
  BY <1>1, MoreFacts
<1>3. PICK b : b = Block(x.s_addr, sa_order[c])
  OBVIOUS
<1>4. x.s_addr \in b /\ b \subseteq F /\ F \subseteq Page /\ x.s_addr \in Page
  <2>1. x.s_addr \in Nat /\ sa_order[c] \in Nat /\ x.s_addr \in Page
    BY <1>1, <1>2, CacheFacts, OrderFacts DEF SlabT
  <2>. QED BY <1>1, <1>3, <2>1, BlockFacts DEF MemOK
<1>5. \A s \in ToSet(S[c]) : s.s_addr # x.s_addr
  BY <1>1, <1>3, <1>4, UsedBlock
<1>6. Objects(hd, c, x.s_addr) = {}
  <2> SUFFICES ASSUME NEW h \in hd, h.kind = "object", h.cache = c, h.addr = x.s_addr PROVE FALSE
    BY DEF Objects
  <2>1. \E s \in ToSet(S[c]) : s.s_addr = x.s_addr
    BY <1>1 DEF MemOK, HeldOK
  <2>. QED BY <1>5, <2>1
<1>7. SlabsT(S2)
  BY <1>1, <1>2 DEF MemOK, SlabsT, More
<1>8. HeldOK(hd, S2)
  <2>1. \A d \in Cache : ToSet(S[d]) \subseteq ToSet(S2[d])
    BY <1>2
  <2>2. \A h \in hd : h.kind = "object" => h.cache \in Cache
    BY <1>1 DEF MemOK, HeldOK, HeldT
  <2>. QED BY <1>1, <2>1, <2>2 DEF MemOK, HeldOK
<1>9. Tiles(SlabUses(S2) \cup PageUses(hd), Page \ (F \ b))
  <2>1. PICK U : U = SlabUses(S) \cup PageUses(hd)
    OBVIOUS
  <2>2. PICK u : u = UseOf(c, x)
    OBVIOUS
  <2>3. Tiles(U, Page \ F) /\ Block(u[1], u[2]) = b
    BY <1>1, <1>2, <1>3, <2>1, <2>2, UseFacts DEF MemOK
  <2>4. Tiles(U \cup {u}, (Page \ F) \cup Block(u[1], u[2]))
    BY <1>4, <2>3, TilesAdd
  <2>5. SlabUses(S2) \cup PageUses(hd) = U \cup {u} /\ (Page \ F) \cup b = Page \ (F \ b)
    BY <1>2, <1>4, <2>1, <2>2
  <2>. QED BY <2>3, <2>4, <2>5
<1>10. ASSUME NEW d \in Cache, NEW s \in ToSet(S2[d]) PROVE SlabOK(d, s, Objects(hd, d, s.s_addr))
  <2>1. CASE d = c /\ s = x
    BY <1>1, <1>6, <2>1
  <2>2. CASE ~(d = c /\ s = x)
    <3>1. s \in ToSet(S[d])
      BY <1>2, <2>2
    <3>. QED BY <1>1, <3>1 DEF MemOK
  <2>. QED BY <2>1, <2>2
<1>11. F \ b \in SUBSET Page
  BY <1>4
<1>12. \A d \in Cache : Distinct(S2[d])
  BY <1>1, <1>2, <1>5 DEF MemOK
<1>. QED BY <1>3, <1>7, <1>8, <1>9, <1>10, <1>11, <1>12 DEF MemOK

(* A slab that has handed nothing out goes.                                 *)
LEMMA SlabGone ==
  ASSUME NEW S, NEW hd, NEW F, NEW c, NEW x, NEW S2, MemOK(S2, hd, F), More(S, c, x, S2),
         x.s_inuse = 0
  PROVE  MemOK(S, hd, F \cup Block(x.s_addr, sa_order[c]))
<1>1. c \in Cache /\ S \in [Cache -> Seq(SlabT)]
  BY DEF More
<1>2. /\ x \in SlabT
      /\ ToSet(S2[c]) = ToSet(S[c]) \cup {x} /\ \A d \in Cache : d # c => S2[d] = S[d]
      /\ (\A d \in Cache : Distinct(S2[d])) <=>
           (\A d \in Cache : Distinct(S[d])) /\ \A s \in ToSet(S[c]) : s.s_addr # x.s_addr
      /\ SlabUses(S2) = SlabUses(S) \cup {UseOf(c, x)}
  BY MoreFacts
<1>3. PICK b : b = Block(x.s_addr, sa_order[c])
  OBVIOUS
<1>4. b \subseteq Page /\ b \cap F = {} /\ F \subseteq Page
  <2>1. x \in ToSet(S2[c])
    BY <1>2
  <2>2. b \subseteq Page /\ b \cap F = {}
    BY <1>1, <1>3, <2>1, UsedBlock
  <2>3. F \subseteq Page
    BY DEF MemOK
  <2>. QED BY <2>2, <2>3
<1>5. \A d \in Cache : Distinct(S[d])
  BY <1>2 DEF MemOK
<1>6. \A s \in ToSet(S[c]) : s.s_addr # x.s_addr
  BY <1>2 DEF MemOK
<1>7. Objects(hd, c, x.s_addr) = {}
  <2>1. PICK H : H = Objects(hd, c, x.s_addr)
    OBVIOUS
  <2>2. SlabOK(c, x, H)
    BY <1>1, <1>2, <2>1 DEF MemOK
  <2>3. H \subseteq 1 .. sa_slab_nobjs[c] /\ Cardinality(H) = 0
    BY <2>2 DEF SlabOK
  <2>4. IsFiniteSet(1 .. sa_slab_nobjs[c])
    <3>1. 1 \in Int /\ sa_slab_nobjs[c] \in Int
      BY <1>1, CacheFacts
    <3>. QED BY <3>1, FS_Interval
  <2>5. IsFiniteSet(H)
    BY <2>3, <2>4, FS_Subset
  <2>. QED BY <2>1, <2>3, <2>5, FS_EmptySet
<1>8. SlabsT(S)
  <2>1. \A d \in Cache : ToSet(S[d]) \subseteq ToSet(S2[d])
    BY <1>2
  <2>. QED BY <1>1, <2>1 DEF MemOK, SlabsT
<1>9. HeldOK(hd, S)
  <2>1. ASSUME NEW h \in hd, h.kind = "object" PROVE \E s \in ToSet(S[h.cache]) : s.s_addr = h.addr
    <3>1. h.cache \in Cache
      BY <2>1 DEF MemOK, HeldOK, HeldT
    <3>2. PICK s \in ToSet(S2[h.cache]) : s.s_addr = h.addr
      BY <2>1 DEF MemOK, HeldOK
    <3>3. ~(h.cache = c /\ h.addr = x.s_addr)
      BY <1>7, <2>1 DEF Objects
    <3>4. s \in ToSet(S[h.cache])
      BY <1>2, <3>1, <3>2, <3>3
    <3>. QED BY <3>2, <3>4
  <2>. QED BY <2>1 DEF MemOK, HeldOK
<1>10. Tiles(SlabUses(S) \cup PageUses(hd), Page \ (F \cup b))
  <2>1. PICK U : U = SlabUses(S2) \cup PageUses(hd)
    OBVIOUS
  <2>2. PICK u : u = UseOf(c, x)
    OBVIOUS
  <2>3. Tiles(U, Page \ F) /\ Block(u[1], u[2]) = b /\ u \in U
    BY <1>1, <1>2, <1>3, <2>1, <2>2, UseFacts DEF MemOK
  <2>4. Tiles(U \ {u}, (Page \ F) \ Block(u[1], u[2]))
    BY <2>3, TilesRemove
  <2>5. u \notin SlabUses(S)
    <3>1. u[1] = x.s_addr /\ u[4] = c
      BY <1>1, <1>2, <2>2, UseFacts
    <3>. QED BY <1>6, <3>1 DEF SlabUses
  <2>6. u \notin PageUses(hd)
    BY <1>1, <1>2, <2>2, UsesApart
  <2>7. U \ {u} = SlabUses(S) \cup PageUses(hd) /\ (Page \ F) \ b = Page \ (F \cup b)
    BY <1>2, <2>1, <2>2, <2>5, <2>6
  <2>. QED BY <2>3, <2>4, <2>7
<1>11. ASSUME NEW d \in Cache, NEW s \in ToSet(S[d]) PROVE SlabOK(d, s, Objects(hd, d, s.s_addr))
  <2>1. s \in ToSet(S2[d])
    BY <1>2
  <2>. QED BY <2>1 DEF MemOK
<1>12. F \cup b \in SUBSET Page
  BY <1>4
<1>. QED BY <1>3, <1>5, <1>8, <1>9, <1>10, <1>11, <1>12 DEF MemOK
-----------------------------------------------------------------------------
(* A slab counts one object more or less.                                   *)
Swap(S, c, k, y, S2) ==
  /\ SlabsT(S) /\ c \in Cache /\ Replace(S[c], k, y, S2[c])
  /\ S2 \in [Cache -> Seq(SlabT)] /\ \A d \in Cache : d # c => S2[d] = S[d]

(* A slab that changes its counts keeps its place.                          *)
LEMMA SwapFacts ==
  ASSUME NEW S, NEW c, NEW k, NEW y, NEW S2, Swap(S, c, k, y, S2)
  PROVE  /\ SlabsT(S2) /\ SlabUses(S2) = SlabUses(S)
         /\ (\A d \in Cache : Distinct(S[d])) => \A d \in Cache : Distinct(S2[d])
         /\ \A hd : HeldOK(hd, S) => HeldOK(hd, S2)
         /\ \A s \in ToSet(S2[c]) : s = y \/ (s \in ToSet(S[c]) /\ s.s_addr # y.s_addr)
         /\ S[c][k] \in ToSet(S[c]) /\ y.s_addr = S[c][k].s_addr /\ y \in SlabT
<1>1. /\ SlabsT(S) /\ c \in Cache /\ Replace(S[c], k, y, S2[c])
      /\ S2 \in [Cache -> Seq(SlabT)] /\ \A d \in Cache : d # c => S2[d] = S[d]
  BY DEF Swap
<1>2. /\ Distinct(S2[c]) /\ ToSet(S2[c]) = (ToSet(S[c]) \ {S[c][k]}) \cup {y}
      /\ \A s \in ToSet(S[c]) : s.s_addr = y.s_addr => s = S[c][k]
  BY <1>1, ReplaceFacts
<1>3. S[c][k] \in ToSet(S[c]) /\ y.s_addr = S[c][k].s_addr /\ y \in SlabT
  BY <1>1 DEF Replace, ToSet
<1>4. Aligned(y.s_addr, sa_order[c])
  BY <1>1, <1>3 DEF SlabsT
<1>5. SlabsT(S2)
  BY <1>1, <1>2, <1>4 DEF SlabsT
<1>6. \A d \in Cache : \A a : (\E s \in ToSet(S2[d]) : s.s_addr = a) <=> (\E s \in ToSet(S[d]) : s.s_addr = a)
  <2> TAKE d \in Cache
  <2> TAKE a
  <2>1. CASE d # c
    BY <1>1, <2>1
  <2>2. CASE d = c
    BY <1>2, <1>3, <2>2
  <2>. QED BY <2>1, <2>2
<1>7. SlabUses(S2) = SlabUses(S)
  <2>1. \A u \in Page \X Order \X {"slab"} \X Cache : u \in SlabUses(S2) <=> u \in SlabUses(S)
    <3> TAKE u \in Page \X Order \X {"slab"} \X Cache
    <3>1. u[4] \in Cache
      OBVIOUS
    <3>. QED BY <1>6, <3>1 DEF SlabUses
  <2>2. /\ SlabUses(S2) \subseteq Page \X Order \X {"slab"} \X Cache
        /\ SlabUses(S) \subseteq Page \X Order \X {"slab"} \X Cache
    BY DEF SlabUses
  <2>. QED BY <2>1, <2>2
<1>8. ASSUME NEW hd, HeldOK(hd, S) PROVE HeldOK(hd, S2)
  <2>1. \A h \in hd : h.kind = "object" => h.cache \in Cache
    BY <1>8 DEF HeldOK, HeldT
  <2>2. \A h \in hd : h.kind = "object" => \E s \in ToSet(S2[h.cache]) : s.s_addr = h.addr
    BY <1>6, <1>8, <2>1 DEF HeldOK
  <2>. QED BY <1>8, <2>2 DEF HeldOK
<1>9. \A s \in ToSet(S2[c]) : s = y \/ (s \in ToSet(S[c]) /\ s.s_addr # y.s_addr)
  BY <1>2
<1>10. (\A d \in Cache : Distinct(S[d])) => \A d \in Cache : Distinct(S2[d])
  BY <1>1, <1>2
<1>. QED BY <1>3, <1>5, <1>7, <1>8, <1>9, <1>10

Counts(S, hd, F, c, k, y, S2, hd2) ==
  /\ MemOK(S, hd, F) /\ Swap(S, c, k, y, S2) /\ HeldOK(hd2, S) /\ PageUses(hd2) = PageUses(hd)
  /\ \A d \in Cache, a \in Page : ~(d = c /\ a = y.s_addr) => Objects(hd2, d, a) = Objects(hd, d, a)
  /\ SlabOK(c, y, Objects(hd2, c, y.s_addr))

(* A slab whose counts follow what is handed out is accounted for.          *)
LEMMA SlabCounts ==
  ASSUME NEW S, NEW hd, NEW F, NEW c, NEW k, NEW y, NEW S2, NEW hd2,
         Counts(S, hd, F, c, k, y, S2, hd2)
  PROVE  MemOK(S2, hd2, F)
<1>1. /\ MemOK(S, hd, F) /\ Swap(S, c, k, y, S2) /\ HeldOK(hd2, S) /\ PageUses(hd2) = PageUses(hd)
      /\ \A d \in Cache, a \in Page :
           ~(d = c /\ a = y.s_addr) => Objects(hd2, d, a) = Objects(hd, d, a)
      /\ SlabOK(c, y, Objects(hd2, c, y.s_addr))
      /\ c \in Cache /\ \A d \in Cache : d # c => S2[d] = S[d]
  BY DEF Counts, Swap
<1>2. /\ SlabsT(S2) /\ SlabUses(S2) = SlabUses(S) /\ HeldOK(hd2, S2)
      /\ (\A d \in Cache : Distinct(S[d])) => \A d \in Cache : Distinct(S2[d])
      /\ \A s \in ToSet(S2[c]) : s = y \/ (s \in ToSet(S[c]) /\ s.s_addr # y.s_addr)
  BY <1>1, SwapFacts
<1>3. ASSUME NEW d \in Cache, NEW s \in ToSet(S2[d]) PROVE SlabOK(d, s, Objects(hd2, d, s.s_addr))
  <2>1. ASSUME s \in ToSet(S[d]), ~(d = c /\ s.s_addr = y.s_addr)
        PROVE  SlabOK(d, s, Objects(hd2, d, s.s_addr))
    <3>1. s.s_addr \in Page
      BY <1>1, <2>1, UsedBlock
    <3>2. Objects(hd2, d, s.s_addr) = Objects(hd, d, s.s_addr)
      BY <1>1, <2>1, <3>1
    <3>. QED BY <1>1, <2>1, <3>2 DEF MemOK
  <2>2. CASE d # c
    BY <1>1, <2>1, <2>2
  <2>3. CASE d = c
    BY <1>1, <1>2, <2>1, <2>3
  <2>. QED BY <2>2, <2>3
<1>4. /\ F \in SUBSET Page /\ \A d \in Cache : Distinct(S[d])
      /\ Tiles(SlabUses(S) \cup PageUses(hd), Page \ F)
  BY <1>1 DEF MemOK
<1>. QED BY <1>1, <1>2, <1>3, <1>4 DEF MemOK
-----------------------------------------------------------------------------
(* What the callers have                                                    *)
LEMMA HeldObject ==
  ASSUME NEW h \in HeldT, h.kind = "object"
  PROVE  h = Object(h.cache, h.addr, h.obj) /\ h.cache \in Cache /\ h.addr \in Page /\ h.obj \in Nat
BY DEF HeldT, Object

(* The pages a caller has.                                                  *)
LEMMA HeldPagesAre ==
  ASSUME NEW h \in HeldT, h.kind = "pages"
  PROVE  h = Pages(h.addr, h.order) /\ h.addr \in Page /\ h.order \in Order
BY DEF HeldT, Pages

(* The parts of what callers have.                                          *)
LEMMA ObjectFields ==
  ASSUME NEW c, NEW a, NEW o
  PROVE  /\ Object(c, a, o).kind = "object" /\ Object(c, a, o).cache = c
         /\ Object(c, a, o).addr = a /\ Object(c, a, o).obj = o
         /\ \A b, n : Pages(b, n).kind = "pages" /\ Pages(b, n).addr = b /\ Pages(b, n).order = n
         /\ \A b, n : Pages(b, n) # Object(c, a, o)
<1>1. /\ Object(c, a, o).kind = "object" /\ Object(c, a, o).cache = c
      /\ Object(c, a, o).addr = a /\ Object(c, a, o).obj = o
  BY DEF Object
<1>2. \A b, n : Pages(b, n).kind = "pages" /\ Pages(b, n).addr = b /\ Pages(b, n).order = n
  BY DEF Pages
<1>3. "pages" # "object"
  OBVIOUS
<1>. QED BY <1>1, <1>2, <1>3

Adds(hd, S, c, a, o, hd2) ==
  /\ HeldOK(hd, S) /\ c \in Cache /\ a \in Page /\ o \in Nat
  /\ \E s \in ToSet(S[c]) : s.s_addr = a
  /\ hd2 = hd \cup {Object(c, a, o)}

(* One object more is handed out.                                           *)
LEMMA ObjectAdded ==
  ASSUME NEW hd, NEW S, NEW c, NEW a, NEW o, NEW hd2, Adds(hd, S, c, a, o, hd2)
  PROVE  /\ HeldOK(hd2, S) /\ PageUses(hd2) = PageUses(hd)
         /\ Objects(hd2, c, a) = Objects(hd, c, a) \cup {o}
         /\ \A d \in Cache, b \in Page : ~(d = c /\ b = a) => Objects(hd2, d, b) = Objects(hd, d, b)
<1> USE DEF Adds
<1>1. PICK h : h = Object(c, a, o)
  OBVIOUS
<1>2. h.kind = "object" /\ h.cache = c /\ h.addr = a /\ h.obj = o /\ \A b, n : Pages(b, n) # h
  BY <1>1, ObjectFields
<1>3. h \in HeldT
  BY <1>1 DEF HeldT, Object
<1>4. hd2 = hd \cup {h}
  BY <1>1
<1>5. HeldOK(hd2, S)
  BY <1>2, <1>3, <1>4 DEF HeldOK
<1>6. PageUses(hd2) = PageUses(hd)
  BY <1>2, <1>4 DEF PageUses
<1>7. Objects(hd2, c, a) = Objects(hd, c, a) \cup {o}
  BY <1>2, <1>4 DEF Objects
<1>8. \A d \in Cache, b \in Page : ~(d = c /\ b = a) => Objects(hd2, d, b) = Objects(hd, d, b)
  BY <1>2, <1>4 DEF Objects
<1>. QED BY <1>5, <1>6, <1>7, <1>8

Drops(hd, S, h, c, a, hd2) ==
  /\ HeldOK(hd, S) /\ h \in hd /\ h.kind = "object" /\ h.cache = c /\ h.addr = a
  /\ hd2 = hd \ {h}

(* One object less is handed out.                                           *)
LEMMA ObjectRemoved ==
  ASSUME NEW hd, NEW S, NEW h, NEW c, NEW a, NEW hd2, Drops(hd, S, h, c, a, hd2)
  PROVE  /\ HeldOK(hd2, S) /\ PageUses(hd2) = PageUses(hd)
         /\ Objects(hd2, c, a) = Objects(hd, c, a) \ {h.obj}
         /\ h.obj \in Objects(hd, c, a)
         /\ \A d \in Cache, b \in Page :
              ~(d = c /\ b = a) => Objects(hd2, d, b) = Objects(hd, d, b)
<1> USE DEF Drops
<1>1. HeldOK(hd2, S)
  BY DEF HeldOK
<1>2. \A b, n : Pages(b, n) # h
  BY ObjectFields
<1>3. PageUses(hd2) = PageUses(hd)
  BY <1>2 DEF PageUses
<1>4. ASSUME NEW x \in hd, x.kind = "object", x.cache = h.cache, x.addr = h.addr, x.obj = h.obj
      PROVE  x = h
  <2>1. x \in HeldT /\ h \in HeldT
    BY DEF HeldOK
  <2>2. x = Object(x.cache, x.addr, x.obj) /\ h = Object(h.cache, h.addr, h.obj)
    BY <1>4, <2>1, HeldObject
  <2>. QED BY <1>4, <2>2
<1>5. Objects(hd2, c, a) = Objects(hd, c, a) \ {h.obj}
  BY <1>4 DEF Objects
<1>6. h.obj \in Objects(hd, c, a)
  BY DEF Objects
<1>7. \A d \in Cache, b \in Page :
        ~(d = c /\ b = a) => Objects(hd2, d, b) = Objects(hd, d, b)
  BY DEF Objects
<1>. QED BY <1>1, <1>3, <1>5, <1>6, <1>7

(* A slab hands out no more than its objects.                               *)
LEMMA HandedOut ==
  ASSUME NEW c \in Cache, NEW slab, NEW H, SlabOK(c, slab, H)
  PROVE  H \subseteq 1 .. sa_slab_nobjs[c] /\ IsFiniteSet(H) /\ Cardinality(H) \in Nat
<1>1. H \subseteq 1 .. sa_slab_nobjs[c]
  BY DEF SlabOK
<1>2. IsFiniteSet(1 .. sa_slab_nobjs[c])
  <2>1. 1 \in Int /\ sa_slab_nobjs[c] \in Int
    BY CacheFacts
  <2>. QED BY <2>1, FS_Interval
<1>3. IsFiniteSet(H)
  BY <1>1, <1>2, FS_Subset
<1>. QED BY <1>1, <1>3, FS_CardinalityType

(* The first free object of a slab is handed out.                           *)
Takes(S, hd, F, c, k, o, y, S2) ==
  /\ MemOK(S, hd, F) /\ c \in Cache /\ k \in DOMAIN S[c]
  /\ S[c][k].s_inuse < sa_slab_nobjs[c]
  /\ o = Head(S[c][k].s_free)
  /\ y = [S[c][k] EXCEPT !.s_free = Tail(@), !.s_inuse = @ + 1]
  /\ S2 = [S EXCEPT ![c] = [S[c] EXCEPT ![k] = y]]

(* The first free object of a slab goes to a caller who did not have it.    *)
LEMMA ObjectTaken ==
  ASSUME NEW S, NEW hd, NEW F, NEW c, NEW k, NEW o, NEW y, NEW S2, Takes(S, hd, F, c, k, o, y, S2)
  PROVE  /\ MemOK(S2, hd \cup {Object(c, S[c][k].s_addr, o)}, F)
         /\ Object(c, S[c][k].s_addr, o) \notin hd
         /\ S[c][k].s_addr \in Page
<1>1. /\ MemOK(S, hd, F) /\ c \in Cache /\ k \in DOMAIN S[c] /\ S[c] \in Seq(SlabT)
      /\ SlabsT(S) /\ Distinct(S[c]) /\ HeldOK(hd, S)
  BY DEF Takes, MemOK, SlabsT
<1>2. PICK x : x = S[c][k]
  OBVIOUS
<1>3. x \in SlabT /\ x \in ToSet(S[c])
  BY <1>1, <1>2 DEF ToSet
<1>4. PICK a : a = x.s_addr
  OBVIOUS
<1>5. PICK H : H = Objects(hd, c, a)
  OBVIOUS
<1>6. SlabOK(c, x, H)
  BY <1>1, <1>3, <1>4, <1>5 DEF MemOK
<1>7. IsFiniteSet(H) /\ Cardinality(H) \in Nat /\ x.s_inuse = Cardinality(H)
  BY <1>1, <1>6, HandedOut DEF SlabOK
<1>8. PICK l : l = x.s_free
  OBVIOUS
<1>9. l \in Seq(Nat) /\ IsInjective(l) /\ ToSet(l) \cap H = {} /\ ToSet(l) \cup H = 1 .. sa_slab_nobjs[c]
  BY <1>3, <1>6, <1>8 DEF SlabT, SlabOK
<1>10. l # <<>>
  <2> SUFFICES ASSUME l = <<>> PROVE FALSE
    OBVIOUS
  <2>1. ToSet(l) = {}
    BY DEF ToSet
  <2>2. H = 1 .. sa_slab_nobjs[c]
    BY <1>9, <2>1
  <2>3. PICK n \in Nat \ {0} : n = sa_slab_nobjs[c]
    BY <1>1, CacheFacts
  <2>4. Cardinality(1 .. n) = n
    <3>1. 1 \in Int /\ n \in Int /\ ~(1 > n) /\ n - 1 + 1 = n
      OBVIOUS
    <3>. QED BY <3>1, FS_Interval
  <2>5. x.s_inuse = n
    BY <1>7, <2>2, <2>3, <2>4
  <2>6. x.s_inuse < n
    BY <1>2, <2>3 DEF Takes
  <2>. QED BY <2>5, <2>6
<1>11. o = Head(l)
  BY <1>2, <1>8 DEF Takes
<1>12. /\ Tail(l) \in Seq(Nat) /\ o \in ToSet(l) /\ o \in Nat
       /\ ToSet(Tail(l)) = ToSet(l) \ {o} /\ IsInjective(Tail(l))
  BY <1>9, <1>10, <1>11, ListPop
<1>13. y = [s_addr |-> a, s_inuse |-> x.s_inuse + 1, s_free |-> Tail(l)]
  <2>1. y = [x EXCEPT !.s_free = Tail(@), !.s_inuse = @ + 1]
    BY <1>2 DEF Takes
  <2>. QED BY <1>3, <1>4, <1>8, <2>1 DEF SlabT
<1>14. y \in SlabT /\ y.s_addr = a /\ y.s_inuse = x.s_inuse + 1 /\ y.s_free = Tail(l)
  BY <1>3, <1>4, <1>12, <1>13 DEF SlabT
<1>15. PICK hd2 : hd2 = hd \cup {Object(c, a, o)}
  OBVIOUS
<1>16. a \in Page
  BY <1>3, <1>4 DEF SlabT
<1>17. /\ HeldOK(hd2, S) /\ PageUses(hd2) = PageUses(hd) /\ Objects(hd2, c, a) = H \cup {o}
       /\ \A d \in Cache, b \in Page : ~(d = c /\ b = a) => Objects(hd2, d, b) = Objects(hd, d, b)
  <2>1. \E s \in ToSet(S[c]) : s.s_addr = a
    BY <1>3, <1>4
  <2>2. Adds(hd, S, c, a, o, hd2)
    BY <1>1, <1>12, <1>15, <1>16, <2>1 DEF Adds
  <2>. QED BY <1>5, <2>2, ObjectAdded
<1>18. o \notin H
  BY <1>9, <1>12
<1>19. SlabOK(c, y, H \cup {o})
  <2>1. Cardinality(H \cup {o}) = Cardinality(H) + 1
    BY <1>7, <1>18, FS_AddElement
  <2>2. y.s_inuse = Cardinality(H \cup {o})
    BY <1>7, <1>14, <2>1
  <2>3. ToSet(y.s_free) = ToSet(l) \ {o} /\ IsInjective(y.s_free)
    BY <1>12, <1>14
  <2>. QED BY <1>9, <1>12, <2>2, <2>3 DEF SlabOK
<1>20. Swap(S, c, k, y, S2)
  <2>1. S2 = [S EXCEPT ![c] = [S[c] EXCEPT ![k] = y]]
    BY DEF Takes
  <2>2. PICK L : L = [S[c] EXCEPT ![k] = y]
    OBVIOUS
  <2>3. S2[c] = L /\ \A d \in Cache : d # c => S2[d] = S[d]
    BY <1>1, <2>1, <2>2 DEF SlabsT
  <2>4. Replace(S[c], k, y, L)
    BY <1>1, <1>2, <1>4, <1>14, <2>2 DEF Replace
  <2>5. L \in Seq(SlabT)
    BY <2>4, ReplaceFacts
  <2>6. S2 \in [Cache -> Seq(SlabT)]
    BY <1>1, <2>1, <2>2, <2>5 DEF SlabsT
  <2>. QED BY <1>1, <2>3, <2>4, <2>6 DEF Swap
<1>21. Counts(S, hd, F, c, k, y, S2, hd2)
  BY <1>1, <1>14, <1>17, <1>19, <1>20 DEF Counts
<1>22. MemOK(S2, hd2, F)
  BY <1>21, SlabCounts
<1>23. Object(c, a, o) \notin hd
  <2> SUFFICES ASSUME Object(c, a, o) \in hd PROVE FALSE
    OBVIOUS
  <2>1. o \in Objects(hd, c, a)
    BY ObjectFields DEF Objects
  <2>. QED BY <1>5, <1>18, <2>1
<1>. QED BY <1>2, <1>4, <1>15, <1>16, <1>22, <1>23
-----------------------------------------------------------------------------
(* An object comes back to its slab.                                        *)
Returned(L, a, o) ==
  [i \in DOMAIN L |-> IF L[i].s_addr # a THEN L[i]
                      ELSE [L[i] EXCEPT !.s_free = <<o>> \o @, !.s_inuse = @ - 1]]

Returns(S, hd, F, h, S2, hd2) ==
  /\ MemOK(S, hd, F) /\ h \in hd /\ h.kind = "object" /\ hd2 = hd \ {h}
  /\ S2 = [S EXCEPT ![h.cache] = Returned(S[h.cache], h.addr, h.obj)]

(* slab_obj_free puts an object back on its slab.                           *)
LEMMA ObjectBack ==
  ASSUME NEW S, NEW hd, NEW F, NEW h, NEW S2, NEW hd2, Returns(S, hd, F, h, S2, hd2)
  PROVE  MemOK(S2, hd2, F)
<1>1. /\ MemOK(S, hd, F) /\ h \in hd /\ h.kind = "object" /\ hd2 = hd \ {h} /\ h \in HeldT
      /\ SlabsT(S) /\ HeldOK(hd, S)
  BY DEF Returns, MemOK, HeldOK
<1>2. PICK c, a, o : c = h.cache /\ a = h.addr /\ o = h.obj
  OBVIOUS
<1>3. c \in Cache /\ a \in Page /\ o \in Nat
  BY <1>1, <1>2, HeldObject
<1>4. PICK L : L = S[c]
  OBVIOUS
<1>5. L \in Seq(SlabT) /\ Distinct(L)
  BY <1>1, <1>3, <1>4 DEF SlabsT, MemOK
<1>6. PICK k \in DOMAIN L : L[k].s_addr = a
  <2>1. \E s \in ToSet(L) : s.s_addr = a
    BY <1>1, <1>2, <1>4 DEF HeldOK
  <2>. QED BY <2>1 DEF ToSet
<1>7. PICK x : x = L[k]
  OBVIOUS
<1>8. x \in SlabT /\ x \in ToSet(L) /\ x.s_addr = a
  BY <1>5, <1>6, <1>7 DEF ToSet
<1>9. PICK H : H = Objects(hd, c, a)
  OBVIOUS
<1>10. SlabOK(c, x, H)
  BY <1>1, <1>3, <1>4, <1>8, <1>9 DEF MemOK
<1>11. IsFiniteSet(H) /\ Cardinality(H) \in Nat /\ x.s_inuse = Cardinality(H)
  BY <1>3, <1>10, HandedOut DEF SlabOK
<1>12. PICK l : l = x.s_free
  OBVIOUS
<1>13. l \in Seq(Nat) /\ IsInjective(l) /\ ToSet(l) \cap H = {} /\ ToSet(l) \cup H = 1 .. sa_slab_nobjs[c]
  BY <1>8, <1>10, <1>12 DEF SlabT, SlabOK
<1>14. /\ HeldOK(hd2, S) /\ PageUses(hd2) = PageUses(hd)
       /\ Objects(hd2, c, a) = H \ {o} /\ o \in H
       /\ \A d \in Cache, b \in Page : ~(d = c /\ b = a) => Objects(hd2, d, b) = Objects(hd, d, b)
  <2>1. Drops(hd, S, h, c, a, hd2)
    BY <1>1, <1>2 DEF Drops
  <2>. QED BY <1>2, <1>9, <2>1, ObjectRemoved
<1>15. PICK l2 : l2 = <<o>> \o l
  OBVIOUS
<1>16. l2 \in Seq(Nat) /\ ToSet(l2) = ToSet(l) \cup {o} /\ IsInjective(l2)
  <2>1. o \notin ToSet(l)
    BY <1>13, <1>14
  <2>. QED BY <1>3, <1>13, <1>15, <2>1, ListPush
<1>17. PICK y : y = [x EXCEPT !.s_free = <<o>> \o @, !.s_inuse = @ - 1]
  OBVIOUS
<1>18. y = [s_addr |-> a, s_inuse |-> x.s_inuse - 1, s_free |-> l2]
  BY <1>8, <1>12, <1>15, <1>17 DEF SlabT
<1>19. y \in SlabT /\ y.s_addr = a /\ y.s_inuse = x.s_inuse - 1 /\ y.s_free = l2
  BY <1>3, <1>8, <1>16, <1>18 DEF SlabT
<1>20. SlabOK(c, y, H \ {o})
  <2>1. Cardinality(H \ {o}) = Cardinality(H) - 1
    BY <1>11, <1>14, FS_RemoveElement
  <2>2. y.s_inuse = Cardinality(H \ {o})
    BY <1>11, <1>19, <2>1
  <2>. QED BY <1>13, <1>14, <1>16, <1>19, <2>2 DEF SlabOK
<1>21. Returned(L, a, o) = [L EXCEPT ![k] = y]
  <2>1. \A i \in DOMAIN L : L[i].s_addr # a <=> i # k
    BY <1>5, <1>6 DEF Distinct
  <2>2. PICK R : R = Returned(L, a, o)
    OBVIOUS
  <2>3. DOMAIN R = DOMAIN L /\ R = [i \in DOMAIN L |-> R[i]]
    BY <2>2 DEF Returned
  <2>4. \A i \in DOMAIN L : i # k => R[i] = L[i]
    BY <2>1, <2>2 DEF Returned
  <2>5. R[k] = y
    <3>1. ~(L[k].s_addr # a)
      BY <1>6
    <3>. QED BY <1>6, <1>7, <1>17, <2>2, <3>1 DEF Returned
  <2>6. PICK Q : Q = [L EXCEPT ![k] = y]
    OBVIOUS
  <2>7. Q = [i \in DOMAIN L |-> IF i = k THEN y ELSE L[i]]
    BY <1>5, <2>6
  <2>8. R = Q
    BY <2>3, <2>4, <2>5, <2>7
  <2>. QED BY <2>2, <2>6, <2>8
<1>22. Swap(S, c, k, y, S2)
  <2>1. PICK L2 : L2 = [L EXCEPT ![k] = y]
    OBVIOUS
  <2>2. S2 = [S EXCEPT ![c] = L2]
    BY <1>2, <1>4, <1>21, <2>1 DEF Returns
  <2>3. S2[c] = L2 /\ \A d \in Cache : d # c => S2[d] = S[d]
    BY <1>1, <1>3, <2>2 DEF SlabsT
  <2>4. Replace(L, k, y, L2)
    BY <1>5, <1>6, <1>19, <2>1 DEF Replace
  <2>5. L2 \in Seq(SlabT)
    BY <2>4, ReplaceFacts
  <2>6. S2 \in [Cache -> Seq(SlabT)]
    BY <1>1, <2>2, <2>5 DEF SlabsT
  <2>. QED BY <1>1, <1>3, <1>4, <2>3, <2>4, <2>6 DEF Swap
<1>23. Counts(S, hd, F, c, k, y, S2, hd2)
  BY <1>1, <1>14, <1>19, <1>20, <1>22 DEF Counts
<1>. QED BY <1>23, SlabCounts
-----------------------------------------------------------------------------
(* Pages                                                                    *)
PageUse(a, n) == <<a, n, "pages", Self>>

(* The parts of the use of pages.                                           *)
LEMMA PageUseFacts ==
  ASSUME NEW a \in Page, NEW n \in Order
  PROVE  /\ PageUse(a, n) \in Page \X Order \X {"pages"} \X {Self}
         /\ PageUse(a, n)[1] = a /\ PageUse(a, n)[2] = n /\ PageUse(a, n)[3] = "pages"
         /\ \A S : PageUse(a, n) \notin SlabUses(S)
<1>1. \A S : \A u \in SlabUses(S) : u[3] = "slab"
  BY DEF SlabUses
<1>2. PageUse(a, n)[3] = "pages" /\ "pages" # "slab"
  BY DEF PageUse
<1>3. \A S : PageUse(a, n) \notin SlabUses(S)
  BY <1>1, <1>2
<1>. QED BY <1>3 DEF PageUse

(* One block of pages more or less is one use more or less.                 *)
LEMMA PageUsesAre ==
  ASSUME NEW hd, NEW a \in Page, NEW n \in Order, NEW more, more = hd \cup {Pages(a, n)},
         NEW less, less = hd \ {Pages(a, n)}
  PROVE  /\ PageUse(a, n) \in PageUses(hd) <=> Pages(a, n) \in hd
         /\ PageUses(more) = PageUses(hd) \cup {PageUse(a, n)}
         /\ PageUses(less) = PageUses(hd) \ {PageUse(a, n)}
<1>1. ASSUME NEW u \in Page \X Order \X {"pages"} \X {Self}
      PROVE  u = PageUse(a, n) <=> Pages(u[1], u[2]) = Pages(a, n)
  <2>1. Pages(u[1], u[2]) = Pages(a, n) <=> u[1] = a /\ u[2] = n
    <3>1. \A b, m : Pages(b, m).addr = b /\ Pages(b, m).order = m
      BY DEF Pages
    <3>. QED BY <3>1
  <2>2. u = <<u[1], u[2], "pages", Self>>
    OBVIOUS
  <2>. QED BY <2>1, <2>2 DEF PageUse
<1>2. PageUse(a, n) \in Page \X Order \X {"pages"} \X {Self} /\ PageUse(a, n)[1] = a /\ PageUse(a, n)[2] = n
  BY PageUseFacts
<1>3. PICK v : v = PageUse(a, n)
  OBVIOUS
<1>4. PICK p : p = Pages(a, n)
  OBVIOUS
<1>5. \A u \in Page \X Order \X {"pages"} \X {Self} : u = v <=> Pages(u[1], u[2]) = p
  BY <1>1, <1>3, <1>4
<1>6. v \in Page \X Order \X {"pages"} \X {Self} /\ v[1] = a /\ v[2] = n
  BY <1>2, <1>3
<1>7. v \in PageUses(hd) <=> p \in hd
  BY <1>4, <1>6 DEF PageUses
<1>8. PageUses(more) = PageUses(hd) \cup {v}
  BY <1>4, <1>5, <1>6 DEF PageUses
<1>9. PageUses(less) = PageUses(hd) \ {v}
  BY <1>4, <1>5, <1>6 DEF PageUses
<1>. QED BY <1>3, <1>4, <1>7, <1>8, <1>9

Asks(S, hd, F, a, n, hd2) ==
  /\ MemOK(S, hd, F) /\ a \in Page /\ n \in Order /\ Aligned(a, n)
  /\ Block(a, n) \subseteq F /\ hd2 = hd \cup {Pages(a, n)}

(* A free block goes to a caller who did not have it.                       *)
LEMMA PagesTaken ==
  ASSUME NEW S, NEW hd, NEW F, NEW a, NEW n, NEW hd2, Asks(S, hd, F, a, n, hd2)
  PROVE  /\ MemOK(S, hd2, F \ Block(a, n)) /\ Pages(a, n) \notin hd
<1>1. /\ MemOK(S, hd, F) /\ a \in Page /\ n \in Order /\ Aligned(a, n)
      /\ Block(a, n) \subseteq F /\ hd2 = hd \cup {Pages(a, n)} /\ F \subseteq Page
  BY DEF Asks, MemOK
<1>2. PICK b : b = Block(a, n)
  OBVIOUS
<1>3. a \in b /\ b \subseteq F
  BY <1>1, <1>2, BlockFacts, OrderFacts
<1>4. PICK u : u = PageUse(a, n)
  OBVIOUS
<1>5. /\ u[1] = a /\ u[2] = n /\ PageUses(hd2) = PageUses(hd) \cup {u}
      /\ u \in PageUses(hd) <=> Pages(a, n) \in hd
  <2>1. u[1] = a /\ u[2] = n
    BY <1>1, <1>4, PageUseFacts
  <2>2. PageUses(hd2) = PageUses(hd) \cup {u}
    <3>1. PICK less : less = hd \ {Pages(a, n)}
      OBVIOUS
    <3>2. hd2 = hd \cup {Pages(a, n)} /\ a \in Page /\ n \in Order
      BY <1>1
    <3>. QED BY <1>4, <3>1, <3>2, PageUsesAre
  <2>3. u \in PageUses(hd) <=> Pages(a, n) \in hd
    BY <1>1, <1>4, PageUsesAre
  <2>. QED BY <2>1, <2>2, <2>3
<1>6. Tiles(SlabUses(S) \cup PageUses(hd), Page \ F)
  BY <1>1 DEF MemOK
<1>7. u \notin PageUses(hd)
  <2> SUFFICES ASSUME u \in PageUses(hd) PROVE FALSE
    OBVIOUS
  <2>1. Block(u[1], u[2]) \subseteq Page \ F
    BY <1>6 DEF Tiles
  <2>. QED BY <1>2, <1>3, <1>5, <2>1
<1>8. Tiles(SlabUses(S) \cup PageUses(hd2), Page \ (F \ b))
  <2>1. PICK U : U = SlabUses(S) \cup PageUses(hd)
    OBVIOUS
  <2>2. Tiles(U \cup {u}, (Page \ F) \cup Block(u[1], u[2]))
    BY <1>2, <1>3, <1>5, <1>6, <2>1, TilesAdd
  <2>3. SlabUses(S) \cup PageUses(hd2) = U \cup {u} /\ (Page \ F) \cup b = Page \ (F \ b)
    BY <1>1, <1>3, <1>5, <2>1
  <2>. QED BY <1>2, <1>5, <2>2, <2>3
<1>9. HeldOK(hd2, S)
  <2>1. PICK p : p = Pages(a, n)
    OBVIOUS
  <2>2. p \in HeldT /\ p.kind = "pages" /\ p.addr = a /\ p.order = n
    BY <1>1, <2>1 DEF Pages, HeldT
  <2>3. p.kind # "object"
    BY <2>2
  <2>4. HeldOK(hd, S)
    BY <1>1 DEF MemOK
  <2>. QED BY <1>1, <2>1, <2>2, <2>3, <2>4 DEF HeldOK
<1>10. \A c, x : Objects(hd2, c, x) = Objects(hd, c, x)
  <2>1. Pages(a, n).kind # "object"
    BY DEF Pages
  <2>. QED BY <1>1, <2>1 DEF Objects
<1>11. F \ b \in SUBSET Page
  BY <1>1
<1>12. MemOK(S, hd2, F \ b)
  BY <1>1, <1>8, <1>9, <1>10, <1>11 DEF MemOK
<1>. QED BY <1>2, <1>5, <1>7, <1>12

GivesBack(S, hd, F, h, hd2) == MemOK(S, hd, F) /\ h \in hd /\ h.kind = "pages" /\ hd2 = hd \ {h}

(* A caller gives a block back.                                             *)
LEMMA PagesBack ==
  ASSUME NEW S, NEW hd, NEW F, NEW h, NEW hd2, GivesBack(S, hd, F, h, hd2)
  PROVE  /\ MemOK(S, hd2, F \cup Block(h.addr, h.order))
         /\ h.addr \in Page /\ h.order \in Order /\ Aligned(h.addr, h.order)
         /\ Block(h.addr, h.order) \subseteq Page /\ Block(h.addr, h.order) \cap F = {}
<1>1. /\ MemOK(S, hd, F) /\ h \in hd /\ h.kind = "pages" /\ hd2 = hd \ {h} /\ HeldOK(hd, S)
      /\ h \in HeldT /\ Aligned(h.addr, h.order) /\ F \subseteq Page
  BY DEF GivesBack, MemOK, HeldOK
<1>2. PICK a, n : a = h.addr /\ n = h.order
  OBVIOUS
<1>3. h = Pages(a, n) /\ a \in Page /\ n \in Order
  BY <1>1, <1>2, HeldPagesAre
<1>4. PICK u : u = PageUse(a, n)
  OBVIOUS
<1>5. /\ u[1] = a /\ u[2] = n /\ PageUses(hd2) = PageUses(hd) \ {u} /\ u \in PageUses(hd)
      /\ u \notin SlabUses(S)
  <2>1. u[1] = a /\ u[2] = n /\ u \notin SlabUses(S)
    BY <1>3, <1>4, PageUseFacts
  <2>2. PageUses(hd2) = PageUses(hd) \ {u}
    <3>1. PICK more : more = hd \cup {Pages(a, n)}
      OBVIOUS
    <3>2. hd2 = hd \ {Pages(a, n)}
      BY <1>1, <1>3
    <3>. QED BY <1>3, <1>4, <3>1, <3>2, PageUsesAre
  <2>3. u \in PageUses(hd)
    <3>1. Pages(a, n) \in hd
      BY <1>1, <1>3
    <3>. QED BY <1>3, <1>4, <3>1, PageUsesAre
  <2>. QED BY <2>1, <2>2, <2>3
<1>6. Tiles(SlabUses(S) \cup PageUses(hd), Page \ F)
  BY <1>1 DEF MemOK
<1>7. PICK U : U = SlabUses(S) \cup PageUses(hd)
  OBVIOUS
<1>8. PICK b : b = Block(a, n)
  OBVIOUS
<1>9. Tiles(U \ {u}, (Page \ F) \ b) /\ b \subseteq Page \ F
  BY <1>5, <1>6, <1>7, <1>8, TilesRemove
<1>10. U \ {u} = SlabUses(S) \cup PageUses(hd2) /\ (Page \ F) \ b = Page \ (F \cup b)
  BY <1>5, <1>7
<1>11. HeldOK(hd2, S)
  BY <1>1 DEF HeldOK
<1>12. \A c, x : Objects(hd2, c, x) = Objects(hd, c, x)
  <2>1. h.kind # "object"
    BY <1>1
  <2>. QED BY <1>1, <2>1 DEF Objects
<1>13. F \cup b \in SUBSET Page
  BY <1>1, <1>9
<1>14. MemOK(S, hd2, F \cup b)
  BY <1>1, <1>9, <1>10, <1>11, <1>12, <1>13 DEF MemOK
<1>. QED BY <1>1, <1>2, <1>3, <1>8, <1>9, <1>14
-----------------------------------------------------------------------------
(* All of the memory, with the pages F free                                 *)
IsMemory(m) == m = [group |-> m.group, sa_slabs |-> m.sa_slabs]
MemGood(m, hd, F) ==
  /\ IsMemory(m) /\ Good(m.group, F) /\ m.group.intact /\ MemOK(m.sa_slabs, hd, F)

(* The lists of a sound group cover what is free.                           *)
LEMMA GoodCovers ==
  ASSUME NEW g, NEW F, Good(g, F)
  PROVE  Covered(g.pg_freelist) = F /\ g \in GroupT /\ F \subseteq Page
<1>1. F \in SUBSET Page /\ Tiles(Blocks(g.pg_freelist), F) /\ g \in GroupT
  BY DEF Good, Holds
<1>2. Covered(g.pg_freelist) = F
  BY <1>1 DEF Covered, Tiles
<1>. QED BY <1>1, <1>2

(* What stays true while memory is reclaimed                                *)
Kept(m, hd, F0) ==
  /\ IsMemory(m) /\ m.group \in GroupT /\ SlabsT(m.sa_slabs)
  /\ F0 \subseteq Covered(m.group.pg_freelist)
  /\ m.group.intact => MemGood(m, hd, Covered(m.group.pg_freelist))
  /\ ~m.group.intact => \E p \in Covered(m.group.pg_freelist) \ F0 : InTail(p)

(* Sound memory is a state reclaiming can start from.                       *)
LEMMA GoodIsKept ==
  ASSUME NEW m, NEW hd, NEW F, MemGood(m, hd, F)
  PROVE  Kept(m, hd, F)
<1>1. Covered(m.group.pg_freelist) = F /\ m.group \in GroupT
  BY GoodCovers DEF MemGood
<1>2. IsMemory(m) /\ m.group.intact /\ SlabsT(m.sa_slabs)
  BY DEF MemGood, MemOK
<1>. QED BY <1>1, <1>2 DEF Kept

Frees(m, hd, F0, c, i, m2) ==
  /\ Kept(m, hd, F0) /\ c \in Cache /\ i \in DOMAIN m.sa_slabs[c]
  /\ m.sa_slabs[c][i].s_inuse = 0
  /\ m2 = [group |-> page_free_order(m.group, m.sa_slabs[c][i].s_addr, sa_order[c]),
           sa_slabs |-> [m.sa_slabs EXCEPT ![c] = RemoveAt(@, i)]]

(* free_slab gives the block of an empty slab back to the page allocator.   *)
LEMMA SlabFreed ==
  ASSUME NEW m, NEW hd, NEW F0, NEW c, NEW i, NEW m2, Frees(m, hd, F0, c, i, m2)
  PROVE  Kept(m2, hd, F0) /\ Len(m2.sa_slabs[c]) = Len(m.sa_slabs[c]) - 1
<1>1. /\ Kept(m, hd, F0) /\ c \in Cache /\ i \in DOMAIN m.sa_slabs[c]
      /\ IsMemory(m) /\ m.group \in GroupT /\ SlabsT(m.sa_slabs)
  BY DEF Frees, Kept
<1>2. PICK S, S2, g, h : S = m.sa_slabs /\ S2 = m2.sa_slabs /\ g = m.group /\ h = m2.group
  OBVIOUS
<1>3. PICK x : x = S[c][i]
  OBVIOUS
<1>4. PICK a, o : a = x.s_addr /\ o = sa_order[c]
  OBVIOUS
<1>5. S[c] \in Seq(SlabT) /\ i \in 1 .. Len(S[c]) /\ Len(S[c]) \in Nat /\ SlabsT(S)
      /\ S \in [Cache -> Seq(SlabT)]
  BY <1>1, <1>2 DEF SlabsT
<1>6. x \in SlabT /\ x \in ToSet(S[c]) /\ x.s_inuse = 0
  BY <1>1, <1>2, <1>3, <1>5 DEF ToSet, Frees
<1>7. a \in Page /\ a \in Nat /\ o \in Order /\ o \in Nat /\ Aligned(a, o)
  BY <1>1, <1>4, <1>5, <1>6, CacheFacts, OrderFacts DEF SlabsT, SlabT
<1>8. m2 = [group |-> page_free_order(g, a, o), sa_slabs |-> [S EXCEPT ![c] = RemoveAt(@, i)]]
  BY <1>2, <1>3, <1>4 DEF Frees
<1>9. h = page_free_order(g, a, o) /\ S2 = [S EXCEPT ![c] = RemoveAt(@, i)] /\ IsMemory(m2)
  BY <1>2, <1>8 DEF IsMemory
<1>10. S2[c] = RemoveAt(S[c], i) /\ \A d \in Cache : d # c => S2[d] = S[d]
  BY <1>1, <1>5, <1>9
<1>11. Insert(S2[c], i, x, S[c]) /\ Len(S2[c]) = Len(S[c]) - 1
  BY <1>3, <1>5, <1>10, RemoveSlab
<1>12. More(S2, c, x, S)
  <2>1. S2 \in [Cache -> Seq(SlabT)]
    <3>1. RemoveAt(S[c], i) \in Seq(SlabT)
      BY <1>10, <1>11 DEF Insert
    <3>. QED BY <1>5, <1>9, <3>1
  <2>. QED BY <1>1, <1>5, <1>10, <1>11, <2>1 DEF More
<1>13. SlabsT(S2)
  <2>1. \A d \in Cache : ToSet(S2[d]) \subseteq ToSet(S[d])
    BY <1>10, <1>12, MoreFacts
  <2>. QED BY <1>5, <1>12, <2>1 DEF SlabsT, More
<1>14. PICK b : b = Block(a, o)
  OBVIOUS
<1>15. PICK C, D : C = Covered(g.pg_freelist) /\ D = Covered(h.pg_freelist)
  OBVIOUS
<1>16. h \in GroupT /\ (h.intact => g.intact) /\ C \cup (b \cap Page) \subseteq D
  <2>1. FreesBlock(g, a, o, h)
    BY <1>1, <1>2, <1>7, <1>9 DEF FreesBlock
  <2>. QED BY <1>14, <1>15, <2>1, PageFreeTyped
<1>17. F0 \subseteq D /\ F0 \subseteq C
  BY <1>1, <1>2, <1>15, <1>16 DEF Kept
<1>18. a \in b
  BY <1>7, <1>14, BlockFacts
<1>19. ASSUME g.intact
       PROVE  /\ h.intact => Good(h, C \cup b) /\ MemOK(S2, hd, C \cup b)
              /\ ~h.intact => InTail(a)
              /\ b \subseteq Page /\ b \cap C = {}
  <2>1. Good(g, C) /\ MemOK(S, hd, C)
    BY <1>1, <1>2, <1>15, <1>19 DEF Kept, MemGood
  <2>2. b \subseteq Page /\ b \cap C = {}
    BY <1>1, <1>4, <1>6, <1>14, <2>1, UsedBlock
  <2>3. FreesGood(g, C, a, o)
    BY <1>7, <1>14, <1>19, <2>1, <2>2 DEF FreesGood
  <2>4. /\ h.intact => Good(h, C \cup b)
        /\ ~h.intact => InTail(a)
    BY <1>9, <1>14, <2>3, PageFreeGood
  <2>5. MemOK(S2, hd, C \cup b)
    BY <1>4, <1>6, <1>12, <1>14, <2>1, SlabGone
  <2>. QED BY <2>2, <2>4, <2>5
<1>20. ASSUME h.intact PROVE MemGood(m2, hd, D)
  <2>1. Good(h, C \cup b) /\ MemOK(S2, hd, C \cup b)
    BY <1>16, <1>19, <1>20
  <2>2. D = C \cup b
    BY <1>15, <2>1, GoodCovers
  <2>. QED BY <1>2, <1>9, <1>20, <2>1, <2>2 DEF MemGood
<1>21. ASSUME ~h.intact PROVE \E p \in D \ F0 : InTail(p)
  <2>1. CASE g.intact
    <3>1. InTail(a) /\ a \notin C /\ a \in D
      BY <1>7, <1>16, <1>18, <1>19, <1>21, <2>1
    <3>. QED BY <1>17, <3>1
  <2>2. CASE ~g.intact
    <3>1. \E p \in C \ F0 : InTail(p)
      BY <1>1, <1>2, <1>15, <2>2 DEF Kept
    <3>. QED BY <1>16, <3>1
  <2>. QED BY <2>1, <2>2
<1>22. Kept(m2, hd, F0)
  BY <1>2, <1>9, <1>13, <1>15, <1>16, <1>17, <1>20, <1>21 DEF Kept
<1>. QED BY <1>2, <1>11, <1>22
-----------------------------------------------------------------------------
(* One turn of the reclaiming of a cache                                    *)
Reclaims(k, hd, F0, c, left) ==
  /\ k = [mem |-> k.mem, kept |-> k.kept] /\ Kept(k.mem, hd, F0) /\ c \in Cache
  /\ k.kept \in Nat /\ left \in Nat /\ Len(k.mem.sa_slabs[c]) = k.kept + left

(* One turn of the inner loop of slab_allocators_reclaim.                   *)
LEMMA ReclaimSlab ==
  ASSUME NEW k, NEW hd, NEW F0, NEW c, NEW left \in Nat, Reclaims(k, hd, F0, c, left + 1),
         NEW k2, k2 = reclaim_slab(k, c)
  PROVE  Reclaims(k2, hd, F0, c, left)
<1>1. /\ k = [mem |-> k.mem, kept |-> k.kept] /\ Kept(k.mem, hd, F0) /\ c \in Cache
      /\ k.kept \in Nat /\ Len(k.mem.sa_slabs[c]) = k.kept + (left + 1)
  BY DEF Reclaims
<1>2. PICK m, n : m = k.mem /\ n = k.kept
  OBVIOUS
<1>3. Kept(m, hd, F0) /\ n \in Nat /\ Len(m.sa_slabs[c]) = n + (left + 1) /\ SlabsT(m.sa_slabs)
      /\ IsMemory(m) /\ k = [mem |-> m, kept |-> n]
  BY <1>1, <1>2 DEF Kept
<1>4. m.sa_slabs[c] \in Seq(SlabT) /\ m.sa_slabs \in [Cache -> Seq(SlabT)]
  BY <1>1, <1>3 DEF SlabsT
<1>5. n + 1 \in DOMAIN m.sa_slabs[c]
  <2>1. DOMAIN m.sa_slabs[c] = 1 .. Len(m.sa_slabs[c])
    BY <1>4
  <2>. QED BY <1>3, <2>1
<1>6. CASE m.sa_slabs[c][n + 1].s_inuse = 0
  <2>1. PICK m2 : m2 = [group |-> page_free_order(m.group, m.sa_slabs[c][n + 1].s_addr, sa_order[c]),
                        sa_slabs |-> [m.sa_slabs EXCEPT ![c] = RemoveAt(@, n + 1)]]
    OBVIOUS
  <2>2. Frees(m, hd, F0, c, n + 1, m2)
    BY <1>1, <1>3, <1>5, <1>6, <2>1 DEF Frees
  <2>3. Kept(m2, hd, F0) /\ Len(m2.sa_slabs[c]) = Len(m.sa_slabs[c]) - 1
    BY <2>2, SlabFreed
  <2>4. k2 = free_slab(k, c)
    BY <1>2, <1>6 DEF reclaim_slab
  <2>5. k2 = [k EXCEPT !.mem = m2]
    <3>. QED BY <1>2, <2>1, <2>4, Zenon DEF free_slab
  <2>6. k2 = [mem |-> m2, kept |-> n]
    BY <1>3, <2>5
  <2>7. k2.mem = m2 /\ k2.kept = n
    BY <2>6
  <2>8. Len(m2.sa_slabs[c]) = n + left
    BY <1>3, <2>3
  <2>. QED BY <1>1, <1>3, <2>3, <2>6, <2>7, <2>8 DEF Reclaims
<1>7. CASE m.sa_slabs[c][n + 1].s_inuse # 0
  <2>1. k2 = [k EXCEPT !.kept = @ + 1]
    BY <1>2, <1>7 DEF reclaim_slab
  <2>2. k2 = [mem |-> m, kept |-> n + 1]
    BY <1>3, <2>1
  <2>3. k2.mem = m /\ k2.kept = n + 1
    BY <2>2
  <2>4. Len(m.sa_slabs[c]) = (n + 1) + left /\ n + 1 \in Nat
    BY <1>3
  <2>. QED BY <1>1, <1>3, <2>2, <2>3, <2>4 DEF Reclaims
<1>. QED BY <1>6, <1>7

(* All slabs of one cache are visited.                                      *)
LEMMA ReclaimCache ==
  ASSUME NEW m, NEW hd, NEW F0, Kept(m, hd, F0), NEW c \in Cache
  PROVE  Kept(reclaim_cache(m, c), hd, F0)
<1>1. PICK n : n = Len(m.sa_slabs[c])
  OBVIOUS
<1>2. n \in Nat
  <2>1. m.sa_slabs[c] \in Seq(SlabT)
    BY DEF Kept, SlabsT
  <2>. QED BY <1>1, <2>1
<1>3. PICK S : S = [mem |-> m, kept |-> 0]
  OBVIOUS
<1> DEFINE at == CHOOSE f : f = [i \in 0 .. n |-> IF i = 0 THEN S ELSE reclaim_slab(f[i - 1], c)]
<1>4. reclaim_cache(m, c) = at[n].mem
  BY <1>1, <1>3, Zenon DEF reclaim_cache, Iterate
<1>5. at = CHOOSE f : IsLoop(3, c, f, S, 0, n)
  BY DEF IsLoop, StepOf
<1> HIDE DEF at
<1>6. Turns(3, c, at, S, 0, n)
  BY <1>2, <1>5, LoopTurns
<1>7. at[0] = S /\ \A i \in 0 .. (n - 1) : at[i + 1] = reclaim_slab(at[i], c)
  BY <1>6 DEF Turns, StepOf
<1> DEFINE T == {i \in 0 .. n : Reclaims(at[i], hd, F0, c, n - i)}
<1>8. 0 \in T
  <2>1. S.mem = m /\ S.kept = 0 /\ n - 0 = n /\ n = 0 + n
    BY <1>2, <1>3
  <2>2. S = [mem |-> S.mem, kept |-> S.kept]
    BY <1>3
  <2>3. Reclaims(S, hd, F0, c, n)
    BY <1>1, <1>2, <2>1, <2>2 DEF Reclaims
  <2>. QED BY <1>2, <1>7, <2>1, <2>3
<1>9. ASSUME NEW i \in 0 .. (n - 1), i \in T PROVE i + 1 \in T
  <2>1. PICK left : left = n - (i + 1)
    OBVIOUS
  <2>2. left \in Nat /\ left + 1 = n - i /\ i + 1 \in 0 .. n
    BY <1>2, <2>1
  <2>3. Reclaims(at[i], hd, F0, c, left + 1)
    BY <1>9, <2>2
  <2>4. at[i + 1] = reclaim_slab(at[i], c)
    BY <1>7
  <2>5. Reclaims(at[i + 1], hd, F0, c, left)
    BY <2>2, <2>3, <2>4, ReclaimSlab
  <2>. QED BY <2>1, <2>2, <2>5
<1>10. \A i \in 0 .. n : i \in T
  <2> HIDE DEF T
  <2>. QED BY <1>2, <1>8, <1>9, RangeInduction
<1>11. Reclaims(at[n], hd, F0, c, n - n)
  BY <1>2, <1>10
<1>. QED BY <1>4, <1>11 DEF Reclaims

(* slab_allocators_reclaim                                                  *)
LEMMA ReclaimAll ==
  ASSUME NEW m, NEW hd, NEW F0, Kept(m, hd, F0), NEW caches \in Seq(Cache)
  PROVE  Kept(slab_allocators_reclaim(m, caches), hd, F0)
<1>1. PICK n \in Nat : n = Len(caches)
  OBVIOUS
<1> DEFINE at == CHOOSE f : f = [i \in 0 .. n |-> IF i = 0 THEN m ELSE reclaim_cache(f[i - 1], caches[i])]
<1>2. slab_allocators_reclaim(m, caches) = at[n]
  BY <1>1, Zenon DEF slab_allocators_reclaim, Iterate
<1>3. at = CHOOSE f : IsLoop(4, caches, f, m, 0, n)
  BY DEF IsLoop, StepOf
<1> HIDE DEF at
<1>4. Turns(4, caches, at, m, 0, n)
  BY <1>1, <1>3, LoopTurns
<1>5. at[0] = m /\ \A i \in 0 .. (n - 1) : at[i + 1] = reclaim_cache(at[i], caches[i + 1])
  BY <1>4 DEF Turns, StepOf
<1> DEFINE T == {i \in 0 .. n : Kept(at[i], hd, F0)}
<1>6. 0 \in T
  BY <1>5
<1>7. ASSUME NEW i \in 0 .. (n - 1), i \in T PROVE i + 1 \in T
  <2>1. i + 1 \in 0 .. n /\ i + 1 \in 1 .. Len(caches)
    BY <1>1
  <2>2. caches[i + 1] \in Cache
    BY <2>1
  <2>3. Kept(at[i + 1], hd, F0)
    BY <1>5, <1>7, <2>2, ReclaimCache
  <2>. QED BY <2>1, <2>3
<1>8. \A i \in 0 .. n : i \in T
  <2> HIDE DEF T
  <2>. QED BY <1>6, <1>7, RangeInduction
<1>. QED BY <1>2, <1>8
-----------------------------------------------------------------------------
(* alloc_block                                                              *)
BlockAsked(m, hd, F, order, got) ==
  \/ got.addr = NULL /\ Kept(got.mem, hd, F)
  \/ /\ got.addr \in Page /\ Aligned(got.addr, order) /\ Block(got.addr, order) \subseteq F
     /\ IsMemory(got.mem) /\ got.mem.sa_slabs = m.sa_slabs
     /\ Good(got.mem.group, F \ Block(got.addr, order)) /\ got.mem.group.intact

(* alloc_block: a free block, or none, and then the memory that could be    *)
(* reclaimed.                                                               *)
LEMMA AllocBlock ==
  ASSUME NEW m, NEW hd, NEW F, MemGood(m, hd, F), NEW caches \in Seq(Cache), NEW order \in Order,
         NEW got, got = alloc_block(m, caches, order)
  PROVE  BlockAsked(m, hd, F, order, got)
<1>1. CASE Available(m.group, order)
  <2>1. PICK p : p = page_alloc_order(m.group, order)
    OBVIOUS
  <2>2. got = [addr |-> p.addr, mem |-> [m EXCEPT !.group = p.group]]
    BY <1>1, <2>1 DEF alloc_block
  <2>3. TakesBlock(m.group, F, order, p)
    BY <1>1, <2>1 DEF TakesBlock, MemGood
  <2>4. BlockTaken(m.group, F, order, p.addr, p.group)
    BY <2>3, PageAllocTakes
  <2>5. m = [group |-> m.group, sa_slabs |-> m.sa_slabs] /\ m.group.intact
    BY DEF MemGood, IsMemory
  <2>6. PICK m2 : m2 = [m EXCEPT !.group = p.group]
    OBVIOUS
  <2>7. m2 = [group |-> p.group, sa_slabs |-> m.sa_slabs]
    BY <2>5, <2>6
  <2>8. got.addr = p.addr /\ got.mem = m2 /\ m2.group = p.group /\ m2.sa_slabs = m.sa_slabs
    BY <2>2, <2>6, <2>7
  <2>9. IsMemory(m2)
    BY <2>7 DEF IsMemory
  <2>. QED BY <2>4, <2>5, <2>8, <2>9 DEF BlockTaken, BlockAsked
<1>2. CASE ~Available(m.group, order)
  <2>1. got = [addr |-> NULL, mem |-> slab_allocators_reclaim(m, caches)]
    BY <1>2 DEF alloc_block
  <2>2. Kept(slab_allocators_reclaim(m, caches), hd, F)
    BY GoodIsKept, ReclaimAll
  <2>3. got.addr = NULL /\ got.mem = slab_allocators_reclaim(m, caches)
    BY <2>1
  <2>. QED BY <2>2, <2>3 DEF BlockAsked
<1>. QED BY <1>1, <1>2
-----------------------------------------------------------------------------
(* TakeObject                                                               *)
ObjectGot(hd, c, got) ==
  /\ got.addr \in Page /\ Object(c, got.addr, got.obj) \notin hd
  /\ \E F : MemGood(got.mem, hd \cup {Object(c, got.addr, got.obj)}, F)

(* A cache with a free object hands one out that nobody has.                *)
LEMMA TakeObjectGets ==
  ASSUME NEW m, NEW hd, NEW F, MemGood(m, hd, F), NEW c \in Cache, HasFree(m, c) # {},
         NEW got, got = TakeObject(m, c)
  PROVE  ObjectGot(hd, c, got)
<1>1. PICK S : S = m.sa_slabs
  OBVIOUS
<1>2. m = [group |-> m.group, sa_slabs |-> S] /\ MemOK(S, hd, F) /\ Good(m.group, F) /\ m.group.intact
  BY <1>1 DEF MemGood, IsMemory
<1>3. S \in [Cache -> Seq(SlabT)] /\ S[c] \in Seq(SlabT)
  BY <1>2 DEF MemOK, SlabsT
<1>4. PICK i \in HasFree(m, c) : i = CHOOSE n \in HasFree(m, c) : \A o \in HasFree(m, c) : n <= o
  <2> DEFINE W == HasFree(m, c)
  <2>1. W \in SUBSET Nat /\ W # {}
    <3>1. DOMAIN S[c] \subseteq Nat
      BY <1>3
    <3>. QED BY <1>1, <3>1 DEF HasFree
  <2> HIDE DEF W
  <2>2. \E n \in W : \A o \in W : n <= o
    BY <2>1, LeastElement
  <2>3. (CHOOSE n \in W : \A o \in W : n <= o) \in W
    BY <2>2
  <2>. QED BY <2>3 DEF W
<1>5. i \in DOMAIN S[c] /\ S[c][i].s_inuse < sa_slab_nobjs[c]
  BY <1>1 DEF HasFree
<1>6. PICK x : x = S[c][i]
  OBVIOUS
<1>7. x \in SlabT
  BY <1>3, <1>5, <1>6
<1>8. PICK m2 : m2 = [m EXCEPT !.sa_slabs[c][i].s_free = Tail(@), !.sa_slabs[c][i].s_inuse = @ + 1]
  OBVIOUS
<1>9. PICK o : o = Head(x.s_free)
  OBVIOUS
<1>10. got = [addr |-> x.s_addr, obj |-> o, mem |-> m2]
  BY <1>1, <1>4, <1>6, <1>8, <1>9, Zenon DEF TakeObject
<1>11. PICK y : y = [x EXCEPT !.s_free = Tail(@), !.s_inuse = @ + 1]
  OBVIOUS
<1>12. PICK S2 : S2 = [S EXCEPT ![c] = [S[c] EXCEPT ![i] = y]]
  OBVIOUS
<1>13. m2 = [group |-> m.group, sa_slabs |-> S2]
  <2>1. PICK y1 : y1 = [x EXCEPT !.s_free = Tail(@)]
    OBVIOUS
  <2>2. y = [y1 EXCEPT !.s_inuse = @ + 1]
    BY <1>11, <2>1, <1>7 DEF SlabT
  <2>3. PICK m1 : m1 = [m EXCEPT !.sa_slabs[c][i].s_free = Tail(@)]
    OBVIOUS
  <2>4. m2 = [m1 EXCEPT !.sa_slabs[c][i].s_inuse = @ + 1]
    BY <1>8, <2>3
  <2>5. PICK L1 : L1 = [S[c] EXCEPT ![i] = y1]
    OBVIOUS
  <2>6. PICK S1 : S1 = [S EXCEPT ![c] = L1]
    OBVIOUS
  <2>7. PICK G : G = m.group
    OBVIOUS
  <2>8. m = [group |-> G, sa_slabs |-> S]
    BY <1>2, <2>7
  <2>9. m1 = [group |-> G, sa_slabs |-> S1]
    BY <1>6, <2>1, <2>3, <2>5, <2>6, <2>8
  <2>10. m2 = [group |-> G, sa_slabs |-> [S1 EXCEPT ![c][i].s_inuse = @ + 1]]
    BY <2>4, <2>9
  <2>11. S1[c] = L1 /\ L1[i] = y1
    BY <1>3, <1>5, <2>5, <2>6
  <2>12. [S1 EXCEPT ![c][i].s_inuse = @ + 1] = [S1 EXCEPT ![c] = [L1 EXCEPT ![i] = y]]
    BY <2>2, <2>11
  <2>13. [L1 EXCEPT ![i] = y] = [S[c] EXCEPT ![i] = y]
    BY <1>3, <1>5, <2>5
  <2>14. [S1 EXCEPT ![c] = [S[c] EXCEPT ![i] = y]] = S2
    BY <1>3, <1>12, <2>6
  <2>. QED BY <2>10, <2>12, <2>13, <2>7, <2>14
<1>14. Takes(S, hd, F, c, i, o, y, S2)
  BY <1>2, <1>5, <1>6, <1>9, <1>11, <1>12 DEF Takes
<1>15. /\ MemOK(S2, hd \cup {Object(c, x.s_addr, o)}, F)
       /\ Object(c, x.s_addr, o) \notin hd /\ x.s_addr \in Page
  BY <1>6, <1>14, ObjectTaken
<1>16. got.addr = x.s_addr /\ got.obj = o /\ got.mem = m2
  BY <1>10
<1>17. m2.group = m.group /\ m2.sa_slabs = S2
  BY <1>13
<1>18. MemGood(m2, hd \cup {Object(c, x.s_addr, o)}, F)
  BY <1>2, <1>13, <1>15, <1>17 DEF MemGood, IsMemory
<1>. QED BY <1>15, <1>16, <1>18 DEF ObjectGot

(* slab_allocator_grow                                                      *)
LEMMA GrownHasFree ==
  ASSUME NEW m, NEW m0, NEW hd, NEW F, MemOK(m0.sa_slabs, hd, F), NEW c \in Cache, NEW a \in Page,
         IsMemory(m), m.sa_slabs = m0.sa_slabs, m.group.intact,
         Aligned(a, sa_order[c]), Block(a, sa_order[c]) \subseteq F,
         Good(m.group, F \ Block(a, sa_order[c])),
         NEW m2, m2 = slab_allocator_grow(m, c, a)
  PROVE  MemGood(m2, hd, F \ Block(a, sa_order[c])) /\ HasFree(m2, c) # {}
<1>1. PICK S : S = m.sa_slabs
  OBVIOUS
<1>2. S \in [Cache -> Seq(SlabT)] /\ S[c] \in Seq(SlabT) /\ MemOK(S, hd, F)
  BY <1>1 DEF MemOK, SlabsT
<1>3. PICK n \in Nat \ {0} : n = sa_slab_nobjs[c]
  BY CacheFacts
<1>4. PICK l : l = [i \in 1 .. n |-> i]
  OBVIOUS
<1>5. l \in Seq(Nat) /\ ToSet(l) = 1 .. n /\ IsInjective(l)
  <2>1. DOMAIN l = 1 .. n /\ \A i \in 1 .. n : l[i] = i
    BY <1>4
  <2>2. l \in Seq(Nat)
    BY <1>4
  <2>3. ToSet(l) = 1 .. n
    BY <2>1 DEF ToSet
  <2>4. IsInjective(l)
    BY <2>1 DEF IsInjective
  <2>. QED BY <2>2, <2>3, <2>4
<1>6. PICK x : x = NewSlab(a, n)
  OBVIOUS
<1>7. x = [s_addr |-> a, s_inuse |-> 0, s_free |-> l]
  BY <1>4, <1>6 DEF NewSlab
<1>8. x \in SlabT /\ x.s_addr = a /\ x.s_inuse = 0 /\ x.s_free = l
  BY <1>5, <1>7 DEF SlabT
<1>9. SlabOK(c, x, {})
  BY <1>3, <1>5, <1>8, FS_EmptySet DEF SlabOK
<1>10. PICK L : L = <<x>> \o S[c]
  OBVIOUS
<1>11. Insert(S[c], 1, x, L) /\ L # <<>>
  BY <1>2, <1>8, <1>10, PushSlab
<1>12. PICK S2 : S2 = [S EXCEPT ![c] = L]
  OBVIOUS
<1>13. m2 = [group |-> m.group, sa_slabs |-> S2]
  <2>1. PICK G : G = m.group
    OBVIOUS
  <2>2. m = [group |-> G, sa_slabs |-> S]
    BY <1>1, <2>1 DEF IsMemory
  <2>3. m2 = [m EXCEPT !.sa_slabs[c] = <<x>> \o @]
    BY <1>3, <1>6 DEF slab_allocator_grow
  <2>4. m2 = [group |-> G, sa_slabs |-> S2]
    BY <1>10, <1>12, <2>2, <2>3
  <2>. QED BY <2>1, <2>4
<1>14. m2.group = m.group /\ m2.sa_slabs = S2 /\ S2[c] = L /\ \A d \in Cache : d # c => S2[d] = S[d]
  BY <1>2, <1>12, <1>13
<1>15. L \in Seq(SlabT) /\ S2 \in [Cache -> Seq(SlabT)]
  BY <1>2, <1>11, <1>12 DEF Insert
<1>16. More(S, c, x, S2)
  BY <1>2, <1>11, <1>14, <1>15 DEF More
<1>17. Grows(S, hd, F, c, x, S2)
  BY <1>2, <1>8, <1>9, <1>16 DEF Grows
<1>18. MemOK(S2, hd, F \ Block(a, sa_order[c]))
  BY <1>8, <1>17, SlabGrown
<1>19. MemGood(m2, hd, F \ Block(a, sa_order[c]))
  BY <1>13, <1>14, <1>18 DEF MemGood, IsMemory
<1>20. HasFree(m2, c) # {}
  <2>1. 1 \in DOMAIN L /\ L[1] = x
    <3>1. DOMAIN L = 1 .. Len(L) /\ Len(L) \in Nat /\ Len(L) # 0
      BY <1>11, <1>15
    <3>2. L[1] = x
      BY <1>11 DEF Insert
    <3>. QED BY <3>1, <3>2
  <2>2. L[1].s_inuse < sa_slab_nobjs[c]
    BY <1>3, <1>8, <2>1
  <2>. QED BY <1>14, <2>1, <2>2 DEF HasFree
<1>. QED BY <1>19, <1>20

(* slab_obj_alloc                                                           *)
LEMMA SlabObjAllocGets ==
  ASSUME NEW m, NEW hd, NEW F, MemGood(m, hd, F), NEW caches \in Seq(Cache), NEW c \in Cache,
         NEW got, got = slab_obj_alloc(m, caches, c)
  PROVE  \/ got.addr = NULL /\ Kept(got.mem, hd, F)
         \/ ObjectGot(hd, c, got)
<1>1. CASE HasFree(m, c) # {}
  <2>1. got = TakeObject(m, c)
    BY <1>1 DEF slab_obj_alloc
  <2>. QED BY <1>1, <2>1, TakeObjectGets
<1>2. CASE HasFree(m, c) = {}
  <2>1. PICK b : b = alloc_block(m, caches, sa_order[c])
    OBVIOUS
  <2>2. BlockAsked(m, hd, F, sa_order[c], b)
    BY <2>1, CacheFacts, AllocBlock
  <2>3. CASE b.addr = NULL
    <3>1. got = [addr |-> NULL, obj |-> 0, mem |-> b.mem]
      BY <1>2, <2>1, <2>3 DEF slab_obj_alloc
    <3>2. b.addr \notin Page
      BY <2>3 DEF NULL, Page
    <3>3. Kept(b.mem, hd, F)
      BY <2>2, <3>2 DEF BlockAsked
    <3>4. got.addr = NULL /\ got.mem = b.mem
      BY <3>1
    <3>. QED BY <3>3, <3>4
  <2>4. CASE b.addr # NULL
    <3>1. got = TakeObject(slab_allocator_grow(b.mem, c, b.addr), c)
      BY <1>2, <2>1, <2>4 DEF slab_obj_alloc
    <3>2. PICK m2 : m2 = slab_allocator_grow(b.mem, c, b.addr)
      OBVIOUS
    <3>3. /\ b.addr \in Page /\ Aligned(b.addr, sa_order[c]) /\ Block(b.addr, sa_order[c]) \subseteq F
          /\ IsMemory(b.mem) /\ b.mem.sa_slabs = m.sa_slabs
          /\ Good(b.mem.group, F \ Block(b.addr, sa_order[c])) /\ b.mem.group.intact
      BY <2>2, <2>4 DEF BlockAsked
    <3>4. MemOK(m.sa_slabs, hd, F)
      BY DEF MemGood
    <3>5. MemGood(m2, hd, F \ Block(b.addr, sa_order[c])) /\ HasFree(m2, c) # {}
      BY <3>2, <3>3, <3>4, GrownHasFree
    <3>. QED BY <3>1, <3>2, <3>5, TakeObjectGets
  <2>. QED BY <2>3, <2>4
<1>. QED BY <1>1, <1>2
-----------------------------------------------------------------------------
(* While the lists are intact, everything is accounted for.                 *)
InvOf(m, hd) ==
  /\ m.group \in GroupT
  /\ m.group.intact => MemGood(m, hd, FreePages(m.group))
KmemInv == slab_allocators \in Seq(Cache) /\ InvOf(Memory, held)

(* What a call does: the memory after it, and what the callers have then    *)
Outcome(m, hd, hd2, F0) ==
  /\ IsMemory(m) /\ InvOf(m, hd2)
  /\ ~m.group.intact => \E p \in FreePages(m.group) \ F0 : InTail(p)
  /\ \/ hd2 = hd
     \/ m.group.intact /\ \E h : h \notin hd /\ hd2 = hd \cup {h}
     \/ \E h \in hd : hd2 = hd \ {h}

(* Sound memory satisfies the invariant.                                    *)
LEMMA GoodInv ==
  ASSUME NEW m, NEW hd, NEW F, MemGood(m, hd, F)
  PROVE  IsMemory(m) /\ InvOf(m, hd) /\ FreePages(m.group) = F /\ m.group.intact
<1>1. Covered(m.group.pg_freelist) = F /\ m.group \in GroupT
  BY GoodCovers DEF MemGood
<1>2. FreePages(m.group) = F
  BY <1>1, FreePagesAre
<1>. QED BY <1>1, <1>2 DEF InvOf, MemGood

(* A call that only reclaimed leaves its caller with what he had.           *)
LEMMA KeptInv ==
  ASSUME NEW m, NEW hd, NEW F0, Kept(m, hd, F0)
  PROVE  Outcome(m, hd, hd, F0)
<1>1. FreePages(m.group) = Covered(m.group.pg_freelist)
  BY FreePagesAre
<1>. QED BY <1>1 DEF Kept, Outcome, InvOf

(* A call that got an object leaves its caller with one object more.        *)
LEMMA GotOutcome ==
  ASSUME NEW hd, NEW F0, NEW c, NEW got, ObjectGot(hd, c, got)
  PROVE  Outcome(got.mem, hd, hd \cup {Object(c, got.addr, got.obj)}, F0)
<1>1. PICK h : h = Object(c, got.addr, got.obj)
  OBVIOUS
<1>2. PICK hd2 : hd2 = hd \cup {h}
  OBVIOUS
<1>3. PICK F : MemGood(got.mem, hd2, F)
  BY <1>1, <1>2 DEF ObjectGot
<1>4. h \notin hd
  BY <1>1 DEF ObjectGot
<1>5. IsMemory(got.mem) /\ InvOf(got.mem, hd2) /\ got.mem.group.intact
  BY <1>3, GoodInv
<1>6. Outcome(got.mem, hd, hd2, F0)
  BY <1>2, <1>4, <1>5 DEF Outcome
<1>. QED BY <1>1, <1>2, <1>6
-----------------------------------------------------------------------------
(* The calls                                                                *)
LEMMA ObjectAllocated ==
  ASSUME NEW m, NEW hd, NEW F, MemGood(m, hd, F), NEW caches \in Seq(Cache), NEW c \in Cache,
         NEW got, got = slab_obj_alloc(m, caches, c),
         NEW hd2, hd2 = IF got.addr = NULL THEN hd ELSE hd \cup {Object(c, got.addr, got.obj)}
  PROVE  Outcome(got.mem, hd, hd2, F)
<1>1. \/ got.addr = NULL /\ Kept(got.mem, hd, F)
      \/ ObjectGot(hd, c, got)
  BY SlabObjAllocGets
<1>2. CASE got.addr = NULL
  <2>1. got.addr \notin Page
    BY <1>2 DEF NULL, Page
  <2>2. Kept(got.mem, hd, F)
    BY <1>1, <2>1 DEF ObjectGot
  <2>. QED BY <1>2, <2>2, KeptInv
<1>3. CASE got.addr # NULL
  <2>1. ObjectGot(hd, c, got)
    BY <1>1, <1>3
  <2>. QED BY <1>3, <2>1, GotOutcome
<1>. QED BY <1>2, <1>3

(* page_alloc_n.                                                            *)
LEMMA PagesAllocated ==
  ASSUME NEW m, NEW hd, NEW F, MemGood(m, hd, F), NEW caches \in Seq(Cache), NEW order \in Order,
         NEW got, got = alloc_block(m, caches, order),
         NEW hd2, hd2 = IF got.addr = NULL THEN hd ELSE hd \cup {Pages(got.addr, order)}
  PROVE  Outcome(got.mem, hd, hd2, F)
<1>1. BlockAsked(m, hd, F, order, got)
  BY AllocBlock
<1>2. CASE got.addr = NULL
  <2>1. got.addr \notin Page
    BY <1>2 DEF NULL, Page
  <2>2. Kept(got.mem, hd, F)
    BY <1>1, <2>1 DEF BlockAsked
  <2>. QED BY <1>2, <2>2, KeptInv
<1>3. CASE got.addr # NULL
  <2>1. PICK a, n : a = got.addr /\ n = got.mem
    OBVIOUS
  <2>2. /\ a \in Page /\ Aligned(a, order) /\ Block(a, order) \subseteq F
        /\ IsMemory(n) /\ n.sa_slabs = m.sa_slabs
        /\ Good(n.group, F \ Block(a, order)) /\ n.group.intact
    BY <1>1, <1>3, <2>1 DEF BlockAsked
  <2>3. hd2 = hd \cup {Pages(a, order)}
    BY <1>3, <2>1
  <2>4. Asks(m.sa_slabs, hd, F, a, order, hd2)
    BY <2>2, <2>3 DEF Asks, MemGood
  <2>5. MemOK(m.sa_slabs, hd2, F \ Block(a, order)) /\ Pages(a, order) \notin hd
    BY <2>4, PagesTaken
  <2>6. MemGood(n, hd2, F \ Block(a, order))
    BY <2>2, <2>5 DEF MemGood
  <2>7. IsMemory(n) /\ InvOf(n, hd2) /\ n.group.intact
    BY <2>6, GoodInv
  <2>. QED BY <2>1, <2>3, <2>5, <2>7 DEF Outcome
<1>. QED BY <1>2, <1>3

(* slab_obj_free and kfree.                                                 *)
LEMMA ObjectFreed ==
  ASSUME NEW m, NEW hd, NEW F, MemGood(m, hd, F), NEW h \in hd, h.kind = "object",
         NEW m2, m2 = obj_free(m, h.cache, h.addr, h.obj)
  PROVE  Outcome(m2, hd, hd \ {h}, F)
<1>1. PICK G, S : G = m.group /\ S = m.sa_slabs
  OBVIOUS
<1>2. m = [group |-> G, sa_slabs |-> S] /\ MemOK(S, hd, F) /\ Good(G, F) /\ G.intact
  BY <1>1 DEF MemGood, IsMemory
<1>3. PICK c, a, o : c = h.cache /\ a = h.addr /\ o = h.obj
  OBVIOUS
<1>4. PICK L : L = Returned(S[c], a, o)
  OBVIOUS
<1>5. PICK S2 : S2 = [S EXCEPT ![c] = L]
  OBVIOUS
<1>6. m2 = [m EXCEPT !.sa_slabs[c] = L]
  BY <1>1, <1>3, <1>4, Zenon DEF obj_free, Returned
<1>7. m2 = [group |-> G, sa_slabs |-> S2]
  BY <1>2, <1>5, <1>6
<1>8. m2.group = G /\ m2.sa_slabs = S2 /\ IsMemory(m2)
  BY <1>7 DEF IsMemory
<1>9. PICK hd2 : hd2 = hd \ {h}
  OBVIOUS
<1>10. Returns(S, hd, F, h, S2, hd2)
  BY <1>2, <1>3, <1>4, <1>5, <1>9 DEF Returns
<1>11. MemOK(S2, hd2, F)
  BY <1>10, ObjectBack
<1>12. MemGood(m2, hd2, F)
  BY <1>2, <1>8, <1>11 DEF MemGood
<1>13. InvOf(m2, hd2) /\ m2.group.intact
  BY <1>12, GoodInv
<1>. QED BY <1>8, <1>9, <1>13 DEF Outcome

(* page_free_n, which may break the lists by a block of the tail.           *)
LEMMA PagesFreed ==
  ASSUME NEW m, NEW hd, NEW F, MemGood(m, hd, F), NEW h \in hd, h.kind = "pages",
         NEW m2, IsMemory(m2), m2.sa_slabs = m.sa_slabs,
         m2.group = page_free_order(m.group, h.addr, h.order)
  PROVE  Outcome(m2, hd, hd \ {h}, F)
<1>1. PICK G, S : G = m.group /\ S = m.sa_slabs
  OBVIOUS
<1>2. MemOK(S, hd, F) /\ Good(G, F) /\ G.intact /\ m2.sa_slabs = S
  BY <1>1 DEF MemGood, IsMemory
<1>3. PICK a, n, h2 : a = h.addr /\ n = h.order /\ h2 = m2.group
  OBVIOUS
<1>4. PICK hd2 : hd2 = hd \ {h}
  OBVIOUS
<1>5. GivesBack(S, hd, F, h, hd2)
  BY <1>2, <1>4 DEF GivesBack
<1>6. /\ MemOK(S, hd2, F \cup Block(a, n)) /\ a \in Page /\ n \in Order /\ Aligned(a, n)
      /\ Block(a, n) \subseteq Page /\ Block(a, n) \cap F = {}
  BY <1>3, <1>5, PagesBack
<1>7. h2 = page_free_order(G, a, n)
  BY <1>1, <1>3
<1>8. FreesGood(G, F, a, n)
  BY <1>2, <1>6 DEF FreesGood
<1>9. /\ h2.intact => Good(h2, F \cup Block(a, n))
      /\ ~h2.intact => InTail(a)
  BY <1>7, <1>8, PageFreeGood
<1>10. Covered(G.pg_freelist) = F /\ G \in GroupT
  BY <1>2, GoodCovers
<1>11. h2 \in GroupT /\ F \cup (Block(a, n) \cap Page) \subseteq FreePages(h2)
  <2>1. FreesBlock(G, a, n, h2)
    BY <1>6, <1>7, <1>10 DEF FreesBlock
  <2>. QED BY <1>10, <2>1, PageFreeTyped, FreePagesAre
<1>12. a \in FreePages(h2) \ F
  <2>1. a \in Block(a, n)
    BY <1>6, BlockFacts, OrderFacts
  <2>. QED BY <1>6, <1>11, <2>1
<1>13. h2.intact => MemGood(m2, hd2, FreePages(h2))
  <2> SUFFICES ASSUME h2.intact PROVE MemGood(m2, hd2, FreePages(h2))
    OBVIOUS
  <2>1. Good(h2, F \cup Block(a, n))
    BY <1>9
  <2>2. MemGood(m2, hd2, F \cup Block(a, n))
    BY <1>2, <1>3, <1>6, <2>1 DEF MemGood
  <2>3. FreePages(m2.group) = F \cup Block(a, n)
    BY <2>2, GoodInv
  <2>. QED BY <1>3, <2>2, <2>3
<1>14. InvOf(m2, hd2)
  BY <1>3, <1>11, <1>13 DEF InvOf
<1>. QED BY <1>3, <1>4, <1>9, <1>12, <1>14 DEF Outcome
-----------------------------------------------------------------------------
(* A new cache is listed.                                                   *)
LEMMA CachePushed ==
  ASSUME NEW caches \in Seq(Cache), NEW c \in Cache
  PROVE  AddCache(caches, c) \in Seq(Cache)
BY DEF AddCache

(* The two parts of the memory, before a step and after it.                 *)
LEMMA MemoryIs ==
  /\ Memory.group = group /\ Memory.sa_slabs = sa_slabs /\ IsMemory(Memory)
  /\ Memory'.group = group' /\ Memory'.sa_slabs = sa_slabs' /\ IsMemory(Memory')
BY DEF Memory, IsMemory

(* What a call computes is the memory after it.                             *)
LEMMA BecomesMemory ==
  ASSUME NEW m, IsMemory(m), Becomes(m)
  PROVE  Memory' = m
BY DEF Becomes, Memory, IsMemory

(* slab_obj_alloc as a step.                                                *)
LEMMA ObjAllocStep ==
  ASSUME KmemInv, group.intact, NEW c \in Cache, ObjAlloc(c)
  PROVE  Outcome(Memory', held, held', FreePages(group))
<1>1. PICK m, F : m = Memory /\ F = FreePages(group)
  OBVIOUS
<1>2. MemGood(m, held, F) /\ slab_allocators \in Seq(Cache)
  BY <1>1, MemoryIs DEF KmemInv, InvOf
<1>3. PICK got : got = slab_obj_alloc(m, slab_allocators, c)
  OBVIOUS
<1>4. /\ Becomes(got.mem)
      /\ held' = IF got.addr = NULL THEN held ELSE held \cup {Object(c, got.addr, got.obj)}
  BY <1>1, <1>3 DEF ObjAlloc
<1>5. Outcome(got.mem, held, held', F)
  BY <1>2, <1>3, <1>4, ObjectAllocated
<1>6. Memory' = got.mem
  BY <1>4, <1>5, BecomesMemory DEF Outcome
<1>. QED BY <1>1, <1>5, <1>6

(* What each step of the allocators does                                    *)
LEMMA StepOutcome ==
  ASSUME KmemInv, KmemNext
  PROVE  /\ group.intact /\ slab_allocators' \in Seq(Cache)
         /\ Outcome(Memory', held, held', FreePages(group))
<1>1. PICK m, F : m = Memory /\ F = FreePages(group)
  OBVIOUS
<1>2. ASSUME group.intact PROVE MemGood(m, held, F)
  BY <1>1, <1>2, MemoryIs DEF KmemInv, InvOf
<1>3. slab_allocators \in Seq(Cache) /\ m.group = group /\ m.sa_slabs = sa_slabs /\ IsMemory(m)
  BY <1>1, MemoryIs DEF KmemInv
<1>4. ASSUME NEW asked \in NPagesAsked, page_alloc_n(asked)
      PROVE  /\ group.intact /\ slab_allocators' \in Seq(Cache)
             /\ Outcome(Memory', held, held', F)
  <2>1. PICK order, got : order = OrderOf(asked) /\ got = alloc_block(m, slab_allocators, order)
    OBVIOUS
  <2>2. /\ group.intact /\ Becomes(got.mem) /\ slab_allocators' = slab_allocators
        /\ held' = IF got.addr = NULL THEN held ELSE held \cup {Pages(got.addr, order)}
    BY <1>1, <1>4, <2>1 DEF page_alloc_n, CanAsk
  <2>3. order \in Order
    BY <2>1, OrderOfIs
  <2>4. Outcome(got.mem, held, held', F)
    BY <1>2, <1>3, <2>1, <2>2, <2>3, PagesAllocated
  <2>5. Memory' = got.mem
    BY <2>2, <2>4, BecomesMemory DEF Outcome
  <2>. QED BY <1>3, <2>2, <2>4, <2>5
<1>5. ASSUME NEW c \in Cache, SlabObjAlloc(c)
      PROVE  /\ group.intact /\ slab_allocators' \in Seq(Cache)
             /\ Outcome(Memory', held, held', F)
  <2>1. group.intact /\ slab_allocators' = slab_allocators /\ ObjAlloc(c)
    BY <1>5 DEF SlabObjAlloc, ObjAlloc, CanAsk
  <2>. QED BY <1>1, <1>3, <2>1, ObjAllocStep
<1>6. ASSUME NEW c \in Cache, slab_allocator_create(c)
      PROVE  /\ group.intact /\ slab_allocators' \in Seq(Cache)
             /\ Outcome(Memory', held, held', F)
  <2>1. PICK got : got = slab_obj_alloc(m, slab_allocators, Self)
    OBVIOUS
  <2>2. /\ group.intact /\ Becomes(got.mem)
        /\ IF got.addr = NULL
           THEN UNCHANGED <<held, slab_allocators>>
           ELSE /\ held' = held \cup {Object(Self, got.addr, got.obj)}
                /\ slab_allocators' = AddCache(slab_allocators, c)
    BY <1>1, <1>6, <2>1 DEF slab_allocator_create, CanAsk
  <2>3. /\ held' = IF got.addr = NULL THEN held ELSE held \cup {Object(Self, got.addr, got.obj)}
        /\ slab_allocators' = slab_allocators \/ slab_allocators' = AddCache(slab_allocators, c)
    BY <2>2
  <2>4. slab_allocators' \in Seq(Cache)
    BY <1>3, <2>3, CachePushed
  <2>5. Self \in Cache
    BY SlabAssumption
  <2>6. Outcome(got.mem, held, held', F)
    BY <1>2, <1>3, <2>1, <2>2, <2>3, <2>5, ObjectAllocated
  <2>7. Memory' = got.mem
    BY <2>2, <2>6, BecomesMemory DEF Outcome
  <2>. QED BY <2>2, <2>4, <2>6, <2>7
<1>7. ASSUME NEW size \in KmallocSizes, kmalloc(size)
      PROVE  /\ group.intact /\ slab_allocators' \in Seq(Cache)
             /\ Outcome(Memory', held, held', F)
  <2>1. PICK i \in DOMAIN kmalloc_allocators : ObjAlloc(kmalloc_allocators[i])
    BY <1>7 DEF kmalloc
  <2>2. kmalloc_allocators[i] \in Cache
    BY SlabAssumption
  <2>3. group.intact
    BY <2>1 DEF ObjAlloc, CanAsk
  <2>4. slab_allocators' = slab_allocators
    BY <1>7 DEF kmalloc
  <2>. QED BY <1>1, <1>3, <2>1, <2>2, <2>3, <2>4, ObjAllocStep
<1>8. ASSUME NEW h \in held, page_free_n(h)
      PROVE  /\ group.intact /\ slab_allocators' \in Seq(Cache)
             /\ Outcome(Memory', held, held', F)
  <2>1. /\ group.intact /\ h.kind = "pages" /\ group' = page_free_order(group, h.addr, h.order)
        /\ held' = held \ {h} /\ slab_allocators' = slab_allocators /\ sa_slabs' = sa_slabs
    BY <1>8 DEF page_free_n
  <2>2. PICK m2 : m2 = Memory'
    OBVIOUS
  <2>3. IsMemory(m2) /\ m2.sa_slabs = m.sa_slabs /\ m2.group = page_free_order(m.group, h.addr, h.order)
    BY <1>3, <2>1, <2>2, MemoryIs
  <2>4. Outcome(m2, held, held \ {h}, F)
    BY <1>2, <2>1, <2>3, PagesFreed
  <2>. QED BY <1>3, <2>1, <2>2, <2>4
<1>9. ASSUME NEW h \in held, SlabObjFree(h)
      PROVE  /\ group.intact /\ slab_allocators' \in Seq(Cache)
             /\ Outcome(Memory', held, held', F)
  <2>1. PICK m2 : m2 = obj_free(m, h.cache, h.addr, h.obj)
    OBVIOUS
  <2>2. /\ group.intact /\ h.kind = "object" /\ Becomes(m2)
        /\ held' = held \ {h} /\ slab_allocators' = slab_allocators
    BY <1>1, <1>9, <2>1 DEF SlabObjFree
  <2>3. Outcome(m2, held, held \ {h}, F)
    BY <1>2, <2>1, <2>2, ObjectFreed
  <2>4. Memory' = m2
    BY <2>2, <2>3, BecomesMemory DEF Outcome
  <2>. QED BY <1>3, <2>2, <2>3, <2>4
<1>10. /\ group.intact /\ slab_allocators' \in Seq(Cache)
       /\ Outcome(Memory', held, held', F)
  BY <1>4, <1>5, <1>6, <1>7, <1>8, <1>9 DEF KmemNext
<1>. QED BY <1>1, <1>10
-----------------------------------------------------------------------------
(* slab_init                                                                *)
InitAt(k) ==
  /\ k.caches \in Seq(Cache) /\ \E F : MemGood(k.mem, k.held, F)

(* At first all pages are free and no cache has a slab.                     *)
LEMMA FirstMemory ==
  ASSUME NEW m, m = [group |-> pagegroup_create, sa_slabs |-> [c \in Cache |-> <<>>]]
  PROVE  MemGood(m, {}, Page)
<1>1. PICK S : S = [c \in Cache |-> <<>>]
  OBVIOUS
<1>2. m.sa_slabs = S /\ m.group = pagegroup_create /\ IsMemory(m)
  BY <1>1 DEF IsMemory
<1>3. \A c \in Cache : S[c] = <<>> /\ ToSet(S[c]) = {} /\ Distinct(S[c])
  BY <1>1 DEF ToSet, Distinct
<1>4. SlabsT(S)
  <2>1. S \in [Cache -> Seq(SlabT)]
    BY <1>1
  <2>. QED BY <1>3, <2>1 DEF SlabsT
<1>5. HeldOK({}, S)
  BY DEF HeldOK
<1>6. SlabUses(S) = {} /\ PageUses({}) = {}
  BY <1>3 DEF SlabUses, PageUses
<1>7. Tiles(SlabUses(S) \cup PageUses({}), Page \ Page)
  BY <1>6 DEF Tiles
<1>8. MemOK(S, {}, Page)
  BY <1>3, <1>4, <1>5, <1>7 DEF MemOK
<1>. QED BY <1>2, <1>8, CreateGood DEF MemGood

(* slab_init ends with sound memory.                                        *)
LEMMA InitInv ==
  /\ slab_init.caches \in Seq(Cache)
  /\ \E F : MemGood(slab_init.mem, slab_init.held, F)
<1>1. PICK n : n = Len(kmalloc_allocators)
  OBVIOUS
<1>2. n \in Nat /\ \A i \in 1 .. n : kmalloc_allocators[i] \in Cache
  BY <1>1, SlabAssumption
<1>3. PICK S : S = [mem |-> [group |-> pagegroup_create, sa_slabs |-> [c \in Cache |-> <<>>]],
                    caches |-> AddCache(<<>>, Self), held |-> {}]
  OBVIOUS
<1> DEFINE at == CHOOSE f : f = [i \in 0 .. n |-> IF i = 0 THEN S
                                                  ELSE CreateBucket(f[i - 1], kmalloc_allocators[i])]
<1>4. slab_init = at[n]
  BY <1>1, <1>3, Zenon DEF slab_init, Iterate
<1>5. at = CHOOSE f : IsLoop(5, 0, f, S, 0, n)
  BY DEF IsLoop, StepOf
<1> HIDE DEF at
<1>6. Turns(5, 0, at, S, 0, n)
  BY <1>2, <1>5, LoopTurns
<1>7. at[0] = S /\ \A i \in 0 .. (n - 1) : at[i + 1] = CreateBucket(at[i], kmalloc_allocators[i + 1])
  BY <1>6 DEF Turns, StepOf
<1>8. ASSUME NEW i \in 0 .. (n - 1), NEW got, got = slab_obj_alloc(at[i].mem, at[i].caches, Self)
      PROVE  /\ at[i + 1].mem = got.mem
             /\ at[i + 1].caches = AddCache(at[i].caches, kmalloc_allocators[i + 1])
             /\ at[i + 1].held = at[i].held \cup {Object(Self, got.addr, got.obj)}
  <2>1. at[i + 1] = CreateBucket(at[i], kmalloc_allocators[i + 1])
    BY <1>7
  <2>. QED BY <1>8, <2>1 DEF CreateBucket
(* The bucket of every turn is still there at the end.                      *)
<1>9. \A i \in 0 .. n : at[i].held \subseteq slab_init.held
  <2> SUFFICES ASSUME NEW i \in 0 .. n PROVE at[i].held \subseteq slab_init.held
    OBVIOUS
  <2> DEFINE T == {k \in i .. n : at[i].held \subseteq at[k].held}
  <2>1. i \in T
    BY <1>2
  <2>2. ASSUME NEW k \in i .. (n - 1), k \in T PROVE k + 1 \in T
    <3>1. k \in 0 .. (n - 1) /\ k + 1 \in i .. n
      BY <1>2
    <3>2. at[k].held \subseteq at[k + 1].held
      BY <1>8, <3>1
    <3>. QED BY <2>2, <3>1, <3>2
  <2>3. \A k \in i .. n : k \in T
    <3> HIDE DEF T
    <3>1. i \in Nat /\ n \in Nat
      BY <1>2
    <3>. QED BY <2>1, <2>2, <3>1, RangeInduction
  <2>. QED BY <1>2, <1>4, <2>3
<1> DEFINE T == {i \in 0 .. n : InitAt(at[i])}
<1>10. 0 \in T
  <2>1. PICK m : m = [group |-> pagegroup_create, sa_slabs |-> [c \in Cache |-> <<>>]]
    OBVIOUS
  <2>2. S.mem = m /\ S.caches = AddCache(<<>>, Self) /\ S.held = {}
    BY <1>3, <2>1
  <2>3. AddCache(<<>>, Self) \in Seq(Cache)
    <3>1. Self \in Cache /\ <<>> \in Seq(Cache)
      BY SlabAssumption
    <3>. QED BY <3>1, CachePushed
  <2>4. MemGood(m, {}, Page)
    BY <2>1, FirstMemory
  <2>5. InitAt(S)
    BY <2>2, <2>3, <2>4 DEF InitAt
  <2>. QED BY <1>2, <1>7, <2>5
<1>11. ASSUME NEW i \in 0 .. (n - 1), i \in T PROVE i + 1 \in T
  <2>1. i + 1 \in 0 .. n /\ i + 1 \in 1 .. n /\ kmalloc_allocators[i + 1] \in Cache
    BY <1>2
  <2>2. PICK k : k = at[i]
    OBVIOUS
  <2>3. k.caches \in Seq(Cache) /\ \E F : MemGood(k.mem, k.held, F)
    BY <1>11, <2>2 DEF InitAt
  <2>4. PICK F : MemGood(k.mem, k.held, F)
    BY <2>3
  <2>5. PICK got : got = slab_obj_alloc(k.mem, k.caches, Self)
    OBVIOUS
  <2>6. PICK h : h = Object(Self, got.addr, got.obj)
    OBVIOUS
  <2>7. /\ at[i + 1].mem = got.mem
        /\ at[i + 1].caches = AddCache(k.caches, kmalloc_allocators[i + 1])
        /\ at[i + 1].held = k.held \cup {h}
    BY <1>8, <2>2, <2>5, <2>6
  <2>8. h \in slab_init.held
    BY <1>9, <2>1, <2>7
  <2>9. got.addr # NULL
    <3>1. h.addr = got.addr
      BY <2>6, ObjectFields
    <3>. QED BY <2>8, <3>1, SlabInitAssumption
  <2>10. ObjectGot(k.held, Self, got)
    <3>1. Self \in Cache
      BY SlabAssumption
    <3>2. \/ got.addr = NULL /\ Kept(got.mem, k.held, F)
          \/ ObjectGot(k.held, Self, got)
      BY <2>3, <2>4, <2>5, <3>1, SlabObjAllocGets
    <3>. QED BY <2>9, <3>2
  <2>11. \E G : MemGood(at[i + 1].mem, at[i + 1].held, G)
    BY <2>6, <2>7, <2>10 DEF ObjectGot
  <2>12. at[i + 1].caches \in Seq(Cache)
    BY <2>1, <2>3, <2>7, CachePushed
  <2>. QED BY <2>1, <2>11, <2>12 DEF InitAt
<1>12. n \in T
  <2>1. \A i \in 0 .. n : i \in T
    <3> HIDE DEF T
    <3>. QED BY <1>2, <1>10, <1>11, RangeInduction
  <2>. QED BY <1>2, <2>1
<1>. QED BY <1>4, <1>12 DEF InitAt
-----------------------------------------------------------------------------
(* So do the initial states.                                                *)
LEMMA KmemStarts ==
  ASSUME KmemInit
  PROVE  KmemInv /\ group.intact /\ MemGood(Memory, held, FreePages(group))
<1>1. /\ group = slab_init.mem.group /\ sa_slabs = slab_init.mem.sa_slabs
      /\ slab_allocators = slab_init.caches /\ held = slab_init.held
  BY DEF KmemInit
<1>2. PICK F : MemGood(slab_init.mem, slab_init.held, F)
  BY InitInv
<1>3. PICK m : m = slab_init.mem
  OBVIOUS
<1>4. Memory = m
  BY <1>1, <1>2, <1>3, MemoryIs DEF MemGood, IsMemory, Memory
<1>5. InvOf(m, held) /\ FreePages(m.group) = F /\ m.group.intact /\ MemGood(m, held, F)
  BY <1>1, <1>2, <1>3, GoodInv
<1>. QED BY <1>1, <1>3, <1>4, <1>5, InitInv DEF KmemInv

(* Every call keeps the invariant.                                          *)
LEMMA KmemSteps ==
  ASSUME KmemInv, [KmemNext]_kmemVars
  PROVE  KmemInv'
<1>1. CASE KmemNext
  <2>1. slab_allocators' \in Seq(Cache) /\ InvOf(Memory', held')
    BY <1>1, StepOutcome DEF Outcome
  <2>. QED BY <2>1 DEF KmemInv
<1>2. CASE UNCHANGED kmemVars
  <2>1. Memory' = Memory /\ held' = held /\ slab_allocators' = slab_allocators
    BY <1>2 DEF kmemVars, Memory
  <2>. QED BY <2>1 DEF KmemInv
<1>. QED BY <1>1, <1>2

(* Of every value of the constants: while no list is broken, the free       *)
(* blocks, the slabs and the pages of the callers make up the group.        *)
THEOREM KmemInductive == KmemSpec => []KmemInv
<1>1. KmemInit => KmemInv
  BY KmemStarts
<1>2. KmemInv /\ [KmemNext]_kmemVars => KmemInv'
  BY KmemSteps
<1>. QED BY <1>1, <1>2, PTL DEF KmemSpec

(* Only a block of the tail breaks the lists.                               *)
THEOREM TailBreaksOnly == KmemSpec => BrokenByTailOnly
<1>1. ASSUME KmemInv, [KmemNext]_kmemVars
      PROVE  [group.intact /\ ~group'.intact =>
                \E p \in FreePages(group') \ FreePages(group) : InTail(p)]_kmemVars
  <2>1. CASE KmemNext
    <3>1. ~Memory'.group.intact =>
             \E p \in FreePages(Memory'.group) \ FreePages(group) : InTail(p)
      BY <2>1, <1>1, StepOutcome DEF Outcome
    <3>2. Memory'.group = group'
      BY MemoryIs
    <3>. QED BY <3>1, <3>2
  <2>2. CASE UNCHANGED kmemVars
    BY <2>2
  <2>. QED BY <1>1, <2>1, <2>2
<1>2. KmemSpec => []KmemInv
  BY KmemInductive
<1>3. KmemSpec => [][KmemNext]_kmemVars
  BY PTL DEF KmemSpec
<1>. QED BY <1>1, <1>2, <1>3, PTL DEF BrokenByTailOnly
-----------------------------------------------------------------------------
(* A set with one element at most.                                          *)
LEMMA OneOrNone ==
  ASSUME NEW T, NEW x, T \subseteq {x}
  PROVE  Cardinality(T) = IF x \in T THEN 1 ELSE 0
<1>1. CASE x \in T
  <2>1. T = {x}
    BY <1>1
  <2>2. Cardinality({x}) = 1
    BY FS_Singleton
  <2>. QED BY <1>1, <2>1, <2>2
<1>2. CASE x \notin T
  <2>1. T = {}
    BY <1>2
  <2>. QED BY <1>2, <2>1, FS_EmptySet
<1>. QED BY <1>1, <1>2

(* A cache has no more slabs than there are pages.                          *)
LEMMA SlabsFit ==
  ASSUME NEW L \in Seq(SlabT), Distinct(L)
  PROVE  Len(L) <= NPages
<1>1. PICK n \in Nat : n = Len(L) /\ DOMAIN L = 1 .. n
  OBVIOUS
<1>2. PICK f : f = [i \in 1 .. n |-> L[i].s_addr]
  OBVIOUS
<1>3. f \in [1 .. n -> Page]
  <2>1. \A i \in 1 .. n : L[i] \in SlabT
    BY <1>1
  <2>. QED BY <1>2, <2>1 DEF SlabT
<1>4. \A i, j \in 1 .. n : f[i] = f[j] => i = j
  BY <1>1, <1>2 DEF Distinct
<1>5. f \in Injection(1 .. n, Page)
  <2>1. DOMAIN f = 1 .. n
    BY <1>2
  <2>2. IsInjective(f)
    BY <1>4, <2>1 DEF IsInjective
  <2>. QED BY <1>3, <2>2 DEF Injection
<1>6. /\ IsFiniteSet(1 .. n) /\ Cardinality(1 .. n) = n
      /\ IsFiniteSet(Page) /\ Cardinality(Page) = NPages
  <2>1. 1 \in Int /\ n \in Int /\ 0 \in Int /\ NPages - 1 \in Int
    OBVIOUS
  <2>2. IsFiniteSet(1 .. n) /\ Cardinality(1 .. n) = IF 1 > n THEN 0 ELSE n - 1 + 1
    BY <2>1, FS_Interval
  <2>3. IsFiniteSet(0 .. (NPages - 1))
        /\ Cardinality(0 .. (NPages - 1)) = IF 0 > NPages - 1 THEN 0 ELSE (NPages - 1) - 0 + 1
    BY <2>1, FS_Interval
  <2>4. (IF 1 > n THEN 0 ELSE n - 1 + 1) = n
        /\ (IF 0 > NPages - 1 THEN 0 ELSE (NPages - 1) - 0 + 1) = NPages
    OBVIOUS
  <2>. QED BY <2>2, <2>3, <2>4 DEF Page
<1>7. Cardinality(1 .. n) <= Cardinality(Page)
  BY <1>5, <1>6, FS_Injection
<1>. QED BY <1>1, <1>6, <1>7
-----------------------------------------------------------------------------
(* A slab by its cache and its place in the list.                           *)
LEMMA SlabsAre ==
  ASSUME NEW F, MemOK(sa_slabs, held, F), NEW x \in Slabs
  PROVE  /\ x[1] \in Cache /\ x[2] \in DOMAIN sa_slabs[x[1]] /\ x = <<x[1], x[2]>>
         /\ SlabAt(x) \in ToSet(sa_slabs[x[1]]) /\ SlabAt(x) \in SlabT
         /\ HeldOf(x) = Objects(held, x[1], SlabAt(x).s_addr)
         /\ UseOf(x[1], SlabAt(x)) \in SlabUses(sa_slabs)
<1>1. x[1] \in Cache /\ x[2] \in DOMAIN sa_slabs[x[1]] /\ x = <<x[1], x[2]>>
  BY DEF Slabs
<1>2. SlabAt(x) \in ToSet(sa_slabs[x[1]])
  BY <1>1 DEF SlabAt, ToSet
<1>3. HeldOf(x) = Objects(held, x[1], SlabAt(x).s_addr)
  BY DEF HeldOf, Objects
<1>4. SlabAt(x) \in SlabT /\ UseOf(x[1], SlabAt(x)) \in SlabUses(sa_slabs)
  BY <1>1, <1>2, UsedBlock
<1>. QED BY <1>1, <1>2, <1>3, <1>4

(* Every use of a slab is of one slab.                                      *)
LEMMA SlabOfUse ==
  ASSUME NEW F, MemOK(sa_slabs, held, F), NEW u \in SlabUses(sa_slabs)
  PROVE  \E x \in Slabs : /\ UseOf(x[1], SlabAt(x)) = u
                          /\ \A y \in Slabs : UseOf(y[1], SlabAt(y)) = u => y = x
<1>1. u \in Page \X Order \X {"slab"} \X Cache /\ u[2] = sa_order[u[4]]
  BY DEF SlabUses
<1>2. PICK c : c = u[4]
  OBVIOUS
<1>3. c \in Cache /\ sa_slabs[c] \in Seq(SlabT) /\ Distinct(sa_slabs[c])
  BY <1>1, <1>2 DEF MemOK, SlabsT
<1>4. PICK i \in DOMAIN sa_slabs[c] : sa_slabs[c][i].s_addr = u[1]
  <2>1. \E s \in ToSet(sa_slabs[c]) : s.s_addr = u[1]
    BY <1>2 DEF SlabUses
  <2>. QED BY <2>1 DEF ToSet
<1>5. i \in 1 .. NPages
  <2>1. DOMAIN sa_slabs[c] = 1 .. Len(sa_slabs[c]) /\ Len(sa_slabs[c]) \in Nat
    BY <1>3
  <2>2. Len(sa_slabs[c]) <= NPages
    BY <1>3, SlabsFit
  <2>. QED BY <1>4, <2>1, <2>2
<1>6. PICK x : x = <<c, i>>
  OBVIOUS
<1>7. x \in Slabs /\ x[1] = c /\ x[2] = i
  BY <1>3, <1>4, <1>5, <1>6 DEF Slabs
<1>8. UseOf(x[1], SlabAt(x)) = u
  <2>1. SlabAt(x).s_addr = u[1]
    BY <1>4, <1>7 DEF SlabAt
  <2>2. u = <<u[1], u[2], "slab", u[4]>>
    BY <1>1
  <2>. QED BY <1>1, <1>2, <1>7, <2>1, <2>2 DEF UseOf
<1>9. ASSUME NEW y \in Slabs, UseOf(y[1], SlabAt(y)) = u PROVE y = x
  <2>1. y[1] \in Cache /\ y[2] \in DOMAIN sa_slabs[y[1]] /\ y = <<y[1], y[2]>> /\ SlabAt(y) \in SlabT
    BY SlabsAre
  <2>2. y[1] = u[4] /\ SlabAt(y).s_addr = u[1]
    BY <1>9, <2>1, UseFacts
  <2>3. sa_slabs[c][y[2]].s_addr = sa_slabs[c][i].s_addr /\ y[2] \in DOMAIN sa_slabs[c]
    BY <1>2, <1>4, <2>1, <2>2 DEF SlabAt
  <2>4. y[2] = i
    BY <1>3, <1>4, <2>3 DEF Distinct
  <2>. QED BY <1>2, <1>6, <2>1, <2>2, <2>4
<1>. QED BY <1>7, <1>8, <1>9

(* Blocks of pages and their uses are the same.                             *)
LEMMA PagesOfUse ==
  ASSUME NEW F, MemOK(sa_slabs, held, F)
  PROVE  /\ \A h \in HeldPages : /\ PageUse(h.addr, h.order) \in PageUses(held)
                                 /\ h = Pages(h.addr, h.order) /\ h.addr \in Page /\ h.order \in Order
         /\ \A u \in PageUses(held) : /\ Pages(u[1], u[2]) \in HeldPages
                                      /\ u = PageUse(u[1], u[2])
                                      /\ Pages(u[1], u[2]).addr = u[1] /\ Pages(u[1], u[2]).order = u[2]
<1>1. ASSUME NEW h \in HeldPages
      PROVE  /\ PageUse(h.addr, h.order) \in PageUses(held)
             /\ h = Pages(h.addr, h.order) /\ h.addr \in Page /\ h.order \in Order
  <2>1. h \in held /\ h.kind = "pages"
    BY DEF HeldPages
  <2>2. h \in HeldT
    BY <2>1 DEF MemOK, HeldOK
  <2>3. h = Pages(h.addr, h.order) /\ h.addr \in Page /\ h.order \in Order
    BY <2>1, <2>2, HeldPagesAre
  <2>4. PICK a, n : a = h.addr /\ n = h.order
    OBVIOUS
  <2>5. a \in Page /\ n \in Order /\ Pages(a, n) \in held
    BY <2>1, <2>3, <2>4
  <2>6. PageUse(a, n) \in PageUses(held)
    BY <2>5, PageUseFacts DEF PageUses
  <2>. QED BY <2>3, <2>4, <2>6
<1>2. ASSUME NEW u \in PageUses(held)
      PROVE  /\ Pages(u[1], u[2]) \in HeldPages /\ u = PageUse(u[1], u[2])
             /\ Pages(u[1], u[2]).addr = u[1] /\ Pages(u[1], u[2]).order = u[2]
  <2>1. u \in Page \X Order \X {"pages"} \X {Self} /\ Pages(u[1], u[2]) \in held
    BY DEF PageUses
  <2>2. u = PageUse(u[1], u[2])
    BY <2>1 DEF PageUse
  <2>3. \A b, n : Pages(b, n).kind = "pages" /\ Pages(b, n).addr = b /\ Pages(b, n).order = n
    BY DEF Pages
  <2>. QED BY <2>1, <2>2, <2>3 DEF HeldPages
<1>. QED BY <1>1, <1>2

(* A page is in one free block, or in one slab, or with one caller.         *)
LEMMA PageInOnePlace ==
  ASSUME NEW F, Good(group, F), MemOK(sa_slabs, held, F), NEW p \in Page
  PROVE  Cardinality({b \in FreeBlocks(group) : p \in Block(b[1], b[2])})
         + Cardinality({x \in Slabs : p \in SlabPages(x)})
         + Cardinality({h \in HeldPages : p \in Block(h.addr, h.order)}) = 1
<1>1. PICK A : A = {b \in FreeBlocks(group) : p \in Block(b[1], b[2])}
  OBVIOUS
<1>2. PICK B : B = {x \in Slabs : p \in SlabPages(x)}
  OBVIOUS
<1>3. PICK C : C = {h \in HeldPages : p \in Block(h.addr, h.order)}
  OBVIOUS
<1>4. Tiles(FreeBlocks(group), F) /\ Tiles(SlabUses(sa_slabs) \cup PageUses(held), Page \ F)
  BY FreeBlocksAre DEF Good, Holds, MemOK
<1>5. PICK U : U = SlabUses(sa_slabs) \cup PageUses(held)
  OBVIOUS
<1>6. ASSUME NEW x \in B
      PROVE  /\ UseOf(x[1], SlabAt(x)) \in SlabUses(sa_slabs)
             /\ p \in Block(UseOf(x[1], SlabAt(x))[1], UseOf(x[1], SlabAt(x))[2])
  <2>1. x \in Slabs /\ p \in Block(SlabAt(x).s_addr, sa_order[x[1]])
    BY <1>2 DEF SlabPages
  <2>2. UseOf(x[1], SlabAt(x)) \in SlabUses(sa_slabs) /\ x[1] \in Cache /\ SlabAt(x) \in SlabT
    BY <2>1, SlabsAre
  <2>3. /\ UseOf(x[1], SlabAt(x))[1] = SlabAt(x).s_addr
        /\ UseOf(x[1], SlabAt(x))[2] = sa_order[x[1]]
    BY <2>2, UseFacts
  <2>. QED BY <2>1, <2>2, <2>3
<1>7. ASSUME NEW h \in C
      PROVE  /\ PageUse(h.addr, h.order) \in PageUses(held) /\ h = Pages(h.addr, h.order)
             /\ p \in Block(PageUse(h.addr, h.order)[1], PageUse(h.addr, h.order)[2])
             /\ h.addr \in Page /\ h.order \in Order
  <2>1. h \in HeldPages /\ p \in Block(h.addr, h.order)
    BY <1>3
  <2>2. PageUse(h.addr, h.order) \in PageUses(held) /\ h = Pages(h.addr, h.order)
        /\ h.addr \in Page /\ h.order \in Order
    BY <2>1, PagesOfUse
  <2>3. PageUse(h.addr, h.order)[1] = h.addr /\ PageUse(h.addr, h.order)[2] = h.order
    BY <2>2, PageUseFacts
  <2>. QED BY <2>1, <2>2, <2>3
<1>8. CASE p \in F
  <2>1. PICK b \in FreeBlocks(group) : p \in Block(b[1], b[2])
    BY <1>4, <1>8 DEF Tiles
  <2>2. A \subseteq {b} /\ b \in A
    BY <1>1, <1>4, <2>1 DEF Tiles
  <2>3. \A u \in U : p \notin Block(u[1], u[2])
    BY <1>4, <1>5, <1>8 DEF Tiles
  <2>4. B = {} /\ C = {}
    BY <1>5, <1>6, <1>7, <2>3
  <2>5. Cardinality(A) = 1 /\ Cardinality(B) = 0 /\ Cardinality(C) = 0
    BY <2>2, <2>4, OneOrNone, FS_EmptySet
  <2>. QED BY <1>1, <1>2, <1>3, <2>5
<1>9. CASE p \notin F
  <2>1. A = {}
    BY <1>1, <1>4, <1>9 DEF Tiles
  <2>2. PICK u \in U : p \in Block(u[1], u[2])
    BY <1>4, <1>5, <1>9 DEF Tiles
  <2>3. \A v \in U : p \in Block(v[1], v[2]) => v = u
    BY <1>4, <1>5, <2>2 DEF Tiles
  <2>4. CASE u \in SlabUses(sa_slabs)
    <3>1. PICK x \in Slabs : /\ UseOf(x[1], SlabAt(x)) = u
                             /\ \A y \in Slabs : UseOf(y[1], SlabAt(y)) = u => y = x
      BY <2>4, SlabOfUse
    <3>2. x \in B
      <4>1. x[1] \in Cache /\ SlabAt(x) \in SlabT
        BY SlabsAre
      <4>2. u[1] = SlabAt(x).s_addr /\ u[2] = sa_order[x[1]]
        BY <3>1, <4>1, UseFacts
      <4>. QED BY <1>2, <2>2, <4>2 DEF SlabPages
    <3>3. \A y \in B : y = x
      BY <1>2, <1>5, <1>6, <2>3, <3>1
    <3>4. C = {}
      <4> SUFFICES ASSUME NEW h \in C PROVE FALSE
        OBVIOUS
      <4>1. PageUse(h.addr, h.order) = u
        BY <1>5, <1>7, <2>3
      <4>2. PageUse(h.addr, h.order)[3] = "pages" /\ u[3] = "slab"
        BY <1>7, <2>4, PageUseFacts DEF SlabUses
      <4>. QED BY <4>1, <4>2
    <3>5. B \subseteq {x}
      BY <3>3
    <3>6. Cardinality(A) = 0 /\ Cardinality(B) = 1 /\ Cardinality(C) = 0
      BY <2>1, <3>2, <3>4, <3>5, OneOrNone, FS_EmptySet
    <3>. QED BY <1>1, <1>2, <1>3, <3>6
  <2>5. CASE u \in PageUses(held)
    <3>1. PICK h : h = Pages(u[1], u[2])
      OBVIOUS
    <3>2. h \in HeldPages /\ u = PageUse(u[1], u[2]) /\ h.addr = u[1] /\ h.order = u[2]
      BY <2>5, <3>1, PagesOfUse
    <3>3. h \in C
      BY <1>3, <2>2, <3>2
    <3>4. ASSUME NEW y \in C PROVE y = h
      <4>1. PageUse(y.addr, y.order) = u /\ y = Pages(y.addr, y.order)
        BY <1>5, <1>7, <2>3
      <4>2. u[1] = y.addr /\ u[2] = y.order
        BY <1>7, <4>1, PageUseFacts
      <4>. QED BY <3>1, <4>1, <4>2
    <3>5. B = {}
      <4> SUFFICES ASSUME NEW x \in B PROVE FALSE
        OBVIOUS
      <4>1. u \in SlabUses(sa_slabs)
        BY <1>5, <1>6, <2>3
      <4>2. u[3] = "slab" /\ u[3] = "pages"
        BY <2>5, <4>1 DEF SlabUses, PageUses
      <4>. QED BY <4>2
    <3>6. C \subseteq {h}
      BY <3>4
    <3>7. Cardinality(A) = 0 /\ Cardinality(B) = 0 /\ Cardinality(C) = 1
      BY <2>1, <3>3, <3>5, <3>6, OneOrNone, FS_EmptySet
    <3>. QED BY <1>1, <1>2, <1>3, <3>7
  <2>. QED BY <1>5, <2>4, <2>5
<1>. QED BY <1>8, <1>9

(* The invariant accounts for every page and every object.                  *)
LEMMA InvAccounts ==
  ASSUME KmemInv
  PROVE  MemoryAccounted
<1> SUFFICES ASSUME group.intact
             PROVE  /\ \A p \in Page :
                         Cardinality({b \in FreeBlocks(group) : p \in Block(b[1], b[2])})
                         + Cardinality({x \in Slabs : p \in SlabPages(x)})
                         + Cardinality({h \in HeldPages : p \in Block(h.addr, h.order)}) = 1
                    /\ group.page_freecount = Cardinality(FreePages(group))
                    /\ \A x \in Slabs :
                         /\ ToSet(SlabAt(x).s_free) \cup HeldOf(x) = 1 .. sa_slab_nobjs[x[1]]
                         /\ ToSet(SlabAt(x).s_free) \cap HeldOf(x) = {}
                         /\ IsInjective(SlabAt(x).s_free)
                         /\ SlabAt(x).s_inuse = Cardinality(HeldOf(x))
  BY DEF MemoryAccounted
<1>1. PICK F : F = FreePages(group)
  OBVIOUS
<1>2. Good(group, F) /\ MemOK(sa_slabs, held, F)
  BY <1>1, MemoryIs DEF KmemInv, InvOf, MemGood
<1>3. group.page_freecount = Cardinality(FreePages(group))
  BY <1>1, <1>2 DEF Good, Holds
<1>4. ASSUME NEW x \in Slabs
      PROVE  /\ ToSet(SlabAt(x).s_free) \cup HeldOf(x) = 1 .. sa_slab_nobjs[x[1]]
             /\ ToSet(SlabAt(x).s_free) \cap HeldOf(x) = {}
             /\ IsInjective(SlabAt(x).s_free)
             /\ SlabAt(x).s_inuse = Cardinality(HeldOf(x))
  <2>1. PICK c, s : c = x[1] /\ s = SlabAt(x)
    OBVIOUS
  <2>2. c \in Cache /\ s \in ToSet(sa_slabs[c]) /\ HeldOf(x) = Objects(held, c, s.s_addr)
    BY <1>2, <2>1, SlabsAre
  <2>3. SlabOK(c, s, Objects(held, c, s.s_addr))
    BY <1>2, <2>2 DEF MemOK
  <2>. QED BY <2>1, <2>2, <2>3 DEF SlabOK
<1>5. \A p \in Page :
        Cardinality({b \in FreeBlocks(group) : p \in Block(b[1], b[2])})
        + Cardinality({x \in Slabs : p \in SlabPages(x)})
        + Cardinality({h \in HeldPages : p \in Block(h.addr, h.order)}) = 1
  BY <1>2, PageInOnePlace
<1>. QED BY <1>3, <1>4, <1>5

(* Pages and objects are all accounted for, whatever the sizes are.         *)
THEOREM MemoryIsAccounted == KmemSpec => []MemoryAccounted
<1>1. KmemInv => MemoryAccounted
  BY InvAccounts
<1>. QED BY <1>1, KmemInductive, PTL
-----------------------------------------------------------------------------
(* The first of two buddies, and the other one                              *)
LEMMA LowerBuddy ==
  ASSUME NEW order \in Nat, NEW i \in Nat, NEW low, low = i * npages[order + 1]
  PROVE  /\ low \in Nat /\ Aligned(low, order)
         /\ calculate_index(order + 1, low) = i
         /\ Buddy(low, order) = low + npages[order]
<1>1. order + 1 \in Nat /\ npages[order] \in Nat \ {0}
  BY PowerFacts
<1>2. low \in Nat /\ Aligned(low, order + 1) /\ calculate_index(order + 1, low) = i
  BY <1>1, IndexAligned
<1>3. Aligned(low, order)
  BY <1>1, <1>2, AlignedDown
<1>4. PICK b, m : b = Buddy(low, order) /\ m = Low(low, order)
  OBVIOUS
<1>5. b # low /\ m = i * npages[order + 1] /\ {low, b} = {m, m + npages[order]}
  BY <1>2, <1>3, <1>4, BuddyFacts
<1>6. b = low + npages[order]
  BY <1>5
<1>. QED BY <1>2, <1>3, <1>4, <1>6

OneAtMost(T, x, y) == T \subseteq {x, y} /\ ~(x \in T /\ y \in T)

(* A set that has one of two elements at most.                              *)
LEMMA OneOfTwo ==
  ASSUME NEW T, NEW x, NEW y, OneAtMost(T, x, y)
  PROVE  Cardinality(T) \in {0, 1}
<1>1. CASE x \in T
  <2>1. T \subseteq {x}
    BY <1>1 DEF OneAtMost
  <2>. QED BY <2>1, OneOrNone
<1>2. CASE x \notin T
  <2>1. T \subseteq {y}
    BY <1>2 DEF OneAtMost
  <2>. QED BY <2>1, OneOrNone
<1>. QED BY <1>1, <1>2

(* The invariant leaves no two buddies free.                                *)
LEMMA InvJoins ==
  ASSUME KmemInv
  PROVE  FreeBuddiesJoined
<1> SUFFICES ASSUME group.intact, NEW order \in 0 .. (Top - 1),
                    NEW i \in 0 .. (NPages \div npages[order + 1]),
                    NEW low, low = i * npages[order + 1], ~InTail(low)
             PROVE  LET free == {a \in {low, low + npages[order]} :
                                   <<a, order>> \in FreeBlocks(group)}
                    IN  Cardinality(free) <= 1 /\ (i \in group.pg_map[order + 1] <=> free # {})
  BY DEF FreeBuddiesJoined
<1>1. PICK B : B = Blocks(group.pg_freelist)
  OBVIOUS
<1>2. FreeBlocks(group) = B /\ BitsOK(B, group.pg_map) /\ Joined(B)
  BY <1>1, MemoryIs, FreeBlocksAre DEF KmemInv, InvOf, MemGood, Good, Holds
<1>3. order \in Nat /\ i \in Nat
  <2>1. Top \in Nat
    BY OrderFacts
  <2>. QED BY <2>1
<1>4. /\ low \in Nat /\ Aligned(low, order) /\ calculate_index(order + 1, low) = i
      /\ Buddy(low, order) = low + npages[order]
  BY <1>3, LowerBuddy
<1>5. PICK b : b = low + npages[order]
  OBVIOUS
<1>6. i \in group.pg_map[order + 1] <=> ~(<<low, order>> \in B <=> <<b, order>> \in B)
  BY <1>2, <1>4, <1>5 DEF BitsOK
<1>7. ~(<<low, order>> \in B /\ <<b, order>> \in B)
  BY <1>2, <1>4, <1>5 DEF Joined
<1>8. PICK free : free = {a \in {low, b} : <<a, order>> \in B}
  OBVIOUS
<1>9. /\ free \subseteq {low, b} /\ ~(low \in free /\ b \in free)
      /\ free # {} <=> low \in free \/ b \in free
      /\ low \in free <=> <<low, order>> \in B
      /\ b \in free <=> <<b, order>> \in B
  BY <1>7, <1>8
<1>10. Cardinality(free) \in {0, 1}
  <2>1. OneAtMost(free, low, b)
    BY <1>9 DEF OneAtMost
  <2>. QED BY <2>1, OneOfTwo
<1>11. Cardinality(free) <= 1
  BY <1>10
<1>12. free = {a \in {low, low + npages[order]} : <<a, order>> \in FreeBlocks(group)}
  BY <1>2, <1>5, <1>8
<1>13. i \in group.pg_map[order + 1] <=> free # {}
  BY <1>6, <1>7, <1>9
<1>. QED BY <1>11, <1>12, <1>13

(* The bits of pg_map tell the truth and no two buddies stay free, whatever *)
(* the calls and their order.                                               *)
THEOREM BuddiesAreJoined == KmemSpec => []FreeBuddiesJoined
<1>1. KmemInv => FreeBuddiesJoined
  BY InvJoins
<1>. QED BY <1>1, KmemInductive, PTL
-----------------------------------------------------------------------------
(* A product grows with its factor.                                         *)
LEMMA Grown ==
  ASSUME NEW w \in Nat, NEW a \in Nat, NEW b \in Nat, a <= b
  PROVE  a * w \in Nat /\ b * w \in Nat /\ a * w <= b * w
<1>1. PICK d \in Nat : b = a + d
  <2>1. b - a \in Nat /\ b = a + (b - a)
    OBVIOUS
  <2>. QED BY <2>1
<1>2. d * w \in Nat /\ a * w \in Nat
  OBVIOUS
<1>3. (a + d) * w = a * w + d * w
  OBVIOUS
<1>. QED BY <1>1, <1>2, <1>3

(* The page a byte is in                                                    *)
LEMMA PageOfByte ==
  ASSUME NEW w \in Nat \ {0}, NEW a \in Nat, NEW b \in Nat, NEW x \in Nat,
         a * w <= x, x < b * w
  PROVE  x \div w \in a .. (b - 1)
<1>1. PICK q, r \in Nat : q = x \div w /\ r < w /\ x = q * w + r
  <2>1. x \div w \in Nat /\ x % w \in Nat /\ x % w < w /\ x = (x \div w) * w + (x % w)
    BY Divided
  <2>. QED BY <2>1
<1>2. q \in Nat /\ q * w \in Nat /\ a * w \in Nat /\ b * w \in Nat /\ w \in Nat
  BY <1>1, Divided
<1>3. a <= q
  <2> SUFFICES ASSUME ~(a <= q) PROVE FALSE
    OBVIOUS
  <2>1. q + 1 <= a /\ q + 1 \in Nat
    BY <1>2
  <2>2. (q + 1) * w <= a * w
    BY <1>2, <2>1, Grown
  <2>3. (q + 1) * w = q * w + w
    BY <1>2
  <2>. QED BY <1>1, <1>2, <2>2, <2>3
<1>4. q < b
  <2> SUFFICES ASSUME ~(q < b) PROVE FALSE
    OBVIOUS
  <2>1. b <= q
    BY <1>2
  <2>2. b * w <= q * w
    BY <1>2, <2>1, Grown
  <2>. QED BY <1>1, <1>2, <2>2
<1>. QED BY <1>1, <1>2, <1>3, <1>4

(* The block of the pages, or of the slab, a piece lies in                  *)
OwnerOf(h) == IF h.kind = "pages" THEN PageUse(h.addr, h.order)
              ELSE <<h.addr, sa_order[h.cache], "slab", h.cache>>

(* Pages lie in a block of their own.                                       *)
LEMMA OwnerOfPages ==
  ASSUME NEW S, NEW hd, NEW F, MemOK(S, hd, F), NEW h \in hd, h.kind = "pages"
  PROVE  /\ h = Pages(h.addr, h.order) /\ h.addr \in Page /\ h.order \in Order
         /\ OwnerOf(h) = PageUse(h.addr, h.order) /\ OwnerOf(h) \in PageUses(hd)
<1>1. h \in HeldT
  BY DEF MemOK, HeldOK
<1>2. h = Pages(h.addr, h.order) /\ h.addr \in Page /\ h.order \in Order
  BY <1>1, HeldPagesAre
<1>3. PICK a, n : a = h.addr /\ n = h.order
  OBVIOUS
<1>4. a \in Page /\ n \in Order /\ Pages(a, n) \in hd
  BY <1>2, <1>3
<1>5. PageUse(a, n) \in PageUses(hd)
  BY <1>4, PageUseFacts DEF PageUses
<1>. QED BY <1>2, <1>3, <1>5 DEF OwnerOf

(* An object lies in the block of its slab, and is one of its objects.      *)
LEMMA OwnerOfObject ==
  ASSUME NEW S, NEW hd, NEW F, MemOK(S, hd, F), NEW h \in hd, h.kind = "object"
  PROVE  /\ h = Object(h.cache, h.addr, h.obj) /\ h.cache \in Cache /\ h.addr \in Page
         /\ h.obj \in 1 .. sa_slab_nobjs[h.cache]
         /\ OwnerOf(h) = <<h.addr, sa_order[h.cache], "slab", h.cache>>
         /\ OwnerOf(h) \in SlabUses(S)
<1>1. h \in HeldT
  BY DEF MemOK, HeldOK
<1>2. h = Object(h.cache, h.addr, h.obj) /\ h.cache \in Cache /\ h.addr \in Page
  BY <1>1, HeldObject
<1>3. PICK c, a, o : c = h.cache /\ a = h.addr /\ o = h.obj
  OBVIOUS
<1>4. PICK s \in ToSet(S[c]) : s.s_addr = a
  BY <1>3 DEF MemOK, HeldOK
<1>5. SlabOK(c, s, Objects(hd, c, a))
  BY <1>2, <1>3, <1>4 DEF MemOK
<1>6. o \in Objects(hd, c, a)
  BY <1>3 DEF Objects
<1>7. o \in 1 .. sa_slab_nobjs[c]
  BY <1>5, <1>6 DEF SlabOK
<1>8. UseOf(c, s) \in SlabUses(S)
  BY <1>2, <1>3, <1>4, UsedBlock
<1>9. "object" # "pages"
  OBVIOUS
<1>10. OwnerOf(h) = <<a, sa_order[c], "slab", c>>
  BY <1>3, <1>9 DEF OwnerOf
<1>. QED BY <1>2, <1>3, <1>4, <1>7, <1>8, <1>10 DEF UseOf
-----------------------------------------------------------------------------
(* The last page of a block.                                                *)
LEMMA BlockIs ==
  ASSUME NEW a \in Nat, NEW n \in Nat, NEW b, b = a + npages[n]
  PROVE  Block(a, n) = a .. (b - 1)
<1>1. npages[n] \in Nat
  BY PowerFacts
<1>2. b - 1 = a + npages[n] - 1
  BY <1>1
<1>. QED BY <1>2 DEF Block

(* Where an object lies in its slab: after t bytes of the block at f, and z *)
(* bytes long                                                               *)
Lies(h, c, a, o, f, t, z) ==
  /\ f \in Nat /\ t \in Nat /\ z \in Nat \ {0}
  /\ f = a * PAGE_SIZE /\ t = (o - 1) * Stride(c)
  /\ BytesOf(h) = (f + t + RedZone) .. (f + t + RedZone + z - 1)
  /\ RedZone \in Nat /\ RedZone + z <= Stride(c)
  /\ t + Stride(c) <= Bytes(sa_order[c])

(* An object and its red zones end before the next object, and before the   *)
(* struct slab.                                                             *)
LEMMA ObjectBytes ==
  ASSUME NEW c \in Cache, NEW a \in Nat, NEW o \in 1 .. sa_slab_nobjs[c],
         NEW h, h = Object(c, a, o)
  PROVE  \E f, t, z : Lies(h, c, a, o, f, t, z)
<1>1. PICK w, z, s : w = PAGE_SIZE /\ z = ObjSize[c] /\ s = Stride(c)
  OBVIOUS
<1>2. /\ w \in Nat /\ z \in Nat \ {0} /\ s \in Nat /\ RedZone \in Nat
      /\ s = z + 2 * RedZone + BufctlSize /\ BufctlSize \in Nat
  BY <1>1, CacheSizes DEF Stride
<1>3. PICK n : n = sa_slab_nobjs[c]
  OBVIOUS
<1>4. n \in Nat /\ n * s + SlabSize <= Bytes(sa_order[c]) /\ SlabSize \in Nat
      /\ Bytes(sa_order[c]) \in Nat
  <2>1. sa_order[c] \in Nat
    BY CacheFacts, OrderFacts
  <2>. QED BY <1>1, <1>3, <2>1, CacheFacts, CacheSizes, BlockBytes
<1>5. o \in Nat /\ o - 1 \in Nat /\ o <= n
  BY <1>3, <1>4
<1>6. PICK k \in Nat : k = o - 1
  BY <1>5
<1>7. PICK t \in Nat : t = k * s
  BY <1>2
<1>8. (k + 1) * s = t + s /\ k + 1 <= n
  BY <1>2, <1>5, <1>6, <1>7
<1>9. (k + 1) * s <= n * s /\ n * s \in Nat
  BY <1>2, <1>4, <1>8, Grown
<1>10. t + s <= Bytes(sa_order[c])
  BY <1>2, <1>4, <1>8, <1>9
<1>11. PICK f \in Nat : f = a * w
  BY <1>2
<1>12. RedZone + z <= s
  BY <1>2
<1>13. BytesOf(h) = (f + t + RedZone) .. (f + t + RedZone + z - 1)
  <2>1. h.kind # "pages" /\ h.cache = c /\ h.addr = a /\ h.obj = o
    BY ObjectFields
  <2>2. (h.obj - 1) * (sa_objsize[h.cache] + BufctlSize) = t
    BY <1>1, <1>6, <1>7, <2>1 DEF Stride
  <2>3. h.addr * PAGE_SIZE = f
    BY <1>1, <1>11, <2>1
  <2>4. ObjSize[h.cache] = z
    BY <1>1, <2>1
  <2>. QED BY <2>1, <2>2, <2>3, <2>4 DEF BytesOf
<1>14. Lies(h, c, a, o, f, t, z)
  BY <1>1, <1>2, <1>6, <1>7, <1>10, <1>11, <1>12, <1>13 DEF Lies
<1>. QED BY <1>14

(* All the bytes of a piece are in the block it lies in.                    *)
LEMMA BytesInBlock ==
  ASSUME NEW S, NEW hd, NEW F, MemOK(S, hd, F), NEW h \in hd
  PROVE  /\ BytesOf(h) # {} /\ BytesOf(h) \subseteq Nat
         /\ \A x \in BytesOf(h) : x \div PAGE_SIZE \in Block(OwnerOf(h)[1], OwnerOf(h)[2])
<1>1. PICK w : w = PAGE_SIZE
  OBVIOUS
<1>2. w \in Nat \ {0}
  <2>1. Self \in Cache
    BY SlabAssumption
  <2>. QED BY <1>1, <2>1, CacheSizes
<1>3. h.kind \in {"pages", "object"}
  <2>1. h \in HeldT
    BY DEF MemOK, HeldOK
  <2>. QED BY <2>1 DEF HeldT
<1>4. CASE h.kind = "pages"
  <2>1. PICK a, n : a = h.addr /\ n = h.order
    OBVIOUS
  <2>2. /\ a \in Page /\ n \in Order /\ OwnerOf(h) = PageUse(a, n)
    BY <1>4, <2>1, OwnerOfPages
  <2>3. OwnerOf(h)[1] = a /\ OwnerOf(h)[2] = n
    BY <2>2, PageUseFacts
  <2>4. PICK b : b = a + npages[n]
    OBVIOUS
  <2>5. a \in Nat /\ b \in Nat /\ a + 1 <= b
    <3>1. a \in Nat /\ n \in Nat
      BY <2>2, OrderFacts
    <3>2. npages[n] \in Nat \ {0}
      BY <3>1, PowerFacts
    <3>. QED BY <2>4, <3>1, <3>2
  <2>6. Block(a, n) = a .. (b - 1)
    BY <2>2, <2>4, <2>5, OrderFacts, BlockIs
  <2>7. BytesOf(h) = (a * w) .. (b * w - 1)
    BY <1>1, <1>4, <2>1, <2>4 DEF BytesOf
  <2>8. a * w \in Nat /\ b * w \in Nat /\ a * w + w <= b * w
    <3>1. (a + 1) * w \in Nat /\ (a + 1) * w <= b * w /\ b * w \in Nat
      BY <1>2, <2>5, Grown
    <3>2. (a + 1) * w = a * w + w /\ a * w \in Nat
      BY <1>2, <2>5
    <3>. QED BY <3>1, <3>2
  <2>9. BytesOf(h) # {} /\ BytesOf(h) \subseteq Nat
    <3>1. PICK f, g \in Nat : f = a * w /\ g = b * w
      BY <2>8
    <3>2. f \in f .. (g - 1) /\ f .. (g - 1) \subseteq Nat
      BY <1>2, <2>8, <3>1
    <3>. QED BY <2>7, <3>1, <3>2
  <2>10. ASSUME NEW x \in BytesOf(h) PROVE x \div w \in Block(a, n)
    <3>1. x \in Nat /\ a * w <= x /\ x < b * w
      BY <2>7, <2>8, <2>10
    <3>2. x \div w \in a .. (b - 1)
      BY <1>2, <2>5, <3>1, PageOfByte
    <3>. QED BY <2>6, <3>2
  <2>. QED BY <1>1, <2>3, <2>9, <2>10
<1>5. CASE h.kind = "object"
  <2>1. PICK c, a, o : c = h.cache /\ a = h.addr /\ o = h.obj
    OBVIOUS
  <2>2. /\ h = Object(c, a, o) /\ c \in Cache /\ a \in Page /\ o \in 1 .. sa_slab_nobjs[c]
        /\ OwnerOf(h) = <<a, sa_order[c], "slab", c>>
    BY <1>5, <2>1, OwnerOfObject
  <2>3. PICK n : n = sa_order[c]
    OBVIOUS
  <2>4. OwnerOf(h)[1] = a /\ OwnerOf(h)[2] = n
    BY <2>2, <2>3
  <2>5. a \in Nat /\ n \in Nat /\ npages[n] \in Nat
    <3>1. a \in Nat /\ n \in Nat
      BY <2>2, <2>3, CacheFacts, OrderFacts
    <3>. QED BY <3>1, PowerFacts
  <2>6. PICK f, t, z \in Nat :
          /\ f = a * w /\ z # 0
          /\ BytesOf(h) = (f + t + RedZone) .. (f + t + RedZone + z - 1)
          /\ RedZone \in Nat /\ RedZone + z <= Stride(c)
          /\ t + Stride(c) <= Bytes(n)
    <3>1. PICK f, t, z : Lies(h, c, a, o, f, t, z)
      BY <2>2, <2>5, ObjectBytes
    <3>. QED BY <1>1, <2>3, <3>1 DEF Lies
  <2>7. Stride(c) \in Nat /\ Bytes(n) \in Nat
    BY <2>2, <2>5, CacheSizes, BlockBytes
  <2>8. PICK b : b = a + npages[n]
    OBVIOUS
  <2>9. Block(a, n) = a .. (b - 1)
    BY <2>5, <2>8, BlockIs
  <2>10. b \in Nat /\ b * w = f + Bytes(n)
    <3>1. PICK k \in Nat : k = npages[n]
      BY <2>5
    <3>2. (a + k) * w = a * w + w * k
      BY <1>2, <2>5
    <3>3. b = a + k /\ a + k \in Nat
      BY <2>5, <2>8, <3>1
    <3>4. f = a * w
      BY <2>6
    <3>5. Bytes(n) = w * k
      BY <1>1, <3>1 DEF Bytes
    <3>. QED BY <3>2, <3>3, <3>4, <3>5
  <2>11. BytesOf(h) # {} /\ BytesOf(h) \subseteq Nat
    <3>1. f + t + RedZone \in (f + t + RedZone) .. (f + t + RedZone + z - 1)
      BY <2>6
    <3>. QED BY <2>6, <3>1
  <2>12. ASSUME NEW x \in BytesOf(h) PROVE x \div w \in Block(a, n)
    <3>1. x \in Nat /\ f <= x /\ x < f + Bytes(n)
      BY <2>6, <2>7, <2>12
    <3>2. a * w <= x /\ x < b * w
      BY <2>6, <2>10, <3>1
    <3>3. x \div w \in a .. (b - 1)
      BY <1>2, <2>5, <2>10, <3>1, <3>2, PageOfByte
    <3>. QED BY <2>9, <3>3
  <2>. QED BY <1>1, <2>4, <2>11, <2>12
<1>. QED BY <1>3, <1>4, <1>5
-----------------------------------------------------------------------------
(* A piece is memory of the group.                                          *)
LEMMA PieceOfGroup ==
  ASSUME NEW S, NEW hd, NEW F, MemOK(S, hd, F), NEW h \in hd
  PROVE  BytesOf(h) # {} /\ BytesOf(h) \subseteq 0 .. (NPages * PAGE_SIZE - 1)
<1>1. PICK u : u = OwnerOf(h)
  OBVIOUS
<1>2. u \in SlabUses(S) \cup PageUses(hd)
  <2>1. h.kind \in {"pages", "object"}
    <3>1. h \in HeldT
      BY DEF MemOK, HeldOK
    <3>. QED BY <3>1 DEF HeldT
  <2>. QED BY <1>1, <2>1, OwnerOfPages, OwnerOfObject
<1>3. Block(u[1], u[2]) \subseteq Page
  BY <1>2 DEF MemOK, Tiles
<1>4. BytesOf(h) # {} /\ BytesOf(h) \subseteq Nat
      /\ \A x \in BytesOf(h) : x \div PAGE_SIZE \in Block(u[1], u[2])
  BY <1>1, BytesInBlock
<1>5. PICK w \in Nat \ {0} : w = PAGE_SIZE
  <2>1. Self \in Cache
    BY SlabAssumption
  <2>. QED BY <2>1, CacheSizes
<1>6. ASSUME NEW x \in BytesOf(h) PROVE x \in 0 .. (NPages * w - 1)
  <2>1. x \in Nat /\ x \div w \in Page
    BY <1>3, <1>4, <1>5, <1>6
  <2>2. PICK q, r \in Nat : q = x \div w /\ r < w /\ x = q * w + r
    <3>1. x \div w \in Nat /\ x % w \in Nat /\ x % w < w /\ x = (x \div w) * w + (x % w)
      BY <2>1, Divided
    <3>. QED BY <3>1
  <2>3. q \in Nat /\ q + 1 \in Nat /\ q + 1 <= NPages
    BY <2>1, <2>2 DEF Page
  <2>4. (q + 1) * w <= NPages * w /\ NPages * w \in Nat
    BY <2>3, Grown
  <2>5. (q + 1) * w = q * w + w /\ q * w \in Nat
    BY <2>3
  <2>. QED BY <2>1, <2>2, <2>4, <2>5
<1>. QED BY <1>4, <1>5, <1>6

(* Objects of one slab do not overlap.                                      *)
LEMMA ObjectsApart ==
  ASSUME NEW c \in Cache, NEW a \in Nat, NEW o \in 1 .. sa_slab_nobjs[c],
         NEW p \in 1 .. sa_slab_nobjs[c], o < p,
         NEW h, h = Object(c, a, o), NEW g, g = Object(c, a, p)
  PROVE  BytesOf(h) \cap BytesOf(g) = {}
<1>1. PICK f, t, z : Lies(h, c, a, o, f, t, z)
  BY ObjectBytes
<1>2. PICK f2, t2, z2 : Lies(g, c, a, p, f2, t2, z2)
  BY ObjectBytes
<1>3. PICK s : s = Stride(c)
  OBVIOUS
<1>4. s \in Nat
  BY <1>3, CacheSizes
<1>5. o \in Nat /\ p \in Nat /\ o - 1 \in Nat /\ p - 1 \in Nat
  <2>1. sa_slab_nobjs[c] \in Nat
    BY CacheFacts
  <2>. QED BY <2>1
<1>6. t + s <= t2
  <2>1. PICK k, l \in Nat : k = o - 1 /\ l = p - 1
    BY <1>5
  <2>2. k + 1 <= l /\ k + 1 \in Nat
    BY <1>5, <2>1
  <2>3. (k + 1) * s <= l * s
    BY <1>4, <2>1, <2>2, Grown
  <2>4. (k + 1) * s = k * s + s /\ k * s \in Nat /\ l * s \in Nat
    BY <1>4, <2>1
  <2>5. t = k * s /\ t2 = l * s
    BY <1>1, <1>2, <1>3, <2>1 DEF Lies
  <2>. QED BY <2>3, <2>4, <2>5
<1>7. /\ f = f2 /\ f \in Nat /\ t \in Nat /\ t2 \in Nat /\ z \in Nat /\ z2 \in Nat
      /\ RedZone \in Nat /\ RedZone + z <= s
      /\ BytesOf(h) = (f + t + RedZone) .. (f + t + RedZone + z - 1)
      /\ BytesOf(g) = (f + t2 + RedZone) .. (f + t2 + RedZone + z2 - 1)
  BY <1>1, <1>2, <1>3 DEF Lies
<1>8. \A x \in BytesOf(h) : x < f + t2 + RedZone
  BY <1>4, <1>6, <1>7
<1>9. \A x \in BytesOf(g) : x \in Int /\ x >= f + t2 + RedZone
  BY <1>7
<1>10. f + t2 + RedZone \in Int
  BY <1>7
<1>11. \A x \in BytesOf(h) : x \in Int
  BY <1>7
<1>. QED BY <1>8, <1>9, <1>10, <1>11

(* Two pieces do not overlap.                                               *)
LEMMA PiecesApart ==
  ASSUME NEW S, NEW hd, NEW F, MemOK(S, hd, F), NEW h \in hd, NEW g \in hd, h # g
  PROVE  BytesOf(h) \cap BytesOf(g) = {}
<1>1. PICK u, v : u = OwnerOf(h) /\ v = OwnerOf(g)
  OBVIOUS
<1>2. h.kind \in {"pages", "object"} /\ g.kind \in {"pages", "object"}
  <2>1. h \in HeldT /\ g \in HeldT
    BY DEF MemOK, HeldOK
  <2>. QED BY <2>1 DEF HeldT
<1>3. u \in SlabUses(S) \cup PageUses(hd) /\ v \in SlabUses(S) \cup PageUses(hd)
  BY <1>1, <1>2, OwnerOfPages, OwnerOfObject
<1>4. CASE u # v
  <2> SUFFICES ASSUME NEW x \in BytesOf(h), x \in BytesOf(g) PROVE FALSE
    OBVIOUS
  <2>1. PICK p : p = x \div PAGE_SIZE
    OBVIOUS
  <2>2. p \in Block(u[1], u[2])
    BY <1>1, <2>1, BytesInBlock
  <2>3. p \in Block(v[1], v[2])
    BY <1>1, <2>1, BytesInBlock
  <2>. QED BY <1>3, <1>4, <2>2, <2>3 DEF MemOK, Tiles
<1>5. CASE u = v
  <2>1. "pages" # "slab"
    OBVIOUS
  <2>2. CASE h.kind = "pages"
    <3>1. /\ u \in PageUses(hd) /\ u = PageUse(h.addr, h.order) /\ h = Pages(h.addr, h.order)
          /\ h.addr \in Page /\ h.order \in Order
      BY <1>1, <2>2, OwnerOfPages
    <3>2. u[3] = "pages"
      BY <3>1 DEF PageUses
    <3>3. g.kind = "pages"
      <4> SUFFICES ASSUME g.kind = "object" PROVE FALSE
        BY <1>2
      <4>1. v \in SlabUses(S)
        BY <1>1, OwnerOfObject
      <4>2. v[3] = "slab"
        BY <4>1 DEF SlabUses
      <4>. QED BY <1>5, <2>1, <3>2, <4>2
    <3>4. /\ v = PageUse(g.addr, g.order) /\ g = Pages(g.addr, g.order)
          /\ g.addr \in Page /\ g.order \in Order
      BY <1>1, <3>3, OwnerOfPages
    <3>5. u[1] = h.addr /\ u[2] = h.order
      BY <3>1, PageUseFacts
    <3>6. v[1] = g.addr /\ v[2] = g.order
      BY <3>4, PageUseFacts
    <3>7. h.addr = g.addr /\ h.order = g.order
      BY <1>5, <3>5, <3>6
    <3>. QED BY <3>1, <3>4, <3>7
  <2>3. CASE h.kind = "object"
    <3>1. /\ h = Object(h.cache, h.addr, h.obj) /\ h.cache \in Cache /\ h.addr \in Page
          /\ h.obj \in 1 .. sa_slab_nobjs[h.cache]
          /\ u = <<h.addr, sa_order[h.cache], "slab", h.cache>>
      BY <1>1, <2>3, OwnerOfObject
    <3>2. g.kind = "object"
      <4> SUFFICES ASSUME g.kind = "pages" PROVE FALSE
        BY <1>2
      <4>1. v \in PageUses(hd)
        BY <1>1, OwnerOfPages
      <4>2. v[3] = "pages"
        BY <4>1 DEF PageUses
      <4>. QED BY <1>5, <2>1, <3>1, <4>2
    <3>3. /\ g = Object(g.cache, g.addr, g.obj) /\ g.cache \in Cache
          /\ g.obj \in 1 .. sa_slab_nobjs[g.cache]
          /\ v = <<g.addr, sa_order[g.cache], "slab", g.cache>>
      BY <1>1, <3>2, OwnerOfObject
    <3>4. PICK c, a, o, p : c = h.cache /\ a = h.addr /\ o = h.obj /\ p = g.obj
      OBVIOUS
    <3>5. g.cache = c /\ g.addr = a
      <4>1. u[1] = h.addr /\ u[4] = h.cache
        BY <3>1
      <4>2. v[1] = g.addr /\ v[4] = g.cache
        BY <3>3
      <4>. QED BY <1>5, <3>4, <4>1, <4>2
    <3>6. /\ c \in Cache /\ a \in Nat /\ o \in 1 .. sa_slab_nobjs[c] /\ p \in 1 .. sa_slab_nobjs[c]
          /\ h = Object(c, a, o) /\ g = Object(c, a, p)
      BY <3>1, <3>3, <3>4, <3>5, OrderFacts
    <3>7. o # p
      BY <3>6
    <3>8. o < p \/ p < o
      <4>1. sa_slab_nobjs[c] \in Nat
        BY <3>6, CacheFacts
      <4>. QED BY <3>6, <3>7, <4>1
    <3>9. CASE o < p
      BY <3>6, <3>9, ObjectsApart
    <3>10. CASE p < o
      <4>1. BytesOf(g) \cap BytesOf(h) = {}
        BY <3>6, <3>10, ObjectsApart
      <4>. QED BY <4>1
    <3>. QED BY <3>8, <3>9, <3>10
  <2>. QED BY <1>2, <2>2, <2>3
<1>. QED BY <1>4, <1>5
-----------------------------------------------------------------------------
Given(hd) == {BytesOf(h) : h \in hd}

(* What the callers have while the lists are intact                         *)
LEMMA PiecesAre ==
  ASSUME NEW m, NEW hd, NEW F, MemGood(m, hd, F)
  PROVE  /\ \A h \in hd : BytesOf(h) # {} /\ BytesOf(h) \subseteq 0 .. (NPages * PAGE_SIZE - 1)
         /\ \A h, g \in hd : h # g => BytesOf(h) \cap BytesOf(g) = {}
<1>1. PICK S : S = m.sa_slabs
  OBVIOUS
<1>2. MemOK(S, hd, F)
  BY <1>1 DEF MemGood
<1>. QED BY <1>2, PieceOfGroup, PiecesApart

(* What a caller has is a piece of memory.                                  *)
LEMMA HeapPiece ==
  ASSUME NEW m, NEW hd, NEW F, MemGood(m, hd, F), NEW h \in hd
  PROVE  MemoryHandedOut!Piece(BytesOf(h))
<1>1. BytesOf(h) # {} /\ BytesOf(h) \subseteq 0 .. (NPages * PAGE_SIZE - 1)
  BY PiecesAre
<1>. QED BY <1>1 DEF MemoryHandedOut!Piece

(* What slab_init has handed out overlaps nowhere.                          *)
LEMMA HeapStarts ==
  ASSUME KmemInit
  PROVE  MemoryHandedOut!Init
<1>1. PICK m, F : m = Memory /\ F = FreePages(group)
  OBVIOUS
<1>2. MemGood(m, held, F)
  BY <1>1, KmemStarts
<1>3. \A piece \in Given(held) : MemoryHandedOut!Piece(piece)
  BY <1>2, HeapPiece DEF Given
<1>4. \A piece, other \in Given(held) : piece # other => piece \cap other = {}
  <2>1. \A h, g \in held : h # g => BytesOf(h) \cap BytesOf(g) = {}
    BY <1>2, PiecesAre
  <2>. QED BY <2>1 DEF Given
<1>. QED BY <1>3, <1>4 DEF MemoryHandedOut!Init, Given

(* A call hands out a piece, or takes one back, or does neither.            *)
LEMMA HeapSteps ==
  ASSUME KmemInv, [KmemNext]_kmemVars
  PROVE  [MemoryHandedOut!Allocate \/ MemoryHandedOut!Free]_({BytesOf(h) : h \in held})
<1>1. PICK hd, hd2 : hd = held /\ hd2 = held'
  OBVIOUS
<1>2. Given(hd) = {BytesOf(h) : h \in held} /\ Given(hd2) = {BytesOf(h) : h \in held'}
  BY <1>1 DEF Given
<1>3. CASE UNCHANGED kmemVars
  <2>1. held' = held
    BY <1>3 DEF kmemVars
  <2>. QED BY <2>1
<1>4. CASE KmemNext
  <2>1. PICK m, F : m = Memory /\ F = FreePages(group)
    OBVIOUS
  <2>2. PICK n : n = Memory'
    OBVIOUS
  <2>3. group.intact /\ Outcome(n, hd, hd2, F)
    BY <1>1, <1>4, <2>1, <2>2, StepOutcome
  <2>4. MemGood(m, hd, F)
    BY <1>1, <2>1, <2>3, MemoryIs DEF KmemInv, InvOf
  <2>5. CASE hd2 = hd
    BY <1>1, <2>5
  <2>6. CASE n.group.intact /\ \E h : h \notin hd /\ hd2 = hd \cup {h}
    <3>1. PICK h : h \notin hd /\ hd2 = hd \cup {h}
      BY <2>6
    <3>2. PICK G : MemGood(n, hd2, G)
      BY <2>3, <2>6 DEF Outcome, InvOf
    <3>3. h \in hd2 /\ hd \subseteq hd2
      BY <3>1
    <3>4. PICK piece : piece = BytesOf(h)
      OBVIOUS
    <3>5. MemoryHandedOut!Piece(piece)
      BY <3>2, <3>3, <3>4, HeapPiece
    <3>6. \A other \in Given(hd) : piece \cap other = {}
      <4>1. \A g \in hd2 : h # g => BytesOf(h) \cap BytesOf(g) = {}
        BY <3>2, <3>3, PiecesAre
      <4>. QED BY <3>1, <3>3, <3>4, <4>1 DEF Given
    <3>7. Given(hd2) = Given(hd) \cup {piece} /\ piece \in Given(hd2)
      BY <3>1, <3>4 DEF Given
    <3>8. MemoryHandedOut!Allocate
      BY <1>2, <3>5, <3>6, <3>7 DEF MemoryHandedOut!Allocate
    <3>. QED BY <3>8
  <2>7. CASE \E h \in hd : hd2 = hd \ {h}
    <3>1. PICK h \in hd : hd2 = hd \ {h}
      BY <2>7
    <3>2. \A g \in hd : /\ BytesOf(g) # {}
                        /\ h # g => BytesOf(h) \cap BytesOf(g) = {}
      BY <2>4, <3>1, PiecesAre
    <3>3. PICK piece : piece = BytesOf(h)
      OBVIOUS
    <3>4. Given(hd2) = Given(hd) \ {piece} /\ piece \in Given(hd)
      BY <3>1, <3>2, <3>3 DEF Given
    <3>5. MemoryHandedOut!Free
      BY <1>2, <3>4 DEF MemoryHandedOut!Free
    <3>. QED BY <3>5
  <2>. QED BY <2>3, <2>5, <2>6, <2>7 DEF Outcome
<1>. QED BY <1>3, <1>4

(* The allocators keep the promise of page.h and slab.h, whatever the sizes *)
(* of the caches and of the memory.                                         *)
THEOREM KmemImplementsHeap == KmemSpec => ImplementsHeap
<1>1. KmemInit => MemoryHandedOut!Init
  BY HeapStarts
<1>2. KmemInv /\ [KmemNext]_kmemVars
        => [MemoryHandedOut!Allocate \/ MemoryHandedOut!Free]_({BytesOf(h) : h \in held})
  BY HeapSteps
<1>. QED BY <1>1, <1>2, KmemInductive, PTL DEF KmemSpec, ImplementsHeap, MemoryHandedOut!Spec
=============================================================================
