------------------------------ MODULE CowProofs ------------------------------
(***************************************************************************)
(* Proofs about Cow, for every number of processes, areas, pages and       *)
(* memory objects.                                                         *)
(*                                                                         *)
(*   1. Chains.  The invariant says that every object is above the one it  *)
(*      shadows (Ranked); then the recursive functions of the model are    *)
(*      what their definitions say, and the objects Beneath another are    *)
(*      the least set closed under shadowing.                              *)
(*   2. The invariant on objects and areas (ObjInv): exact counts, and     *)
(*      private areas whose object nobody else names.                      *)
(*   3. Lookups, put, new mappings and fork each keep it; the work is in   *)
(*      the counts, by cardinalities of the sets of users.                 *)
(*   4. The invariant on the state (CowInv), with the page tables, and the *)
(*      theorems of the properties that are checked.                       *)
(*   5. The refinement of Memory, action by action.                        *)
(***************************************************************************)
EXTENDS Cow, FiniteSetTheorems, FunctionTheorems, WellFoundedInduction, TLAPS
-----------------------------------------------------------------------------
(***************************************************************************)
(* 1. Chains                                                               *)
(***************************************************************************)
(* Induction.  The library's rules take an operator, the provers a set.     *)
LEMMA LeastElement ==
  ASSUME NEW T \in SUBSET Nat, T # {}
  PROVE  \E n \in T : \A m \in T : ~(m < n)
<1>1. IsWellFoundedOn(OpToRel(<, Nat), Nat)
  BY NatLessThanWellFounded
<1>2. PICK n \in T : \A m \in T : ~(<<m, n>> \in OpToRel(<, Nat))
  BY <1>1, WFMin
<1>3. \A m \in T : <<m, n>> \in OpToRel(<, Nat) <=> m < n
  BY DEF OpToRel
<1>. QED BY <1>2, <1>3

(* A set of naturals with 0 and the successor of each member has them all.  *)
LEMMA SetInduction ==
  ASSUME NEW T, 0 \in T, \A n \in Nat : n \in T => n + 1 \in T
  PROVE  \A n \in Nat : n \in T
<1> SUFFICES ASSUME Nat \ T # {} PROVE FALSE
  OBVIOUS
<1>1. PICK n \in Nat \ T : \A m \in Nat \ T : ~(m < n)
  BY LeastElement
<1>2. n - 1 \in Nat /\ n - 1 < n /\ (n - 1) + 1 = n
  BY <1>1
<1>3. n - 1 \in T
  BY <1>1, <1>2
<1>. QED BY <1>1, <1>2, <1>3
-----------------------------------------------------------------------------
(* Chains of objects: every object is above what it shadows.                *)
ShadowOf(os) == [x \in Object |-> os[x].mmo_shadowed]
(* r ranks the objects below b: what an object shadows has a lower rank.   *)
Ranks(next, b, r) ==
  b \in Nat /\ r \in [Object -> 0..b] /\ \A x \in Object : next[x] # NoObj => r[next[x]] < r[x]
Ranked(next) ==
  next \in [Object -> Object \cup {NoObj}] /\ \E b, r : Ranks(next, b, r)

(* What holds at the bottom, and above an object if it holds there, holds   *)
(* of all.                                                                  *)
LEMMA ChainInduction ==
  ASSUME NEW next, Ranked(next), NEW T,
         \A x \in Object : next[x] = NoObj => x \in T,
         \A x \in Object : next[x] # NoObj /\ next[x] \in T => x \in T
  PROVE  Object \subseteq T
<1> SUFFICES ASSUME Object \ T # {} PROVE FALSE
  OBVIOUS
<1>1. PICK b, r : Ranks(next, b, r)
  BY DEF Ranked
<1> DEFINE R == {n \in Nat : \E x \in Object \ T : r[x] = n}
<1>2. R # {}
  BY <1>1 DEF Ranks
<1>3. PICK n \in R : \A m \in R : ~(m < n)
  BY <1>2, LeastElement
<1>4. PICK x \in Object \ T : r[x] = n
  BY <1>3
<1>5. next[x] \in Object /\ next[x] \notin T
  BY <1>4 DEF Ranked
<1>6. r[next[x]] \in R /\ r[next[x]] < n
  BY <1>1, <1>4, <1>5 DEF Ranks
<1>. QED BY <1>3, <1>6

(* A set of objects each of which is shadowed by another one is empty.      *)
LEMMA ChainAscent ==
  ASSUME NEW next, Ranked(next), NEW T \in SUBSET Object,
         \A x \in T : \E y \in T : next[y] = x
  PROVE  T = {}
<1> SUFFICES ASSUME T # {} PROVE FALSE
  OBVIOUS
<1>1. PICK b, r : Ranks(next, b, r)
  BY DEF Ranked
<1> DEFINE R == {n \in Nat : \E x \in T : b - r[x] = n}
<1>2. R # {}
  BY <1>1 DEF Ranks
<1>3. PICK n \in R : \A m \in R : ~(m < n)
  BY <1>2, LeastElement
<1>4. PICK x \in T : b - r[x] = n
  BY <1>3
<1>5. PICK y \in T : next[y] = x
  BY <1>4
<1>6. x # NoObj
  BY CowAssumption
<1>7. r[x] \in Nat /\ r[y] \in Nat /\ r[x] < r[y] /\ r[y] <= b
  BY <1>1, <1>5, <1>6 DEF Ranks
<1>8. b - r[y] \in R /\ b - r[y] < n
  BY <1>1, <1>4, <1>7 DEF Ranks
<1>. QED BY <1>3, <1>8

(* A function defined down the chain exists.                                *)
Descends(f, next, Stop, base, G) ==
  \A x \in Object : f[x] = IF x \in Stop THEN base[x] ELSE G[x][f[next[x]]]

(* A function that is given on the set Stop, to which every bottom object  *)
(* belongs, and by G from its value one object down elsewhere, exists.     *)
LEMMA ChainRecursion ==
  ASSUME NEW next, Ranked(next), NEW S, NEW Stop,
         \A x \in Object : next[x] = NoObj => x \in Stop,
         NEW base \in [Object -> S], NEW G \in [Object -> [S -> S]]
  PROVE  \E f \in [Object -> S] : Descends(f, next, Stop, base, G)
<1>1. PICK b, r : Ranks(next, b, r)
  BY DEF Ranked
<1> DEFINE step(f) == [x \in Object |-> IF x \in Stop THEN base[x] ELSE G[x][f[next[x]]]]
           Fits(f, k) == /\ f \in [Object -> S]
                         /\ \A x \in Object : r[x] < k =>
                              f[x] = IF x \in Stop THEN base[x] ELSE G[x][f[next[x]]]
           T == {k \in Nat : \E f : Fits(f, k)}
<1>2. 0 \in T
  <2>1. Fits(base, 0)
    BY <1>1 DEF Ranks
  <2>. QED BY <2>1
<1>3. ASSUME NEW k \in Nat, k \in T PROVE k + 1 \in T
  <2>1. PICK f : Fits(f, k)
    BY <1>3
  <2>2. step(f) \in [Object -> S]
    <3>1. ASSUME NEW x \in Object, x \notin Stop PROVE next[x] \in Object
      BY <3>1 DEF Ranked
    <3>. QED BY <2>1, <3>1
  <2>3. ASSUME NEW x \in Object, r[x] < k PROVE step(f)[x] = f[x]
    BY <2>1, <2>3
  <2>4. ASSUME NEW x \in Object, r[x] < k + 1
        PROVE  step(f)[x] = IF x \in Stop THEN base[x] ELSE G[x][step(f)[next[x]]]
    <3>1. CASE x \in Stop
      BY <3>1
    <3>2. CASE x \notin Stop
      <4>1. next[x] \in Object /\ r[next[x]] < r[x] /\ r[x] \in Nat /\ r[next[x]] \in Nat
        BY <1>1, <3>2 DEF Ranks, Ranked
      <4>2. step(f)[next[x]] = f[next[x]]
        <5>1. r[next[x]] < k
          BY <2>4, <4>1
        <5>. QED BY <2>3, <4>1, <5>1
      <4>. QED BY <3>2, <4>2
    <3>. QED BY <3>1, <3>2
  <2>5. Fits(step(f), k + 1)
    BY <2>2, <2>4
  <2> HIDE DEF Fits, step
  <2>6. k + 1 \in Nat /\ \E g : Fits(g, k + 1)
    BY <2>5
  <2>. QED BY <2>6
<1> HIDE DEF T
<1>4. b + 1 \in T
  <2>1. \A n \in Nat : n \in T
    BY <1>2, <1>3, SetInduction
  <2>. QED BY <1>1, <2>1 DEF Ranks
<1>5. PICK f : Fits(f, b + 1)
  BY <1>4 DEF T
<1>6. \A x \in Object : r[x] < b + 1
  BY <1>1 DEF Ranks
<1>. QED BY <1>5, <1>6 DEF Descends

-----------------------------------------------------------------------------
(* Holder is what its recursive definition says, because chains end.       *)
LEMMA HolderIs ==
  ASSUME NEW os, Ranked(ShadowOf(os)), NEW n, NEW o \in Object
  PROVE  Holder(os, o, n) = IF os[o].mmo_shadowed = NoObj \/ Resident(os, o, n) THEN o ELSE Holder(os, os[o].mmo_shadowed, n)
<1>1. PICK next : next = ShadowOf(os) /\ \A x \in Object : next[x] = os[x].mmo_shadowed
  BY DEF ShadowOf
<1> DEFINE B == [x \in Object |-> x]
           A == [x \in Object |-> [y \in Object |-> y]]
           h[x \in Object] == IF os[x].mmo_shadowed = NoObj \/ Resident(os, x, n) THEN x ELSE h[os[x].mmo_shadowed]
<1>2. PICK base \in [Object -> Object] : base = B
  OBVIOUS
<1>3. PICK G \in [Object -> [Object -> Object]] : G = A
  OBVIOUS
<1>4. PICK Stop : Stop = {x \in Object : os[x].mmo_shadowed = NoObj \/ Resident(os, x, n)}
  OBVIOUS
<1>5. PICK f \in [Object -> Object] : Descends(f, next, Stop, base, G)
  <2>1. Ranked(next) /\ \A x \in Object : next[x] = NoObj => x \in Stop
    BY <1>1, <1>4
  <2> HIDE DEF B, A
  <2>. QED BY ONLY <1>2, <1>3, <2>1, ChainRecursion
<1>6. ASSUME NEW x \in Object PROVE f[x] = IF os[x].mmo_shadowed = NoObj \/ Resident(os, x, n) THEN x ELSE f[os[x].mmo_shadowed]
  <2>1. CASE x \in Stop
    BY <1>2, <1>4, <1>5, <2>1 DEF Descends
  <2>2. CASE x \notin Stop
    <3>1. next[x] \in Object /\ f[x] = G[x][f[next[x]]]
      BY <1>1, <1>4, <1>5, <2>2 DEF Ranked, Descends
    <3>. QED BY <1>1, <1>3, <1>4, <1>5, <2>2, <3>1
  <2>. QED BY <2>1, <2>2
<1>7. f = [x \in Object |-> IF os[x].mmo_shadowed = NoObj \/ Resident(os, x, n) THEN x ELSE f[os[x].mmo_shadowed]]
  <2>1. f = [x \in Object |-> f[x]]
    OBVIOUS
  <2>. QED BY <1>6, <2>1
<1>8. h = [x \in Object |-> IF os[x].mmo_shadowed = NoObj \/ Resident(os, x, n) THEN x ELSE h[os[x].mmo_shadowed]]
  BY <1>7
<1>9. \A x : Holder(os, x, n) = h[x]
  BY DEF Holder
<1> HIDE DEF h
<1>. QED BY <1>8, <1>9

(* So is Landing.                                                          *)
LEMMA LandingIs ==
  ASSUME NEW os, Ranked(ShadowOf(os)), NEW o \in Object
  PROVE  Landing(os, o) = IF os[o].mmo_shadowed = NoObj \/ ~LastRef(os, o) THEN o ELSE Landing(os, os[o].mmo_shadowed)
<1>1. PICK next : next = ShadowOf(os) /\ \A x \in Object : next[x] = os[x].mmo_shadowed
  BY DEF ShadowOf
<1> DEFINE B == [x \in Object |-> x]
           A == [x \in Object |-> [y \in Object |-> y]]
           h[x \in Object] == IF os[x].mmo_shadowed = NoObj \/ ~LastRef(os, x) THEN x ELSE h[os[x].mmo_shadowed]
<1>2. PICK base \in [Object -> Object] : base = B
  OBVIOUS
<1>3. PICK G \in [Object -> [Object -> Object]] : G = A
  OBVIOUS
<1>4. PICK Stop : Stop = {x \in Object : os[x].mmo_shadowed = NoObj \/ ~LastRef(os, x)}
  OBVIOUS
<1>5. PICK f \in [Object -> Object] : Descends(f, next, Stop, base, G)
  <2>1. Ranked(next) /\ \A x \in Object : next[x] = NoObj => x \in Stop
    BY <1>1, <1>4
  <2> HIDE DEF B, A
  <2>. QED BY ONLY <1>2, <1>3, <2>1, ChainRecursion
<1>6. ASSUME NEW x \in Object PROVE f[x] = IF os[x].mmo_shadowed = NoObj \/ ~LastRef(os, x) THEN x ELSE f[os[x].mmo_shadowed]
  <2>1. CASE x \in Stop
    BY <1>2, <1>4, <1>5, <2>1 DEF Descends
  <2>2. CASE x \notin Stop
    <3>1. next[x] \in Object /\ f[x] = G[x][f[next[x]]]
      BY <1>1, <1>4, <1>5, <2>2 DEF Ranked, Descends
    <3>. QED BY <1>1, <1>3, <1>4, <1>5, <2>2, <3>1
  <2>. QED BY <2>1, <2>2
<1>7. f = [x \in Object |-> IF os[x].mmo_shadowed = NoObj \/ ~LastRef(os, x) THEN x ELSE f[os[x].mmo_shadowed]]
  <2>1. f = [x \in Object |-> f[x]]
    OBVIOUS
  <2>. QED BY <1>6, <2>1
<1>8. h = [x \in Object |-> IF os[x].mmo_shadowed = NoObj \/ ~LastRef(os, x) THEN x ELSE h[os[x].mmo_shadowed]]
  BY <1>7
<1>9. \A x : Landing(os, x) = h[x]
  BY DEF Landing
<1> HIDE DEF h
<1>. QED BY <1>8, <1>9

(* So is Dying.                                                            *)
LEMMA DyingIs ==
  ASSUME NEW os, Ranked(ShadowOf(os)), NEW o \in Object
  PROVE  Dying(os, o) = IF os[o].mmo_shadowed = NoObj \/ ~LastRef(os, o) THEN {} ELSE {o} \cup Dying(os, os[o].mmo_shadowed)
<1>1. PICK next : next = ShadowOf(os) /\ \A x \in Object : next[x] = os[x].mmo_shadowed
  BY DEF ShadowOf
<1> DEFINE B == [x \in Object |-> {}]
           A == [x \in Object |-> [y \in (SUBSET Object) |-> {x} \cup y]]
           h[x \in Object] == IF os[x].mmo_shadowed = NoObj \/ ~LastRef(os, x) THEN {} ELSE {x} \cup h[os[x].mmo_shadowed]
<1>2. PICK base \in [Object -> (SUBSET Object)] : base = B
  OBVIOUS
<1>3. PICK G \in [Object -> [(SUBSET Object) -> (SUBSET Object)]] : G = A
  OBVIOUS
<1>4. PICK Stop : Stop = {x \in Object : os[x].mmo_shadowed = NoObj \/ ~LastRef(os, x)}
  OBVIOUS
<1>5. PICK f \in [Object -> (SUBSET Object)] : Descends(f, next, Stop, base, G)
  <2>1. Ranked(next) /\ \A x \in Object : next[x] = NoObj => x \in Stop
    BY <1>1, <1>4
  <2> HIDE DEF B, A
  <2>. QED BY ONLY <1>2, <1>3, <2>1, ChainRecursion
<1>6. ASSUME NEW x \in Object PROVE f[x] = IF os[x].mmo_shadowed = NoObj \/ ~LastRef(os, x) THEN {} ELSE {x} \cup f[os[x].mmo_shadowed]
  <2>1. CASE x \in Stop
    BY <1>2, <1>4, <1>5, <2>1 DEF Descends
  <2>2. CASE x \notin Stop
    <3>1. next[x] \in Object /\ f[x] = G[x][f[next[x]]]
      BY <1>1, <1>4, <1>5, <2>2 DEF Ranked, Descends
    <3>. QED BY <1>1, <1>3, <1>4, <1>5, <2>2, <3>1
  <2>. QED BY <2>1, <2>2
<1>7. f = [x \in Object |-> IF os[x].mmo_shadowed = NoObj \/ ~LastRef(os, x) THEN {} ELSE {x} \cup f[os[x].mmo_shadowed]]
  <2>1. f = [x \in Object |-> f[x]]
    OBVIOUS
  <2>. QED BY <1>6, <2>1
<1>8. h = [x \in Object |-> IF os[x].mmo_shadowed = NoObj \/ ~LastRef(os, x) THEN {} ELSE {x} \cup h[os[x].mmo_shadowed]]
  BY <1>7
<1>9. \A x : Dying(os, x) = h[x]
  BY DEF Dying
<1> HIDE DEF h
<1>. QED BY <1>8, <1>9

(* So is Beneath.                                                          *)
LEMMA BeneathIs ==
  ASSUME NEW os, Ranked(ShadowOf(os)), NEW o \in Object
  PROVE  Beneath(os, o) = IF os[o].mmo_shadowed = NoObj THEN {o} ELSE {o} \cup Beneath(os, os[o].mmo_shadowed)
<1>1. PICK next : next = ShadowOf(os) /\ \A x \in Object : next[x] = os[x].mmo_shadowed
  BY DEF ShadowOf
<1> DEFINE B == [x \in Object |-> {x}]
           A == [x \in Object |-> [y \in (SUBSET Object) |-> {x} \cup y]]
           h[x \in Object] == IF os[x].mmo_shadowed = NoObj THEN {x} ELSE {x} \cup h[os[x].mmo_shadowed]
<1>2. PICK base \in [Object -> (SUBSET Object)] : base = B
  OBVIOUS
<1>3. PICK G \in [Object -> [(SUBSET Object) -> (SUBSET Object)]] : G = A
  OBVIOUS
<1>4. PICK Stop : Stop = {x \in Object : os[x].mmo_shadowed = NoObj}
  OBVIOUS
<1>5. PICK f \in [Object -> (SUBSET Object)] : Descends(f, next, Stop, base, G)
  <2>1. Ranked(next) /\ \A x \in Object : next[x] = NoObj => x \in Stop
    BY <1>1, <1>4
  <2> HIDE DEF B, A
  <2>. QED BY ONLY <1>2, <1>3, <2>1, ChainRecursion
<1>6. ASSUME NEW x \in Object PROVE f[x] = IF os[x].mmo_shadowed = NoObj THEN {x} ELSE {x} \cup f[os[x].mmo_shadowed]
  <2>1. CASE x \in Stop
    BY <1>2, <1>4, <1>5, <2>1 DEF Descends
  <2>2. CASE x \notin Stop
    <3>1. next[x] \in Object /\ f[x] = G[x][f[next[x]]]
      BY <1>1, <1>4, <1>5, <2>2 DEF Ranked, Descends
    <3>. QED BY <1>1, <1>3, <1>4, <1>5, <2>2, <3>1
  <2>. QED BY <2>1, <2>2
<1>7. f = [x \in Object |-> IF os[x].mmo_shadowed = NoObj THEN {x} ELSE {x} \cup f[os[x].mmo_shadowed]]
  <2>1. f = [x \in Object |-> f[x]]
    OBVIOUS
  <2>. QED BY <1>6, <2>1
<1>8. h = [x \in Object |-> IF os[x].mmo_shadowed = NoObj THEN {x} ELSE {x} \cup h[os[x].mmo_shadowed]]
  BY <1>7
<1>9. \A x : Beneath(os, x) = h[x]
  BY DEF Beneath
<1> HIDE DEF h
<1>. QED BY <1>8, <1>9

-----------------------------------------------------------------------------
(* What is beneath an object is the least set with it that is closed.       *)
Closed(os, T) == \A x \in T : os[x].mmo_shadowed # NoObj => os[x].mmo_shadowed \in T
IsBeneath(os, o, B) ==
  /\ B \in SUBSET Object /\ o \in B /\ Closed(os, B)
  /\ \A T : o \in T /\ Closed(os, T) => B \subseteq T

(* Beneath is that set: the objects of the chain and no others.            *)
LEMMA BeneathLeast ==
  ASSUME NEW os, Ranked(ShadowOf(os))
  PROVE  \A o \in Object : IsBeneath(os, o, Beneath(os, o))
<1>1. PICK next : next = ShadowOf(os) /\ \A x \in Object : next[x] = os[x].mmo_shadowed
  BY DEF ShadowOf
<1> DEFINE T == {x \in Object : IsBeneath(os, x, Beneath(os, x))}
<1>2. ASSUME NEW x \in Object, next[x] = NoObj PROVE x \in T
  <2>1. Beneath(os, x) = {x}
    BY <1>1, <1>2, BeneathIs
  <2>. QED BY <1>1, <1>2, <2>1 DEF IsBeneath, Closed
<1>3. ASSUME NEW x \in Object, next[x] # NoObj, next[x] \in T PROVE x \in T
  <2>1. PICK y \in Object : y = next[x]
    BY <1>3
  <2>2. Beneath(os, x) = {x} \cup Beneath(os, y)
    BY <1>1, <1>3, <2>1, BeneathIs
  <2>3. PICK B : B = Beneath(os, y)
    OBVIOUS
  <2>4. IsBeneath(os, y, B) /\ os[x].mmo_shadowed = y /\ y # NoObj
    BY <1>1, <1>3, <2>1, <2>3
  <2>5. PICK C : C = {x} \cup B
    OBVIOUS
  <2>6. C \in SUBSET Object /\ x \in C /\ Closed(os, C)
    BY <2>4, <2>5 DEF IsBeneath, Closed
  <2>7. ASSUME NEW U, x \in U, Closed(os, U) PROVE C \subseteq U
    <3>1. y \in U
      BY <2>4, <2>7 DEF Closed
    <3>. QED BY <2>4, <2>5, <2>7, <3>1 DEF IsBeneath
  <2>8. IsBeneath(os, x, C)
    BY ONLY <2>6, <2>7 DEF IsBeneath
  <2>. QED BY <2>2, <2>3, <2>5, <2>8
<1>4. Object \subseteq T
  <2> HIDE DEF T
  <2>1. Ranked(next)
    BY <1>1
  <2>. QED BY <1>2, <1>3, <2>1, ChainInduction
<1>. QED BY <1>4

(* Where the chain below o is the same, what is beneath o is the same.      *)
LEMMA BeneathSame ==
  ASSUME NEW os, Ranked(ShadowOf(os)), NEW ns, Ranked(ShadowOf(ns)), NEW o \in Object,
         \A x \in Beneath(os, o) : ns[x].mmo_shadowed = os[x].mmo_shadowed
  PROVE  Beneath(ns, o) = Beneath(os, o)
<1>1. IsBeneath(os, o, Beneath(os, o)) /\ IsBeneath(ns, o, Beneath(ns, o))
  BY BeneathLeast
<1>2. PICK B : B = Beneath(os, o)
  OBVIOUS
<1>3. PICK C : C = Beneath(ns, o)
  OBVIOUS
<1>4. Closed(ns, B)
  BY <1>1, <1>2 DEF IsBeneath, Closed
<1>5. C \subseteq B
  BY <1>1, <1>2, <1>3, <1>4 DEF IsBeneath
<1>6. Closed(os, C)
  BY <1>1, <1>2, <1>3, <1>5 DEF IsBeneath, Closed
<1>7. B \subseteq C
  BY <1>1, <1>2, <1>3, <1>6 DEF IsBeneath
<1>. QED BY <1>2, <1>3, <1>5, <1>7

(* The object a lookup ends with is beneath, and is the bottom one or has   *)
(* the page.                                                                *)
LEMMA HolderIn ==
  ASSUME NEW os, Ranked(ShadowOf(os)), NEW n
  PROVE  \A o \in Object : LET h == Holder(os, o, n) IN
           /\ h \in Beneath(os, o)
           /\ os[h].mmo_shadowed = NoObj \/ Resident(os, h, n)
<1>1. PICK next : next = ShadowOf(os) /\ \A x \in Object : next[x] = os[x].mmo_shadowed
  BY DEF ShadowOf
<1> DEFINE T == {x \in Object : /\ Holder(os, x, n) \in Beneath(os, x)
                                /\ os[Holder(os, x, n)].mmo_shadowed = NoObj \/ Resident(os, Holder(os, x, n), n)}
<1>2. ASSUME NEW x \in Object, next[x] = NoObj PROVE x \in T
  <2>1. Holder(os, x, n) = x /\ Beneath(os, x) = {x}
    BY <1>1, <1>2, HolderIs, BeneathIs
  <2>. QED BY <1>1, <1>2, <2>1
<1>3. ASSUME NEW x \in Object, next[x] # NoObj, next[x] \in T PROVE x \in T
  <2>1. PICK y \in Object : y = next[x]
    BY <1>3
  <2>2. Beneath(os, x) = {x} \cup Beneath(os, y)
    BY <1>1, <1>3, <2>1, BeneathIs
  <2>3. Holder(os, x, n) = IF Resident(os, x, n) THEN x ELSE Holder(os, y, n)
    BY <1>1, <1>3, <2>1, HolderIs
  <2>. QED BY <1>3, <2>1, <2>2, <2>3
<1>4. Object \subseteq T
  <2> HIDE DEF T
  <2>1. Ranked(next)
    BY <1>1
  <2>. QED BY <1>2, <1>3, <2>1, ChainInduction
<1>. QED BY <1>4

(* A lookup ends with the same object where the chain and the shadow        *)
(* objects' resident pages are the same.                                    *)
LEMMA HolderSame ==
  ASSUME NEW os, Ranked(ShadowOf(os)), NEW ns, Ranked(ShadowOf(ns)), NEW n
  PROVE  \A o \in Object :
           (\A x \in Beneath(os, o) : /\ ns[x].mmo_shadowed = os[x].mmo_shadowed
                                      /\ os[x].mmo_shadowed # NoObj => (Resident(ns, x, n) <=> Resident(os, x, n)))
           => Holder(ns, o, n) = Holder(os, o, n)
<1>1. PICK next : next = ShadowOf(os) /\ \A x \in Object : next[x] = os[x].mmo_shadowed
  BY DEF ShadowOf
<1> DEFINE Like(x) == /\ ns[x].mmo_shadowed = os[x].mmo_shadowed
                      /\ os[x].mmo_shadowed # NoObj => (Resident(ns, x, n) <=> Resident(os, x, n))
           T == {x \in Object : (\A y \in Beneath(os, x) : Like(y)) => Holder(ns, x, n) = Holder(os, x, n)}
<1>2. ASSUME NEW x \in Object, next[x] = NoObj PROVE x \in T
  <2>1. Holder(os, x, n) = x /\ Beneath(os, x) = {x}
    BY <1>1, <1>2, HolderIs, BeneathIs
  <2>2. Like(x) => Holder(ns, x, n) = x
    BY <1>1, <1>2, HolderIs
  <2>. QED BY <2>1, <2>2
<1>3. ASSUME NEW x \in Object, next[x] # NoObj, next[x] \in T PROVE x \in T
  <2>1. PICK y \in Object : y = next[x]
    BY <1>3
  <2>2. Beneath(os, x) = {x} \cup Beneath(os, y)
    BY <1>1, <1>3, <2>1, BeneathIs
  <2>3. Holder(os, x, n) = IF Resident(os, x, n) THEN x ELSE Holder(os, y, n)
    BY <1>1, <1>3, <2>1, HolderIs
  <2>4. ASSUME \A z \in Beneath(os, x) : Like(z) PROVE Holder(ns, x, n) = Holder(os, x, n)
    <3>1. Like(x) /\ \A z \in Beneath(os, y) : Like(z)
      BY <2>2, <2>4
    <3>2. ns[x].mmo_shadowed = y /\ y # NoObj /\ (Resident(ns, x, n) <=> Resident(os, x, n))
      BY <1>1, <1>3, <2>1, <3>1
    <3>3. Holder(ns, x, n) = IF Resident(ns, x, n) THEN x ELSE Holder(ns, y, n)
      BY <3>2, HolderIs
    <3>4. Holder(ns, y, n) = Holder(os, y, n)
      BY <1>3, <2>1, <3>1
    <3>. QED BY <2>3, <3>2, <3>3, <3>4
  <2>. QED BY <2>4
<1>4. Object \subseteq T
  <2> HIDE DEF T
  <2>1. Ranked(next)
    BY <1>1
  <2>. QED BY <1>2, <1>3, <2>1, ChainInduction
<1>. QED BY <1>4

(* Ranks after a change: the objects of N, new ones, may shadow old ones.   *)
LEMMA RankedStep ==
  ASSUME NEW next, Ranked(next), NEW new \in [Object -> Object \cup {NoObj}], NEW N,
         \A x \in Object : new[x] # NoObj => new[x] \notin N /\ (x \in N \/ new[x] = next[x])
  PROVE  Ranked(new)
<1>1. PICK b, r : b \in Nat /\ r \in [Object -> 0..b] /\ \A x \in Object : next[x] # NoObj => r[next[x]] < r[x]
  BY DEF Ranked, Ranks
<1>2. PICK s : s = [x \in Object |-> IF x \in N THEN b + 1 ELSE r[x]]
  OBVIOUS
<1>3. s \in [Object -> 0..(b + 1)]
  BY <1>1, <1>2
<1>4. \A x \in Object : new[x] # NoObj => s[new[x]] < s[x]
  <2> SUFFICES ASSUME NEW x \in Object, new[x] # NoObj PROVE s[new[x]] < s[x]
    OBVIOUS
  <2>1. PICK y \in Object : y = new[x]
    OBVIOUS
  <2>2. y \notin N
    BY <2>1
  <2>5. s[y] = r[y] /\ r[y] \in 0..b
    BY ONLY <1>1, <1>2, <2>1, <2>2
  <2>3. CASE x \in N
    <3>1. s[x] = b + 1
      BY <1>2, <2>3
    <3>. QED BY <1>1, <2>1, <2>5, <3>1
  <2>4. CASE x \notin N
    <3>1. s[x] = r[x] /\ next[x] = y /\ next[x] # NoObj
      BY <1>2, <2>1, <2>4
    <3>. QED BY <1>1, <2>1, <2>5, <3>1
  <2>. QED BY <2>3, <2>4
<1>5. Ranks(new, b + 1, s)
  BY ONLY <1>1, <1>3, <1>4 DEF Ranks
<1>. QED BY <1>5 DEF Ranked

-----------------------------------------------------------------------------
(***************************************************************************)
(* 2. The invariant on objects and areas                                   *)
(***************************************************************************)
(* The inductive invariant on objects and areas.                            *)
ObjType == [kind : {"free", "anon", "shadow", "file"},
            mmo_refcount : Nat,
            mmo_shadowed : Object \cup {NoObj},
            mmo_bottom_obj : Object \cup {NoObj},
            res : [Page -> [Word -> Value] \cup {NotResident}]]
AreaType == [obj : Object, shared : BOOLEAN]
ObjsType(os) == os \in [Object -> ObjType]
VmaType(vm) == vm \in [Process -> [Area -> {NoArea} \cup AreaType]]

(* Who names an object: areas, the shadow objects over it, and the shadow  *)
(* objects it is the bottom of; the file's vnode holds it once more.       *)
Uses(vm, u, o) == vm[u[1]][u[2]] # NoArea /\ vm[u[1]][u[2]].obj = o
UsersOf(vm, o) == {u \in Process \X Area : Uses(vm, u, o)}
Shadowers(os, o) == {s \in Object : os[s].mmo_shadowed = o}
Bottomed(os, o) == {s \in Object : os[s].mmo_bottom_obj = o}
Refs(os, vm, o) ==
  Cardinality(UsersOf(vm, o)) + Cardinality(Shadowers(os, o))
  + Cardinality(Bottomed(os, o)) + (IF o = File THEN 1 ELSE 0)

(* An object's fields fit its kind.  Only the file's object is of kind     *)
(* file, a shadow object shadows one and keeps the bottom of its chain.    *)
Shape(os, x) ==
  /\ os[x].kind = "free" => os[x] = FreeObj
  /\ os[x].kind = "file" <=> x = File
  /\ os[x].kind = "shadow" <=> os[x].mmo_shadowed # NoObj
  /\ os[x].kind # "shadow" => os[x].mmo_bottom_obj = NoObj
  /\ os[x].kind = "shadow" => os[x].mmo_bottom_obj = Bottom(os, os[x].mmo_shadowed)

(* A shared area is over a bottom object, a private one over a shadow      *)
(* object that is its own: no other area and no shadow object names it.    *)
AreaFits(os, vm, p, a) ==
  vm[p][a] # NoArea =>
    LET o == vm[p][a].obj IN
    IF vm[p][a].shared THEN os[o].mmo_shadowed = NoObj
    ELSE os[o].mmo_shadowed # NoObj /\ UsersOf(vm, o) = {<<p, a>>} /\ Shadowers(os, o) = {}

(* The reference count is the number of references and resident pages, and *)
(* an object in use has a reference.                                       *)
CountedObj(os, vm, o) ==
  IF os[o].kind = "free" THEN Refs(os, vm, o) = 0
  ELSE /\ os[o].mmo_refcount = Refs(os, vm, o) + mmo_nrespages(os, o)
       /\ Refs(os, vm, o) # 0

(* The invariant on objects and areas: types, chains that end, and the     *)
(* above.                                                                  *)
ObjInv(os, vm) ==
  /\ ObjsType(os) /\ VmaType(vm)
  /\ Ranked(ShadowOf(os))
  /\ \A x \in Object : Shape(os, x)
  /\ \A p \in Process, a \in Area : AreaFits(os, vm, p, a)
  /\ \A o \in Object : CountedObj(os, vm, o)

-----------------------------------------------------------------------------
(* put: the objects that die, and the one where the puts end.               *)
PutPath(os, o, D, l) ==
  /\ D \in SUBSET Object /\ l \in Object
  /\ \A y \in D : /\ os[y].mmo_shadowed # NoObj /\ LastRef(os, y)
                  /\ os[y].mmo_shadowed \in D \cup {l}
                  /\ y = o \/ \E z \in D : os[z].mmo_shadowed = y
                  /\ Bottom(os, y) = Bottom(os, o)
  /\ os[l].mmo_shadowed = NoObj \/ ~LastRef(os, l)
  /\ Bottom(os, l) = Bottom(os, o)
  /\ \/ D = {} /\ l = o
     \/ o \in D /\ \E s \in D : \A t \in D : os[t].mmo_shadowed = l <=> t = s

(* Landing and Dying, of put, are the end and the objects of a prefix of   *)
(* the chain in which each had its last reference (shadow.c:117-151).      *)
LEMMA PutPathIs ==
  ASSUME NEW os, Ranked(ShadowOf(os)), \A x \in Object : os[x].mmo_shadowed # NoObj =>
           os[x].mmo_bottom_obj = Bottom(os, os[x].mmo_shadowed)
  PROVE  \A o \in Object : PutPath(os, o, Dying(os, o), Landing(os, o))
<1>1. PICK next : next = ShadowOf(os) /\ \A x \in Object : next[x] = os[x].mmo_shadowed
  BY DEF ShadowOf
<1> DEFINE T == {x \in Object : PutPath(os, x, Dying(os, x), Landing(os, x))}
<1>2. ASSUME NEW x \in Object, next[x] = NoObj \/ ~LastRef(os, x) PROVE x \in T
  <2>1. Dying(os, x) = {} /\ Landing(os, x) = x
    BY <1>1, <1>2, DyingIs, LandingIs
  <2>2. PutPath(os, x, {}, x)
    BY <1>1, <1>2 DEF PutPath
  <2>. QED BY <2>1, <2>2
<1>3. ASSUME NEW x \in Object, next[x] # NoObj, next[x] \in T, LastRef(os, x) PROVE x \in T
  <2>1. PICK y \in Object : y = next[x]
    BY <1>3
  <2>2. PICK D : D = Dying(os, y)
    OBVIOUS
  <2>3. PICK l : l = Landing(os, y)
    OBVIOUS
  <2>4. Dying(os, x) = {x} \cup D /\ Landing(os, x) = l
    BY <1>1, <1>3, <2>1, <2>2, <2>3, DyingIs, LandingIs
  <2>5. PutPath(os, y, D, l) /\ os[x].mmo_shadowed = y /\ y # NoObj
    BY <1>1, <1>3, <2>1, <2>2, <2>3
  <2>6. Bottom(os, x) = Bottom(os, y)
    BY <2>5 DEF Bottom
  <2>7. PICK E : E = {x} \cup D
    OBVIOUS
  <2>8. E \in SUBSET Object /\ l \in Object
    BY <2>5, <2>7 DEF PutPath
  <2>9. ASSUME NEW z \in E
        PROVE  /\ os[z].mmo_shadowed # NoObj /\ LastRef(os, z)
               /\ os[z].mmo_shadowed \in E \cup {l}
               /\ z = x \/ \E v \in E : os[v].mmo_shadowed = z
               /\ Bottom(os, z) = Bottom(os, x)
    <3>1. y \in D \cup {l}
      BY <2>5 DEF PutPath
    <3>2. CASE z = x
      BY <1>3, <2>5, <2>7, <3>1, <3>2
    <3>3. CASE z \in D
      <4>1. /\ os[z].mmo_shadowed # NoObj /\ LastRef(os, z)
            /\ os[z].mmo_shadowed \in D \cup {l}
            /\ z = y \/ \E v \in D : os[v].mmo_shadowed = z
            /\ Bottom(os, z) = Bottom(os, y)
        BY <2>5, <3>3 DEF PutPath
      <4>. QED BY <2>5, <2>6, <2>7, <4>1
    <3>. QED BY <2>7, <2>9, <3>2, <3>3
  <2>10. os[l].mmo_shadowed = NoObj \/ ~LastRef(os, l)
    BY <2>5 DEF PutPath
  <2>11. Bottom(os, l) = Bottom(os, x)
    BY <2>5, <2>6 DEF PutPath
  <2>12. l \notin E
    BY <1>1, <1>3, <2>5, <2>7, <2>10 DEF PutPath
  <2>13. x \in E /\ \E s \in E : \A t \in E : os[t].mmo_shadowed = l <=> t = s
    <3>1. CASE D = {} /\ l = y
      BY <2>5, <2>7, <3>1
    <3>2. CASE y \in D
      <4>1. PICK s \in D : \A t \in D : os[t].mmo_shadowed = l <=> t = s
        BY <2>5, <3>2 DEF PutPath
      <4>2. os[x].mmo_shadowed # l
        BY <2>5, <2>7, <2>12, <3>2
      <4>. QED BY <2>7, <4>1, <4>2
    <3>. QED BY <2>5, <3>1, <3>2 DEF PutPath
  <2>14. PutPath(os, x, E, l)
    BY ONLY <2>8, <2>9, <2>10, <2>11, <2>13 DEF PutPath
  <2>. QED BY <2>4, <2>7, <2>14
<1>4. Object \subseteq T
  <2> HIDE DEF T
  <2>1. Ranked(next)
    BY <1>1
  <2>. QED BY <1>2, <1>3, <2>1, ChainInduction
<1>. QED BY <1>4

-----------------------------------------------------------------------------
(* Counting references.                                                     *)
LEMMA RefsFinite ==
  ASSUME NEW os, NEW vm, NEW o
  PROVE  /\ IsFiniteSet(UsersOf(vm, o)) /\ Cardinality(UsersOf(vm, o)) \in Nat
         /\ IsFiniteSet(Shadowers(os, o)) /\ Cardinality(Shadowers(os, o)) \in Nat
         /\ IsFiniteSet(Bottomed(os, o)) /\ Cardinality(Bottomed(os, o)) \in Nat
         /\ Refs(os, vm, o) \in Nat
<1>1. IsFiniteSet(Process \X Area) /\ IsFiniteSet(Object)
  BY CowAssumption, FS_Product
<1>2. UsersOf(vm, o) \in SUBSET (Process \X Area)
  BY DEF UsersOf
<1>3. Shadowers(os, o) \in SUBSET Object /\ Bottomed(os, o) \in SUBSET Object
  BY DEF Shadowers, Bottomed
<1>4. IsFiniteSet(UsersOf(vm, o)) /\ IsFiniteSet(Shadowers(os, o)) /\ IsFiniteSet(Bottomed(os, o))
  BY <1>1, <1>2, <1>3, FS_Subset
<1>5. Cardinality(UsersOf(vm, o)) \in Nat /\ Cardinality(Shadowers(os, o)) \in Nat /\ Cardinality(Bottomed(os, o)) \in Nat
  BY <1>4, FS_CardinalityType
<1>. QED BY <1>4, <1>5 DEF Refs

(* An object without references is named by nobody, and is not the file's. *)
LEMMA NoRefs ==
  ASSUME NEW os, NEW vm, NEW o
  PROVE  Refs(os, vm, o) = 0 <=> /\ UsersOf(vm, o) = {} /\ Shadowers(os, o) = {}
                                 /\ Bottomed(os, o) = {} /\ o # File
<1>1. PICK u \in Nat : u = Cardinality(UsersOf(vm, o)) /\ (u = 0 <=> UsersOf(vm, o) = {})
  BY RefsFinite, FS_EmptySet
<1>2. PICK s \in Nat : s = Cardinality(Shadowers(os, o)) /\ (s = 0 <=> Shadowers(os, o) = {})
  BY RefsFinite, FS_EmptySet
<1>3. PICK b \in Nat : b = Cardinality(Bottomed(os, o)) /\ (b = 0 <=> Bottomed(os, o) = {})
  BY RefsFinite, FS_EmptySet
<1>4. PICK f \in Nat : f = (IF o = File THEN 1 ELSE 0) /\ (f = 0 <=> o # File)
  OBVIOUS
<1>5. Refs(os, vm, o) = u + s + b + f
  BY <1>1, <1>2, <1>3, <1>4 DEF Refs
<1>6. u + s + b + f = 0 <=> u = 0 /\ s = 0 /\ b = 0 /\ f = 0
  OBVIOUS
<1>. QED BY ONLY <1>1, <1>2, <1>3, <1>4, <1>5, <1>6

(* The number of resident pages is a natural number.                       *)
LEMMA ResidentCount ==
  ASSUME NEW os, NEW o
  PROVE  IsFiniteSet({n \in Page : Resident(os, o, n)}) /\ mmo_nrespages(os, o) \in Nat
<1>1. {n \in Page : Resident(os, o, n)} \in SUBSET Page
  OBVIOUS
<1>2. IsFiniteSet({n \in Page : Resident(os, o, n)})
  BY <1>1, CowAssumption, FS_Subset
<1>. QED BY <1>2, FS_CardinalityType DEF mmo_nrespages

(* The bottom of a chain shadows nothing, and is beneath.                   *)
LEMMA BottomIs ==
  ASSUME NEW os, Ranked(ShadowOf(os)), \A x \in Object : os[x].mmo_shadowed # NoObj =>
           os[x].mmo_bottom_obj = Bottom(os, os[x].mmo_shadowed)
  PROVE  \A o \in Object : /\ Bottom(os, o) \in Object
                           /\ os[Bottom(os, o)].mmo_shadowed = NoObj
                           /\ Bottom(os, o) \in Beneath(os, o)
<1>1. PICK next : next = ShadowOf(os) /\ \A x \in Object : next[x] = os[x].mmo_shadowed
  BY DEF ShadowOf
<1> DEFINE T == {x \in Object : /\ Bottom(os, x) \in Object
                                /\ os[Bottom(os, x)].mmo_shadowed = NoObj
                                /\ Bottom(os, x) \in Beneath(os, x)}
<1>2. ASSUME NEW x \in Object, next[x] = NoObj PROVE x \in T
  <2>1. Beneath(os, x) = {x} /\ Bottom(os, x) = x
    BY <1>1, <1>2, BeneathIs DEF Bottom
  <2>. QED BY <1>1, <1>2, <2>1
<1>3. ASSUME NEW x \in Object, next[x] # NoObj, next[x] \in T PROVE x \in T
  <2>1. PICK y \in Object : y = next[x]
    BY <1>3
  <2>2. Beneath(os, x) = {x} \cup Beneath(os, y)
    BY <1>1, <1>3, <2>1, BeneathIs
  <2>3. Bottom(os, x) = Bottom(os, y)
    BY <1>1, <1>3, <2>1 DEF Bottom
  <2>. QED BY <1>3, <2>1, <2>2, <2>3
<1>4. Object \subseteq T
  <2> HIDE DEF T
  <2>1. Ranked(next)
    BY <1>1
  <2>. QED BY <1>2, <1>3, <2>1, ChainInduction
<1>. QED BY <1>4

(* What the invariant says of chains.                                       *)
LEMMA ObjFacts ==
  ASSUME NEW os, NEW vm, ObjInv(os, vm)
  PROVE  /\ Ranked(ShadowOf(os)) /\ ObjsType(os) /\ VmaType(vm)
         /\ \A x \in Object : os[x].mmo_shadowed # NoObj => /\ os[x].mmo_bottom_obj = Bottom(os, os[x].mmo_shadowed)
                                                            /\ os[x].mmo_shadowed \in Object
         /\ \A o \in Object : /\ Bottom(os, o) \in Object
                              /\ os[Bottom(os, o)].mmo_shadowed = NoObj
                              /\ Bottom(os, o) \in Beneath(os, o)
         /\ \A o \in Object : IsBeneath(os, o, Beneath(os, o))
         /\ \A o \in Object : os[o].kind = "free" =>
              /\ UsersOf(vm, o) = {} /\ Shadowers(os, o) = {} /\ Bottomed(os, o) = {} /\ o # File
<1>1. Ranked(ShadowOf(os)) /\ ObjsType(os) /\ VmaType(vm)
  BY DEF ObjInv
<1>2. \A x \in Object : os[x].mmo_shadowed # NoObj => /\ os[x].mmo_bottom_obj = Bottom(os, os[x].mmo_shadowed)
                                                      /\ os[x].mmo_shadowed \in Object
  BY DEF ObjInv, Shape, ObjsType, ObjType
<1>3. \A o \in Object : os[o].kind = "free" =>
              /\ UsersOf(vm, o) = {} /\ Shadowers(os, o) = {} /\ Bottomed(os, o) = {} /\ o # File
  BY NoRefs DEF ObjInv, CountedObj
<1>4. \A o \in Object : /\ Bottom(os, o) \in Object
                        /\ os[Bottom(os, o)].mmo_shadowed = NoObj
                        /\ Bottom(os, o) \in Beneath(os, o)
  BY <1>1, <1>2, BottomIs
<1>5. \A o \in Object : IsBeneath(os, o, Beneath(os, o))
  BY <1>1, BeneathLeast
<1>. QED BY <1>1, <1>2, <1>3, <1>4, <1>5

(* Nothing beneath an object in use is free.                               *)
LEMMA BeneathNotFree ==
  ASSUME NEW os, NEW vm, ObjInv(os, vm), NEW o \in Object, os[o].kind # "free"
  PROVE  \A x \in Beneath(os, o) : os[x].kind # "free"
<1>1. PICK T : T = {x \in Object : os[x].kind # "free"}
  OBVIOUS
<1>2. Closed(os, T)
  <2> SUFFICES ASSUME NEW x \in T, os[x].mmo_shadowed # NoObj PROVE os[x].mmo_shadowed \in T
    BY DEF Closed
  <2>1. PICK y \in Object : y = os[x].mmo_shadowed
    BY <1>1, ObjFacts
  <2>2. x \in Shadowers(os, y)
    BY <1>1, <2>1 DEF Shadowers
  <2>3. os[y].kind # "free"
    BY <2>2, ObjFacts
  <2>. QED BY <1>1, <2>1, <2>3
<1>3. IsBeneath(os, o, Beneath(os, o))
  BY ObjFacts
<1>4. Beneath(os, o) \subseteq T
  BY <1>1, <1>2, <1>3 DEF IsBeneath
<1>. QED BY <1>1, <1>4

(* A private area's object is beneath no other area's.                      *)
LEMMA PrivateApart ==
  ASSUME NEW os, NEW vm, ObjInv(os, vm), NEW p \in Process, NEW a \in Area, NEW q \in Process,
         NEW b \in Area,
         vm[p][a] # NoArea, ~vm[p][a].shared, vm[q][b] # NoArea, <<q, b>> # <<p, a>>
  PROVE  vm[p][a].obj \notin Beneath(os, vm[q][b].obj)
<1>1. vm[p][a] \in AreaType /\ vm[q][b] \in AreaType
  BY DEF ObjInv, VmaType
<1>2. PICK o \in Object : o = vm[p][a].obj
  BY <1>1 DEF AreaType
<1>3. PICK x \in Object : x = vm[q][b].obj
  BY <1>1 DEF AreaType
<1>4. UsersOf(vm, o) = {<<p, a>>} /\ Shadowers(os, o) = {}
  BY <1>2 DEF ObjInv, AreaFits
<1>5. <<q, b>> \in UsersOf(vm, x)
  BY <1>3 DEF UsersOf, Uses
<1>6. x # o
  BY <1>4, <1>5
<1>7. PICK T : T = Object \ {o}
  OBVIOUS
<1>8. Closed(os, T)
  BY <1>4, <1>7, ObjFacts DEF Closed, Shadowers
<1>9. Beneath(os, x) \subseteq T
  BY <1>6, <1>7, <1>8, ObjFacts DEF IsBeneath
<1>. QED BY <1>2, <1>3, <1>7, <1>9
-----------------------------------------------------------------------------
(* Changes of reference counts and frames that leave the chains alone.      *)
GraphSame(os, ns) ==
  \A x \in Object : /\ ns[x].kind = os[x].kind
                    /\ ns[x].mmo_shadowed = os[x].mmo_shadowed
                    /\ ns[x].mmo_bottom_obj = os[x].mmo_bottom_obj

(* Then chains, bottoms, references and what areas are over are the same.  *)
LEMMA GraphSameFacts ==
  ASSUME NEW os, NEW vm, ObjInv(os, vm), NEW ns, GraphSame(os, ns)
  PROVE  /\ ShadowOf(ns) = ShadowOf(os)
         /\ \A x \in Object : Bottom(ns, x) = Bottom(os, x)
         /\ \A x \in Object : Beneath(ns, x) = Beneath(os, x)
         /\ \A x : Shadowers(ns, x) = Shadowers(os, x) /\ Bottomed(ns, x) = Bottomed(os, x)
         /\ \A x : Refs(ns, vm, x) = Refs(os, vm, x)
         /\ \A p \in Process, a \in Area : AreaFits(ns, vm, p, a)
         /\ \A x \in Object : os[x].kind # "free" \/ ns[x] = os[x] => Shape(ns, x)
<1>1. ShadowOf(ns) = ShadowOf(os)
  BY DEF GraphSame, ShadowOf
<1>2. \A x \in Object : Bottom(ns, x) = Bottom(os, x)
  BY DEF GraphSame, Bottom
<1>3. \A x \in Object : Beneath(ns, x) = Beneath(os, x)
  <2> SUFFICES ASSUME NEW x \in Object PROVE Beneath(ns, x) = Beneath(os, x)
    OBVIOUS
  <2>1. Ranked(ShadowOf(os)) /\ Ranked(ShadowOf(ns))
    BY <1>1, ObjFacts
  <2>2. Beneath(os, x) \subseteq Object
    BY ObjFacts DEF IsBeneath
  <2>. QED BY <2>1, <2>2, BeneathSame DEF GraphSame
<1>4. \A x : Shadowers(ns, x) = Shadowers(os, x) /\ Bottomed(ns, x) = Bottomed(os, x)
  BY DEF GraphSame, Shadowers, Bottomed
<1>5. \A x : Refs(ns, vm, x) = Refs(os, vm, x)
  BY <1>4 DEF Refs
<1>6. ASSUME NEW p \in Process, NEW a \in Area PROVE AreaFits(ns, vm, p, a)
  <2>1. AreaFits(os, vm, p, a)
    BY DEF ObjInv
  <2>2. CASE vm[p][a] = NoArea
    BY <2>2 DEF AreaFits
  <2>3. CASE vm[p][a] # NoArea
    <3>1. PICK o \in Object : o = vm[p][a].obj
      BY <2>3 DEF ObjInv, VmaType, AreaType
    <3>2. ns[o].mmo_shadowed = os[o].mmo_shadowed
      BY DEF GraphSame
    <3>. QED BY <1>4, <2>1, <3>1, <3>2 DEF AreaFits
  <2>. QED BY <2>2, <2>3
<1>7. ASSUME NEW x \in Object, os[x].kind # "free" \/ ns[x] = os[x] PROVE Shape(ns, x)
  <2>1. Shape(os, x)
    BY DEF ObjInv
  <2>2. ns[x].kind = os[x].kind /\ ns[x].mmo_shadowed = os[x].mmo_shadowed /\ ns[x].mmo_bottom_obj = os[x].mmo_bottom_obj
    BY DEF GraphSame
  <2>3. os[x].kind = "shadow" => Bottom(ns, os[x].mmo_shadowed) = Bottom(os, os[x].mmo_shadowed)
    <3>1. os[x].kind = "shadow" => os[x].mmo_shadowed \in Object
      BY <2>1, ObjFacts DEF Shape
    <3>. QED BY <1>2, <3>1
  <2>. QED BY <1>7, <2>1, <2>2, <2>3 DEF Shape
<1>. QED BY <1>1, <1>2, <1>3, <1>4, <1>5, <1>6, <1>7

-----------------------------------------------------------------------------
(***************************************************************************)
(* 3. Lookups, put, mmap and fork keep it                                  *)
(***************************************************************************)
(* A page becomes resident.                                                 *)
LEMMA AllocKeeps ==
  ASSUME NEW os, NEW vm, ObjInv(os, vm), NEW o \in Object, NEW n \in Page,
         NEW x \in [Word -> Value],
         os[o].kind # "free", ~Resident(os, o, n)
  PROVE  LET ns == pframe_alloc(os, o, n, x) IN
         /\ ObjInv(ns, vm) /\ GraphSame(os, ns)
         /\ ns[o].res = [os[o].res EXCEPT ![n] = x]
         /\ \A y \in Object : y # o => ns[y] = os[y]
<1>1. PICK ns : ns = pframe_alloc(os, o, n, x)
  OBVIOUS
<1>2. os \in [Object -> ObjType]
  BY DEF ObjInv, ObjsType
<1>3. ns = [os EXCEPT ![o] = [os[o] EXCEPT !.res = [os[o].res EXCEPT ![n] = x], !.mmo_refcount = os[o].mmo_refcount + 1]]
  BY <1>1, <1>2 DEF pframe_alloc, ObjType
<1>4. \A y \in Object : y # o => ns[y] = os[y]
  BY <1>2, <1>3
<1>5. PICK r : r = os[o]
  OBVIOUS
<1>6. /\ r \in ObjType
      /\ ns[o] = [r EXCEPT !.res = [r.res EXCEPT ![n] = x], !.mmo_refcount = r.mmo_refcount + 1]
  BY <1>2, <1>3, <1>5
<1>7. /\ ns[o].kind = r.kind /\ ns[o].mmo_shadowed = r.mmo_shadowed /\ ns[o].mmo_bottom_obj = r.mmo_bottom_obj
      /\ ns[o].mmo_refcount = r.mmo_refcount + 1 /\ ns[o].res = [r.res EXCEPT ![n] = x]
  BY ONLY <1>6 DEF ObjType
<1>8. GraphSame(os, ns)
  BY <1>4, <1>5, <1>7 DEF GraphSame
<1>9. ns[o] \in ObjType
  <2>1. PICK k \in Nat : k = r.mmo_refcount + 1
    BY <1>6 DEF ObjType
  <2>2. PICK f \in [Page -> [Word -> Value] \cup {NotResident}] : f = [r.res EXCEPT ![n] = x]
    BY <1>6 DEF ObjType
  <2>. QED BY ONLY <1>6, <2>1, <2>2 DEF ObjType
<1>10. ObjsType(ns)
  <2>1. ns \in [Object -> ObjType]
    BY <1>2, <1>3, <1>5, <1>6, <1>9
  <2>. QED BY <2>1 DEF ObjsType
<1>11. x # NotResident
  BY CowAssumption
<1>12. mmo_nrespages(ns, o) = mmo_nrespages(os, o) + 1
  <2>1. r.res \in [Page -> [Word -> Value] \cup {NotResident}]
    BY ONLY <1>6 DEF ObjType
  <2>2. {m \in Page : Resident(ns, o, m)} = {m \in Page : Resident(os, o, m)} \cup {n}
    BY <1>5, <1>7, <1>11, <2>1 DEF Resident
  <2>3. n \notin {m \in Page : Resident(os, o, m)}
    OBVIOUS
  <2>4. PICK S : S = {m \in Page : Resident(os, o, m)} /\ IsFiniteSet(S) /\ n \notin S
    BY <2>3, ResidentCount
  <2>5. Cardinality(S \cup {n}) = Cardinality(S) + 1
    BY <2>4, FS_AddElement
  <2>. QED BY <2>2, <2>4, <2>5 DEF mmo_nrespages
<1>13. ASSUME NEW y \in Object PROVE CountedObj(ns, vm, y)
  <2>1. CountedObj(os, vm, y) /\ Refs(ns, vm, y) = Refs(os, vm, y)
    BY <1>8, GraphSameFacts DEF ObjInv
  <2>2. CASE y # o
    BY <1>4, <2>1, <2>2 DEF CountedObj, mmo_nrespages, Resident
  <2>3. CASE y = o
    <3>1. PICK k \in Nat : k = mmo_nrespages(os, o)
      BY ResidentCount
    <3>2. PICK l \in Nat : l = Refs(os, vm, o)
      BY RefsFinite
    <3>3. r.mmo_refcount = l + k /\ l # 0
      BY <1>5, <2>1, <2>3, <3>1, <3>2 DEF CountedObj
    <3>4. ns[o].mmo_refcount = l + (k + 1)
      BY <1>7, <3>3
    <3>5. ns[o].kind # "free"
      BY <1>5, <1>7
    <3>. QED BY <1>12, <2>1, <2>3, <3>1, <3>2, <3>3, <3>4, <3>5 DEF CountedObj
  <2>. QED BY <2>2, <2>3
<1>14. \A y \in Object : Shape(ns, y)
  BY <1>4, <1>8, GraphSameFacts
<1>15. Ranked(ShadowOf(ns)) /\ VmaType(vm) /\ \A p \in Process, a \in Area : AreaFits(ns, vm, p, a)
  BY <1>8, GraphSameFacts, ObjFacts
<1>16. ObjInv(ns, vm)
  BY <1>10, <1>13, <1>14, <1>15 DEF ObjInv
<1>. QED BY <1>1, <1>4, <1>5, <1>7, <1>8, <1>16

(* A resident page is written.                                              *)
LEMMA StoreKeeps ==
  ASSUME NEW os, NEW vm, ObjInv(os, vm), NEW o \in Object, NEW n \in Page, NEW w, NEW x \in Value,
         Resident(os, o, n)
  PROVE  LET ns == Store(os, o, n, w, x) IN
         /\ ObjInv(ns, vm) /\ GraphSame(os, ns)
         /\ \A y \in Object, m \in Page : Resident(ns, y, m) <=> Resident(os, y, m)
         /\ ns[o].res = [os[o].res EXCEPT ![n] = [os[o].res[n] EXCEPT ![w] = x]]
         /\ \A y \in Object : y # o => ns[y] = os[y]
<1>1. PICK ns : ns = Store(os, o, n, w, x)
  OBVIOUS
<1>2. os \in [Object -> ObjType]
  BY DEF ObjInv, ObjsType
<1>3. PICK r : r = os[o]
  OBVIOUS
<1>4. ns = [os EXCEPT ![o] = [r EXCEPT !.res = [r.res EXCEPT ![n] = [r.res[n] EXCEPT ![w] = x]]]]
  BY <1>1, <1>2, <1>3 DEF Store, ObjType
<1>5. \A y \in Object : y # o => ns[y] = os[y]
  BY <1>2, <1>4
<1>6. /\ r \in ObjType
      /\ ns[o] = [r EXCEPT !.res = [r.res EXCEPT ![n] = [r.res[n] EXCEPT ![w] = x]]]
  BY <1>2, <1>3, <1>4
<1>7. /\ ns[o].kind = r.kind /\ ns[o].mmo_shadowed = r.mmo_shadowed /\ ns[o].mmo_bottom_obj = r.mmo_bottom_obj
      /\ ns[o].mmo_refcount = r.mmo_refcount /\ ns[o].res = [r.res EXCEPT ![n] = [r.res[n] EXCEPT ![w] = x]]
  BY ONLY <1>6 DEF ObjType
<1>8. GraphSame(os, ns)
  BY <1>3, <1>5, <1>7 DEF GraphSame
<1>9. r.res \in [Page -> [Word -> Value] \cup {NotResident}] /\ r.res[n] \in [Word -> Value]
  BY <1>3, <1>6 DEF ObjType, Resident
<1>10. PICK z \in [Word -> Value] : z = [r.res[n] EXCEPT ![w] = x]
  BY <1>9
<1>11. ns[o].res = [r.res EXCEPT ![n] = z] /\ z # NotResident
  BY <1>7, <1>10, CowAssumption
<1>12. ns[o] \in ObjType
  BY ONLY <1>6, <1>9, <1>10, n \in Page DEF ObjType
<1>13. ObjsType(ns)
  <2>1. ns \in [Object -> ObjType]
    BY <1>2, <1>4, <1>6, <1>12
  <2>. QED BY <2>1 DEF ObjsType
<1>14. \A y \in Object, m \in Page : Resident(ns, y, m) <=> Resident(os, y, m)
  BY <1>3, <1>5, <1>9, <1>11 DEF Resident
<1>15. ASSUME NEW y \in Object PROVE mmo_nrespages(ns, y) = mmo_nrespages(os, y)
  <2>1. {m \in Page : Resident(ns, y, m)} = {m \in Page : Resident(os, y, m)}
    BY <1>14
  <2>. QED BY <2>1 DEF mmo_nrespages
<1>16. ASSUME NEW y \in Object PROVE CountedObj(ns, vm, y) /\ (os[y].kind # "free" \/ ns[y] = os[y])
  <2>1. CountedObj(os, vm, y) /\ Refs(ns, vm, y) = Refs(os, vm, y)
    BY <1>8, GraphSameFacts DEF ObjInv
  <2>2. os[o].kind # "free"
    BY DEF ObjInv, Shape, FreeObj, Mmobj, NothingResident, Resident
  <2>3. ns[y].mmo_refcount = os[y].mmo_refcount /\ ns[y].kind = os[y].kind
    BY <1>3, <1>5, <1>7
  <2>. QED BY <1>5, <1>15, <2>1, <2>2, <2>3 DEF CountedObj
<1>17. \A y \in Object : Shape(ns, y)
  BY <1>8, <1>16, GraphSameFacts
<1>18. Ranked(ShadowOf(ns)) /\ VmaType(vm) /\ \A p \in Process, a \in Area : AreaFits(ns, vm, p, a)
  BY <1>8, GraphSameFacts, ObjFacts
<1>19. ObjInv(ns, vm)
  BY <1>13, <1>16, <1>17, <1>18 DEF ObjInv
<1>. QED BY <1>1, <1>3, <1>5, <1>7, <1>8, <1>14, <1>19

-----------------------------------------------------------------------------
(* What lookups change: pages become resident, of bottom objects as they    *)
(* are at first, and perhaps of o.                                          *)
Filled(os, ns, n, o) ==
  /\ GraphSame(os, ns)
  /\ \A x \in Object : os[x].kind = "free" => ns[x] = os[x]
  /\ \A x \in Object, m \in Page : Resident(os, x, m) => ns[x].res[m] = os[x].res[m]
  /\ \A x \in Object, m \in Page : ~Resident(os, x, m) /\ Resident(ns, x, m) =>
       m = n /\ (x = o \/ (os[x].mmo_shadowed = NoObj /\ ns[x].res[n] = Fresh(os, x, n)))

(* What a page of a bottom object shows at first is a page.                *)
LEMMA FreshType ==
  ASSUME NEW os, NEW o, NEW n \in Page
  PROVE  Fresh(os, o, n) \in [Word -> Value]
BY CowAssumption DEF Fresh, Zeroed

(* pframe_alloc of a missing page fills only that page, and keeps the      *)
(* invariant.                                                              *)
LEMMA FilledAlloc ==
  ASSUME NEW os, NEW vm, ObjInv(os, vm), NEW o \in Object, NEW n \in Page,
         NEW x \in [Word -> Value],
         os[o].kind # "free", ~Resident(os, o, n), NEW ns, ns = pframe_alloc(os, o, n, x), NEW z,
         z = o \/ (os[o].mmo_shadowed = NoObj /\ x = Fresh(os, o, n))
  PROVE  /\ ObjInv(ns, vm) /\ Filled(os, ns, n, z)
         /\ Resident(ns, o, n) /\ ns[o].res[n] = x
<1>1. /\ ObjInv(ns, vm) /\ GraphSame(os, ns)
      /\ ns[o].res = [os[o].res EXCEPT ![n] = x]
      /\ \A y \in Object : y # o => ns[y] = os[y]
  BY AllocKeeps
<1>2. os[o].res \in [Page -> [Word -> Value] \cup {NotResident}]
  BY DEF ObjInv, ObjsType, ObjType
<1>3. x # NotResident
  BY CowAssumption
<1>4. ns[o].res[n] = x /\ \A m \in Page : m # n => ns[o].res[m] = os[o].res[m]
  BY <1>1, <1>2
<1>5. Filled(os, ns, n, z)
  BY <1>1, <1>4 DEF Filled, Resident
<1>. QED BY <1>1, <1>3, <1>4, <1>5 DEF Resident

(* Changing nothing fills nothing.                                         *)
LEMMA FilledNot ==
  ASSUME NEW os, NEW n, NEW z
  PROVE  Filled(os, os, n, z)
BY DEF Filled, GraphSame

(* A lookup for reading keeps the invariant and ends with a resident page  *)
(* of the chain that shows the chain's contents (shadow.c:166-196).        *)
LEMMA ReadFills ==
  ASSUME NEW os, NEW vm, ObjInv(os, vm), NEW o \in Object, NEW n \in Page, os[o].kind # "free",
         NEW ns,
         ns = LookupForRead(os, o, n)
  PROVE  /\ ObjInv(ns, vm) /\ Filled(os, ns, n, NoObj)
         /\ Holder(os, o, n) \in Beneath(os, o)
         /\ Resident(ns, Holder(os, o, n), n)
         /\ ns[Holder(os, o, n)].res[n] = Contents(os, o, n)
         /\ Contents(os, o, n) \in [Word -> Value]
<1>1. PICK h : h = Holder(os, o, n)
  OBVIOUS
<1>2. h \in Beneath(os, o) /\ (os[h].mmo_shadowed = NoObj \/ Resident(os, h, n))
  BY <1>1, HolderIn, ObjFacts
<1>3. h \in Object /\ os[h].kind # "free"
  BY <1>2, BeneathNotFree, ObjFacts DEF IsBeneath
<1>4. PICK c : c = Contents(os, o, n)
  OBVIOUS
<1>5. c = IF Resident(os, h, n) THEN os[h].res[n] ELSE Fresh(os, h, n)
  BY <1>1, <1>4 DEF Contents
<1>6. c \in [Word -> Value]
  <2>1. os[h].res[n] \in [Word -> Value] \cup {NotResident}
    BY <1>3 DEF ObjInv, ObjsType, ObjType
  <2>. QED BY <1>5, <2>1, FreshType DEF Resident
<1>7. CASE Resident(os, h, n)
  <2>1. ns = os
    BY <1>1, <1>7 DEF LookupForRead
  <2>. QED BY <1>1, <1>2, <1>4, <1>5, <1>6, <1>7, <2>1, FilledNot
<1>8. CASE ~Resident(os, h, n)
  <2>1. ns = pframe_alloc(os, h, n, c) /\ c = Fresh(os, h, n)
    BY <1>1, <1>5, <1>8 DEF LookupForRead, pframe_get
  <2>2. /\ ObjInv(ns, vm) /\ Filled(os, ns, n, NoObj)
        /\ Resident(ns, h, n) /\ ns[h].res[n] = c
    BY <1>2, <1>3, <1>6, <1>8, <2>1, FilledAlloc
  <2>. QED BY <1>1, <1>2, <1>4, <1>6, <2>2
<1>. QED BY <1>7, <1>8

(* What was resident stays so.                                             *)
LEMMA FilledType ==
  ASSUME NEW os, NEW vm, ObjInv(os, vm), NEW ns, ObjInv(ns, vm), NEW n \in Page, NEW o,
         Filled(os, ns, n, o)
  PROVE  \A x \in Object, m \in Page : Resident(os, x, m) => Resident(ns, x, m)
BY DEF Filled, Resident

(* A lookup for writing keeps the invariant and ends with a page of o      *)
(* itself that shows what the chain showed (shadow.c:166-223).             *)
LEMMA WriteFills ==
  ASSUME NEW os, NEW vm, ObjInv(os, vm), NEW o \in Object, NEW n \in Page, os[o].kind # "free",
         NEW ns,
         ns = LookupForWrite(os, o, n)
  PROVE  /\ ObjInv(ns, vm) /\ Filled(os, ns, n, o)
         /\ Resident(ns, o, n)
         /\ ns[o].res[n] = Contents(os, o, n)
         /\ Contents(os, o, n) \in [Word -> Value]
<1>1. PICK h : h = Holder(os, o, n)
  OBVIOUS
<1>2. h = IF os[o].mmo_shadowed = NoObj \/ Resident(os, o, n) THEN o ELSE Holder(os, os[o].mmo_shadowed, n)
  BY <1>1, HolderIs, ObjFacts
<1>3. Contents(os, o, n) = IF Resident(os, h, n) THEN os[h].res[n] ELSE Fresh(os, h, n)
  BY <1>1 DEF Contents
<1>4. os[o].res[n] \in [Word -> Value] \cup {NotResident}
  BY DEF ObjInv, ObjsType, ObjType
<1>5. CASE Resident(os, o, n)
  <2>1. ns = os
    BY <1>5 DEF LookupForWrite, pframe_get
  <2>. QED BY <1>2, <1>3, <1>4, <1>5, <2>1, FilledNot DEF Resident
<1>6. CASE os[o].mmo_shadowed = NoObj /\ ~Resident(os, o, n)
  <2>1. ns = pframe_alloc(os, o, n, Fresh(os, o, n))
    BY <1>6 DEF LookupForWrite, pframe_get
  <2>2. PICK x \in [Word -> Value] : x = Fresh(os, o, n)
    BY FreshType
  <2>3. /\ ObjInv(ns, vm) /\ Filled(os, ns, n, o)
        /\ Resident(ns, o, n) /\ ns[o].res[n] = x
    BY <1>6, <2>1, <2>2, FilledAlloc
  <2>. QED BY <1>2, <1>3, <1>6, <2>2, <2>3
<1>7. CASE os[o].mmo_shadowed # NoObj /\ ~Resident(os, o, n)
  <2>1. PICK y \in Object : y = os[o].mmo_shadowed
    BY <1>7, ObjFacts
  <2>2. PICK below : below = LookupForRead(os, y, n)
    OBVIOUS
  <2>3. PICK c : c = Contents(os, y, n)
    OBVIOUS
  <2>4. ns = pframe_alloc(below, o, n, c)
    BY <1>7, <2>1, <2>2, <2>3 DEF LookupForWrite
  <2>5. os[y].kind # "free"
    <3>1. o \in Shadowers(os, y)
      BY <2>1 DEF Shadowers
    <3>. QED BY <3>1, ObjFacts
  <2>6. ObjInv(below, vm) /\ Filled(os, below, n, NoObj) /\ c \in [Word -> Value]
    BY <2>2, <2>3, <2>5, ReadFills
  <2>7. below[o].kind # "free" /\ ~Resident(below, o, n)
    <3>1. o # NoObj
      BY CowAssumption
    <3>. QED BY <1>7, <2>6, <3>1 DEF Filled, GraphSame
  <2>8. /\ ObjInv(ns, vm) /\ Filled(below, ns, n, o)
        /\ Resident(ns, o, n) /\ ns[o].res[n] = c
    <3>1. o = o \/ (below[o].mmo_shadowed = NoObj /\ c = Fresh(below, o, n))
      OBVIOUS
    <3>2. /\ ObjInv(below, vm) /\ o \in Object /\ n \in Page /\ c \in [Word -> Value]
          /\ below[o].kind # "free" /\ ~Resident(below, o, n)
      BY <2>6, <2>7
    <3>. QED BY ONLY <2>4, <3>1, <3>2, FilledAlloc
  <2>9. Contents(os, o, n) = c
    <3>1. h = Holder(os, y, n)
      BY <1>2, <1>7, <2>1
    <3>. QED BY <1>3, <2>3, <3>1 DEF Contents
  <2>10. Filled(os, ns, n, o)
    <3>1. \A x \in Object : Fresh(below, x, n) = Fresh(os, x, n)
      BY <2>6 DEF Filled, GraphSame, Fresh
    <3>2. GraphSame(os, ns) /\ \A x \in Object : os[x].kind = "free" => ns[x] = os[x]
      BY <2>6, <2>8 DEF Filled, GraphSame
    <3>3. \A x \in Object, m \in Page : Resident(os, x, m) => ns[x].res[m] = os[x].res[m]
      BY <2>6, <2>8 DEF Filled, Resident
    <3>4. ASSUME NEW x \in Object, NEW m \in Page, ~Resident(os, x, m), Resident(ns, x, m)
          PROVE  m = n /\ (x = o \/ (os[x].mmo_shadowed = NoObj /\ ns[x].res[n] = Fresh(os, x, n)))
      <4>1. CASE Resident(below, x, m)
        <5>1. m = n /\ (x = NoObj \/ (os[x].mmo_shadowed = NoObj /\ below[x].res[n] = Fresh(os, x, n)))
          BY <2>6, <3>4, <4>1 DEF Filled
        <5>2. ns[x].res[m] = below[x].res[m]
          BY <2>8, <4>1 DEF Filled
        <5>. QED BY <5>1, <5>2, CowAssumption
      <4>2. CASE ~Resident(below, x, m)
        <5>1. m = n /\ (x = o \/ (below[x].mmo_shadowed = NoObj /\ ns[x].res[n] = Fresh(below, x, n)))
          BY <2>8, <3>4, <4>2 DEF Filled
        <5>2. below[x].mmo_shadowed = os[x].mmo_shadowed
          BY <2>6 DEF Filled, GraphSame
        <5>. QED BY <3>1, <5>1, <5>2
      <4>. QED BY <4>1, <4>2
    <3>. QED BY <3>2, <3>3, <3>4 DEF Filled
  <2>. QED BY <2>6, <2>8, <2>9, <2>10
<1>. QED BY <1>5, <1>6, <1>7

-----------------------------------------------------------------------------
(* put, with the area that held the reference gone.                         *)
Unmapped(vm, p, a, wm) == wm = [vm EXCEPT ![p][a] = NoArea]
(* o is the object of the area removed, D the objects that die, l the one  *)
(* where the puts end, B the bottom.                                       *)
Putting(os, vm, p, a, wm, o, D, l, B) ==
  /\ ObjInv(os, vm) /\ p \in Process /\ a \in Area /\ vm[p][a] # NoArea
  /\ Unmapped(vm, p, a, wm)
  /\ o = vm[p][a].obj /\ o \in Object
  /\ D = Dying(os, o) /\ l = Landing(os, o) /\ B = Bottom(os, o)
  /\ PutPath(os, o, D, l)

(* An object with one reference has no other user.                         *)
LEMMA OneRef ==
  ASSUME NEW os, NEW vm, NEW o, Refs(os, vm, o) = 1
  PROVE  /\ \A u \in UsersOf(vm, o) : /\ UsersOf(vm, o) = {u} /\ Shadowers(os, o) = {}
                                      /\ Bottomed(os, o) = {} /\ o # File
         /\ \A s \in Shadowers(os, o) : /\ Shadowers(os, o) = {s} /\ UsersOf(vm, o) = {}
                                        /\ Bottomed(os, o) = {} /\ o # File
<1>1. PICK U : U = UsersOf(vm, o) /\ IsFiniteSet(U)
  BY RefsFinite
<1>2. PICK S : S = Shadowers(os, o) /\ IsFiniteSet(S)
  BY RefsFinite
<1>3. PICK B : B = Bottomed(os, o) /\ IsFiniteSet(B)
  BY RefsFinite
<1>4. PICK u \in Nat : u = Cardinality(U) /\ (u = 0 <=> U = {}) /\ (u = 1 <=> \E x : U = {x})
  BY <1>1, FS_EmptySet, FS_Singleton, FS_CardinalityType
<1>5. PICK s \in Nat : s = Cardinality(S) /\ (s = 0 <=> S = {}) /\ (s = 1 <=> \E x : S = {x})
  BY <1>2, FS_EmptySet, FS_Singleton, FS_CardinalityType
<1>6. PICK b \in Nat : b = Cardinality(B) /\ (b = 0 <=> B = {})
  BY <1>3, FS_EmptySet, FS_CardinalityType
<1>7. PICK f \in Nat : f = (IF o = File THEN 1 ELSE 0) /\ (f = 0 <=> o # File)
  OBVIOUS
<1>8. u + s + b + f = 1
  BY <1>1, <1>2, <1>3, <1>4, <1>5, <1>6, <1>7 DEF Refs
<1>9. ASSUME NEW x \in U PROVE U = {x} /\ S = {} /\ B = {} /\ o # File
  <2>1. u # 0
    BY <1>4, <1>9
  <2>2. u = 1 /\ s = 0 /\ b = 0 /\ f = 0
    BY ONLY <2>1, <1>8, u \in Nat, s \in Nat, b \in Nat, f \in Nat
  <2>. QED BY <1>4, <1>5, <1>6, <1>7, <1>9, <2>2
<1>10. ASSUME NEW x \in S PROVE S = {x} /\ U = {} /\ B = {} /\ o # File
  <2>1. s # 0
    BY <1>5, <1>10
  <2>2. s = 1 /\ u = 0 /\ b = 0 /\ f = 0
    BY ONLY <2>1, <1>8, u \in Nat, s \in Nat, b \in Nat, f \in Nat
  <2>. QED BY <1>4, <1>5, <1>6, <1>7, <1>10, <2>2
<1>. QED BY <1>1, <1>2, <1>3, <1>9, <1>10

(* The areas and users once an area is gone.                               *)
LEMMA UsersWithout ==
  ASSUME NEW vm, VmaType(vm), NEW p \in Process, NEW a \in Area, NEW wm, Unmapped(vm, p, a, wm)
  PROVE  /\ VmaType(wm) /\ \A x : UsersOf(wm, x) = UsersOf(vm, x) \ {<<p, a>>}
         /\ wm[p][a] = NoArea
         /\ \A q \in Process, b \in Area : <<q, b>> # <<p, a>> => wm[q][b] = vm[q][b]
<1>1. vm \in [Process -> [Area -> {NoArea} \cup AreaType]]
  BY DEF VmaType
<1>2. wm = [vm EXCEPT ![p] = [vm[p] EXCEPT ![a] = NoArea]]
  BY <1>1 DEF Unmapped
<1>3. vm[p] \in [Area -> {NoArea} \cup AreaType]
  BY <1>1
<1>4. [vm[p] EXCEPT ![a] = NoArea] \in [Area -> {NoArea} \cup AreaType]
  BY <1>3
<1>5. wm \in [Process -> [Area -> {NoArea} \cup AreaType]]
  BY <1>1, <1>2, <1>4
<1>6. wm[p][a] = NoArea
  BY <1>1, <1>2, <1>3
<1>7. \A q \in Process, b \in Area : <<q, b>> # <<p, a>> => wm[q][b] = vm[q][b]
  BY <1>1, <1>2, <1>3
<1>8. ASSUME NEW x PROVE UsersOf(wm, x) = UsersOf(vm, x) \ {<<p, a>>}
  <2>1. ASSUME NEW u \in Process \X Area PROVE u \in UsersOf(wm, x) <=> u \in UsersOf(vm, x) /\ u # <<p, a>>
    <3>1. PICK q \in Process, b \in Area : u = <<q, b>>
      OBVIOUS
    <3>2. (u \in UsersOf(wm, x) <=> Uses(wm, u, x)) /\ (u \in UsersOf(vm, x) <=> Uses(vm, u, x))
      BY DEF UsersOf
    <3>3. CASE u = <<p, a>>
      BY <1>6, <3>2, <3>3 DEF Uses
    <3>4. CASE u # <<p, a>>
      BY <1>7, <3>1, <3>2, <3>4 DEF Uses
    <3>. QED BY <3>3, <3>4
  <2>2. UsersOf(wm, x) \subseteq Process \X Area /\ UsersOf(vm, x) \subseteq Process \X Area
    BY DEF UsersOf
  <2>. QED BY <2>1, <2>2
<1>. QED BY <1>5, <1>6, <1>7, <1>8 DEF VmaType

(* The objects that die are shadow objects of the chain, not the bottom    *)
(* nor l, and nobody that stays names them.                                *)
Doomed(os, vm, wm, o, D, l, B) ==
  /\ os[o].kind # "free"
  /\ l \in Object /\ B \in Object /\ D \in SUBSET Object /\ l \notin D /\ B \notin D
  /\ os[B].mmo_shadowed = NoObj /\ D \subseteq Bottomed(os, B)
  /\ \A x \in D : /\ os[x].kind = "shadow" /\ x # File
                  /\ UsersOf(wm, x) = {} /\ Shadowers(os, x) \ D = {} /\ Bottomed(os, x) = {}

(* It is so of the objects that die in a put, as each had its last         *)
(* reference.                                                              *)
LEMMA PuttingFacts ==
  ASSUME NEW os, NEW vm, NEW p, NEW a, NEW wm, NEW o, NEW D, NEW l, NEW B,
         Putting(os, vm, p, a, wm, o, D, l, B)
  PROVE  Doomed(os, vm, wm, o, D, l, B)
<1>1. <<p, a>> \in UsersOf(vm, o)
  BY DEF Putting, UsersOf, Uses
<1>2. os[o].kind # "free"
  BY <1>1, ObjFacts DEF Putting
<1>3. l \in Object /\ B \in Object /\ D \in SUBSET Object /\ os[B].mmo_shadowed = NoObj
  BY ObjFacts DEF Putting, PutPath
<1>4. \A x \in D : os[x].mmo_shadowed # NoObj /\ LastRef(os, x) /\ Bottom(os, x) = B
  BY DEF Putting, PutPath
<1>5. os[l].mmo_shadowed = NoObj \/ ~LastRef(os, l)
  BY DEF Putting, PutPath
<1>6. l \notin D /\ B \notin D
  BY <1>3, <1>4, <1>5
<1>7. D \subseteq Bottomed(os, B)
  BY <1>3, <1>4 DEF Bottom, Bottomed
<1>8. ASSUME NEW x \in D
      PROVE  /\ os[x].kind = "shadow" /\ x # File
             /\ UsersOf(wm, x) = {} /\ Shadowers(os, x) \ D = {} /\ Bottomed(os, x) = {}
  <2>1. Shape(os, x) /\ CountedObj(os, vm, x) /\ x \in Object
    BY <1>3 DEF Putting, ObjInv
  <2>2. os[x].kind = "shadow" /\ x # File
    BY <1>4, <2>1 DEF Shape
  <2>3. PICK k \in Nat : k = mmo_nrespages(os, x)
    BY ResidentCount
  <2>4. PICK r \in Nat : r = Refs(os, vm, x)
    BY RefsFinite
  <2>5. (r + k) - 1 = k
    BY <1>4, <2>1, <2>2, <2>3, <2>4 DEF LastRef, CountedObj
  <2>6. Refs(os, vm, x) = 1
    BY <2>3, <2>4, <2>5
  <2>7. UsersOf(wm, x) = UsersOf(vm, x) \ {<<p, a>>}
    <3>1. VmaType(vm) /\ p \in Process /\ a \in Area /\ Unmapped(vm, p, a, wm)
      BY DEF Putting, ObjInv
    <3>. QED BY ONLY <3>1, UsersWithout
  <2>8. CASE x = o
    BY <1>1, <2>2, <2>6, <2>7, <2>8, OneRef
  <2>9. CASE x # o
    <3>1. PICK z \in D : os[z].mmo_shadowed = x
      BY <2>9 DEF Putting, PutPath
    <3>2. z \in Shadowers(os, x)
      BY <1>3, <3>1 DEF Shadowers
    <3>. QED BY <2>2, <2>6, <2>7, <3>1, <3>2, OneRef
  <2>. QED BY <2>8, <2>9
<1>. QED BY <1>2, <1>3, <1>6, <1>7, <1>8 DEF Doomed

(* How many puts an object gets, and who names it when the objects that    *)
(* die are gone.                                                           *)
PutsOf(x, l, B, D) == (IF x = l THEN 1 ELSE 0) + (IF x = B THEN Cardinality(D) ELSE 0)
RefsWithout(os, wm, x, D) ==
  Cardinality(UsersOf(wm, x)) + Cardinality(Shadowers(os, x) \ D)
  + Cardinality(Bottomed(os, x) \ D) + (IF x = File THEN 1 ELSE 0)

(* Every put of an object that stays answers one reference that went.      *)
LEMMA PutCounts ==
  ASSUME NEW os, NEW vm, NEW p, NEW a, NEW wm, NEW o, NEW D, NEW l, NEW B,
         Putting(os, vm, p, a, wm, o, D, l, B),
         NEW x \in Object, x \notin D
  PROVE  RefsWithout(os, wm, x, D) = Refs(os, vm, x) - PutsOf(x, l, B, D) /\ PutsOf(x, l, B, D) \in Nat
<1>0. D \in SUBSET Object /\ l \notin D /\ D \subseteq Bottomed(os, B) /\ x \in Object
  BY PuttingFacts DEF Doomed
<1>21. (D = {} /\ l = o) \/ (o \in D)
  BY DEF Putting, PutPath
<1>1. PICK U : U = UsersOf(vm, x) /\ IsFiniteSet(U) /\ Cardinality(U) \in Nat
  BY RefsFinite
<1>2. PICK S : S = Shadowers(os, x) /\ IsFiniteSet(S) /\ Cardinality(S) \in Nat
  BY RefsFinite
<1>3. PICK C : C = Bottomed(os, x) /\ IsFiniteSet(C) /\ Cardinality(C) \in Nat
  BY RefsFinite
<1>4. D \in SUBSET Object /\ IsFiniteSet(D) /\ Cardinality(D) \in Nat
  <2>1. IsFiniteSet(Object)
    BY CowAssumption
  <2>2. IsFiniteSet(D)
    BY ONLY <1>0, <2>1, FS_Subset
  <2>. QED BY <1>0, <2>2, FS_CardinalityType
<1>5. UsersOf(wm, x) = U \ {<<p, a>>} /\ (<<p, a>> \in U <=> x = o)
  <2>1. UsersOf(wm, x) = U \ {<<p, a>>}
    <3>1. VmaType(vm) /\ p \in Process /\ a \in Area /\ Unmapped(vm, p, a, wm)
      BY DEF Putting, ObjInv
    <3>. QED BY ONLY <1>1, <3>1, UsersWithout
  <2>2. <<p, a>> \in U <=> x = o
    BY <1>1 DEF Putting, UsersOf, Uses
  <2>. QED BY <2>1, <2>2
<1>6. Cardinality(U \ {<<p, a>>}) = IF x = o THEN Cardinality(U) - 1 ELSE Cardinality(U)
  BY <1>1, <1>5, FS_RemoveElement
<1>7. Cardinality(C \ D) = Cardinality(C) - (IF x = B THEN Cardinality(D) ELSE 0)
  <2>1. CASE x = B
    <3>1. C \cap D = D
      BY <1>0, <1>3, <2>1
    <3>. QED BY <1>3, <2>1, <3>1, FS_Difference
  <2>2. CASE x # B
    <3>1. C \cap D = {}
      BY <1>0, <1>3, <2>2 DEF Bottomed
    <3>2. C \ D = C
      BY <3>1
    <3>. QED BY <1>3, <2>2, <3>2
  <2>. QED BY <2>1, <2>2
<1>8. Cardinality(U \ {<<p, a>>}) + Cardinality(S \ D) = Cardinality(U) + Cardinality(S) - (IF x = l THEN 1 ELSE 0)
  <2>1. CASE D = {} /\ l = o
    <3>1. S \ D = S
      BY <2>1
    <3>. QED BY <1>1, <1>2, <1>6, <2>1, <3>1
  <2>2. CASE o \in D
    <3>1. PICK s \in D : \A t \in D : os[t].mmo_shadowed = l <=> t = s
      BY <1>0, <2>2 DEF Putting, PutPath
    <3>2. Cardinality(U \ {<<p, a>>}) = Cardinality(U)
      BY <1>6, <2>2
    <3>3. CASE x = l
      <4>1. S \ D = S \ {s} /\ s \in S
        BY <1>2, <1>4, <3>1, <3>3 DEF Shadowers
      <4>2. Cardinality(S \ {s}) = Cardinality(S) - 1
        BY <1>2, <4>1, FS_RemoveElement
      <4>. QED BY <1>1, <1>2, <3>2, <3>3, <4>1, <4>2
    <3>4. CASE x # l
      <4>1. \A t \in D : os[t].mmo_shadowed \in D \cup {l}
        BY DEF Putting, PutPath
      <4>2. S \ D = S
        BY <1>2, <3>4, <4>1 DEF Shadowers
      <4>3. PICK u \in Nat : u = Cardinality(U)
        BY <1>1
      <4>4. PICK s1 \in Nat : s1 = Cardinality(S)
        BY <1>2
      <4>5. Cardinality(U \ {<<p, a>>}) + Cardinality(S \ D) = u + s1 /\ (IF x = l THEN 1 ELSE 0) = 0
        BY ONLY <3>2, <3>4, <4>2, <4>3, <4>4
      <4>6. u + s1 - 0 = u + s1
        OBVIOUS
      <4>. QED BY ONLY <4>3, <4>4, <4>5, <4>6
    <3>. QED BY <3>3, <3>4
  <2>. QED BY ONLY <1>21, <2>1, <2>2
<1>9. PICK f \in Nat : f = (IF x = File THEN 1 ELSE 0)
  OBVIOUS
<1>10. PICK u \in Nat : u = Cardinality(U)
  BY <1>1
<1>11. PICK s \in Nat : s = Cardinality(S)
  BY <1>2
<1>12. PICK c \in Nat : c = Cardinality(C)
  BY <1>3
<1>13. Refs(os, vm, x) = u + s + c + f
  BY <1>1, <1>2, <1>3, <1>9, <1>10, <1>11, <1>12 DEF Refs
<1>14. PICK i \in Nat : i = (IF x = l THEN 1 ELSE 0)
  OBVIOUS
<1>15. PICK d \in Nat : d = (IF x = B THEN Cardinality(D) ELSE 0)
  BY <1>4
<1>16. PICK v \in Int : v = Cardinality(U \ {<<p, a>>})
  BY <1>6, <1>1
<1>17. PICK t \in Int : t = Cardinality(S \ D)
  <2>1. IsFiniteSet(S \ D)
    BY <1>2, FS_Difference
  <2>. QED BY <2>1, FS_CardinalityType
<1>18. RefsWithout(os, wm, x, D) = v + t + (c - d) + f /\ v + t = (u + s) - i
  BY <1>1, <1>2, <1>3, <1>5, <1>7, <1>8, <1>9, <1>10, <1>11, <1>12, <1>14, <1>15, <1>16,
    <1>17 DEF RefsWithout
<1>19. PutsOf(x, l, B, D) = i + d
  BY <1>14, <1>15 DEF PutsOf
<1>20. v + t + (c - d) + f = (u + s + c + f) - (i + d)
  BY ONLY <1>18, u \in Nat, s \in Nat, c \in Nat, f \in Nat, i \in Nat, d \in Nat, v \in Int,
    t \in Int
<1>. QED BY ONLY <1>13, <1>18, <1>19, <1>20, i \in Nat, d \in Nat

-----------------------------------------------------------------------------
(* Objects were freed, and the others keep their chain and frames.         *)
Shrunk(os, ns) ==
  \A x \in Object :
    \/ ns[x] = FreeObj
    \/ /\ ns[x].kind = os[x].kind /\ ns[x].res = os[x].res
       /\ ns[x].mmo_shadowed = os[x].mmo_shadowed /\ ns[x].mmo_bottom_obj = os[x].mmo_bottom_obj

(* ShadowOf is the field.                                                  *)
LEMMA ShadowOfIs == \A os : \A x \in Object : ShadowOf(os)[x] = os[x].mmo_shadowed
BY DEF ShadowOf

(* The fields of a free object.                                            *)
LEMMA FreeObjIs ==
  /\ FreeObj \in ObjType /\ FreeObj.kind = "free" /\ FreeObj.mmo_refcount = 0
  /\ FreeObj.mmo_shadowed = NoObj /\ FreeObj.mmo_bottom_obj = NoObj
  /\ \A n \in Page : FreeObj.res[n] = NotResident
BY DEF FreeObj, Mmobj, NothingResident, ObjType

(* An object that does not die in the chain.                                *)
LEMMA DroppedIs ==
  ASSUME NEW os, NEW x \in Object, os[x] \in ObjType, Shape(os, x), NEW k \in Nat, NEW y,
         y = Dropped(os, x, k)
  PROVE  /\ y.mmo_shadowed = os[x].mmo_shadowed /\ y.mmo_bottom_obj = os[x].mmo_bottom_obj
         /\ IF os[x].kind = "anon" /\ k > 0 /\ os[x].mmo_refcount - k <= mmo_nrespages(os, x)
            THEN y = FreeObj
            ELSE y.kind = os[x].kind /\ y.res = os[x].res /\ y.mmo_refcount = os[x].mmo_refcount - k
         /\ k = 0 => y = os[x]
         /\ y \in ObjType <=> y.mmo_refcount \in Nat
<1>1. PICK r : r = os[x]
  OBVIOUS
<1>2. CASE os[x].kind = "anon" /\ k > 0 /\ os[x].mmo_refcount - k <= mmo_nrespages(os, x)
  <2>1. y = FreeObj
    BY <1>2 DEF Dropped
  <2>2. os[x].mmo_shadowed = NoObj /\ os[x].mmo_bottom_obj = NoObj
    BY <1>2 DEF Shape
  <2>. QED BY <1>2, <2>1, <2>2, FreeObjIs
<1>3. CASE ~(os[x].kind = "anon" /\ k > 0 /\ os[x].mmo_refcount - k <= mmo_nrespages(os, x))
  <2>1. y = [r EXCEPT !.mmo_refcount = r.mmo_refcount - k]
    BY <1>1, <1>3 DEF Dropped
  <2>2. r \in ObjType
    BY <1>1
  <2>3. /\ y.mmo_shadowed = r.mmo_shadowed /\ y.mmo_bottom_obj = r.mmo_bottom_obj
        /\ y.kind = r.kind /\ y.res = r.res /\ y.mmo_refcount = r.mmo_refcount - k
    BY ONLY <2>1, <2>2 DEF ObjType
  <2>4. y \in ObjType <=> y.mmo_refcount \in Nat
    BY ONLY <2>1, <2>2 DEF ObjType
  <2>5. k = 0 => y = r
    <3>1. r.mmo_refcount \in Nat
      BY <2>2 DEF ObjType
    <3>2. k = 0 => r.mmo_refcount - k = r.mmo_refcount
      BY <3>1
    <3>. QED BY ONLY <2>1, <2>2, <3>2 DEF ObjType
  <2>. QED BY <1>1, <1>3, <2>3, <2>4, <2>5
<1>. QED BY <1>2, <1>3

(* Removing an area and putting its object keeps the invariant: counts are *)
(* exact again, and all that is no longer named is free                    *)
(* (shadow.c:117-151).                                                     *)
LEMMA PutKeeps ==
  ASSUME NEW os, NEW vm, ObjInv(os, vm), NEW p \in Process, NEW a \in Area, vm[p][a] # NoArea,
         NEW wm, Unmapped(vm, p, a, wm), NEW ns, ns = Put(os, vm[p][a].obj)
  PROVE  ObjInv(ns, wm) /\ Shrunk(os, ns)
<1>1. PICK o \in Object : o = vm[p][a].obj
  BY DEF ObjInv, VmaType, AreaType
<1>2. PICK D : D = Dying(os, o)
  OBVIOUS
<1>3. PICK l : l = Landing(os, o)
  OBVIOUS
<1>4. PICK B : B = Bottom(os, o)
  OBVIOUS
<1>5. Putting(os, vm, p, a, wm, o, D, l, B)
  <2>1. PutPath(os, o, D, l)
    BY <1>2, <1>3, PutPathIs, ObjFacts
  <2>. QED BY <1>1, <1>2, <1>3, <1>4, <2>1 DEF Putting
<1>6. /\ D \in SUBSET Object
      /\ \A x \in D : /\ os[x].kind = "shadow" /\ x # File
                      /\ UsersOf(wm, x) = {} /\ Shadowers(os, x) \ D = {} /\ Bottomed(os, x) = {}
  <2>1. D \in SUBSET Object
    BY ONLY <1>5, PuttingFacts DEF Doomed
  <2>2. \A x \in D : /\ os[x].kind = "shadow" /\ x # File
                    /\ UsersOf(wm, x) = {} /\ Shadowers(os, x) \ D = {} /\ Bottomed(os, x) = {}
    BY ONLY <1>5, PuttingFacts DEF Doomed
  <2>. QED BY ONLY <2>1, <2>2
<1>7. \A x \in Object : x \notin D => RefsWithout(os, wm, x, D) = Refs(os, vm, x) - PutsOf(x, l, B, D) /\ PutsOf(x, l, B, D) \in Nat
  BY <1>5, PutCounts
<1>8. /\ \A x \in Object : os[x] \in ObjType /\ Shape(os, x) /\ CountedObj(os, vm, x)
  BY DEF ObjInv, ObjsType
<1>9. ns = [x \in Object |-> IF x \in D THEN FreeObj ELSE Dropped(os, x, PutsOf(x, l, B, D))]
  BY <1>1, <1>2, <1>3, <1>4 DEF Put, PutsOf
<1>10. \A x \in D : ns[x] = FreeObj
  BY <1>6, <1>9
<1>11. ASSUME NEW x \in Object, x \notin D, NEW k \in Nat, k = PutsOf(x, l, B, D)
       PROVE  /\ ns[x].mmo_shadowed = os[x].mmo_shadowed /\ ns[x].mmo_bottom_obj = os[x].mmo_bottom_obj
              /\ IF os[x].kind = "anon" /\ k > 0 /\ os[x].mmo_refcount - k <= mmo_nrespages(os, x)
                 THEN ns[x] = FreeObj
                 ELSE ns[x].kind = os[x].kind /\ ns[x].res = os[x].res /\ ns[x].mmo_refcount = os[x].mmo_refcount - k
              /\ k = 0 => ns[x] = os[x]
              /\ ns[x] \in ObjType <=> ns[x].mmo_refcount \in Nat
  <2>1. ns[x] = Dropped(os, x, k)
    BY <1>9, <1>11
  <2>. QED BY <1>8, <2>1, DroppedIs
<1>12. \A x \in Object : x \notin D => ns[x].mmo_shadowed = os[x].mmo_shadowed /\ ns[x].mmo_bottom_obj = os[x].mmo_bottom_obj
  BY <1>7, <1>11
<1>13. \A x \in Object : Shadowers(ns, x) = Shadowers(os, x) \ D /\ Bottomed(ns, x) = Bottomed(os, x) \ D
  BY <1>6, <1>10, <1>12, FreeObjIs, CowAssumption DEF Shadowers, Bottomed
<1>14. \A x \in Object : Refs(ns, wm, x) = RefsWithout(os, wm, x, D)
  BY <1>13 DEF Refs, RefsWithout
<1>15. \A x \in D : Refs(ns, wm, x) = 0
  <2> SUFFICES ASSUME NEW x \in D PROVE Refs(ns, wm, x) = 0
    OBVIOUS
  <2>1. UsersOf(wm, x) = {} /\ Shadowers(ns, x) = {} /\ Bottomed(ns, x) = {} /\ x # File
    BY <1>6, <1>13
  <2>. QED BY <2>1, NoRefs
<1>16. ASSUME NEW x \in Object, x \notin D
       PROVE  CountedObj(ns, wm, x) /\ ns[x] \in ObjType /\ (ns[x].kind = "free" => ns[x] = FreeObj /\ x # File)
  <2>1. PICK k \in Nat : k = PutsOf(x, l, B, D)
    BY <1>7, <1>16
  <2>2. PICK r \in Nat : r = Refs(os, vm, x)
    BY RefsFinite
  <2>3. PICK s \in Nat : s = Refs(ns, wm, x)
    BY RefsFinite
  <2>4. s = r - k
    BY <1>7, <1>14, <1>16, <2>1, <2>2, <2>3
  <2>5. PICK m \in Nat : m = mmo_nrespages(os, x)
    BY ResidentCount
  <2>6. /\ IF os[x].kind = "anon" /\ k > 0 /\ os[x].mmo_refcount - k <= m
           THEN ns[x] = FreeObj
           ELSE ns[x].kind = os[x].kind /\ ns[x].res = os[x].res /\ ns[x].mmo_refcount = os[x].mmo_refcount - k
        /\ k = 0 => ns[x] = os[x]
        /\ ns[x] \in ObjType <=> ns[x].mmo_refcount \in Nat
    BY <1>11, <1>16, <2>1, <2>5
  <2>7. CASE os[x].kind = "free"
    <3>1. r = 0
      BY <1>8, <2>2, <2>7 DEF CountedObj
    <3>2. k = 0 /\ s = 0
      BY <2>4, <3>1
    <3>3. ns[x] = os[x] /\ os[x] = FreeObj /\ x # File
      BY <1>8, <2>6, <2>7, <3>2 DEF Shape
    <3>. QED BY <2>3, <2>7, <3>2, <3>3, FreeObjIs DEF CountedObj
  <2>8. CASE os[x].kind # "free"
    <3>1. os[x].mmo_refcount = r + m /\ r # 0
      BY <1>8, <2>2, <2>5, <2>8 DEF CountedObj
    <3>2. CASE os[x].kind = "anon" /\ k > 0 /\ os[x].mmo_refcount - k <= m
      <4>1. ns[x] = FreeObj
        BY <2>6, <3>2
      <4>2. s = 0
        BY <2>4, <3>1, <3>2
      <4>3. x # File
        BY <1>8, <3>2 DEF Shape
      <4>. QED BY <2>3, <4>1, <4>2, <4>3, FreeObjIs DEF CountedObj
    <3>3. CASE ~(os[x].kind = "anon" /\ k > 0 /\ os[x].mmo_refcount - k <= m)
      <4>1. ns[x].kind = os[x].kind /\ ns[x].res = os[x].res /\ ns[x].mmo_refcount = os[x].mmo_refcount - k
        BY <2>6, <3>3
      <4>2. mmo_nrespages(ns, x) = m
        BY <2>5, <4>1 DEF mmo_nrespages, Resident
      <4>3. ns[x].mmo_refcount = s + m /\ s + m \in Nat
        <5>1. (r + m) - k = s + m
          BY <2>4
        <5>. QED BY <3>1, <4>1, <5>1
      <4>4. s # 0
        <5>1. CASE os[x].kind = "anon"
          <6>1. k = 0 \/ ~(os[x].mmo_refcount - k <= m)
            BY <3>3, <5>1
          <6>. QED BY <2>4, <3>1, <6>1
        <5>2. CASE os[x].kind = "file"
          <6>1. x = File
            BY <1>8, <5>2 DEF Shape
          <6>. QED BY <2>3, <6>1, NoRefs
        <5>3. CASE os[x].kind = "shadow"
          <6>1. os[x].mmo_shadowed # NoObj
            BY <1>8, <5>3 DEF Shape
          <6>2. os[B].mmo_shadowed = NoObj
            BY ONLY <1>5, PuttingFacts DEF Doomed
          <6>3. k = IF x = l THEN 1 ELSE 0
            BY <2>1, <6>1, <6>2 DEF PutsOf
          <6>4. x = l => ~LastRef(os, x)
            BY <1>5, <6>1 DEF Putting, PutPath
          <6>5. x = l => (r + m) - 1 # m
            BY <2>5, <3>1, <6>4 DEF LastRef
          <6>. QED BY <2>4, <3>1, <6>3, <6>5
        <5>. QED BY <1>8, <2>8, <5>1, <5>2, <5>3 DEF ObjType
      <4>5. ns[x] \in ObjType
        BY <2>6, <4>3
      <4>. QED BY <2>3, <2>8, <4>1, <4>2, <4>3, <4>4, <4>5 DEF CountedObj
    <3>. QED BY <3>2, <3>3
  <2>. QED BY <2>7, <2>8
<1>17. \A x \in Object : CountedObj(ns, wm, x) /\ ns[x] \in ObjType /\ (ns[x].kind = "free" => ns[x] = FreeObj /\ x # File)
  <2>1. ASSUME NEW x \in D PROVE CountedObj(ns, wm, x) /\ ns[x] \in ObjType /\ (ns[x].kind = "free" => ns[x] = FreeObj /\ x # File)
    BY <1>6, <1>10, <1>15, FreeObjIs DEF CountedObj
  <2>. QED BY <1>16, <2>1
<1>18. Shrunk(os, ns)
  <2>1. ASSUME NEW x \in Object,
               x \notin D PROVE ns[x] = FreeObj \/ (ns[x].kind = os[x].kind /\ ns[x].res = os[x].res)
    BY <1>7, <1>11, <2>1
  <2>. QED BY <1>10, <1>12, <2>1 DEF Shrunk
<1>19. ObjsType(ns)
  BY <1>9, <1>17 DEF ObjsType
<1>20. VmaType(wm) /\ (\A x : UsersOf(wm, x) = UsersOf(vm, x) \ {<<p, a>>}) /\ wm[p][a] = NoArea
       /\ \A q \in Process, b \in Area : <<q, b>> # <<p, a>> => wm[q][b] = vm[q][b]
  BY UsersWithout DEF ObjInv
<1>21. Ranked(ShadowOf(ns))
  <2>1. PICK next : next = ShadowOf(os) /\ \A x \in Object : next[x] = os[x].mmo_shadowed
    BY ShadowOfIs
  <2>2. PICK new : new = ShadowOf(ns) /\ \A x \in Object : new[x] = ns[x].mmo_shadowed
    BY ShadowOfIs
  <2>3. new \in [Object -> Object \cup {NoObj}]
    BY <1>19, <2>2 DEF ObjsType, ObjType, ShadowOf
  <2>4. \A x \in Object : new[x] # NoObj => new[x] = next[x]
    BY <1>10, <1>12, <2>1, <2>2, FreeObjIs
  <2>5. Ranked(next)
    BY <2>1, ObjFacts
  <2>6. PICK N : N = {}
    OBVIOUS
  <2>7. \A x \in Object : new[x] # NoObj => new[x] \notin N /\ (x \in N \/ new[x] = next[x])
    BY <2>4, <2>6
  <2>8. Ranked(new)
    BY ONLY <2>3, <2>5, <2>7, RankedStep
  <2>. QED BY <2>2, <2>8
<1>22. ASSUME NEW x \in Object PROVE Shape(ns, x)
  <2>1. CASE ns[x] = FreeObj
    BY <1>17, <2>1, FreeObjIs DEF Shape
  <2>2. CASE ns[x] # FreeObj
    <3>1. /\ ns[x].kind = os[x].kind /\ ns[x].kind # "free" /\ x \notin D
          /\ ns[x].mmo_shadowed = os[x].mmo_shadowed /\ ns[x].mmo_bottom_obj = os[x].mmo_bottom_obj
      BY <1>10, <1>17, <1>18, <2>2 DEF Shrunk
    <3>2. Shape(os, x)
      BY <1>8
    <3>3. ASSUME os[x].kind = "shadow" PROVE Bottom(ns, os[x].mmo_shadowed) = Bottom(os, os[x].mmo_shadowed)
      <4>1. PICK y \in Object : y = os[x].mmo_shadowed
        BY <3>2, <3>3, ObjFacts DEF Shape
      <4>2. y \notin D
        BY <1>6, <3>1, <4>1 DEF Shadowers
      <4>. QED BY <1>12, <4>1, <4>2 DEF Bottom
    <3>. QED BY <3>1, <3>2, <3>3 DEF Shape
  <2>. QED BY <2>1, <2>2
<1>23. ASSUME NEW q \in Process, NEW b \in Area PROVE AreaFits(ns, wm, q, b)
  <2>1. CASE wm[q][b] = NoArea
    BY <2>1 DEF AreaFits
  <2>2. CASE wm[q][b] # NoArea
    <3>1. wm[q][b] = vm[q][b] /\ <<q, b>> # <<p, a>>
      BY <1>20, <2>2
    <3>2. PICK x \in Object : x = wm[q][b].obj
      BY <1>20, <2>2 DEF VmaType, AreaType
    <3>3. <<q, b>> \in UsersOf(wm, x)
      BY <2>2, <3>2 DEF UsersOf, Uses
    <3>4. x \notin D /\ ns[x].mmo_shadowed = os[x].mmo_shadowed
      BY <1>6, <1>12, <3>3
    <3>5. AreaFits(os, vm, q, b)
      BY DEF ObjInv
    <3>6. wm[q][b].shared => os[x].mmo_shadowed = NoObj
      BY <2>2, <3>1, <3>2, <3>5 DEF AreaFits
    <3>7. ~wm[q][b].shared => os[x].mmo_shadowed # NoObj /\ UsersOf(vm, x) = {<<q, b>>} /\ Shadowers(os, x) = {}
      BY <2>2, <3>1, <3>2, <3>5 DEF AreaFits
    <3>8. ~wm[q][b].shared => UsersOf(wm, x) = {<<q, b>>} /\ Shadowers(ns, x) = {}
      BY <1>13, <1>20, <3>1, <3>7
    <3>. QED BY <3>2, <3>4, <3>6, <3>7, <3>8 DEF AreaFits
  <2>. QED BY <2>1, <2>2
<1>24. ObjInv(ns, wm)
  BY <1>17, <1>19, <1>20, <1>21, <1>22, <1>23 DEF ObjInv
<1>. QED BY <1>18, <1>24

-----------------------------------------------------------------------------
(* vmmap_map: o is the bottom object and s what the area is over.           *)
Mapping(os, vm, p, a, file, shared, o, s) ==
  /\ ObjInv(os, vm) /\ p \in Process /\ a \in Area /\ vm[p][a] = NoArea
  /\ file \in BOOLEAN /\ shared \in BOOLEAN
  /\ o \in Object /\ (IF file THEN o = File ELSE os[o].kind = "free")
  /\ s \in Object /\ (IF shared THEN s = o ELSE s # o /\ os[s].kind = "free")
(* The area is over s, and the users of s are one more.                    *)
MapsAt(vm, p, a, s, shared, wm) == wm = [vm EXCEPT ![p][a] = [obj |-> s, shared |-> shared]]

UserAdded(vm, p, a, s, shared, wm) ==
  /\ VmaType(wm)
  /\ \A x : UsersOf(wm, x) = IF x = s THEN UsersOf(vm, x) \cup {<<p, a>>} ELSE UsersOf(vm, x)
  /\ <<p, a>> \notin UsersOf(vm, s)
  /\ wm[p][a] # NoArea /\ wm[p][a].obj = s /\ wm[p][a].shared = shared
  /\ \A q \in Process, b \in Area : <<q, b>> # <<p, a>> => wm[q][b] = vm[q][b]

(* It is so after the assignment of vmmap_map.                             *)
LEMMA UsersWith ==
  ASSUME NEW vm, VmaType(vm), NEW p \in Process, NEW a \in Area, vm[p][a] = NoArea,
         NEW s \in Object, NEW shared \in BOOLEAN, NEW wm, MapsAt(vm, p, a, s, shared, wm)
  PROVE  UserAdded(vm, p, a, s, shared, wm)
<1>1. vm \in [Process -> [Area -> {NoArea} \cup AreaType]]
  BY DEF VmaType
<1>2. PICK m \in AreaType : m = [obj |-> s, shared |-> shared]
  BY DEF AreaType
<1>3. m # NoArea /\ m.obj = s /\ m.shared = shared
  BY <1>2, CowAssumption DEF AreaType
<1>4. PICK g \in [Area -> {NoArea} \cup AreaType] : g = [vm[p] EXCEPT ![a] = m]
  BY <1>1
<1>5. wm = [vm EXCEPT ![p] = g]
  BY <1>1, <1>2, <1>4 DEF MapsAt
<1>6. wm \in [Process -> [Area -> {NoArea} \cup AreaType]]
  BY <1>1, <1>5
<1>7. wm[p][a] = m
  BY <1>1, <1>4, <1>5
<1>8. \A q \in Process, b \in Area : <<q, b>> # <<p, a>> => wm[q][b] = vm[q][b]
  BY <1>1, <1>4, <1>5
<1>9. ASSUME NEW x PROVE UsersOf(wm, x) = IF x = s THEN UsersOf(vm, x) \cup {<<p, a>>} ELSE UsersOf(vm, x)
  <2>1. ASSUME NEW u \in Process \X Area
        PROVE u \in UsersOf(wm, x) <=> u \in UsersOf(vm, x) \/ (x = s /\ u = <<p, a>>)
    <3>1. PICK q \in Process, b \in Area : u = <<q, b>>
      OBVIOUS
    <3>2. (u \in UsersOf(wm, x) <=> Uses(wm, u, x)) /\ (u \in UsersOf(vm, x) <=> Uses(vm, u, x))
      BY DEF UsersOf
    <3>3. CASE u = <<p, a>>
      BY <1>3, <1>7, <3>2, <3>3 DEF Uses
    <3>4. CASE u # <<p, a>>
      BY <1>8, <3>1, <3>2, <3>4 DEF Uses
    <3>. QED BY <3>3, <3>4
  <2>2. UsersOf(wm, x) \subseteq Process \X Area /\ UsersOf(vm, x) \subseteq Process \X Area /\ <<p, a>> \in Process \X Area
    BY DEF UsersOf
  <2>. QED BY <2>1, <2>2
<1>10. <<p, a>> \notin UsersOf(vm, s)
  BY DEF UsersOf, Uses
<1>. QED BY <1>3, <1>6, <1>7, <1>8, <1>9, <1>10 DEF VmaType, UserAdded

(* A new mapping keeps the invariant; the objects taken were free, and     *)
(* only they and a mapped file change (vmmap.c, vmmap_map).                *)
LEMMA MapKeeps ==
  ASSUME NEW os, NEW vm, NEW p, NEW a, NEW file, NEW shared, NEW o, NEW s,
         Mapping(os, vm, p, a, file, shared, o, s),
         NEW wm, MapsAt(vm, p, a, s, shared, wm), NEW ns, ns = MapObjects(os, file, shared, o, s)
  PROVE  /\ ObjInv(ns, wm)
         /\ \A x \in Object : x # o /\ x # s => ns[x] = os[x]
         /\ ns[o].res = os[o].res /\ ns[o].kind = (IF file THEN "file" ELSE "anon") /\ ns[o].mmo_shadowed = NoObj
         /\ ~shared => ns[s] = Mmobj("shadow", 1, o, o)
<1>0. /\ ObjInv(os, vm) /\ p \in Process /\ a \in Area /\ vm[p][a] = NoArea
      /\ file \in BOOLEAN /\ shared \in BOOLEAN /\ o \in Object /\ s \in Object
      /\ IF file THEN o = File ELSE os[o].kind = "free"
      /\ IF shared THEN s = o ELSE s # o /\ os[s].kind = "free"
  BY DEF Mapping
<1>1. os \in [Object -> ObjType] /\ VmaType(vm)
  BY <1>0 DEF ObjInv, ObjsType
<1>2. \A x \in Object : Shape(os, x) /\ CountedObj(os, vm, x)
  BY <1>0 DEF ObjInv
<1>3. PICK refs \in Nat : refs = IF shared THEN 1 ELSE 2
  OBVIOUS
<1>4. /\ os[o].mmo_shadowed = NoObj /\ os[o].mmo_bottom_obj = NoObj
      /\ ~file => os[o] = FreeObj
  BY <1>0, <1>2, FreeObjIs DEF Shape
<1>5. PICK b : b = IF file THEN [os[o] EXCEPT !.mmo_refcount = @ + refs] ELSE Mmobj("anon", refs, NoObj, NoObj)
  OBVIOUS
<1>6. /\ b \in ObjType /\ b.kind = (IF file THEN "file" ELSE "anon") /\ b.mmo_refcount = os[o].mmo_refcount + refs
      /\ b.mmo_shadowed = NoObj /\ b.mmo_bottom_obj = NoObj /\ b.res = os[o].res
  <2>1. CASE file
    <3>1. PICK r \in ObjType : r = os[o]
      BY <1>0, <1>1
    <3>2. PICK k \in Nat : k = r.mmo_refcount + refs
      BY <3>1 DEF ObjType
    <3>3. b = [r EXCEPT !.mmo_refcount = k]
      BY <1>5, <2>1, <3>1, <3>2
    <3>4. /\ b \in ObjType /\ b.kind = r.kind /\ b.mmo_refcount = k
          /\ b.mmo_shadowed = r.mmo_shadowed /\ b.mmo_bottom_obj = r.mmo_bottom_obj /\ b.res = r.res
      BY ONLY <3>1, <3>2, <3>3 DEF ObjType
    <3>5. r.kind = "file"
      BY <1>0, <1>2, <2>1, <3>1 DEF Shape
    <3>. QED BY <1>4, <2>1, <3>1, <3>2, <3>4, <3>5
  <2>2. CASE ~file
    <3>1. b = Mmobj("anon", refs, NoObj, NoObj)
      BY <1>5, <2>2
    <3>2. b \in ObjType
      BY <3>1 DEF Mmobj, ObjType, NothingResident
    <3>3. /\ b.kind = "anon" /\ b.mmo_refcount = refs
          /\ b.mmo_shadowed = NoObj /\ b.mmo_bottom_obj = NoObj /\ b.res = FreeObj.res
      BY <3>1 DEF Mmobj, FreeObj
    <3>. QED BY <1>4, <2>2, <3>2, <3>3, FreeObjIs
  <2>. QED BY <1>0, <2>1, <2>2
<1>7. PICK sh : sh = Mmobj("shadow", 1, o, o)
  OBVIOUS
<1>8. sh \in ObjType /\ sh.kind = "shadow" /\ sh.mmo_refcount = 1 /\ sh.mmo_shadowed = o /\ sh.mmo_bottom_obj = o
      /\ \A n \in Page : sh.res[n] = NotResident
  BY <1>0, <1>7 DEF Mmobj, ObjType, NothingResident
<1>9. ns = IF shared THEN [os EXCEPT ![o] = b] ELSE [os EXCEPT ![o] = b, ![s] = sh]
  BY <1>3, <1>5, <1>7 DEF MapObjects
<1>10. ns \in [Object -> ObjType]
  BY <1>0, <1>1, <1>6, <1>8, <1>9
<1>11. \A x \in Object : x # o /\ x # s => ns[x] = os[x]
  BY <1>0, <1>1, <1>9
<1>12. ns[o] = b
  BY <1>0, <1>1, <1>9
<1>13. ~shared => ns[s] = sh
  BY <1>0, <1>1, <1>9
<1>26. UserAdded(vm, p, a, s, shared, wm)
  BY <1>0, <1>1, UsersWith
<1>14. VmaType(wm) /\ <<p, a>> \notin UsersOf(vm, s) /\ wm[p][a] # NoArea /\ wm[p][a].obj = s /\ wm[p][a].shared = shared
  BY <1>26 DEF UserAdded
<1>15. \A x : UsersOf(wm, x) = IF x = s THEN UsersOf(vm, x) \cup {<<p, a>>} ELSE UsersOf(vm, x)
  BY <1>26 DEF UserAdded
<1>16. \A q \in Process, c \in Area : <<q, c>> # <<p, a>> => wm[q][c] = vm[q][c]
  BY <1>26 DEF UserAdded
<1>17. ~shared => os[s] = FreeObj /\ s # File /\ UsersOf(vm, s) = {} /\ Shadowers(os, s) = {} /\ Bottomed(os, s) = {}
  BY <1>0, <1>2, ObjFacts DEF Shape
<1>18. \A x \in Object : /\ Shadowers(ns, x) = IF ~shared /\ x = o THEN Shadowers(os, x) \cup {s} ELSE Shadowers(os, x)
                         /\ Bottomed(ns, x) = IF ~shared /\ x = o THEN Bottomed(os, x) \cup {s} ELSE Bottomed(os, x)
  <2> SUFFICES ASSUME NEW x \in Object
        PROVE /\ Shadowers(ns, x) = IF ~shared /\ x = o THEN Shadowers(os, x) \cup {s} ELSE Shadowers(os, x)
              /\ Bottomed(ns, x) = IF ~shared /\ x = o THEN Bottomed(os, x) \cup {s} ELSE Bottomed(os, x)
    OBVIOUS
  <2>1. x # NoObj
    BY CowAssumption
  <2>2. ns[o].mmo_shadowed = os[o].mmo_shadowed /\ ns[o].mmo_bottom_obj = os[o].mmo_bottom_obj
    BY <1>4, <1>6, <1>12
  <2>3. CASE shared
    <3>1. \A y \in Object : ns[y].mmo_shadowed = os[y].mmo_shadowed /\ ns[y].mmo_bottom_obj = os[y].mmo_bottom_obj
      BY <1>0, <1>11, <2>2, <2>3
    <3>. QED BY <2>3, <3>1 DEF Shadowers, Bottomed
  <2>4. CASE ~shared
    <3>1. \A y \in Object : y # s => ns[y].mmo_shadowed = os[y].mmo_shadowed /\ ns[y].mmo_bottom_obj = os[y].mmo_bottom_obj
      BY <1>11, <2>2
    <3>2. ns[s].mmo_shadowed = o /\ ns[s].mmo_bottom_obj = o /\ os[s].mmo_shadowed = NoObj /\ os[s].mmo_bottom_obj = NoObj
      BY <1>8, <1>13, <1>17, <2>4, FreeObjIs
    <3>. QED BY <1>0, <2>1, <2>4, <3>1, <3>2 DEF Shadowers, Bottomed
  <2>. QED BY <1>0, <2>3, <2>4
<1>19. ASSUME NEW x \in Object
       PROVE  Refs(ns, wm, x) = Refs(os, vm, x) + (IF x = o THEN refs ELSE IF x = s THEN 1 ELSE 0)
  <2>1. PICK U : U = UsersOf(vm, x) /\ IsFiniteSet(U) /\ Cardinality(U) \in Nat
    BY RefsFinite
  <2>2. PICK S : S = Shadowers(os, x) /\ IsFiniteSet(S) /\ Cardinality(S) \in Nat
    BY RefsFinite
  <2>3. PICK C : C = Bottomed(os, x) /\ IsFiniteSet(C) /\ Cardinality(C) \in Nat
    BY RefsFinite
  <2>4. Cardinality(UsersOf(wm, x)) = Cardinality(U) + (IF x = s THEN 1 ELSE 0)
    <3>1. CASE x = s
      <4>1. UsersOf(wm, x) = U \cup {<<p, a>>} /\ <<p, a>> \notin U
        BY <1>14, <1>15, <2>1, <3>1
      <4>. QED BY <2>1, <3>1, <4>1, FS_AddElement
    <3>2. CASE x # s
      <4>1. UsersOf(wm, x) = U
        BY <1>15, <2>1, <3>2
      <4>. QED BY <2>1, <3>2, <4>1
    <3>. QED BY <3>1, <3>2
  <2>5. ~shared => s \notin Shadowers(os, x) /\ s \notin Bottomed(os, x)
    BY <1>17, FreeObjIs, CowAssumption DEF Shadowers, Bottomed
  <2>6. Cardinality(Shadowers(ns, x)) = Cardinality(S) + (IF ~shared /\ x = o THEN 1 ELSE 0)
    <3>1. CASE ~shared /\ x = o
      <4>1. Shadowers(ns, x) = S \cup {s} /\ s \notin S
        BY <1>18, <2>2, <2>5, <3>1
      <4>. QED BY <2>2, <3>1, <4>1, FS_AddElement
    <3>2. CASE ~(~shared /\ x = o)
      <4>1. Shadowers(ns, x) = S
        BY <1>18, <2>2, <3>2
      <4>. QED BY <2>2, <3>2, <4>1
    <3>. QED BY <3>1, <3>2
  <2>7. Cardinality(Bottomed(ns, x)) = Cardinality(C) + (IF ~shared /\ x = o THEN 1 ELSE 0)
    <3>1. CASE ~shared /\ x = o
      <4>1. Bottomed(ns, x) = C \cup {s} /\ s \notin C
        BY <1>18, <2>3, <2>5, <3>1
      <4>. QED BY <2>3, <3>1, <4>1, FS_AddElement
    <3>2. CASE ~(~shared /\ x = o)
      <4>1. Bottomed(ns, x) = C
        BY <1>18, <2>3, <3>2
      <4>. QED BY <2>3, <3>2, <4>1
    <3>. QED BY <3>1, <3>2
  <2>8. PICK u \in Nat : u = Cardinality(U)
    BY <2>1
  <2>9. PICK t \in Nat : t = Cardinality(S)
    BY <2>2
  <2>10. PICK c \in Nat : c = Cardinality(C)
    BY <2>3
  <2>11. PICK f \in Nat : f = IF x = File THEN 1 ELSE 0
    OBVIOUS
  <2>12. PICK i \in Nat : i = IF x = s THEN 1 ELSE 0
    OBVIOUS
  <2>13. PICK j \in Nat : j = IF ~shared /\ x = o THEN 1 ELSE 0
    OBVIOUS
  <2>14. Refs(os, vm, x) = u + t + c + f
    BY <2>1, <2>2, <2>3, <2>8, <2>9, <2>10, <2>11 DEF Refs
  <2>15. Refs(ns, wm, x) = (u + i) + (t + j) + (c + j) + f
    BY <2>4, <2>6, <2>7, <2>8, <2>9, <2>10, <2>11, <2>12, <2>13 DEF Refs
  <2>16. i + j + j = IF x = o THEN refs ELSE IF x = s THEN 1 ELSE 0
    BY <1>0, <1>3, <2>12, <2>13
  <2>17. (u + i) + (t + j) + (c + j) + f = (u + t + c + f) + (i + j + j)
    BY ONLY u \in Nat, t \in Nat, c \in Nat, f \in Nat, i \in Nat, j \in Nat
  <2>. QED BY <2>14, <2>15, <2>16, <2>17
<1>20. ASSUME NEW x \in Object PROVE CountedObj(ns, wm, x)
  <2>1. PICK r \in Nat : r = Refs(os, vm, x)
    BY RefsFinite
  <2>2. PICK m \in Nat : m = mmo_nrespages(os, x)
    BY ResidentCount
  <2>3. CASE x = o
    <3>1. Refs(ns, wm, x) = r + refs
      BY <1>19, <2>1, <2>3
    <3>2. mmo_nrespages(ns, x) = m
      BY <1>6, <1>12, <2>2, <2>3 DEF mmo_nrespages, Resident
    <3>3. os[o].mmo_refcount = r + m
      <4>1. CASE file
        BY <1>0, <1>2, <2>1, <2>2, <2>3, <4>1 DEF CountedObj, Shape
      <4>2. CASE ~file
        <5>1. r = 0
          BY <1>0, <1>2, <2>1, <2>3, <4>2 DEF CountedObj
        <5>2. {n \in Page : Resident(os, x, n)} = {}
          BY <1>4, <2>3, <4>2, FreeObjIs DEF Resident
        <5>3. m = 0
          BY <2>2, <5>2, FS_EmptySet DEF mmo_nrespages
        <5>. QED BY <1>4, <4>2, <5>1, <5>3, FreeObjIs
      <4>. QED BY <4>1, <4>2
    <3>4. ns[x].mmo_refcount = (r + refs) + m /\ r + refs # 0
      BY <1>3, <1>6, <1>12, <2>3, <3>3
    <3>5. ns[x].kind # "free"
      BY <1>6, <1>12, <2>3
    <3>. QED BY <3>1, <3>2, <3>4, <3>5 DEF CountedObj
  <2>4. CASE x # o /\ x = s
    <3>1. ~shared
      BY <1>0, <2>4
    <3>2. r = 0
      BY <1>0, <1>2, <2>1, <2>4, <3>1 DEF CountedObj
    <3>6. Refs(ns, wm, x) = r + 1
      BY <1>19, <2>1, <2>4
    <3>3. Refs(ns, wm, x) = 1
      BY <3>2, <3>6
    <3>4. {n \in Page : Resident(ns, x, n)} = {}
      BY <1>8, <1>13, <2>4, <3>1 DEF Resident
    <3>5. mmo_nrespages(ns, x) = 0
      BY <3>4, FS_EmptySet DEF mmo_nrespages
    <3>. QED BY <1>8, <1>13, <2>4, <3>1, <3>3, <3>5 DEF CountedObj
  <2>5. CASE x # o /\ x # s
    <3>2. Refs(ns, wm, x) = r + 0
      BY <1>19, <2>1, <2>5
    <3>3. ns[x] = os[x]
      BY <1>11, <2>5
    <3>1. ns[x] = os[x] /\ Refs(ns, wm, x) = r /\ mmo_nrespages(ns, x) = m
      BY <2>2, <3>2, <3>3 DEF mmo_nrespages, Resident
    <3>. QED BY <1>2, <2>1, <2>2, <3>1 DEF CountedObj
  <2>. QED BY <2>3, <2>4, <2>5
<1>21. \A x \in Object : x # o /\ x # s => os[x].mmo_shadowed # s \/ shared
  BY <1>17 DEF Shadowers
<1>22. ASSUME NEW x \in Object PROVE Shape(ns, x)
  <2>1. CASE x = o
    BY <1>0, <1>2, <1>6, <1>12, <2>1 DEF Shape
  <2>2. CASE x # o /\ x = s
    <3>1. Bottom(ns, o) = o
      BY <1>6, <1>12 DEF Bottom
    <3>2. o # NoObj
      BY <1>0, CowAssumption
    <3>. QED BY <1>0, <1>8, <1>13, <1>17, <2>2, <3>1, <3>2 DEF Shape
  <2>3. CASE x # o /\ x # s
    <3>1. ns[x] = os[x] /\ Shape(os, x)
      BY <1>2, <1>11, <2>3
    <3>2. ASSUME os[x].kind = "shadow" PROVE Bottom(ns, os[x].mmo_shadowed) = Bottom(os, os[x].mmo_shadowed)
      <4>1. PICK y \in Object : y = os[x].mmo_shadowed
        BY <1>0, <3>1, <3>2, ObjFacts DEF Shape
      <4>2. CASE y = o
        BY <1>4, <1>6, <1>12, <4>1, <4>2 DEF Bottom
      <4>3. CASE y # o
        <5>1. y # s
          BY <1>0, <1>21, <2>3, <4>1, <4>3
        <5>. QED BY <1>11, <4>1, <4>3, <5>1 DEF Bottom
      <4>. QED BY <4>2, <4>3
    <3>. QED BY <3>1, <3>2 DEF Shape
  <2>. QED BY <2>1, <2>2, <2>3
<1>23. Ranked(ShadowOf(ns))
  <2>1. PICK next : next = ShadowOf(os) /\ \A x \in Object : next[x] = os[x].mmo_shadowed
    BY ShadowOfIs
  <2>2. PICK new : new = ShadowOf(ns) /\ \A x \in Object : new[x] = ns[x].mmo_shadowed
    BY ShadowOfIs
  <2>3. new \in [Object -> Object \cup {NoObj}]
    BY <1>10, <2>2 DEF ObjType, ShadowOf
  <2>4. Ranked(next)
    BY <1>0, <2>1, ObjFacts
  <2>5. PICK N : N = IF shared THEN {} ELSE {s}
    OBVIOUS
  <2>6. ASSUME NEW x \in Object,
               new[x] # NoObj PROVE new[x] \notin N /\ (x \in N \/ new[x] = next[x])
    <3>1. x # o
      BY <1>6, <1>12, <2>2, <2>6
    <3>2. CASE x = s
      BY <1>0, <1>8, <1>13, <2>2, <2>5, <3>1, <3>2
    <3>3. CASE x # s
      BY <1>11, <1>21, <2>1, <2>2, <2>5, <3>1, <3>3
    <3>. QED BY <3>2, <3>3
  <2>7. Ranked(new)
    BY ONLY <2>3, <2>4, <2>6, RankedStep
  <2>. QED BY <2>2, <2>7
<1>24. ASSUME NEW q \in Process, NEW c \in Area PROVE AreaFits(ns, wm, q, c)
  <2>1. CASE <<q, c>> = <<p, a>>
    <3>1. CASE shared
      BY <1>0, <1>6, <1>12, <1>14, <2>1, <3>1 DEF AreaFits
    <3>2. CASE ~shared
      <4>1. UsersOf(wm, s) = {<<p, a>>} /\ Shadowers(ns, s) = {}
        BY <1>0, <1>15, <1>17, <1>18, <3>2
      <4>2. ns[s].mmo_shadowed # NoObj
        BY <1>0, <1>8, <1>13, <3>2, CowAssumption
      <4>. QED BY <1>14, <2>1, <3>2, <4>1, <4>2 DEF AreaFits
    <3>. QED BY <3>1, <3>2
  <2>2. CASE <<q, c>> # <<p, a>>
    <3>1. wm[q][c] = vm[q][c] /\ AreaFits(os, vm, q, c)
      BY <1>0, <1>16, <2>2 DEF ObjInv
    <3>2. CASE vm[q][c] = NoArea
      BY <3>1, <3>2 DEF AreaFits
    <3>3. CASE vm[q][c] # NoArea
      <4>1. PICK x \in Object : x = vm[q][c].obj
        BY <1>1, <3>3 DEF VmaType, AreaType
      <4>2. <<q, c>> \in UsersOf(vm, x)
        BY <3>3, <4>1 DEF UsersOf, Uses
      <4>3. os[x].kind # "free"
        BY <1>0, <4>2, ObjFacts
      <4>4. vm[q][c].shared => os[x].mmo_shadowed = NoObj
        BY <3>1, <3>3, <4>1 DEF AreaFits
      <4>5. ~vm[q][c].shared => os[x].mmo_shadowed # NoObj /\ UsersOf(vm, x) = {<<q, c>>} /\ Shadowers(os, x) = {}
        BY <3>1, <3>3, <4>1 DEF AreaFits
      <4>6. CASE x = o
        BY <1>4, <1>6, <1>12, <3>1, <4>1, <4>4, <4>5, <4>6 DEF AreaFits
      <4>7. CASE x # o
        <5>1. x # s
          BY <1>0, <4>3, <4>7
        <5>2. ns[x] = os[x] /\ UsersOf(wm, x) = UsersOf(vm, x) /\ Shadowers(ns, x) = Shadowers(os, x)
          BY <1>11, <1>15, <1>18, <4>7, <5>1
        <5>. QED BY <3>1, <4>1, <4>4, <4>5, <5>2 DEF AreaFits
      <4>. QED BY <4>6, <4>7
    <3>. QED BY <3>2, <3>3
  <2>. QED BY <2>1, <2>2
<1>25. ObjInv(ns, wm)
  BY <1>10, <1>14, <1>20, <1>22, <1>23, <1>24 DEF ObjInv, ObjsType
<1>. QED BY <1>6, <1>7, <1>11, <1>12, <1>13, <1>25

-----------------------------------------------------------------------------
(* The slab has an object for each member of S.                             *)
LEMMA AllocExists ==
  ASSUME NEW os, NEW S, IsFiniteSet(S), CanAlloc(os, S)
  PROVE  LET f == slab_obj_alloc(os, S) IN f \in [S -> Free(os)] /\ \A i, j \in S : i # j => f[i] # f[j]
<1>1. IsFiniteSet(Free(os))
  <2>1. Free(os) \in SUBSET Object
    BY DEF Free
  <2>. QED BY <2>1, CowAssumption, FS_Subset
<1>2. PICK n \in Nat : n = Cardinality(S)
  BY FS_CardinalityType
<1>3. PICK m \in Nat : m = Cardinality(Free(os))
  BY <1>1, FS_CardinalityType
<1>4. n <= m
  BY <1>2, <1>3 DEF CanAlloc
<1>5. ExistsBijection(S, 1..n)
  BY <1>2, FS_CardinalityType, Fun_ExistsBijSymmetric
<1>6. ExistsBijection(1..m, Free(os))
  BY <1>1, <1>3, FS_CardinalityType
<1>7. PICK g : g \in [S -> 1..n] /\ \A i, j \in S : g[i] = g[j] => i = j
  BY <1>5 DEF ExistsBijection, Bijection, Injection, IsInjective
<1>8. PICK h : h \in [1..m -> Free(os)] /\ \A i, j \in 1..m : h[i] = h[j] => i = j
  BY <1>6 DEF ExistsBijection, Bijection, Injection, IsInjective
<1>9. PICK f : f = [s \in S |-> h[g[s]]]
  OBVIOUS
<1>10. \A s \in S : g[s] \in 1..m
  BY <1>4, <1>7
<1>11. f \in [S -> Free(os)] /\ \A i, j \in S : i # j => f[i] # f[j]
  BY <1>7, <1>8, <1>9, <1>10
<1>. QED BY <1>11 DEF slab_obj_alloc
-----------------------------------------------------------------------------
(* do_fork.                                                                 *)
Forking(p, c, new, ns, wm) ==
  /\ ObjInv(objs, vma) /\ p \in Process /\ c \in Process /\ p # c /\ vma[c] = NoAreas
  /\ new \in [{p, c} \X Private(p) -> Free(objs)]
  /\ \A i, j \in {p, c} \X Private(p) : i # j => new[i] # new[j]
  /\ ns = ForkObjects(p, c, new)
  /\ wm = [vma EXCEPT ![p] = ForkAreas(p, p, new), ![c] = ForkAreas(p, c, new)]

(* The areas before and after.                                              *)
ForkedAreas(p, c, new, wm) ==
  /\ VmaType(wm)
  /\ \A q \in Process : q \notin {p, c} => wm[q] = vma[q]
  /\ \A q \in {p, c}, a \in Private(p) : /\ wm[q][a] # NoArea /\ wm[q][a].obj = new[<<q, a>>]
                                         /\ wm[q][a].shared = FALSE
  /\ \A q \in {p, c}, a \in Area : a \notin Private(p) => wm[q][a] = vma[p][a]
  /\ \A q \in {p, c}, a \in Private(p) : new[<<q, a>>] \in Object /\ objs[new[<<q, a>>]].kind = "free"
  /\ \A q, r \in {p, c}, a, b \in Private(p) : new[<<q, a>>] = new[<<r, b>>] => q = r /\ a = b
  /\ \A a \in Area : vma[c][a] = NoArea
  /\ Private(p) \in SUBSET Area /\ Shared(p) \in SUBSET Area
  /\ \A a \in Private(p) : vma[p][a] \in AreaType /\ vma[p][a].shared = FALSE /\ vma[p][a] # NoArea
  /\ \A a \in Shared(p) : vma[p][a] \in AreaType /\ vma[p][a].shared = TRUE /\ vma[p][a] # NoArea
  /\ \A a \in Area : a \notin Private(p) /\ a \notin Shared(p) => vma[p][a] = NoArea

(* The areas after do_fork are these.                                      *)
LEMMA ForkAreasAre ==
  ASSUME NEW p, NEW c, NEW new, NEW ns, NEW wm, Forking(p, c, new, ns, wm)
  PROVE  ForkedAreas(p, c, new, wm)
<1>1. /\ p \in Process /\ c \in Process /\ p # c /\ vma[c] = NoAreas
      /\ new \in [{p, c} \X Private(p) -> Free(objs)]
      /\ \A i, j \in {p, c} \X Private(p) : i # j => new[i] # new[j]
      /\ wm = [vma EXCEPT ![p] = ForkAreas(p, p, new), ![c] = ForkAreas(p, c, new)]
  BY DEF Forking
<1>2. vma \in [Process -> [Area -> {NoArea} \cup AreaType]]
  BY DEF Forking, ObjInv, VmaType
<1>3. PICK P : P = Private(p) /\ P \in SUBSET Area
  BY DEF Private
<1>4. Shared(p) \in SUBSET Area
  BY DEF Shared
<1>5. \A a \in P : vma[p][a] \in AreaType /\ vma[p][a].shared = FALSE /\ vma[p][a] # NoArea
  BY <1>1, <1>2, <1>3 DEF Private, AreaType
<1>6. \A a \in Shared(p) : vma[p][a] \in AreaType /\ vma[p][a].shared = TRUE /\ vma[p][a] # NoArea
  BY <1>1, <1>2 DEF Shared, AreaType
<1>7. \A a \in Area : a \notin Private(p) /\ a \notin Shared(p) => vma[p][a] = NoArea
  BY DEF Private, Shared
<1>8. \A a \in Area : vma[c][a] = NoArea
  BY <1>1 DEF NoAreas
<1>9. \A q \in {p, c}, a \in P : <<q, a>> \in {p, c} \X P
  OBVIOUS
<1>10. \A q \in {p, c}, a \in P : new[<<q, a>>] \in Object /\ objs[new[<<q, a>>]].kind = "free"
  BY <1>1, <1>3, <1>9 DEF Free
<1>11. \A q, r \in {p, c}, a, b \in P : new[<<q, a>>] = new[<<r, b>>] => q = r /\ a = b
  BY <1>1, <1>3, <1>9
<1>12. ASSUME NEW q \in {p, c}, NEW a \in P
       PROVE  LET e == [vma[p][a] EXCEPT !.obj = new[<<q, a>>]] IN
              e \in AreaType /\ e # NoArea /\ e.obj = new[<<q, a>>] /\ e.shared = FALSE
  <2>1. PICK m \in AreaType : m = vma[p][a] /\ m.shared = FALSE
    BY <1>5, <1>12
  <2>2. PICK x \in Object : x = new[<<q, a>>]
    BY <1>10, <1>12
  <2>3. PICK e : e = [m EXCEPT !.obj = x]
    OBVIOUS
  <2>4. e \in AreaType /\ e.obj = x /\ e.shared = FALSE
    BY <2>1, <2>3 DEF AreaType
  <2>5. e # NoArea
    BY <2>4, CowAssumption DEF AreaType
  <2>. QED BY <2>1, <2>2, <2>3, <2>4, <2>5
<1>13. ASSUME NEW q \in {p, c} PROVE ForkAreas(p, q, new) \in [Area -> {NoArea} \cup AreaType]
  BY <1>1, <1>2, <1>3, <1>12, <1>13 DEF ForkAreas
<1>14. PICK F \in [Area -> {NoArea} \cup AreaType] : F = ForkAreas(p, p, new)
  BY <1>13
<1>15. PICK G \in [Area -> {NoArea} \cup AreaType] : G = ForkAreas(p, c, new)
  BY <1>13
<1>16. wm = [vma EXCEPT ![p] = F, ![c] = G]
  BY <1>1, <1>14, <1>15
<1>17. wm \in [Process -> [Area -> {NoArea} \cup AreaType]] /\ wm[p] = F /\ wm[c] = G
  BY <1>1, <1>2, <1>16
<1>18. \A q \in Process : q \notin {p, c} => wm[q] = vma[q]
  BY <1>2, <1>16
<1>19. \A q \in {p, c} : wm[q] = ForkAreas(p, q, new)
  BY <1>14, <1>15, <1>17
<1>20. \A q \in {p, c}, a \in P : /\ wm[q][a] # NoArea /\ wm[q][a].obj = new[<<q, a>>]
                                  /\ wm[q][a].shared = FALSE
  <2> SUFFICES ASSUME NEW q \in {p, c}, NEW a \in P
               PROVE wm[q][a] # NoArea /\ wm[q][a].obj = new[<<q, a>>] /\ wm[q][a].shared = FALSE
    OBVIOUS
  <2>1. ForkAreas(p, q, new)[a] = [vma[p][a] EXCEPT !.obj = new[<<q, a>>]]
    <3>1. a \in Area /\ a \in Private(p)
      BY <1>3
    <3>. QED BY ONLY <3>1 DEF ForkAreas
  <2>2. PICK e : e = [vma[p][a] EXCEPT !.obj = new[<<q, a>>]]
    OBVIOUS
  <2>3. e # NoArea /\ e.obj = new[<<q, a>>] /\ e.shared = FALSE
    BY ONLY <1>12, <2>2, q \in {p, c}, a \in P
  <2>4. wm[q][a] = e
    BY ONLY <1>19, <2>1, <2>2, q \in {p, c}
  <2>. QED BY ONLY <2>3, <2>4
<1>21. \A q \in {p, c}, a \in Area : a \notin P => wm[q][a] = vma[p][a]
  <2> SUFFICES ASSUME NEW q \in {p, c}, NEW a \in Area, a \notin P PROVE wm[q][a] = vma[p][a]
    OBVIOUS
  <2>1. ForkAreas(p, q, new)[a] = vma[p][a]
    <3>1. a \notin Private(p)
      BY ONLY <1>3, a \notin P
    <3>. QED BY ONLY <3>1, a \in Area DEF ForkAreas
  <2>. QED BY ONLY <1>19, <2>1, q \in {p, c}
<1>. QED BY <1>3, <1>4, <1>5, <1>6, <1>7, <1>8, <1>10, <1>11, <1>17, <1>18, <1>20,
        <1>21 DEF ForkedAreas, VmaType

-----------------------------------------------------------------------------
(* What fork adds to an object's references.                                *)
IsNew(p, c, new, x) == \E q \in {p, c}, a \in Private(p) : x = new[<<q, a>>]
(* The areas of p over x, those whose bottom is x, and what they add to    *)
(* the references of x; the new objects of the areas of A.                 *)
PrivateOver(p, x) == {a \in Private(p) : vma[p][a].obj = x}
SharedOver(p, x) == {a \in Shared(p) : vma[p][a].obj = x}
PrivateBottom(p, x) == {a \in Private(p) : Bottom(objs, vma[p][a].obj) = x}
Added(p, x) == Cardinality({a \in Private(p) \cup Shared(p) : vma[p][a].obj = x})
               + 2 * Cardinality(PrivateBottom(p, x))
NewOver(p, c, new, A) == {new[u] : u \in {p, c} \X A}

(* The objects after a fork: a new shadow object for each private area of  *)
(* parent and child, more references to the others.                        *)
ForkedObjs(p, c, new, ns) ==
  /\ ns \in [Object -> ObjType]
  /\ \A q \in {p, c}, a \in Private(p) :
       ns[new[<<q, a>>]] = Mmobj("shadow", 1, vma[p][a].obj, Bottom(objs, vma[p][a].obj))
  /\ \A x \in Object : ~IsNew(p, c, new, x) =>
       /\ ns[x].kind = objs[x].kind /\ ns[x].mmo_shadowed = objs[x].mmo_shadowed
       /\ ns[x].mmo_bottom_obj = objs[x].mmo_bottom_obj /\ ns[x].res = objs[x].res
       /\ ns[x].mmo_refcount = objs[x].mmo_refcount + Added(p, x)
       /\ Added(p, x) = 0 => ns[x] = objs[x]

(* These are finite sets, and Added is the sum of their sizes.             *)
LEMMA OverFinite ==
  ASSUME NEW p, NEW x
  PROVE  /\ IsFiniteSet(PrivateOver(p, x)) /\ Cardinality(PrivateOver(p, x)) \in Nat
         /\ IsFiniteSet(SharedOver(p, x)) /\ Cardinality(SharedOver(p, x)) \in Nat
         /\ IsFiniteSet(PrivateBottom(p, x)) /\ Cardinality(PrivateBottom(p, x)) \in Nat
         /\ PrivateOver(p, x) \in SUBSET Area /\ SharedOver(p, x) \in SUBSET Area /\ PrivateBottom(p, x) \in SUBSET Area
         /\ Added(p, x) = Cardinality(PrivateOver(p, x)) + Cardinality(SharedOver(p, x)) + 2 * Cardinality(PrivateBottom(p, x))
         /\ Added(p, x) \in Nat
<1>1. IsFiniteSet(Area)
  BY CowAssumption
<1>2. PICK P \in SUBSET Area : P = PrivateOver(p, x)
  BY DEF PrivateOver, Private
<1>3. PICK S \in SUBSET Area : S = SharedOver(p, x)
  BY DEF SharedOver, Shared
<1>4. PICK B \in SUBSET Area : B = PrivateBottom(p, x)
  BY DEF PrivateBottom, Private
<1>5. IsFiniteSet(P) /\ IsFiniteSet(S) /\ IsFiniteSet(B)
  BY <1>1, FS_Subset
<1>6. PICK i \in Nat : i = Cardinality(P)
  BY <1>5, FS_CardinalityType
<1>7. PICK j \in Nat : j = Cardinality(S)
  BY <1>5, FS_CardinalityType
<1>8. PICK k \in Nat : k = Cardinality(B)
  BY <1>5, FS_CardinalityType
<1>9. P \cap S = {}
  BY <1>2, <1>3 DEF PrivateOver, SharedOver, Private, Shared
<1>10. {a \in Private(p) \cup Shared(p) : vma[p][a].obj = x} = P \cup S
  BY <1>2, <1>3 DEF PrivateOver, SharedOver
<1>11. Cardinality(P \cup S) = i + j
  <2>1. Cardinality(P \cup S) = i + j - Cardinality(P \cap S)
    BY <1>5, <1>6, <1>7, FS_Union
  <2>2. Cardinality(P \cap S) = 0
    BY <1>9, FS_EmptySet
  <2>. QED BY <2>1, <2>2
<1>12. Added(p, x) = i + j + 2 * k
  BY <1>4, <1>8, <1>10, <1>11 DEF Added
<1>. QED BY <1>2, <1>3, <1>4, <1>5, <1>6, <1>7, <1>8, <1>12

(* The objects after do_fork are these.                                    *)
LEMMA ForkObjsAre ==
  ASSUME NEW p, NEW c, NEW new, NEW ns, NEW wm, Forking(p, c, new, ns, wm)
  PROVE  ForkedObjs(p, c, new, ns)
<1>1. ForkedAreas(p, c, new, wm)
  BY ForkAreasAre
<1>2. \A x \in Object : objs[x] \in ObjType
  BY DEF Forking, ObjInv, ObjsType
<1>3. PICK obj : obj = [a \in Area |-> vma[p][a].obj]
  OBVIOUS
<1>4. PICK sh : sh = [x \in Object |-> {a \in Private(p) : x \in {new[<<p, a>>], new[<<c, a>>]}}]
  OBVIOUS
<1>5. ns = [x \in Object |->
         IF sh[x] = {} THEN [objs[x] EXCEPT !.mmo_refcount = @ + Added(p, x)]
         ELSE LET a == CHOOSE b \in sh[x] : TRUE
              IN  Mmobj("shadow", 1, vma[p][a].obj, Bottom(objs, vma[p][a].obj))]
  BY <1>4 DEF Forking, ForkObjects, Added, PrivateBottom
<1>6. \A q \in {p, c}, a \in Private(p) : sh[new[<<q, a>>]] = {a}
  BY <1>1, <1>4 DEF ForkedAreas
<1>7. ASSUME NEW q \in {p, c}, NEW a \in Private(p)
      PROVE  /\ ns[new[<<q, a>>]] = Mmobj("shadow", 1, vma[p][a].obj, Bottom(objs, vma[p][a].obj))
             /\ ns[new[<<q, a>>]] \in ObjType
  <2>1. PICK x \in Object : x = new[<<q, a>>]
    BY <1>1 DEF ForkedAreas
  <2>2. sh[x] = {a}
    BY <1>6, <2>1
  <2>3. (CHOOSE b \in sh[x] : TRUE) = a
    BY <2>2
  <2>4. PICK d : d = CHOOSE b \in sh[x] : TRUE
    OBVIOUS
  <2>5. ns[x] = Mmobj("shadow", 1, vma[p][d].obj, Bottom(objs, vma[p][d].obj))
    BY <1>5, <2>2, <2>4
  <2>6. ns[x] = Mmobj("shadow", 1, vma[p][a].obj, Bottom(objs, vma[p][a].obj))
    BY <2>3, <2>4, <2>5
  <2>7. PICK y \in Object : y = vma[p][a].obj
    BY <1>1 DEF ForkedAreas, AreaType
  <2>8. Bottom(objs, y) \in Object
    BY ObjFacts DEF Forking
  <2>9. ns[x] \in ObjType
    BY <2>6, <2>7, <2>8 DEF Mmobj, ObjType, NothingResident
  <2>. QED BY <2>1, <2>6, <2>9
<1>8. ASSUME NEW x \in Object, ~IsNew(p, c, new, x)
      PROVE  /\ ns[x].kind = objs[x].kind /\ ns[x].mmo_shadowed = objs[x].mmo_shadowed
             /\ ns[x].mmo_bottom_obj = objs[x].mmo_bottom_obj /\ ns[x].res = objs[x].res
             /\ ns[x].mmo_refcount = objs[x].mmo_refcount + Added(p, x)
             /\ Added(p, x) = 0 => ns[x] = objs[x]
             /\ ns[x] \in ObjType
  <2>1. sh[x] = {}
    BY <1>4, <1>8 DEF IsNew
  <2>2. PICK r \in ObjType : r = objs[x]
    BY <1>2
  <2>3. PICK k \in Nat : k = Added(p, x)
    BY OverFinite
  <2>4. PICK m \in Nat : m = r.mmo_refcount + k /\ r.mmo_refcount \in Nat /\ (k = 0 => m = r.mmo_refcount)
    BY <2>2 DEF ObjType
  <2>5. ns[x] = [r EXCEPT !.mmo_refcount = m]
    BY <1>5, <2>1, <2>2, <2>3, <2>4
  <2>6. /\ ns[x].kind = r.kind /\ ns[x].mmo_shadowed = r.mmo_shadowed
        /\ ns[x].mmo_bottom_obj = r.mmo_bottom_obj /\ ns[x].res = r.res
        /\ ns[x].mmo_refcount = m
        /\ m = r.mmo_refcount => ns[x] = r
        /\ ns[x] \in ObjType
    BY ONLY <2>2, <2>4, <2>5 DEF ObjType
  <2>. QED BY <2>2, <2>3, <2>4, <2>6
<1>9. \A x \in Object : ns[x] \in ObjType
  <2>1. ASSUME NEW x \in Object, IsNew(p, c, new, x) PROVE ns[x] \in ObjType
    BY <1>7, <2>1 DEF IsNew
  <2>. QED BY <1>8, <2>1
<1>10. ns \in [Object -> ObjType]
  BY <1>5, <1>9
<1>. QED BY <1>7, <1>8, <1>10 DEF ForkedObjs

(* Two new objects for each area.                                           *)
LEMMA NewOverCount ==
  ASSUME NEW p, NEW c, NEW new, NEW ns, NEW wm, Forking(p, c, new, ns, wm),
         NEW A \in SUBSET Private(p)
  PROVE  /\ IsFiniteSet(NewOver(p, c, new, A))
         /\ Cardinality(NewOver(p, c, new, A)) = 2 * Cardinality(A)
<1>1. PICK X : X = {p, c} \X A
  OBVIOUS
<1>2. IsFiniteSet(A) /\ IsFiniteSet({p, c}) /\ Cardinality({p, c}) = 2
  <2>1. A \in SUBSET Area /\ IsFiniteSet(Area)
    BY CowAssumption DEF Private
  <2>2. IsFiniteSet(A)
    BY <2>1, FS_Subset
  <2>3. {p, c} = {p} \cup {c} /\ c \notin {p}
    BY DEF Forking
  <2>4. IsFiniteSet({p}) /\ Cardinality({p}) = 1
    BY FS_Singleton
  <2>5. IsFiniteSet({p} \cup {c}) /\ Cardinality({p} \cup {c}) = 1 + 1
    BY <2>3, <2>4, FS_AddElement
  <2>. QED BY <2>2, <2>3, <2>5
<1>3. IsFiniteSet(X) /\ Cardinality(X) = 2 * Cardinality(A)
  BY <1>1, <1>2, FS_Product
<1>4. PICK f : f = [u \in X |-> new[u]]
  OBVIOUS
<1>5. PICK Y : Y = NewOver(p, c, new, A)
  OBVIOUS
<1>6. f \in [X -> Y] /\ (\A y \in Y : \E u \in X : f[u] = y) /\ (\A u, v \in X : f[u] = f[v] => u = v)
  <2>1. X \subseteq {p, c} \X Private(p)
    BY <1>1
  <2>2. Y = {new[u] : u \in X}
    BY <1>1, <1>5 DEF NewOver
  <2>3. \A i, j \in {p, c} \X Private(p) : i # j => new[i] # new[j]
    BY DEF Forking
  <2>. QED BY ONLY <1>4, <2>1, <2>2, <2>3
<1>7. f \in Bijection(X, Y)
  BY <1>6 DEF Bijection, Injection, Surjection, IsInjective
<1>8. ExistsBijection(X, Y)
  BY <1>7 DEF ExistsBijection
<1>9. IsFiniteSet(Y) /\ Cardinality(Y) = Cardinality(X)
  BY <1>3, <1>8, FS_Bijection
<1>. QED BY <1>3, <1>5, <1>9

-----------------------------------------------------------------------------
(* Who names an object after a fork.                                        *)
ForkedSets(p, c, new, ns, wm) ==
  /\ \A x \in Object : Shadowers(ns, x) = Shadowers(objs, x) \cup NewOver(p, c, new, PrivateOver(p, x))
  /\ \A x \in Object : Shadowers(objs, x) \cap NewOver(p, c, new, PrivateOver(p, x)) = {}
  /\ \A x \in Object : Bottomed(ns, x) = Bottomed(objs, x) \cup NewOver(p, c, new, PrivateBottom(p, x))
  /\ \A x \in Object : Bottomed(objs, x) \cap NewOver(p, c, new, PrivateBottom(p, x)) = {}
  /\ \A x \in Object : ~IsNew(p, c, new, x) =>
       UsersOf(wm, x) = (UsersOf(vma, x) \ ({p} \X PrivateOver(p, x))) \cup ({c} \X SharedOver(p, x))
  /\ \A x : {p} \X PrivateOver(p, x) \subseteq UsersOf(vma, x)
  /\ \A x : UsersOf(vma, x) \cap ({c} \X SharedOver(p, x)) = {}
  /\ \A q \in {p, c}, a \in Private(p) : UsersOf(wm, new[<<q, a>>]) = {<<q, a>>}
  /\ \A x \in Object : (objs[x].kind = "free" => PrivateOver(p, x) = {} /\ SharedOver(p, x) = {} /\ PrivateBottom(p, x) = {})

(* Who names what after do_fork is this.                                   *)
LEMMA ForkSetsAre ==
  ASSUME NEW p, NEW c, NEW new, NEW ns, NEW wm, Forking(p, c, new, ns, wm)
  PROVE  ForkedSets(p, c, new, ns, wm)
<1>1. ForkedAreas(p, c, new, wm) /\ ForkedObjs(p, c, new, ns)
  BY ForkAreasAre, ForkObjsAre
<1>2. ObjInv(objs, vma) /\ p \in Process /\ c \in Process /\ p # c
  BY DEF Forking
<1>3. \A x \in Object : objs[x].kind = "free" =>
        /\ UsersOf(vma, x) = {} /\ Shadowers(objs, x) = {} /\ Bottomed(objs, x) = {}
        /\ objs[x].mmo_shadowed = NoObj /\ objs[x].mmo_bottom_obj = NoObj
  BY <1>2, ObjFacts, FreeObjIs DEF ObjInv, Shape
<1>4. \A q \in {p, c}, a \in Private(p) : /\ new[<<q, a>>] \in Object /\ objs[new[<<q, a>>]].kind = "free"
                                         /\ ns[new[<<q, a>>]].mmo_shadowed = vma[p][a].obj
                                         /\ ns[new[<<q, a>>]].mmo_bottom_obj = Bottom(objs, vma[p][a].obj)
  <2> SUFFICES ASSUME NEW q \in {p, c}, NEW a \in Private(p)
        PROVE /\ new[<<q, a>>] \in Object /\ objs[new[<<q, a>>]].kind = "free"
              /\ ns[new[<<q, a>>]].mmo_shadowed = vma[p][a].obj
              /\ ns[new[<<q, a>>]].mmo_bottom_obj = Bottom(objs, vma[p][a].obj)
    OBVIOUS
  <2>1. ns[new[<<q, a>>]] = Mmobj("shadow", 1, vma[p][a].obj, Bottom(objs, vma[p][a].obj))
    BY <1>1 DEF ForkedObjs
  <2>. QED BY <1>1, <2>1 DEF ForkedAreas, Mmobj
<1>5. \A x \in Object : ~IsNew(p, c, new, x) => ns[x].mmo_shadowed = objs[x].mmo_shadowed /\ ns[x].mmo_bottom_obj = objs[x].mmo_bottom_obj
  BY <1>1 DEF ForkedObjs
<1>6. ASSUME NEW A,
             NEW y PROVE y \in NewOver(p, c, new, A) <=> \E q \in {p, c}, a \in A : y = new[<<q, a>>]
  <2>1. y \in NewOver(p, c, new, A) <=> \E u \in {p, c} \X A : y = new[u]
    BY DEF NewOver
  <2>2. ASSUME NEW u \in {p, c} \X A, y = new[u] PROVE \E q \in {p, c}, a \in A : y = new[<<q, a>>]
    <3>1. PICK q \in {p, c}, a \in A : u = <<q, a>>
      OBVIOUS
    <3>. QED BY <2>2, <3>1
  <2>3. ASSUME NEW q \in {p, c}, NEW a \in A,
               y = new[<<q, a>>] PROVE \E u \in {p, c} \X A : y = new[u]
    <3>1. <<q, a>> \in {p, c} \X A
      OBVIOUS
    <3>. QED BY <2>3, <3>1
  <2>. QED BY ONLY <2>1, <2>2, <2>3
<1>7. ASSUME NEW x \in Object
      PROVE  /\ Shadowers(ns, x) = Shadowers(objs, x) \cup NewOver(p, c, new, PrivateOver(p, x))
             /\ Shadowers(objs, x) \cap NewOver(p, c, new, PrivateOver(p, x)) = {}
             /\ Bottomed(ns, x) = Bottomed(objs, x) \cup NewOver(p, c, new, PrivateBottom(p, x))
             /\ Bottomed(objs, x) \cap NewOver(p, c, new, PrivateBottom(p, x)) = {}
  <2>0. x # NoObj
    BY CowAssumption
  <2>1. \A y : y \in NewOver(p, c, new, PrivateOver(p, x)) <=> \E q \in {p, c}, a \in Private(p) : y = new[<<q, a>>] /\ vma[p][a].obj = x
    <3>1. ASSUME NEW y PROVE y \in NewOver(p, c, new, PrivateOver(p, x)) <=> \E q \in {p, c}, a \in PrivateOver(p, x) : y = new[<<q, a>>]
      BY ONLY <1>6
    <3>2. \A a : a \in PrivateOver(p, x) <=> a \in Private(p) /\ vma[p][a].obj = x
      BY DEF PrivateOver
    <3>. QED BY ONLY <3>1, <3>2
  <2>2. \A y : y \in NewOver(p, c, new, PrivateBottom(p, x)) <=> \E q \in {p, c}, a \in Private(p) : y = new[<<q, a>>] /\ Bottom(objs, vma[p][a].obj) = x
    <3>1. ASSUME NEW y PROVE y \in NewOver(p, c, new, PrivateBottom(p, x)) <=> \E q \in {p, c}, a \in PrivateBottom(p, x) : y = new[<<q, a>>]
      BY ONLY <1>6
    <3>2. \A a : a \in PrivateBottom(p, x) <=> a \in Private(p) /\ Bottom(objs, vma[p][a].obj) = x
      BY DEF PrivateBottom
    <3>. QED BY ONLY <3>1, <3>2
  <2>3. ASSUME NEW y \in Object
        PROVE  /\ ns[y].mmo_shadowed = x <=> objs[y].mmo_shadowed = x \/ y \in NewOver(p, c, new, PrivateOver(p, x))
               /\ ~(objs[y].mmo_shadowed = x /\ y \in NewOver(p, c, new, PrivateOver(p, x)))
               /\ ns[y].mmo_bottom_obj = x <=> objs[y].mmo_bottom_obj = x \/ y \in NewOver(p, c, new, PrivateBottom(p, x))
               /\ ~(objs[y].mmo_bottom_obj = x /\ y \in NewOver(p, c, new, PrivateBottom(p, x)))
    <3>1. CASE ~IsNew(p, c, new, y)
      <4>1. y \notin NewOver(p, c, new, PrivateOver(p, x)) /\ y \notin NewOver(p, c, new, PrivateBottom(p, x))
        <5>1. \A q \in {p, c}, b \in Private(p) : y # new[<<q, b>>]
          BY ONLY <3>1 DEF IsNew
        <5>2. y \notin NewOver(p, c, new, PrivateOver(p, x))
          BY ONLY <2>1, <5>1
        <5>3. y \notin NewOver(p, c, new, PrivateBottom(p, x))
          BY ONLY <2>2, <5>1
        <5>. QED BY ONLY <5>2, <5>3
      <4>. QED BY <1>5, <3>1, <4>1
    <3>2. CASE IsNew(p, c, new, y)
      <4>1. PICK q \in {p, c}, a \in Private(p) : y = new[<<q, a>>]
        BY <3>2 DEF IsNew
      <4>2. objs[y].mmo_shadowed # x /\ objs[y].mmo_bottom_obj # x
        BY <1>3, <1>4, <2>0, <4>1
      <4>3. \A r \in {p, c}, b \in Private(p) : y = new[<<r, b>>] => b = a
        <5>1. \A s, r \in {p, c}, d, b \in Private(p) : new[<<s, d>>] = new[<<r, b>>] => s = r /\ d = b
          BY ONLY <1>1 DEF ForkedAreas
        <5>. QED BY ONLY <4>1, <5>1
      <4>4. y \in NewOver(p, c, new, PrivateOver(p, x)) <=> vma[p][a].obj = x
        <5>1. vma[p][a].obj = x => y \in NewOver(p, c, new, PrivateOver(p, x))
          BY ONLY <2>1, <4>1
        <5>2. ASSUME y \in NewOver(p, c, new, PrivateOver(p, x)) PROVE vma[p][a].obj = x
          <6>1. PICK r \in {p, c}, b \in Private(p) : y = new[<<r, b>>] /\ vma[p][b].obj = x
            BY ONLY <2>1, <5>2
          <6>. QED BY ONLY <4>3, <6>1
        <5>. QED BY ONLY <5>1, <5>2
      <4>5. y \in NewOver(p, c, new, PrivateBottom(p, x)) <=> Bottom(objs, vma[p][a].obj) = x
        <5>1. Bottom(objs, vma[p][a].obj) = x => y \in NewOver(p, c, new, PrivateBottom(p, x))
          BY ONLY <2>2, <4>1
        <5>2. ASSUME y \in NewOver(p, c, new, PrivateBottom(p, x)) PROVE Bottom(objs, vma[p][a].obj) = x
          <6>1. PICK r \in {p, c}, b \in Private(p) : y = new[<<r, b>>] /\ Bottom(objs, vma[p][b].obj) = x
            BY ONLY <2>2, <5>2
          <6>. QED BY ONLY <4>3, <6>1
        <5>. QED BY ONLY <5>1, <5>2
      <4>. QED BY <1>4, <4>1, <4>2, <4>4, <4>5
    <3>. QED BY <3>1, <3>2
  <2>4. NewOver(p, c, new, PrivateOver(p, x)) \subseteq Object /\ NewOver(p, c, new, PrivateBottom(p, x)) \subseteq Object
    <3>1. \A q \in {p, c}, a \in Private(p) : new[<<q, a>>] \in Object
      BY ONLY <1>4
    <3>2. NewOver(p, c, new, PrivateOver(p, x)) \subseteq Object
      <4> SUFFICES ASSUME NEW y \in NewOver(p, c, new, PrivateOver(p, x)) PROVE y \in Object
        OBVIOUS
      <4>1. PICK q \in {p, c}, a \in Private(p) : y = new[<<q, a>>]
        BY <2>1
      <4>. QED BY <3>1, <4>1
    <3>3. NewOver(p, c, new, PrivateBottom(p, x)) \subseteq Object
      BY ONLY <2>2, <3>1
    <3>. QED BY ONLY <3>2, <3>3
  <2>. QED BY <2>3, <2>4 DEF Shadowers, Bottomed
<1>8. \A x : \A q \in Process, a \in Area : <<q, a>> \in UsersOf(vma, x) <=> vma[q][a] # NoArea /\ vma[q][a].obj = x
  BY DEF UsersOf, Uses
<1>9. \A x : \A q \in Process, a \in Area : <<q, a>> \in UsersOf(wm, x) <=> wm[q][a] # NoArea /\ wm[q][a].obj = x
  BY DEF UsersOf, Uses
<1>10. \A q, a, x : /\ <<q, a>> \in {p} \X PrivateOver(p, x) <=> q = p /\ a \in Private(p) /\ vma[p][a].obj = x
                    /\ <<q, a>> \in {c} \X SharedOver(p, x) <=> q = c /\ a \in Shared(p) /\ vma[p][a].obj = x
  BY DEF PrivateOver, SharedOver
<1>11. /\ \A a \in Private(p) : a \in Area /\ vma[p][a] # NoArea
       /\ \A a \in Shared(p) : a \in Area /\ vma[p][a] # NoArea
       /\ \A a \in Area : a \notin Private(p) /\ a \notin Shared(p) => vma[p][a] = NoArea
       /\ \A a \in Area : vma[c][a] = NoArea
       /\ Private(p) \cap Shared(p) = {}
  BY <1>1 DEF ForkedAreas, Private, Shared
<1>12. \A x : UsersOf(vma, x) \subseteq Process \X Area /\ UsersOf(wm, x) \subseteq Process \X Area
  BY DEF UsersOf
<1>13. \A x : {p} \X PrivateOver(p, x) \subseteq UsersOf(vma, x)
  <2> SUFFICES ASSUME NEW x, NEW u \in {p} \X PrivateOver(p, x) PROVE u \in UsersOf(vma, x)
    OBVIOUS
  <2>1. PICK q \in {p}, a \in PrivateOver(p, x) : u = <<q, a>>
    OBVIOUS
  <2>2. q = p /\ a \in Private(p) /\ vma[p][a].obj = x
    BY <2>1 DEF PrivateOver
  <2>. QED BY <1>2, <1>8, <1>11, <2>1, <2>2
<1>14. \A x : UsersOf(vma, x) \cap ({c} \X SharedOver(p, x)) = {}
  <2> SUFFICES ASSUME NEW x, NEW u \in {c} \X SharedOver(p, x) PROVE u \notin UsersOf(vma, x)
    OBVIOUS
  <2>1. PICK q \in {c}, a \in SharedOver(p, x) : u = <<q, a>>
    OBVIOUS
  <2>2. q = c /\ a \in Area
    BY <1>11, <2>1 DEF SharedOver
  <2>. QED BY <1>2, <1>8, <1>11, <2>1, <2>2
<1>15. ASSUME NEW x \in Object, ~IsNew(p, c, new, x)
       PROVE  UsersOf(wm, x) = (UsersOf(vma, x) \ ({p} \X PrivateOver(p, x))) \cup ({c} \X SharedOver(p, x))
  <2>1. {c} \X SharedOver(p, x) \subseteq Process \X Area
    BY <1>2, <1>11 DEF SharedOver
  <2>2. ASSUME NEW q \in Process, NEW a \in Area
        PROVE <<q, a>> \in UsersOf(wm, x) <=>
                \/ <<q, a>> \in UsersOf(vma, x) /\ <<q, a>> \notin {p} \X PrivateOver(p, x)
                \/ <<q, a>> \in {c} \X SharedOver(p, x)
    <3>1. CASE q \notin {p, c}
      <4>1. wm[q] = vma[q]
        BY <1>1, <3>1 DEF ForkedAreas
      <4>. QED BY <1>8, <1>9, <1>10, <3>1, <4>1
    <3>2. CASE q \in {p, c} /\ a \in Private(p)
      <4>1. wm[q][a].obj = new[<<q, a>>] /\ new[<<q, a>>] # x
        BY <1>1, <1>15, <3>2 DEF ForkedAreas, IsNew
      <4>2. <<q, a>> \notin UsersOf(wm, x)
        BY <1>9, <4>1
      <4>3. q = p => (<<q, a>> \in UsersOf(vma, x) => <<q, a>> \in {p} \X PrivateOver(p, x))
        BY <1>8, <1>10, <3>2
      <4>4. q = c => <<q, a>> \notin UsersOf(vma, x)
        BY <1>8, <1>11
      <4>5. <<q, a>> \notin {c} \X SharedOver(p, x)
        BY <1>10, <1>11, <3>2
      <4>. QED BY <3>2, <4>2, <4>3, <4>4, <4>5
    <3>3. CASE q \in {p, c} /\ a \notin Private(p)
      <4>1. wm[q][a] = vma[p][a]
        BY <1>1, <3>3 DEF ForkedAreas
      <4>2. <<q, a>> \notin {p} \X PrivateOver(p, x)
        BY <1>10, <3>3
      <4>3. CASE q = p
        BY <1>2, <1>8, <1>9, <1>10, <4>1, <4>2, <4>3
      <4>4. CASE q = c
        <5>1. <<q, a>> \notin UsersOf(vma, x)
          BY <1>8, <1>11, <4>4
        <5>2. <<q, a>> \in {c} \X SharedOver(p, x) <=> a \in Shared(p) /\ vma[p][a].obj = x
          BY <1>10, <4>4
        <5>3. <<q, a>> \in UsersOf(wm, x) <=> vma[p][a] # NoArea /\ vma[p][a].obj = x
          BY <1>9, <4>1
        <5>. QED BY <1>11, <3>3, <5>1, <5>2, <5>3
      <4>. QED BY <3>3, <4>3, <4>4
    <3>. QED BY <3>1, <3>2, <3>3
  <2>3. ASSUME NEW u \in Process \X Area
        PROVE u \in UsersOf(wm, x) <=> u \in (UsersOf(vma, x) \ ({p} \X PrivateOver(p, x))) \cup ({c} \X SharedOver(p, x))
    <3>1. PICK q \in Process, a \in Area : u = <<q, a>>
      OBVIOUS
    <3>. QED BY <2>2, <3>1
  <2>. QED BY <1>12, <2>1, <2>3
<1>16. ASSUME NEW q \in {p, c}, NEW a \in Private(p) PROVE UsersOf(wm, new[<<q, a>>]) = {<<q, a>>}
  <2>1. PICK x \in Object : x = new[<<q, a>>] /\ objs[x].kind = "free"
    BY <1>4
  <2>2. q \in Process /\ a \in Area
    BY <1>2, <1>11
  <2>3. wm[q][a] # NoArea /\ wm[q][a].obj = x
    BY <1>1, <2>1 DEF ForkedAreas
  <2>4. <<q, a>> \in UsersOf(wm, x)
    BY <1>9, <2>2, <2>3
  <2>5. ASSUME NEW r \in Process, NEW b \in Area, <<r, b>> \in UsersOf(wm, x) PROVE r = q /\ b = a
    <3>1. wm[r][b] # NoArea /\ wm[r][b].obj = x
      BY <1>9, <2>5
    <3>2. UsersOf(vma, x) = {}
      BY <1>3, <2>1
    <3>3. CASE r \notin {p, c}
      <4>1. wm[r] = vma[r]
        BY <1>1, <3>3 DEF ForkedAreas
      <4>. QED BY <1>8, <3>1, <3>2, <4>1
    <3>4. CASE r \in {p, c} /\ b \in Private(p)
      <4>1. new[<<r, b>>] = x
        BY <1>1, <3>1, <3>4 DEF ForkedAreas
      <4>. QED BY <1>1, <2>1, <3>4, <4>1 DEF ForkedAreas
    <3>5. CASE r \in {p, c} /\ b \notin Private(p)
      <4>1. wm[r][b] = vma[p][b]
        BY <1>1, <3>5 DEF ForkedAreas
      <4>2. <<p, b>> \in UsersOf(vma, x)
        BY <1>2, <1>8, <3>1, <4>1
      <4>. QED BY <3>2, <4>2
    <3>. QED BY <3>3, <3>4, <3>5
  <2>6. ASSUME NEW u \in UsersOf(wm, x) PROVE u = <<q, a>>
    <3>1. PICK r \in Process, b \in Area : u = <<r, b>>
      BY <1>12, <2>6
    <3>. QED BY <2>5, <2>6, <3>1
  <2>. QED BY <2>1, <2>4, <2>6
<1>17. ASSUME NEW x \in Object,
              objs[x].kind = "free" PROVE PrivateOver(p, x) = {} /\ SharedOver(p, x) = {} /\ PrivateBottom(p, x) = {}
  <2>1. UsersOf(vma, x) = {}
    BY <1>3, <1>17
  <2>2. \A a \in Area : vma[p][a] # NoArea => vma[p][a].obj # x
    BY <1>2, <1>8, <2>1
  <2>3. PrivateOver(p, x) = {} /\ SharedOver(p, x) = {}
    BY <1>11, <2>2 DEF PrivateOver, SharedOver
  <2>4. ASSUME NEW a \in Private(p) PROVE Bottom(objs, vma[p][a].obj) # x
    <3>1. PICK y \in Object : y = vma[p][a].obj
      BY <1>1 DEF ForkedAreas, AreaType
    <3>2. <<p, a>> \in UsersOf(vma, y)
      BY <1>2, <1>8, <1>11, <3>1
    <3>3. objs[y].kind # "free"
      BY <1>3, <3>2
    <3>4. objs[Bottom(objs, y)].kind # "free"
      BY <1>2, <3>3, BeneathNotFree, ObjFacts
    <3>. QED BY <1>17, <3>1, <3>4
  <2>. QED BY <2>3, <2>4 DEF PrivateBottom
<1>. QED BY <1>7, <1>13, <1>14, <1>15, <1>16, <1>17 DEF ForkedSets

-----------------------------------------------------------------------------
(* do_fork adds to each count what it adds to the references               *)
(* (fork.c:107-115), and a new object has one reference.                   *)
LEMMA ForkCounts ==
  ASSUME NEW p, NEW c, NEW new, NEW ns, NEW wm, Forking(p, c, new, ns, wm)
  PROVE  \A x \in Object : /\ ~IsNew(p, c, new, x) => Refs(ns, wm, x) = Refs(objs, vma, x) + Added(p, x)
                           /\ IsNew(p, c, new, x) => Refs(ns, wm, x) = 1
<1>1. ForkedAreas(p, c, new, wm) /\ ForkedSets(p, c, new, ns, wm)
  BY ForkAreasAre, ForkSetsAre
<1>2. ObjInv(objs, vma)
  BY DEF Forking
<1>3. ASSUME NEW x \in Object, ~IsNew(p, c, new, x)
      PROVE  Refs(ns, wm, x) = Refs(objs, vma, x) + Added(p, x)
  <2>1. PICK U : U = UsersOf(vma, x) /\ IsFiniteSet(U)
    BY RefsFinite
  <2>2. PICK S : S = Shadowers(objs, x) /\ IsFiniteSet(S)
    BY RefsFinite
  <2>3. PICK C : C = Bottomed(objs, x) /\ IsFiniteSet(C)
    BY RefsFinite
  <2>4. PICK PO : PO = PrivateOver(p, x) /\ IsFiniteSet(PO) /\ PO \in SUBSET Private(p)
    <3>1. PrivateOver(p, x) \in SUBSET Private(p)
      BY DEF PrivateOver
    <3>. QED BY <3>1, OverFinite
  <2>5. PICK SO : SO = SharedOver(p, x) /\ IsFiniteSet(SO)
    BY OverFinite
  <2>6. PICK PB : PB = PrivateBottom(p, x) /\ IsFiniteSet(PB) /\ PB \in SUBSET Private(p)
    <3>1. PrivateBottom(p, x) \in SUBSET Private(p)
      BY DEF PrivateBottom
    <3>. QED BY <3>1, OverFinite
  <2>7. PICK u \in Nat : u = Cardinality(U)
    BY <2>1, FS_CardinalityType
  <2>8. PICK t \in Nat : t = Cardinality(S)
    BY <2>2, FS_CardinalityType
  <2>9. PICK d \in Nat : d = Cardinality(C)
    BY <2>3, FS_CardinalityType
  <2>10. PICK i \in Nat : i = Cardinality(PO)
    BY <2>4, FS_CardinalityType
  <2>11. PICK j \in Nat : j = Cardinality(SO)
    BY <2>5, FS_CardinalityType
  <2>12. PICK k \in Nat : k = Cardinality(PB)
    BY <2>6, FS_CardinalityType
  <2>13. PICK P1 : P1 = {p} \X PO
    OBVIOUS
  <2>14. PICK C1 : C1 = {c} \X SO
    OBVIOUS
  <2>15. IsFiniteSet(P1) /\ Cardinality(P1) = i
    <3>1. IsFiniteSet({p}) /\ Cardinality({p}) = 1
      BY FS_Singleton
    <3>2. IsFiniteSet(P1) /\ Cardinality(P1) = 1 * i
      BY <2>4, <2>10, <2>13, <3>1, FS_Product
    <3>. QED BY <3>2
  <2>16. IsFiniteSet(C1) /\ Cardinality(C1) = j
    <3>1. IsFiniteSet({c}) /\ Cardinality({c}) = 1
      BY FS_Singleton
    <3>2. IsFiniteSet(C1) /\ Cardinality(C1) = 1 * j
      BY <2>5, <2>11, <2>14, <3>1, FS_Product
    <3>. QED BY <3>2
  <2>17. UsersOf(wm, x) = (U \ P1) \cup C1 /\ P1 \subseteq U /\ U \cap C1 = {}
    BY <1>1, <1>3, <2>1, <2>4, <2>5, <2>13, <2>14 DEF ForkedSets
  <2>18. Cardinality(UsersOf(wm, x)) = (u - i) + j
    <3>1. PICK V : V = U \ P1
      OBVIOUS
    <3>2. IsFiniteSet(V) /\ Cardinality(V) = u - i
      <4>1. U \cap P1 = P1
        BY <2>17
      <4>. QED BY <2>1, <2>7, <2>15, <3>1, <4>1, FS_Difference
    <3>3. V \cap C1 = {}
      BY <2>17, <3>1
    <3>4. Cardinality(V \cap C1) = 0
      BY <3>3, FS_EmptySet
    <3>5. Cardinality(V \cup C1) = (u - i) + j - 0
      BY <2>16, <3>2, <3>4, FS_Union
    <3>. QED BY <2>17, <3>1, <3>5
  <2>19. Cardinality(Shadowers(ns, x)) = t + 2 * i
    <3>1. PICK N : N = NewOver(p, c, new, PO)
      OBVIOUS
    <3>2. IsFiniteSet(N) /\ Cardinality(N) = 2 * i
      BY <2>4, <2>10, <3>1, NewOverCount
    <3>3. Shadowers(ns, x) = S \cup N /\ S \cap N = {}
      BY <1>1, <2>2, <2>4, <3>1 DEF ForkedSets
    <3>4. Cardinality(S \cap N) = 0
      BY <3>3, FS_EmptySet
    <3>5. PICK z \in Nat : z = 2 * i
      OBVIOUS
    <3>6. Cardinality(S \cup N) = t + z - 0
      <4>1. IsFiniteSet(S) /\ IsFiniteSet(N)
        BY <2>2, <3>2
      <4>2. Cardinality(S \cup N) = Cardinality(S) + Cardinality(N) - Cardinality(S \cap N)
        BY ONLY <4>1, FS_Union
      <4>3. Cardinality(S) = t /\ Cardinality(N) = z
        BY <2>8, <3>2, <3>5
      <4>. QED BY ONLY <3>4, <4>2, <4>3
    <3>. QED BY <3>3, <3>5, <3>6
  <2>20. Cardinality(Bottomed(ns, x)) = d + 2 * k
    <3>1. PICK N : N = NewOver(p, c, new, PB)
      OBVIOUS
    <3>2. IsFiniteSet(N) /\ Cardinality(N) = 2 * k
      BY <2>6, <2>12, <3>1, NewOverCount
    <3>3. Bottomed(ns, x) = C \cup N /\ C \cap N = {}
      BY <1>1, <2>3, <2>6, <3>1 DEF ForkedSets
    <3>4. Cardinality(C \cap N) = 0
      BY <3>3, FS_EmptySet
    <3>5. PICK z \in Nat : z = 2 * k
      OBVIOUS
    <3>6. Cardinality(C \cup N) = d + z - 0
      <4>1. IsFiniteSet(C) /\ IsFiniteSet(N)
        BY <2>3, <3>2
      <4>2. Cardinality(C \cup N) = Cardinality(C) + Cardinality(N) - Cardinality(C \cap N)
        BY ONLY <4>1, FS_Union
      <4>3. Cardinality(C) = d /\ Cardinality(N) = z
        BY <2>9, <3>2, <3>5
      <4>. QED BY ONLY <3>4, <4>2, <4>3
    <3>. QED BY <3>3, <3>5, <3>6
  <2>21. PICK f \in Nat : f = (IF x = File THEN 1 ELSE 0)
    OBVIOUS
  <2>22. Refs(objs, vma, x) = u + t + d + f
    BY <2>1, <2>2, <2>3, <2>7, <2>8, <2>9, <2>21 DEF Refs
  <2>23. Refs(ns, wm, x) = ((u - i) + j) + (t + 2 * i) + (d + 2 * k) + f
    BY <2>18, <2>19, <2>20, <2>21 DEF Refs
  <2>24. Added(p, x) = i + j + 2 * k
    BY <2>4, <2>5, <2>6, <2>10, <2>11, <2>12, OverFinite
  <2>25. ((u - i) + j) + (t + 2 * i) + (d + 2 * k) + f = (u + t + d + f) + (i + j + 2 * k)
    BY ONLY u \in Nat, t \in Nat, d \in Nat, f \in Nat, i \in Nat, j \in Nat, k \in Nat
  <2>. QED BY <2>22, <2>23, <2>24, <2>25
<1>4. ASSUME NEW x \in Object, IsNew(p, c, new, x) PROVE Refs(ns, wm, x) = 1
  <2>1. PICK q \in {p, c}, a \in Private(p) : x = new[<<q, a>>]
    BY <1>4 DEF IsNew
  <2>2. UsersOf(wm, x) = {<<q, a>>}
    BY <1>1, <2>1 DEF ForkedSets
  <2>3. objs[x].kind = "free"
    BY <1>1, <2>1 DEF ForkedAreas
  <2>4. NewOver(p, c, new, {}) = {}
    BY DEF NewOver
  <2>5. Shadowers(objs, x) = {} /\ Bottomed(objs, x) = {} /\ x # File
    BY <1>2, <2>3, ObjFacts
  <2>6. Shadowers(ns, x) = {} /\ Bottomed(ns, x) = {}
    BY <1>1, <2>3, <2>4, <2>5 DEF ForkedSets
  <2>7. Cardinality(UsersOf(wm, x)) = 1 /\ Cardinality(Shadowers(ns, x)) = 0 /\ Cardinality(Bottomed(ns, x)) = 0
    BY <2>2, <2>6, FS_Singleton, FS_EmptySet
  <2>. QED BY <2>5, <2>7 DEF Refs
<1>. QED BY <1>3, <1>4

(* do_fork keeps the invariant.                                            *)
LEMMA ForkKeeps ==
  ASSUME NEW p, NEW c, NEW new, NEW ns, NEW wm, Forking(p, c, new, ns, wm)
  PROVE  ObjInv(ns, wm)
<1>1. ForkedAreas(p, c, new, wm) /\ ForkedSets(p, c, new, ns, wm) /\ ForkedObjs(p, c, new, ns)
  BY ForkAreasAre, ForkSetsAre, ForkObjsAre
<1>2. ObjInv(objs, vma) /\ p \in Process /\ c \in Process
  BY DEF Forking
<1>3. \A x \in Object : Shape(objs, x) /\ CountedObj(objs, vma, x)
  BY <1>2 DEF ObjInv
<1>4. ObjsType(ns) /\ VmaType(wm)
  BY <1>1 DEF ForkedObjs, ForkedAreas, ObjsType
<1>5. \A x \in Object : ~IsNew(p, c, new, x) =>
       /\ ns[x].kind = objs[x].kind /\ ns[x].mmo_shadowed = objs[x].mmo_shadowed
       /\ ns[x].mmo_bottom_obj = objs[x].mmo_bottom_obj /\ ns[x].res = objs[x].res
       /\ ns[x].mmo_refcount = objs[x].mmo_refcount + Added(p, x)
       /\ Added(p, x) = 0 => ns[x] = objs[x]
  BY <1>1 DEF ForkedObjs
<1>12. ASSUME NEW x, objs[x].kind # "free" PROVE ~IsNew(p, c, new, x)
  <2> SUFFICES ASSUME IsNew(p, c, new, x) PROVE FALSE
    OBVIOUS
  <2>1. PICK q \in {p, c}, a \in Private(p) : x = new[<<q, a>>]
    BY DEF IsNew
  <2>2. objs[new[<<q, a>>]].kind = "free"
    BY <1>1 DEF ForkedAreas
  <2>. QED BY <1>12, <2>1, <2>2
<1>6. ASSUME NEW x \in Object, IsNew(p, c, new, x)
      PROVE  \E q \in {p, c}, a \in Private(p), y \in Object :
               /\ x = new[<<q, a>>] /\ y = vma[p][a].obj /\ ~IsNew(p, c, new, y) /\ objs[y].mmo_shadowed # NoObj
               /\ ns[x] = Mmobj("shadow", 1, y, Bottom(objs, y)) /\ objs[x].kind = "free" /\ x # File
  <2>1. PICK q \in {p, c}, a \in Private(p) : x = new[<<q, a>>]
    BY <1>6 DEF IsNew
  <2>2. PICK y \in Object : y = vma[p][a].obj
    BY <1>1 DEF ForkedAreas, AreaType
  <2>3. a \in Area /\ vma[p][a] # NoArea /\ vma[p][a].shared = FALSE
    BY <1>1 DEF ForkedAreas
  <2>4. objs[y].mmo_shadowed # NoObj
    BY <1>2, <2>2, <2>3 DEF ObjInv, AreaFits
  <2>5. objs[y].kind # "free"
    BY <1>3, <2>4 DEF Shape
  <2>6. ~IsNew(p, c, new, y)
    BY <1>12, <2>5
  <2>7. ns[x] = Mmobj("shadow", 1, y, Bottom(objs, y))
    BY <1>1, <2>1, <2>2 DEF ForkedObjs
  <2>8. objs[x].kind = "free"
    BY <1>1, <2>1 DEF ForkedAreas
  <2>9. x # File
    BY <1>2, <2>8, ObjFacts
  <2>. QED BY <2>1, <2>2, <2>4, <2>6, <2>7, <2>8, <2>9
<1>7. \A x \in Object : ~IsNew(p, c, new, x) => Bottom(ns, x) = Bottom(objs, x)
  BY <1>5 DEF Bottom
<1>8. ASSUME NEW x \in Object PROVE CountedObj(ns, wm, x)
  <2>1. CASE ~IsNew(p, c, new, x)
    <3>1. PICK r \in Nat : r = Refs(objs, vma, x)
      BY RefsFinite
    <3>2. PICK m \in Nat : m = mmo_nrespages(objs, x)
      BY ResidentCount
    <3>3. PICK k \in Nat : k = Added(p, x)
      BY OverFinite
    <3>4. Refs(ns, wm, x) = r + k
      BY <2>1, <3>1, <3>3, ForkCounts
    <3>5. ns[x].kind = objs[x].kind /\ ns[x].res = objs[x].res /\ ns[x].mmo_refcount = objs[x].mmo_refcount + k
      BY <1>5, <2>1, <3>3
    <3>6. mmo_nrespages(ns, x) = m
      BY <3>2, <3>5 DEF mmo_nrespages, Resident
    <3>7. CASE objs[x].kind = "free"
      <4>1. PrivateOver(p, x) = {} /\ SharedOver(p, x) = {} /\ PrivateBottom(p, x) = {}
        BY <1>1, <3>7 DEF ForkedSets
      <4>2. k = 0 + 0 + 2 * 0
        BY <3>3, <4>1, OverFinite, FS_EmptySet
      <4>3. r = 0
        BY <1>3, <3>1, <3>7 DEF CountedObj
      <4>. QED BY <3>4, <3>5, <3>7, <4>2, <4>3 DEF CountedObj
    <3>8. CASE objs[x].kind # "free"
      <4>1. objs[x].mmo_refcount = r + m /\ r # 0
        BY <1>3, <3>1, <3>2, <3>8 DEF CountedObj
      <4>2. ns[x].mmo_refcount = (r + k) + m /\ r + k # 0
        BY <3>5, <4>1
      <4>. QED BY <3>4, <3>5, <3>6, <3>8, <4>2 DEF CountedObj
    <3>. QED BY <3>7, <3>8
  <2>2. CASE IsNew(p, c, new, x)
    <3>1. PICK y : ns[x] = Mmobj("shadow", 1, y, Bottom(objs, y))
      BY <1>6, <2>2
    <3>2. ns[x].kind = "shadow" /\ ns[x].mmo_refcount = 1 /\ ns[x].res = NothingResident
      BY <3>1 DEF Mmobj
    <3>3. {n \in Page : Resident(ns, x, n)} = {}
      BY <3>2 DEF Resident, NothingResident
    <3>4. mmo_nrespages(ns, x) = 0
      BY <3>3, FS_EmptySet DEF mmo_nrespages
    <3>5. Refs(ns, wm, x) = 1
      BY <2>2, ForkCounts
    <3>. QED BY <3>2, <3>4, <3>5 DEF CountedObj
  <2>. QED BY <2>1, <2>2
<1>9. ASSUME NEW x \in Object PROVE Shape(ns, x)
  <2>1. CASE ~IsNew(p, c, new, x)
    <3>1. Shape(objs, x)
      BY <1>3
    <3>2. ns[x].kind = objs[x].kind /\ ns[x].mmo_shadowed = objs[x].mmo_shadowed /\ ns[x].mmo_bottom_obj = objs[x].mmo_bottom_obj
      BY <1>5, <2>1
    <3>3. objs[x].kind = "free" => ns[x] = FreeObj
      <4> SUFFICES ASSUME objs[x].kind = "free" PROVE ns[x] = FreeObj
        OBVIOUS
      <4>1. PrivateOver(p, x) = {} /\ SharedOver(p, x) = {} /\ PrivateBottom(p, x) = {}
        BY <1>1 DEF ForkedSets
      <4>2. Added(p, x) = 0 + 0 + 2 * 0
        BY <4>1, OverFinite, FS_EmptySet
      <4>. QED BY <1>5, <2>1, <3>1, <4>2 DEF Shape
    <3>4. ASSUME objs[x].kind = "shadow" PROVE Bottom(ns, objs[x].mmo_shadowed) = Bottom(objs, objs[x].mmo_shadowed)
      <4>1. PICK y \in Object : y = objs[x].mmo_shadowed
        BY <1>2, <3>1, <3>4, ObjFacts DEF Shape
      <4>2. x \in Shadowers(objs, y)
        BY <4>1 DEF Shadowers
      <4>3. objs[y].kind # "free"
        BY <1>2, <4>2, ObjFacts
      <4>4. ~IsNew(p, c, new, y)
        BY <1>12, <4>3
      <4>. QED BY <1>7, <4>1, <4>4
    <3>. QED BY <3>1, <3>2, <3>3, <3>4 DEF Shape
  <2>2. CASE IsNew(p, c, new, x)
    <3>1. PICK y \in Object : ~IsNew(p, c, new, y) /\ ns[x] = Mmobj("shadow", 1, y, Bottom(objs, y)) /\ x # File
      BY <1>6, <2>2
    <3>2. ns[x].kind = "shadow" /\ ns[x].mmo_shadowed = y /\ ns[x].mmo_bottom_obj = Bottom(objs, y)
      BY <3>1 DEF Mmobj
    <3>3. Bottom(ns, y) = Bottom(objs, y) /\ y # NoObj
      BY <1>7, <3>1, CowAssumption
    <3>. QED BY <3>1, <3>2, <3>3 DEF Shape
  <2>. QED BY <2>1, <2>2
<1>10. Ranked(ShadowOf(ns))
  <2>1. PICK next : next = ShadowOf(objs) /\ \A x \in Object : next[x] = objs[x].mmo_shadowed
    BY ShadowOfIs
  <2>2. PICK nx : nx = ShadowOf(ns) /\ \A x \in Object : nx[x] = ns[x].mmo_shadowed
    BY ShadowOfIs
  <2>3. nx \in [Object -> Object \cup {NoObj}]
    BY <1>4, <2>2 DEF ObjsType, ObjType, ShadowOf
  <2>4. Ranked(next)
    BY <1>2, <2>1, ObjFacts
  <2>5. PICK N : N = {x \in Object : IsNew(p, c, new, x)}
    OBVIOUS
  <2>6. ASSUME NEW x \in Object, nx[x] # NoObj PROVE nx[x] \notin N /\ (x \in N \/ nx[x] = next[x])
    <3>1. CASE IsNew(p, c, new, x)
      <4>1. PICK y \in Object : ~IsNew(p, c, new, y) /\ ns[x] = Mmobj("shadow", 1, y, Bottom(objs, y))
        BY <1>6, <3>1
      <4>2. nx[x] = y
        BY <2>2, <4>1 DEF Mmobj
      <4>. QED BY <2>5, <3>1, <4>1, <4>2
    <3>2. CASE ~IsNew(p, c, new, x)
      <4>1. nx[x] = objs[x].mmo_shadowed
        BY <1>5, <2>2, <3>2
      <4>2. PICK y \in Object : y = objs[x].mmo_shadowed
        BY <1>2, <2>6, <4>1, ObjFacts
      <4>3. x \in Shadowers(objs, y)
        BY <4>2 DEF Shadowers
      <4>4. objs[y].kind # "free"
        BY <1>2, <4>3, ObjFacts
      <4>5. ~IsNew(p, c, new, y)
        BY <1>12, <4>4
      <4>. QED BY <2>1, <2>5, <4>1, <4>2, <4>5
    <3>. QED BY <3>1, <3>2
  <2>7. Ranked(nx)
    BY ONLY <2>3, <2>4, <2>6, RankedStep
  <2>. QED BY <2>2, <2>7
<1>11. ASSUME NEW q \in Process, NEW a \in Area PROVE AreaFits(ns, wm, q, a)
  <2>1. ASSUME NEW r \in Process, wm[q][a] = vma[r][a], vma[r][a] # NoArea,
               r = q \/ (vma[r][a].shared /\ vma[r][a].shared = TRUE),
               q \notin {p, c} \/ vma[r][a].shared
        PROVE  AreaFits(ns, wm, q, a)
    <3>1. PICK x \in Object : x = vma[r][a].obj
      BY <1>2, <2>1 DEF ObjInv, VmaType, AreaType
    <3>2. <<r, a>> \in UsersOf(vma, x)
      BY <2>1, <3>1 DEF UsersOf, Uses
    <3>3. objs[x].kind # "free"
      BY <1>2, <3>2, ObjFacts
    <3>4. ~IsNew(p, c, new, x)
      BY <1>12, <3>3
    <3>5. ns[x].mmo_shadowed = objs[x].mmo_shadowed
      BY <1>5, <3>4
    <3>6. AreaFits(objs, vma, r, a)
      BY <1>2 DEF ObjInv
    <3>7. CASE vma[r][a].shared
      BY <2>1, <3>1, <3>5, <3>6, <3>7 DEF AreaFits
    <3>8. CASE ~vma[r][a].shared
      <4>1. r = q /\ q \notin {p, c}
        BY <2>1, <3>8
      <4>2. objs[x].mmo_shadowed # NoObj /\ UsersOf(vma, x) = {<<q, a>>} /\ Shadowers(objs, x) = {}
        BY <2>1, <3>1, <3>6, <3>8, <4>1 DEF AreaFits
      <4>3. PrivateOver(p, x) = {} /\ SharedOver(p, x) = {}
        <5>1. \A b \in Area : vma[p][b] # NoArea => vma[p][b].obj # x
          <6>1. p # q
            BY <4>1
          <6>2. \A b \in Area : <<p, b>> \notin UsersOf(vma, x)
            BY <4>2, <6>1
          <6>. QED BY <1>2, <6>2 DEF UsersOf, Uses
        <5>. QED BY <1>1, <5>1 DEF PrivateOver, SharedOver, ForkedAreas, Private, Shared
      <4>4. UsersOf(wm, x) = UsersOf(vma, x)
        <5>1. UsersOf(wm, x) = (UsersOf(vma, x) \ ({p} \X PrivateOver(p, x))) \cup ({c} \X SharedOver(p, x))
          BY <1>1, <3>4 DEF ForkedSets
        <5>2. {p} \X {} = {} /\ {c} \X {} = {}
          OBVIOUS
        <5>. QED BY <4>3, <5>1, <5>2
      <4>5. Shadowers(ns, x) = {}
        <5>1. NewOver(p, c, new, {}) = {}
          BY DEF NewOver
        <5>. QED BY <1>1, <4>2, <4>3, <5>1 DEF ForkedSets
      <4>. QED BY <2>1, <3>1, <3>5, <3>8, <4>2, <4>4, <4>5 DEF AreaFits
    <3>. QED BY <3>7, <3>8
  <2>2. CASE wm[q][a] = NoArea
    BY <2>2 DEF AreaFits
  <2>3. CASE wm[q][a] # NoArea /\ q \notin {p, c}
    <3>1. wm[q][a] = vma[q][a]
      BY <1>1, <2>3 DEF ForkedAreas
    <3>. QED BY <2>1, <2>3, <3>1
  <2>4. CASE q \in {p, c} /\ a \in Private(p)
    <3>1. PICK x \in Object : x = new[<<q, a>>]
      BY <1>1, <2>4 DEF ForkedAreas
    <3>2. wm[q][a] # NoArea /\ wm[q][a].obj = x /\ wm[q][a].shared = FALSE
      BY <1>1, <2>4, <3>1 DEF ForkedAreas
    <3>3. UsersOf(wm, x) = {<<q, a>>}
      BY <1>1, <2>4, <3>1 DEF ForkedSets
    <3>4. IsNew(p, c, new, x)
      BY <2>4, <3>1 DEF IsNew
    <3>5. PICK y \in Object : ns[x] = Mmobj("shadow", 1, y, Bottom(objs, y)) /\ objs[x].kind = "free"
      BY <1>6, <3>4
    <3>6. ns[x].mmo_shadowed # NoObj
      BY <3>5, CowAssumption DEF Mmobj
    <3>7. Shadowers(ns, x) = {}
      <4>1. NewOver(p, c, new, {}) = {}
        BY DEF NewOver
      <4>2. Shadowers(objs, x) = {}
        BY <1>2, <3>5, ObjFacts
      <4>. QED BY <1>1, <3>5, <4>1, <4>2 DEF ForkedSets
    <3>. QED BY <3>2, <3>3, <3>6, <3>7 DEF AreaFits
  <2>5. CASE wm[q][a] # NoArea /\ q \in {p, c} /\ a \notin Private(p)
    <3>1. wm[q][a] = vma[p][a] /\ vma[p][a] # NoArea
      BY <1>1, <2>5 DEF ForkedAreas
    <3>2. a \in Shared(p)
      BY <1>1, <2>5, <3>1 DEF ForkedAreas
    <3>3. vma[p][a].shared /\ vma[p][a].shared = TRUE
      BY <1>1, <3>2 DEF ForkedAreas
    <3>. QED BY <1>2, <2>1, <3>1, <3>3
  <2>. QED BY <2>2, <2>3, <2>4, <2>5
<1>. QED BY <1>4, <1>8, <1>9, <1>10, <1>11 DEF ObjInv

-----------------------------------------------------------------------------
(* Nothing changes in the chain below x.                                    *)
SameObj(os, ns, y) ==
  /\ ns[y].kind = os[y].kind /\ ns[y].mmo_shadowed = os[y].mmo_shadowed
  /\ ns[y].mmo_bottom_obj = os[y].mmo_bottom_obj /\ ns[y].res = os[y].res
SameBelow(os, ns, x) == \A y \in Beneath(os, x) : SameObj(os, ns, y)

(* Then lookups end with the same objects and show the same.               *)
LEMMA SameBelowFacts ==
  ASSUME NEW os, Ranked(ShadowOf(os)), NEW ns, Ranked(ShadowOf(ns)), NEW x \in Object,
         SameBelow(os, ns, x)
  PROVE  /\ Beneath(ns, x) = Beneath(os, x)
         /\ \A y \in Beneath(os, x) : \A n : Resident(ns, y, n) <=> Resident(os, y, n)
         /\ \A n : Holder(ns, x, n) = Holder(os, x, n)
         /\ Bottom(ns, x) = Bottom(os, x)
         /\ \A n : Contents(ns, x, n) = Contents(os, x, n)
<1>1. \A y \in Beneath(os, x) : SameObj(os, ns, y)
  BY DEF SameBelow
<1>2. Beneath(ns, x) = Beneath(os, x)
  BY <1>1, BeneathSame DEF SameObj
<1>3. \A y \in Beneath(os, x) : \A n : Resident(ns, y, n) <=> Resident(os, y, n)
  BY <1>1 DEF SameObj, Resident
<1>4. ASSUME NEW n PROVE Holder(ns, x, n) = Holder(os, x, n)
  <2>1. \A y \in Beneath(os, x) : /\ ns[y].mmo_shadowed = os[y].mmo_shadowed
                                  /\ os[y].mmo_shadowed # NoObj => (Resident(ns, y, n) <=> Resident(os, y, n))
    BY <1>1, <1>3 DEF SameObj
  <2>. QED BY <2>1, HolderSame
<1>5. x \in Beneath(os, x)
  BY BeneathLeast DEF IsBeneath
<1>6. Bottom(ns, x) = Bottom(os, x)
  BY <1>1, <1>5 DEF SameObj, Bottom
<1>7. ASSUME NEW n PROVE Contents(ns, x, n) = Contents(os, x, n)
  <2>1. PICK h : h = Holder(os, x, n)
    OBVIOUS
  <2>2. h \in Beneath(os, x) /\ Holder(ns, x, n) = h
    BY <1>4, <2>1, HolderIn
  <2>3. (Resident(ns, h, n) <=> Resident(os, h, n)) /\ ns[h].res = os[h].res /\ Fresh(ns, h, n) = Fresh(os, h, n)
    BY <1>1, <1>3, <2>2 DEF SameObj, Fresh
  <2>. QED BY <2>1, <2>2, <2>3 DEF Contents
<1>. QED BY <1>2, <1>3, <1>4, <1>6, <1>7

(* A put changes nothing below an area that stays.                         *)
LEMMA PutSame ==
  ASSUME NEW os, NEW vm, ObjInv(os, vm), NEW ns, NEW wm, ObjInv(ns, wm), Shrunk(os, ns),
         NEW q \in Process, NEW b \in Area, wm[q][b] # NoArea
  PROVE  SameBelow(os, ns, wm[q][b].obj)
<1>1. PICK x \in Object : x = wm[q][b].obj
  BY DEF ObjInv, VmaType, AreaType
<1>2. <<q, b>> \in UsersOf(wm, x)
  BY <1>1 DEF UsersOf, Uses
<1>3. ns[x].kind # "free"
  BY <1>2, ObjFacts
<1>4. \A y \in Beneath(ns, x) : y \in Object /\ ns[y] # FreeObj
  BY <1>3, BeneathNotFree, FreeObjIs, ObjFacts DEF IsBeneath
<1>5. \A y \in Beneath(ns, x) : SameObj(os, ns, y)
  BY <1>4 DEF Shrunk, SameObj
<1>6. Beneath(os, x) = Beneath(ns, x)
  <2>1. Ranked(ShadowOf(os)) /\ Ranked(ShadowOf(ns))
    BY ObjFacts
  <2>2. \A y \in Beneath(ns, x) : os[y].mmo_shadowed = ns[y].mmo_shadowed
    BY <1>5 DEF SameObj
  <2>. QED BY ONLY <2>1, <2>2, x \in Object, BeneathSame
<1>. QED BY <1>1, <1>5, <1>6 DEF SameBelow

(* Nor does a new mapping.                                                 *)
LEMMA MapSame ==
  ASSUME NEW os, NEW vm, NEW p, NEW a, NEW file, NEW shared, NEW o, NEW s,
         Mapping(os, vm, p, a, file, shared, o, s),
         NEW ns, ns = MapObjects(os, file, shared, o, s), NEW x \in Object, os[x].kind # "free"
  PROVE  SameBelow(os, ns, x)
<1>1. ObjInv(os, vm)
  BY DEF Mapping
<1>2. /\ \A y \in Object : y # o /\ y # s => ns[y] = os[y]
      /\ ns[o].res = os[o].res /\ ns[o].kind = (IF file THEN "file" ELSE "anon") /\ ns[o].mmo_shadowed = NoObj
      /\ ns[o].mmo_bottom_obj = NoObj
  <2>1. PICK wm : MapsAt(vm, p, a, s, shared, wm)
    BY DEF MapsAt
  <2>2. ObjInv(ns, wm)
    BY <2>1, MapKeeps
  <2>3. /\ \A y \in Object : y # o /\ y # s => ns[y] = os[y]
        /\ ns[o].res = os[o].res /\ ns[o].kind = (IF file THEN "file" ELSE "anon") /\ ns[o].mmo_shadowed = NoObj
    BY <2>1, MapKeeps
  <2>4. ns[o].mmo_bottom_obj = NoObj
    BY <2>2, <2>3 DEF ObjInv, Shape, Mapping
  <2>. QED BY <2>3, <2>4
<1>3. \A y \in Beneath(os, x) : y \in Object /\ os[y].kind # "free"
  BY <1>1, BeneathNotFree, ObjFacts DEF IsBeneath
<1>4. ASSUME NEW y \in Beneath(os, x) PROVE SameObj(os, ns, y)
  <2>1. y \in Object /\ os[y].kind # "free" /\ Shape(os, y)
    BY <1>1, <1>3, <1>4 DEF ObjInv
  <2>2. CASE y = o
    <3>1. file /\ o = File
      BY <2>1, <2>2 DEF Mapping
    <3>2. os[o].kind = "file" /\ os[o].mmo_shadowed = NoObj /\ os[o].mmo_bottom_obj = NoObj
      BY <2>1, <2>2, <3>1 DEF Shape
    <3>. QED BY <1>2, <2>2, <3>1, <3>2 DEF SameObj
  <2>3. CASE y # o
    <3>1. y # s
      BY <2>1, <2>3 DEF Mapping
    <3>. QED BY <1>2, <2>1, <2>3, <3>1 DEF SameObj
  <2>. QED BY <2>2, <2>3
<1>. QED BY <1>4 DEF SameBelow

(* Nor does a fork, below any object in use before it.                     *)
LEMMA ForkSame ==
  ASSUME NEW p, NEW c, NEW new, NEW ns, NEW wm, Forking(p, c, new, ns, wm), NEW x \in Object,
         objs[x].kind # "free"
  PROVE  SameBelow(objs, ns, x)
<1>1. ForkedAreas(p, c, new, wm) /\ ForkedObjs(p, c, new, ns)
  BY ForkAreasAre, ForkObjsAre
<1>2. ObjInv(objs, vma)
  BY DEF Forking
<1>3. \A y \in Beneath(objs, x) : y \in Object /\ objs[y].kind # "free"
  BY <1>2, BeneathNotFree, ObjFacts DEF IsBeneath
<1>4. ASSUME NEW y \in Beneath(objs, x) PROVE SameObj(objs, ns, y)
  <2>1. ~IsNew(p, c, new, y)
    <3> SUFFICES ASSUME IsNew(p, c, new, y) PROVE FALSE
      OBVIOUS
    <3>1. PICK q \in {p, c}, a \in Private(p) : y = new[<<q, a>>]
      BY DEF IsNew
    <3>2. objs[new[<<q, a>>]].kind = "free"
      BY <1>1 DEF ForkedAreas
    <3>. QED BY <1>3, <1>4, <3>1, <3>2
  <2>. QED BY <1>1, <1>3, <2>1 DEF ForkedObjs, SameObj
<1>. QED BY <1>4 DEF SameBelow
-----------------------------------------------------------------------------
(***************************************************************************)
(* 4. The invariant on the state                                           *)
(***************************************************************************)
(* The inductive invariant.                                                 *)
PteType == [obj : Object, write : BOOLEAN]
(* An entry maps a resident page of a chain object of its area, and a      *)
(* writable one a page of the area's own object.                           *)
PteFits(os, vm, pt, p, a, n) ==
  pt[p][a][n] # NoPte =>
    /\ vm[p][a] # NoArea
    /\ pt[p][a][n].obj \in Beneath(os, vm[p][a].obj)
    /\ Resident(os, pt[p][a][n].obj, n)
    /\ pt[p][a][n].write => pt[p][a][n].obj = vm[p][a].obj

(* The invariant on the whole state.                                       *)
CowInv ==
  /\ ObjInv(objs, vma)
  /\ p_state \in [Process -> {"none", "running", "exiting"}]
  /\ pte \in [Process -> [Area -> [Page -> {NoPte} \cup PteType]]]
  /\ \A p \in Process, a \in Area, n \in Page : PteFits(objs, vma, pte, p, a, n)
  /\ \A p \in Process : p_state[p] = "none" => vma[p] = NoAreas

(* It holds at first.                                                      *)
LEMMA CowInitHolds == CowInit => CowInv
<1> SUFFICES ASSUME CowInit PROVE CowInv
  OBVIOUS
<1>1. PICK f : f = Mmobj("file", 1, NoObj, NoObj)
  OBVIOUS
<1>2. /\ f \in ObjType /\ f.kind = "file" /\ f.mmo_refcount = 1 /\ f.mmo_shadowed = NoObj /\ f.mmo_bottom_obj = NoObj
      /\ \A n \in Page : f.res[n] = NotResident
  BY <1>1 DEF Mmobj, ObjType, NothingResident
<1>3. objs = [o \in Object |-> IF o = File THEN f ELSE FreeObj]
  BY <1>1 DEF CowInit
<1>4. \A x \in Object : objs[x].mmo_shadowed = NoObj /\ objs[x].mmo_bottom_obj = NoObj /\ \A n \in Page : objs[x].res[n] = NotResident
  BY <1>2, <1>3, FreeObjIs
<1>5. objs \in [Object -> ObjType]
  BY <1>2, <1>3, FreeObjIs
<1>6. \A p \in Process, a \in Area : vma[p][a] = NoArea
  BY DEF CowInit, NoAreas
<1>7. VmaType(vma)
  BY DEF CowInit, NoAreas, VmaType
<1>8. Ranked(ShadowOf(objs))
  <2>1. PICK next : next = ShadowOf(objs) /\ \A x \in Object : next[x] = objs[x].mmo_shadowed
    BY ShadowOfIs
  <2>2. next \in [Object -> Object \cup {NoObj}]
    BY <1>4, <2>1 DEF ShadowOf
  <2>3. PICK r : r = [x \in Object |-> 0]
    OBVIOUS
  <2>4. Ranks(next, 0, r)
    BY <1>4, <2>1, <2>3 DEF Ranks
  <2>. QED BY <2>1, <2>2, <2>4 DEF Ranked
<1>9. \A x \in Object : Shape(objs, x)
  BY <1>2, <1>3, FreeObjIs, CowAssumption DEF Shape
<1>10. ASSUME NEW x \in Object PROVE CountedObj(objs, vma, x)
  <2>1. UsersOf(vma, x) = {}
    BY <1>6 DEF UsersOf, Uses
  <2>2. Shadowers(objs, x) = {} /\ Bottomed(objs, x) = {}
    BY <1>4, CowAssumption DEF Shadowers, Bottomed
  <2>3. Refs(objs, vma, x) = IF x = File THEN 1 ELSE 0
    BY <2>1, <2>2, FS_EmptySet DEF Refs
  <2>4. {n \in Page : Resident(objs, x, n)} = {}
    BY <1>4 DEF Resident
  <2>5. mmo_nrespages(objs, x) = 0
    BY <2>4, FS_EmptySet DEF mmo_nrespages
  <2>. QED BY <1>2, <1>3, <2>3, <2>5, FreeObjIs DEF CountedObj
<1>11. \A p \in Process, a \in Area : AreaFits(objs, vma, p, a)
  BY <1>6 DEF AreaFits
<1>12. ObjInv(objs, vma)
  BY <1>5, <1>7, <1>8, <1>9, <1>10, <1>11 DEF ObjInv, ObjsType
<1>13. /\ p_state \in [Process -> {"none", "running", "exiting"}]
       /\ \A p \in Process : p_state[p] = "none" => vma[p] = NoAreas
  BY DEF CowInit
<1>14. pte \in [Process -> [Area -> [Page -> {NoPte} \cup PteType]]]
  BY DEF CowInit, NoPtes
<1>15. \A p \in Process, a \in Area, n \in Page : PteFits(objs, vma, pte, p, a, n)
  BY DEF CowInit, NoPtes, PteFits
<1>. QED BY <1>12, <1>13, <1>14, <1>15 DEF CowInv

-----------------------------------------------------------------------------
(* Entries that a step keeps: the area and the chain below it are the same. *)
Kept(os, vm, pt, ns, wm, pu) ==
  \A q \in Process, b \in Area, n \in Page : pu[q][b][n] # NoPte =>
    /\ pu[q][b][n] = pt[q][b][n] /\ wm[q][b] = vm[q][b]
    /\ SameBelow(os, ns, vm[q][b].obj)
(* Every entry fits.                                                       *)
PtesFit(os, vm, pt) == \A q \in Process, b \in Area, n \in Page : PteFits(os, vm, pt, q, b, n)

(* The object of an area is in use.                                        *)
LEMMA AreaObject ==
  ASSUME NEW os, NEW vm, ObjInv(os, vm), NEW q \in Process, NEW b \in Area, vm[q][b] # NoArea
  PROVE  vm[q][b].obj \in Object /\ os[vm[q][b].obj].kind # "free" /\ vm[q][b] \in AreaType
<1>1. vm[q][b] \in AreaType
  BY DEF ObjInv, VmaType
<1>2. PICK x \in Object : x = vm[q][b].obj
  BY <1>1 DEF AreaType
<1>3. <<q, b>> \in UsersOf(vm, x)
  BY <1>2 DEF UsersOf, Uses
<1>. QED BY <1>1, <1>2, <1>3, ObjFacts

(* An entry kept fits still, and its lookup ends where it did.             *)
LEMMA KeptFits ==
  ASSUME NEW os, NEW vm, ObjInv(os, vm), NEW ns, NEW wm, ObjInv(ns, wm), NEW pt, NEW pu,
         PtesFit(os, vm, pt), Kept(os, vm, pt, ns, wm, pu)
  PROVE  /\ PtesFit(ns, wm, pu)
         /\ \A q \in Process, b \in Area, n \in Page : pu[q][b][n] # NoPte =>
              /\ pu[q][b][n] = pt[q][b][n]
              /\ Holder(ns, wm[q][b].obj, n) = Holder(os, vm[q][b].obj, n)
<1>1. ASSUME NEW q \in Process, NEW b \in Area, NEW n \in Page, pu[q][b][n] # NoPte
      PROVE  /\ PteFits(ns, wm, pu, q, b, n) /\ pu[q][b][n] = pt[q][b][n]
             /\ Holder(ns, wm[q][b].obj, n) = Holder(os, vm[q][b].obj, n)
  <2>1. /\ pu[q][b][n] = pt[q][b][n] /\ wm[q][b] = vm[q][b] /\ SameBelow(os, ns, vm[q][b].obj)
    BY <1>1 DEF Kept
  <2>2. PICK e : e = pt[q][b][n]
    OBVIOUS
  <2>3. /\ vm[q][b] # NoArea /\ e.obj \in Beneath(os, vm[q][b].obj) /\ Resident(os, e.obj, n)
        /\ e.write => e.obj = vm[q][b].obj
    BY <1>1, <2>1, <2>2 DEF PtesFit, PteFits
  <2>4. PICK x \in Object : x = vm[q][b].obj
    BY <2>3, AreaObject
  <2>5. Ranked(ShadowOf(os)) /\ Ranked(ShadowOf(ns))
    BY ObjFacts
  <2>6. SameBelow(os, ns, x)
    BY <2>1, <2>4
  <2>7. /\ Beneath(ns, x) = Beneath(os, x)
        /\ \A y \in Beneath(os, x) : \A m : Resident(ns, y, m) <=> Resident(os, y, m)
        /\ \A m : Holder(ns, x, m) = Holder(os, x, m)
    BY <2>5, <2>6, SameBelowFacts
  <2>. QED BY <2>1, <2>2, <2>3, <2>4, <2>7 DEF PteFits
<1>. QED BY <1>1 DEF PtesFit, PteFits
-----------------------------------------------------------------------------
(* An area is removed.                                                      *)
LEMMA RemoveStep ==
  ASSUME CowInv, NEW p \in Process, NEW a \in Area, vma[p][a] # NoArea, NEW near, NEW ns,
         vmmap_remove(p, a, ns, near),
         NEW wm, Unmapped(vma, p, a, wm)
  PROVE  /\ ObjInv(ns, wm) /\ Kept(objs, vma, pte, ns, wm, pte')
         /\ pte' \in [Process -> [Area -> [Page -> {NoPte} \cup PteType]]]
         /\ \A n \in Page : pte'[p][a][n] = NoPte
<1>1. ObjInv(objs, vma)
  BY DEF CowInv
<1>2. ns = Put(objs, vma[p][a].obj)
  BY DEF vmmap_remove
<1>3. ObjInv(ns, wm) /\ Shrunk(objs, ns)
  BY <1>1, <1>2, PutKeeps
<1>4. pte' \in [Process -> [Area -> [Page -> {NoPte} \cup PteType]]]
  <2>1. pte \in [Process -> [Area -> [Page -> {NoPte} \cup PteType]]]
    BY DEF CowInv
  <2>. QED BY <2>1 DEF vmmap_remove
<1>5. \A n \in Page : pte'[p][a][n] = NoPte
  BY DEF vmmap_remove
<1>6. \A q \in Process, b \in Area, n \in Page : pte'[q][b][n] \in {NoPte, pte[q][b][n]}
  BY DEF vmmap_remove
<1>7. ASSUME NEW q \in Process, NEW b \in Area, NEW n \in Page, pte'[q][b][n] # NoPte
      PROVE  /\ pte'[q][b][n] = pte[q][b][n] /\ wm[q][b] = vma[q][b]
             /\ SameBelow(objs, ns, vma[q][b].obj)
  <2>1. pte'[q][b][n] = pte[q][b][n] /\ <<q, b>> # <<p, a>>
    BY <1>5, <1>6, <1>7
  <2>2. VmaType(vma)
    BY <1>1 DEF ObjInv
  <2>3. wm[q][b] = vma[q][b]
    BY <2>1, <2>2, UsersWithout
  <2>4. PteFits(objs, vma, pte, q, b, n)
    BY DEF CowInv
  <2>5. vma[q][b] # NoArea
    BY <1>7, <2>1, <2>4 DEF PteFits
  <2>. QED BY <1>1, <1>3, <2>1, <2>3, <2>5, PutSame
<1>. QED BY <1>3, <1>4, <1>5, <1>7 DEF Kept

(* Nothing changes below x in two steps of which neither changes it.       *)
LEMMA SameBelowTwice ==
  ASSUME NEW os, Ranked(ShadowOf(os)), NEW ms, Ranked(ShadowOf(ms)), NEW ns, NEW x \in Object,
         SameBelow(os, ms, x), SameBelow(ms, ns, x)
  PROVE  SameBelow(os, ns, x)
<1>1. Beneath(ms, x) = Beneath(os, x)
  BY SameBelowFacts
<1>. QED BY <1>1 DEF SameBelow, SameObj

(* Nothing changes when nothing changes.                                   *)
LEMMA SameBelowSame ==
  ASSUME NEW os, NEW x
  PROVE  SameBelow(os, os, x)
BY DEF SameBelow, SameObj
-----------------------------------------------------------------------------
(* The objects of a new mapping.                                            *)
Allocates(os, file, shared, new, o, s) ==
  /\ new = (IF file THEN {} ELSE {"anon"}) \cup (IF shared THEN {} ELSE {"shadow"})
  /\ CanAlloc(os, new)
  /\ o = (IF file THEN File ELSE slab_obj_alloc(os, new)["anon"])
  /\ s = (IF shared THEN o ELSE slab_obj_alloc(os, new)["shadow"])

(* They are what a new mapping needs.                                       *)
LEMMA MapAlloc ==
  ASSUME NEW os, NEW vm, ObjInv(os, vm), NEW p \in Process, NEW a \in Area, vm[p][a] = NoArea,
         NEW file \in BOOLEAN, NEW shared \in BOOLEAN, NEW new, NEW o, NEW s,
         Allocates(os, file, shared, new, o, s)
  PROVE  Mapping(os, vm, p, a, file, shared, o, s)
<1>0. /\ new = (IF file THEN {} ELSE {"anon"}) \cup (IF shared THEN {} ELSE {"shadow"})
      /\ CanAlloc(os, new)
      /\ o = (IF file THEN File ELSE slab_obj_alloc(os, new)["anon"])
      /\ s = (IF shared THEN o ELSE slab_obj_alloc(os, new)["shadow"])
  BY DEF Allocates
<1>1. IsFiniteSet(new)
  <2>1. IsFiniteSet({"anon", "shadow"})
    <3>1. IsFiniteSet({"anon"})
      BY FS_Singleton
    <3>2. IsFiniteSet({"anon"} \cup {"shadow"})
      BY <3>1, FS_AddElement
    <3>3. {"anon", "shadow"} = {"anon"} \cup {"shadow"}
      OBVIOUS
    <3>. QED BY ONLY <3>2, <3>3
  <2>2. new \subseteq {"anon", "shadow"}
    BY ONLY <1>0
  <2>. QED BY ONLY <2>1, <2>2, FS_Subset
<1>2. PICK f : f = slab_obj_alloc(os, new)
  OBVIOUS
<1>3. f \in [new -> Free(os)] /\ \A i, j \in new : i # j => f[i] # f[j]
  <2>1. CanAlloc(os, new)
    BY ONLY <1>0
  <2>2. PICK S : S = new
    OBVIOUS
  <2>3. LET g == slab_obj_alloc(os, S) IN g \in [S -> Free(os)] /\ \A i, j \in S : i # j => g[i] # g[j]
    BY ONLY <1>1, <2>1, <2>2, AllocExists
  <2>. QED BY ONLY <1>2, <2>2, <2>3
<1>4. \A i \in new : f[i] \in Object /\ os[f[i]].kind = "free"
  BY <1>3 DEF Free
<1>5. os[File].kind = "file" /\ os[File].kind # "free" /\ File \in Object
  BY CowAssumption DEF ObjInv, Shape
<1>6. o \in Object /\ (IF file THEN o = File ELSE os[o].kind = "free")
  BY ONLY <1>0, <1>2, <1>4, <1>5, file \in BOOLEAN
<1>7. s \in Object /\ (IF shared THEN s = o ELSE s # o /\ os[s].kind = "free")
  <2>1. CASE shared
    BY <1>0, <1>6, <2>1
  <2>2. CASE ~shared
    <3>1. "shadow" \in new /\ s = f["shadow"] /\ "anon" # "shadow"
      BY ONLY <1>0, <1>2, <2>2
    <3>2. s \in Object /\ os[s].kind = "free"
      BY <1>4, <3>1
    <3>3. s # o
      <4>1. CASE file
        BY ONLY <1>5, <1>6, <3>2, <4>1
      <4>2. CASE ~file
        <5>1. "anon" \in new /\ o = f["anon"]
          BY ONLY <1>0, <1>2, <4>2
        <5>. QED BY <1>3, <3>1, <5>1
      <4>. QED BY <4>1, <4>2
    <3>. QED BY <2>2, <3>2, <3>3
  <2>. QED BY <2>1, <2>2
<1>. QED BY <1>6, <1>7 DEF Mapping

-----------------------------------------------------------------------------
(* What vmmap_map does to objects, areas and entries.                      *)
LEMMA MapStep ==
  ASSUME CowInv, NEW p \in Process, NEW a \in Area, NEW file \in BOOLEAN, NEW shared \in BOOLEAN,
         vmmap_map(p, a, file, shared)
  PROVE  /\ ObjInv(objs', vma') /\ Kept(objs, vma, pte, objs', vma', pte')
         /\ pte' \in [Process -> [Area -> [Page -> {NoPte} \cup PteType]]]
         /\ \A q \in Process : q # p => vma'[q] = vma[q]
<1>1. ObjInv(objs, vma) /\ VmaType(vma)
  BY DEF CowInv, ObjInv
<1>2. PICK os : os = IF vma[p][a] = NoArea THEN objs ELSE Put(objs, vma[p][a].obj)
  OBVIOUS
<1>3. PICK vm : Unmapped(vma, p, a, vm)
  BY DEF Unmapped
<1>4. vm[p][a] = NoArea /\ VmaType(vm) /\ \A q \in Process, b \in Area : <<q, b>> # <<p, a>> => vm[q][b] = vma[q][b]
  BY <1>1, <1>3, UsersWithout
<1>5. /\ ObjInv(os, vm) /\ Kept(objs, vma, pte, os, vm, pte')
      /\ pte' \in [Process -> [Area -> [Page -> {NoPte} \cup PteType]]]
      /\ \A n \in Page : pte'[p][a][n] = NoPte
  <2>1. CASE vma[p][a] = NoArea
    <3>1. os = objs /\ pte' = pte
      BY <1>2, <2>1 DEF vmmap_map
    <3>2. vm = vma
      BY <1>1, <1>3, <2>1 DEF Unmapped, VmaType
    <3>3. \A q \in Process, b \in Area, n \in Page : PteFits(objs, vma, pte, q, b, n)
      BY DEF CowInv
    <3>4. \A n \in Page : pte'[p][a][n] = NoPte
      BY <2>1, <3>1, <3>3 DEF PteFits
    <3>5. Kept(objs, vma, pte, os, vm, pte')
      BY <3>1, <3>2, SameBelowSame DEF Kept
    <3>. QED BY <1>1, <3>1, <3>2, <3>4, <3>5 DEF CowInv
  <2>2. CASE vma[p][a] # NoArea
    <3>1. PICK near : vmmap_remove(p, a, os, near)
      BY <1>2, <2>2 DEF vmmap_map
    <3>. QED BY <1>3, <2>2, <3>1, RemoveStep
  <2>. QED BY <2>1, <2>2
<1>6. PICK new : new = (IF file THEN {} ELSE {"anon"}) \cup (IF shared THEN {} ELSE {"shadow"})
  OBVIOUS
<1>7. PICK o : o = (IF file THEN File ELSE slab_obj_alloc(os, new)["anon"])
  OBVIOUS
<1>8. PICK s : s = (IF shared THEN o ELSE slab_obj_alloc(os, new)["shadow"])
  OBVIOUS
<1>9. /\ CanAlloc(os, new) /\ objs' = MapObjects(os, file, shared, o, s)
      /\ vma' = [vma EXCEPT ![p][a] = [obj |-> s, shared |-> shared]]
  BY <1>2, <1>6, <1>7, <1>8 DEF vmmap_map
<1>10. Mapping(os, vm, p, a, file, shared, o, s)
  <2>1. Allocates(os, file, shared, new, o, s)
    BY ONLY <1>6, <1>7, <1>8, <1>9 DEF Allocates
  <2>2. ObjInv(os, vm) /\ vm[p][a] = NoArea
    BY ONLY <1>4, <1>5
  <2>. QED BY ONLY <2>1, <2>2, MapAlloc, p \in Process, a \in Area, file \in BOOLEAN, shared \in BOOLEAN
<1>11. MapsAt(vm, p, a, s, shared, vma')
  <2>1. vma' = [vm EXCEPT ![p][a] = [obj |-> s, shared |-> shared]]
    BY <1>1, <1>3, <1>9 DEF VmaType, Unmapped
  <2>. QED BY <2>1 DEF MapsAt
<1>12. PICK ns : ns = objs'
  OBVIOUS
<1>13. ns = MapObjects(os, file, shared, o, s)
  BY <1>9, <1>12
<1>14. ObjInv(ns, vma')
  BY <1>10, <1>11, <1>13, MapKeeps
<1>15. UserAdded(vm, p, a, s, shared, vma')
  <2>1. vm[p][a] = NoArea /\ VmaType(vm) /\ s \in Object
    BY <1>4, <1>10 DEF Mapping
  <2>. QED BY <1>11, <2>1, UsersWith
<1>16. ASSUME NEW q \in Process, NEW b \in Area, NEW n \in Page, pte'[q][b][n] # NoPte
       PROVE  /\ pte'[q][b][n] = pte[q][b][n] /\ vma'[q][b] = vma[q][b]
              /\ SameBelow(objs, ns, vma[q][b].obj)
  <2>1. <<q, b>> # <<p, a>>
    BY <1>5, <1>16
  <2>2. pte'[q][b][n] = pte[q][b][n] /\ vm[q][b] = vma[q][b] /\ SameBelow(objs, os, vma[q][b].obj)
    BY <1>5, <1>16 DEF Kept
  <2>3. vma'[q][b] = vma[q][b]
    BY <1>15, <2>1, <2>2 DEF UserAdded
  <2>4. vma[q][b] # NoArea
    BY <1>16, <2>2 DEF CowInv, PteFits
  <2>5. PICK x \in Object : x = vma[q][b].obj
    BY <1>1, <2>4, AreaObject
  <2>6. os[x].kind # "free"
    BY <1>5, <2>2, <2>4, <2>5, AreaObject
  <2>7. SameBelow(os, ns, x)
    BY <1>10, <1>13, <2>6, MapSame
  <2>8. Ranked(ShadowOf(objs)) /\ Ranked(ShadowOf(os))
    BY <1>1, <1>5, ObjFacts
  <2>9. SameBelow(objs, ns, x)
    BY <2>2, <2>5, <2>7, <2>8, SameBelowTwice
  <2>. QED BY <2>2, <2>3, <2>5, <2>9
<1>17. Kept(objs, vma, pte, ns, vma', pte')
  BY <1>16 DEF Kept
<1>18. ASSUME NEW q \in Process, q # p PROVE vma'[q] = vma[q]
  BY <1>1, <1>9, <1>18 DEF VmaType
<1>. QED BY <1>5, <1>12, <1>14, <1>17, <1>18

(* do_fork is a fork in the sense above.                                   *)
LEMMA ForkIs ==
  ASSUME CowInv, NEW p \in Process, NEW c \in Process, do_fork(p, c)
  PROVE  \E new : Forking(p, c, new, objs', vma')
<1>1. ObjInv(objs, vma) /\ VmaType(vma)
  BY DEF CowInv, ObjInv
<1>2. p # c /\ vma[c] = NoAreas
  BY DEF CowInv, do_fork
<1>3. PICK S : S = {p, c} \X Private(p)
  OBVIOUS
<1>4. IsFiniteSet(S)
  <2>1. Private(p) \subseteq Area
    BY DEF Private
  <2>2. IsFiniteSet(Private(p))
    BY <2>1, FS_Subset, CowAssumption
  <2>3. {p, c} \subseteq Process
    OBVIOUS
  <2>4. IsFiniteSet({p, c})
    BY <2>3, FS_Subset, CowAssumption
  <2>. QED BY <1>3, <2>2, <2>4, FS_Product
<1>5. PICK new : new = slab_obj_alloc(objs, S)
  OBVIOUS
<1>6. CanAlloc(objs, S)
  BY <1>3 DEF do_fork
<1>7. new \in [S -> Free(objs)] /\ \A i, j \in S : i # j => new[i] # new[j]
  BY <1>4, <1>5, <1>6, AllocExists
<1>8. /\ objs' = ForkObjects(p, c, new)
      /\ vma' = [vma EXCEPT ![p] = ForkAreas(p, p, new), ![c] = ForkAreas(p, c, new)]
  BY <1>3, <1>5 DEF do_fork
<1>9. PICK ns : ns = objs'
  OBVIOUS
<1>10. Forking(p, c, new, ns, vma')
  BY <1>1, <1>2, <1>3, <1>7, <1>8, <1>9 DEF Forking
<1>. QED BY <1>9, <1>10

(* What do_fork does to objects, areas and entries.                        *)
LEMMA ForkStep ==
  ASSUME CowInv, NEW p \in Process, NEW c \in Process, do_fork(p, c)
  PROVE  /\ ObjInv(objs', vma') /\ Kept(objs, vma, pte, objs', vma', pte')
         /\ pte' \in [Process -> [Area -> [Page -> {NoPte} \cup PteType]]]
         /\ \A q \in Process : q # p /\ q # c => vma'[q] = vma[q]
<1>1. ObjInv(objs, vma)
  BY DEF CowInv
<1>8. pte' = [pte EXCEPT ![p] = NoPtes, ![c] = NoPtes]
  BY DEF do_fork
<1>9. PICK ns : ns = objs'
  OBVIOUS
<1>10. PICK new : Forking(p, c, new, ns, vma')
  BY <1>9, ForkIs
<1>11. ObjInv(ns, vma')
  BY <1>10, ForkKeeps
<1>12. \A q \in Process : q \notin {p, c} => vma'[q] = vma[q]
  <2>1. ForkedAreas(p, c, new, vma')
    BY <1>10, ForkAreasAre
  <2>. QED BY <2>1 DEF ForkedAreas
<1>13. pte' \in [Process -> [Area -> [Page -> {NoPte} \cup PteType]]]
  BY <1>8 DEF CowInv, NoPtes
<1>14. \A q \in Process, b \in Area, n \in Page : IF q \in {p, c} THEN pte'[q][b][n] = NoPte ELSE pte'[q][b][n] = pte[q][b][n]
  BY <1>8 DEF CowInv, NoPtes
<1>15. ASSUME NEW q \in Process, NEW b \in Area, NEW n \in Page, pte'[q][b][n] # NoPte
       PROVE  /\ pte'[q][b][n] = pte[q][b][n] /\ vma'[q][b] = vma[q][b]
              /\ SameBelow(objs, ns, vma[q][b].obj)
  <2>1. pte'[q][b][n] = pte[q][b][n] /\ vma'[q][b] = vma[q][b]
    BY <1>12, <1>14, <1>15
  <2>2. vma[q][b] # NoArea
    BY <1>15, <2>1 DEF CowInv, PteFits
  <2>3. PICK x \in Object : x = vma[q][b].obj /\ objs[x].kind # "free"
    BY <1>1, <2>2, AreaObject
  <2>4. SameBelow(objs, ns, x)
    BY <1>10, <2>3, ForkSame
  <2>. QED BY <2>1, <2>3, <2>4
<1>16. Kept(objs, vma, pte, ns, vma', pte')
  BY <1>15 DEF Kept
<1>. QED BY <1>9, <1>11, <1>12, <1>13, <1>16

-----------------------------------------------------------------------------
(* Page n of o, or of bottom objects, may become resident.                  *)
Grown(os, ns, n, o) ==
  /\ GraphSame(os, ns)
  /\ \A x \in Object, m \in Page : Resident(os, x, m) => Resident(ns, x, m)
  /\ \A x \in Object, m \in Page : ~Resident(os, x, m) /\ Resident(ns, x, m) =>
       m = n /\ (x = o \/ os[x].mmo_shadowed = NoObj)

(* Lookups do no more than that.                                           *)
LEMMA FilledGrown ==
  ASSUME NEW os, NEW vm, ObjInv(os, vm), NEW ns, ObjInv(ns, vm), NEW n \in Page, NEW o,
         Filled(os, ns, n, o)
  PROVE  Grown(os, ns, n, o)
BY FilledType DEF Filled, Grown

(* An entry fits still when pages have become resident.                    *)
LEMMA GrownFits ==
  ASSUME NEW os, NEW vm, ObjInv(os, vm), NEW ns, NEW n, NEW o, Grown(os, ns, n, o), NEW pt, NEW pu,
         NEW q \in Process, NEW b \in Area, NEW m \in Page, PteFits(os, vm, pt, q, b, m),
         pu[q][b][m] = pt[q][b][m]
  PROVE  PteFits(ns, vm, pu, q, b, m)
<1> SUFFICES ASSUME pt[q][b][m] # NoPte PROVE PteFits(ns, vm, pu, q, b, m)
  BY DEF PteFits
<1>1. PICK e : e = pt[q][b][m]
  OBVIOUS
<1>2. /\ vm[q][b] # NoArea /\ e.obj \in Beneath(os, vm[q][b].obj) /\ Resident(os, e.obj, m)
      /\ e.write => e.obj = vm[q][b].obj
  BY <1>1 DEF PteFits
<1>3. PICK x \in Object : x = vm[q][b].obj
  BY <1>2, AreaObject
<1>4. GraphSame(os, ns)
  BY DEF Grown
<1>5. Beneath(ns, x) = Beneath(os, x)
  BY <1>4, GraphSameFacts
<1>6. Beneath(os, x) \subseteq Object
  BY ObjFacts DEF IsBeneath
<1>7. Resident(ns, e.obj, m)
  BY <1>2, <1>3, <1>6 DEF Grown
<1>. QED BY <1>1, <1>2, <1>3, <1>5, <1>7 DEF PteFits

(* A lookup ends where it did, unless a shadow object of the chain has got  *)
(* the page.                                                                *)
LEMMA GrownHolder ==
  ASSUME NEW os, NEW vm, ObjInv(os, vm), NEW ns, NEW n \in Page, NEW o, Grown(os, ns, n, o),
         NEW x \in Object, NEW m \in Page,
         m # n \/ o \notin Beneath(os, x) \/ os[o].mmo_shadowed = NoObj
  PROVE  Holder(ns, x, m) = Holder(os, x, m)
<1>1. GraphSame(os, ns)
  BY DEF Grown
<1>2. ShadowOf(ns) = ShadowOf(os)
  BY <1>1, GraphSameFacts
<1>3. Ranked(ShadowOf(os)) /\ Ranked(ShadowOf(ns))
  BY <1>2, ObjFacts
<1>4. Beneath(os, x) \subseteq Object
  BY ObjFacts DEF IsBeneath
<1>5. ASSUME NEW y \in Beneath(os, x)
      PROVE  /\ ns[y].mmo_shadowed = os[y].mmo_shadowed
             /\ os[y].mmo_shadowed # NoObj => (Resident(ns, y, m) <=> Resident(os, y, m))
  BY <1>1, <1>4, <1>5 DEF Grown, GraphSame
<1>. QED BY <1>3, <1>5, HolderSame
-----------------------------------------------------------------------------
(* What a lookup for reading does, and where it ends afterwards.           *)
LEMMA ReadStep ==
  ASSUME CowInv, NEW p \in Process, NEW a \in Area, NEW n \in Page, vma[p][a] # NoArea,
         NEW ns, ns = LookupForRead(objs, vma[p][a].obj, n), NEW h,
         h = Holder(objs, vma[p][a].obj, n)
  PROVE  /\ ObjInv(ns, vma) /\ Grown(objs, ns, n, NoObj)
         /\ h \in Object /\ h \in Beneath(ns, vma[p][a].obj) /\ Resident(ns, h, n)
         /\ Holder(ns, vma[p][a].obj, n) = h
<1>1. ObjInv(objs, vma)
  BY DEF CowInv
<1>2. PICK o \in Object : o = vma[p][a].obj /\ objs[o].kind # "free"
  BY <1>1, AreaObject
<1>3. ns = LookupForRead(objs, o, n) /\ h = Holder(objs, o, n)
  BY <1>2
<1>4. /\ ObjInv(ns, vma) /\ Filled(objs, ns, n, NoObj)
      /\ h \in Beneath(objs, o) /\ Resident(ns, h, n)
  BY <1>1, <1>2, <1>3, ReadFills
<1>5. Grown(objs, ns, n, NoObj)
  BY <1>1, <1>4, FilledGrown
<1>6. Beneath(ns, o) = Beneath(objs, o)
  <2>1. GraphSame(objs, ns)
    BY <1>5 DEF Grown
  <2>. QED BY <1>1, <2>1, GraphSameFacts
<1>7. Beneath(objs, o) \subseteq Object
  BY <1>1, ObjFacts DEF IsBeneath
<1>8. Holder(ns, o, n) = h
  <2>1. NoObj \notin Beneath(objs, o)
    BY <1>7, CowAssumption
  <2>2. Holder(ns, o, n) = Holder(objs, o, n)
    BY <1>1, <1>5, <2>1, GrownHolder
  <2>. QED BY <1>3, <2>2
<1>. QED BY <1>2, <1>4, <1>5, <1>6, <1>7, <1>8

(* A write, once the frame of o is there.                                   *)
LEMMA StoreGrown ==
  ASSUME NEW os, NEW vm, ObjInv(os, vm), NEW ms, ObjInv(ms, vm), NEW o \in Object, NEW n \in Page,
         Grown(os, ms, n, o), Resident(ms, o, n), NEW w, NEW x \in Value, NEW ns, ns = Store(ms, o, n, w, x)
  PROVE  ObjInv(ns, vm) /\ Grown(os, ns, n, o) /\ Resident(ns, o, n)
<1>1. /\ ObjInv(ns, vm) /\ GraphSame(ms, ns)
      /\ \A y \in Object, m \in Page : Resident(ns, y, m) <=> Resident(ms, y, m)
  BY StoreKeeps
<1>2. GraphSame(os, ns)
  BY <1>1 DEF Grown, GraphSame
<1>. QED BY <1>1, <1>2 DEF Grown

(* What a write through a lookup does.                                     *)
LEMMA WriteStep ==
  ASSUME CowInv, NEW p \in Process, NEW a \in Area, NEW n \in Page, vma[p][a] # NoArea,
         NEW w \in Word, NEW x \in Written, NEW ns,
         ns = Store(LookupForWrite(objs, vma[p][a].obj, n), vma[p][a].obj, n, w, x)
  PROVE  /\ ObjInv(ns, vma) /\ Grown(objs, ns, n, vma[p][a].obj)
         /\ Resident(ns, vma[p][a].obj, n)
<1>1. ObjInv(objs, vma)
  BY DEF CowInv
<1>2. PICK o \in Object : o = vma[p][a].obj /\ objs[o].kind # "free"
  BY <1>1, AreaObject
<1>3. PICK ms : ms = LookupForWrite(objs, o, n)
  OBVIOUS
<1>4. ObjInv(ms, vma) /\ Filled(objs, ms, n, o) /\ Resident(ms, o, n)
  BY <1>1, <1>2, <1>3, WriteFills
<1>5. Grown(objs, ms, n, o)
  BY <1>1, <1>4, FilledGrown
<1>6. ns = Store(ms, o, n, w, x) /\ x \in Value
  BY <1>2, <1>3, CowAssumption
<1>7. ObjInv(ns, vma) /\ Grown(objs, ns, n, o) /\ Resident(ns, o, n)
  BY <1>1, <1>4, <1>5, <1>6, StoreGrown
<1>. QED BY <1>2, <1>7

(* What a write through a writable entry does.                             *)
LEMMA EntryStep ==
  ASSUME CowInv, NEW p \in Process, NEW a \in Area, NEW n \in Page, NEW e, e = pte[p][a][n],
         e # NoPte, e.write,
         NEW w \in Word, NEW x \in Written, NEW ns, ns = Store(objs, e.obj, n, w, x)
  PROVE  /\ ObjInv(ns, vma) /\ Grown(objs, ns, n, vma[p][a].obj)
         /\ Resident(ns, vma[p][a].obj, n) /\ e.obj = vma[p][a].obj
<1>1. ObjInv(objs, vma) /\ PteFits(objs, vma, pte, p, a, n)
  BY DEF CowInv
<1>2. vma[p][a] # NoArea /\ e.obj = vma[p][a].obj /\ Resident(objs, e.obj, n)
  BY <1>1 DEF PteFits
<1>3. PICK o \in Object : o = vma[p][a].obj
  BY <1>1, <1>2, AreaObject
<1>4. Grown(objs, objs, n, o)
  BY DEF Grown, GraphSame
<1>5. ns = Store(objs, o, n, w, x) /\ x \in Value /\ Resident(objs, o, n)
  BY <1>2, <1>3, CowAssumption
<1>6. ObjInv(ns, vma) /\ Grown(objs, ns, n, o) /\ Resident(ns, o, n)
  BY <1>1, <1>4, <1>5, StoreGrown
<1>. QED BY <1>2, <1>3, <1>6

-----------------------------------------------------------------------------
(* What steps do: they keep entries, or they look page n of an area up.     *)
PteOK(pt) == pt \in [Process -> [Area -> [Page -> {NoPte} \cup PteType]]]
Keeping ==
  /\ ObjInv(objs', vma') /\ Kept(objs, vma, pte, objs', vma', pte') /\ PteOK(pte')
Looking(p, a, n) ==
  /\ p_state' = p_state /\ vma' = vma /\ vma[p][a] # NoArea
  /\ ObjInv(objs', vma) /\ PteOK(pte')
  /\ \A q \in Process, b \in Area, m \in Page : <<q, b, m>> # <<p, a, n>> => pte'[q][b][m] = pte[q][b][m]
  /\ PteFits(objs', vma, pte', p, a, n)
  /\ \/ /\ Grown(objs, objs', n, NoObj)
        /\ pte'[p][a][n] = pte[p][a][n] \/ pte'[p][a][n].obj = Holder(objs', vma[p][a].obj, n)
     \/ /\ Grown(objs, objs', n, vma[p][a].obj)
        /\ \/ pte'[p][a][n].obj = Holder(objs', vma[p][a].obj, n)
           \/ \E w \in Word, x \in Written : vmmap_write(p, a, n, w, x)

(* An entry is set.                                                        *)
SetsPte(p, a, n, e) == pte' = [pte EXCEPT ![p][a][n] = e]
(* One entry changes, and to e.                                            *)
LEMMA PteSet ==
  ASSUME PteOK(pte), NEW p \in Process, NEW a \in Area, NEW n \in Page, NEW e, e \in PteType,
         SetsPte(p, a, n, e)
  PROVE  /\ PteOK(pte') /\ pte'[p][a][n] = e
         /\ \A q \in Process, b \in Area, m \in Page : <<q, b, m>> # <<p, a, n>> => pte'[q][b][m] = pte[q][b][m]
BY DEF PteOK, SetsPte

(* The reads look a page up and map, at most, what they found.             *)
LEMMA UserReadLooks ==
  ASSUME CowInv, NEW p \in Process, NEW a \in Area, NEW n \in Page,
         UserRead(p, a, n) \/ vmmap_read(p, a, n)
  PROVE  Looking(p, a, n)
<1>1. /\ vma[p][a] # NoArea /\ objs' = LookupForRead(objs, vma[p][a].obj, n) /\ vma' = vma /\ p_state' = p_state
  BY DEF UserRead, vmmap_read, Accessible
<1>2. PICK ns : ns = objs'
  OBVIOUS
<1>3. PICK h : h = Holder(objs, vma[p][a].obj, n)
  OBVIOUS
<1>4. /\ ObjInv(ns, vma) /\ Grown(objs, ns, n, NoObj)
      /\ h \in Object /\ h \in Beneath(ns, vma[p][a].obj) /\ Resident(ns, h, n)
      /\ Holder(ns, vma[p][a].obj, n) = h
  BY <1>1, <1>2, <1>3, ReadStep
<1>5. PteOK(pte) /\ ObjInv(objs, vma) /\ PteFits(objs, vma, pte, p, a, n)
  BY DEF CowInv, PteOK
<1>6. CASE UserRead(p, a, n)
  <2>1. PICK e : e = [obj |-> h, write |-> FALSE]
    OBVIOUS
  <2>2. e \in PteType /\ e.obj = h /\ e.write = FALSE
    BY <1>4, <2>1 DEF PteType
  <2>3. SetsPte(p, a, n, e)
    BY <1>3, <1>6, <2>1 DEF UserRead, SetsPte
  <2>4. /\ PteOK(pte') /\ pte'[p][a][n] = e
        /\ \A q \in Process, b \in Area, m \in Page : <<q, b, m>> # <<p, a, n>> => pte'[q][b][m] = pte[q][b][m]
    BY <1>5, <2>2, <2>3, PteSet
  <2>5. PteFits(ns, vma, pte', p, a, n)
    BY <1>1, <1>4, <2>2, <2>4 DEF PteFits
  <2>. QED BY <1>1, <1>2, <1>4, <2>2, <2>4, <2>5 DEF Looking
<1>7. CASE vmmap_read(p, a, n)
  <2>1. pte' = pte
    BY <1>7 DEF vmmap_read
  <2>2. PteFits(ns, vma, pte', p, a, n)
    BY <1>4, <1>5, <2>1, GrownFits
  <2>. QED BY <1>1, <1>2, <1>4, <1>5, <2>1, <2>2 DEF Looking
<1>. QED BY <1>6, <1>7

(* A lookup ends at once where the page is resident.                       *)
LEMMA HolderOwn ==
  ASSUME NEW os, NEW vm, ObjInv(os, vm), NEW o \in Object, NEW n, Resident(os, o, n)
  PROVE  Holder(os, o, n) = o
BY ObjFacts, HolderIs

(* So do the program's writes, which map the object's own page.            *)
LEMMA UserWriteLooks ==
  ASSUME CowInv, NEW p \in Process, NEW a \in Area, NEW n \in Page, NEW w \in Word,
         NEW x \in Written, UserWrite(p, a, n, w, x)
  PROVE  Looking(p, a, n)
<1>1. vma[p][a] # NoArea /\ vma' = vma /\ p_state' = p_state
  BY DEF UserWrite, Accessible
<1>2. PteOK(pte) /\ ObjInv(objs, vma) /\ PteFits(objs, vma, pte, p, a, n)
  BY DEF CowInv, PteOK
<1>3. PICK o \in Object : o = vma[p][a].obj
  BY <1>1, <1>2, AreaObject
<1>4. PICK ns : ns = objs'
  OBVIOUS
<1>5. /\ ObjInv(ns, vma) /\ Grown(objs, ns, n, o) /\ Resident(ns, o, n)
      /\ PteOK(pte') /\ pte'[p][a][n] # NoPte /\ pte'[p][a][n].obj = o
      /\ \A q \in Process, b \in Area, m \in Page : <<q, b, m>> # <<p, a, n>> => pte'[q][b][m] = pte[q][b][m]
  <2>1. CASE pte[p][a][n] # NoPte /\ pte[p][a][n].write
    <3>1. PICK e : e = pte[p][a][n]
      OBVIOUS
    <3>2. ns = Store(objs, e.obj, n, w, x) /\ pte' = pte
      BY <1>4, <2>1, <3>1 DEF UserWrite
    <3>3. ObjInv(ns, vma) /\ Grown(objs, ns, n, o) /\ Resident(ns, o, n) /\ e.obj = o
      BY <1>3, <2>1, <3>1, <3>2, EntryStep
    <3>. QED BY <1>2, <2>1, <3>1, <3>2, <3>3
  <2>2. CASE ~(pte[p][a][n] # NoPte /\ pte[p][a][n].write)
    <3>1. PICK e : e = [obj |-> o, write |-> TRUE]
      OBVIOUS
    <3>0. e \in PteType /\ e.obj = o
      BY <3>1 DEF PteType
    <3>2. e \in PteType /\ e.obj = o /\ e # NoPte
      BY <3>0, CowAssumption DEF PteType
    <3>3. /\ ns = Store(LookupForWrite(objs, vma[p][a].obj, n), vma[p][a].obj, n, w, x)
          /\ SetsPte(p, a, n, e)
      BY <1>3, <1>4, <2>2, <3>1 DEF UserWrite, SetsPte
    <3>4. /\ PteOK(pte') /\ pte'[p][a][n] = e
          /\ \A q \in Process, b \in Area, m \in Page : <<q, b, m>> # <<p, a, n>> => pte'[q][b][m] = pte[q][b][m]
      BY <1>2, <3>2, <3>3, PteSet
    <3>5. ObjInv(ns, vma) /\ Grown(objs, ns, n, o) /\ Resident(ns, o, n)
      BY <1>1, <1>3, <3>3, WriteStep
    <3>. QED BY <3>2, <3>4, <3>5
  <2>. QED BY <2>1, <2>2
<1>6. o \in Beneath(ns, o)
  BY <1>5, ObjFacts DEF IsBeneath
<1>7. PteFits(ns, vma, pte', p, a, n)
  BY <1>1, <1>3, <1>5, <1>6 DEF PteFits
<1>8. Holder(ns, o, n) = o
  BY <1>5, HolderOwn
<1>. QED BY <1>1, <1>3, <1>4, <1>5, <1>7, <1>8 DEF Looking

(* So do the kernel's, which leave the entries alone.                      *)
LEMMA KernelWriteLooks ==
  ASSUME CowInv, NEW p \in Process, NEW a \in Area, NEW n \in Page, NEW w \in Word,
         NEW x \in Written, vmmap_write(p, a, n, w, x)
  PROVE  Looking(p, a, n)
<1>1. vma[p][a] # NoArea /\ vma' = vma /\ p_state' = p_state /\ pte' = pte
  BY DEF vmmap_write, Accessible
<1>2. PteOK(pte) /\ ObjInv(objs, vma) /\ PteFits(objs, vma, pte, p, a, n)
  BY DEF CowInv, PteOK
<1>3. PICK ns : ns = objs'
  OBVIOUS
<1>4. ns = Store(LookupForWrite(objs, vma[p][a].obj, n), vma[p][a].obj, n, w, x)
  BY <1>3 DEF vmmap_write
<1>5. ObjInv(ns, vma) /\ Grown(objs, ns, n, vma[p][a].obj)
  BY <1>1, <1>4, WriteStep
<1>6. PteFits(ns, vma, pte', p, a, n)
  BY <1>1, <1>2, <1>5, GrownFits
<1>. QED BY <1>1, <1>2, <1>3, <1>5, <1>6 DEF Looking
-----------------------------------------------------------------------------
(* A process that does not exist has no areas.                             *)
PStateOK(ps, vm) ==
  /\ ps \in [Process -> {"none", "running", "exiting"}]
  /\ \A p \in Process : ps[p] = "none" => vm[p] = NoAreas

(* Every step keeps entries or looks a page up.                            *)
LEMMA CowSteps ==
  ASSUME CowInv, CowNext
  PROVE  /\ PStateOK(p_state', vma')
         /\ Keeping \/ \E p \in Process, a \in Area, n \in Page : Looking(p, a, n)
<1>0. PStateOK(p_state, vma) /\ ObjInv(objs, vma) /\ PteOK(pte) /\ VmaType(vma) /\ PtesFit(objs, vma, pte)
  BY DEF CowInv, PStateOK, PteOK, ObjInv, PtesFit
<1>1. PICK p \in Process :
        \/ do_exit(p)
        \/ \E c \in Process : do_fork(p, c)
        \/ \E a \in Area :
             \/ \E k \in MapKind : vmmap_map(p, a, k[1], k[2])
             \/ do_munmap(p, a)
             \/ vmmap_destroy(p, a)
             \/ \E n \in Page :
                  \/ UserRead(p, a, n)
                  \/ vmmap_read(p, a, n)
                  \/ \E w \in Word, x \in Written : UserWrite(p, a, n, w, x) \/ vmmap_write(p, a, n, w, x)
  BY DEF CowNext
<1>2. CASE do_exit(p)
  <2>1. vma' = vma /\ pte' = pte /\ objs' = objs
    BY <1>2 DEF do_exit
  <2>2. PStateOK(p_state', vma')
    BY <1>0, <1>2, <2>1 DEF do_exit, PStateOK
  <2>3. Kept(objs, vma, pte, objs', vma', pte')
    BY <2>1, SameBelowSame DEF Kept
  <2>. QED BY <1>0, <2>1, <2>2, <2>3 DEF Keeping
<1>3. ASSUME NEW c \in Process, do_fork(p, c)
      PROVE  Keeping /\ PStateOK(p_state', vma')
  <2>1. /\ ObjInv(objs', vma') /\ Kept(objs, vma, pte, objs', vma', pte')
        /\ pte' \in [Process -> [Area -> [Page -> {NoPte} \cup PteType]]]
        /\ \A q \in Process : q # p /\ q # c => vma'[q] = vma[q]
    BY <1>3, ForkStep
  <2>2. p_state' = [p_state EXCEPT ![c] = "running"] /\ p_state[p] = "running"
    BY <1>3 DEF do_fork
  <2>3. PStateOK(p_state', vma')
    BY <1>0, <2>1, <2>2 DEF PStateOK
  <2>. QED BY <2>1, <2>3 DEF Keeping, PteOK
<1>4. ASSUME NEW a \in Area, NEW k \in MapKind, vmmap_map(p, a, k[1], k[2])
      PROVE  Keeping /\ PStateOK(p_state', vma')
  <2>1. k[1] \in BOOLEAN /\ k[2] \in BOOLEAN
    BY CowAssumption
  <2>2. /\ ObjInv(objs', vma') /\ Kept(objs, vma, pte, objs', vma', pte')
        /\ pte' \in [Process -> [Area -> [Page -> {NoPte} \cup PteType]]]
        /\ \A q \in Process : q # p => vma'[q] = vma[q]
    BY <1>4, <2>1, MapStep
  <2>3. p_state' = p_state /\ p_state[p] = "running"
    BY <1>4 DEF vmmap_map
  <2>4. PStateOK(p_state', vma')
    BY <1>0, <2>2, <2>3 DEF PStateOK
  <2>. QED BY <2>2, <2>4 DEF Keeping, PteOK
<1>5. ASSUME NEW a \in Area, do_munmap(p, a) \/ vmmap_destroy(p, a)
      PROVE  Keeping /\ PStateOK(p_state', vma')
  <2>1. /\ vma[p][a] # NoArea /\ vma' = [vma EXCEPT ![p][a] = NoArea] /\ p_state[p] # "none"
        /\ p_state' \in {p_state, [p_state EXCEPT ![p] = IF vma'[p] = NoAreas THEN "none" ELSE @]}
    BY <1>5 DEF do_munmap, vmmap_destroy
  <2>2. PICK near : vmmap_remove(p, a, objs', near)
    BY <1>5 DEF do_munmap, vmmap_destroy
  <2>3. PICK wm : wm = vma' /\ Unmapped(vma, p, a, wm)
    BY <2>1 DEF Unmapped
  <2>4. PICK ns : ns = objs' /\ vmmap_remove(p, a, ns, near)
    BY <2>2
  <2>5. /\ ObjInv(ns, wm) /\ Kept(objs, vma, pte, ns, wm, pte')
        /\ pte' \in [Process -> [Area -> [Page -> {NoPte} \cup PteType]]]
    BY <2>1, <2>3, <2>4, RemoveStep
  <2>6. \A q \in Process : q # p => vma'[q] = vma[q]
    BY <1>0, <2>1 DEF VmaType
  <2>7. PStateOK(p_state', vma')
    <3>1. CASE p_state' = p_state
      BY <1>0, <2>1, <2>6, <3>1 DEF PStateOK
    <3>2. CASE p_state' = [p_state EXCEPT ![p] = IF vma'[p] = NoAreas THEN "none" ELSE @]
      BY <1>0, <2>1, <2>6, <3>2 DEF PStateOK
    <3>. QED BY <2>1, <3>1, <3>2
  <2>. QED BY <2>3, <2>4, <2>5, <2>7 DEF Keeping, PteOK
<1>6. ASSUME NEW a \in Area, NEW n \in Page, Looking(p, a, n) PROVE PStateOK(p_state', vma')
  BY <1>0, <1>6 DEF Looking
<1>. QED BY <1>1, <1>2, <1>3, <1>4, <1>5, <1>6, UserReadLooks, UserWriteLooks, KernelWriteLooks

-----------------------------------------------------------------------------
(* The invariant in terms of these parts.                                  *)
LEMMA CowInvIs == CowInv <=> ObjInv(objs, vma) /\ PStateOK(p_state, vma) /\ PteOK(pte) /\ PtesFit(objs, vma, pte)
BY DEF CowInv, PStateOK, PteOK, PtesFit

(* Every step keeps the invariant.                                         *)
LEMMA CowKeeps == CowInv /\ [CowNext]_cowVars => CowInv'
<1> SUFFICES ASSUME CowInv, [CowNext]_cowVars PROVE CowInv'
  OBVIOUS
<1>0. PtesFit(objs, vma, pte) /\ ObjInv(objs, vma)
  BY CowInvIs
<1>1. CASE UNCHANGED cowVars
  <2>1. p_state' = p_state /\ vma' = vma /\ pte' = pte /\ objs' = objs
    BY <1>1 DEF cowVars
  <2>2. ObjInv(objs', vma') /\ PStateOK(p_state', vma') /\ PteOK(pte') /\ PtesFit(objs', vma', pte')
    BY <2>1, CowInvIs
  <2>. QED BY <2>2 DEF CowInv, PStateOK, PteOK, PtesFit
<1>2. CASE CowNext
  <2>1. PStateOK(p_state', vma')
    BY <1>2, CowSteps
  <2>2. ObjInv(objs', vma') /\ PteOK(pte') /\ PtesFit(objs', vma', pte')
    <3>1. CASE Keeping
      BY <1>0, <3>1, KeptFits DEF Keeping
    <3>2. ASSUME NEW p \in Process, NEW a \in Area, NEW n \in Page, Looking(p, a, n)
          PROVE ObjInv(objs', vma') /\ PteOK(pte') /\ PtesFit(objs', vma', pte')
      <4>1. PICK o : Grown(objs, objs', n, o)
        BY <3>2 DEF Looking
      <4>2. ASSUME NEW q \in Process, NEW b \in Area,
                   NEW m \in Page PROVE PteFits(objs', vma', pte', q, b, m)
        <5>1. CASE <<q, b, m>> = <<p, a, n>>
          BY <3>2, <5>1 DEF Looking
        <5>2. CASE <<q, b, m>> # <<p, a, n>>
          <6>1. pte'[q][b][m] = pte[q][b][m] /\ vma' = vma
            BY <3>2, <5>2 DEF Looking
          <6>2. PteFits(objs, vma, pte, q, b, m)
            BY <1>0 DEF PtesFit
          <6>3. PteFits(objs', vma, pte', q, b, m)
            BY <1>0, <4>1, <6>1, <6>2, GrownFits
          <6>. QED BY <6>1, <6>3
        <5>. QED BY <5>1, <5>2
      <4>. QED BY <3>2, <4>2 DEF Looking, PtesFit
    <3>. QED BY <1>2, <3>1, <3>2, CowSteps
  <2>. QED BY <2>1, <2>2 DEF CowInv, PStateOK, PteOK, PtesFit
<1>. QED BY <1>1, <1>2

(* The invariant holds always: for every number of processes, areas, pages *)
(* and objects, chains end, counts are exact, private areas own the object *)
(* they write, and every entry maps a resident page of its area's chain.   *)
THEOREM CowInductive == CowSpec => []CowInv
BY CowInitHolds, CowKeeps, PTL DEF CowSpec
-----------------------------------------------------------------------------
(* It says that the state has its type.                                    *)
LEMMA CowTyped == CowInv => CowTypeOK
BY DEF CowInv, CowTypeOK, ObjInv, ObjsType, ObjType, VmaType, AreaType, PteType

(* An object that is referred to is beneath an area's object or the file.   *)
ReachedBy(os, vm, o) == \E p \in Process, a \in Area : vm[p][a] # NoArea /\ o \in Beneath(os, vm[p][a].obj)
(* An object in use that is not the file's is beneath an area.             *)
LEMMA AllReached ==
  ASSUME NEW os, NEW vm, ObjInv(os, vm), NEW o \in Object, os[o].kind # "free", o # File
  PROVE  ReachedBy(os, vm, o)
<1>1. /\ Ranked(ShadowOf(os))
      /\ \A x \in Object : os[x].mmo_shadowed # NoObj => os[x].mmo_shadowed \in Object
      /\ \A x \in Object : IsBeneath(os, x, Beneath(os, x))
      /\ \A x \in Object : os[x].kind = "free" => UsersOf(vm, x) = {} /\ x # File
  BY ObjFacts
<1>2. PICK next : next = ShadowOf(os) /\ \A x \in Object : next[x] = os[x].mmo_shadowed
  BY ShadowOfIs
<1> DEFINE T == {x \in Object : os[x].kind # "free" /\ x # File /\ ~ReachedBy(os, vm, x)}
<1>3. ASSUME NEW x \in T PROVE \E y \in T : next[y] = x
  <2>1. x \in Object /\ os[x].kind # "free" /\ x # File /\ ~ReachedBy(os, vm, x)
    BY <1>3
  <2>2. UsersOf(vm, x) = {}
    <3> SUFFICES ASSUME NEW u \in UsersOf(vm, x) PROVE FALSE
      OBVIOUS
    <3>1. PICK q \in Process, b \in Area : u = <<q, b>>
      BY DEF UsersOf
    <3>2. vm[q][b] # NoArea /\ vm[q][b].obj = x
      BY <3>1 DEF UsersOf, Uses
    <3>3. x \in Beneath(os, x)
      BY <1>1, <2>1 DEF IsBeneath
    <3>. QED BY <2>1, <3>2, <3>3 DEF ReachedBy
  <2>3. ASSUME NEW y \in Object, x \in Beneath(os, y), y # x
        PROVE  ~ReachedBy(os, vm, y) /\ y # File /\ os[y].kind # "free"
    <3>1. CASE ReachedBy(os, vm, y)
      <4>1. PICK q \in Process, b \in Area : vm[q][b] # NoArea /\ y \in Beneath(os, vm[q][b].obj)
        BY <3>1 DEF ReachedBy
      <4>2. PICK z \in Object : z = vm[q][b].obj
        BY <4>1, AreaObject
      <4>3. Beneath(os, y) \subseteq Beneath(os, z)
        BY <1>1, <4>1, <4>2 DEF IsBeneath
      <4>4. x \in Beneath(os, vm[q][b].obj)
        BY <2>3, <4>2, <4>3
      <4>. QED BY <2>1, <4>1, <4>4 DEF ReachedBy
    <3>2. os[y].mmo_shadowed # NoObj
      <4> SUFFICES ASSUME os[y].mmo_shadowed = NoObj PROVE FALSE
        OBVIOUS
      <4>1. Closed(os, {y})
        BY DEF Closed
      <4>2. Beneath(os, y) \subseteq {y}
        BY <1>1, <4>1 DEF IsBeneath
      <4>. QED BY <2>3, <4>2
    <3>3. os[y].kind = "shadow" /\ (os[y].kind = "file" <=> y = File)
      BY <3>2 DEF ObjInv, Shape
    <3>. QED BY <3>1, <3>3
  <2>4. ASSUME NEW y \in Object, os[y].mmo_shadowed = x PROVE y \in T /\ next[y] = x
    <3>1. x \in Beneath(os, y)
      BY <1>1, <2>1, <2>4, CowAssumption DEF IsBeneath, Closed
    <3>2. y # x
      <4>1. PICK b, r : Ranks(next, b, r)
        BY <1>1, <1>2 DEF Ranked
      <4>2. next[y] # NoObj
        BY <1>2, <2>1, <2>4, CowAssumption
      <4>3. r[next[y]] < r[y] /\ r[y] \in Nat
        BY <4>1, <4>2 DEF Ranks
      <4>. QED BY <1>2, <2>4, <4>3
    <3>. QED BY <1>2, <2>3, <2>4, <3>1, <3>2
  <2>5. CASE \E y \in Object : os[y].mmo_shadowed = x
    BY <2>4, <2>5
  <2>6. CASE \A y \in Object : os[y].mmo_shadowed # x
    <3>1. Shadowers(os, x) = {}
      BY <2>6 DEF Shadowers
    <3>2. Refs(os, vm, x) # 0
      BY <2>1 DEF ObjInv, CountedObj
    <3>3. Bottomed(os, x) # {}
      BY <2>1, <2>2, <3>1, <3>2, NoRefs
    <3>4. PICK s \in Object : os[s].mmo_bottom_obj = x
      BY <3>3 DEF Bottomed
    <3>5. Shape(os, s)
      BY DEF ObjInv
    <3>6. os[s].mmo_shadowed # NoObj /\ x = Bottom(os, os[s].mmo_shadowed)
      BY <2>1, <3>4, <3>5, CowAssumption DEF Shape
    <3>7. PICK y \in Object : y = os[s].mmo_shadowed
      BY <1>1, <3>6
    <3>8. x \in Beneath(os, y)
      BY <3>6, <3>7, ObjFacts
    <3>9. Closed(os, Beneath(os, y) \ {x})
      <4>1. Closed(os, Beneath(os, y)) /\ Beneath(os, y) \subseteq Object
        BY <1>1 DEF IsBeneath
      <4>. QED BY <2>6, <4>1 DEF Closed
    <3>10. y # x
      BY <2>6, <3>7
    <3>11. y \in Beneath(os, y) \ {x}
      BY <1>1, <3>10 DEF IsBeneath
    <3>. QED BY <1>1, <3>8, <3>9, <3>11 DEF IsBeneath
  <2>. QED BY <2>5, <2>6
<1>4. T = {}
  <2> HIDE DEF T
  <2>1. T \subseteq Object
    BY DEF T
  <2>. QED BY <1>1, <1>2, <1>3, <2>1, ChainAscent
<1>. QED BY <1>4

(* Counts are exact, and what no area leads to has been freed.             *)
LEMMA CowCounted == CowInv => RefcountExact
<1> SUFFICES ASSUME CowInv, NEW o \in Object
             PROVE  IF objs[o].kind = "free" THEN References(o) = 0
                    ELSE /\ objs[o].mmo_refcount = References(o) + mmo_nrespages(objs, o)
                         /\ o = File \/ Reachable(o)
  BY DEF RefcountExact
<1>1. ObjInv(objs, vma) /\ CountedObj(objs, vma, o)
  BY DEF CowInv, ObjInv
<1>2. References(o) = Refs(objs, vma, o)
  BY DEF References, Refs, Users, UsersOf, Uses, Shadowers, Bottomed
<1>3. Reachable(o) <=> ReachedBy(objs, vma, o)
  BY DEF Reachable, ReachedBy
<1>. QED BY <1>1, <1>2, <1>3, AllReached DEF CountedObj

(* The first invariant that is checked.                                    *)
LEMMA CowSound == CowInv => ObjectsSound
BY CowTyped, CowCounted DEF ObjectsSound

(* The second.                                                             *)
LEMMA CowMaps == CowInv => MapsLiveFrames
BY DEF CowInv, PteFits, MapsLiveFrames

(* The third: a writable entry maps the object of its own area, which no   *)
(* other area's chain has.                                                 *)
LEMMA CowPrivate == CowInv => WritesStayPrivate
<1> SUFFICES ASSUME CowInv, NEW p \in Process, NEW q \in Process, NEW a \in Area, NEW b \in Area,
                    NEW n \in Page,
                    pte[p][a][n] # NoPte, pte[p][a][n].write, ~vma[p][a].shared, <<q, b>> # <<p, a>>, vma[q][b] # NoArea
             PROVE  pte[p][a][n].obj \notin Beneath(objs, vma[q][b].obj)
  BY DEF WritesStayPrivate
<1>1. ObjInv(objs, vma) /\ PteFits(objs, vma, pte, p, a, n)
  BY DEF CowInv
<1>2. vma[p][a] # NoArea /\ pte[p][a][n].obj = vma[p][a].obj
  BY <1>1 DEF PteFits
<1>. QED BY <1>1, <1>2, PrivateApart

(* The reference count that decides when an object is freed is the number  *)
(* of areas, shadow objects and bottom pointers that name it and of its    *)
(* resident pages, after any sequence of mmap, munmap, fork, fault and     *)
(* exit, of any number of processes; what no address space leads to has    *)
(* been freed (fork.c:107-115, shadow.c:117-151, anon.c:115-150).          *)
THEOREM CowObjectsSound == CowSpec => []ObjectsSound
BY CowInductive, CowSound, PTL

(* No page table entry is ever left to a frame that was freed, nor to one  *)
(* outside the chain of its area (shadow.c:126-150, pagetable.c:173-206).  *)
THEOREM CowMapsLive == CowSpec => []MapsLiveFrames
BY CowInductive, CowMaps, PTL

(* A page that a private area maps writable is in no other area's chain    *)
(* (pagefault.c:110-131, fork.c:141).                                      *)
THEOREM CowWritesPrivate == CowSpec => []WritesStayPrivate
BY CowInductive, CowPrivate, PTL

-----------------------------------------------------------------------------
(* A lookup of p's page ends elsewhere for no other page.                   *)
LEMMA LookingApart ==
  ASSUME CowInv, NEW p \in Process, NEW a \in Area, NEW n \in Page, Looking(p, a, n),
         NEW q \in Process, NEW b \in Area, NEW m \in Page, vma[q][b] # NoArea, <<q, b, m>> # <<p,
         a, n>>
  PROVE  Holder(objs', vma[q][b].obj, m) = Holder(objs, vma[q][b].obj, m)
<1>1. ObjInv(objs, vma) /\ vma[p][a] # NoArea
  BY DEF CowInv, Looking
<1>2. PICK o \in Object : o = vma[p][a].obj
  BY <1>1, AreaObject
<1>3. PICK x \in Object : x = vma[q][b].obj
  BY <1>1, AreaObject
<1>4. CASE Grown(objs, objs', n, NoObj)
  <2>1. NoObj \notin Beneath(objs, x)
    BY <1>1, ObjFacts, CowAssumption DEF IsBeneath
  <2>. QED BY <1>1, <1>3, <1>4, <2>1, GrownHolder
<1>5. CASE Grown(objs, objs', n, o)
  <2>1. m # n \/ o \notin Beneath(objs, x) \/ objs[o].mmo_shadowed = NoObj
    <3>1. CASE vma[p][a].shared
      BY <1>1, <1>2, <3>1 DEF ObjInv, AreaFits
    <3>2. CASE ~vma[p][a].shared /\ m = n
      BY <1>1, <1>2, <1>3, <3>2, PrivateApart
    <3>. QED BY <3>1, <3>2
  <2>. QED BY <1>1, <1>3, <1>5, <2>1, GrownHolder
<1>. QED BY <1>2, <1>4, <1>5 DEF Looking

(* A step that makes an entry other than what a lookup finds is a write by *)
(* the kernel to that page.                                                *)
LEMMA StaleStep ==
  ASSUME CowInv, [CowNext]_cowVars, NEW q \in Process, NEW b \in Area, NEW m \in Page,
         Current(q, b, m), ~Current(q, b, m)'
  PROVE  \E w \in Word, x \in Written : vmmap_write(q, b, m, w, x)
<1>1. /\ pte'[q][b][m] # NoPte
      /\ pte'[q][b][m].obj # Holder(objs', vma'[q][b].obj, m)
  BY DEF Current
<1>2. ObjInv(objs, vma) /\ PtesFit(objs, vma, pte) /\ PteFits(objs, vma, pte, q, b, m)
  BY CowInvIs DEF PtesFit
<1>3. CASE UNCHANGED cowVars
  <2>1. p_state' = p_state /\ vma' = vma /\ pte' = pte /\ objs' = objs
    BY <1>3 DEF cowVars
  <2>. QED BY <1>1, <2>1 DEF Current
<1>4. CASE Keeping
  <2>1. /\ pte'[q][b][m] = pte[q][b][m]
        /\ Holder(objs', vma'[q][b].obj, m) = Holder(objs, vma[q][b].obj, m)
    BY <1>1, <1>2, <1>4, KeptFits DEF Keeping
  <2>. QED BY <1>1, <2>1 DEF Current
<1>5. ASSUME NEW p \in Process, NEW a \in Area, NEW n \in Page, Looking(p, a, n)
      PROVE \E w \in Word, x \in Written : vmmap_write(q, b, m, w, x)
  <2>1. vma' = vma
    BY <1>5 DEF Looking
  <2>2. CASE <<q, b, m>> # <<p, a, n>>
    <3>1. pte'[q][b][m] = pte[q][b][m]
      BY <1>5, <2>2 DEF Looking
    <3>2. vma[q][b] # NoArea
      BY <1>1, <1>2, <3>1 DEF PteFits
    <3>3. Holder(objs', vma[q][b].obj, m) = Holder(objs, vma[q][b].obj, m)
      BY <1>5, <2>2, <3>2, LookingApart
    <3>. QED BY <1>1, <2>1, <3>1, <3>3 DEF Current
  <2>3. CASE q = p /\ b = a /\ m = n
    <3>1. CASE Grown(objs, objs', n, NoObj) /\ pte'[p][a][n] = pte[p][a][n]
      <4>1. vma[p][a] # NoArea
        BY <1>5 DEF Looking
      <4>2. PICK x \in Object : x = vma[p][a].obj
        BY <1>2, <4>1, AreaObject
      <4>3. NoObj \notin Beneath(objs, x)
        BY <1>2, ObjFacts, CowAssumption DEF IsBeneath
      <4>4. Holder(objs', x, n) = Holder(objs, x, n)
        BY <1>2, <3>1, <4>3, GrownHolder
      <4>. QED BY <1>1, <2>1, <2>3, <3>1, <4>2, <4>4 DEF Current
    <3>2. CASE pte'[p][a][n].obj = Holder(objs', vma[p][a].obj, n)
      BY <1>1, <2>1, <2>3, <3>2
    <3>3. CASE \E w \in Word, x \in Written : vmmap_write(p, a, n, w, x)
      BY <2>3, <3>3
    <3>. QED BY <1>5, <3>1, <3>2, <3>3 DEF Looking
  <2>. QED BY <2>2, <2>3
<1>. QED BY <1>3, <1>4, <1>5, CowSteps

(* Only the kernel's own write to a page (copy_to_user into a page of the  *)
(* caller that was mapped for reading) leaves an old frame mapped; no      *)
(* fork, mmap, munmap, exit or access of any process does                  *)
(* (pagefault.c:69-135, fork.c:141, pframe.c:570-601).                     *)
THEOREM CowStale == CowSpec => StaleOnlyByKernelWrite
<1>1. CowInv /\ [CowNext]_cowVars =>
        [\A p \in Process, a \in Area, n \in Page :
           Current(p, a, n) /\ ~Current(p, a, n)' => \E w \in Word, x \in Written : vmmap_write(p, a, n, w, x)]_cowVars
  BY StaleStep
<1>. QED BY <1>1, CowInductive, PTL DEF CowSpec, StaleOnlyByKernelWrite

-----------------------------------------------------------------------------
(***************************************************************************)
(* 5. The refinement of Memory                                             *)
(***************************************************************************)
(* What Cow's state shows: a view of each area, the pages of each segment.  *)
Own(os, o, n) ==
  LET h == Holder(os, o, n)
  IN  IF h = Bottom(os, o) THEN NotResident ELSE os[h].res[n]
(* An area's view, and a segment's page.                                   *)
ViewOf(os, ar) ==
  IF ar = NoArea THEN NoArea
  ELSE [seg |-> Bottom(os, ar.obj), shared |-> ar.shared, own |-> [n \in Page |-> Own(os, ar.obj, n)]]
PageOf(os, o, n) ==
  IF os[o].kind \in {"free", "shadow"} THEN Zeroed
  ELSE IF Resident(os, o, n) THEN os[o].res[n] ELSE Fresh(os, o, n)
ViewsOf(os, vm) == [p \in Process |-> [a \in Area |-> ViewOf(os, vm[p][a])]]
PagesOf(os) == [o \in Object |-> [n \in Page |-> PageOf(os, o, n)]]

(* The refinement mapping of Cow in these terms, before and after a step.  *)
LEMMA BarsAre ==
  /\ viewBar = ViewsOf(objs, vma) /\ storeBar = PagesOf(objs)
  /\ viewBar' = ViewsOf(objs', vma') /\ storeBar' = PagesOf(objs')
BY DEF viewBar, storeBar, ViewsOf, PagesOf, ViewOf, PageOf, Own, OwnPage

(* Of the objects beneath x, only the bottom shadows nothing.              *)
LEMMA BottomOnly ==
  ASSUME NEW os, NEW vm, ObjInv(os, vm), NEW x \in Object, NEW y \in Beneath(os, x)
  PROVE  os[y].mmo_shadowed = NoObj <=> y = Bottom(os, x)
<1>1. /\ \A z \in Object : os[z].mmo_shadowed # NoObj => os[z].mmo_bottom_obj = Bottom(os, os[z].mmo_shadowed)
      /\ Ranked(ShadowOf(os))
      /\ \A z \in Object : os[Bottom(os, z)].mmo_shadowed = NoObj /\ IsBeneath(os, z, Beneath(os, z))
  BY ObjFacts
<1>2. PICK next : next = ShadowOf(os) /\ \A z \in Object : next[z] = os[z].mmo_shadowed
  BY ShadowOfIs
<1> DEFINE T == {z \in Object : \A v \in Beneath(os, z) : os[v].mmo_shadowed = NoObj => v = Bottom(os, z)}
<1>3. ASSUME NEW z \in Object, next[z] = NoObj PROVE z \in T
  <2>1. Beneath(os, z) = {z} /\ Bottom(os, z) = z
    BY <1>1, <1>2, <1>3, BeneathIs DEF Bottom
  <2>. QED BY <2>1
<1>4. ASSUME NEW z \in Object, next[z] # NoObj /\ next[z] \in T PROVE z \in T
  <2>1. Beneath(os, z) = {z} \cup Beneath(os, next[z]) /\ Bottom(os, z) = Bottom(os, next[z])
    BY <1>1, <1>2, <1>4, BeneathIs DEF Bottom
  <2>. QED BY <1>2, <1>4, <2>1
<1>5. Object \subseteq T
  <2> HIDE DEF T
  <2>. QED BY <1>1, <1>2, <1>3, <1>4, ChainInduction
<1>. QED BY <1>1, <1>5

(* A private page held is a shadow object's, and resident.                  *)
LEMMA HolderHas ==
  ASSUME NEW os, NEW vm, ObjInv(os, vm), NEW x \in Object, NEW n, NEW h, h = Holder(os, x, n)
  PROVE  /\ h \in Object /\ h \in Beneath(os, x)
         /\ IF h = Bottom(os, x) THEN os[h].mmo_shadowed = NoObj
            ELSE os[h].mmo_shadowed # NoObj /\ Resident(os, h, n)
<1>1. h \in Beneath(os, x) /\ (os[h].mmo_shadowed = NoObj \/ Resident(os, h, n))
  BY ObjFacts, HolderIn
<1>2. os[h].mmo_shadowed = NoObj <=> h = Bottom(os, x)
  BY <1>1, BottomOnly
<1>3. Beneath(os, x) \subseteq Object
  BY ObjFacts DEF IsBeneath
<1>. QED BY <1>1, <1>2, <1>3

(* Where nothing changes below x, it shows the same pages,                 *)
LEMMA SameView ==
  ASSUME NEW os, NEW vm, ObjInv(os, vm), NEW ns, NEW wm, ObjInv(ns, wm), NEW x \in Object,
         SameBelow(os, ns, x)
  PROVE  Bottom(ns, x) = Bottom(os, x) /\ \A n : Own(ns, x, n) = Own(os, x, n)
<1>1. Ranked(ShadowOf(os)) /\ Ranked(ShadowOf(ns))
  BY ObjFacts
<1>2. Bottom(ns, x) = Bottom(os, x) /\ \A n : Holder(ns, x, n) = Holder(os, x, n)
  BY <1>1, SameBelowFacts
<1>3. ASSUME NEW n PROVE Own(ns, x, n) = Own(os, x, n)
  <2>1. PICK h : h = Holder(os, x, n)
    OBVIOUS
  <2>2. h \in Beneath(os, x)
    BY <2>1, HolderHas
  <2>3. ns[h].res = os[h].res
    BY <2>2 DEF SameBelow, SameObj
  <2>. QED BY <1>2, <2>1, <2>3 DEF Own
<1>. QED BY <1>2, <1>3

(* an area over x is the same view,                                        *)
LEMMA SameViewOf ==
  ASSUME NEW os, NEW vm, ObjInv(os, vm), NEW ns, NEW wm, ObjInv(ns, wm), NEW q \in Process,
         NEW b \in Area,
         wm[q][b] = vm[q][b], vm[q][b] = NoArea \/ SameBelow(os, ns, vm[q][b].obj)
  PROVE  ViewOf(ns, wm[q][b]) = ViewOf(os, vm[q][b])
<1>1. CASE vm[q][b] = NoArea
  BY <1>1 DEF ViewOf
<1>2. CASE vm[q][b] # NoArea
  <2>1. PICK x \in Object : x = vm[q][b].obj
    BY <1>2, AreaObject
  <2>2. Bottom(ns, x) = Bottom(os, x) /\ \A n : Own(ns, x, n) = Own(os, x, n)
    BY <1>2, <2>1, SameView
  <2>. QED BY <1>2, <2>1, <2>2 DEF ViewOf
<1>. QED BY <1>1, <1>2

(* and an object that keeps its frames shows the same.                     *)
LEMMA SamePage ==
  ASSUME NEW os, NEW ns, NEW x, SameObj(os, ns, x)
  PROVE  \A n : PageOf(ns, x, n) = PageOf(os, x, n)
BY DEF SameObj, PageOf, Resident, Fresh

-----------------------------------------------------------------------------
(* v is the view of area b of q.                                           *)
IsView(v, os, vm, q, b) == v = ViewOf(os, vm[q][b])
(* The fields of a view, which is not NoArea.                              *)
LEMMA ViewFields ==
  ASSUME NEW os, NEW vm, ObjInv(os, vm), NEW q \in Process, NEW b \in Area, vm[q][b] # NoArea,
         NEW v, IsView(v, os, vm, q, b)
  PROVE  /\ v # NoArea /\ v.seg = Bottom(os, vm[q][b].obj) /\ v.shared = vm[q][b].shared
         /\ \A n \in Page : v.own[n] = Own(os, vm[q][b].obj, n)
<1>1. PICK o \in Object : o = vm[q][b].obj
  BY AreaObject
<1>2. Bottom(os, o) \in Object /\ ObjsType(os)
  BY ObjFacts
<1>3. ASSUME NEW n \in Page PROVE Own(os, o, n) \in [Word -> Value] \cup {NotResident}
  <2>1. PICK h : h = Holder(os, o, n)
    OBVIOUS
  <2>2. h \in Object
    BY <2>1, HolderHas
  <2>3. os[h].res[n] \in [Word -> Value] \cup {NotResident}
    BY <1>2, <2>2 DEF ObjsType, ObjType
  <2>. QED BY <2>1, <2>3 DEF Own
<1>4. vm[q][b].shared \in BOOLEAN
  BY AreaObject DEF AreaType
<1>5. v = [seg |-> Bottom(os, o), shared |-> vm[q][b].shared, own |-> [n \in Page |-> Own(os, o, n)]]
  BY <1>1 DEF ViewOf, IsView
<1>6. v \in [seg : Object, shared : BOOLEAN, own : [Page -> [Word -> Value] \cup {NotResident}]]
  BY <1>2, <1>3, <1>4, <1>5
<1>7. v # NoArea
  BY <1>6, CowAssumption
<1>. QED BY <1>1, <1>5, <1>7

(* No area, no view.                                                       *)
LEMMA NoView ==
  ASSUME NEW os, NEW vm, NEW q, NEW b, vm[q][b] = NoArea
  PROVE  ViewOf(os, vm[q][b]) = NoArea
BY DEF ViewOf

(* V is a function of a process and an area.                               *)
Grid(V) == V = [q \in Process |-> [b \in Area |-> V[q][b]]]
(* One that differs at one place is the other with that place set.         *)
LEMMA GridSet ==
  ASSUME NEW V, NEW W, Grid(V), Grid(W), NEW p \in Process, NEW a \in Area, NEW v,
         \A q \in Process, b \in Area : W[q][b] = IF q = p /\ b = a THEN v ELSE V[q][b]
  PROVE  W = [V EXCEPT ![p][a] = v]
<1>1. \A q \in Process : V[q] = [b \in Area |-> V[q][b]] /\ W[q] = [b \in Area |-> W[q][b]]
  BY DEF Grid
<1>2. ASSUME NEW q \in Process PROVE W[q] = [V EXCEPT ![p][a] = v][q]
  <2>0. V = [r \in Process |-> V[r]]
    BY DEF Grid
  <2>1. W[q] = [b \in Area |-> IF q = p /\ b = a THEN v ELSE V[q][b]]
    BY <1>1
  <2>2. [V EXCEPT ![p][a] = v][q] = IF q = p THEN [V[p] EXCEPT ![a] = v] ELSE V[q]
    BY <2>0
  <2>. QED BY <1>1, <2>1, <2>2
<1>3. W = [q \in Process |-> W[q]] /\ V = [q \in Process |-> V[q]]
  BY DEF Grid
<1>4. PICK X : X = [V EXCEPT ![p][a] = v]
  OBVIOUS
<1>5. X = [q \in Process |-> X[q]]
  BY <1>3, <1>4
<1>6. \A q \in Process : W[q] = X[q]
  BY <1>2, <1>4
<1>. QED BY <1>3, <1>4, <1>5, <1>6

(* The views are such a function.                                          *)
LEMMA ViewsGrid ==
  ASSUME NEW os, NEW vm, NEW V, V = ViewsOf(os, vm)
  PROVE  Grid(V) /\ \A q \in Process, b \in Area : V[q][b] = ViewOf(os, vm[q][b])
BY DEF Grid, ViewsOf

(* One view changes, to v.                                                 *)
NewView(os, vm, ns, wm, p, a, v) ==
  \A q \in Process, b \in Area : ViewOf(ns, wm[q][b]) = IF q = p /\ b = a THEN v ELSE ViewOf(os, vm[q][b])
Entered(V, p, a, v, W) == W = [V EXCEPT ![p][a] = v]
(* Then the views are the old ones with that one set.                      *)
LEMMA ViewsEntry ==
  ASSUME NEW os, NEW vm, NEW ns, NEW wm, NEW p \in Process, NEW a \in Area, NEW v,
         NewView(os, vm, ns, wm, p, a, v)
  PROVE  Entered(ViewsOf(os, vm), p, a, v, ViewsOf(ns, wm))
<1>0. PICK V : V = ViewsOf(os, vm)
  OBVIOUS
<1>1. PICK W : W = ViewsOf(ns, wm)
  OBVIOUS
<1>2. Grid(V) /\ \A q \in Process, b \in Area : V[q][b] = ViewOf(os, vm[q][b])
  BY <1>0, ViewsGrid
<1>3. Grid(W) /\ \A q \in Process, b \in Area : W[q][b] = ViewOf(ns, wm[q][b])
  BY <1>1, ViewsGrid
<1>4. \A q \in Process, b \in Area : W[q][b] = IF q = p /\ b = a THEN v ELSE V[q][b]
  BY <1>2, <1>3 DEF NewView
<1>5. W = [V EXCEPT ![p][a] = v]
  BY <1>2, <1>3, <1>4, GridSet
<1>. QED BY <1>0, <1>1, <1>5 DEF Entered

(* A segment is viewed when it is the bottom of an area's chain.           *)
LEMMA SegViewed ==
  ASSUME NEW os, NEW vm, ObjInv(os, vm), NEW s
  PROVE  Mem!Viewed(ViewsOf(os, vm), s) <=>
         \E q \in Process, b \in Area : vm[q][b] # NoArea /\ Bottom(os, vm[q][b].obj) = s
<1>1. \A q \in Process, b \in Area : ViewsOf(os, vm)[q][b] = ViewOf(os, vm[q][b])
  BY DEF ViewsOf
<1>2. \A q \in Process, b \in Area : vm[q][b] # NoArea =>
        ViewOf(os, vm[q][b]) # NoArea /\ ViewOf(os, vm[q][b]).seg = Bottom(os, vm[q][b].obj)
  <2> SUFFICES ASSUME NEW q \in Process, NEW b \in Area, vm[q][b] # NoArea
               PROVE ViewOf(os, vm[q][b]) # NoArea /\ ViewOf(os, vm[q][b]).seg = Bottom(os, vm[q][b].obj)
    OBVIOUS
  <2>1. PICK v : v = ViewOf(os, vm[q][b]) /\ IsView(v, os, vm, q, b)
    BY DEF IsView
  <2>2. v # NoArea /\ v.seg = Bottom(os, vm[q][b].obj)
    BY <2>1, ViewFields
  <2>. QED BY <2>1, <2>2
<1>3. \A q \in Process, b \in Area : vm[q][b] = NoArea => ViewOf(os, vm[q][b]) = NoArea
  BY NoView
<1>. QED BY <1>1, <1>2, <1>3 DEF Mem!Viewed

(* A segment that is not viewed, nor the file, shows zeros: it is free, or *)
(* a shadow object.                                                        *)
LEMMA NotViewedPage ==
  ASSUME NEW os, NEW vm, ObjInv(os, vm), NEW s \in Object, s # File, ~Mem!Viewed(ViewsOf(os, vm), s)
  PROVE  \A n : PageOf(os, s, n) = Zeroed
<1>1. os[s].kind \in {"free", "shadow"}
  <2> SUFFICES ASSUME os[s].kind \notin {"free", "shadow"} PROVE FALSE
    OBVIOUS
  <2>1. ReachedBy(os, vm, s)
    BY AllReached
  <2>2. PICK q \in Process, b \in Area : vm[q][b] # NoArea /\ s \in Beneath(os, vm[q][b].obj)
    BY <2>1 DEF ReachedBy
  <2>3. PICK x \in Object : x = vm[q][b].obj
    BY <2>2, AreaObject
  <2>4. os[s].mmo_shadowed = NoObj
    BY DEF ObjInv, Shape
  <2>5. s = Bottom(os, x)
    BY <2>2, <2>3, <2>4, BottomOnly
  <2>. QED BY <2>2, <2>3, <2>5, SegViewed
<1>. QED BY <1>1 DEF PageOf

(* If the viewed segments and the file show the same pages, a step has     *)
(* forgotten the others and done no more.                                  *)
LEMMA ForgetIs ==
  ASSUME NEW os, NEW ns, NEW wm, ObjInv(ns, wm), NEW vw, vw = ViewsOf(ns, wm),
         \A s \in Object : s = File \/ Mem!Viewed(vw, s) => \A n \in Page : PageOf(ns, s, n) = PageOf(os, s, n)
  PROVE  PagesOf(ns) = Mem!Forget(vw, PagesOf(os))
<1>1. Mem!Zeros = [n \in Page |-> Zeroed]
  BY DEF Mem!Zeros, Zeroed
<1>2. Mem!Forget(vw, PagesOf(os)) =
        [s \in Object |-> IF s = File \/ Mem!Viewed(vw, s) THEN PagesOf(os)[s] ELSE Mem!Zeros]
  BY DEF Mem!Forget
<1>3. ASSUME NEW s \in Object
      PROVE  [n \in Page |-> PageOf(ns, s, n)] = IF s = File \/ Mem!Viewed(vw, s) THEN PagesOf(os)[s] ELSE Mem!Zeros
  <2>1. CASE s = File \/ Mem!Viewed(vw, s)
    <3>1. \A n \in Page : PageOf(ns, s, n) = PageOf(os, s, n)
      BY <2>1
    <3>2. PagesOf(os)[s] = [n \in Page |-> PageOf(os, s, n)]
      BY DEF PagesOf
    <3>. QED BY <2>1, <3>1, <3>2
  <2>2. CASE ~(s = File \/ Mem!Viewed(vw, s))
    <3>1. \A n : PageOf(ns, s, n) = Zeroed
      BY <2>2, NotViewedPage
    <3>. QED BY <1>1, <2>2, <3>1
  <2>. QED BY <2>1, <2>2
<1>. QED BY <1>2, <1>3 DEF PagesOf
-----------------------------------------------------------------------------
(* A put removes one view, and forgets a segment viewed no more.           *)
LEMMA RemoveShown ==
  ASSUME NEW os, NEW vm, ObjInv(os, vm), NEW p \in Process, NEW a \in Area, vm[p][a] # NoArea,
         NEW wm, Unmapped(vm, p, a, wm), NEW ns, ns = Put(os, vm[p][a].obj)
  PROVE  /\ Entered(ViewsOf(os, vm), p, a, NoArea, ViewsOf(ns, wm))
         /\ PagesOf(ns) = Mem!Forget(ViewsOf(ns, wm), PagesOf(os))
<1>1. ObjInv(ns, wm) /\ Shrunk(os, ns)
  BY PutKeeps
<1>2. wm[p][a] = NoArea /\ \A q \in Process, b \in Area : <<q, b>> # <<p, a>> => wm[q][b] = vm[q][b]
  BY UsersWithout DEF ObjInv
<1>3. \A q \in Process, b \in Area : wm[q][b] # NoArea => SameBelow(os, ns, wm[q][b].obj)
  BY <1>1, PutSame
<1>4. ASSUME NEW q \in Process, NEW b \in Area, <<q, b>> # <<p, a>>
      PROVE  ViewOf(ns, wm[q][b]) = ViewOf(os, vm[q][b])
  BY <1>1, <1>2, <1>3, <1>4, SameViewOf
<1>5. ViewOf(ns, wm[p][a]) = NoArea
  BY <1>2, NoView
<1>6. Entered(ViewsOf(os, vm), p, a, NoArea, ViewsOf(ns, wm))
  <2>1. NewView(os, vm, ns, wm, p, a, NoArea)
    BY <1>4, <1>5 DEF NewView
  <2>. QED BY <2>1, ViewsEntry
<1>7. PICK vw : vw = ViewsOf(ns, wm)
  OBVIOUS
<1>8. ASSUME NEW s \in Object, s = File \/ Mem!Viewed(vw, s) PROVE SameObj(os, ns, s)
  <2>1. CASE s = File
    <3>1. ns[s].kind = "file"
      BY <1>1, <2>1 DEF ObjInv, Shape
    <3>2. ns[s] # FreeObj
      BY <3>1, FreeObjIs
    <3>. QED BY <1>1, <3>2 DEF Shrunk, SameObj
  <2>2. CASE Mem!Viewed(vw, s)
    <3>1. PICK q \in Process, b \in Area : wm[q][b] # NoArea /\ Bottom(ns, wm[q][b].obj) = s
      BY <1>1, <1>7, <2>2, SegViewed
    <3>2. PICK x \in Object : x = wm[q][b].obj
      BY <1>1, <3>1, AreaObject
    <3>3. SameBelow(os, ns, x)
      BY <1>3, <3>1, <3>2
    <3>4. Ranked(ShadowOf(os)) /\ Ranked(ShadowOf(ns)) /\ s \in Beneath(ns, x)
      BY <1>1, <3>1, <3>2, ObjFacts
    <3>5. Beneath(ns, x) = Beneath(os, x)
      BY <3>3, <3>4, SameBelowFacts
    <3>. QED BY <3>3, <3>4, <3>5 DEF SameBelow
  <2>. QED BY <1>8, <2>1, <2>2
<1>9. PagesOf(ns) = Mem!Forget(vw, PagesOf(os))
  <2>1. \A s \in Object : s = File \/ Mem!Viewed(vw, s) => \A n \in Page : PageOf(ns, s, n) = PageOf(os, s, n)
    BY <1>8, SamePage
  <2>. QED BY <1>1, <1>7, <2>1, ForgetIs
<1>. QED BY <1>6, <1>7, <1>9

-----------------------------------------------------------------------------
(* A new view of segment o, without pages of its own.                      *)
IsNewView(v, o, shared) == v = [seg |-> o, shared |-> shared, own |-> Mem!Blank]

(* A new mapping is such a view, and its segment is one that nobody views, *)
(* or the file.                                                            *)
LEMMA MapShown ==
  ASSUME NEW os, NEW vm, NEW p, NEW a, NEW file, NEW shared, NEW o, NEW s,
         Mapping(os, vm, p, a, file, shared, o, s),
         NEW wm, MapsAt(vm, p, a, s, shared, wm), NEW ns, ns = MapObjects(os, file, shared, o, s),
         NEW v, IsNewView(v, o, shared)
  PROVE  /\ Entered(ViewsOf(os, vm), p, a, v, ViewsOf(ns, wm))
         /\ PagesOf(ns) = Mem!Forget(ViewsOf(ns, wm), PagesOf(os))
<1>1. /\ ObjInv(os, vm) /\ p \in Process /\ a \in Area /\ vm[p][a] = NoArea
      /\ file \in BOOLEAN /\ shared \in BOOLEAN
      /\ o \in Object /\ (IF file THEN o = File ELSE os[o].kind = "free")
      /\ s \in Object /\ (IF shared THEN s = o ELSE s # o /\ os[s].kind = "free")
  BY DEF Mapping
<1>2. /\ ObjInv(ns, wm)
      /\ \A x \in Object : x # o /\ x # s => ns[x] = os[x]
      /\ ns[o].res = os[o].res /\ ns[o].kind = (IF file THEN "file" ELSE "anon") /\ ns[o].mmo_shadowed = NoObj
      /\ ~shared => ns[s] = Mmobj("shadow", 1, o, o)
  BY MapKeeps
<1>3. UserAdded(vm, p, a, s, shared, wm)
  <2>1. VmaType(vm)
    BY <1>1 DEF ObjInv
  <2>. QED BY <1>1, <2>1, UsersWith
<1>4. /\ wm[p][a] # NoArea /\ wm[p][a].obj = s /\ wm[p][a].shared = shared
      /\ \A q \in Process, b \in Area : <<q, b>> # <<p, a>> => wm[q][b] = vm[q][b]
  BY <1>3 DEF UserAdded
<1>5. ASSUME NEW q \in Process, NEW b \in Area, <<q, b>> # <<p, a>>, vm[q][b] # NoArea
      PROVE  SameBelow(os, ns, vm[q][b].obj)
  BY <1>1, <1>5, MapSame, AreaObject
<1>6. Ranked(ShadowOf(ns))
  BY <1>2, ObjFacts
<1>7. Bottom(ns, s) = o /\ \A n : Holder(ns, s, n) \in {s, o} /\ (n \in Page => Holder(ns, s, n) = o)
  <2>1. \A n : Holder(ns, o, n) = o
    BY <1>1, <1>2, <1>6, HolderIs
  <2>2. CASE shared
    BY <1>1, <1>2, <2>1, <2>2 DEF Bottom
  <2>3. CASE ~shared
    <3>1. PICK f : f = ns[s]
      OBVIOUS
    <3>2. f = Mmobj("shadow", 1, o, o)
      BY <1>2, <2>3, <3>1
    <3>3. f.mmo_shadowed = o /\ f.mmo_bottom_obj = o /\ \A n \in Page : f.res[n] = NotResident
      BY <3>2 DEF Mmobj, NothingResident
    <3>4. \A n \in Page : ~Resident(ns, s, n)
      BY <3>1, <3>3 DEF Resident
    <3>5. o # NoObj
      BY <1>1, CowAssumption
    <3>6. \A n : Holder(ns, s, n) = IF Resident(ns, s, n) THEN s ELSE Holder(ns, o, n)
      BY <1>1, <1>6, <3>1, <3>3, <3>5, HolderIs
    <3>. QED BY <2>1, <3>1, <3>3, <3>4, <3>5, <3>6 DEF Bottom
  <2>. QED BY <2>2, <2>3
<1>8. ViewOf(ns, wm[p][a]) = v
  <2>1. \A n \in Page : Own(ns, s, n) = NotResident
    BY <1>7 DEF Own
  <2>. QED BY <1>4, <1>7, <2>1 DEF ViewOf, IsNewView, Mem!Blank
<1>9. ASSUME NEW q \in Process, NEW b \in Area, <<q, b>> # <<p, a>>
      PROVE  ViewOf(ns, wm[q][b]) = ViewOf(os, vm[q][b])
  BY <1>1, <1>2, <1>4, <1>5, <1>9, SameViewOf
<1>10. Entered(ViewsOf(os, vm), p, a, v, ViewsOf(ns, wm))
  <2>1. NewView(os, vm, ns, wm, p, a, v)
    BY <1>8, <1>9 DEF NewView
  <2>. QED BY <1>1, <2>1, ViewsEntry
<1>11. PICK vw : vw = ViewsOf(ns, wm)
  OBVIOUS
<1>12. \A n \in Page : PageOf(ns, o, n) = PageOf(os, o, n)
  <2>1. CASE file
    BY <1>1, <1>2, <2>1 DEF PageOf, Resident, Fresh, ObjInv, Shape
  <2>2. CASE ~file
    <3>1. os[o] = FreeObj /\ os[o].kind = "free"
      BY <1>1, <2>2 DEF ObjInv, Shape
    <3>2. \A n \in Page : ns[o].res[n] = NotResident
      BY <1>2, <3>1, FreeObjIs
    <3>. QED BY <1>2, <2>2, <3>1, <3>2 DEF PageOf, Resident, Fresh
  <2>. QED BY <2>1, <2>2
<1>13. ASSUME NEW x \in Object, x # o, x = File \/ Mem!Viewed(vw, x) PROVE SameObj(os, ns, x)
  <2>1. CASE x = File
    <3>1. x # s
      BY <1>1, <1>13, <2>1 DEF ObjInv, Shape
    <3>. QED BY <1>2, <1>13, <3>1 DEF SameObj
  <2>2. CASE Mem!Viewed(vw, x)
    <3>1. PICK q \in Process, b \in Area : wm[q][b] # NoArea /\ Bottom(ns, wm[q][b].obj) = x
      BY <1>2, <1>11, <2>2, SegViewed
    <3>2. <<q, b>> # <<p, a>>
      BY <1>4, <1>7, <1>13, <3>1
    <3>3. PICK y \in Object : y = wm[q][b].obj
      BY <1>2, <3>1, AreaObject
    <3>4. SameBelow(os, ns, y)
      BY <1>4, <1>5, <3>1, <3>2, <3>3
    <3>5. Ranked(ShadowOf(os)) /\ Ranked(ShadowOf(ns)) /\ x \in Beneath(ns, y)
      BY <1>1, <1>2, <3>1, <3>3, ObjFacts
    <3>6. Beneath(ns, y) = Beneath(os, y)
      BY <3>4, <3>5, SameBelowFacts
    <3>. QED BY <3>4, <3>5, <3>6 DEF SameBelow
  <2>. QED BY <1>13, <2>1, <2>2
<1>14. \A x \in Object : x = File \/ Mem!Viewed(vw, x) => \A n \in Page : PageOf(ns, x, n) = PageOf(os, x, n)
  BY <1>12, <1>13, SamePage
<1>15. PagesOf(ns) = Mem!Forget(vw, PagesOf(os))
  BY <1>2, <1>11, <1>14, ForgetIs
<1>. QED BY <1>10, <1>11, <1>15
-----------------------------------------------------------------------------
(* Setting one place twice is setting it to the second.                    *)
LEMMA EnteredTwice ==
  ASSUME NEW V, Grid(V), NEW W, Grid(W), NEW X, Grid(X), NEW p \in Process, NEW a \in Area, NEW u,
         NEW v,
         Entered(V, p, a, u, W), Entered(W, p, a, v, X)
  PROVE  Entered(V, p, a, v, X)
<1>1. W = [V EXCEPT ![p][a] = u] /\ X = [W EXCEPT ![p][a] = v]
  BY DEF Entered
<1>2. /\ V = [q \in Process |-> V[q]] /\ \A q \in Process : V[q] = [b \in Area |-> V[q][b]]
      /\ W = [q \in Process |-> W[q]] /\ \A q \in Process : W[q] = [b \in Area |-> W[q][b]]
  BY DEF Grid
<1>3. \A q \in Process, b \in Area : X[q][b] = IF q = p /\ b = a THEN v ELSE V[q][b]
  BY <1>1, <1>2
<1>4. X = [V EXCEPT ![p][a] = v]
  BY <1>3, GridSet
<1>. QED BY <1>4 DEF Entered

(* vmmap_map is a step Map of the memory.                                  *)
LEMMA MapImplements ==
  ASSUME CowInv, NEW p \in Process, NEW a \in Area, NEW file \in BOOLEAN, NEW shared \in BOOLEAN,
         vmmap_map(p, a, file, shared)
  PROVE  \E o \in Object : Mem!Map(p, a, o, shared)
<1>1. ObjInv(objs, vma) /\ VmaType(vma)
  BY DEF CowInv, ObjInv
<1>2. PICK os : os = IF vma[p][a] = NoArea THEN objs ELSE Put(objs, vma[p][a].obj)
  OBVIOUS
<1>3. PICK vm : Unmapped(vma, p, a, vm)
  BY DEF Unmapped
<1>4. vm[p][a] = NoArea /\ VmaType(vm) /\ \A q \in Process, b \in Area : <<q, b>> # <<p, a>> => vm[q][b] = vma[q][b]
  BY <1>1, <1>3, UsersWithout
<1>5. PICK V0 : V0 = ViewsOf(objs, vma) /\ Grid(V0)
  BY ViewsGrid
<1>6. PICK V1 : V1 = ViewsOf(os, vm) /\ Grid(V1)
  BY ViewsGrid
<1>7. ObjInv(os, vm) /\ Entered(V0, p, a, NoArea, V1) /\ PagesOf(os) = Mem!Forget(V1, PagesOf(objs))
  <2>1. CASE vma[p][a] = NoArea
    <3>1. os = objs /\ vm = vma
      BY <1>1, <1>2, <1>3, <2>1 DEF Unmapped, VmaType
    <3>2. V1 = V0 /\ V0[p][a] = NoArea
      BY <1>5, <1>6, <2>1, <3>1, ViewsGrid, NoView
    <3>3. Entered(V0, p, a, NoArea, V1)
      <4>1. \A q \in Process, b \in Area : V1[q][b] = IF q = p /\ b = a THEN NoArea ELSE V0[q][b]
        BY <3>2
      <4>2. V1 = [V0 EXCEPT ![p][a] = NoArea]
        BY <1>5, <1>6, <4>1, GridSet
      <4>. QED BY <4>2 DEF Entered
    <3>4. PagesOf(os) = Mem!Forget(V1, PagesOf(objs))
      BY <1>1, <1>6, <3>1, ForgetIs
    <3>. QED BY <1>1, <3>1, <3>3, <3>4
  <2>2. CASE vma[p][a] # NoArea
    <3>1. os = Put(objs, vma[p][a].obj)
      BY <1>2, <2>2
    <3>. QED BY <1>1, <1>3, <1>5, <1>6, <2>2, <3>1, PutKeeps, RemoveShown
  <2>. QED BY <2>1, <2>2
<1>8. PICK new : new = (IF file THEN {} ELSE {"anon"}) \cup (IF shared THEN {} ELSE {"shadow"})
  OBVIOUS
<1>9. PICK o : o = (IF file THEN File ELSE slab_obj_alloc(os, new)["anon"])
  OBVIOUS
<1>10. PICK s : s = (IF shared THEN o ELSE slab_obj_alloc(os, new)["shadow"])
  OBVIOUS
<1>11. /\ CanAlloc(os, new) /\ objs' = MapObjects(os, file, shared, o, s)
       /\ vma' = [vma EXCEPT ![p][a] = [obj |-> s, shared |-> shared]]
  BY <1>2, <1>8, <1>9, <1>10 DEF vmmap_map
<1>12. Mapping(os, vm, p, a, file, shared, o, s)
  <2>1. Allocates(os, file, shared, new, o, s)
    BY ONLY <1>8, <1>9, <1>10, <1>11 DEF Allocates
  <2>2. ObjInv(os, vm) /\ vm[p][a] = NoArea
    BY ONLY <1>4, <1>7
  <2>. QED BY ONLY <2>1, <2>2, MapAlloc, p \in Process, a \in Area, file \in BOOLEAN, shared \in BOOLEAN
<1>13. MapsAt(vm, p, a, s, shared, vma')
  <2>1. vma' = [vm EXCEPT ![p][a] = [obj |-> s, shared |-> shared]]
    BY <1>1, <1>3, <1>11 DEF VmaType, Unmapped
  <2>. QED BY <2>1 DEF MapsAt
<1>14. PICK ns : ns = objs'
  OBVIOUS
<1>15. PICK v : IsNewView(v, o, shared)
  BY DEF IsNewView
<1>16. PICK V2 : V2 = ViewsOf(ns, vma') /\ Grid(V2)
  BY ViewsGrid
<1>17. Entered(V1, p, a, v, V2) /\ PagesOf(ns) = Mem!Forget(V2, PagesOf(os))
  <2>1. ns = MapObjects(os, file, shared, o, s)
    BY <1>11, <1>14
  <2>. QED BY <1>6, <1>12, <1>13, <1>15, <1>16, <2>1, MapShown
<1>18. Entered(V0, p, a, v, V2)
  BY <1>5, <1>6, <1>7, <1>16, <1>17, EnteredTwice
<1>19. viewBar = V0 /\ viewBar' = V2 /\ storeBar = PagesOf(objs) /\ storeBar' = PagesOf(ns)
  BY <1>5, <1>14, <1>16, BarsAre
<1>20. o = File \/ Mem!Unviewed(o, p, a)
  <2> SUFFICES ASSUME o # File, NEW q \in Process, NEW b \in Area, V0[q][b] # NoArea,
                      V0[q][b].seg = o, <<q, b>> # <<p, a>>
               PROVE FALSE
    BY <1>19 DEF Mem!Unviewed
  <2>1. V0[q][b] = ViewOf(objs, vma[q][b]) /\ V1[q][b] = ViewOf(os, vm[q][b])
    BY <1>5, <1>6, ViewsGrid
  <2>2. V1[q][b] = V0[q][b]
    BY <1>5, <1>7 DEF Entered, Grid
  <2>3. vm[q][b] # NoArea
    BY <2>1, <2>2, NoView
  <2>4. IsView(V1[q][b], os, vm, q, b)
    BY <2>1 DEF IsView
  <2>5. V1[q][b].seg = Bottom(os, vm[q][b].obj)
    BY <1>7, <2>3, <2>4, ViewFields
  <2>6. PICK x \in Object : x = vm[q][b].obj /\ os[x].kind # "free"
    BY <1>7, <2>3, AreaObject
  <2>7. Bottom(os, x) \in Beneath(os, x)
    BY <1>7, ObjFacts
  <2>8. os[Bottom(os, x)].kind # "free"
    BY <1>7, <2>6, <2>7, BeneathNotFree
  <2>. QED BY <1>12, <2>2, <2>5, <2>6, <2>8 DEF Mapping
<1>21. o \in Object
  BY <1>12 DEF Mapping
<1>22. Mem!Map(p, a, o, shared)
  <2>1. V2 = [V0 EXCEPT ![p][a] = [seg |-> o, shared |-> shared, own |-> Mem!Blank]]
    BY <1>15, <1>18 DEF Entered, IsNewView
  <2>2. V1 = [V0 EXCEPT ![p][a] = NoArea]
    BY <1>7 DEF Entered
  <2>3. PagesOf(ns) = Mem!Forget(V2, Mem!Forget([V0 EXCEPT ![p][a] = NoArea], PagesOf(objs)))
    BY <1>7, <1>17, <2>2
  <2>. QED BY <1>19, <1>20, <2>1, <2>3 DEF Mem!Map
<1>. QED BY <1>21, <1>22

(* vmmap_remove is a step Unmap.                                           *)
LEMMA RemoveImplements ==
  ASSUME CowInv, NEW p \in Process, NEW a \in Area, vma[p][a] # NoArea,
         objs' = Put(objs, vma[p][a].obj),
         vma' = [vma EXCEPT ![p][a] = NoArea]
  PROVE  Mem!Unmap(p, a)
<1>1. ObjInv(objs, vma)
  BY DEF CowInv
<1>2. PICK wm : wm = vma' /\ Unmapped(vma, p, a, wm)
  BY DEF Unmapped
<1>3. PICK ns : ns = objs' /\ ns = Put(objs, vma[p][a].obj)
  OBVIOUS
<1>4. PICK V0 : V0 = ViewsOf(objs, vma) /\ Grid(V0)
  BY ViewsGrid
<1>5. PICK V1 : V1 = ViewsOf(ns, wm) /\ Grid(V1)
  BY ViewsGrid
<1>6. Entered(V0, p, a, NoArea, V1) /\ PagesOf(ns) = Mem!Forget(V1, PagesOf(objs))
  BY <1>1, <1>2, <1>3, <1>4, <1>5, RemoveShown
<1>7. viewBar = V0 /\ viewBar' = V1 /\ storeBar = PagesOf(objs) /\ storeBar' = PagesOf(ns)
  BY <1>2, <1>3, <1>4, <1>5, BarsAre
<1>8. V0[p][a] # NoArea
  <2>1. V0[p][a] = ViewOf(objs, vma[p][a])
    BY <1>4, ViewsGrid
  <2>2. IsView(V0[p][a], objs, vma, p, a)
    BY <2>1 DEF IsView
  <2>. QED BY <1>1, <2>2, ViewFields
<1>. QED BY <1>6, <1>7, <1>8 DEF Mem!Unmap, Entered

-----------------------------------------------------------------------------
(* The views of c are those of p.                                          *)
CopiedTo(V, p, c, W) == W = [V EXCEPT ![c] = V[p]]
(* It is so when they agree at every area.                                 *)
LEMMA GridCopy ==
  ASSUME NEW V, Grid(V), NEW W, Grid(W), NEW p \in Process, NEW c \in Process,
         \A q \in Process, b \in Area : W[q][b] = IF q = c THEN V[p][b] ELSE V[q][b]
  PROVE  CopiedTo(V, p, c, W)
<1>1. /\ V = [q \in Process |-> V[q]] /\ \A q \in Process : V[q] = [b \in Area |-> V[q][b]]
      /\ W = [q \in Process |-> W[q]] /\ \A q \in Process : W[q] = [b \in Area |-> W[q][b]]
  BY DEF Grid
<1>2. ASSUME NEW q \in Process PROVE W[q] = IF q = c THEN V[p] ELSE V[q]
  <2>1. CASE q = c
    BY <1>1, <2>1
  <2>2. CASE q # c
    <3>1. W[q] = [b \in Area |-> V[q][b]]
      BY <1>1, <2>2
    <3>. QED BY <1>1, <2>2, <3>1
  <2>. QED BY <2>1, <2>2
<1>3. PICK X : X = [V EXCEPT ![c] = V[p]]
  OBVIOUS
<1>4. X = [q \in Process |-> X[q]] /\ \A q \in Process : X[q] = IF q = c THEN V[p] ELSE V[q]
  BY <1>1, <1>3
<1>. QED BY <1>1, <1>2, <1>3, <1>4 DEF CopiedTo

(* After do_fork the areas of parent and child are the view the parent's   *)
(* area was.                                                               *)
LEMMA ForkedView ==
  ASSUME NEW p, NEW c, NEW new, NEW ns, NEW wm, Forking(p, c, new, ns, wm), NEW q \in {p, c},
         NEW a \in Area
  PROVE  ViewOf(ns, wm[q][a]) = ViewOf(objs, vma[p][a])
<1>1. ForkedAreas(p, c, new, wm) /\ ForkedObjs(p, c, new, ns) /\ ObjInv(ns, wm)
  BY ForkAreasAre, ForkObjsAre, ForkKeeps
<1>2. ObjInv(objs, vma) /\ p \in Process
  BY DEF Forking
<1>3. CASE vma[p][a] = NoArea
  <2>1. a \notin Private(p)
    BY <1>3 DEF Private
  <2>2. wm[q][a] = NoArea
    BY <1>1, <1>3, <2>1 DEF ForkedAreas
  <2>. QED BY <1>3, <2>2, NoView
<1>4. CASE vma[p][a] # NoArea
  <2>1. PICK x \in Object : x = vma[p][a].obj /\ objs[x].kind # "free"
    BY <1>2, <1>4, AreaObject
  <2>2. SameBelow(objs, ns, x)
    BY <2>1, ForkSame
  <2>3. Bottom(ns, x) = Bottom(objs, x) /\ \A n : Own(ns, x, n) = Own(objs, x, n)
    BY <1>1, <1>2, <2>2, SameView
  <2>4. CASE a \notin Private(p)
    <3>1. wm[q][a] = vma[p][a]
      BY <1>1, <2>4 DEF ForkedAreas
    <3>. QED BY <1>4, <2>1, <2>3, <3>1 DEF ViewOf
  <2>5. CASE a \in Private(p)
    <3>1. PICK y \in Object : y = new[<<q, a>>]
      BY <1>1, <2>5 DEF ForkedAreas
    <3>2. wm[q][a] # NoArea /\ wm[q][a].obj = y /\ wm[q][a].shared = vma[p][a].shared
      <4>1. vma[p][a].shared = FALSE
        BY <1>1, <2>5 DEF ForkedAreas
      <4>2. \A r \in {p, c}, b \in Private(p) : wm[r][b] # NoArea /\ wm[r][b].obj = new[<<r, b>>] /\ wm[r][b].shared = FALSE
        BY <1>1 DEF ForkedAreas
      <4>. QED BY <2>5, <3>1, <4>1, <4>2
    <3>3. PICK f : f = ns[y]
      OBVIOUS
    <3>4. f = Mmobj("shadow", 1, x, Bottom(objs, x))
      BY <1>1, <2>1, <2>5, <3>1, <3>3 DEF ForkedObjs
    <3>5. f.mmo_shadowed = x /\ f.mmo_bottom_obj = Bottom(objs, x) /\ \A n \in Page : f.res[n] = NotResident
      BY <3>4 DEF Mmobj, NothingResident
    <3>6. x # NoObj /\ \A n \in Page : ~Resident(ns, y, n)
      BY <3>3, <3>5, CowAssumption DEF Resident
    <3>7. Ranked(ShadowOf(ns))
      BY <1>1, ObjFacts
    <3>8. \A n \in Page : Holder(ns, y, n) = Holder(ns, x, n)
      BY <3>3, <3>5, <3>6, <3>7, HolderIs
    <3>9. Bottom(ns, y) = Bottom(ns, x)
      BY <2>3, <3>3, <3>5, <3>6 DEF Bottom
    <3>10. \A n \in Page : Own(ns, y, n) = Own(objs, x, n)
      BY <2>3, <3>8, <3>9 DEF Own
    <3>. QED BY <1>4, <2>1, <2>3, <3>2, <3>9, <3>10 DEF ViewOf
  <2>. QED BY <2>4, <2>5
<1>. QED BY <1>3, <1>4

(* do_fork is a step Fork: the child gets its parent's memory, and nothing *)
(* else changes for anyone (fork.c:96-141).                                *)
LEMMA ForkImplements ==
  ASSUME CowInv, NEW p \in Process, NEW c \in Process, do_fork(p, c)
  PROVE  Mem!Fork(p, c)
<1>1. PICK ns : ns = objs'
  OBVIOUS
<1>2. PICK new : Forking(p, c, new, ns, vma')
  BY <1>1, ForkIs
<1>3. ForkedAreas(p, c, new, vma') /\ ForkedObjs(p, c, new, ns) /\ ObjInv(ns, vma')
  BY <1>2, ForkAreasAre, ForkObjsAre, ForkKeeps
<1>4. ObjInv(objs, vma) /\ p # c
  BY <1>2 DEF Forking
<1>5. PICK V0 : V0 = ViewsOf(objs, vma) /\ Grid(V0)
  BY ViewsGrid
<1>6. PICK V1 : V1 = ViewsOf(ns, vma') /\ Grid(V1)
  BY ViewsGrid
<1>7. \A q \in Process, b \in Area : V0[q][b] = ViewOf(objs, vma[q][b]) /\ V1[q][b] = ViewOf(ns, vma'[q][b])
  BY <1>5, <1>6, ViewsGrid
<1>8. ASSUME NEW q \in Process, NEW b \in Area PROVE V1[q][b] = IF q = c THEN V0[p][b] ELSE V0[q][b]
  <2>1. CASE q \in {p, c}
    <3>1. V1[q][b] = V0[p][b]
      BY <1>2, <1>7, <2>1, ForkedView
    <3>. QED BY <1>4, <2>1, <3>1
  <2>2. CASE q \notin {p, c}
    <3>1. vma'[q][b] = vma[q][b]
      BY <1>3, <2>2 DEF ForkedAreas
    <3>2. vma[q][b] = NoArea \/ SameBelow(objs, ns, vma[q][b].obj)
      BY <1>2, <1>4, AreaObject, ForkSame
    <3>3. ViewOf(ns, vma'[q][b]) = ViewOf(objs, vma[q][b])
      BY <1>3, <1>4, <3>1, <3>2, SameViewOf
    <3>. QED BY <1>7, <2>2, <3>3
  <2>. QED BY <2>1, <2>2
<1>9. CopiedTo(V0, p, c, V1)
  BY <1>5, <1>6, <1>8, GridCopy
<1>10. \A b \in Area : V0[c][b] = NoArea
  <2>1. \A b \in Area : vma[c][b] = NoArea
    BY <1>3 DEF ForkedAreas
  <2>. QED BY <1>7, <2>1, NoView
<1>11. ASSUME NEW x \in Object, NEW n \in Page PROVE PageOf(ns, x, n) = PageOf(objs, x, n)
  <2>1. CASE IsNew(p, c, new, x)
    <3>1. PICK q \in {p, c}, a \in Private(p) : x = new[<<q, a>>]
      BY <2>1 DEF IsNew
    <3>2. objs[x].kind = "free"
      BY <1>3, <3>1 DEF ForkedAreas
    <3>3. ns[x].kind = "shadow"
      <4>1. PICK f : f = ns[x]
        OBVIOUS
      <4>2. f = Mmobj("shadow", 1, vma[p][a].obj, Bottom(objs, vma[p][a].obj))
        BY <1>3, <3>1, <4>1 DEF ForkedObjs
      <4>. QED BY <4>1, <4>2 DEF Mmobj
    <3>. QED BY <3>2, <3>3 DEF PageOf
  <2>2. CASE ~IsNew(p, c, new, x)
    <3>1. SameObj(objs, ns, x)
      BY <1>3, <2>2 DEF ForkedObjs, SameObj
    <3>. QED BY <3>1, SamePage
  <2>. QED BY <2>1, <2>2
<1>12. PagesOf(ns) = PagesOf(objs)
  BY <1>11 DEF PagesOf
<1>13. viewBar = V0 /\ viewBar' = V1 /\ storeBar = PagesOf(objs) /\ storeBar' = PagesOf(ns)
  BY <1>1, <1>5, <1>6, BarsAre
<1>. QED BY <1>4, <1>9, <1>10, <1>12, <1>13 DEF Mem!Fork, CopiedTo

-----------------------------------------------------------------------------
(* Frames other than page n of o keep what they show.                       *)
Changed(os, ns, n, o) ==
  /\ Grown(os, ns, n, o)
  /\ \A y \in Object, m \in Page : Resident(os, y, m) /\ (y # o \/ m # n) => ns[y].res[m] = os[y].res[m]
  /\ \A y \in Object, m \in Page : ~Resident(os, y, m) /\ Resident(ns, y, m) /\ y # o => ns[y].res[m] = Fresh(os, y, m)

(* Lookups change no other frame.                                          *)
LEMMA FilledChanged ==
  ASSUME NEW os, NEW vm, ObjInv(os, vm), NEW ns, ObjInv(ns, vm), NEW n \in Page, NEW o,
         Filled(os, ns, n, o)
  PROVE  Changed(os, ns, n, o)
<1>1. Grown(os, ns, n, o)
  BY FilledGrown
<1>. QED BY <1>1 DEF Filled, Changed

(* Nor does a step that changes nothing.                                   *)
LEMMA SameChanged ==
  ASSUME NEW os, NEW n, NEW o
  PROVE  Changed(os, os, n, o)
BY DEF Changed, Grown, GraphSame

(* Place w of page n of o is written.                                      *)
StoredAt(ms, ns, o, n, w, x) == ns[o].res[n] = [ms[o].res[n] EXCEPT ![w] = x]
(* A store to a resident page of o changes that page and no other.         *)
LEMMA StoreChanged ==
  ASSUME NEW os, NEW vm, ObjInv(os, vm), NEW ms, ObjInv(ms, vm), NEW o \in Object, NEW n \in Page,
         Changed(os, ms, n, o), Resident(ms, o, n), NEW w, NEW x \in Value, NEW ns, ns = Store(ms, o, n, w, x)
  PROVE  /\ Changed(os, ns, n, o) /\ ObjInv(ns, vm) /\ Resident(ns, o, n)
         /\ StoredAt(ms, ns, o, n, w, x)
<1>1. Grown(os, ms, n, o)
  BY DEF Changed
<1>2. ObjInv(ns, vm) /\ Grown(os, ns, n, o) /\ Resident(ns, o, n)
  BY <1>1, StoreGrown
<1>3. /\ \A y \in Object, m \in Page : Resident(ns, y, m) <=> Resident(ms, y, m)
      /\ ns[o].res = [ms[o].res EXCEPT ![n] = [ms[o].res[n] EXCEPT ![w] = x]]
      /\ \A y \in Object : y # o => ns[y] = ms[y]
  <2>1. \A y \in Object, m \in Page : Resident(ns, y, m) <=> Resident(ms, y, m)
    BY StoreKeeps
  <2>2. ms \in [Object -> ObjType]
    BY DEF ObjInv, ObjsType
  <2>3. \A y \in Object : y # o => ns[y] = ms[y]
    BY <2>2 DEF Store
  <2>4. PICK f : f = [ms[o].res EXCEPT ![n] = [ms[o].res[n] EXCEPT ![w] = x]]
    OBVIOUS
  <2>5. ns[o] = [ms[o] EXCEPT !.res = f]
    BY <2>2, <2>4 DEF Store
  <2>6. PICK r \in ObjType : r = ms[o]
    BY <2>2
  <2>7. [r EXCEPT !.res = f].res = f
    BY DEF ObjType
  <2>. QED BY <2>1, <2>3, <2>4, <2>5, <2>6, <2>7
<1>4. ms[o].res \in [Page -> [Word -> Value] \cup {NotResident}]
  BY DEF ObjInv, ObjsType, ObjType
<1>5. \A m \in Page : m # n => ns[o].res[m] = ms[o].res[m]
  BY <1>3, <1>4
<1>6. ns[o].res[n] = [ms[o].res[n] EXCEPT ![w] = x]
  BY <1>3, <1>4
<1>7. \A y \in Object, m \in Page : (y # o \/ m # n) => ns[y].res[m] = ms[y].res[m]
  BY <1>3, <1>5
<1>8. \A y \in Object, m \in Page : Resident(os, y, m) /\ (y # o \/ m # n) => ns[y].res[m] = os[y].res[m]
  BY <1>7 DEF Changed
<1>9. \A y \in Object, m \in Page : ~Resident(os, y, m) /\ Resident(ns, y, m) /\ y # o => ns[y].res[m] = Fresh(os, y, m)
  BY <1>3, <1>7 DEF Changed
<1>. QED BY <1>2, <1>6, <1>8, <1>9 DEF Changed, StoredAt

(* The private pages that an object shows are the same, unless o is in its *)
(* chain,                                                                  *)
LEMMA ChangedOwn ==
  ASSUME NEW os, NEW vm, ObjInv(os, vm), NEW ns, NEW n \in Page, NEW o, Changed(os, ns, n, o),
         NEW x \in Object, NEW m \in Page,
         m # n \/ o \notin Beneath(os, x) \/ os[o].mmo_shadowed = NoObj
  PROVE  Own(ns, x, m) = Own(os, x, m)
<1>1. Grown(os, ns, n, o)
  BY DEF Changed
<1>2. Holder(ns, x, m) = Holder(os, x, m)
  BY <1>1, GrownHolder
<1>3. Bottom(ns, x) = Bottom(os, x)
  <2>1. GraphSame(os, ns)
    BY <1>1 DEF Grown
  <2>. QED BY <2>1, GraphSameFacts
<1>4. PICK h : h = Holder(os, x, m)
  OBVIOUS
<1>5. CASE h = Bottom(os, x)
  BY <1>2, <1>3, <1>4, <1>5 DEF Own
<1>6. CASE h # Bottom(os, x)
  <2>1. h \in Object /\ h \in Beneath(os, x) /\ os[h].mmo_shadowed # NoObj /\ Resident(os, h, m)
    BY <1>4, <1>6, HolderHas
  <2>2. h # o \/ m # n
    BY <2>1
  <2>3. ns[h].res[m] = os[h].res[m]
    BY <2>1, <2>2 DEF Changed
  <2>. QED BY <1>2, <1>3, <1>4, <1>6, <2>3 DEF Own
<1>. QED BY <1>5, <1>6

(* so are the pages of segments other than o,                              *)
LEMMA ChangedPage ==
  ASSUME NEW os, NEW vm, ObjInv(os, vm), NEW ns, NEW n \in Page, NEW o, Changed(os, ns, n, o),
         NEW x \in Object, NEW m \in Page, x # o \/ m # n \/ os[x].kind = "shadow"
  PROVE  PageOf(ns, x, m) = PageOf(os, x, m)
<1>1. ns[x].kind = os[x].kind
  BY DEF Changed, Grown, GraphSame
<1>2. CASE os[x].kind \in {"free", "shadow"}
  BY <1>1, <1>2 DEF PageOf
<1>3. CASE os[x].kind \notin {"free", "shadow"}
  <2>1. x # o \/ m # n
    BY <1>3
  <2>2. CASE Resident(os, x, m)
    <3>1. ns[x].res[m] = os[x].res[m] /\ Resident(ns, x, m)
      BY <2>1, <2>2 DEF Changed, Grown
    <3>. QED BY <1>1, <1>3, <2>2, <3>1 DEF PageOf
  <2>3. CASE ~Resident(os, x, m) /\ Resident(ns, x, m)
    <3>1. x # o
      BY <2>1, <2>3 DEF Changed, Grown
    <3>2. ns[x].res[m] = Fresh(os, x, m)
      BY <2>3, <3>1 DEF Changed
    <3>. QED BY <1>1, <1>3, <2>3, <3>2 DEF PageOf
  <2>4. CASE ~Resident(os, x, m) /\ ~Resident(ns, x, m)
    BY <1>1, <1>3, <2>4 DEF PageOf, Fresh
  <2>. QED BY <2>2, <2>3, <2>4
<1>. QED BY <1>2, <1>3

(* and so are the views of areas without o in their chain.                 *)
LEMMA ChangedView ==
  ASSUME NEW os, NEW vm, ObjInv(os, vm), NEW ns, NEW n \in Page, NEW o, Changed(os, ns, n, o),
         NEW q \in Process, NEW b \in Area,
         vm[q][b] = NoArea \/ o \notin Beneath(os, vm[q][b].obj) \/ os[o].mmo_shadowed = NoObj
  PROVE  ViewOf(ns, vm[q][b]) = ViewOf(os, vm[q][b])
<1>1. CASE vm[q][b] = NoArea
  BY <1>1, NoView
<1>2. CASE vm[q][b] # NoArea
  <2>1. PICK x \in Object : x = vm[q][b].obj
    BY <1>2, AreaObject
  <2>2. \A m \in Page : Own(ns, x, m) = Own(os, x, m)
    BY <1>2, <2>1, ChangedOwn
  <2>3. Bottom(ns, x) = Bottom(os, x)
    <3>1. GraphSame(os, ns)
      BY DEF Changed, Grown
    <3>. QED BY <3>1, GraphSameFacts
  <2>. QED BY <1>2, <2>1, <2>2, <2>3 DEF ViewOf
<1>. QED BY <1>1, <1>2
-----------------------------------------------------------------------------
(* Reads change no contents.                                               *)
LEMMA ReadImplements ==
  ASSUME CowInv, NEW p \in Process, NEW a \in Area, NEW n \in Page,
         UserRead(p, a, n) \/ vmmap_read(p, a, n)
  PROVE  Mem!Read
<1>1. /\ vma[p][a] # NoArea /\ objs' = LookupForRead(objs, vma[p][a].obj, n) /\ vma' = vma
  BY DEF UserRead, vmmap_read, Accessible
<1>2. ObjInv(objs, vma)
  BY DEF CowInv
<1>3. PICK o \in Object : o = vma[p][a].obj /\ objs[o].kind # "free"
  BY <1>1, <1>2, AreaObject
<1>4. PICK ns : ns = objs'
  OBVIOUS
<1>5. ObjInv(ns, vma) /\ Filled(objs, ns, n, NoObj)
  BY <1>1, <1>2, <1>3, <1>4, ReadFills
<1>6. Changed(objs, ns, n, NoObj)
  BY <1>2, <1>5, FilledChanged
<1>7. ASSUME NEW q \in Process, NEW b \in Area PROVE ViewOf(ns, vma[q][b]) = ViewOf(objs, vma[q][b])
  <2>1. vma[q][b] = NoArea \/ NoObj \notin Beneath(objs, vma[q][b].obj)
    <3> SUFFICES ASSUME vma[q][b] # NoArea PROVE NoObj \notin Beneath(objs, vma[q][b].obj)
      OBVIOUS
    <3>1. PICK x \in Object : x = vma[q][b].obj
      BY <1>2, AreaObject
    <3>. QED BY <1>2, <3>1, ObjFacts, CowAssumption DEF IsBeneath
  <2>. QED BY <1>2, <1>6, <2>1, ChangedView
<1>8. \A x \in Object, m \in Page : PageOf(ns, x, m) = PageOf(objs, x, m)
  BY <1>2, <1>6, CowAssumption, ChangedPage
<1>9. ViewsOf(ns, vma) = ViewsOf(objs, vma)
  BY <1>7 DEF ViewsOf
<1>10. PagesOf(ns) = PagesOf(objs)
  BY <1>8 DEF PagesOf
<1>11. viewBar' = viewBar /\ storeBar' = storeBar
  BY <1>1, <1>4, <1>9, <1>10, BarsAre
<1>. QED BY <1>11 DEF Mem!Read, Mem!memoryVars
-----------------------------------------------------------------------------
(* What a process sees is what its chain shows.                             *)
LEMMA SeenIs ==
  ASSUME NEW os, NEW vm, ObjInv(os, vm), NEW o \in Object, os[o].kind # "free", NEW n \in Page
  PROVE  Contents(os, o, n) = IF Own(os, o, n) # NotResident THEN Own(os, o, n) ELSE PageOf(os, Bottom(os, o), n)
<1>1. PICK h : h = Holder(os, o, n)
  OBVIOUS
<1>2. /\ h \in Object /\ h \in Beneath(os, o)
      /\ IF h = Bottom(os, o) THEN os[h].mmo_shadowed = NoObj
         ELSE os[h].mmo_shadowed # NoObj /\ Resident(os, h, n)
  BY <1>1, HolderHas
<1>3. CASE h = Bottom(os, o)
  <2>1. os[h].kind # "free"
    BY <1>2, BeneathNotFree
  <2>2. os[h].kind # "shadow"
    BY <1>2, <1>3 DEF ObjInv, Shape
  <2>. QED BY <1>1, <1>3, <2>1, <2>2 DEF Own, PageOf, Contents
<1>4. CASE h # Bottom(os, o)
  BY <1>1, <1>2, <1>4 DEF Own, Contents, Resident
<1>. QED BY <1>3, <1>4

(* A write by p to its page n, once ms has the frame for it.               *)
Writing(p, a, n, w, x, o, ms) ==
  /\ p \in Process /\ a \in Area /\ n \in Page /\ w \in Word /\ x \in Written
  /\ vma[p][a] # NoArea /\ o = vma[p][a].obj /\ o \in Object /\ objs[o].kind # "free"
  /\ ObjInv(ms, vma) /\ Changed(objs, ms, n, o) /\ Resident(ms, o, n)
  /\ ms[o].res[n] = Contents(objs, o, n)
  /\ objs' = Store(ms, o, n, w, x) /\ vma' = vma

(* A write is a step Write: it changes what the writer sees at that place  *)
(* and, when the area is shared, the segment; no private view of anybody   *)
(* else.                                                                   *)
LEMMA WriteImplements ==
  ASSUME CowInv, NEW p, NEW a, NEW n, NEW w, NEW x, NEW o, NEW ms, Writing(p, a, n, w, x, o, ms)
  PROVE  Mem!Write(p, a, n, w, x)
<1>1. /\ p \in Process /\ a \in Area /\ n \in Page /\ w \in Word /\ x \in Written
      /\ vma[p][a] # NoArea /\ o = vma[p][a].obj /\ o \in Object /\ objs[o].kind # "free"
      /\ ObjInv(ms, vma) /\ Changed(objs, ms, n, o) /\ Resident(ms, o, n)
      /\ ms[o].res[n] = Contents(objs, o, n)
      /\ objs' = Store(ms, o, n, w, x) /\ vma' = vma
  BY DEF Writing
<1>2. ObjInv(objs, vma) /\ x \in Value
  BY <1>1, CowAssumption DEF CowInv
<1>3. PICK ns : ns = objs'
  OBVIOUS
<1>4. PICK C : C = Contents(objs, o, n)
  OBVIOUS
<1>5. PICK A : A = [C EXCEPT ![w] = x]
  OBVIOUS
<1>6. /\ Changed(objs, ns, n, o) /\ ObjInv(ns, vma) /\ Resident(ns, o, n)
      /\ ns[o].res[n] = A
  <2>1. ns = Store(ms, o, n, w, x)
    BY <1>1, <1>3
  <2>2. /\ Changed(objs, ns, n, o) /\ ObjInv(ns, vma) /\ Resident(ns, o, n)
        /\ StoredAt(ms, ns, o, n, w, x)
    BY <1>1, <1>2, <2>1, StoreChanged
  <2>. QED BY <1>1, <1>4, <1>5, <2>2 DEF StoredAt
<1>7. PICK V0 : V0 = ViewsOf(objs, vma) /\ Grid(V0)
  BY ViewsGrid
<1>8. PICK V1 : V1 = ViewsOf(ns, vma) /\ Grid(V1)
  BY ViewsGrid
<1>9. PICK S0 : S0 = PagesOf(objs)
  OBVIOUS
<1>10. PICK S1 : S1 = PagesOf(ns)
  OBVIOUS
<1>11. viewBar = V0 /\ viewBar' = V1 /\ storeBar = S0 /\ storeBar' = S1
  BY <1>1, <1>3, <1>7, <1>8, <1>9, <1>10, BarsAre
<1>12. PICK v : v = V0[p][a]
  OBVIOUS
<1>13. /\ v # NoArea /\ v.seg = Bottom(objs, o) /\ v.shared = vma[p][a].shared
       /\ \A m \in Page : v.own[m] = Own(objs, o, m)
  <2>1. IsView(v, objs, vma, p, a)
    BY <1>1, <1>7, <1>12, ViewsGrid DEF IsView
  <2>. QED BY <1>1, <1>2, <2>1, ViewFields
<1>14. Mem!Seen(p, a, n) = C
  <2>1. C = IF Own(objs, o, n) # NotResident THEN Own(objs, o, n) ELSE PageOf(objs, Bottom(objs, o), n)
    BY <1>1, <1>2, <1>4, SeenIs
  <2>2. Bottom(objs, o) \in Object
    BY <1>1, <1>2, ObjFacts
  <2>3. S0[Bottom(objs, o)][n] = PageOf(objs, Bottom(objs, o), n)
    BY <1>1, <1>9, <2>2 DEF PagesOf
  <2>4. Mem!Seen(p, a, n) = IF v.own[n] # NotResident THEN v.own[n] ELSE S0[v.seg][n]
    BY <1>11, <1>12 DEF Mem!Seen
  <2>. QED BY <1>1, <1>13, <2>1, <2>3, <2>4
<1>15. \A y \in Object, m \in Page : y # o \/ m # n \/ objs[y].kind = "shadow" => PageOf(ns, y, m) = PageOf(objs, y, m)
  BY <1>1, <1>2, <1>6, ChangedPage
<1>16. CASE vma[p][a].shared
  <2>1. objs[o].mmo_shadowed = NoObj
    BY <1>1, <1>2, <1>16 DEF ObjInv, AreaFits
  <2>2. ASSUME NEW q \in Process,
               NEW b \in Area PROVE ViewOf(ns, vma[q][b]) = ViewOf(objs, vma[q][b])
    <3>1. n \in Page /\ Changed(objs, ns, n, o) /\ ObjInv(objs, vma)
      BY <1>1, <1>2, <1>6
    <3>. QED BY ONLY <2>1, <3>1, q \in Process, b \in Area, ChangedView
  <2>3. V1 = V0
    BY <1>7, <1>8, <2>2 DEF ViewsOf
  <2>4. v.seg = o
    BY <1>13, <2>1 DEF Bottom
  <2>5. PageOf(ns, o, n) = A
    <3>1. objs[o].kind # "shadow"
      BY <1>1, <1>2, <2>1 DEF ObjInv, Shape
    <3>2. ns[o].kind = objs[o].kind
      BY <1>1, <1>6 DEF Changed, Grown, GraphSame
    <3>. QED BY <1>1, <1>6, <3>1, <3>2 DEF PageOf
  <2>6. \A y \in Object, m \in Page : S1[y][m] = IF y = o /\ m = n THEN A ELSE S0[y][m]
    BY <1>9, <1>10, <1>15, <2>5 DEF PagesOf
  <2>7. S1 = [S0 EXCEPT ![o][n] = A]
    <3>1. /\ S0 = [y \in Object |-> S0[y]] /\ \A y \in Object : S0[y] = [m \in Page |-> S0[y][m]]
          /\ S1 = [y \in Object |-> S1[y]] /\ \A y \in Object : S1[y] = [m \in Page |-> S1[y][m]]
      BY <1>9, <1>10 DEF PagesOf
    <3>2. PICK X : X = [S0 EXCEPT ![o][n] = A]
      OBVIOUS
    <3>3. X = [y \in Object |-> X[y]] /\ \A y \in Object : X[y] = IF y = o THEN [S0[o] EXCEPT ![n] = A] ELSE S0[y]
      BY <1>1, <3>1, <3>2
    <3>4. \A y \in Object : S1[y] = X[y]
      <4> SUFFICES ASSUME NEW y \in Object PROVE S1[y] = X[y]
        OBVIOUS
      <4>1. CASE y = o
        <5>1. S1[o] = [m \in Page |-> IF m = n THEN A ELSE S0[o][m]]
          BY <1>1, <2>6, <3>1
        <5>2. X[o] = [m \in Page |-> IF m = n THEN A ELSE S0[o][m]]
          BY <1>1, <3>1, <3>3
        <5>. QED BY <4>1, <5>1, <5>2
      <4>2. CASE y # o
        <5>1. S1[y] = [m \in Page |-> S0[y][m]]
          BY <2>6, <3>1, <4>2
        <5>. QED BY <3>1, <3>3, <4>2, <5>1
      <4>. QED BY <4>1, <4>2
    <3>. QED BY <3>1, <3>2, <3>3, <3>4
  <2>. QED BY <1>5, <1>11, <1>12, <1>13, <1>14, <1>16, <2>3, <2>4, <2>7 DEF Mem!Write
<1>17. CASE ~vma[p][a].shared
  <2>1. objs[o].mmo_shadowed # NoObj /\ objs[o].kind = "shadow" /\ ns[o].mmo_shadowed # NoObj
    <3>1. AreaFits(objs, vma, p, a) /\ Shape(objs, o)
      BY ONLY <1>1, <1>2 DEF ObjInv
    <3>2. objs[o].mmo_shadowed # NoObj
      BY ONLY <1>1, <1>17, <3>1 DEF AreaFits
    <3>3. objs[o].kind = "shadow"
      BY ONLY <1>1, <3>1, <3>2 DEF Shape
    <3>4. GraphSame(objs, ns)
      BY ONLY <1>6 DEF Changed, Grown
    <3>5. ns[o].mmo_shadowed = objs[o].mmo_shadowed
      BY ONLY <1>1, <3>4 DEF GraphSame
    <3>. QED BY ONLY <3>2, <3>3, <3>5
  <2>2. \A y \in Object, m \in Page : PageOf(ns, y, m) = PageOf(objs, y, m)
    BY <1>15, <2>1
  <2>3. S1 = S0
    <3>1. \A y \in Object : [m \in Page |-> PageOf(ns, y, m)] = [m \in Page |-> PageOf(objs, y, m)]
      BY ONLY <2>2
    <3>. QED BY ONLY <1>9, <1>10, <3>1 DEF PagesOf
  <2>4. \A q \in Process, b \in Area : <<q, b>> # <<p, a>> => ViewOf(ns, vma[q][b]) = ViewOf(objs, vma[q][b])
    <3> SUFFICES ASSUME NEW q \in Process, NEW b \in Area, <<q, b>> # <<p, a>>
                 PROVE ViewOf(ns, vma[q][b]) = ViewOf(objs, vma[q][b])
      OBVIOUS
    <3>1. ObjInv(objs, vma) /\ n \in Page /\ Changed(objs, ns, n, o)
      BY ONLY <1>1, <1>2, <1>6
    <3>2. vma[q][b] = NoArea \/ o \notin Beneath(objs, vma[q][b].obj)
      <4>1. p \in Process /\ a \in Area /\ vma[p][a] # NoArea /\ ~vma[p][a].shared /\ o = vma[p][a].obj
        BY ONLY <1>1, <1>17
      <4>. QED BY ONLY <3>1, <4>1, PrivateApart, q \in Process, b \in Area, <<q, b>> # <<p, a>>
    <3>. QED BY ONLY <3>1, <3>2, ChangedView, q \in Process, b \in Area
  <2>5. PICK u : u = V1[p][a]
    OBVIOUS
  <2>6. Own(ns, o, n) = A
    <3>1. Holder(ns, o, n) = o
      BY <1>1, <1>6, HolderOwn
    <3>2. o # Bottom(ns, o)
      BY <1>1, <1>6, <2>1, ObjFacts
    <3>. QED BY <1>6, <3>1, <3>2 DEF Own
  <2>7. \A m \in Page : m # n => Own(ns, o, m) = Own(objs, o, m)
    BY <1>1, <1>2, <1>6, ChangedOwn
  <2>8. Bottom(ns, o) = Bottom(objs, o)
    <3>1. GraphSame(objs, ns)
      BY <1>6 DEF Changed, Grown
    <3>. QED BY <1>1, <1>2, <3>1, GraphSameFacts
  <2>9. u = [v EXCEPT !.own[n] = A]
    <3>1. u = [seg |-> Bottom(ns, o), shared |-> vma[p][a].shared, own |-> [m \in Page |-> Own(ns, o, m)]]
      BY <1>1, <1>8, <2>5, ViewsGrid DEF ViewOf
    <3>2. v = [seg |-> Bottom(objs, o), shared |-> vma[p][a].shared, own |-> [m \in Page |-> Own(objs, o, m)]]
      BY <1>1, <1>7, <1>12, ViewsGrid DEF ViewOf
    <3>3. PICK f : f = [m \in Page |-> Own(objs, o, m)]
      OBVIOUS
    <3>4. PICK g : g = [m \in Page |-> Own(ns, o, m)]
      OBVIOUS
    <3>5. g = [f EXCEPT ![n] = A]
      BY <1>1, <2>6, <2>7, <3>3, <3>4
    <3>. QED BY ONLY <2>8, <3>1, <3>2, <3>3, <3>4, <3>5
  <2>10. \A q \in Process, b \in Area : V1[q][b] = IF q = p /\ b = a THEN u ELSE V0[q][b]
    BY <1>7, <1>8, <2>4, <2>5, ViewsGrid
  <2>11. V1 = [V0 EXCEPT ![p][a] = u]
    BY <1>1, <1>7, <1>8, <2>10, GridSet
  <2>12. V1 = [V0 EXCEPT ![p][a].own[n] = A]
    BY <1>12, <2>9, <2>11
  <2>. QED BY <1>5, <1>11, <1>12, <1>13, <1>14, <1>17, <2>3, <2>12 DEF Mem!Write
<1>. QED BY <1>16, <1>17

-----------------------------------------------------------------------------
(* It is so of a write through a lookup,                                   *)
LEMMA LookupImplements ==
  ASSUME CowInv, NEW p \in Process, NEW a \in Area, NEW n \in Page, NEW w \in Word,
         NEW x \in Written, vma[p][a] # NoArea,
         objs' = Store(LookupForWrite(objs, vma[p][a].obj, n), vma[p][a].obj, n, w, x), vma' = vma
  PROVE  Mem!Write(p, a, n, w, x)
<1>1. ObjInv(objs, vma)
  BY DEF CowInv
<1>2. PICK o \in Object : o = vma[p][a].obj /\ objs[o].kind # "free"
  BY <1>1, AreaObject
<1>3. PICK ms : ms = LookupForWrite(objs, o, n)
  OBVIOUS
<1>4. /\ ObjInv(ms, vma) /\ Filled(objs, ms, n, o) /\ Resident(ms, o, n)
      /\ ms[o].res[n] = Contents(objs, o, n)
  BY <1>1, <1>2, <1>3, WriteFills
<1>5. Changed(objs, ms, n, o)
  BY <1>1, <1>4, FilledChanged
<1>6. Writing(p, a, n, w, x, o, ms)
  BY <1>2, <1>3, <1>4, <1>5 DEF Writing
<1>. QED BY <1>6, WriteImplements

(* of a write through a writable entry,                                    *)
LEMMA EntryImplements ==
  ASSUME CowInv, NEW p \in Process, NEW a \in Area, NEW n \in Page, NEW w \in Word,
         NEW x \in Written,
         pte[p][a][n] # NoPte, pte[p][a][n].write,
         objs' = Store(objs, pte[p][a][n].obj, n, w, x), vma' = vma
  PROVE  Mem!Write(p, a, n, w, x)
<1>1. ObjInv(objs, vma) /\ PteFits(objs, vma, pte, p, a, n)
  BY DEF CowInv
<1>2. vma[p][a] # NoArea /\ pte[p][a][n].obj = vma[p][a].obj /\ Resident(objs, pte[p][a][n].obj, n)
  BY <1>1 DEF PteFits
<1>3. PICK o \in Object : o = vma[p][a].obj /\ objs[o].kind # "free"
  BY <1>1, <1>2, AreaObject
<1>4. Resident(objs, o, n)
  BY <1>2, <1>3
<1>5. Holder(objs, o, n) = o
  BY <1>1, <1>4, HolderOwn
<1>6. objs[o].res[n] = Contents(objs, o, n)
  BY <1>4, <1>5 DEF Contents
<1>7. Changed(objs, objs, n, o)
  BY SameChanged
<1>8. Writing(p, a, n, w, x, o, objs)
  BY <1>1, <1>2, <1>3, <1>4, <1>6, <1>7 DEF Writing
<1>. QED BY <1>8, WriteImplements

(* and so of the writes of programs and of the kernel.                     *)
LEMMA WriteStepsImplement ==
  ASSUME CowInv, NEW p \in Process, NEW a \in Area, NEW n \in Page, NEW w \in Word,
         NEW x \in Written,
         UserWrite(p, a, n, w, x) \/ vmmap_write(p, a, n, w, x)
  PROVE  Mem!Write(p, a, n, w, x)
<1>1. vma[p][a] # NoArea /\ vma' = vma
  BY DEF UserWrite, vmmap_write, Accessible
<1>2. CASE vmmap_write(p, a, n, w, x)
  <2>1. objs' = Store(LookupForWrite(objs, vma[p][a].obj, n), vma[p][a].obj, n, w, x)
    BY <1>2 DEF vmmap_write
  <2>. QED BY <1>1, <2>1, LookupImplements
<1>3. CASE UserWrite(p, a, n, w, x) /\ pte[p][a][n] # NoPte /\ pte[p][a][n].write
  <2>1. objs' = Store(objs, pte[p][a][n].obj, n, w, x)
    BY <1>3 DEF UserWrite
  <2>. QED BY <1>1, <1>3, <2>1, EntryImplements
<1>4. CASE UserWrite(p, a, n, w, x) /\ ~(pte[p][a][n] # NoPte /\ pte[p][a][n].write)
  <2>1. objs' = Store(LookupForWrite(objs, vma[p][a].obj, n), vma[p][a].obj, n, w, x)
    BY <1>4 DEF UserWrite
  <2>. QED BY <1>1, <2>1, LookupImplements
<1>. QED BY <1>2, <1>3, <1>4

(* The initial states are initial states of the memory.                    *)
LEMMA InitImplements == CowInit => Mem!MemoryInit
<1> SUFFICES ASSUME CowInit PROVE Mem!MemoryInit
  OBVIOUS
<1>1. ObjInv(objs, vma)
  BY CowInitHolds DEF CowInv
<1>2. \A p \in Process, a \in Area : vma[p][a] = NoArea
  BY DEF CowInit, NoAreas
<1>3. ViewsOf(objs, vma) = [p \in Process |-> [a \in Area |-> NoArea]]
  <2>1. \A p \in Process, a \in Area : ViewOf(objs, vma[p][a]) = NoArea
    BY <1>2 DEF ViewOf
  <2>. QED BY <2>1 DEF ViewsOf
<1>4. PICK S : S = PagesOf(objs)
  OBVIOUS
<1>5. \A s \in Object : s # File => objs[s].kind = "free"
  BY FreeObjIs DEF CowInit
<1>6. ASSUME NEW s \in Object \ {File} PROVE S[s] = Mem!Zeros
  <2>1. \A n : PageOf(objs, s, n) = Zeroed
    BY <1>5 DEF PageOf
  <2>2. Mem!Zeros = [n \in Page |-> Zeroed]
    BY DEF Mem!Zeros, Zeroed
  <2>. QED BY <1>4, <2>1, <2>2 DEF PagesOf
<1>7. \A s \in Object, n \in Page : PageOf(objs, s, n) \in [Word -> Value]
  <2>1. ASSUME NEW s \in Object, NEW n \in Page PROVE PageOf(objs, s, n) \in [Word -> Value]
    <3>1. Fresh(objs, s, n) \in [Word -> Value] /\ Zeroed \in [Word -> Value]
      BY FreshType, CowAssumption DEF Zeroed
    <3>2. Resident(objs, s, n) => objs[s].res[n] \in [Word -> Value]
      BY <1>1 DEF ObjInv, ObjsType, ObjType, Resident
    <3>. QED BY <3>1, <3>2 DEF PageOf
  <2>. QED BY <2>1
<1>8. S \in [Object -> [Page -> Mem!Contents]]
  BY <1>4, <1>7 DEF PagesOf, Mem!Contents
<1>. QED BY <1>3, <1>4, <1>6, <1>8, BarsAre DEF Mem!MemoryInit

(* Every step is a step of the memory, or changes nothing in it.           *)
LEMMA StepImplements ==
  ASSUME CowInv, [CowNext]_cowVars
  PROVE  [Mem!MemoryNext]_<<viewBar, storeBar>>
<1>1. CASE vma' = vma /\ objs' = objs
  BY <1>1, BarsAre
<1>2. CASE CowNext
  <2>1. PICK p \in Process :
          \/ do_exit(p)
          \/ \E c \in Process : do_fork(p, c)
          \/ \E a \in Area :
               \/ \E k \in MapKind : vmmap_map(p, a, k[1], k[2])
               \/ do_munmap(p, a)
               \/ vmmap_destroy(p, a)
               \/ \E n \in Page :
                    \/ UserRead(p, a, n)
                    \/ vmmap_read(p, a, n)
                    \/ \E w \in Word, x \in Written : UserWrite(p, a, n, w, x) \/ vmmap_write(p, a, n, w, x)
    BY <1>2 DEF CowNext
  <2>2. CASE do_exit(p)
    BY <1>1, <2>2 DEF do_exit
  <2>3. ASSUME NEW c \in Process, do_fork(p, c) PROVE Mem!MemoryNext
    BY <2>3, ForkImplements DEF Mem!MemoryNext
  <2>4. ASSUME NEW a \in Area, NEW k \in MapKind, vmmap_map(p, a, k[1], k[2]) PROVE Mem!MemoryNext
    <3>1. k[1] \in BOOLEAN /\ k[2] \in BOOLEAN
      BY CowAssumption
    <3>2. PICK s \in Object : Mem!Map(p, a, s, k[2])
      BY <2>4, <3>1, MapImplements
    <3>. QED BY <3>1, <3>2 DEF Mem!MemoryNext
  <2>5. ASSUME NEW a \in Area, do_munmap(p, a) \/ vmmap_destroy(p, a) PROVE Mem!MemoryNext
    <3>1. vma[p][a] # NoArea /\ objs' = Put(objs, vma[p][a].obj) /\ vma' = [vma EXCEPT ![p][a] = NoArea]
      BY <2>5 DEF do_munmap, vmmap_destroy, vmmap_remove
    <3>2. Mem!Unmap(p, a)
      BY <3>1, RemoveImplements
    <3>. QED BY <3>2 DEF Mem!MemoryNext
  <2>6. ASSUME NEW a \in Area, NEW n \in Page,
               UserRead(p, a, n) \/ vmmap_read(p, a, n) PROVE Mem!MemoryNext
    BY <2>6, ReadImplements DEF Mem!MemoryNext
  <2>7. ASSUME NEW a \in Area, NEW n \in Page, NEW w \in Word, NEW x \in Written,
               UserWrite(p, a, n, w, x) \/ vmmap_write(p, a, n, w, x)
        PROVE Mem!MemoryNext
    <3>1. Mem!Write(p, a, n, w, x) /\ x \in Value
      BY <2>7, WriteStepsImplement, CowAssumption
    <3>. QED BY <3>1 DEF Mem!MemoryNext
  <2>. QED BY <2>1, <2>2, <2>3, <2>4, <2>5, <2>6, <2>7
<1>. QED BY <1>1, <1>2 DEF cowVars

(* Copy-on-write gives the memory that fork and mmap promise (Memory):     *)
(* chains of shadow objects, reference counts and lazily filled frames can *)
(* not be told from private copies and shared segments, for any number of  *)
(* processes, areas, pages and objects.                                    *)
THEOREM CowImplements == CowSpec => ImplementsMemory
<1>1. CowInv /\ [CowNext]_cowVars => [Mem!MemoryNext]_<<viewBar, storeBar>>
  BY StepImplements
<1>. QED BY <1>1, InitImplements, CowInductive, PTL DEF CowSpec, ImplementsMemory, Mem!MemorySpec,
        Mem!memoryVars
=============================================================================
