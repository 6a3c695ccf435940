--------------------------------- MODULE Cow ---------------------------------
(***************************************************************************)
(* Memory objects and copy-on-write: the object graph of vm/anon.c,        *)
(* vm/shadow.c and mm/mmobj.h, and how mmap, munmap, fork, exit, page      *)
(* faults and the kernel's own copies (copy_to_user) change it.            *)
(*                                                                         *)
(* A page frame belongs to one page of one object for as long as it is     *)
(* resident, so it is written objs[o].res[n], and a page table entry names *)
(* the object.  Frames stay resident: pageoutd is never woken              *)
(* (mm/pframe.c:394-399), and anonymous and shadow pages are pinned.  The  *)
(* operations below run without a scheduling point on such pages.          *)
(***************************************************************************)
EXTENDS Naturals, FiniteSets

CONSTANTS
  Process,
  Area,         (* places in an address space, each of the pages Page      *)
  Page,
  Word,         (* the places in a page                                    *)
  Value, Zero,
  Written,      (* the values that programs and kernel write               *)
  Object,       (* the mmobjs of the slabs, and the one of a mapped file   *)
  File, FileData,
  MapKind,      (* the kinds of mapping made, <<of a file, shared>>        *)
  Root,         (* the process there is at first                           *)
  NoObj, NoArea, NoPte, NotResident

ASSUME CowAssumption ==
  /\ IsFiniteSet(Process) /\ IsFiniteSet(Area) /\ IsFiniteSet(Page) /\ IsFiniteSet(Object)
  /\ Zero \in Value /\ Written \subseteq Value /\ NotResident \notin [Word -> Value]
  /\ File \in Object /\ NoObj \notin Object /\ FileData \in [Page -> [Word -> Value]]
  /\ MapKind \subseteq BOOLEAN \X BOOLEAN
  /\ Root \in Process
  /\ NoArea \notin [obj : Object, shared : BOOLEAN]
  /\ NoArea \notin [seg : Object, shared : BOOLEAN, own : [Page -> [Word -> Value] \cup {NotResident}]]
  /\ NoPte \notin [obj : Object, write : BOOLEAN]

VARIABLES
  p_state,  (* process -> "none", "running" or "exiting" (in proc_cleanup) *)
  vma,      (* process -> area -> NoArea or [obj, shared]                  *)
  pte,      (* process -> area -> page -> NoPte or [obj, write]            *)
  objs      (* object -> [kind, mmo_refcount, shadowed, bottom, res]       *)

cowVars == <<p_state, vma, pte, objs>>

NothingResident == [n \in Page |-> NotResident]
Mmobj(kind, refs, shadowed, bottom) ==
  [kind |-> kind, mmo_refcount |-> refs, mmo_shadowed |-> shadowed,
   mmo_bottom_obj |-> bottom, res |-> NothingResident]
FreeObj == Mmobj("free", 0, NoObj, NoObj)

NoPtes == [a \in Area |-> [n \in Page |-> NoPte]]
NoAreas == [a \in Area |-> NoArea]
Free(os) == {o \in Object : os[o].kind = "free"}

(* slab_obj_alloc, once for each member of S: which free objects the slab   *)
(* hands out makes no difference.                                           *)
CanAlloc(os, S) == Cardinality(S) <= Cardinality(Free(os))
slab_obj_alloc(os, S) ==
  CHOOSE f \in [S -> Free(os)] : \A i, j \in S : i # j => f[i] # f[j]
-----------------------------------------------------------------------------
(* mmobj.h: the bottom of a chain, and the number of resident pages         *)
Bottom(os, o) == IF os[o].mmo_shadowed = NoObj THEN o ELSE os[o].mmo_bottom_obj
Resident(os, o, n) == os[o].res[n] # NotResident
mmo_nrespages(os, o) == Cardinality({n \in Page : Resident(os, o, n)})

(* The object whose frame a lookup for reading ends with: the first shadow  *)
(* object down the chain that has the page, or the bottom.                  *)
Holder(os, o, n) ==
  LET h[x \in Object] == IF os[x].mmo_shadowed = NoObj \/ Resident(os, x, n)
                         THEN x ELSE h[os[x].mmo_shadowed]
  IN  h[o]

(* pframe_get on a bottom object: a page of zeros, or the file's page       *)
Zeroed == [w \in Word |-> Zero]
Fresh(os, o, n) == IF os[o].kind = "file" THEN FileData[n] ELSE Zeroed
pframe_alloc(os, o, n, x) ==
  [os EXCEPT ![o].res[n] = x, ![o].mmo_refcount = @ + 1]
pframe_get(os, o, n) ==
  IF Resident(os, o, n) THEN os ELSE pframe_alloc(os, o, n, Fresh(os, o, n))

(* What the chain shows at page n of o                                      *)
Contents(os, o, n) ==
  LET h == Holder(os, o, n)
  IN  IF Resident(os, h, n) THEN os[h].res[n] ELSE Fresh(os, h, n)

(* lookuppage of o for reading and for writing                              *)
LookupForRead(os, o, n) ==
  LET h == Holder(os, o, n) IN IF Resident(os, h, n) THEN os ELSE pframe_get(os, h, n)

LookupForWrite_from_bottom(os, o, n) ==
  IF os[o].mmo_shadowed = NoObj THEN pframe_get(os, o, n)
  ELSE IF Resident(os, o, n) THEN os
  ELSE LET below == pframe_get(os, Bottom(os, o), n)
       IN  pframe_alloc(below, o, n, below[Bottom(os, o)].res[n])

LookupForWrite(os, o, n) ==
  IF os[o].mmo_shadowed = NoObj THEN pframe_get(os, o, n)
  ELSE IF Resident(os, o, n) THEN os
  ELSE LET below == LookupForRead(os, os[o].mmo_shadowed, n)
       IN  pframe_alloc(below, o, n, Contents(os, os[o].mmo_shadowed, n))
-----------------------------------------------------------------------------
(* put(o).  A shadow object whose last reference goes frees its frames and  *)
(* puts the object it shadows and the bottom, so the shadow objects of a    *)
(* prefix of the chain go, the object below it (Landing) loses one          *)
(* reference, and the bottom one for each shadow object that went.          *)
LastRef(os, o) == os[o].mmo_refcount - 1 = mmo_nrespages(os, o)

Dying(os, o) ==
  LET d[x \in Object] == IF os[x].mmo_shadowed = NoObj \/ ~LastRef(os, x)
                         THEN {} ELSE {x} \cup d[os[x].mmo_shadowed]
  IN  d[o]

Landing(os, o) ==
  LET l[x \in Object] == IF os[x].mmo_shadowed = NoObj \/ ~LastRef(os, x)
                         THEN x ELSE l[os[x].mmo_shadowed]
  IN  l[o]

Dropped(os, x, puts) ==
  IF os[x].kind = "anon" /\ puts > 0 /\ os[x].mmo_refcount - puts <= mmo_nrespages(os, x)
  THEN FreeObj
  ELSE [os[x] EXCEPT !.mmo_refcount = @ - puts]

Put_keeps_bottom(os, o) ==
  LET dying == Dying(os, o)
      landing == Landing(os, o)
  IN  [x \in Object |-> IF x \in dying THEN FreeObj
                        ELSE Dropped(os, x, IF x = landing THEN 1 ELSE 0)]

Put(os, o) ==
  LET dying == Dying(os, o)
      landing == Landing(os, o)
      puts(x) == (IF x = landing THEN 1 ELSE 0)
                 + (IF x = Bottom(os, o) THEN Cardinality(dying) ELSE 0)
  IN  [x \in Object |-> IF x \in dying THEN FreeObj ELSE Dropped(os, x, puts(x))]

(* pframe_remove_from_pts, for every frame freed when objs becomes ns:      *)
(* the page's entry goes in each area over the same bottom object.          *)
Flushed(ns, q, a, n) ==
  /\ vma[q][a] # NoArea
  /\ \E o \in Object : /\ objs[o].kind # "free" /\ ns[o].kind = "free"
                       /\ Resident(objs, o, n)
                       /\ Bottom(objs, o) = Bottom(objs, vma[q][a].obj)

(* vmmap_remove of the whole area: the object is put, and pt_unmap_range    *)
(* clears the entries of the area and, when other areas lie in the same     *)
(* page table, of those (mm/pagetable.c:184-196).                           *)
vmmap_remove_keeps_ptes(p, a, ns, near) ==
  /\ ns = Put(objs, vma[p][a].obj)
  /\ UNCHANGED pte

vmmap_remove(p, a, ns, near) ==
  /\ ns = Put(objs, vma[p][a].obj)
  /\ pte' = [q \in Process |-> [b \in Area |-> [n \in Page |->
               IF (q = p /\ b \in near \cup {a}) \/ Flushed(ns, q, b, n)
               THEN NoPte ELSE pte[q][b][n]]]]
-----------------------------------------------------------------------------
CowInit ==
  /\ p_state = [p \in Process |-> IF p = Root THEN "running" ELSE "none"]
  /\ vma = [p \in Process |-> NoAreas]
  /\ pte = [p \in Process |-> NoPtes]
  /\ objs = [o \in Object |-> IF o = File THEN Mmobj("file", 1, NoObj, NoObj) ELSE FreeObj]

(* vmmap_map over file or NULL, once what was mapped there is removed; o is *)
(* the area's bottom object and s the shadow object of a private one.       *)
MapObjects(os, file, shared, o, s) ==
  LET refs == IF shared THEN 1 ELSE 2
      bottom == IF file THEN [os[o] EXCEPT !.mmo_refcount = @ + refs]
                ELSE Mmobj("anon", refs, NoObj, NoObj)
  IN  IF shared THEN [os EXCEPT ![o] = bottom]
      ELSE [os EXCEPT ![o] = bottom, ![s] = Mmobj("shadow", 1, o, o)]

vmmap_map(p, a, file, shared) ==
  /\ p_state[p] = "running"
  /\ \E near \in SUBSET (Area \ {a}) :
       IF vma[p][a] = NoArea
       THEN near = {} /\ UNCHANGED pte
       ELSE vmmap_remove(p, a, Put(objs, vma[p][a].obj), near)
  /\ LET os == IF vma[p][a] = NoArea THEN objs ELSE Put(objs, vma[p][a].obj)
         new == (IF file THEN {} ELSE {"anon"}) \cup (IF shared THEN {} ELSE {"shadow"})
         got == slab_obj_alloc(os, new)
         o == IF file THEN File ELSE got["anon"]
         s == IF shared THEN o ELSE got["shadow"]
     IN  /\ CanAlloc(os, new)
         /\ objs' = MapObjects(os, file, shared, o, s)
         /\ vma' = [vma EXCEPT ![p][a] = [obj |-> s, shared |-> shared]]
  /\ UNCHANGED p_state

do_munmap(p, a) ==
  /\ p_state[p] = "running"
  /\ vma[p][a] # NoArea
  /\ \E near \in SUBSET (Area \ {a}) : vmmap_remove(p, a, objs', near)
  /\ vma' = [vma EXCEPT ![p][a] = NoArea]
  /\ UNCHANGED p_state

(* The process exits; proc_cleanup's vmmap_destroy removes one area after   *)
(* another, with a scheduling point where the put of a file blocks.         *)
do_exit(p) ==
  /\ p_state[p] = "running"
  /\ p_state' = [p_state EXCEPT ![p] = IF vma[p] = NoAreas THEN "none" ELSE "exiting"]
  /\ UNCHANGED <<vma, pte, objs>>

vmmap_destroy(p, a) ==
  /\ p_state[p] = "exiting"
  /\ vma[p][a] # NoArea
  /\ \E near \in SUBSET (Area \ {a}) : vmmap_remove(p, a, objs', near)
  /\ vma' = [vma EXCEPT ![p][a] = NoArea]
  /\ p_state' = [p_state EXCEPT ![p] = IF vma'[p] = NoAreas THEN "none" ELSE @]
-----------------------------------------------------------------------------
(* do_fork.  Each private area gets a new shadow object for the parent and  *)
(* one for the child, both over the parent's old one; shared areas share.   *)
(* The parent's page table is emptied, so that its next write faults.       *)
Private(p) == {a \in Area : vma[p][a] # NoArea /\ ~vma[p][a].shared}
Shared(p) == {a \in Area : vma[p][a] # NoArea /\ vma[p][a].shared}

ForkObjects(p, c, new) ==
  LET obj(a) == vma[p][a].obj
      added(o) == Cardinality({a \in Private(p) \cup Shared(p) : obj(a) = o})
                  + 2 * Cardinality({a \in Private(p) : Bottom(objs, obj(a)) = o})
      shadows(o) == {a \in Private(p) : o \in {new[<<p, a>>], new[<<c, a>>]}}
  IN  [o \in Object |->
         IF shadows(o) = {} THEN [objs[o] EXCEPT !.mmo_refcount = @ + added(o)]
         ELSE LET a == CHOOSE b \in shadows(o) : TRUE
              IN  Mmobj("shadow", 1, obj(a), Bottom(objs, obj(a)))]

(* The areas of q, the parent or the child, after p has forked              *)
ForkAreas(p, q, new) ==
  [a \in Area |-> IF a \in Private(p) THEN [vma[p][a] EXCEPT !.obj = new[<<q, a>>]]
                                      ELSE vma[p][a]]

do_fork_keeps_ptes(p, c) ==
  /\ p_state[p] = "running" /\ p_state[c] = "none"
  /\ CanAlloc(objs, {p, c} \X Private(p))
  /\ LET new == slab_obj_alloc(objs, {p, c} \X Private(p))
     IN  /\ objs' = ForkObjects(p, c, new)
         /\ vma' = [vma EXCEPT ![p] = ForkAreas(p, p, new), ![c] = ForkAreas(p, c, new)]
  /\ UNCHANGED pte
  /\ p_state' = [p_state EXCEPT ![c] = "running"]

do_fork(p, c) ==
  /\ p_state[p] = "running" /\ p_state[c] = "none"
  /\ CanAlloc(objs, {p, c} \X Private(p))
  /\ LET new == slab_obj_alloc(objs, {p, c} \X Private(p))
     IN  /\ objs' = ForkObjects(p, c, new)
         /\ vma' = [vma EXCEPT ![p] = ForkAreas(p, p, new), ![c] = ForkAreas(p, c, new)]
  /\ pte' = [pte EXCEPT ![p] = NoPtes, ![c] = NoPtes]
  /\ p_state' = [p_state EXCEPT ![c] = "running"]
-----------------------------------------------------------------------------
Accessible(p, a) == p_state[p] = "running" /\ vma[p][a] # NoArea

UserRead_maps_bottom(p, a, n) ==
  /\ Accessible(p, a)
  /\ pte[p][a][n] = NoPte
  /\ objs' = pframe_get(objs, Bottom(objs, vma[p][a].obj), n)
  /\ pte' = [pte EXCEPT ![p][a][n] =
               [obj |-> Bottom(objs, vma[p][a].obj), write |-> FALSE]]
  /\ UNCHANGED <<p_state, vma>>

(* The user program reads a page: if no entry maps it, handle_pagefault     *)
(* maps the frame a lookup for reading finds, without write permission.     *)
UserRead(p, a, n) ==
  /\ Accessible(p, a)
  /\ pte[p][a][n] = NoPte
  /\ objs' = LookupForRead(objs, vma[p][a].obj, n)
  /\ pte' = [pte EXCEPT ![p][a][n] =
               [obj |-> Holder(objs, vma[p][a].obj, n), write |-> FALSE]]
  /\ UNCHANGED <<p_state, vma>>

Store(os, o, n, w, x) == [os EXCEPT ![o].res[n][w] = x]

(* The user program writes x: through a writable entry at once, else after  *)
(* handle_pagefault has mapped the frame of a lookup for writing.           *)
UserWrite(p, a, n, w, x) ==
  LET e == pte[p][a][n] IN
  /\ Accessible(p, a)
  /\ IF e # NoPte /\ e.write
     THEN objs' = Store(objs, e.obj, n, w, x) /\ UNCHANGED pte
     ELSE /\ objs' = Store(LookupForWrite(objs, vma[p][a].obj, n), vma[p][a].obj, n, w, x)
          /\ pte' = [pte EXCEPT ![p][a][n] = [obj |-> vma[p][a].obj, write |-> TRUE]]
  /\ UNCHANGED <<p_state, vma>>

(* copy_from_user and copy_to_user in a system call of p: the kernel goes   *)
(* to the frame itself and leaves the page table as it is.                  *)
vmmap_read(p, a, n) ==
  /\ Accessible(p, a)
  /\ objs' = LookupForRead(objs, vma[p][a].obj, n)
  /\ UNCHANGED <<p_state, vma, pte>>

vmmap_write(p, a, n, w, x) ==
  /\ Accessible(p, a)
  /\ objs' = Store(LookupForWrite(objs, vma[p][a].obj, n), vma[p][a].obj, n, w, x)
  /\ UNCHANGED <<p_state, vma, pte>>

CowNext ==
  \E p \in Process :
    \/ do_exit(p)
    \/ \E c \in Process : do_fork(p, c)
    \/ \E a \in Area :
         \/ \E k \in MapKind : vmmap_map(p, a, k[1], k[2])
         \/ do_munmap(p, a)
         \/ vmmap_destroy(p, a)
         \/ \E n \in Page :
              \/ UserRead(p, a, n)
              \/ vmmap_read(p, a, n)
              \/ \E w \in Word, x \in Written : UserWrite(p, a, n, w, x) \/ vmmap_write(p, a, n, w, x)

CowSpec == CowInit /\ [][CowNext]_cowVars
-----------------------------------------------------------------------------
(* The state has the shape of the kernel's structures.                      *)
CowTypeOK ==
  /\ p_state \in [Process -> {"none", "running", "exiting"}]
  /\ vma \in [Process -> [Area -> {NoArea} \cup [obj : Object, shared : BOOLEAN]]]
  /\ pte \in [Process -> [Area -> [Page ->
                {NoPte} \cup [obj : Object, write : BOOLEAN]]]]
  /\ objs \in [Object -> [kind : {"free", "anon", "shadow", "file"},
                          mmo_refcount : Nat,
                          mmo_shadowed : Object \cup {NoObj},
                          mmo_bottom_obj : Object \cup {NoObj},
                          res : [Page -> [Word -> Value] \cup {NotResident}]]]

Users(o) == {u \in Process \X Area : vma[u[1]][u[2]] # NoArea /\ vma[u[1]][u[2]].obj = o}
References(o) ==
  Cardinality(Users(o))
  + Cardinality({s \in Object : objs[s].mmo_shadowed = o})
  + Cardinality({s \in Object : objs[s].mmo_bottom_obj = o})
  + (IF o = File THEN 1 ELSE 0)

Beneath(os, o) ==
  LET b[x \in Object] == IF os[x].mmo_shadowed = NoObj THEN {x}
                         ELSE {x} \cup b[os[x].mmo_shadowed]
  IN  b[o]
Reachable(o) == \E p \in Process, a \in Area : vma[p][a] # NoArea /\ o \in Beneath(objs, vma[p][a].obj)

(* The reference count that decides when an object is freed is the number   *)
(* of areas, shadow objects and bottom pointers that name it, and its       *)
(* resident pages, after any sequence of forks, faults, unmaps and exits    *)
(* (fork.c:107-115, shadow.c:117-151, anon.c:115-150); an object that no    *)
(* address space leads to any more has been freed.                          *)
RefcountExact ==
  \A o \in Object :
    IF objs[o].kind = "free" THEN References(o) = 0
    ELSE /\ objs[o].mmo_refcount = References(o) + mmo_nrespages(objs, o)
         /\ o = File \/ Reachable(o)

(* The objects hang together: what a chain is made of is there as long as   *)
(* an area shows it, and no longer.                                         *)
ObjectsSound == CowTypeOK /\ RefcountExact

(* No page table maps a frame that has been freed, nor a frame of an object *)
(* outside the chain of the area (shadow.c:126-150, pagetable.c:173-206).   *)
MapsLiveFrames ==
  \A p \in Process, a \in Area, n \in Page : pte[p][a][n] # NoPte =>
    /\ vma[p][a] # NoArea
    /\ pte[p][a][n].obj \in Beneath(objs, vma[p][a].obj)
    /\ Resident(objs, pte[p][a][n].obj, n)

(* A writable entry of a private area maps a frame that no other address    *)
(* space can reach (pagefault.c:110-131, fork.c:141).                       *)
WritesStayPrivate ==
  \A p, q \in Process, a, b \in Area, n \in Page :
    /\ pte[p][a][n] # NoPte /\ pte[p][a][n].write
    /\ ~vma[p][a].shared
    /\ <<q, b>> # <<p, a>> /\ vma[q][b] # NoArea
    => pte[p][a][n].obj \notin Beneath(objs, vma[q][b].obj)

(* What the entry of a page maps is what a lookup finds for it.             *)
Current(p, a, n) ==
  pte[p][a][n] # NoPte => pte[p][a][n].obj = Holder(objs, vma[p][a].obj, n)

(* Nothing but the kernel's own write to a page leaves an old frame of it   *)
(* mapped (pagefault.c:69-135, fork.c:141, pframe.c:570-601).               *)
StaleOnlyByKernelWrite ==
  [][\A p \in Process, a \in Area, n \in Page :
       Current(p, a, n) /\ ~Current(p, a, n)' => \E w \in Word, x \in Written : vmmap_write(p, a, n, w, x)]_cowVars
-----------------------------------------------------------------------------
OwnPage(p, a, n) ==
  LET h == Holder(objs, vma[p][a].obj, n)
  IN  IF h = Bottom(objs, vma[p][a].obj) THEN NotResident ELSE objs[h].res[n]

viewBar ==
  [p \in Process |-> [a \in Area |->
     IF vma[p][a] = NoArea THEN NoArea
     ELSE [seg |-> Bottom(objs, vma[p][a].obj),
           shared |-> vma[p][a].shared,
           own |-> [n \in Page |-> OwnPage(p, a, n)]]]]

storeBar ==
  [o \in Object |-> [n \in Page |->
     IF objs[o].kind \in {"free", "shadow"} THEN Zeroed
     ELSE IF Resident(objs, o, n) THEN objs[o].res[n] ELSE Fresh(objs, o, n)]]

Mem == INSTANCE Memory WITH view <- viewBar, store <- storeBar,
                            Segment <- Object, NotOwn <- NotResident

(* The objects implement private and shared memory: a write reaches the     *)
(* writer's own view or, when it is shared, every view of the segment, and  *)
(* fork gives the child its parent's memory.                                *)
ImplementsMemory == Mem!MemorySpec
=============================================================================
