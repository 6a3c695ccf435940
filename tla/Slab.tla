-------------------------------- MODULE Slab --------------------------------
(***************************************************************************)
(* The slab allocator, kernel/mm/slab.c, on the page allocator, and the    *)
(* callers of both: page_alloc_n and page_free_n, slab_allocator_create,   *)
(* slab_obj_alloc and slab_obj_free, kmalloc and kfree.                    *)
(*                                                                         *)
(* None of the calls blocks and no interrupt handler makes one, so that    *)
(* each is one step.  A slab is a block of pages: sa_slab_nobjs objects,   *)
(* each with its slab_bufctl behind it, and then the struct slab itself.   *)
(***************************************************************************)
EXTENDS PageAlloc

CONSTANTS
  Cache,            (* every struct slab_allocator                         *)
  Self,             (* slab_allocator_allocator                            *)
  kmalloc_allocators, (* the buckets of kmalloc, smallest first             *)
  ObjSize,          (* cache -> the size it is created with                *)
  PAGE_SIZE, SlabSize, BufctlSize, RedZone, Header, (* sizes of C types     *)
  SLAB_MAX_ORDER,
  NPagesAsked,      (* the arguments page_alloc_n is called with           *)
  KmallocSizes,     (* and kmalloc                                         *)
  MaxHeld           (* how much the callers have allocated at a time       *)

(* The kernel panics when it is asked for more pages than the largest block *)
(* has, and when one object does not fit there (page.c 386, slab.c 151).    *)
ASSUME SlabAssumption ==
  /\ PAGE_SIZE \in Nat /\ SlabSize \in Nat /\ BufctlSize \in Nat \ {0}
  /\ RedZone \in Nat /\ Header \in Nat
  /\ SLAB_MAX_ORDER \in Nat /\ SLAB_MAX_ORDER <= PAGE_NSIZES
  /\ Self \in Cache /\ ObjSize \in [Cache -> Nat \ {0}]
  /\ kmalloc_allocators \in Seq(Cache \ {Self})
  /\ PAGE_SIZE > SlabSize
  /\ \A asked \in NPagesAsked : asked \in Nat /\ asked <= npages[Top]
  /\ \A c \in Cache :
       PAGE_SIZE * npages[Top] >= ObjSize[c] + 2 * RedZone + BufctlSize + SlabSize

VARIABLES
  group,            (* the page group                                      *)
  sa_slabs,         (* cache -> its slabs, the list head first             *)
  slab_allocators,  (* the caches created so far, the list head first      *)
  held              (* what the callers have and have not freed            *)

kmemVars == <<group, sa_slabs, slab_allocators, held>>
-----------------------------------------------------------------------------
(* The layout of a slab                                                     *)
slab_size(objsize, nobjs) == nobjs * (objsize + BufctlSize) + SlabSize

slab_nobjs(objsize, order) ==
  (PAGE_SIZE * npages[order] - SlabSize) \div (objsize + BufctlSize)

slab_waste(objsize, order) ==
  PAGE_SIZE * npages[order] - slab_size(objsize, slab_nobjs(objsize, order))

(* calc_slab_size: from the smallest block that holds an object up, the     *)
(* first that wastes least.                                                 *)
minorder(objsize) ==
  CHOOSE n \in Order : /\ PAGE_SIZE * npages[n] >= slab_size(objsize, 1)
                       /\ \A m \in Order : m < n => PAGE_SIZE * npages[m] < slab_size(objsize, 1)

calc_slab_size(objsize) ==
  LET tried == {minorder(objsize)} \cup (minorder(objsize) + 1) .. (SLAB_MAX_ORDER - 1) IN
    CHOOSE n \in tried : \A m \in tried :
      /\ slab_waste(objsize, n) <= slab_waste(objsize, m)
      /\ slab_waste(objsize, n) = slab_waste(objsize, m) => n <= m

sa_objsize == [c \in Cache |-> ObjSize[c] + 2 * RedZone]
sa_order == [c \in Cache |-> calc_slab_size(sa_objsize[c])]
sa_slab_nobjs == [c \in Cache |-> slab_nobjs(sa_objsize[c], sa_order[c])]
-----------------------------------------------------------------------------
Memory == [group |-> group, sa_slabs |-> sa_slabs]

(* One turn of the inner loop of slab_allocators_reclaim, with the number   *)
(* of slabs that stay: a slab without objects goes.                         *)
free_slab(k, c) ==
  LET m == k.mem
      slab == m.sa_slabs[c][k.kept + 1]
  IN  [k EXCEPT !.mem = [group |-> page_free_order(m.group, slab.s_addr, sa_order[c]),
                         sa_slabs |-> [m.sa_slabs EXCEPT ![c] = RemoveAt(@, k.kept + 1)]]]

reclaim_whatever(k, c) ==
  IF k.mem.sa_slabs[c][k.kept + 1].s_inuse <= 1 THEN free_slab(k, c) ELSE [k EXCEPT !.kept = @ + 1]

reclaim_slab(k, c) ==
  IF k.mem.sa_slabs[c][k.kept + 1].s_inuse = 0 THEN free_slab(k, c) ELSE [k EXCEPT !.kept = @ + 1]

reclaim_cache(m, c) ==
  Iterate(LAMBDA k, n : reclaim_slab(k, c), [mem |-> m, kept |-> 0], 0, Len(m.sa_slabs[c])).mem

(* With target 0 every such slab of every cache goes.                       *)
slab_allocators_reclaim(m, caches) ==
  Iterate(LAMBDA k, n : reclaim_cache(k, caches[n]), m, 0, Len(caches))

(* page_alloc_order: without a block, memory is reclaimed, and the call     *)
(* fails all the same: num_retrys is 0 without the shadow daemon.           *)
alloc_block(m, caches, order) ==
  IF Available(m.group, order)
  THEN LET got == page_alloc_order(m.group, order) IN
         [addr |-> got.addr, mem |-> [m EXCEPT !.group = got.group]]
  ELSE [addr |-> NULL, mem |-> slab_allocators_reclaim(m, caches)]

HasFree(m, c) == {i \in DOMAIN m.sa_slabs[c] : m.sa_slabs[c][i].s_inuse < sa_slab_nobjs[c]}

NewSlab(addr, nobjs) == [s_addr |-> addr, s_inuse |-> 0, s_free |-> [i \in 1 .. nobjs |-> i]]

(* slab_allocator_grow, when there is a block for it                        *)
slab_allocator_grow(m, c, addr) ==
  [m EXCEPT !.sa_slabs[c] = <<NewSlab(addr, sa_slab_nobjs[c])>> \o @]

(* The first object of the first slab with one                              *)
TakeObject(m, c) ==
  LET i == CHOOSE n \in HasFree(m, c) : \A o \in HasFree(m, c) : n <= o
      slab == m.sa_slabs[c][i]
  IN  [addr |-> slab.s_addr, obj |-> Head(slab.s_free),
       mem |-> [m EXCEPT !.sa_slabs[c][i].s_free = Tail(@),
                         !.sa_slabs[c][i].s_inuse = @ + 1]]

slab_obj_alloc(m, caches, c) ==
  IF HasFree(m, c) # {} THEN TakeObject(m, c)
  ELSE LET block == alloc_block(m, caches, sa_order[c]) IN
         IF block.addr = NULL THEN [addr |-> NULL, obj |-> 0, mem |-> block.mem]
         ELSE TakeObject(slab_allocator_grow(block.mem, c, block.addr), c)

obj_free_keeps_count(m, c, addr, obj) ==
  LET slabs == m.sa_slabs[c] IN
    [m EXCEPT !.sa_slabs[c] =
       [i \in DOMAIN slabs |-> IF slabs[i].s_addr # addr THEN slabs[i]
                               ELSE [slabs[i] EXCEPT !.s_free = <<obj>> \o @]]]

(* The object finds its slab through its slab_bufctl.                       *)
obj_free(m, c, addr, obj) ==
  LET slabs == m.sa_slabs[c] IN
    [m EXCEPT !.sa_slabs[c] =
       [i \in DOMAIN slabs |-> IF slabs[i].s_addr # addr THEN slabs[i]
                               ELSE [slabs[i] EXCEPT !.s_free = <<obj>> \o @, !.s_inuse = @ - 1]]]

(* allocator_init: the new cache, which has no slab yet                     *)
AddCache(caches, c) == <<c>> \o caches
-----------------------------------------------------------------------------
Pages(addr, order) == [kind |-> "pages", addr |-> addr, order |-> order]
Object(c, addr, obj) == [kind |-> "object", cache |-> c, addr |-> addr, obj |-> obj]

Becomes(m) == group' = m.group /\ sa_slabs' = m.sa_slabs

CanAsk == group.intact /\ Cardinality(held) < MaxHeld

(* page_alloc (one page) and page_alloc_n                                   *)
page_alloc_n(asked) ==
  LET order == OrderOf(asked)
      got == alloc_block(Memory, slab_allocators, order)
  IN  /\ CanAsk
      /\ Becomes(got.mem)
      /\ held' = IF got.addr = NULL THEN held ELSE held \cup {Pages(got.addr, order)}
      /\ UNCHANGED slab_allocators

page_free_n(h) ==
  /\ group.intact
  /\ h.kind = "pages"
  /\ group' = page_free_order(group, h.addr, h.order)
  /\ held' = held \ {h}
  /\ UNCHANGED <<sa_slabs, slab_allocators>>

ObjAlloc(c) ==
  LET got == slab_obj_alloc(Memory, slab_allocators, c)
  IN  /\ CanAsk
      /\ Becomes(got.mem)
      /\ held' = IF got.addr = NULL THEN held ELSE held \cup {Object(c, got.addr, got.obj)}

Buckets == {kmalloc_allocators[i] : i \in DOMAIN kmalloc_allocators}

(* An object of a cache somebody has created                                *)
SlabObjAlloc(c) ==
  /\ c \in Range(slab_allocators) \ (Buckets \cup {Self})
  /\ ObjAlloc(c)
  /\ UNCHANGED slab_allocators

(* The smallest bucket for the size and the pointer kfree needs             *)
kmalloc(size) ==
  /\ \E i \in DOMAIN kmalloc_allocators :
       /\ ObjSize[kmalloc_allocators[i]] >= size + Header
       /\ \A j \in 1 .. (i - 1) : ObjSize[kmalloc_allocators[j]] < size + Header
       /\ ObjAlloc(kmalloc_allocators[i])
  /\ UNCHANGED slab_allocators

(* slab_obj_free and, with the cache kmalloc noted, kfree                   *)
SlabObjFree(h) ==
  /\ group.intact
  /\ h.kind = "object" /\ h.cache # Self
  /\ Becomes(obj_free(Memory, h.cache, h.addr, h.obj))
  /\ held' = held \ {h}
  /\ UNCHANGED slab_allocators

slab_allocator_create(c) ==
  LET got == slab_obj_alloc(Memory, slab_allocators, Self)
  IN  /\ CanAsk
      /\ c \notin Range(slab_allocators)
      /\ Becomes(got.mem)
      /\ IF got.addr = NULL
         THEN UNCHANGED <<held, slab_allocators>>
         ELSE /\ held' = held \cup {Object(Self, got.addr, got.obj)}
              /\ slab_allocators' = AddCache(slab_allocators, c)
-----------------------------------------------------------------------------
(* page_add_range and slab_init: the allocator of allocators needs no       *)
(* memory for itself, each bucket of kmalloc one object of it.              *)
CreateBucket(k, c) ==
  LET got == slab_obj_alloc(k.mem, k.caches, Self) IN
    [mem |-> got.mem, caches |-> AddCache(k.caches, c),
     held |-> k.held \cup {Object(Self, got.addr, got.obj)}]

slab_init ==
  Iterate(LAMBDA k, n : CreateBucket(k, kmalloc_allocators[n]),
          [mem |-> [group |-> pagegroup_create, sa_slabs |-> [c \in Cache |-> <<>>]],
           caches |-> AddCache(<<>>, Self), held |-> {}],
          0, Len(kmalloc_allocators))

(* The kernel panics when it cannot create the buckets (slab.c 512).        *)
ASSUME SlabInitAssumption == \A h \in slab_init.held : h.addr # NULL

KmemInit ==
  /\ group = slab_init.mem.group /\ sa_slabs = slab_init.mem.sa_slabs
  /\ slab_allocators = slab_init.caches
  /\ held = slab_init.held

KmemNext ==
  \/ \E n \in NPagesAsked : page_alloc_n(n)
  \/ \E c \in Cache : SlabObjAlloc(c) \/ slab_allocator_create(c)
  \/ \E size \in KmallocSizes : kmalloc(size)
  \/ \E h \in held : page_free_n(h) \/ SlabObjFree(h)

KmemSpec == KmemInit /\ [][KmemNext]_kmemVars
-----------------------------------------------------------------------------
Slabs == {x \in Cache \X (1 .. NPages) : x[2] \in DOMAIN sa_slabs[x[1]]}
SlabAt(x) == sa_slabs[x[1]][x[2]]
SlabPages(x) == Block(SlabAt(x).s_addr, sa_order[x[1]])
HeldOf(x) == {h.obj : h \in {o \in held : /\ o.kind = "object" /\ o.cache = x[1]
                                          /\ o.addr = SlabAt(x).s_addr}}
HeldPages == {h \in held : h.kind = "pages"}

(* Every page is in one place only: in one free block, in one slab, or with *)
(* one caller, and page_freecount counts the free ones; of the objects of a *)
(* slab those on s_free and those handed out are all and are none twice,    *)
(* and s_inuse, by which a slab is reclaimed, counts the latter             *)
(* (page.c 130 to 430, slab.c 280 to 400).                                  *)
MemoryAccounted ==
  group.intact =>
    /\ \A p \in Page :
         Cardinality({b \in FreeBlocks(group) : p \in Block(b[1], b[2])})
         + Cardinality({x \in Slabs : p \in SlabPages(x)})
         + Cardinality({h \in HeldPages : p \in Block(h.addr, h.order)}) = 1
    /\ group.page_freecount = Cardinality(FreePages(group))
    /\ \A x \in Slabs :
         /\ ToSet(SlabAt(x).s_free) \cup HeldOf(x) = 1 .. sa_slab_nobjs[x[1]]
         /\ ToSet(SlabAt(x).s_free) \cap HeldOf(x) = {}
         /\ IsInjective(SlabAt(x).s_free)
         /\ SlabAt(x).s_inuse = Cardinality(HeldOf(x))

(* Free memory is never more split than it must be: the bit of two buddies  *)
(* tells whether one of them is free, and below the largest order they are  *)
(* never free both (page.c 162 to 195, 299 to 345).                         *)
FreeBuddiesJoined ==
  group.intact =>
    \A order \in 0 .. (Top - 1) : \A i \in 0 .. (NPages \div npages[order + 1]) :
      LET low == i * npages[order + 1]
          free == {a \in {low, low + npages[order]} : <<a, order>> \in FreeBlocks(group)}
      IN  ~InTail(low) =>
            /\ Cardinality(free) <= 1
            /\ i \in group.pg_map[order + 1] <=> free # {}

(* The lists are only ever broken by a block behind those of the largest    *)
(* order: its bit starts as if its buddy, which is in use or not in the     *)
(* group, were in the same state, so that when it is freed the two are      *)
(* joined (page.c 92 to 97, 299 to 320).                                    *)
BrokenByTailOnly ==
  [][group.intact /\ ~group'.intact =>
       \E p \in FreePages(group') \ FreePages(group) : InTail(p)]_kmemVars

(* The bytes of a block of pages, or of an object between its red zones      *)
BytesOf(h) ==
  IF h.kind = "pages"
  THEN h.addr * PAGE_SIZE .. ((h.addr + npages[h.order]) * PAGE_SIZE - 1)
  ELSE LET first == h.addr * PAGE_SIZE + (h.obj - 1) * (sa_objsize[h.cache] + BufctlSize) + RedZone
       IN  first .. (first + ObjSize[h.cache] - 1)

(* What the callers get is theirs alone until they free it, over whatever   *)
(* splits, joins, growing and reclaiming (page.h 52 to 72, slab.h).         *)
MemoryHandedOut == INSTANCE Heap WITH Size <- NPages * PAGE_SIZE,
                                      given <- {BytesOf(h) : h \in held}
ImplementsHeap == MemoryHandedOut!Spec
=============================================================================
