-------------------------------- MODULE Vnode --------------------------------
(***************************************************************************)
(* Vnodes and their cached pages: vget, vput (fs/vnode.c) and the page     *)
(* operations pframe_get, pframe_dirty, pframe_clean, pframe_free and      *)
(* pframe_clean_all (mm/pframe.c), over a file system whose operations     *)
(* block.                                                                  *)
(*                                                                         *)
(* Threads are not preempted: an action is what a thread does from one     *)
(* scheduling point to the next.  The scheduling points are sleeping on a  *)
(* wait queue and the file system's own operations, which wait for the     *)
(* disk.  A frame is named by its vnode and page.                          *)
(***************************************************************************)
EXTENDS Naturals, FiniteSets

CONSTANTS
  Thread,
  VnodeT,        (* the vnode_t structures of the slab                     *)
  Ino,           (* inode numbers of the file system                       *)
  Dir,           (* directories, each with at most one name for an inode   *)
  Page,
  MaxWrite,      (* bound: writes to a page                                *)
  Written,       (* bound: the pages that are written to                   *)
  FillOutcomes, DirtyOutcomes, CleanOutcomes,  (* TRUE: the file system's  *)
                 (* operation may succeed; FALSE: it may fail              *)
  NoVnode, NoIno, NoName, NoFrame, Junk

ASSUME VnodeAssumption ==
  /\ IsFiniteSet(Thread) /\ IsFiniteSet(Page) /\ VnodeT # {}
  /\ MaxWrite \in Nat
  /\ FillOutcomes \subseteq BOOLEAN /\ DirtyOutcomes \subseteq BOOLEAN
  /\ CleanOutcomes \subseteq BOOLEAN
  /\ NoVnode \notin VnodeT /\ NoIno \notin Ino
  /\ NoName \notin Dir \X Ino /\ NoFrame \notin VnodeT \X Page
  /\ Junk \notin Nat

VARIABLES
  thread,   (* thread -> [pc, vn, name, pf, want, left, stale]; name is    *)
            (* what it looks up, holding the mutex of the directory; left  *)
            (* are the frames vput has still to free; stale is what        *)
            (* vfrom_node's structure held when it was freed               *)
  vnode,    (* vnode_t -> [vn_vno, busy, vn_refcount]                      *)
  pframe,   (* frame -> [state, dirty, data]                               *)
  pte,      (* thread -> page -> the user program may write to it          *)
  names,    (* the directory entries, <<directory, inode>>                 *)
  disk,     (* inode -> page -> the write last saved                       *)
  latest,   (* inode -> page -> the last write                             *)
  asked,    (* thread -> latest when it called the sync it is in           *)
  panic,    (* an assertion of vput has stopped the kernel                 *)
  revived   (* history: inodes that got a name again when nothing named or *)
            (* used them any more                                          *)

vnodeVars == <<thread, vnode, pframe, pte, names, disk, latest, asked, panic, revived>>

Frame == VnodeT \X Page
FreeVnode == [vn_vno |-> NoIno, busy |-> FALSE, vn_refcount |-> 0]
NoPage == [state |-> "absent", dirty |-> FALSE, data |-> 0]
Respages(v) == {f \in {v} \X Page : pframe[f].state # "absent"}
vn_nrespages(v) == Cardinality(Respages(v))
Busy(f) == pframe[f].state = "busy"
Idle(f) == pframe[f].state = "idle"
Data(f, x) == x[vnode[f[1]].vn_vno][f[2]]

(* thread t goes on to pc                                                   *)
Goto(t, th, pc) == [th EXCEPT ![t].pc = pc]

Asleep(th, f) ==
  {u \in Thread : th[u].pf = f /\ th[u].pc \in {"pf_waitq", "vput_waitq", "sync_waitq"}}
Awake(r) ==
  [r EXCEPT !.pc = CASE @ = "pf_waitq" -> "get" [] @ = "vput_waitq" -> "vput"
                     [] @ = "sync_waitq" -> "sync"]

pf_broadcast_one(f, th) ==
  IF Asleep(th, f) = {} THEN th
  ELSE LET u == CHOOSE u \in Asleep(th, f) : TRUE IN [th EXCEPT ![u] = Awake(@)]

(* sched_broadcast_on(&pf->pf_waitq): the sleepers look at the page again   *)
pf_broadcast(f, th) ==
  [u \in Thread |-> IF u \in Asleep(th, f) THEN Awake(th[u]) ELSE th[u]]

Blank == [i \in Ino |-> [p \in Page |-> 0]]

VnodeInit ==
  /\ thread = [t \in Thread |-> [pc |-> "user", vn |-> NoVnode, name |-> NoName,
                                 pf |-> NoFrame, want |-> "read", left |-> {},
                                 stale |-> NoIno]]
  /\ vnode = [v \in VnodeT |-> FreeVnode]
  /\ pframe = [f \in Frame |-> NoPage]
  /\ pte = [t \in Thread |-> [p \in Page |-> FALSE]]
  /\ names = Dir \X Ino
  /\ disk = Blank
  /\ latest = disk
  /\ asked = [t \in Thread |-> disk]
  /\ panic = FALSE
  /\ revived = {}
-----------------------------------------------------------------------------
(* vget.  A busy vnode is waited for, and looked for again afterwards; a    *)
(* vnode that is not in use is brought in, if the slab has one.             *)
InUse_brought_in(i) == {v \in VnodeT : vnode[v].vn_vno = i /\ ~vnode[v].busy}
InUse(i) == {v \in VnodeT : vnode[v].vn_vno = i}
Linked(i) == \E d \in Dir : <<d, i>> \in names          (* query_vnode      *)

(* vget returns: to open_namev of do_link, or to who opens or maps a file.  *)
Got(want) == IF want = "link" THEN "opened" ELSE "user"

Find(t, name, want) ==
  LET Now(pc, v, nm) ==
        [thread EXCEPT ![t] = [@ EXCEPT !.pc = pc, !.vn = v, !.name = nm, !.want = want]]
  IN
  /\ \/ \E v \in InUse(name[2]) :
          /\ vnode[v].busy
          /\ thread' = Now("vn_waitq", v, name)
          /\ UNCHANGED vnode
     \/ \E v \in InUse(name[2]) :
          /\ ~vnode[v].busy
          /\ thread' = Now(Got(want), v, NoName)
          /\ vnode' = [vnode EXCEPT ![v].vn_refcount = @ + 1]
     \/ /\ InUse(name[2]) = {}
        /\ \E v \in InUse(NoIno) :
             /\ thread' = Now("read_vnode", v, name)
             /\ vnode' = [vnode EXCEPT ![v] = [vn_vno |-> name[2], busy |-> TRUE, vn_refcount |-> 0]]
     \/ /\ InUse(name[2]) = {}      (* slab_obj_alloc fails: yield          *)
        /\ thread' = Now("find", NoVnode, name)
        /\ UNCHANGED vnode
  /\ UNCHANGED <<pframe, pte, names, disk, latest, asked, panic, revived>>

(* The file system's lookup holds the mutex of the directory from finding   *)
(* the entry until vget returns, and its unlink and link need the mutex.    *)
Locked(d) == \E u \in Thread : thread[u].name # NoName /\ thread[u].name[1] = d

vget(t, d, i, want) ==
  /\ thread[t].pc = "user" /\ thread[t].vn = NoVnode
  /\ <<d, i>> \in names /\ ~Locked(d)
  /\ Find(t, <<d, i>>, want)

FindAgain(t) == thread[t].pc = "find" /\ Find(t, thread[t].name, thread[t].want)

(* read_vnode returns to vget                                               *)
VnodeIsIn(t) ==
  LET v == thread[t].vn IN
  /\ thread[t].pc = "read_vnode"
  /\ vnode' = [vnode EXCEPT ![v] = [@ EXCEPT !.busy = FALSE, !.vn_refcount = 1]]
  /\ thread' = [thread EXCEPT ![t] = [@ EXCEPT !.pc = Got(thread[t].want), !.name = NoName]]
  /\ UNCHANGED <<pframe, pte, names, disk, latest, asked, panic, revived>>

(* Threads that use an inode and are not giving it up                       *)
Users(i) ==
  {t \in Thread : /\ thread[t].vn \in InUse(i)
                  /\ thread[t].pc \notin {"find", "vn_waitq", "read_vnode", "vput", "vput_waitq",
                                          "delete_vnode", "link"}}

(* do_link goes on with vfrom_node after it has put it: vput, dir_namev and *)
(* lookup may all have blocked since.  The structure may be in use, on its  *)
(* way out, free with what it held last, or another inode's.  A name that   *)
(* exists is looked up and put, as vget and vput do: -EEXIST.               *)
do_link(t, d) ==
  LET vfrom_node == vnode[thread[t].vn]
      i == IF vfrom_node.vn_vno = NoIno THEN thread[t].stale ELSE vfrom_node.vn_vno
  IN
  /\ thread[t].pc = "link"
  /\ ~Locked(d)
  /\ names' = names \cup {<<d, i>>}
  /\ revived' = IF Linked(i) \/ Users(i) # {} THEN revived ELSE revived \cup {i}
  /\ thread' = [thread EXCEPT ![t] = [@ EXCEPT !.pc = "user", !.vn = NoVnode, !.want = "read",
                                               !.stale = NoIno]]
  /\ UNCHANGED <<vnode, pframe, pte, disk, latest, asked, panic>>

(* do_unlink, once its lookup has a reference to the vnode                  *)
do_unlink(t, d) ==
  /\ thread[t].pc = "user" /\ thread[t].vn # NoVnode
  /\ ~Locked(d)
  /\ names' = names \ {<<d, vnode[thread[t].vn].vn_vno>>}
  /\ UNCHANGED <<thread, vnode, pframe, pte, disk, latest, asked, panic, revived>>
-----------------------------------------------------------------------------
(* vput.  The last reference but those of the pages to a vnode without a    *)
(* name frees the pages, waiting for the busy ones.  The last reference of  *)
(* all takes the vnode out.  A page is unmapped before it is freed.         *)
Uncache(S) == pframe' = [f \in Frame |-> IF f \in S THEN NoPage ELSE pframe[f]]
Unref(v, n) == [vnode EXCEPT ![v].vn_refcount = @ - n]

remove_from_pts_none(S, pt) == pt
remove_from_pts(S, pt) ==
  [t \in Thread |-> [p \in Page |-> pt[t][p] /\ <<thread[t].vn, p>> \notin S]]

(* vput returns to its caller; do_link keeps the pointer.                   *)
VputReturns(r) ==
  IF r.want = "link" THEN [r EXCEPT !.pc = "link"] ELSE [r EXCEPT !.pc = "user", !.vn = NoVnode]

TakeOut(t, v) ==
  /\ vnode' = [vnode EXCEPT ![v] = [@ EXCEPT !.busy = TRUE, !.vn_refcount = 0]]
  /\ thread' = [thread EXCEPT ![t] = [@ EXCEPT !.pc = "delete_vnode", !.pf = NoFrame, !.left = {}]]
  /\ UNCHANGED panic

(* pframe_free of the pages L of v in the order of the list mmo_respages,   *)
(* with the page tables pt.  Nothing but them and the caller may refer to   *)
(* v when all are freed: who got the vnode while the loop slept, or a page  *)
(* that went to the head of the list meanwhile, fails the assertions.       *)
FreePages(t, v, L, pt) ==
  \/ \E f \in L, S \in SUBSET L :
       /\ Busy(f) /\ \A g \in S : Idle(g)
       /\ Uncache(S)
       /\ pte' = remove_from_pts(S, pt)
       /\ vnode' = Unref(v, Cardinality(S))
       /\ thread' = [thread EXCEPT ![t] = [@ EXCEPT !.pc = "vput_waitq", !.pf = f, !.left = L \ S]]
       /\ UNCHANGED panic
  \/ /\ \A f \in L : Idle(f)
     /\ Respages(v) = L /\ vnode[v].vn_refcount = Cardinality(L) + 1
     /\ Uncache(L)
     /\ pte' = remove_from_pts(L, pt)
     /\ TakeOut(t, v)
  \/ /\ \A f \in L : Idle(f)
     /\ Respages(v) # L \/ vnode[v].vn_refcount # Cardinality(L) + 1
     /\ panic' = TRUE
     /\ UNCHANGED <<thread, vnode, pframe, pte>>

vput(t) ==
  LET v == thread[t].vn
      unmapped == [pte EXCEPT ![t] = [p \in Page |-> FALSE]]
  IN
  /\ thread[t].pc \in {"user", "opened"} /\ v # NoVnode
  /\ \/ /\ vn_nrespages(v) = vnode[v].vn_refcount - 1
        /\ ~Linked(vnode[v].vn_vno)
        /\ FreePages(t, v, Respages(v), unmapped)
     \/ /\ vn_nrespages(v) # vnode[v].vn_refcount - 1 \/ Linked(vnode[v].vn_vno)
        /\ \/ vnode[v].vn_refcount = 1 /\ TakeOut(t, v)
           \/ /\ vnode[v].vn_refcount # 1
              /\ vnode' = Unref(v, 1)
              /\ thread' = [thread EXCEPT ![t] = VputReturns(@)]
              /\ UNCHANGED panic
        /\ pte' = unmapped
        /\ UNCHANGED pframe
  /\ UNCHANGED <<names, disk, latest, asked, revived>>

VputAgain(t) ==
  /\ thread[t].pc = "vput"
  /\ FreePages(t, thread[t].vn, thread[t].left, pte)
  /\ UNCHANGED <<names, disk, latest, asked, revived>>

(* delete_vnode returns to vput, which wakes those who wait in vget.        *)
VnodeIsOut(t) ==
  LET v == thread[t].vn IN
  /\ thread[t].pc = "delete_vnode"
  /\ vnode' = [vnode EXCEPT ![v] = FreeVnode]
  /\ thread' = [u \in Thread |->
       LET r == IF u = t THEN VputReturns(thread[u]) ELSE thread[u] IN
       CASE r.vn = v /\ r.pc = "vn_waitq" -> [r EXCEPT !.pc = "find", !.vn = NoVnode]
         [] r.vn = v /\ r.pc = "link" -> [r EXCEPT !.stale = vnode[v].vn_vno]
         [] OTHER -> r]
  /\ UNCHANGED <<pframe, pte, names, disk, latest, asked, panic, revived>>
-----------------------------------------------------------------------------
(* What the caller of pframe_get does once it has the page, up to its next  *)
(* scheduling point, from the pages pg and threads th:                      *)
(*   "read":  a page fault maps the page for reading;                       *)
(*   "write": a page fault pins it, calls pframe_dirty and maps it for      *)
(*            writing, whatever pframe_dirty returns;                       *)
(*   "copy":  vmmap_write copies to the page, then calls pframe_dirty.      *)
(* The dirtypage of a page that is dirty does nothing.                      *)
Finished(t, th) == [th EXCEPT ![t] = [@ EXCEPT !.pc = "user", !.pf = NoFrame, !.want = "read"]]
Dirtying(f, pg) == [pg EXCEPT ![f].state = "busy"]
NextWrite(f) == IF Data(f, latest) < MaxWrite THEN Data(f, latest) + 1 ELSE MaxWrite
Copied(f, pg) == [pg EXCEPT ![f].data = IF @ = Junk THEN Junk ELSE NextWrite(f)]
Wrote(f) == [latest EXCEPT ![vnode[f[1]].vn_vno][f[2]] = NextWrite(f)]

HavePage(t, f, want, pg, th) ==
  \/ /\ want = "read"
     /\ pframe' = pg /\ thread' = Finished(t, th)
     /\ UNCHANGED <<pte, latest>>
  \/ /\ want = "write" /\ pg[f].dirty
     /\ pframe' = pg /\ thread' = Finished(t, th)
     /\ pte' = [pte EXCEPT ![t][f[2]] = TRUE]
     /\ UNCHANGED latest
  \/ /\ want = "write" /\ ~pg[f].dirty
     /\ pframe' = Dirtying(f, pg)
     /\ thread' = [th EXCEPT ![t] = [@ EXCEPT !.pc = "dirtypage", !.pf = f, !.want = want]]
     /\ UNCHANGED <<pte, latest>>
  \/ /\ want = "copy"
     /\ latest' = Wrote(f)
     /\ IF pg[f].dirty
        THEN pframe' = Copied(f, pg) /\ thread' = Finished(t, th)
        ELSE /\ pframe' = Dirtying(f, Copied(f, pg))
             /\ thread' = [th EXCEPT ![t] = [@ EXCEPT !.pc = "dirtypage", !.pf = f, !.want = want]]
     /\ UNCHANGED pte

pframe_get(t, f, want) ==
  /\ \/ /\ pframe[f].state = "absent"
        /\ pframe' = [pframe EXCEPT ![f] = [state |-> "busy", dirty |-> FALSE, data |-> Junk]]
        /\ vnode' = [vnode EXCEPT ![f[1]].vn_refcount = @ + 1]
        /\ thread' = [thread EXCEPT ![t] = [@ EXCEPT !.pc = "fillpage", !.pf = f, !.want = want]]
        /\ UNCHANGED <<pte, latest>>
     \/ /\ Busy(f)
        /\ thread' = [thread EXCEPT ![t] = [@ EXCEPT !.pc = "pf_waitq", !.pf = f, !.want = want]]
        /\ UNCHANGED <<pframe, vnode, pte, latest>>
     \/ /\ Idle(f)
        /\ HavePage(t, f, want, pframe, thread)
        /\ UNCHANGED vnode
  /\ UNCHANGED <<names, disk, asked, panic, revived>>

(* A page fault of a program, or a system call that copies to its memory,   *)
(* in an area that maps the file                                            *)
Access(t, p, want) ==
  /\ thread[t].pc = "user" /\ thread[t].vn # NoVnode
  /\ want # "read" => p \in Written
  /\ want = "copy" => Data(<<thread[t].vn, p>>, latest) < MaxWrite
  /\ pframe_get(t, <<thread[t].vn, p>>, want)

GetAgain(t) == thread[t].pc = "get" /\ pframe_get(t, thread[t].pf, thread[t].want)

(* fillpage returns to pframe_fill.  A failure wakes the waiters like a     *)
(* success; pframe_get then fills the page once more, which is taken to     *)
(* fail again, and returns, leaving the page in the cache.                  *)
PageIsFilled(t) ==
  LET f == thread[t].pf IN
  /\ thread[t].pc \in {"fillpage", "refill"}
  /\ \E ok \in FillOutcomes :
       \/ /\ ok /\ thread[t].pc = "fillpage"
          /\ HavePage(t, f, thread[t].want,
                      [pframe EXCEPT ![f] = [@ EXCEPT !.state = "idle", !.data = Data(f, disk)]],
                      pf_broadcast(f, thread))
       \/ /\ ~ok /\ thread[t].pc = "fillpage"
          /\ thread' = Goto(t, pf_broadcast(f, thread), "refill")
          /\ UNCHANGED <<pframe, pte, latest>>
       \/ /\ ~ok /\ thread[t].pc = "refill"
          /\ pframe' = [pframe EXCEPT ![f].state = "idle"]
          /\ thread' = Finished(t, pf_broadcast(f, thread))
          /\ UNCHANGED <<pte, latest>>
  /\ UNCHANGED <<vnode, names, disk, asked, panic, revived>>

(* dirtypage returns to pframe_dirty, and that to the page fault or the     *)
(* copy, which do not look at what it returned.                             *)
PageIsDirty(t) ==
  LET f == thread[t].pf IN
  /\ thread[t].pc = "dirtypage"
  /\ \E ok \in DirtyOutcomes : pframe' = [pframe EXCEPT ![f] = [@ EXCEPT !.state = "idle", !.dirty = ok]]
  /\ pte' = IF thread[t].want = "write" THEN [pte EXCEPT ![t][f[2]] = TRUE] ELSE pte
  /\ thread' = Finished(t, pf_broadcast(f, thread))
  /\ UNCHANGED <<vnode, names, disk, latest, asked, panic, revived>>

(* The program writes to a page mapped for writing.                         *)
UserWrite(t, p) ==
  LET f == <<thread[t].vn, p>> IN
  /\ thread[t].pc = "user" /\ pte[t][p]
  /\ Data(f, latest) < MaxWrite
  /\ pframe' = Copied(f, pframe)
  /\ latest' = Wrote(f)
  /\ UNCHANGED <<thread, vnode, pte, names, disk, asked, panic, revived>>
-----------------------------------------------------------------------------
(* sync: pframe_clean_all goes through the pages that are not pinned,       *)
(* starting again whenever it has slept or cleaned a page.                  *)
Pinned_whenever_dirtied(f) == \E t \in Thread : thread[t].pf = f /\ thread[t].pc = "dirtypage"
Pinned(f) == \E t \in Thread : thread[t].pf = f /\ thread[t].pc = "dirtypage" /\ thread[t].want = "write"

AllocList == {f \in Frame : pframe[f].state # "absent" /\ ~Pinned(f)}

sync(t) ==
  /\ thread[t].pc = "user"
  /\ thread' = Goto(t, thread, "sync")
  /\ asked' = [asked EXCEPT ![t] = latest]
  /\ UNCHANGED <<vnode, pframe, pte, names, disk, latest, panic, revived>>

(* pframe_clean: the page, no longer dirty nor mapped by any program, goes  *)
(* to cleanpage, which writes it out.                                       *)
pframe_clean(t, f) ==
  /\ pframe' = [pframe EXCEPT ![f] = [@ EXCEPT !.state = "busy", !.dirty = FALSE]]
  /\ pte' = remove_from_pts({f}, pte)
  /\ thread' = [thread EXCEPT ![t] = [@ EXCEPT !.pc = "cleanpage", !.pf = f]]

pframe_clean_all(t) ==
  /\ thread[t].pc = "sync"
  /\ \/ \E f \in AllocList :
          /\ Busy(f)
          /\ thread' = [thread EXCEPT ![t] = [@ EXCEPT !.pc = "sync_waitq", !.pf = f]]
          /\ UNCHANGED <<pframe, pte, asked>>
     \/ \E f \in AllocList :
          /\ Idle(f) /\ pframe[f].dirty
          /\ pframe_clean(t, f)
          /\ UNCHANGED asked
     \/ /\ \A f \in AllocList : Idle(f) /\ ~pframe[f].dirty
        /\ thread' = Finished(t, thread)
        /\ asked' = [asked EXCEPT ![t] = Blank]
        /\ UNCHANGED <<pframe, pte>>
  /\ UNCHANGED <<vnode, names, disk, latest, panic, revived>>

(* cleanpage returns to pframe_clean.  A write-out that failed may or may   *)
(* not have reached the disk.                                               *)
PageIsClean(t) ==
  LET f == thread[t].pf
      written == [disk EXCEPT ![vnode[f[1]].vn_vno][f[2]] = pframe[f].data]
  IN
  /\ thread[t].pc = "cleanpage"
  /\ \E ok \in CleanOutcomes :
       /\ pframe' = [pframe EXCEPT ![f] = [@ EXCEPT !.state = "idle", !.dirty = ~ok]]
       /\ disk' = written \/ (~ok /\ UNCHANGED disk)
  /\ thread' = Goto(t, pf_broadcast(f, thread), "sync")
  /\ UNCHANGED <<vnode, pte, names, latest, asked, panic, revived>>

ThreadStep ==
  \E t \in Thread :
    \/ \E d \in Dir : \/ \E i \in Ino, want \in {"read", "link"} : vget(t, d, i, want)
                      \/ do_link(t, d) \/ do_unlink(t, d)
    \/ FindAgain(t) \/ VnodeIsIn(t)
    \/ vput(t) \/ VputAgain(t) \/ VnodeIsOut(t)
    \/ \E p \in Page : \/ \E want \in {"read", "write", "copy"} : Access(t, p, want)
                       \/ UserWrite(t, p)
    \/ GetAgain(t) \/ PageIsFilled(t) \/ PageIsDirty(t)
    \/ sync(t) \/ pframe_clean_all(t) \/ PageIsClean(t)

Halted == panic /\ UNCHANGED vnodeVars

VnodeNext == (~panic /\ ThreadStep) \/ Halted

VnodeSpec == VnodeInit /\ [][VnodeNext]_vnodeVars
-----------------------------------------------------------------------------
(* The state has the shape of the kernel's structures.                      *)
VnodeTypeOK ==
  /\ thread \in [Thread ->
       [pc : {"user", "find", "vn_waitq", "read_vnode", "opened", "vput", "vput_waitq",
              "delete_vnode", "link", "get", "pf_waitq", "fillpage", "refill", "dirtypage",
              "sync", "sync_waitq", "cleanpage"},
        vn : VnodeT \cup {NoVnode}, name : (Dir \X Ino) \cup {NoName},
        pf : Frame \cup {NoFrame}, want : {"read", "write", "copy", "link"},
        left : SUBSET Frame, stale : Ino \cup {NoIno}]]
  /\ vnode \in [VnodeT -> [vn_vno : Ino \cup {NoIno}, busy : BOOLEAN, vn_refcount : Nat]]
  /\ pframe \in [Frame -> [state : {"absent", "busy", "idle"}, dirty : BOOLEAN,
                           data : 0..MaxWrite \cup {Junk}]]
  /\ pte \in [Thread -> [Page -> BOOLEAN]]
  /\ names \subseteq Dir \X Ino
  /\ disk \in [Ino -> [Page -> 0..MaxWrite \cup {Junk}]]
  /\ latest \in [Ino -> [Page -> 0..MaxWrite]]
  /\ asked \in [Thread -> [Ino -> [Page -> 0..MaxWrite]]]
  /\ panic \in BOOLEAN /\ revived \subseteq Ino

(* Those with a reference to v of their own, pages not counted              *)
Holders(v) ==
  {t \in Thread : thread[t].vn = v
                  /\ thread[t].pc \notin {"find", "vn_waitq", "read_vnode", "delete_vnode", "link"}}

(* The count that decides when a vnode and its pages go is the number of    *)
(* references to it: holders and resident pages (vnode.c:111-318), whatever *)
(* threads sleep in vget, vput and the page operations; and while somebody  *)
(* counts on the vnode it is in use and not on its way in or out.           *)
RefcountAccounted ==
  \A v \in VnodeT :
    /\ vnode[v].vn_refcount = Cardinality(Holders(v)) + vn_nrespages(v)
    /\ Holders(v) # {} => vnode[v].vn_vno # NoIno /\ ~vnode[v].busy

(* Two threads that look for the same inode, one sleeping while the vnode   *)
(* comes in or goes out, never make two vnodes of it (vnode.c:128-189).     *)
OneVnodePerInode ==
  \A v, w \in VnodeT : vnode[v].vn_vno = vnode[w].vn_vno => v = w \/ vnode[v].vn_vno = NoIno

(* "at this point, no matter what" (vnode.c:278-280): the assertions of     *)
(* vput fail over no inode but one that do_link named again after it had    *)
(* lost its last name and last user.                                        *)
StopsOverRevived ==
  panic => \E t \in Thread : thread[t].pc = "vput" /\ vnode[thread[t].vn].vn_vno \in revived

(* The vnode cache hangs together: one vnode for an inode, counted exactly. *)
VnodesSound == VnodeTypeOK /\ RefcountAccounted /\ OneVnodePerInode /\ StopsOverRevived

Filling(f) == \E t \in Thread : thread[t].pf = f /\ thread[t].pc \in {"fillpage", "refill"}
Filled(f) == pframe[f].state # "absent" /\ ~Filling(f)

(* Of a linked file, what was last written to a page is in its frame, or on *)
(* the disk when the page is not resident or on its way in; and a frame     *)
(* with something that is not on the disk is dirty or busy: no order of     *)
(* page faults, copies, cleaning and uncaching drops a write or leaves one  *)
(* that no sync would find (pframe.c:503-601, pagefault.c:110-131,          *)
(* vnode.c:257-275).  Not so for a file that do_link revived: vput frees    *)
(* the pages of one without a name as they are.                             *)
NothingLost ==
  \A i \in Ino \ revived, p \in Page : Linked(i) =>
    IF \E v \in InUse(i) : Filled(<<v, p>>)
    THEN \E v \in InUse(i) :
           /\ pframe[<<v, p>>].data = latest[i][p]
           /\ disk[i][p] = latest[i][p] \/ pframe[<<v, p>>].dirty \/ Busy(<<v, p>>)
    ELSE disk[i][p] = latest[i][p]

(* When sync returns, the disk has what was written before it was called,   *)
(* and any later write is still to be found (pframe.c:607-641): "Clean all  *)
(* allocated pages (that is, all pages that are not pinned and not free)"   *)
(* is enough for a sync, although it skips the page being dirtied.  Again   *)
(* of linked files that do_link has not revived.                            *)
SyncSaves ==
  [][\A t \in Thread : thread[t].pc = "sync" /\ thread'[t].pc = "user" =>
       \A i \in Ino \ revived, p \in Page : Linked(i) => disk[i][p] >= asked[t][i][p]]_vnodeVars

AtWork == {"fillpage", "refill", "dirtypage", "cleanpage"}
(* Whoever sleeps for a page, in pframe_get, vput or sync, sleeps for one   *)
(* that is resident and busy, and whose wait queue the thread that made it  *)
(* busy will broadcast on: no frame is freed under a sleeper and no wake-up *)
(* is lost (pframe.c:326-338, 503-560, vnode.c:272-275).                    *)
PageSleeperAwaited ==
  \A t \in Thread : thread[t].pc \in {"pf_waitq", "vput_waitq", "sync_waitq"} =>
    /\ Busy(thread[t].pf)
    /\ \E u \in Thread : thread[u].pc \in AtWork /\ thread[u].pf = thread[t].pf

(* "it's either being brought in or it's on its way out. Let's not race     *)
(* whomever is doing this." (vnode.c:133-135): a thread that sleeps in vget *)
(* sleeps for a vnode that is busy.                                         *)
VnodeSleeperAwaited ==
  \A t \in Thread : thread[t].pc = "vn_waitq" => vnode[thread[t].vn].busy

=============================================================================
