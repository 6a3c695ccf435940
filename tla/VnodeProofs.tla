----------------------------- MODULE VnodeProofs -----------------------------
(* Proofs about Vnode, for any finite number of threads and pages, and any  *)
(* vnode structures, inodes and directories: the cache of vnodes and pages, *)
(* and then what threads write to pages: no write is lost, and sync saves   *)
(* what was written before it.                                              *)
EXTENDS Vnode, FiniteSetTheorems, TLAPS

USE VnodeAssumption
-----------------------------------------------------------------------------
(* The inductive invariant of the vnode cache.                              *)
ThreadRec ==
  [pc : {"user", "find", "vn_waitq", "read_vnode", "opened", "vput", "vput_waitq",
         "delete_vnode", "link", "get", "pf_waitq", "fillpage", "refill", "dirtypage",
         "sync", "sync_waitq", "cleanpage"},
   vn : VnodeT \cup {NoVnode}, name : (Dir \X Ino) \cup {NoName},
   pf : Frame \cup {NoFrame}, want : {"read", "write", "copy", "link"},
   left : SUBSET Frame, stale : Ino \cup {NoIno}]
VnodeRec == [vn_vno : Ino \cup {NoIno}, busy : BOOLEAN, vn_refcount : Nat]
FrameRec == [state : {"absent", "busy", "idle"}, dirty : BOOLEAN, data : 0..MaxWrite \cup {Junk}]

(* Where a thread may be                                                    *)
Looking == {"find", "vn_waitq", "read_vnode"}
Moving == {"read_vnode", "delete_vnode"}
Dropping == {"vput", "vput_waitq"}
OnPage == {"get", "pf_waitq", "fillpage", "refill", "dirtypage"}
Waiting == {"pf_waitq", "vput_waitq", "sync_waitq"}
Holding == {"user", "opened", "sync", "sync_waitq", "cleanpage"} \cup Dropping \cup OnPage

(* What it has there                                                        *)
Shape(th) ==
  /\ th.name # NoName <=> th.pc \in Looking
  /\ th.pc = "find" => th.vn = NoVnode
  /\ th.pc \in OnPage \cup Moving \cup Dropping \cup {"vn_waitq", "opened", "link"} => th.vn # NoVnode
  /\ th.pc \in AtWork \cup Waiting \cup OnPage => th.pf # NoFrame
  /\ th.pc \in OnPage \cup {"vput_waitq"} => th.pf[1] = th.vn
  /\ th.pc \in OnPage => th.want # "link"
ThreadShape == \A t \in Thread : Shape(thread[t])

VnodeShape ==
  \A v \in VnodeT :
    /\ vnode[v].busy => vnode[v].vn_vno # NoIno /\ vnode[v].vn_refcount = 0
    /\ vnode[v].vn_vno = NoIno => vnode[v].vn_refcount = 0

Unique ==
  \A v, w \in VnodeT : vnode[v].vn_vno = vnode[w].vn_vno /\ vnode[v].vn_vno # NoIno => v = w

(* A vnode that a thread brings in or takes out is busy, for it alone.      *)
MoversAlone ==
  \A t \in Thread : thread[t].pc \in Moving =>
    /\ vnode[thread[t].vn].busy
    /\ thread[t].pc = "read_vnode" => vnode[thread[t].vn].vn_vno = thread[t].name[2]
    /\ \A u \in Thread : thread[u].pc \in Moving /\ thread[u].vn = thread[t].vn => u = t

Counted == \A v \in VnodeT : vnode[v].vn_refcount = Cardinality(Holders(v)) + vn_nrespages(v)

(* A busy page has one thread at work on it; only busy pages are slept for. *)
WorkersAlone ==
  /\ \A t \in Thread : thread[t].pc \in AtWork \cup Waiting => Busy(thread[t].pf)
  /\ \A f \in Frame : Busy(f) => \E u \in Thread : thread[u].pc \in AtWork /\ thread[u].pf = f
  /\ \A t, u \in Thread :
       thread[t].pc \in AtWork /\ thread[u].pc \in AtWork /\ thread[t].pf = thread[u].pf => t = u

(* Who may write to a page has a file mapped.                               *)
WritersHold ==
  \A t \in Thread, p \in Page :
    pte[t][p] => thread[t].pc \in Holding \ Dropping /\ thread[t].vn # NoVnode

(* While a thread looks for an inode the name stays.  One thread at most    *)
(* frees the pages of a vnode in vput; until do_link names the inode again, *)
(* it is the only one that has the vnode, and has all its pages to free.    *)
NamesKept == \A t \in Thread : thread[t].name # NoName => thread[t].name \in names
DropsAlone(t, v) ==
  /\ thread[t].left \subseteq {v} \X Page
  /\ \A u \in Thread : thread[u].pc \in Dropping /\ thread[u].vn = v => u = t
  /\ \/ vnode[v].vn_vno \in revived
     \/ /\ ~Linked(vnode[v].vn_vno)
        /\ Holders(v) = {t}
        /\ thread[t].left = Respages(v)
DroppersAlone == \A t \in Thread : thread[t].pc \in Dropping => DropsAlone(t, thread[t].vn)

(* do_link reads an inode number from the structure it has put.             *)
LinksRead ==
  \A t \in Thread : thread[t].pc = "link" /\ vnode[thread[t].vn].vn_vno = NoIno =>
    thread[t].stale # NoIno

VnodeIInv ==
  VnodeTypeOK /\ ThreadShape /\ VnodeShape /\ Unique /\ MoversAlone /\ Counted
  /\ WorkersAlone /\ WritersHold /\ NamesKept /\ DroppersAlone /\ LinksRead
-----------------------------------------------------------------------------
(* Counting                                                                 *)
LEMMA CountsFinite ==
  ASSUME VnodeTypeOK, NEW v \in VnodeT
  PROVE  /\ IsFiniteSet(Holders(v)) /\ IsFiniteSet(Respages(v))
         /\ Cardinality(Holders(v)) \in Nat /\ vn_nrespages(v) \in Nat
<1>1. IsFiniteSet({v}) /\ IsFiniteSet({v} \X Page)
  BY FS_Singleton, FS_Product
<1>2. IsFiniteSet(Holders(v)) /\ IsFiniteSet(Respages(v))
  BY <1>1, FS_Subset DEF Holders, Respages
<1>. QED BY <1>2, FS_CardinalityType DEF vn_nrespages

(* What the count says of those it counts                                   *)
LEMMA FromCount ==
  ASSUME VnodeTypeOK, VnodeShape, Counted, NEW v \in VnodeT
  PROVE  /\ Holders(v) # {} \/ Respages(v) # {} =>
              vnode[v].vn_refcount > 0 /\ ~vnode[v].busy /\ vnode[v].vn_vno # NoIno
         /\ \A t \in Holders(v) : vnode[v].vn_refcount = 1 => Holders(v) = {t} /\ Respages(v) = {}
         /\ \A t \in Holders(v) : vn_nrespages(v) = vnode[v].vn_refcount - 1 => Holders(v) = {t}
<1> DEFINE h == Cardinality(Holders(v))
           r == vn_nrespages(v)
<1>1. /\ IsFiniteSet(Holders(v)) /\ IsFiniteSet(Respages(v))
      /\ h \in Nat /\ r \in Nat
  BY CountsFinite
<1>2. vnode[v].vn_refcount = h + r
  BY DEF Counted
<1>3. (h = 0 <=> Holders(v) = {}) /\ (r = 0 <=> Respages(v) = {})
  BY <1>1, FS_EmptySet DEF vn_nrespages
<1>4. h = 1 => \A t \in Holders(v) : Holders(v) = {t}
  BY <1>1, FS_Singleton
<1> HIDE DEF h, r
<1>5. ASSUME Holders(v) # {} \/ Respages(v) # {}
      PROVE  vnode[v].vn_refcount > 0 /\ ~vnode[v].busy /\ vnode[v].vn_vno # NoIno
  BY <1>1, <1>2, <1>3, <1>5 DEF VnodeShape
<1>6. ASSUME NEW t \in Holders(v) PROVE h >= 1
  BY <1>1, <1>3
<1>7. ASSUME NEW t \in Holders(v), vnode[v].vn_refcount = 1
      PROVE  Holders(v) = {t} /\ Respages(v) = {}
  BY <1>1, <1>2, <1>3, <1>4, <1>6, <1>7
<1>8. ASSUME NEW t \in Holders(v), vn_nrespages(v) = vnode[v].vn_refcount - 1
      PROVE  Holders(v) = {t}
  <2>1. h = 1
    BY <1>1, <1>2, <1>8 DEF r
  <2>. QED BY <1>4, <2>1
<1>. QED BY <1>5, <1>7, <1>8

LEMMA CountSame ==
  ASSUME Counted, NEW v \in VnodeT, vnode'[v].vn_refcount = vnode[v].vn_refcount,
         Holders(v)' = Holders(v), Respages(v)' = Respages(v)
  PROVE  vnode'[v].vn_refcount = Cardinality(Holders(v)') + vn_nrespages(v)'
BY DEF Counted, vn_nrespages
-----------------------------------------------------------------------------
(* Steps of threads with pages                                              *)

(* The threads but t go on as they were, or are woken that slept for f.     *)
WokenPc == [p \in Waiting |-> IF p = "pf_waitq" THEN "get"
                              ELSE IF p = "vput_waitq" THEN "vput" ELSE "sync"]
Others(t, f) ==
  \A u \in Thread \ {t} :
    /\ thread'[u].vn = thread[u].vn /\ thread'[u].name = thread[u].name
    /\ thread'[u].pf = thread[u].pf /\ thread'[u].want = thread[u].want
    /\ thread'[u].left = thread[u].left /\ thread'[u].stale = thread[u].stale
    /\ \/ thread'[u].pc = thread[u].pc
       \/ /\ thread[u].pf = f /\ thread[u].pc \in Waiting
          /\ thread'[u].pc = WokenPc[thread[u].pc]
NobodyWaits(t, f) ==
  \A u \in Thread \ {t} : thread'[u].pf = f => thread'[u].pc \notin Waiting

LEMMA Broadcast ==
  ASSUME VnodeTypeOK, NEW f
  PROVE  /\ pf_broadcast(f, thread) \in [Thread -> ThreadRec]
         /\ \A u \in Thread : LET b == pf_broadcast(f, thread)[u] IN
              /\ b.vn = thread[u].vn /\ b.name = thread[u].name
              /\ b.pf = thread[u].pf /\ b.want = thread[u].want
              /\ b.left = thread[u].left /\ b.stale = thread[u].stale
              /\ b.pc = IF thread[u].pf = f /\ thread[u].pc \in Waiting
                        THEN WokenPc[thread[u].pc] ELSE thread[u].pc
<1>1. ASSUME NEW u \in Thread
      PROVE  LET b == pf_broadcast(f, thread)[u] IN
               /\ b \in ThreadRec
               /\ b.vn = thread[u].vn /\ b.name = thread[u].name
               /\ b.pf = thread[u].pf /\ b.want = thread[u].want
               /\ b.left = thread[u].left /\ b.stale = thread[u].stale
               /\ b.pc = IF thread[u].pf = f /\ thread[u].pc \in Waiting
                         THEN WokenPc[thread[u].pc] ELSE thread[u].pc
  <2>1. pf_broadcast(f, thread)[u] = IF thread[u].pf = f /\ thread[u].pc \in Waiting
                                     THEN Awake(thread[u]) ELSE thread[u]
    BY DEF pf_broadcast, Asleep, Waiting
  <2>2. thread[u] \in ThreadRec
    BY DEF VnodeTypeOK, ThreadRec
  <2>3. ASSUME thread[u].pc \in Waiting
        PROVE  Awake(thread[u]) = [thread[u] EXCEPT !.pc = WokenPc[thread[u].pc]]
    BY <2>2, <2>3 DEF Awake, WokenPc, Waiting, ThreadRec
  <2>4. ASSUME thread[u].pc \in Waiting PROVE WokenPc[thread[u].pc] \in {"get", "vput", "sync"}
    BY <2>4 DEF WokenPc, Waiting
  <2>5. CASE thread[u].pf = f /\ thread[u].pc \in Waiting
    BY <2>1, <2>2, <2>3, <2>4, <2>5 DEF ThreadRec
  <2>6. CASE ~(thread[u].pf = f /\ thread[u].pc \in Waiting)
    BY <2>1, <2>2, <2>6
  <2>. QED BY <2>5, <2>6
<1>. QED BY <1>1 DEF pf_broadcast

(* pframe_remove_from_pts                                                   *)
LEMMA Unmapped ==
  ASSUME NEW S, NEW pt \in [Thread -> [Page -> BOOLEAN]]
  PROVE  /\ remove_from_pts(S, pt) \in [Thread -> [Page -> BOOLEAN]]
         /\ \A u \in Thread, p \in Page :
              remove_from_pts(S, pt)[u][p] <=> pt[u][p] /\ <<thread[u].vn, p>> \notin S
BY DEF remove_from_pts

(* A step of a thread that is not looking for a vnode, bringing one in or   *)
(* taking one out, in which no page comes or goes and only the page f gets  *)
(* busy or idle                                                             *)
LEMMA PageStep ==
  ASSUME VnodeIInv, NEW t \in Thread, NEW f,
         VnodeTypeOK', vnode' = vnode, names' = names, revived' = revived, Others(t, f), thread'[t].pc \notin Dropping,
         thread[t].pc \in Holding, thread'[t].pc \in Holding, Shape(thread'[t]),
         thread'[t].vn = thread[t].vn,
         \A g \in Frame : g # f => pframe'[g].state = pframe[g].state,
         f \in Frame => (pframe'[f].state = "absent" <=> pframe[f].state = "absent"),
         thread[t].pc \in AtWork => thread[t].pf = f,
         thread'[t].pc \in AtWork \cup Waiting => thread'[t].pf = f /\ pframe'[f].state = "busy",
         f \in Frame /\ pframe'[f].state = "busy" =>
           IF pframe[f].state = "busy" THEN thread'[t].pc \in AtWork <=> thread[t].pc \in AtWork
           ELSE thread'[t].pc \in AtWork,
         f \in Frame /\ pframe'[f].state # "busy" /\ pframe[f].state = "busy" =>
           thread[t].pc \in AtWork /\ NobodyWaits(t, f),
         \A u \in Thread, p \in Page : pte'[u][p] => pte[u][p] \/ (u = t /\ thread'[t].vn # NoVnode)
  PROVE  VnodeIInv'
<1> USE DEF VnodeIInv
<1>1. ASSUME NEW u \in Thread
      PROVE  /\ thread[u] \in ThreadRec /\ thread'[u] \in ThreadRec
             /\ thread'[u].vn = thread[u].vn
             /\ thread'[u].pc \in Holding <=> thread[u].pc \in Holding
             /\ thread[u].pc \notin Holding =>
                  /\ thread'[u].pc = thread[u].pc /\ thread'[u].name = thread[u].name
                  /\ thread'[u].stale = thread[u].stale
  <2>1. thread[u] \in ThreadRec /\ thread'[u] \in ThreadRec
    BY DEF VnodeTypeOK, ThreadRec
  <2>2. CASE u = t
    BY <2>1, <2>2
  <2>3. CASE u # t
    BY <2>1, <2>3 DEF Others, WokenPc, Waiting, Holding, Dropping, OnPage
  <2>. QED BY <2>2, <2>3
<1>2. ThreadShape'
  <2>1. ASSUME NEW u \in Thread, u # t PROVE Shape(thread'[u])
    <3>1. Shape(thread[u])
      BY DEF ThreadShape
    <3>2. /\ thread'[u].vn = thread[u].vn /\ thread'[u].name = thread[u].name
          /\ thread'[u].pf = thread[u].pf /\ thread'[u].want = thread[u].want
      BY <2>1 DEF Others
    <3>3. CASE thread'[u].pc = thread[u].pc
      BY <3>1, <3>2, <3>3 DEF Shape
    <3>4. CASE thread[u].pc \in Waiting /\ thread'[u].pc = WokenPc[thread[u].pc]
      <4>1. \/ thread[u].pc = "pf_waitq" /\ thread'[u].pc = "get"
            \/ thread[u].pc = "vput_waitq" /\ thread'[u].pc = "vput"
            \/ thread[u].pc = "sync_waitq" /\ thread'[u].pc = "sync"
        BY <3>4 DEF WokenPc, Waiting
      <4>. QED BY <3>1, <3>2, <4>1 DEF Shape, Looking, Moving, Dropping, OnPage, Waiting, AtWork
    <3>. QED BY <2>1, <3>3, <3>4 DEF Others
  <2>. QED BY <2>1 DEF ThreadShape, Shape
<1>3. VnodeShape' /\ Unique'
  BY DEF VnodeShape, Unique
<1>4. MoversAlone'
  <2>1. Moving \cap Holding = {}
    BY DEF Moving, Holding, Dropping, OnPage
  <2>2. \A u \in Thread : thread'[u].pc \in Moving =>
          thread[u].pc = thread'[u].pc /\ thread[u].vn = thread'[u].vn /\ thread[u].name = thread'[u].name
    BY <1>1, <2>1
  <2>. QED BY <2>2 DEF MoversAlone
<1>5. ASSUME NEW v \in VnodeT PROVE Holders(v)' = Holders(v) /\ Respages(v)' = Respages(v)
  <2>1. Holders(v)' = Holders(v)
    <3>1. \A u \in Thread : thread[u].pc \notin {"find", "vn_waitq", "read_vnode", "delete_vnode", "link"}
                            <=> thread[u].pc \in Holding
      BY <1>1 DEF ThreadRec, Holding, Dropping, OnPage
    <3>2. \A u \in Thread : thread'[u].pc \notin {"find", "vn_waitq", "read_vnode", "delete_vnode", "link"}
                            <=> thread'[u].pc \in Holding
      BY <1>1 DEF ThreadRec, Holding, Dropping, OnPage
    <3>. QED BY <1>1, <3>1, <3>2 DEF Holders
  <2>2. Respages(v)' = Respages(v)
    <3>1. \A g \in {v} \X Page : g \in Frame
      BY DEF Frame
    <3>. QED BY <3>1 DEF Respages
  <2>. QED BY <2>1, <2>2
<1>6. Counted'
  BY <1>5, CountSame DEF Counted
<1>7. WorkersAlone'
  <2>1. ASSUME NEW u \in Thread, u # t
        PROVE  /\ thread'[u].pf = thread[u].pf
               /\ thread'[u].pc \in AtWork <=> thread[u].pc \in AtWork
               /\ thread'[u].pc \in Waiting => thread[u].pc \in Waiting
    BY <2>1 DEF Others, WokenPc, AtWork, Waiting
  <2>2. ASSUME NEW u \in Thread, thread[u].pc \in AtWork \cup Waiting \/ thread'[u].pc \in AtWork \cup Waiting
        PROVE  thread[u].pc \in AtWork \cup Waiting => thread[u].pf \in Frame
    BY <1>1 DEF ThreadShape, Shape, ThreadRec
  <2>3. ASSUME NEW u \in Thread, thread'[u].pc \in AtWork \cup Waiting PROVE thread'[u].pf \in Frame
    BY <1>1, <1>2, <2>3 DEF ThreadShape, Shape, ThreadRec
  <2>4. ASSUME NEW u \in Thread, thread'[u].pc \in AtWork \cup Waiting
        PROVE  pframe'[thread'[u].pf].state = "busy"
    <3>1. CASE u = t
      BY <2>4, <3>1
    <3>2. CASE u # t /\ thread[u].pf # f
      BY <2>1, <2>2, <2>4, <3>2 DEF WorkersAlone, Busy
    <3>3. CASE u # t /\ thread[u].pf = f
      <4>1. pframe[f].state = "busy" /\ f \in Frame
        BY <2>1, <2>2, <2>4, <3>3 DEF WorkersAlone, Busy
      <4>2. SUFFICES ASSUME pframe'[f].state # "busy" PROVE FALSE
        BY <2>1, <3>3
      <4>3. thread[t].pc \in AtWork /\ thread[t].pf = f /\ thread'[u].pc \notin Waiting
        BY <2>1, <3>3, <4>1, <4>2 DEF NobodyWaits
      <4>4. thread[u].pc \in AtWork
        BY <2>1, <2>4, <3>3, <4>3
      <4>. QED BY <3>3, <4>3, <4>4 DEF WorkersAlone
    <3>. QED BY <3>1, <3>2, <3>3
  <2>5. ASSUME NEW g \in Frame, pframe'[g].state = "busy"
        PROVE  \E u \in Thread : thread'[u].pc \in AtWork /\ thread'[u].pf = g
    <3>1. CASE g # f
      <4>1. PICK u \in Thread : thread[u].pc \in AtWork /\ thread[u].pf = g
        BY <2>5, <3>1 DEF WorkersAlone, Busy
      <4>. QED BY <2>1, <3>1, <4>1
    <3>2. CASE g = f /\ pframe[f].state # "busy"
      BY <2>5, <3>2
    <3>3. CASE g = f /\ pframe[f].state = "busy"
      <4>1. PICK u \in Thread : thread[u].pc \in AtWork /\ thread[u].pf = f
        BY <3>3 DEF WorkersAlone, Busy
      <4>. QED BY <2>1, <2>5, <3>3, <4>1
    <3>. QED BY <3>1, <3>2, <3>3
  <2>6. ASSUME NEW u \in Thread, NEW w \in Thread, thread'[u].pc \in AtWork, thread'[w].pc \in AtWork,
               thread'[u].pf = thread'[w].pf, u # t
        PROVE  u = w
    <3>1. CASE w # t
      BY <2>1, <2>6, <3>1 DEF WorkersAlone
    <3>2. CASE w = t
      <4>1. thread[u].pf = f /\ thread[u].pc \in AtWork /\ f \in Frame /\ pframe[f].state = "busy"
        BY <2>1, <2>2, <2>6, <3>2 DEF WorkersAlone, Busy
      <4>2. thread[t].pc \in AtWork /\ thread[t].pf = f
        BY <2>6, <3>2, <4>1
      <4>. QED BY <3>2, <4>1, <4>2 DEF WorkersAlone
    <3>. QED BY <3>1, <3>2
  <2>7. ASSUME NEW u \in Thread, NEW w \in Thread, thread'[u].pc \in AtWork, thread'[w].pc \in AtWork,
               thread'[u].pf = thread'[w].pf
        PROVE  u = w
    BY <2>6, <2>7
  <2>. QED BY <2>4, <2>5, <2>7 DEF WorkersAlone, Busy
<1>8. WritersHold'
  <2>1. \A u \in Thread \ {t} : thread'[u].pc \in Dropping <=> thread[u].pc \in Dropping
    BY DEF Others, WokenPc, Waiting, Dropping
  <2>. QED BY <1>1, <2>1 DEF WritersHold
<1>9. NamesKept'
  <2>1. thread'[t].name = NoName
    BY DEF Shape, Holding, Looking, Dropping, OnPage
  <2>. QED BY <2>1 DEF NamesKept, Others
<1>10. DroppersAlone'
  <2>1. ASSUME NEW u \in Thread, thread'[u].pc \in Dropping
        PROVE  /\ u # t /\ thread[u].pc \in Dropping /\ thread[u].vn \in VnodeT
               /\ thread'[u].left = thread[u].left
    <3>1. u # t
      BY <2>1
    <3>2. thread[u].pc \in Dropping /\ thread'[u].left = thread[u].left
      BY <2>1, <3>1 DEF Others, WokenPc, Waiting, Dropping
    <3>. QED BY <1>1, <3>1, <3>2 DEF ThreadShape, Shape, ThreadRec
  <2>2. ASSUME NEW i PROVE Linked(i)' <=> Linked(i)
    BY DEF Linked
  <2>3. ASSUME NEW u \in Thread, thread'[u].pc \in Dropping, NEW v, v = thread[u].vn
        PROVE  DropsAlone(u, v)'
    <3>1. DropsAlone(u, v) /\ v \in VnodeT
      BY <2>1, <2>3 DEF DroppersAlone
    <3>2. \A w \in Thread : thread'[w].pc \in Dropping /\ thread'[w].vn = v => w = u
      BY <1>1, <2>1, <3>1 DEF DropsAlone
    <3>. QED BY <1>5, <2>1, <2>2, <2>3, <3>1, <3>2 DEF DropsAlone
  <2>4. \A u \in Thread : thread'[u].vn = thread[u].vn
    BY <1>1
  <2>. QED BY <2>3, <2>4 DEF DroppersAlone
<1>11. LinksRead'
  <2>1. "link" \notin Holding
    BY DEF Holding, Dropping, OnPage
  <2>. QED BY <1>1, <2>1 DEF LinksRead
<1>. QED BY <1>2, <1>3, <1>4, <1>6, <1>7, <1>8, <1>9, <1>10, <1>11

(* Values written                                                           *)
LEMMA WriteTypes ==
  ASSUME VnodeTypeOK, NEW f \in Frame, vnode[f[1]].vn_vno \in Ino
  PROVE  /\ NextWrite(f) \in 0..MaxWrite
         /\ Wrote(f) \in [Ino -> [Page -> 0..MaxWrite]]
         /\ Data(f, disk) \in 0..MaxWrite \cup {Junk}
<1>1. f[1] \in VnodeT /\ f[2] \in Page
  BY DEF Frame
<1>2. Data(f, latest) \in 0..MaxWrite
  BY <1>1 DEF Data, VnodeTypeOK
<1>3. NextWrite(f) \in 0..MaxWrite
  BY <1>2 DEF NextWrite
<1>4. Data(f, disk) \in 0..MaxWrite \cup {Junk}
  BY <1>1 DEF Data, VnodeTypeOK
<1>5. Wrote(f) \in [Ino -> [Page -> 0..MaxWrite]]
  <2> DEFINE n == NextWrite(f)
  <2>1. n \in 0..MaxWrite
    BY <1>3
  <2> HIDE DEF n
  <2>2. [latest EXCEPT ![vnode[f[1]].vn_vno][f[2]] = n] \in [Ino -> [Page -> 0..MaxWrite]]
    BY <1>1, <2>1 DEF VnodeTypeOK
  <2>. QED BY <2>2 DEF Wrote, n
<1>. QED BY <1>3, <1>4, <1>5

(* Updates of one thread                                                    *)
LEMMA FinishedThread ==
  ASSUME NEW th \in [Thread -> ThreadRec], NEW t \in Thread
  PROVE  /\ Finished(t, th) \in [Thread -> ThreadRec]
         /\ \A u \in Thread \ {t} : Finished(t, th)[u] = th[u]
         /\ Finished(t, th)[t].pc = "user" /\ Finished(t, th)[t].pf = NoFrame
         /\ Finished(t, th)[t].vn = th[t].vn /\ Finished(t, th)[t].name = th[t].name
         /\ Finished(t, th)[t].want = "read"
<1> DEFINE r == [th[t] EXCEPT !.pc = "user", !.pf = NoFrame, !.want = "read"]
<1>1. /\ r \in ThreadRec /\ r.pc = "user" /\ r.pf = NoFrame /\ r.vn = th[t].vn /\ r.name = th[t].name
      /\ r.want = "read"
  BY ZenonT(30) DEF ThreadRec
<1>2. Finished(t, th) = [th EXCEPT ![t] = r]
  BY DEF Finished
<1> HIDE DEF r
<1>. QED BY <1>1, <1>2

(* What the caller of pframe_get does when the page is there, seen from f   *)
LEMMA UsesPage ==
  ASSUME VnodeTypeOK, NEW t \in Thread, NEW f \in Frame, vnode[f[1]].vn_vno \in Ino,
         NEW want \in {"read", "write", "copy"},
         NEW pg \in [Frame -> FrameRec], pg[f].state = "idle",
         NEW th \in [Thread -> ThreadRec], HavePage(t, f, want, pg, th)
  PROVE  /\ thread' \in [Thread -> ThreadRec] /\ pframe' \in [Frame -> FrameRec]
         /\ pte' \in [Thread -> [Page -> BOOLEAN]] /\ latest' \in [Ino -> [Page -> 0..MaxWrite]]
         /\ \A u \in Thread \ {t} : thread'[u] = th[u]
         /\ thread'[t].vn = th[t].vn /\ thread'[t].name = th[t].name /\ thread'[t].want # "link"
         /\ \A u \in Thread, p \in Page : pte'[u][p] => pte[u][p] \/ u = t
         /\ \A g \in Frame \ {f} : pframe'[g] = pg[g]
         /\ \/ /\ thread'[t].pc = "user" /\ thread'[t].pf = NoFrame
               /\ pframe'[f].state = "idle"
            \/ /\ thread'[t].pc = "dirtypage" /\ thread'[t].pf = f
               /\ pframe'[f].state = "busy"
<1>1. /\ Finished(t, th) \in [Thread -> ThreadRec]
      /\ \A u \in Thread \ {t} : Finished(t, th)[u] = th[u]
      /\ /\ Finished(t, th)[t].pc = "user" /\ Finished(t, th)[t].pf = NoFrame
         /\ Finished(t, th)[t].vn = th[t].vn /\ Finished(t, th)[t].name = th[t].name
         /\ Finished(t, th)[t].want = "read"
  BY FinishedThread
<1> DEFINE dirtying == [th EXCEPT ![t] = [@ EXCEPT !.pc = "dirtypage", !.pf = f, !.want = want]]
<1>2. /\ dirtying \in [Thread -> ThreadRec]
      /\ \A u \in Thread \ {t} : dirtying[u] = th[u]
      /\ dirtying[t].pc = "dirtypage" /\ dirtying[t].pf = f
      /\ dirtying[t].vn = th[t].vn /\ dirtying[t].name = th[t].name /\ dirtying[t].want # "link"
  <2> DEFINE r == [th[t] EXCEPT !.pc = "dirtypage", !.pf = f, !.want = want]
  <2>1. /\ r \in ThreadRec /\ r.pc = "dirtypage" /\ r.pf = f
        /\ r.vn = th[t].vn /\ r.name = th[t].name /\ r.want # "link"
    BY ZenonT(30) DEF ThreadRec
  <2>2. dirtying = [th EXCEPT ![t] = r]
    OBVIOUS
  <2> HIDE DEF r, dirtying
  <2>. QED BY <2>1, <2>2
<1> USE DEF FrameRec
<1>3. /\ Copied(f, pg) \in [Frame -> FrameRec]
      /\ \A g \in Frame \ {f} : Copied(f, pg)[g] = pg[g]
      /\ Copied(f, pg)[f].state = "idle"
  <2> DEFINE n == NextWrite(f)
             d == IF pg[f].data = Junk THEN Junk ELSE n
  <2>1. n \in 0..MaxWrite
    BY WriteTypes
  <2>2. Copied(f, pg) = [pg EXCEPT ![f].data = d]
    BY DEF Copied
  <2>3. d \in 0..MaxWrite \cup {Junk}
    BY <2>1
  <2> HIDE DEF d
  <2>. QED BY <2>2, <2>3
<1>4. ASSUME NEW q \in [Frame -> FrameRec]
      PROVE  /\ Dirtying(f, q) \in [Frame -> FrameRec]
             /\ \A g \in Frame \ {f} : Dirtying(f, q)[g] = q[g]
             /\ Dirtying(f, q)[f].state = "busy"
  BY DEF Dirtying
<1>5. pte \in [Thread -> [Page -> BOOLEAN]] /\ latest \in [Ino -> [Page -> 0..MaxWrite]] /\ f[2] \in Page
  BY DEF VnodeTypeOK, Frame
<1>6. \/ want = "read" /\ pframe' = pg /\ thread' = Finished(t, th) /\ UNCHANGED <<pte, latest>>
      \/ pframe' = pg /\ thread' = Finished(t, th) /\ pte' = [pte EXCEPT ![t][f[2]] = TRUE] /\ UNCHANGED latest
      \/ pframe' = Dirtying(f, pg) /\ thread' = dirtying /\ UNCHANGED <<pte, latest>>
      \/ latest' = Wrote(f) /\ UNCHANGED pte /\ pframe' = Copied(f, pg) /\ thread' = Finished(t, th)
      \/ latest' = Wrote(f) /\ UNCHANGED pte /\ pframe' = Dirtying(f, Copied(f, pg)) /\ thread' = dirtying
  BY DEF HavePage
<1> HIDE DEF dirtying
<1>7. /\ [pte EXCEPT ![t][f[2]] = TRUE] \in [Thread -> [Page -> BOOLEAN]]
      /\ \A u \in Thread \ {t} : [pte EXCEPT ![t][f[2]] = TRUE][u] = pte[u]
  BY <1>5
<1>8. /\ pte' \in [Thread -> [Page -> BOOLEAN]] /\ latest' \in [Ino -> [Page -> 0..MaxWrite]]
       /\ \A u \in Thread, p \in Page : pte'[u][p] => pte[u][p] \/ u = t
  <2>1. pte' = pte \/ pte' = [pte EXCEPT ![t][f[2]] = TRUE]
    BY ONLY <1>6
  <2>2. latest' = latest \/ latest' = Wrote(f)
    BY ONLY <1>6
  <2>3. latest' \in [Ino -> [Page -> 0..MaxWrite]]
    <3>1. Wrote(f) \in [Ino -> [Page -> 0..MaxWrite]]
      BY WriteTypes
    <3>2. QED BY ONLY <1>5, <2>2, <3>1
  <2>4. pte' \in [Thread -> [Page -> BOOLEAN]] /\ \A u \in Thread \ {t} : pte'[u] = pte[u]
    BY ONLY <1>5, <1>7, <2>1
  <2>5. \A u \in Thread, p \in Page : pte'[u][p] => pte[u][p] \/ u = t
    BY ONLY <2>4
  <2>. QED BY ONLY <2>3, <2>4, <2>5
<1>9. CASE thread' = Finished(t, th) /\ pframe' = pg
  BY <1>1, <1>8, <1>9
<1>10. CASE thread' = Finished(t, th) /\ pframe' = Copied(f, pg)
  BY <1>1, <1>3, <1>8, <1>10
<1>11. CASE thread' = dirtying /\ pframe' = Dirtying(f, pg)
  BY <1>2, <1>4, <1>8, <1>11
<1>12. CASE thread' = dirtying /\ pframe' = Dirtying(f, Copied(f, pg))
  BY <1>2, <1>3, <1>4, <1>8, <1>12
<1>. QED BY <1>6, <1>9, <1>10, <1>11, <1>12

(* A thread that holds a vnode, and the frames of its pages                 *)
LEMMA HeldVnode ==
  ASSUME VnodeIInv, NEW t \in Thread, thread[t].pc \in Holding, thread[t].vn # NoVnode
  PROVE  /\ thread[t].vn \in VnodeT /\ t \in Holders(thread[t].vn)
         /\ vnode[thread[t].vn].vn_vno \in Ino /\ ~vnode[thread[t].vn].busy
         /\ vnode[thread[t].vn].vn_refcount > 0
<1>1. thread[t].vn \in VnodeT /\ t \in Holders(thread[t].vn)
  BY DEF VnodeIInv, VnodeTypeOK, Holders, Holding, Dropping, OnPage
<1>2. /\ vnode[thread[t].vn].vn_vno # NoIno /\ ~vnode[thread[t].vn].busy
      /\ vnode[thread[t].vn].vn_refcount > 0
  BY <1>1, FromCount DEF VnodeIInv
<1>. QED BY <1>1, <1>2 DEF VnodeIInv, VnodeTypeOK

LEMMA ResidentVnode ==
  ASSUME VnodeIInv, NEW f \in Frame, pframe[f].state # "absent"
  PROVE  /\ f[1] \in VnodeT /\ f[2] \in Page /\ f \in Respages(f[1])
         /\ vnode[f[1]].vn_vno \in Ino /\ ~vnode[f[1]].busy /\ vnode[f[1]].vn_refcount > 0
<1>1. f[1] \in VnodeT /\ f[2] \in Page /\ f \in {f[1]} \X Page
  BY DEF Frame
<1>2. f \in Respages(f[1])
  BY <1>1 DEF Respages
<1>3. vnode[f[1]].vn_vno # NoIno /\ ~vnode[f[1]].busy /\ vnode[f[1]].vn_refcount > 0
  BY <1>1, <1>2, FromCount DEF VnodeIInv
<1>. QED BY <1>1, <1>2, <1>3 DEF VnodeIInv, VnodeTypeOK

LEMMA PageOf ==
  ASSUME VnodeIInv, NEW t \in Thread,
         thread[t].pc \in OnPage \/ (thread[t].pc \in AtWork \cup Waiting)
  PROVE  /\ thread[t].pf \in Frame /\ thread[t].pf[1] \in VnodeT /\ thread[t].pf[2] \in Page
         /\ vnode[thread[t].pf[1]].vn_vno \in Ino
         /\ thread[t].pc \in AtWork \cup Waiting => pframe[thread[t].pf].state = "busy"
         /\ thread[t].pc \in OnPage => thread[t].vn \in VnodeT /\ thread[t].pf[1] = thread[t].vn
<1>1. thread[t] \in ThreadRec /\ thread[t].pf # NoFrame
  BY DEF VnodeIInv, VnodeTypeOK, ThreadRec, ThreadShape, Shape
<1>2. thread[t].pf \in Frame /\ thread[t].pf[1] \in VnodeT /\ thread[t].pf[2] \in Page
  BY <1>1 DEF ThreadRec, Frame
<1>3. thread[t].pc \in AtWork \cup Waiting => pframe[thread[t].pf].state = "busy"
  BY DEF VnodeIInv, WorkersAlone, Busy
<1>4. thread[t].pc \in OnPage => thread[t].vn \in VnodeT /\ thread[t].pf[1] = thread[t].vn
  BY <1>1 DEF VnodeIInv, ThreadShape, Shape, ThreadRec
<1>5. vnode[thread[t].pf[1]].vn_vno \in Ino
  <2>1. CASE thread[t].pc \in OnPage
    BY <1>4, <2>1, HeldVnode DEF Holding, ThreadRec
  <2>2. CASE thread[t].pc \in AtWork \cup Waiting
    BY <1>2, <1>3, <2>2, ResidentVnode
  <2>. QED BY <2>1, <2>2
<1>. QED BY <1>2, <1>3, <1>4, <1>5

LEMMA Types ==
  VnodeTypeOK <=>
    /\ thread \in [Thread -> ThreadRec] /\ vnode \in [VnodeT -> VnodeRec]
    /\ pframe \in [Frame -> FrameRec] /\ pte \in [Thread -> [Page -> BOOLEAN]]
    /\ names \subseteq Dir \X Ino /\ disk \in [Ino -> [Page -> 0..MaxWrite \cup {Junk}]]
    /\ latest \in [Ino -> [Page -> 0..MaxWrite]]
    /\ asked \in [Thread -> [Ino -> [Page -> 0..MaxWrite]]]
    /\ panic \in BOOLEAN /\ revived \subseteq Ino
BY DEF VnodeTypeOK, ThreadRec, VnodeRec, FrameRec

(* pframe_get of a page that is resident                                    *)
LEMMA GetResident ==
  ASSUME VnodeIInv, NEW t \in Thread, NEW f \in Frame, NEW want \in {"read", "write", "copy"},
         thread[t].pc \in {"user", "get"}, thread[t].vn # NoVnode, f[1] = thread[t].vn,
         pframe[f].state # "absent", pframe_get(t, f, want)
  PROVE  VnodeIInv'
<1>1. thread \in [Thread -> ThreadRec] /\ pframe \in [Frame -> FrameRec] /\ VnodeTypeOK
  BY Types DEF VnodeIInv
<1>2. /\ thread[t].pc \in Holding /\ thread[t].pc \notin AtWork /\ thread[t].name = NoName
      /\ vnode[f[1]].vn_vno \in Ino
  BY ResidentVnode DEF VnodeIInv, ThreadShape, Shape, Holding, OnPage, AtWork, Looking
<1>3. UNCHANGED <<vnode, names, disk, asked, panic, revived>>
  BY DEF pframe_get
<1>4. CASE /\ Busy(f) /\ UNCHANGED <<pframe, pte, latest>>
           /\ thread' = [thread EXCEPT ![t] = [@ EXCEPT !.pc = "pf_waitq", !.pf = f, !.want = want]]
  <2> DEFINE r == [thread[t] EXCEPT !.pc = "pf_waitq", !.pf = f, !.want = want]
  <2>1. /\ r \in ThreadRec /\ r.pc = "pf_waitq" /\ r.pf = f
        /\ r.vn = thread[t].vn /\ r.name = thread[t].name /\ r.want # "link"
    <3>1. thread[t] \in ThreadRec
      BY <1>1
    <3>. QED BY <3>1, ZenonT(30) DEF ThreadRec
  <2>2. thread' = [thread EXCEPT ![t] = r]
    BY <1>4
  <2> HIDE DEF r
  <2>3. /\ thread' \in [Thread -> ThreadRec] /\ \A u \in Thread \ {t} : thread'[u] = thread[u]
        /\ thread'[t] = r
    BY <1>1, <2>1, <2>2
  <2>4. VnodeTypeOK'
    BY <1>1, <1>3, <1>4, <2>3 DEF VnodeTypeOK, ThreadRec
  <2>5. Others(t, f) /\ Shape(thread'[t])
    BY <1>2, <2>1, <2>3 DEF Others, Shape, Looking, OnPage, Moving, Dropping, Frame
  <2>6. thread'[t].pc \in Holding /\ thread'[t].pc \notin AtWork /\ thread'[t].pc \notin Dropping
    BY <2>1, <2>3 DEF Holding, OnPage, AtWork, Dropping
  <2>. QED BY <1>2, <1>3, <1>4, <2>1, <2>3, <2>4, <2>5, <2>6, PageStep DEF Busy
<1>5. CASE Idle(f) /\ HavePage(t, f, want, pframe, thread)
  <2>1. /\ thread' \in [Thread -> ThreadRec] /\ pframe' \in [Frame -> FrameRec]
        /\ pte' \in [Thread -> [Page -> BOOLEAN]] /\ latest' \in [Ino -> [Page -> 0..MaxWrite]]
        /\ \A u \in Thread \ {t} : thread'[u] = thread[u]
        /\ thread'[t].vn = thread[t].vn /\ thread'[t].name = thread[t].name
        /\ thread'[t].want # "link"
        /\ \A u \in Thread, p \in Page : pte'[u][p] => pte[u][p] \/ u = t
        /\ \A g \in Frame \ {f} : pframe'[g] = pframe[g]
        /\ \/ /\ thread'[t].pc = "user" /\ thread'[t].pf = NoFrame
              /\ pframe'[f].state = "idle"
           \/ /\ thread'[t].pc = "dirtypage" /\ thread'[t].pf = f
              /\ pframe'[f].state = "busy"
    BY <1>1, <1>2, <1>5, UsesPage DEF Idle
  <2>2. VnodeTypeOK'
    BY <1>1, <1>3, <2>1 DEF VnodeTypeOK, ThreadRec, FrameRec
  <2>3. Others(t, f) /\ pframe[f].state = "idle"
    BY <1>5, <2>1 DEF Others, Idle
  <2>4. Shape(thread'[t]) /\ thread'[t].pc \in Holding /\ thread'[t].pc \notin Dropping
    BY <1>2, <2>1 DEF Shape, Looking, OnPage, Moving, Dropping, Holding, AtWork, Waiting, Frame
  <2>5. "user" \notin AtWork \cup Waiting /\ "dirtypage" \in AtWork
    BY DEF AtWork, Waiting
  <2>. QED BY <1>2, <1>3, <2>1, <2>2, <2>3, <2>4, <2>5, PageStep
<1>. QED BY <1>4, <1>5 DEF pframe_get

(* fillpage, dirtypage and cleanpage return: the page is idle, or stays     *)
(* busy for another fillpage or for a dirtypage.                            *)
LEMMA Returned ==
  ASSUME VnodeIInv, NEW t \in Thread, thread[t].pc \in AtWork,
         VnodeTypeOK', vnode' = vnode, names' = names, revived' = revived,
         \A u \in Thread \ {t} : thread'[u] = pf_broadcast(thread[t].pf, thread)[u],
         thread'[t].vn = thread[t].vn, thread'[t].name = thread[t].name,
         \A u \in Thread, p \in Page : pte'[u][p] => pte[u][p] \/ (u = t /\ thread'[t].vn # NoVnode),
         \A g \in Frame \ {thread[t].pf} : pframe'[g] = pframe[g],
         \/ /\ thread'[t].pc \in {"user", "sync"} /\ pframe'[thread[t].pf].state = "idle"
         \/ /\ thread'[t].pc \in {"refill", "dirtypage"} /\ thread[t].pc \in OnPage
            /\ thread'[t].pf = thread[t].pf /\ pframe'[thread[t].pf].state = "busy"
            /\ thread'[t].want # "link"
  PROVE  VnodeIInv'
<1> DEFINE f == thread[t].pf
<1>1. /\ f \in Frame /\ pframe[f].state = "busy"
      /\ thread[t].pc \in OnPage => thread[t].vn \in VnodeT /\ f[1] = thread[t].vn
  BY PageOf
<1>2. Others(t, f) /\ NobodyWaits(t, f)
  <2>1. \A u \in Thread : thread[u].pc \in Waiting => WokenPc[thread[u].pc] \notin Waiting
    BY DEF WokenPc, Waiting
  <2>. QED BY <2>1, Broadcast DEF VnodeIInv, Others, NobodyWaits
<1>3. thread[t].name = NoName /\ thread[t].pc \in Holding /\ f # NoFrame
  BY <1>1 DEF VnodeIInv, ThreadShape, Shape, AtWork, Looking, Holding, OnPage, Waiting
<1>4. thread'[t].pc \in Holding /\ thread'[t].pc \notin Dropping
  BY DEF Holding, OnPage, Dropping
<1>5. Shape(thread'[t])
  <2>1. CASE thread'[t].pc \in {"user", "sync"}
    BY <1>3, <2>1 DEF Shape, Looking, OnPage, Moving, Dropping, AtWork, Waiting
  <2>2. CASE /\ thread'[t].pc \in {"refill", "dirtypage"} /\ thread[t].pc \in OnPage
             /\ thread'[t].pf = f /\ thread'[t].want # "link"
    BY <1>1, <1>3, <2>2 DEF Shape, Looking, OnPage, Moving, Dropping, AtWork, Waiting
  <2>. QED BY <2>1, <2>2
<1>6. {"user", "sync"} \cap (AtWork \cup Waiting) = {} /\ {"refill", "dirtypage"} \subseteq AtWork
  BY DEF AtWork, Waiting
<1> HIDE DEF f
<1>7. \/ /\ thread'[t].pc \notin AtWork \cup Waiting /\ pframe'[f].state = "idle"
      \/ thread'[t].pc \in AtWork /\ thread'[t].pf = f /\ pframe'[f].state = "busy"
  BY <1>6 DEF f
<1>. QED BY <1>1, <1>2, <1>3, <1>4, <1>5, <1>7, PageStep DEF f

LEMMA FillStep ==
  ASSUME VnodeIInv, NEW t \in Thread, PageIsFilled(t)
  PROVE  VnodeIInv'
<1> DEFINE f == thread[t].pf
           b == pf_broadcast(f, thread)
           pg == [pframe EXCEPT ![f] = [@ EXCEPT !.state = "idle", !.data = Data(f, disk)]]
<1>1. thread \in [Thread -> ThreadRec] /\ pframe \in [Frame -> FrameRec] /\ VnodeTypeOK
  BY Types DEF VnodeIInv
<1>2. thread[t].pc \in {"fillpage", "refill"} /\ thread[t].pc \in AtWork /\ thread[t].pc \in OnPage
  BY DEF PageIsFilled, AtWork, OnPage
<1>3. /\ f \in Frame /\ pframe[f].state = "busy" /\ vnode[f[1]].vn_vno \in Ino
      /\ thread[t].want \in {"read", "write", "copy"} /\ thread[t].vn # NoVnode
  <2>1. f \in Frame /\ pframe[f].state = "busy" /\ vnode[f[1]].vn_vno \in Ino
    BY <1>2, PageOf
  <2>2. thread[t].want # "link"
    BY <1>2 DEF VnodeIInv, ThreadShape, Shape
  <2>. QED BY <1>1, <1>2, <2>1, <2>2, PageOf DEF ThreadRec
<1>4. UNCHANGED <<vnode, names, disk, asked, panic, revived>>
  BY DEF PageIsFilled
<1>5. b \in [Thread -> ThreadRec] /\ b[t] = thread[t]
  <2>1. b \in [Thread -> ThreadRec]
    BY <1>1, Broadcast
  <2>. QED BY <1>2, <2>1 DEF pf_broadcast, Asleep
<1>6. CASE HavePage(t, f, thread[t].want, pg, b)
  <2>1. pg \in [Frame -> FrameRec] /\ pg[f].state = "idle" /\ \A g \in Frame \ {f} : pg[g] = pframe[g]
    <3> DEFINE d == Data(f, disk)
               r == [pframe[f] EXCEPT !.state = "idle", !.data = d]
    <3>1. d \in 0..MaxWrite \cup {Junk}
      BY <1>1, <1>3, WriteTypes
    <3> HIDE DEF d, f, b
    <3>2. r \in FrameRec /\ r.state = "idle"
      BY <1>1, <1>3, <3>1 DEF FrameRec
    <3>3. pg = [pframe EXCEPT ![f] = r]
      BY DEF d
    <3> HIDE DEF r, pg
    <3>. QED BY <1>1, <1>3, <3>2, <3>3
  <2> HIDE DEF pg, b, f
  <2>2. /\ thread' \in [Thread -> ThreadRec] /\ pframe' \in [Frame -> FrameRec]
        /\ pte' \in [Thread -> [Page -> BOOLEAN]] /\ latest' \in [Ino -> [Page -> 0..MaxWrite]]
        /\ \A u \in Thread \ {t} : thread'[u] = b[u]
        /\ thread'[t].vn = b[t].vn /\ thread'[t].name = b[t].name /\ thread'[t].want # "link"
        /\ \A u \in Thread, p \in Page : pte'[u][p] => pte[u][p] \/ u = t
        /\ \A g \in Frame \ {f} : pframe'[g] = pg[g]
        /\ \/ /\ thread'[t].pc = "user" /\ thread'[t].pf = NoFrame
              /\ pframe'[f].state = "idle"
           \/ /\ thread'[t].pc = "dirtypage" /\ thread'[t].pf = f
              /\ pframe'[f].state = "busy"
    BY <1>1, <1>3, <1>5, <1>6, <2>1, UsesPage
  <2>3. VnodeTypeOK'
    BY <1>1, <1>4, <2>2 DEF VnodeTypeOK, ThreadRec, FrameRec
  <2>. QED BY <1>2, <1>3, <1>4, <1>5, <2>1, <2>2, <2>3, Returned DEF f, b
<1>7. CASE thread' = Goto(t, b, "refill") /\ UNCHANGED <<pframe, pte, latest>>
  <2> DEFINE r == [b[t] EXCEPT !.pc = "refill"]
  <2> HIDE DEF b, f
  <2>1. /\ r \in ThreadRec /\ r.pc = "refill" /\ r.pf = f
        /\ r.vn = thread[t].vn /\ r.name = thread[t].name /\ r.want = thread[t].want
    BY <1>5 DEF ThreadRec, f
  <2>2. thread' = [b EXCEPT ![t] = r]
    BY <1>7 DEF Goto
  <2> HIDE DEF r
  <2>3. thread' \in [Thread -> ThreadRec] /\ thread'[t] = r /\ \A u \in Thread \ {t} : thread'[u] = b[u]
    BY <1>5, <2>1, <2>2
  <2>4. VnodeTypeOK'
    BY <1>1, <1>4, <1>7, <2>3 DEF VnodeTypeOK, ThreadRec
  <2>. QED BY <1>2, <1>3, <1>4, <1>7, <2>1, <2>3, <2>4, Returned DEF f, b
<1>8. CASE /\ pframe' = [pframe EXCEPT ![f].state = "idle"]
           /\ thread' = Finished(t, b) /\ UNCHANGED <<pte, latest>>
  <2> HIDE DEF b, f
  <2>1. /\ pframe' \in [Frame -> FrameRec] /\ pframe'[f].state = "idle"
        /\ \A g \in Frame \ {f} : pframe'[g] = pframe[g]
    BY <1>1, <1>3, <1>8 DEF FrameRec
  <2>2. /\ thread' \in [Thread -> ThreadRec] /\ \A u \in Thread \ {t} : thread'[u] = b[u]
        /\ thread'[t].pc = "user" /\ thread'[t].vn = thread[t].vn /\ thread'[t].name = thread[t].name
    BY <1>5, <1>8, FinishedThread
  <2>3. VnodeTypeOK'
    BY <1>1, <1>4, <1>8, <2>1, <2>2 DEF VnodeTypeOK, ThreadRec, FrameRec
  <2>4. \A u \in Thread, p \in Page : pte'[u][p] => pte[u][p] \/ (u = t /\ thread'[t].vn # NoVnode)
    BY <1>8
  <2>. QED BY <1>2, <1>4, <2>1, <2>2, <2>3, <2>4, Returned DEF f, b
<1>. QED BY <1>6, <1>7, <1>8 DEF PageIsFilled

LEMMA DirtyStep ==
  ASSUME VnodeIInv, NEW t \in Thread, PageIsDirty(t)
  PROVE  VnodeIInv'
<1> DEFINE f == thread[t].pf
           b == pf_broadcast(f, thread)
<1>1. thread \in [Thread -> ThreadRec] /\ pframe \in [Frame -> FrameRec] /\ VnodeTypeOK
  BY Types DEF VnodeIInv
<1>2. thread[t].pc = "dirtypage" /\ thread[t].pc \in AtWork
  BY DEF PageIsDirty, AtWork
<1>3. f \in Frame /\ f[2] \in Page /\ thread[t].vn # NoVnode
  BY <1>2, PageOf DEF OnPage
<1>4. UNCHANGED <<vnode, names, disk, latest, asked, panic, revived>>
  BY DEF PageIsDirty
<1>5. b \in [Thread -> ThreadRec] /\ b[t] = thread[t]
  <2>1. b \in [Thread -> ThreadRec]
    BY <1>1, Broadcast
  <2>. QED BY <1>2, <2>1 DEF pf_broadcast, Asleep
<1>6. thread' = Finished(t, b)
  BY DEF PageIsDirty
<1>7. /\ pte' \in [Thread -> [Page -> BOOLEAN]]
      /\ \A u \in Thread \ {t} : pte'[u] = pte[u]
  <2>1. CASE pte' = pte
    BY <1>1, <2>1 DEF VnodeTypeOK
  <2>2. CASE pte' = [pte EXCEPT ![t][f[2]] = TRUE]
    BY <1>1, <1>3, <2>2 DEF VnodeTypeOK
  <2>. QED BY <2>1, <2>2 DEF PageIsDirty
<1>8. PICK ok \in BOOLEAN : pframe' = [pframe EXCEPT ![f] = [@ EXCEPT !.state = "idle", !.dirty = ok]]
  BY DEF PageIsDirty
<1> HIDE DEF b, f
<1>9. /\ pframe' \in [Frame -> FrameRec] /\ pframe'[f].state = "idle"
      /\ \A g \in Frame \ {f} : pframe'[g] = pframe[g]
  BY <1>1, <1>3, <1>8 DEF FrameRec
<1>10. /\ thread' \in [Thread -> ThreadRec] /\ \A u \in Thread \ {t} : thread'[u] = b[u]
       /\ thread'[t].pc = "user" /\ thread'[t].vn = thread[t].vn /\ thread'[t].name = thread[t].name
  BY <1>5, <1>6, FinishedThread
<1>11. VnodeTypeOK'
  BY <1>1, <1>4, <1>7, <1>9, <1>10 DEF VnodeTypeOK, ThreadRec, FrameRec
<1>. QED BY <1>2, <1>3, <1>4, <1>7, <1>9, <1>10, <1>11, Returned DEF f, b

LEMMA CleanStep ==
  ASSUME VnodeIInv, NEW t \in Thread, PageIsClean(t)
  PROVE  VnodeIInv'
<1> DEFINE f == thread[t].pf
           b == pf_broadcast(f, thread)
           written == [disk EXCEPT ![vnode[f[1]].vn_vno][f[2]] = pframe[f].data]
<1>1. thread \in [Thread -> ThreadRec] /\ pframe \in [Frame -> FrameRec] /\ VnodeTypeOK
  BY Types DEF VnodeIInv
<1>2. thread[t].pc = "cleanpage" /\ thread[t].pc \in AtWork
  BY DEF PageIsClean, AtWork
<1>3. f \in Frame /\ f[2] \in Page /\ vnode[f[1]].vn_vno \in Ino
  BY <1>2, PageOf
<1>4. UNCHANGED <<vnode, pte, names, latest, asked, panic, revived>>
  BY DEF PageIsClean
<1>5. b \in [Thread -> ThreadRec] /\ b[t] = thread[t]
  <2>1. b \in [Thread -> ThreadRec]
    BY <1>1, Broadcast
  <2>. QED BY <1>2, <2>1 DEF pf_broadcast, Asleep
<1>6. thread' = Goto(t, b, "sync")
  BY DEF PageIsClean
<1>7. PICK ok \in BOOLEAN : pframe' = [pframe EXCEPT ![f] = [@ EXCEPT !.state = "idle", !.dirty = ~ok]]
  BY DEF PageIsClean
<1>8. disk' = written \/ disk' = disk
  BY DEF PageIsClean
<1> HIDE DEF f
<1>9. disk' \in [Ino -> [Page -> 0..MaxWrite \cup {Junk}]]
  <2> DEFINE d == pframe[f].data
             D == 0..MaxWrite \cup {Junk}
  <2>1. d \in D /\ disk \in [Ino -> [Page -> D]]
    BY <1>1, <1>3 DEF FrameRec, VnodeTypeOK
  <2> HIDE DEF d, D
  <2>2. [disk EXCEPT ![vnode[f[1]].vn_vno][f[2]] = d] \in [Ino -> [Page -> D]]
    BY <1>3, <2>1
  <2>. QED BY <1>8, <2>1, <2>2 DEF d, D
<1> HIDE DEF b, written
<1>10. /\ pframe' \in [Frame -> FrameRec] /\ pframe'[f].state = "idle"
       /\ \A g \in Frame \ {f} : pframe'[g] = pframe[g]
  BY <1>1, <1>3, <1>7, ZenonT(30) DEF FrameRec
<1>11. /\ thread' \in [Thread -> ThreadRec] /\ \A u \in Thread \ {t} : thread'[u] = b[u]
       /\ thread'[t].pc = "sync" /\ thread'[t].vn = thread[t].vn /\ thread'[t].name = thread[t].name
  <2> DEFINE r == [b[t] EXCEPT !.pc = "sync"]
  <2>1. r \in ThreadRec /\ r.pc = "sync" /\ r.vn = thread[t].vn /\ r.name = thread[t].name
    BY <1>5 DEF ThreadRec
  <2>2. thread' = [b EXCEPT ![t] = r]
    BY <1>6 DEF Goto
  <2> HIDE DEF r
  <2>. QED BY <1>5, <2>1, <2>2
<1>12. VnodeTypeOK'
  BY <1>1, <1>4, <1>9, <1>10, <1>11 DEF VnodeTypeOK, ThreadRec, FrameRec
<1>13. \A u \in Thread, p \in Page : pte'[u][p] => pte[u][p] \/ (u = t /\ thread'[t].vn # NoVnode)
  BY <1>4
<1>. QED BY <1>2, <1>4, <1>10, <1>11, <1>12, <1>13, Returned DEF f, b

LEMMA UserWriteStep ==
  ASSUME VnodeIInv, NEW t \in Thread, NEW p \in Page, UserWrite(t, p)
  PROVE  VnodeIInv'
<1> DEFINE f == <<thread[t].vn, p>>
           n == NextWrite(f)
<1>1. thread \in [Thread -> ThreadRec] /\ pframe \in [Frame -> FrameRec] /\ VnodeTypeOK
  BY Types DEF VnodeIInv
<1>2. thread[t].vn \in VnodeT
  BY <1>1 DEF VnodeIInv, WritersHold, UserWrite, ThreadRec
<1>3. thread[t].pc = "user" /\ thread[t].pc \in Holding /\ thread[t].vn # NoVnode
  BY <1>2 DEF UserWrite, Holding
<1>4. f \in Frame /\ f[1] = thread[t].vn /\ vnode[f[1]].vn_vno \in Ino
  BY <1>2, <1>3, HeldVnode DEF Frame
<1>5. n \in 0..MaxWrite /\ Wrote(f) \in [Ino -> [Page -> 0..MaxWrite]]
  BY <1>1, <1>4, WriteTypes
<1>6. UNCHANGED <<thread, vnode, pte, names, disk, asked, panic, revived>> /\ latest' = Wrote(f)
      /\ pframe' = Copied(f, pframe)
  BY DEF UserWrite
<1>7. /\ pframe' \in [Frame -> FrameRec]
      /\ \A g \in Frame : pframe'[g].state = pframe[g].state
  <2> DEFINE d == IF pframe[f].data = Junk THEN Junk ELSE n
  <2> HIDE DEF n
  <2>1. pframe' = [pframe EXCEPT ![f].data = d]
    BY <1>6 DEF Copied, n
  <2>2. d \in 0..MaxWrite \cup {Junk}
    BY <1>5
  <2> HIDE DEF d, f
  <2>. QED BY <1>1, <1>4, <2>1, <2>2 DEF FrameRec
<1>8. VnodeTypeOK'
  BY <1>1, <1>5, <1>6, <1>7 DEF VnodeTypeOK, FrameRec
<1>9. Others(t, NoFrame) /\ Shape(thread'[t]) /\ "user" \notin AtWork \cup Waiting \cup Dropping
      /\ NoFrame \notin Frame
  BY <1>6 DEF Others, VnodeIInv, ThreadShape, AtWork, Waiting, Frame, Dropping
<1>. QED BY <1>3, <1>6, <1>7, <1>8, <1>9, PageStep

LEMMA SyncStep ==
  ASSUME VnodeIInv, NEW t \in Thread, sync(t)
  PROVE  VnodeIInv'
<1> DEFINE r == [thread[t] EXCEPT !.pc = "sync"]
<1>1. thread \in [Thread -> ThreadRec] /\ VnodeTypeOK /\ thread[t].pc = "user" /\ Shape(thread[t])
  BY Types DEF VnodeIInv, sync, ThreadShape
<1>2. /\ r \in ThreadRec /\ r.pc = "sync" /\ r.vn = thread[t].vn
      /\ r.name = thread[t].name /\ r.pf = thread[t].pf
  BY <1>1, ZenonT(30) DEF ThreadRec
<1>3. thread' = [thread EXCEPT ![t] = r] /\ asked' = [asked EXCEPT ![t] = latest]
      /\ UNCHANGED <<vnode, pframe, pte, names, disk, latest, panic, revived>>
  BY DEF sync, Goto
<1> HIDE DEF r
<1>4. thread' \in [Thread -> ThreadRec] /\ thread'[t] = r /\ \A u \in Thread \ {t} : thread'[u] = thread[u]
  BY <1>1, <1>2, <1>3
<1>5. VnodeTypeOK'
  <2>1. asked' \in [Thread -> [Ino -> [Page -> 0..MaxWrite]]]
    BY <1>1, <1>3 DEF VnodeTypeOK
  <2>. QED BY <1>1, <1>3, <1>4, <2>1 DEF VnodeTypeOK, ThreadRec
<1>6. Others(t, NoFrame) /\ NoFrame \notin Frame
  BY <1>4 DEF Others, Frame
<1>7. Shape(thread'[t])
  BY <1>1, <1>2, <1>4 DEF Shape, Looking, OnPage, Moving, Dropping, AtWork, Waiting
<1>8. {"user", "sync"} \cap (AtWork \cup Waiting \cup Dropping) = {} /\ {"user", "sync"} \subseteq Holding
  BY DEF AtWork, Waiting, Holding, Dropping
<1>9. \A u \in Thread, p \in Page : pte'[u][p] => pte[u][p] \/ (u = t /\ thread'[t].vn # NoVnode)
  BY <1>3
<1>. QED BY <1>1, <1>2, <1>3, <1>4, <1>5, <1>6, <1>7, <1>8, <1>9, PageStep

LEMMA CleanAllStep ==
  ASSUME VnodeIInv, NEW t \in Thread, pframe_clean_all(t)
  PROVE  VnodeIInv'
<1>1. /\ thread \in [Thread -> ThreadRec] /\ pframe \in [Frame -> FrameRec] /\ VnodeTypeOK
      /\ thread[t].pc = "sync" /\ Shape(thread[t]) /\ thread[t].name = NoName
  BY Types DEF VnodeIInv, pframe_clean_all, ThreadShape, Shape, Looking
<1>2. UNCHANGED <<vnode, names, disk, latest, panic, revived>>
  BY DEF pframe_clean_all
<1>3. /\ "sync" \in Holding /\ "sync" \notin AtWork /\ NoFrame \notin Frame
      /\ "cleanpage" \in AtWork /\ "sync_waitq" \in Waiting /\ "sync_waitq" \notin AtWork
      /\ "user" \notin AtWork \cup Waiting /\ {"user", "cleanpage", "sync_waitq"} \subseteq Holding
      /\ {"user", "cleanpage", "sync_waitq"} \cap Dropping = {}
  BY DEF Holding, AtWork, Waiting, Frame, Dropping
<1>4. ASSUME NEW f \in AllocList, Busy(f), UNCHANGED <<pframe, pte, asked>>,
             thread' = [thread EXCEPT ![t] = [@ EXCEPT !.pc = "sync_waitq", !.pf = f]]
      PROVE  VnodeIInv'
  <2> DEFINE r == [thread[t] EXCEPT !.pc = "sync_waitq", !.pf = f]
  <2>1. f \in Frame /\ f # NoFrame
    BY <1>3 DEF AllocList
  <2>2. /\ r \in ThreadRec /\ r.pc = "sync_waitq" /\ r.vn = thread[t].vn
        /\ r.name = NoName /\ r.pf = f
    BY <1>1, <2>1, ZenonT(30) DEF ThreadRec
  <2>3. thread' = [thread EXCEPT ![t] = r]
    BY <1>4
  <2> HIDE DEF r
  <2>4. thread' \in [Thread -> ThreadRec] /\ thread'[t] = r /\ \A u \in Thread \ {t} : thread'[u] = thread[u]
    BY <1>1, <2>2, <2>3
  <2>5. VnodeTypeOK'
    BY <1>1, <1>2, <1>4, <2>4 DEF VnodeTypeOK, ThreadRec
  <2>6. Others(t, f) /\ Shape(thread'[t])
    BY <2>1, <2>2, <2>4 DEF Others, Shape, Looking, OnPage, Moving, Dropping, AtWork, Waiting
  <2>7. \A u \in Thread, p \in Page : pte'[u][p] => pte[u][p] \/ (u = t /\ thread'[t].vn # NoVnode)
    BY <1>4
  <2>. QED BY <1>1, <1>2, <1>3, <1>4, <2>2, <2>4, <2>5, <2>6, <2>7, PageStep DEF Busy
<1>5. ASSUME NEW f \in AllocList, Idle(f), pframe_clean(t, f), UNCHANGED asked
      PROVE  VnodeIInv'
  <2> DEFINE r == [thread[t] EXCEPT !.pc = "cleanpage", !.pf = f]
  <2>1. f \in Frame /\ f # NoFrame /\ pframe[f].state = "idle"
    BY <1>3, <1>5 DEF AllocList, Idle
  <2>2. /\ r \in ThreadRec /\ r.pc = "cleanpage" /\ r.vn = thread[t].vn
        /\ r.name = NoName /\ r.pf = f
    <3>1. thread[t] \in ThreadRec /\ f \in Frame
      BY <1>1, <2>1
    <3>. QED BY <1>1, <3>1, ZenonT(30) DEF ThreadRec
  <2>3. thread' = [thread EXCEPT ![t] = r]
    BY <1>5 DEF pframe_clean
  <2> HIDE DEF r
  <2>4. thread' \in [Thread -> ThreadRec] /\ thread'[t] = r /\ \A u \in Thread \ {t} : thread'[u] = thread[u]
    BY <1>1, <2>2, <2>3
  <2>5. /\ pte' \in [Thread -> [Page -> BOOLEAN]]
        /\ \A u \in Thread, p \in Page : pte'[u][p] => pte[u][p]
    BY <1>1, <1>5, Unmapped DEF pframe_clean, VnodeTypeOK
  <2>6. pframe' \in [Frame -> FrameRec] /\ pframe'[f].state = "busy"
        /\ \A g \in Frame \ {f} : pframe'[g] = pframe[g]
    BY <1>1, <1>5, <2>1 DEF pframe_clean, FrameRec
  <2>7. VnodeTypeOK'
    BY <1>1, <1>2, <1>5, <2>4, <2>5, <2>6 DEF VnodeTypeOK, ThreadRec, FrameRec
  <2>8. Others(t, f) /\ Shape(thread'[t])
    BY <2>1, <2>2, <2>4 DEF Others, Shape, Looking, OnPage, Moving, Dropping, AtWork, Waiting
  <2>9. \A u \in Thread, p \in Page : pte'[u][p] => pte[u][p] \/ (u = t /\ thread'[t].vn # NoVnode)
    BY <2>5
  <2>. QED BY <1>1, <1>2, <1>3, <2>1, <2>2, <2>4, <2>6, <2>7, <2>8, <2>9, PageStep
<1>6. ASSUME thread' = Finished(t, thread), asked' = [asked EXCEPT ![t] = Blank], UNCHANGED <<pframe, pte>>
      PROVE  VnodeIInv'
  <2>1. /\ thread' \in [Thread -> ThreadRec] /\ \A u \in Thread \ {t} : thread'[u] = thread[u]
        /\ thread'[t].pc = "user" /\ thread'[t].vn = thread[t].vn /\ thread'[t].name = NoName
    BY <1>1, <1>6, FinishedThread
  <2>2. asked' \in [Thread -> [Ino -> [Page -> 0..MaxWrite]]]
    BY <1>1, <1>6 DEF VnodeTypeOK, Blank
  <2>3. VnodeTypeOK'
    BY <1>1, <1>2, <1>6, <2>1, <2>2 DEF VnodeTypeOK, ThreadRec
  <2>4. Others(t, NoFrame) /\ Shape(thread'[t])
    BY <2>1 DEF Others, Shape, Looking, OnPage, Moving, Dropping, AtWork, Waiting
  <2>5. \A u \in Thread, p \in Page : pte'[u][p] => pte[u][p] \/ (u = t /\ thread'[t].vn # NoVnode)
    BY <1>6
  <2>. QED BY <1>1, <1>2, <1>3, <1>6, <2>1, <2>3, <2>4, <2>5, PageStep
<1>. QED BY <1>4, <1>5, <1>6 DEF pframe_clean_all
-----------------------------------------------------------------------------
(* Steps of threads with vnodes                                             *)

(* Where a thread has no reference to its vnode                             *)
Out == {"find", "vn_waitq", "read_vnode", "delete_vnode", "link"}

(* The threads but t stay where they are, those in vget may look again; the *)
(* structure of one in do_link may have been freed.                         *)
OthersStay(t) ==
  \A u \in Thread \ {t} :
    \/ thread'[u] = thread[u]
    \/ /\ thread[u].pc = "vn_waitq" /\ thread'[u].pc = "find" /\ thread'[u].vn = NoVnode
       /\ thread'[u].name = thread[u].name /\ thread'[u].pf = thread[u].pf
    \/ /\ thread[u].pc = "link" /\ thread'[u].pc = "link" /\ thread'[u].vn = thread[u].vn
       /\ thread'[u].name = thread[u].name /\ thread'[u].pf = thread[u].pf
       /\ thread'[u].stale # NoIno

(* A step of thread t, which is not at work on a page, that changes nothing *)
(* but the vnode v and its pages that are not busy                          *)
LEMMA VnodeStep ==
  ASSUME VnodeIInv, NEW t \in Thread, NEW v \in VnodeT, VnodeTypeOK',
         thread[t].pc \notin AtWork, thread'[t].pc \notin AtWork, Shape(thread'[t]),
         thread'[t].pc \in Waiting => Busy(thread'[t].pf),
         thread[t].vn \in {v, NoVnode}, thread'[t].vn \in {v, NoVnode},
         OthersStay(t),
         \A w \in VnodeT \ {v} : vnode'[w] = vnode[w],
         \A f \in Frame : f[1] # v => pframe'[f] = pframe[f],
         \A f \in Frame : pframe'[f].state = "busy" <=> pframe[f].state = "busy",
         vnode'[v].busy => vnode'[v].vn_vno # NoIno /\ vnode'[v].vn_refcount = 0,
         vnode'[v].vn_vno = NoIno => vnode'[v].vn_refcount = 0,
         \A w \in VnodeT \ {v} : vnode[w].vn_vno = vnode'[v].vn_vno => vnode'[v].vn_vno = NoIno,
         vnode'[v].vn_refcount = Cardinality(Holders(v)') + Cardinality(Respages(v)'),
         thread'[t].pc \in Moving =>
           /\ thread'[t].vn = v /\ vnode'[v].busy
           /\ thread'[t].pc = "read_vnode" => vnode'[v].vn_vno = thread'[t].name[2],
         \/ \A u \in Thread \ {t} : thread[u].pc \in Moving => thread[u].vn # v
         \/ vnode'[v] = vnode[v] /\ thread'[t].pc \notin Moving,
         names' = names, thread'[t].name # NoName => thread'[t].name \in names, revived' = revived,
         thread'[t].pc \in Dropping => thread'[t].vn = v /\ DropsAlone(t, v)',
         \A u \in Thread \ {t} : thread[u].pc \in Dropping /\ thread[u].vn = v =>
           /\ vnode'[v].vn_vno = vnode[v].vn_vno
           /\ \/ vnode[v].vn_vno \in revived
              \/ (thread'[t].vn # v \/ thread'[t].pc \in Out) /\ Respages(v)' = Respages(v),
         \A u \in Thread : thread'[u].pc = "link" /\ thread'[u].vn = v /\ vnode'[v].vn_vno = NoIno =>
           thread'[u].stale # NoIno,
         \A u \in Thread, p \in Page : pte'[u][p] =>
           pte[u][p] /\ (u = t => thread'[t].pc \in Holding \ Dropping /\ thread'[t].vn # NoVnode)
  PROVE  VnodeIInv'
<1> USE DEF VnodeIInv, OthersStay
<1>1. ASSUME NEW w \in VnodeT, w # v PROVE Holders(w)' = Holders(w) /\ Respages(w)' = Respages(w)
  <2>1. v # w /\ w # NoVnode
    BY <1>1
  <2>2. Holders(w)' = Holders(w)
    BY <2>1 DEF Holders
  <2>3. \A g \in {w} \X Page : g \in Frame /\ g[1] # v
    BY <1>1 DEF Frame
  <2>. QED BY <2>2, <2>3 DEF Respages
<1>2. ThreadShape'
  <2>1. ASSUME NEW u \in Thread, u # t PROVE Shape(thread'[u])
    BY <2>1 DEF ThreadShape, Shape, Looking, OnPage, Moving, Dropping, AtWork, Waiting
  <2>. QED BY <2>1 DEF ThreadShape, Shape
<1>3. VnodeShape'
  BY DEF VnodeShape
<1>4. Unique'
  BY DEF Unique
<1>5. MoversAlone'
  <2>1. \A u \in Thread \ {t} : thread'[u].pc \in Moving => thread'[u] = thread[u]
    BY DEF Moving
  <2>2. ASSUME NEW u \in Thread, u # t, thread'[u].pc \in Moving
        PROVE  /\ thread[u].pc \in Moving /\ thread[u].vn \in VnodeT
               /\ vnode'[thread[u].vn] = vnode[thread[u].vn]
               /\ thread'[t].pc \in Moving => thread[u].vn # v
    <3>1. thread[u].pc \in Moving
      BY <2>1, <2>2
    <3>2. thread[u].vn \in VnodeT
      BY <3>1 DEF ThreadShape, Shape, VnodeTypeOK
    <3>. QED BY <2>2, <3>1, <3>2
  <2>. QED BY <2>1, <2>2 DEF MoversAlone
<1>6. Counted'
  <2>1. ASSUME NEW w \in VnodeT, w # v PROVE vnode'[w].vn_refcount = Cardinality(Holders(w)') + vn_nrespages(w)'
    BY <1>1, <2>1, CountSame
  <2>. QED BY <2>1 DEF Counted, vn_nrespages
<1>7. WorkersAlone'
  <2>1. \A u \in Thread : thread'[u].pc \in AtWork <=> thread[u].pc \in AtWork
    BY DEF AtWork
  <2>2. \A u \in Thread : thread'[u].pc \in AtWork => thread'[u] = thread[u]
    BY DEF AtWork
  <2>3. \A u \in Thread \ {t} : thread'[u].pc \in Waiting => thread'[u] = thread[u]
    BY DEF Waiting
  <2>4. ASSUME NEW u \in Thread, thread'[u].pc \in AtWork \cup Waiting
        PROVE  pframe[thread'[u].pf].state = "busy"
    BY <2>1, <2>2, <2>3, <2>4 DEF WorkersAlone, Busy
  <2>5. \A u \in Thread : thread'[u].pc \in AtWork \cup Waiting => thread'[u].pf \in Frame
    BY <1>2 DEF ThreadShape, Shape, VnodeTypeOK
  <2>. QED BY <2>1, <2>2, <2>4, <2>5 DEF WorkersAlone, Busy
<1>8. WritersHold'
  <2>1. \A u \in Thread \ {t} : thread[u].pc \in Holding => thread'[u] = thread[u]
    BY DEF Holding, OnPage, Dropping
  <2>. QED BY <2>1 DEF WritersHold
<1>9. NamesKept'
  BY DEF NamesKept
<1>10. DroppersAlone'
  <2>1. \A u \in Thread \ {t} : thread'[u].pc \in Dropping => thread'[u] = thread[u]
    BY DEF Dropping
  <2>2. ASSUME NEW u \in Thread, u # t, thread'[u].pc \in Dropping, NEW w, w = thread[u].vn
        PROVE  DropsAlone(u, w)'
    <3>1. w \in VnodeT /\ DropsAlone(u, w) /\ thread'[u] = thread[u]
      BY <2>1, <2>2 DEF ThreadShape, Shape, VnodeTypeOK, DroppersAlone
    <3>2. ASSUME NEW x \in Thread, thread'[x].pc \in Dropping, thread'[x].vn = w PROVE x = u
      <4>1. CASE x # t
        BY <2>1, <3>1, <3>2, <4>1 DEF DropsAlone
      <4>2. CASE x = t
        BY <2>2, <3>1, <3>2, <4>2 DEF DropsAlone
      <4>. QED BY <4>1, <4>2
    <3>3. \/ vnode'[w].vn_vno \in revived'
          \/ /\ ~Linked(vnode[w].vn_vno) /\ vnode'[w].vn_vno = vnode[w].vn_vno
             /\ Holders(w)' = {u} /\ thread[u].left = Respages(w)'
      <4>1. CASE w # v
        BY <1>1, <3>1, <4>1 DEF DropsAlone
      <4>2. CASE w = v
        <5>1. /\ vnode'[v].vn_vno = vnode[v].vn_vno
              /\ \/ vnode[v].vn_vno \in revived
                 \/ (thread'[t].vn # v \/ thread'[t].pc \in Out) /\ Respages(v)' = Respages(v)
          <6>1. thread[u].pc \in Dropping /\ thread[u].vn = v /\ u \in Thread \ {t}
            BY <2>2, <3>1, <4>2
          <6>. QED BY <6>1
        <5>2. CASE vnode[v].vn_vno \in revived
          BY <4>2, <5>1, <5>2
        <5>3. CASE Holders(v) = {u} /\ (thread'[t].vn # v \/ thread'[t].pc \in Out)
          <6>1. \A x \in Thread \ {t} : x \in Holders(v)' <=> x \in Holders(v)
            BY DEF Holders
          <6>2. t \notin Holders(v)'
            BY <5>3 DEF Holders, Out
          <6>3. Holders(v)' = {u}
            BY <2>2, <5>3, <6>1, <6>2 DEF Holders
          <6>. QED BY <3>1, <4>2, <5>1, <5>3, <6>3 DEF DropsAlone
        <5>. QED BY <3>1, <4>2, <5>1, <5>2, <5>3 DEF DropsAlone
      <4>. QED BY <4>1, <4>2
    <3>. QED BY <3>1, <3>2, <3>3 DEF DropsAlone, Linked
  <2>. QED BY <2>1, <2>2 DEF DroppersAlone
<1>11. LinksRead'
  <2>1. ASSUME NEW u \in Thread, thread'[u].pc = "link", vnode'[thread'[u].vn].vn_vno = NoIno
        PROVE  thread'[u].stale # NoIno
    <3>1. CASE thread'[u].vn = v
      BY <2>1, <3>1
    <3>2. CASE thread'[u].vn # v
      <4>1. thread'[u].vn \in VnodeT
        BY <1>2, <2>1 DEF ThreadShape, Shape, VnodeTypeOK
      <4>2. u # t
        BY <3>2, <4>1
      <4>. QED BY <2>1, <3>2, <4>1, <4>2 DEF LinksRead
    <3>. QED BY <3>1, <3>2
  <2>. QED BY <2>1 DEF LinksRead
<1>. QED BY <1>2, <1>3, <1>4, <1>5, <1>6, <1>7, <1>8, <1>9, <1>10, <1>11

LEMMA HoldersAfter ==
  ASSUME NEW t \in Thread, NEW v, OthersStay(t)
  PROVE  Holders(v)' = IF thread'[t].vn = v /\ thread'[t].pc \notin Out
                       THEN Holders(v) \cup {t} ELSE Holders(v) \ {t}
BY DEF Holders, OthersStay, Out

LEMMA CountStays ==
  ASSUME VnodeIInv, NEW t \in Thread, NEW v \in VnodeT, OthersStay(t), Respages(v)' = Respages(v),
         t \in Holders(v) <=> thread'[t].vn = v /\ thread'[t].pc \notin Out,
         vnode'[v].vn_refcount = vnode[v].vn_refcount
  PROVE  vnode'[v].vn_refcount = Cardinality(Holders(v)') + Cardinality(Respages(v)')
<1>1. /\ IsFiniteSet(Holders(v)) /\ Cardinality(Holders(v)) \in Nat /\ Cardinality(Respages(v)) \in Nat
      /\ vnode[v].vn_refcount = Cardinality(Holders(v)) + Cardinality(Respages(v))
  BY CountsFinite DEF VnodeIInv, Counted, vn_nrespages
<1>2. Holders(v)' = Holders(v)
  BY HoldersAfter
<1>. QED BY <1>1, <1>2
LEMMA CountGains ==
  ASSUME VnodeIInv, NEW t \in Thread, NEW v \in VnodeT, OthersStay(t), Respages(v)' = Respages(v),
         t \notin Holders(v), thread'[t].vn = v /\ thread'[t].pc \notin Out,
         vnode'[v].vn_refcount = vnode[v].vn_refcount + 1
  PROVE  vnode'[v].vn_refcount = Cardinality(Holders(v)') + Cardinality(Respages(v)')
<1>1. /\ IsFiniteSet(Holders(v)) /\ Cardinality(Holders(v)) \in Nat /\ Cardinality(Respages(v)) \in Nat
      /\ vnode[v].vn_refcount = Cardinality(Holders(v)) + Cardinality(Respages(v))
  BY CountsFinite DEF VnodeIInv, Counted, vn_nrespages
<1>2. Cardinality(Holders(v)') = Cardinality(Holders(v)) + 1
  BY <1>1, HoldersAfter, FS_AddElement
<1>. QED BY <1>1, <1>2
LEMMA CountLoses ==
  ASSUME VnodeIInv, NEW t \in Thread, NEW v \in VnodeT, OthersStay(t), Respages(v)' = Respages(v),
         t \in Holders(v), ~(thread'[t].vn = v /\ thread'[t].pc \notin Out),
         vnode'[v].vn_refcount = vnode[v].vn_refcount - 1
  PROVE  vnode'[v].vn_refcount = Cardinality(Holders(v)') + Cardinality(Respages(v)')
<1>1. /\ IsFiniteSet(Holders(v)) /\ Cardinality(Holders(v)) \in Nat /\ Cardinality(Respages(v)) \in Nat
      /\ vnode[v].vn_refcount = Cardinality(Holders(v)) + Cardinality(Respages(v))
  BY CountsFinite DEF VnodeIInv, Counted, vn_nrespages
<1>2. Cardinality(Holders(v)') = Cardinality(Holders(v)) - 1
  BY <1>1, HoldersAfter, FS_RemoveElement
<1>. QED BY <1>1, <1>2
LEMMA FindStep ==
  ASSUME VnodeIInv, NEW t \in Thread, NEW name \in Dir \X Ino, thread[t].vn = NoVnode,
         thread[t].pc \in {"user", "find"}, name \in names,
         NEW want \in {"read", "write", "copy", "link"}, Find(t, name, want)
  PROVE  VnodeIInv'
<1>1. /\ thread \in [Thread -> ThreadRec] /\ vnode \in [VnodeT -> VnodeRec] /\ VnodeTypeOK
      /\ name[2] \in Ino /\ name[2] # NoIno /\ name # NoName
  BY Types DEF VnodeIInv
<1>2. UNCHANGED <<pframe, pte, names, disk, latest, asked, panic, revived>>
  BY DEF Find
<1>3. /\ \A p \in Page : ~pte[t][p]
      /\ \A v \in VnodeT : t \notin Holders(v)
      /\ {"user", "opened", "find", "vn_waitq", "read_vnode"} \cap (AtWork \cup Waiting) = {}
      /\ "read_vnode" \in Moving /\ {"user", "opened", "find", "vn_waitq"} \cap Moving = {}
      /\ {"user", "opened"} \cap Out = {} /\ {"find", "vn_waitq", "read_vnode"} \subseteq Out
      /\ {"user", "opened", "find", "vn_waitq", "read_vnode"} \cap Dropping = {}
      /\ {"user", "opened"} \subseteq Holding /\ Got(want) \in {"user", "opened"}
  BY DEF VnodeIInv, WritersHold, Holders, AtWork, Waiting, Moving, Out, Dropping, Holding, Got
<1>4. ASSUME NEW u \in Thread, thread[u].pc \in Moving
      PROVE  thread[u].vn \in VnodeT /\ vnode[thread[u].vn].busy /\ vnode[thread[u].vn].vn_vno # NoIno
  BY <1>1, <1>4 DEF VnodeIInv, MoversAlone, VnodeShape, ThreadShape, Shape, ThreadRec
<1>5. ASSUME NEW v \in VnodeT, NEW r \in ThreadRec, thread' = [thread EXCEPT ![t] = r]
      PROVE  /\ thread' \in [Thread -> ThreadRec] /\ OthersStay(t) /\ thread'[t] = r
             /\ Respages(v)' = Respages(v)
  BY <1>1, <1>2, <1>5 DEF OthersStay, Respages
<1>6. ASSUME NEW v \in InUse(name[2]), vnode[v].busy, UNCHANGED vnode,
             thread' = [thread EXCEPT ![t] = [@ EXCEPT !.pc = "vn_waitq", !.vn = v, !.name = name, !.want = want]]
      PROVE  VnodeIInv'
  <2> DEFINE r == [thread[t] EXCEPT !.pc = "vn_waitq", !.vn = v, !.name = name, !.want = want]
  <2>1. v \in VnodeT /\ v # NoVnode
    BY DEF InUse
  <2>2. r \in ThreadRec /\ r.pc = "vn_waitq" /\ r.vn = v /\ r.name = name
    <3>1. thread[t] \in ThreadRec /\ v \in VnodeT
      BY <1>1, <2>1
    <3>. QED BY <3>1, ZenonT(30) DEF ThreadRec
  <2>3. thread' = [thread EXCEPT ![t] = r]
    BY <1>6
  <2> HIDE DEF r
  <2>4. /\ thread' \in [Thread -> ThreadRec] /\ OthersStay(t) /\ thread'[t] = r
        /\ Respages(v)' = Respages(v)
    BY <1>5, <2>1, <2>2, <2>3
  <2>5. VnodeTypeOK'
    BY <1>1, <1>2, <1>6, <2>4 DEF VnodeTypeOK, ThreadRec
  <2>6. vnode'[v].vn_refcount = Cardinality(Holders(v)') + Cardinality(Respages(v)')
    BY <1>3, <1>6, <2>1, <2>2, <2>4, CountStays
  <2>7. Shape(thread'[t])
    BY <1>1, <2>1, <2>2, <2>4 DEF Shape, Looking, OnPage, Moving, Dropping, AtWork, Waiting
  <2>. QED BY <1>2, <1>3, <1>6, <2>1, <2>2, <2>4, <2>5, <2>6, <2>7, VnodeStep
              DEF VnodeIInv, VnodeShape, Unique, OthersStay, LinksRead
<1>7. ASSUME NEW v \in InUse(name[2]), ~vnode[v].busy,
             thread' = [thread EXCEPT ![t] = [@ EXCEPT !.pc = Got(want), !.vn = v, !.name = NoName, !.want = want]],
             vnode' = [vnode EXCEPT ![v].vn_refcount = @ + 1]
      PROVE  VnodeIInv'
  <2> DEFINE r == [thread[t] EXCEPT !.pc = Got(want), !.vn = v, !.name = NoName, !.want = want]
  <2>1. v \in VnodeT /\ v # NoVnode /\ vnode[v].vn_vno = name[2]
    BY DEF InUse
  <2>2. r \in ThreadRec /\ r.pc = Got(want) /\ r.vn = v /\ r.name = NoName
    <3>1. thread[t] \in ThreadRec /\ v \in VnodeT
      BY <1>1, <2>1
    <3>. QED BY <1>3, <3>1, ZenonT(30) DEF ThreadRec
  <2>3. thread' = [thread EXCEPT ![t] = r]
    BY <1>7
  <2> HIDE DEF r
  <2>4. /\ thread' \in [Thread -> ThreadRec] /\ OthersStay(t) /\ thread'[t] = r
        /\ Respages(v)' = Respages(v)
    BY <1>5, <2>1, <2>2, <2>3
  <2>5. /\ vnode' \in [VnodeT -> VnodeRec] /\ \A w \in VnodeT \ {v} : vnode'[w] = vnode[w]
        /\ vnode'[v].vn_refcount = vnode[v].vn_refcount + 1
        /\ vnode'[v].vn_vno = name[2] /\ ~vnode'[v].busy
    BY <1>1, <1>7, <2>1 DEF VnodeRec
  <2>6. VnodeTypeOK'
    BY <1>1, <1>2, <2>4, <2>5 DEF VnodeTypeOK, ThreadRec, VnodeRec
  <2>7. vnode'[v].vn_refcount = Cardinality(Holders(v)') + Cardinality(Respages(v)')
    BY <1>3, <2>1, <2>2, <2>4, <2>5, CountGains
  <2>8. Shape(thread'[t])
    BY <1>1, <1>3, <2>1, <2>2, <2>4 DEF Shape, Looking, OnPage, Moving, Dropping, AtWork, Waiting
  <2>9. \A w \in VnodeT \ {v} : vnode[w].vn_vno = vnode'[v].vn_vno => vnode'[v].vn_vno = NoIno
    BY <2>1, <2>5 DEF VnodeIInv, Unique
  <2>10. \A u \in Thread \ {t} :
           /\ thread[u].pc \in Moving => thread[u].vn # v
           /\ thread[u].pc \in Dropping /\ thread[u].vn = v =>
                vnode'[v].vn_vno = vnode[v].vn_vno /\ vnode[v].vn_vno \in revived
    <3>1. Linked(vnode[v].vn_vno)
      BY <2>1 DEF Linked
    <3>. QED BY <1>4, <1>7, <2>1, <2>5, <3>1 DEF VnodeIInv, DroppersAlone, DropsAlone
  <2>. QED BY <1>1, <1>2, <1>3, <2>1, <2>2, <2>4, <2>5, <2>6, <2>7, <2>8, <2>9, <2>10, VnodeStep
<1>8. ASSUME InUse(name[2]) = {}, NEW v \in InUse(NoIno),
             thread' = [thread EXCEPT ![t] = [@ EXCEPT !.pc = "read_vnode", !.vn = v, !.name = name, !.want = want]],
             vnode' = [vnode EXCEPT ![v] = [vn_vno |-> name[2], busy |-> TRUE, vn_refcount |-> 0]]
      PROVE  VnodeIInv'
  <2> DEFINE r == [thread[t] EXCEPT !.pc = "read_vnode", !.vn = v, !.name = name, !.want = want]
  <2>1. v \in VnodeT /\ v # NoVnode /\ vnode[v].vn_vno = NoIno
    BY DEF InUse
  <2>2. r \in ThreadRec /\ r.pc = "read_vnode" /\ r.vn = v /\ r.name = name
    <3>1. thread[t] \in ThreadRec /\ v \in VnodeT
      BY <1>1, <2>1
    <3>. QED BY <3>1, ZenonT(30) DEF ThreadRec
  <2>3. thread' = [thread EXCEPT ![t] = r]
    BY <1>8
  <2> HIDE DEF r
  <2>4. /\ thread' \in [Thread -> ThreadRec] /\ OthersStay(t) /\ thread'[t] = r
        /\ Respages(v)' = Respages(v)
    BY <1>5, <2>1, <2>2, <2>3
  <2>5. /\ vnode' \in [VnodeT -> VnodeRec] /\ \A w \in VnodeT \ {v} : vnode'[w] = vnode[w]
        /\ vnode'[v].vn_refcount = vnode[v].vn_refcount /\ vnode'[v].vn_refcount = 0
        /\ vnode'[v].vn_vno = name[2] /\ vnode'[v].busy
    BY <1>1, <1>8, <2>1 DEF VnodeRec, VnodeIInv, VnodeShape
  <2>6. VnodeTypeOK'
    BY <1>1, <1>2, <2>4, <2>5 DEF VnodeTypeOK, ThreadRec, VnodeRec
  <2>7. vnode'[v].vn_refcount = Cardinality(Holders(v)') + Cardinality(Respages(v)')
    <3>1. t \in Holders(v) <=> thread'[t].vn = v /\ thread'[t].pc \notin Out
      BY <1>3, <2>1, <2>2, <2>4
    <3>. QED BY <2>1, <2>4, <2>5, <3>1, CountStays
  <2>8. Shape(thread'[t])
    BY <1>1, <2>1, <2>2, <2>4 DEF Shape, Looking, OnPage, Moving, Dropping, AtWork, Waiting
  <2>9. \A w \in VnodeT \ {v} : vnode[w].vn_vno = vnode'[v].vn_vno => vnode'[v].vn_vno = NoIno
    BY <1>8, <2>5 DEF InUse
  <2>10. \A u \in Thread \ {t} :
           /\ thread[u].pc \in Moving => thread[u].vn # v
           /\ ~(thread[u].pc \in Dropping /\ thread[u].vn = v)
    <3>1. \A u \in Thread : thread[u].pc \in Dropping /\ thread[u].vn = v => u \in Holders(v)
      BY DEF Dropping, Holders
    <3>. QED BY <1>4, <2>1, <3>1, FromCount DEF VnodeIInv
  <2>. QED BY <1>1, <1>2, <1>3, <2>1, <2>2, <2>4, <2>5, <2>6, <2>7, <2>8, <2>9, <2>10, VnodeStep
<1>9. ASSUME thread' = [thread EXCEPT ![t] = [@ EXCEPT !.pc = "find", !.vn = NoVnode, !.name = name, !.want = want]],
             UNCHANGED vnode
      PROVE  VnodeIInv'
  <2> DEFINE r == [thread[t] EXCEPT !.pc = "find", !.vn = NoVnode, !.name = name, !.want = want]
  <2>1. PICK v \in VnodeT : v # NoVnode
    OBVIOUS
  <2>2. r \in ThreadRec /\ r.pc = "find" /\ r.vn = NoVnode /\ r.name = name
    <3>1. thread[t] \in ThreadRec /\ NoVnode \in VnodeT \cup {NoVnode}
      BY <1>1
    <3>. QED BY <3>1, ZenonT(30) DEF ThreadRec
  <2>3. thread' = [thread EXCEPT ![t] = r]
    BY <1>9
  <2> HIDE DEF r
  <2>4. /\ thread' \in [Thread -> ThreadRec] /\ OthersStay(t) /\ thread'[t] = r
        /\ Respages(v)' = Respages(v)
    BY <1>5, <2>2, <2>3
  <2>5. VnodeTypeOK'
    BY <1>1, <1>2, <1>9, <2>4 DEF VnodeTypeOK, ThreadRec
  <2>6. vnode'[v].vn_refcount = Cardinality(Holders(v)') + Cardinality(Respages(v)')
    BY <1>3, <1>9, <2>1, <2>2, <2>4, CountStays
  <2>7. Shape(thread'[t])
    BY <1>1, <2>2, <2>4 DEF Shape, Looking, OnPage, Moving, Dropping, AtWork, Waiting
  <2>. QED BY <1>2, <1>3, <1>9, <2>1, <2>2, <2>4, <2>5, <2>6, <2>7, VnodeStep
              DEF VnodeIInv, VnodeShape, Unique, OthersStay, LinksRead
<1>. QED BY <1>6, <1>7, <1>8, <1>9 DEF Find

LEMMA IsInStep ==
  ASSUME VnodeIInv, NEW t \in Thread, VnodeIsIn(t)
  PROVE  VnodeIInv'
<1> DEFINE g == Got(thread[t].want)
           r == [thread[t] EXCEPT !.pc = g, !.name = NoName]
<1>1. /\ thread \in [Thread -> ThreadRec] /\ vnode \in [VnodeT -> VnodeRec] /\ VnodeTypeOK
      /\ thread[t].pc = "read_vnode" /\ "read_vnode" \in Moving /\ Shape(thread[t])
  BY Types DEF VnodeIInv, VnodeIsIn, Moving, ThreadShape
<1>2. PICK v \in VnodeT : v = thread[t].vn /\ v # NoVnode /\ vnode[v].busy
  BY <1>1 DEF VnodeIInv, Shape, MoversAlone, ThreadRec
<1>3. vnode[v].vn_vno # NoIno /\ vnode[v].vn_refcount = 0 /\ Holders(v) = {} /\ Respages(v) = {}
  BY <1>2, FromCount DEF VnodeIInv, VnodeShape
<1>4. UNCHANGED <<pframe, pte, names, disk, latest, asked, panic, revived>>
  BY DEF VnodeIsIn
<1>5. /\ r \in ThreadRec /\ r.pc \in {"user", "opened"} /\ r.vn = v /\ r.name = NoName
  <2>1. g \in {"user", "opened"}
    BY DEF Got
  <2> HIDE DEF g
  <2>2. thread[t] \in ThreadRec
    BY <1>1
  <2>. QED BY <1>2, <2>1, <2>2, ZenonT(30) DEF ThreadRec
<1>6. thread' = [thread EXCEPT ![t] = r]
  BY DEF VnodeIsIn
<1>7. vnode' = [vnode EXCEPT ![v] = [@ EXCEPT !.busy = FALSE, !.vn_refcount = 1]]
  BY <1>2 DEF VnodeIsIn
<1> HIDE DEF r
<1>8. thread' \in [Thread -> ThreadRec] /\ OthersStay(t) /\ thread'[t] = r /\ Respages(v)' = Respages(v)
  BY <1>1, <1>2, <1>4, <1>5, <1>6 DEF OthersStay, Respages
<1>9. /\ vnode' \in [VnodeT -> VnodeRec] /\ \A w \in VnodeT \ {v} : vnode'[w] = vnode[w]
      /\ vnode'[v].vn_refcount = 1 /\ vnode'[v].vn_vno = vnode[v].vn_vno /\ ~vnode'[v].busy
  BY <1>1, <1>2, <1>7 DEF VnodeRec
<1>10. VnodeTypeOK'
  BY <1>1, <1>4, <1>8, <1>9 DEF VnodeTypeOK, ThreadRec, VnodeRec
<1>11. vnode'[v].vn_refcount = Cardinality(Holders(v)') + Cardinality(Respages(v)')
  <2>1. t \notin Holders(v) /\ thread'[t].vn = v /\ thread'[t].pc \notin Out
    BY <1>3, <1>5, <1>8 DEF Out
  <2>2. vnode'[v].vn_refcount = vnode[v].vn_refcount + 1
    BY <1>3, <1>9
  <2>. QED BY <1>2, <1>8, <2>1, <2>2, CountGains
<1>12. Shape(thread'[t])
  BY <1>5, <1>8 DEF Shape, Looking, OnPage, Moving, Dropping, AtWork, Waiting
<1>13. \A w \in VnodeT \ {v} : vnode[w].vn_vno = vnode'[v].vn_vno => vnode'[v].vn_vno = NoIno
  BY <1>2, <1>9 DEF VnodeIInv, Unique
<1>14. \A u \in Thread \ {t} :
         /\ thread[u].pc \in Moving => thread[u].vn # v
         /\ ~(thread[u].pc \in Dropping /\ thread[u].vn = v)
  <2>1. \A u \in Thread : thread[u].pc \in Dropping /\ thread[u].vn = v => u \in Holders(v)
    BY DEF Dropping, Holders
  <2>. QED BY <1>1, <1>2, <1>3, <2>1 DEF VnodeIInv, MoversAlone
<1>15. \A p \in Page : ~pte[t][p]
  BY <1>1 DEF VnodeIInv, WritersHold, Holding, Dropping, OnPage
<1>16. {"user", "opened"} \cap (AtWork \cup Waiting \cup Moving \cup Dropping) = {} /\ "read_vnode" \notin AtWork
  BY DEF AtWork, Waiting, Moving, Dropping
<1>17. thread'[t].pc \in {"user", "opened"} /\ thread'[t].vn = v /\ thread'[t].name = NoName /\ thread[t].pc \notin AtWork
  BY <1>1, <1>5, <1>8, <1>16
<1>18. /\ \A f \in Frame : f[1] # v => pframe'[f] = pframe[f]
       /\ \A f \in Frame : pframe'[f].state = "busy" <=> pframe[f].state = "busy"
       /\ \A u \in Thread, p \in Page : pte'[u][p] =>
            pte[u][p] /\ (u = t => thread'[t].pc \in Holding \ Dropping /\ thread'[t].vn # NoVnode)
       /\ names' = names /\ revived' = revived
  BY <1>4, <1>15
<1>19. /\ OthersStay(t) /\ vnode'[v].vn_vno # NoIno /\ ~vnode'[v].busy
       /\ \A w \in VnodeT \ {v} : vnode'[w] = vnode[w]
       /\ thread[t].vn = v
  BY <1>2, <1>3, <1>8, <1>9
<1>. QED BY <1>10, <1>11, <1>12, <1>13, <1>14, <1>16, <1>17, <1>18, <1>19, VnodeStep

LEMMA IsOutStep ==
  ASSUME VnodeIInv, NEW t \in Thread, VnodeIsOut(t)
  PROVE  VnodeIInv'
<1>1. /\ thread \in [Thread -> ThreadRec] /\ vnode \in [VnodeT -> VnodeRec] /\ VnodeTypeOK
      /\ thread[t].pc = "delete_vnode" /\ "delete_vnode" \in Moving /\ Shape(thread[t])
      /\ thread[t].name = NoName
  BY Types DEF VnodeIInv, VnodeIsOut, Moving, ThreadShape, Shape, Looking
<1>2. PICK v \in VnodeT : v = thread[t].vn /\ v # NoVnode /\ vnode[v].busy
  BY <1>1 DEF VnodeIInv, Shape, MoversAlone, ThreadRec
<1>3. vnode[v].vn_refcount = 0 /\ Holders(v) = {} /\ Respages(v) = {}
  BY <1>2, FromCount DEF VnodeIInv, VnodeShape
<1>4. UNCHANGED <<pframe, pte, names, disk, latest, asked, panic, revived>>
  BY DEF VnodeIsOut
<1>5. ASSUME NEW u \in Thread
      PROVE  /\ thread'[u] \in ThreadRec
             /\ u = t => /\ thread'[u].name = NoName
                         /\ \/ thread'[u].pc = "user" /\ thread'[u].vn = NoVnode
                            \/ /\ thread'[u].pc = "link" /\ thread'[u].vn = v
                               /\ thread'[u].stale # NoIno
             /\ u # t => \/ thread'[u] = thread[u] /\ ~(thread[u].pc = "link" /\ thread[u].vn = v)
                         \/ /\ thread[u].pc = "vn_waitq" /\ thread'[u].pc = "find"
                            /\ thread'[u].vn = NoVnode /\ thread'[u].name = thread[u].name
                            /\ thread'[u].pf = thread[u].pf
                         \/ /\ thread[u].pc = "link" /\ thread'[u].pc = "link"
                            /\ thread'[u].vn = thread[u].vn
                            /\ thread'[u].name = thread[u].name /\ thread'[u].pf = thread[u].pf
                            /\ thread'[u].stale # NoIno
  <2> DEFINE n == vnode[v].vn_vno
  <2>1. thread[u] \in ThreadRec /\ n \in Ino /\ n # NoIno
    BY <1>1, <1>2 DEF VnodeIInv, VnodeShape, VnodeRec
  <2>2. thread'[u] =
          LET r == IF u = t THEN VputReturns(thread[u]) ELSE thread[u] IN
          CASE r.vn = v /\ r.pc = "vn_waitq" -> [r EXCEPT !.pc = "find", !.vn = NoVnode]
            [] r.vn = v /\ r.pc = "link" -> [r EXCEPT !.stale = n]
            [] OTHER -> r
    BY <1>2, ZenonT(30) DEF VnodeIsOut
  <2> HIDE DEF n
  <2>3. CASE u = t /\ thread[t].want = "link"
    <3> DEFINE x == [thread[t] EXCEPT !.pc = "link"]
               y == [x EXCEPT !.stale = n]
    <3>1. thread[t] \in ThreadRec /\ thread[t].vn = v /\ thread[t].name = NoName
      BY <1>1, <1>2
    <3>2. x \in ThreadRec /\ x.pc = "link" /\ x.vn = v /\ x.name = NoName
      BY <3>1, ZenonT(30) DEF ThreadRec
    <3>3. VputReturns(thread[u]) = x
      BY <2>3 DEF VputReturns
    <3> HIDE DEF x
    <3>4. y \in ThreadRec /\ y.pc = "link" /\ y.vn = v /\ y.name = NoName /\ y.stale = n
      BY <2>1, <3>2, ZenonT(30) DEF ThreadRec
    <3>5. thread'[u] = y
      BY <2>2, <2>3, <3>2, <3>3
    <3> HIDE DEF y
    <3>. QED BY <2>1, <2>3, <3>4, <3>5
  <2>4. CASE u = t /\ thread[t].want # "link"
    <3> DEFINE x == [thread[t] EXCEPT !.pc = "user", !.vn = NoVnode]
    <3>1. thread[t] \in ThreadRec /\ thread[t].name = NoName
      BY <1>1
    <3>2. x \in ThreadRec /\ x.pc = "user" /\ x.vn = NoVnode /\ x.name = NoName
      BY <3>1, ZenonT(30) DEF ThreadRec
    <3>3. VputReturns(thread[u]) = x
      BY <2>4 DEF VputReturns
    <3> HIDE DEF x
    <3>4. thread'[u] = x
      BY <1>2, <2>2, <2>4, <3>2, <3>3
    <3>. QED BY <2>4, <3>2, <3>4
  <2>5. CASE u # t /\ thread[u].pc = "vn_waitq" /\ thread[u].vn = v
    <3> DEFINE x == [thread[u] EXCEPT !.pc = "find", !.vn = NoVnode]
    <3>1. /\ x \in ThreadRec /\ x.pc = "find" /\ x.vn = NoVnode /\ x.name = thread[u].name
          /\ x.pf = thread[u].pf
      BY <2>1, ZenonT(30) DEF ThreadRec
    <3>2. thread'[u] = x
      BY <2>2, <2>5
    <3> HIDE DEF x
    <3>. QED BY <2>5, <3>1, <3>2
  <2>6. CASE u # t /\ thread[u].pc = "link" /\ thread[u].vn = v
    <3> DEFINE x == [thread[u] EXCEPT !.stale = n]
    <3>1. /\ x \in ThreadRec /\ x.pc = "link" /\ x.vn = v /\ x.name = thread[u].name
          /\ x.pf = thread[u].pf /\ x.stale = n
      BY <2>1, <2>6, ZenonT(30) DEF ThreadRec
    <3>2. thread'[u] = x
      BY <2>2, <2>6
    <3> HIDE DEF x
    <3>. QED BY <2>1, <2>6, <3>1, <3>2
  <2>7. CASE u # t /\ ~(thread[u].vn = v /\ thread[u].pc \in {"vn_waitq", "link"})
    BY <2>1, <2>2, <2>7
  <2>. QED BY <2>3, <2>4, <2>5, <2>6, <2>7
<1>6. thread' \in [Thread -> ThreadRec] /\ OthersStay(t)
  <2>1. thread' = [u \in Thread |-> thread'[u]]
    BY DEF VnodeIsOut
  <2>. QED BY <1>5, <2>1 DEF OthersStay
<1>7. vnode' = [vnode EXCEPT ![v] = FreeVnode]
  BY <1>2 DEF VnodeIsOut
<1>8. /\ vnode' \in [VnodeT -> VnodeRec] /\ \A w \in VnodeT \ {v} : vnode'[w] = vnode[w]
      /\ vnode'[v].vn_refcount = 0 /\ vnode'[v].vn_vno = NoIno /\ ~vnode'[v].busy
  BY <1>1, <1>2, <1>7 DEF VnodeRec, FreeVnode
<1>9. VnodeTypeOK'
  BY <1>1, <1>4, <1>6, <1>8 DEF VnodeTypeOK, ThreadRec, VnodeRec
<1>10. vnode'[v].vn_refcount = Cardinality(Holders(v)') + Cardinality(Respages(v)')
  <2>1. /\ t \notin Holders(v) /\ ~(thread'[t].vn = v /\ thread'[t].pc \notin Out)
        /\ Respages(v)' = Respages(v)
    BY <1>2, <1>3, <1>4, <1>5 DEF Respages, Out
  <2>2. vnode'[v].vn_refcount = vnode[v].vn_refcount
    BY <1>3, <1>8
  <2>. QED BY <1>2, <1>6, <2>1, <2>2, CountStays
<1>11. Shape(thread'[t])
  BY <1>2, <1>5 DEF Shape, Looking, OnPage, Moving, Dropping, AtWork, Waiting
<1>12. \A u \in Thread \ {t} :
         /\ thread[u].pc \in Moving => thread[u].vn # v
         /\ ~(thread[u].pc \in Dropping /\ thread[u].vn = v)
  <2>1. \A u \in Thread : thread[u].pc \in Dropping /\ thread[u].vn = v => u \in Holders(v)
    BY DEF Dropping, Holders
  <2>. QED BY <1>1, <1>2, <1>3, <2>1 DEF VnodeIInv, MoversAlone
<1>13. \A p \in Page : ~pte[t][p]
  BY <1>1 DEF VnodeIInv, WritersHold, Holding, Dropping, OnPage
<1>14. {"user", "link"} \cap (AtWork \cup Waiting \cup Moving \cup Dropping) = {} /\ "delete_vnode" \notin AtWork
  BY DEF AtWork, Waiting, Moving, Dropping
<1>15. \A u \in Thread : thread'[u].pc = "link" /\ thread'[u].vn = v => thread'[u].stale # NoIno
  BY <1>2, <1>5
<1>16. thread'[t].pc \in {"user", "link"} /\ thread'[t].vn \in {v, NoVnode} /\ thread'[t].name = NoName
  BY <1>5
<1>. QED BY <1>1, <1>2, <1>4, <1>6, <1>8, <1>9, <1>10, <1>11, <1>12, <1>13, <1>14, <1>15, <1>16, VnodeStep

LEMMA UnlinkStep ==
  ASSUME VnodeIInv, NEW t \in Thread, NEW d \in Dir, do_unlink(t, d)
  PROVE  VnodeIInv'
<1> DEFINE w == thread[t].vn
           i == vnode[w].vn_vno
<1>1. /\ UNCHANGED <<thread, vnode, pframe, pte, disk, latest, asked, panic, revived>>
      /\ names' = names \ {<<d, i>>} /\ ~Locked(d)
  BY DEF do_unlink
<1>2. VnodeTypeOK'
  BY <1>1 DEF VnodeIInv, VnodeTypeOK
<1>3. (ThreadShape /\ VnodeShape /\ Unique /\ MoversAlone /\ WorkersAlone /\ WritersHold /\ LinksRead)'
  BY <1>1 DEF VnodeIInv, ThreadShape, VnodeShape, Unique, MoversAlone, WorkersAlone, WritersHold, Busy,
              LinksRead
<1>4. Counted'
  BY <1>1 DEF VnodeIInv, Counted, Holders, vn_nrespages, Respages
<1>5. NamesKept'
  BY <1>1 DEF VnodeIInv, NamesKept, Locked
<1>6. DroppersAlone'
  <2>1. ASSUME NEW n PROVE Linked(n)' => Linked(n)
    BY <1>1 DEF Linked
  <2>2. ASSUME NEW u \in Thread, NEW v, DropsAlone(u, v) PROVE DropsAlone(u, v)'
    BY <1>1, <2>1, <2>2 DEF DropsAlone, Holders, Respages
  <2>. QED BY <1>1, <2>2 DEF VnodeIInv, DroppersAlone
<1>. QED BY <1>2, <1>3, <1>4, <1>5, <1>6 DEF VnodeIInv

(* Who uses an inode holds its vnode.                                       *)
LEMMA UsersHold ==
  ASSUME VnodeIInv, NEW i \in Ino, NEW u \in Users(i)
  PROVE  /\ thread[u].vn \in VnodeT /\ vnode[thread[u].vn].vn_vno = i
         /\ u \in Holders(thread[u].vn) /\ thread[u].pc \in Holding \ Dropping
         /\ \A v \in VnodeT : vnode[v].vn_vno = i => v = thread[u].vn
<1>1. /\ thread[u].vn \in VnodeT /\ vnode[thread[u].vn].vn_vno = i /\ u \in Thread
      /\ thread[u].pc \notin {"find", "vn_waitq", "read_vnode", "vput", "vput_waitq",
                              "delete_vnode", "link"}
  BY DEF Users, InUse
<1>2. thread[u] \in ThreadRec
  BY <1>1, Types DEF VnodeIInv
<1>3. u \in Holders(thread[u].vn) /\ thread[u].pc \in Holding \ Dropping
  BY <1>1, <1>2 DEF Holders, Holding, Dropping, OnPage, ThreadRec
<1>4. i # NoIno
  OBVIOUS
<1>. QED BY <1>1, <1>3, <1>4 DEF VnodeIInv, Unique

(* do_link: the inode of a thread that frees pages has no other user, and   *)
(* if do_link names it, it has revived it.                                  *)
LEMMA LinkStep ==
  ASSUME VnodeIInv, NEW t \in Thread, NEW d \in Dir, do_link(t, d)
  PROVE  VnodeIInv'
<1> DEFINE w == thread[t].vn
           i == IF vnode[w].vn_vno = NoIno THEN thread[t].stale ELSE vnode[w].vn_vno
           r == [thread[t] EXCEPT !.pc = "user", !.vn = NoVnode, !.want = "read", !.stale = NoIno]
<1>1. /\ UNCHANGED <<vnode, pframe, pte, disk, latest, asked, panic>>
      /\ names' = names \cup {<<d, i>>} /\ thread[t].pc = "link"
      /\ revived' = IF Linked(i) \/ Users(i) # {} THEN revived ELSE revived \cup {i}
      /\ thread' = [thread EXCEPT ![t] = r]
  BY DEF do_link
<1>2. /\ thread \in [Thread -> ThreadRec] /\ vnode \in [VnodeT -> VnodeRec]
      /\ Shape(thread[t]) /\ thread[t] \in ThreadRec /\ VnodeTypeOK
  BY Types DEF VnodeIInv, ThreadShape
<1>3. w \in VnodeT /\ thread[t].name = NoName
  BY <1>1, <1>2 DEF Shape, ThreadRec, Looking
<1>4. i \in Ino
  <2>1. thread[t].stale \in Ino \cup {NoIno} /\ vnode[w].vn_vno \in Ino \cup {NoIno}
    BY <1>2, <1>3 DEF ThreadRec, VnodeRec
  <2>. QED BY <1>1, <2>1 DEF VnodeIInv, LinksRead
<1>5. r \in ThreadRec /\ r.pc = "user" /\ r.vn = NoVnode /\ r.name = NoName /\ r.pf = thread[t].pf
  BY <1>2, <1>3, ZenonT(30) DEF ThreadRec
<1> HIDE DEF r, i
<1>6. /\ thread' \in [Thread -> ThreadRec] /\ thread'[t] = r
      /\ \A u \in Thread \ {t} : thread'[u] = thread[u]
  BY <1>1, <1>2, <1>5
<1>7. VnodeTypeOK'
  <2>1. names' \subseteq Dir \X Ino /\ revived' \subseteq Ino
    BY <1>1, <1>2, <1>4 DEF VnodeTypeOK
  <2>. QED BY <1>1, <1>2, <1>6, <2>1 DEF VnodeTypeOK, ThreadRec
<1>8. ASSUME NEW u \in Thread
      PROVE  /\ thread'[u].pc \in AtWork \cup Waiting \cup Moving \cup Dropping \cup {"link"} => u # t
             /\ thread[u].pc \in AtWork \cup Waiting \cup Moving \cup Dropping => u # t
             /\ u # t => thread'[u] = thread[u]
  BY <1>1, <1>5, <1>6 DEF AtWork, Waiting, Moving, Dropping
<1>9. ThreadShape'
  <2>1. Shape(thread'[t])
    BY <1>5, <1>6 DEF Shape, Looking, OnPage, Moving, Dropping, AtWork, Waiting
  <2>. QED BY <1>8, <2>1 DEF VnodeIInv, ThreadShape, Shape
<1>10. VnodeShape' /\ Unique' /\ MoversAlone' /\ WorkersAlone' /\ LinksRead'
  <2>1. VnodeShape' /\ Unique' /\ LinksRead'
    BY <1>1, <1>8 DEF VnodeIInv, VnodeShape, Unique, LinksRead
  <2>2. MoversAlone'
    BY <1>1, <1>8 DEF VnodeIInv, MoversAlone
  <2>3. WorkersAlone'
    BY <1>1, <1>8 DEF VnodeIInv, WorkersAlone, Busy
  <2>. QED BY <2>1, <2>2, <2>3
<1>11. ASSUME NEW v \in VnodeT PROVE Holders(v)' = Holders(v) /\ Respages(v)' = Respages(v)
  <2>1. t \notin Holders(v) /\ t \notin Holders(v)'
    BY <1>1, <1>5, <1>6 DEF Holders
  <2>2. \A u \in Thread \ {t} : u \in Holders(v)' <=> u \in Holders(v)
    BY <1>6 DEF Holders
  <2>3. Holders(v)' = Holders(v)
    BY <2>1, <2>2 DEF Holders
  <2>. QED BY <1>1, <2>3 DEF Respages
<1>12. Counted'
  BY <1>1, <1>11, CountSame DEF VnodeIInv, Counted
<1>13. WritersHold'
  <2>1. \A p \in Page : ~pte[t][p]
    BY <1>1 DEF VnodeIInv, WritersHold, Holding, Dropping, OnPage
  <2>. QED BY <1>1, <1>6, <2>1 DEF VnodeIInv, WritersHold
<1>14. NamesKept'
  BY <1>1, <1>5, <1>6 DEF VnodeIInv, NamesKept
<1>15. DroppersAlone'
  <2>1. ASSUME NEW u \in Thread, thread'[u].pc \in Dropping, NEW v, v = thread[u].vn
        PROVE  DropsAlone(u, v)'
    <3>1. /\ u # t /\ thread'[u] = thread[u] /\ thread[u].pc \in Dropping
          /\ v \in VnodeT /\ DropsAlone(u, v)
      BY <1>2, <1>8, <2>1 DEF VnodeIInv, ThreadShape, Shape, ThreadRec, DroppersAlone
    <3>2. \A x \in Thread : thread'[x].pc \in Dropping /\ thread'[x].vn = v => x = u
      BY <1>8, <3>1 DEF DropsAlone
    <3>3. CASE vnode[v].vn_vno \in revived
      BY <1>1, <3>1, <3>2, <3>3 DEF DropsAlone
    <3>4. CASE vnode[v].vn_vno = i /\ ~Linked(i) /\ Holders(v) = {u}
      <4>1. Users(i) = {}
        <5>1. SUFFICES ASSUME NEW x \in Users(i) PROVE FALSE
          OBVIOUS
        <5>2. x \in Holders(v) /\ thread[x].pc \notin Dropping
          BY <1>4, <3>1, <3>4, UsersHold
        <5>. QED BY <3>1, <3>4, <5>2
      <4>2. i \in revived'
        BY <1>1, <3>4, <4>1
      <4>. QED BY <1>1, <3>1, <3>2, <3>4, <4>2 DEF DropsAlone
    <3>5. CASE vnode[v].vn_vno # i /\ ~Linked(vnode[v].vn_vno) /\ Holders(v) = {u} /\ thread[u].left = Respages(v)
      <4>1. ~Linked(vnode[v].vn_vno)'
        BY <1>1, <3>5 DEF Linked
      <4>2. Holders(v)' = {u} /\ thread'[u].left = Respages(v)'
        BY <1>11, <3>1, <3>5
      <4>. QED BY <3>1, <3>2, <4>1, <4>2 DEF DropsAlone
    <3>. QED BY <3>1, <3>3, <3>4, <3>5 DEF DropsAlone
  <2>2. \A u \in Thread : thread'[u].pc \in Dropping => thread'[u].vn = thread[u].vn
    BY <1>8
  <2>. QED BY <2>1, <2>2 DEF DroppersAlone
<1>. QED BY <1>7, <1>9, <1>10, <1>12, <1>13, <1>14, <1>15 DEF VnodeIInv

(* pframe_get of a page that is not resident                                *)
LEMMA GetAbsent ==
  ASSUME VnodeIInv, NEW t \in Thread, NEW f \in Frame, NEW want \in {"read", "write", "copy"},
         thread[t].pc \in {"user", "get"}, thread[t].vn # NoVnode, f[1] = thread[t].vn,
         pframe[f].state = "absent", pframe_get(t, f, want)
  PROVE  VnodeIInv'
<1> DEFINE r == [thread[t] EXCEPT !.pc = "fillpage", !.pf = f, !.want = want]
<1>1. /\ thread \in [Thread -> ThreadRec] /\ pframe \in [Frame -> FrameRec]
      /\ vnode \in [VnodeT -> VnodeRec] /\ VnodeTypeOK
      /\ f # NoFrame
  BY Types DEF VnodeIInv, Frame
<1>2. /\ pframe' = [pframe EXCEPT ![f] = [state |-> "busy", dirty |-> FALSE, data |-> Junk]]
      /\ vnode' = [vnode EXCEPT ![f[1]].vn_refcount = @ + 1]
      /\ thread' = [thread EXCEPT ![t] = [@ EXCEPT !.pc = "fillpage", !.pf = f, !.want = want]]
      /\ UNCHANGED <<pte, latest, names, disk, asked, panic, revived>>
  BY DEF pframe_get, Busy, Idle
<1>3. PICK v \in VnodeT : v = f[1] /\ v = thread[t].vn
  BY DEF Frame
<1>4. thread[t].pc \in Holding /\ thread[t].name = NoName /\ thread[t].pc \notin Dropping
  BY DEF VnodeIInv, ThreadShape, Shape, Holding, OnPage, Looking, Dropping
<1>5. /\ vnode[v].vn_vno # NoIno /\ ~vnode[v].busy /\ t \in Holders(v)
  BY <1>3, <1>4, HeldVnode DEF VnodeIInv
<1>6. /\ r \in ThreadRec /\ r.pc = "fillpage" /\ r.pf = f /\ r.vn = v /\ r.name = NoName
      /\ r.want # "link"
  <2>1. thread[t] \in ThreadRec /\ f \in Frame
    BY <1>1
  <2>. QED BY <1>3, <1>4, <2>1, ZenonT(30) DEF ThreadRec
<1>7. thread' = [thread EXCEPT ![t] = r]
  BY <1>2
<1> HIDE DEF r
<1>8. thread' \in [Thread -> ThreadRec] /\ thread'[t] = r /\ \A u \in Thread \ {t} : thread'[u] = thread[u]
  BY <1>1, <1>6, <1>7
<1>9. /\ vnode' \in [VnodeT -> VnodeRec] /\ \A w \in VnodeT \ {v} : vnode'[w] = vnode[w]
      /\ vnode'[v].vn_refcount = vnode[v].vn_refcount + 1
      /\ \A w \in VnodeT : vnode'[w].busy = vnode[w].busy /\ vnode'[w].vn_vno = vnode[w].vn_vno
  BY <1>1, <1>2, <1>3 DEF VnodeRec
<1>10. /\ pframe' \in [Frame -> FrameRec] /\ \A g \in Frame \ {f} : pframe'[g] = pframe[g]
       /\ pframe'[f].state = "busy"
  <2> DEFINE q == [state |-> "busy", dirty |-> FALSE, data |-> Junk]
  <2>1. q \in FrameRec /\ q.state = "busy"
    BY DEF FrameRec
  <2>2. pframe' = [pframe EXCEPT ![f] = q]
    BY <1>2
  <2> HIDE DEF q
  <2>. QED BY <1>1, <2>1, <2>2
<1>11. VnodeTypeOK'
  BY <1>1, <1>2, <1>8, <1>9, <1>10 DEF VnodeTypeOK, ThreadRec, VnodeRec, FrameRec
<1>12. Shape(thread'[t])
  BY <1>1, <1>3, <1>6, <1>8 DEF Shape, Looking, OnPage, Moving, Dropping, AtWork, Waiting
<1>13. ThreadShape'
  BY <1>8, <1>12 DEF VnodeIInv, ThreadShape, Shape
<1>14. VnodeShape' /\ Unique'
  BY <1>5, <1>9 DEF VnodeIInv, VnodeShape, Unique
<1>15. \A u \in Thread \ {t} : thread'[u].pc = thread[u].pc /\ thread'[u].vn = thread[u].vn
       /\ thread'[u].name = thread[u].name /\ thread'[u].pf = thread[u].pf
  BY <1>8
<1>16. MoversAlone'
  <2>1. \A u \in Thread : thread'[u].pc \in Moving => thread[u].pc \in Moving /\ u # t /\ thread[u].vn \in VnodeT
    BY <1>1, <1>6, <1>8 DEF Moving, VnodeIInv, ThreadShape, Shape, ThreadRec
  <2>. QED BY <1>9, <1>15, <2>1 DEF VnodeIInv, MoversAlone
<1>17. ASSUME NEW w \in VnodeT PROVE Holders(w)' = Holders(w)
  <2>1. "fillpage" \notin Out /\ thread[t].pc \notin Out
    BY DEF Out
  <2>. QED BY <1>3, <1>6, <1>8, <1>15, <2>1 DEF Holders, Out
<1>18. Counted'
  <2>1. ASSUME NEW w \in VnodeT, w # v PROVE vnode'[w].vn_refcount = Cardinality(Holders(w)') + vn_nrespages(w)'
    <3>1. \A g \in {w} \X Page : g \in Frame /\ g # f
      BY <1>3, <2>1 DEF Frame
    <3>2. Respages(w)' = Respages(w)
      BY <1>10, <3>1 DEF Respages
    <3>. QED BY <1>9, <1>17, <2>1, <3>2, CountSame DEF VnodeIInv
  <2>2. vnode'[v].vn_refcount = Cardinality(Holders(v)') + vn_nrespages(v)'
    <3>1. /\ IsFiniteSet(Respages(v)) /\ Cardinality(Holders(v)) \in Nat /\ Cardinality(Respages(v)) \in Nat
          /\ vnode[v].vn_refcount = Cardinality(Holders(v)) + Cardinality(Respages(v))
      BY CountsFinite DEF VnodeIInv, Counted, vn_nrespages
    <3>2. f \in {v} \X Page /\ f \notin Respages(v)
      BY <1>3 DEF Frame, Respages
    <3>3. \A g \in {v} \X Page : g \in Frame
      BY DEF Frame
    <3>4. Respages(v)' = Respages(v) \cup {f}
      BY <1>10, <3>2, <3>3 DEF Respages
    <3>5. Cardinality(Respages(v)') = Cardinality(Respages(v)) + 1
      BY <3>1, <3>2, <3>4, FS_AddElement
    <3>. QED BY <1>9, <1>17, <3>1, <3>5 DEF vn_nrespages
  <2>. QED BY <2>1, <2>2 DEF Counted
<1>19. WorkersAlone'
  <2>1. \A u \in Thread : thread[u].pc \in AtWork \cup Waiting => thread[u].pf \in Frame /\ thread[u].pf # f
    BY <1>1, PageOf DEF ThreadRec
  <2>2. thread'[t].pc \in AtWork /\ thread'[t].pf = f /\ thread[t].pc \notin AtWork
    BY <1>6, <1>8 DEF AtWork
  <2>. QED BY <1>10, <1>15, <2>1, <2>2 DEF VnodeIInv, WorkersAlone, Busy
<1>20. WritersHold' /\ NamesKept'
  <2>1. thread'[t].pc \in Holding \ Dropping /\ thread'[t].vn # NoVnode /\ thread'[t].name = NoName
    BY <1>3, <1>6, <1>8 DEF Holding, OnPage, Dropping
  <2>. QED BY <1>2, <1>15, <2>1 DEF VnodeIInv, WritersHold, NamesKept
<1>21. DroppersAlone'
  <2>1. ASSUME NEW u \in Thread, thread'[u].pc \in Dropping
        PROVE  /\ thread[u].pc \in Dropping /\ u # t /\ thread[u].vn \in VnodeT
               /\ thread'[u] = thread[u]
    BY <1>1, <1>6, <1>8, <2>1 DEF Dropping, VnodeIInv, ThreadShape, Shape, ThreadRec
  <2>2. ASSUME NEW u \in Thread, thread'[u].pc \in Dropping, NEW w, w = thread[u].vn
        PROVE  DropsAlone(u, w)'
    <3>1. w \in VnodeT /\ DropsAlone(u, w) /\ thread'[u] = thread[u] /\ u # t
      BY <2>1, <2>2 DEF VnodeIInv, DroppersAlone
    <3>2. \A x \in Thread : thread'[x].pc \in Dropping /\ thread'[x].vn = w => x = u
      BY <2>1, <3>1 DEF DropsAlone
    <3>3. CASE vnode[w].vn_vno \in revived
      BY <1>2, <1>9, <3>1, <3>2, <3>3 DEF DropsAlone
    <3>4. CASE ~Linked(vnode[w].vn_vno) /\ Holders(w) = {u} /\ thread[u].left = Respages(w)
      <4>1. w # v
        BY <1>5, <3>1, <3>4
      <4>2. \A g \in {w} \X Page : g \in Frame /\ g # f
        BY <1>3, <3>1, <4>1 DEF Frame
      <4>3. Respages(w)' = Respages(w)
        BY <1>10, <4>2 DEF Respages
      <4>4. ~Linked(vnode[w].vn_vno)'
        BY <1>2, <1>9, <3>1, <3>4 DEF Linked
      <4>. QED BY <1>17, <3>1, <3>2, <3>4, <4>3, <4>4 DEF DropsAlone
    <3>. QED BY <3>1, <3>3, <3>4 DEF DropsAlone
  <2>. QED BY <2>1, <2>2 DEF DroppersAlone
<1>22. LinksRead'
  <2>1. ASSUME NEW u \in Thread, thread'[u].pc = "link"
        PROVE  thread[u].pc = "link" /\ thread'[u] = thread[u] /\ thread[u].vn \in VnodeT
    BY <1>1, <1>6, <1>8, <2>1 DEF VnodeIInv, ThreadShape, Shape, ThreadRec
  <2>. QED BY <1>9, <2>1 DEF VnodeIInv, LinksRead
<1>. QED BY <1>11, <1>13, <1>14, <1>16, <1>18, <1>19, <1>20, <1>21, <1>22 DEF VnodeIInv

(* The end of vput: v goes to delete_vnode, with no page left.              *)
LEMMA TakeOutStep ==
  ASSUME VnodeIInv, NEW t \in Thread, NEW v \in VnodeT, thread[t].vn = v,
         thread[t].pc \in {"user", "opened", "vput"}, Holders(v) = {t}, TakeOut(t, v),
         pframe' \in [Frame -> FrameRec], Respages(v)' = {},
         \A f \in Frame : f[1] # v => pframe'[f] = pframe[f],
         \A f \in Frame : pframe'[f].state = "busy" <=> pframe[f].state = "busy",
         pte' \in [Thread -> [Page -> BOOLEAN]],
         \A u \in Thread, p \in Page : pte'[u][p] => pte[u][p] /\ u # t,
         UNCHANGED <<names, disk, latest, asked, revived>>
  PROVE  VnodeIInv'
<1> DEFINE r == [thread[t] EXCEPT !.pc = "delete_vnode", !.pf = NoFrame, !.left = {}]
<1>1. /\ thread \in [Thread -> ThreadRec] /\ vnode \in [VnodeT -> VnodeRec] /\ VnodeTypeOK
      /\ thread[t].name = NoName /\ v # NoVnode
  BY Types DEF VnodeIInv, ThreadShape, Shape, Looking
<1>2. r \in ThreadRec /\ r.pc = "delete_vnode" /\ r.vn = v /\ r.name = NoName
  <2>1. thread[t] \in ThreadRec
    BY <1>1
  <2>. QED BY <1>1, <2>1, ZenonT(30) DEF ThreadRec
<1>3. thread' = [thread EXCEPT ![t] = r]
  BY DEF TakeOut
<1>4. vnode' = [vnode EXCEPT ![v] = [@ EXCEPT !.busy = TRUE, !.vn_refcount = 0]]
  BY DEF TakeOut
<1> HIDE DEF r
<1>5. /\ thread' \in [Thread -> ThreadRec] /\ OthersStay(t)
      /\ thread'[t].pc = "delete_vnode" /\ thread'[t].vn = v /\ thread'[t].name = NoName
  BY <1>1, <1>2, <1>3 DEF OthersStay
<1>6. /\ vnode' \in [VnodeT -> VnodeRec] /\ \A w \in VnodeT \ {v} : vnode'[w] = vnode[w]
      /\ vnode'[v].vn_refcount = 0 /\ vnode'[v].vn_vno = vnode[v].vn_vno /\ vnode'[v].busy
  <2> DEFINE q == [vnode[v] EXCEPT !.busy = TRUE, !.vn_refcount = 0]
  <2>1. q \in VnodeRec /\ q.vn_refcount = 0 /\ q.vn_vno = vnode[v].vn_vno /\ q.busy = TRUE
    <3>1. vnode[v] \in VnodeRec
      BY <1>1
    <3>. QED BY <3>1 DEF VnodeRec
  <2>2. vnode' = [vnode EXCEPT ![v] = q]
    BY <1>4
  <2> HIDE DEF q
  <2>. QED BY <1>1, <2>1, <2>2
<1>7. VnodeTypeOK'
  BY <1>1, <1>5, <1>6 DEF TakeOut, VnodeTypeOK, ThreadRec, VnodeRec, FrameRec
<1>8. Holders(v)' = {}
  BY <1>5, HoldersAfter DEF Out
<1>9. vnode'[v].vn_refcount = Cardinality(Holders(v)') + Cardinality(Respages(v)')
  BY <1>6, <1>8, FS_EmptySet
<1>10. Shape(thread'[t])
  BY <1>1, <1>5 DEF Shape, Looking, OnPage, Moving, Dropping, AtWork, Waiting
<1>11. /\ vnode'[v].vn_vno # NoIno
       /\ \A w \in VnodeT \ {v} : vnode[w].vn_vno # vnode'[v].vn_vno
       /\ \A u \in Thread \ {t} :
            /\ thread[u].pc \in Moving => thread[u].vn # v
            /\ ~(thread[u].pc \in Dropping /\ thread[u].vn = v)
  <2>1. \A u \in Thread : thread[u].pc \in Dropping /\ thread[u].vn = v => u \in Holders(v)
    BY DEF Dropping, Holders
  <2>2. vnode[v].vn_vno # NoIno /\ ~vnode[v].busy
    BY FromCount DEF VnodeIInv
  <2>. QED BY <1>6, <2>1, <2>2 DEF VnodeIInv, MoversAlone, Unique
<1>12. /\ "delete_vnode" \notin AtWork \cup Waiting \cup Dropping /\ "delete_vnode" # "read_vnode"
       /\ thread[t].pc \notin AtWork
  BY DEF AtWork, Waiting, Dropping
<1>13. \A u \in Thread, p \in Page : pte'[u][p] =>
         pte[u][p] /\ (u = t => thread'[t].pc \in Holding \ Dropping /\ thread'[t].vn # NoVnode)
  OBVIOUS
<1>14. /\ thread'[t].pc \notin AtWork \cup Waiting \cup Dropping /\ thread'[t].pc # "read_vnode"
       /\ names' = names /\ revived' = revived
       /\ \A w \in VnodeT \ {v} : vnode[w].vn_vno = vnode'[v].vn_vno => vnode'[v].vn_vno = NoIno
  BY <1>5, <1>11, <1>12
<1>15. thread'[t].pc # "link" /\ vnode'[v].vn_vno # NoIno
  BY <1>5, <1>11
<1>16. \A u \in Thread \ {t} :
         /\ thread[u].pc \in Moving => thread[u].vn # v
         /\ ~(thread[u].pc \in Dropping /\ thread[u].vn = v)
  BY <1>11
<1>. QED BY <1>5, <1>6, <1>7, <1>9, <1>10, <1>11, <1>12, <1>13, <1>14, <1>15, <1>16, VnodeStep

(* Thread t may free the pages L of v.                                      *)
Drops(t, v, L) ==
  /\ L \subseteq {v} \X Page
  /\ \A u \in Thread : thread[u].pc \in Dropping /\ thread[u].vn = v => u = t
  /\ \/ vnode[v].vn_vno \in revived
     \/ ~Linked(vnode[v].vn_vno) /\ Holders(v) = {t} /\ L = Respages(v)

(* vput waits for the busy page f of v, having freed the pages S.           *)
LEMMA FreeSomeStep ==
  ASSUME VnodeIInv, NEW t \in Thread, NEW v \in VnodeT, thread[t].vn = v,
         thread[t].pc \in {"user", "opened", "vput"}, t \in Holders(v), NEW L, Drops(t, v, L),
         NEW f \in L, NEW S \in SUBSET L, Busy(f), \A g \in S : Idle(g),
         Uncache(S), vnode' = Unref(v, Cardinality(S)),
         thread' = [thread EXCEPT ![t] = [@ EXCEPT !.pc = "vput_waitq", !.pf = f, !.left = L \ S]],
         pte' \in [Thread -> [Page -> BOOLEAN]],
         \A u \in Thread, p \in Page : pte'[u][p] => pte[u][p] /\ u # t,
         UNCHANGED <<names, disk, latest, asked, panic, revived>>
  PROVE  VnodeIInv'
<1> DEFINE r == [thread[t] EXCEPT !.pc = "vput_waitq", !.pf = f, !.left = L \ S]
<1>1. /\ thread \in [Thread -> ThreadRec] /\ vnode \in [VnodeT -> VnodeRec] /\ VnodeTypeOK
      /\ pframe \in [Frame -> FrameRec] /\ thread[t].name = NoName /\ v # NoVnode
  BY Types DEF VnodeIInv, ThreadShape, Shape, Looking
<1>2. /\ f \in Frame /\ f[1] = v /\ f # NoFrame /\ L \subseteq Frame /\ S \subseteq Respages(v)
      /\ \A g \in S : g \in Frame /\ g[1] = v /\ pframe[g].state = "idle"
  BY DEF Respages, Frame, Idle, Drops
<1>3. /\ r \in ThreadRec /\ r.pc = "vput_waitq" /\ r.vn = v /\ r.name = NoName /\ r.pf = f
      /\ r.left = L \ S
  <2>1. thread[t] \in ThreadRec /\ L \ S \in SUBSET Frame
    BY <1>1, <1>2
  <2> DEFINE l == L \ S
  <2>2. l \in SUBSET Frame
    BY <2>1
  <2> HIDE DEF l
  <2>3. LET x == [thread[t] EXCEPT !.pc = "vput_waitq", !.pf = f, !.left = l] IN
        x \in ThreadRec /\ x.pc = "vput_waitq" /\ x.vn = v /\ x.name = NoName /\ x.pf = f /\ x.left = l
    BY <1>1, <1>2, <2>1, <2>2, ZenonT(30) DEF ThreadRec
  <2>. QED BY <2>3 DEF l
<1>4. thread' = [thread EXCEPT ![t] = r]
  OBVIOUS
<1> HIDE DEF r
<1>5. thread' \in [Thread -> ThreadRec] /\ OthersStay(t) /\ thread'[t] = r
  BY <1>1, <1>3, <1>4 DEF OthersStay
<1>6. /\ pframe' \in [Frame -> FrameRec]
      /\ \A g \in Frame : pframe'[g] = IF g \in S THEN NoPage ELSE pframe[g]
  <2>1. NoPage \in FrameRec
    BY DEF NoPage, FrameRec
  <2>. QED BY <1>1, <2>1 DEF Uncache
<1>7. Respages(v)' = Respages(v) \ S
  <2>1. \A g \in {v} \X Page : g \in Frame
    BY DEF Frame
  <2>. QED BY <1>6, <2>1 DEF Respages, NoPage
<1>8. Holders(v)' = Holders(v)
  <2>1. thread'[t].vn = v /\ thread'[t].pc \notin Out
    BY <1>3, <1>5 DEF Out
  <2>2. Holders(v)' = Holders(v) \cup {t}
    BY <1>5, <2>1, HoldersAfter
  <2>. QED BY <2>2
<1>9. /\ Cardinality(Respages(v)') = Cardinality(Respages(v)) - Cardinality(S)
      /\ Cardinality(S) \in Nat /\ Cardinality(Respages(v)') \in Nat /\ Cardinality(Holders(v)) \in Nat
      /\ vnode[v].vn_refcount = Cardinality(Holders(v)) + Cardinality(Respages(v))
  <2>1. IsFiniteSet(Respages(v)) /\ Cardinality(Holders(v)) \in Nat
    BY CountsFinite DEF VnodeIInv
  <2>2. Respages(v) \cap S = S
    BY <1>2
  <2>3. IsFiniteSet(S) /\ IsFiniteSet(Respages(v) \ S)
    BY <1>2, <2>1, FS_Subset
  <2>4. Cardinality(Respages(v) \ S) = Cardinality(Respages(v)) - Cardinality(S)
    BY <2>1, <2>2, FS_Difference
  <2>. QED BY <1>7, <2>1, <2>3, <2>4, FS_CardinalityType DEF VnodeIInv, Counted, vn_nrespages
<1>10. /\ vnode[v].vn_refcount - Cardinality(S) \in Nat
       /\ vnode[v].vn_refcount - Cardinality(S) = Cardinality(Holders(v)') + Cardinality(Respages(v)')
  <2> DEFINE h == Cardinality(Holders(v))
             k == Cardinality(Respages(v))
             k2 == Cardinality(Respages(v)')
             s == Cardinality(S)
  <2>1. k2 = k - s /\ s \in Nat /\ k2 \in Nat /\ h \in Nat /\ vnode[v].vn_refcount = h + k /\ k \in Nat
    BY <1>9, CountsFinite DEF VnodeIInv, vn_nrespages
  <2> HIDE DEF h, k, k2, s
  <2>2. vnode[v].vn_refcount - s \in Nat /\ vnode[v].vn_refcount - s = h + k2
    BY <2>1
  <2>. QED BY <1>8, <2>2 DEF h, k2, s
<1>11. /\ vnode' \in [VnodeT -> VnodeRec] /\ \A w \in VnodeT \ {v} : vnode'[w] = vnode[w]
       /\ vnode'[v].vn_refcount = vnode[v].vn_refcount - Cardinality(S)
       /\ vnode'[v].vn_vno = vnode[v].vn_vno /\ vnode'[v].busy = vnode[v].busy
  <2> DEFINE n == vnode[v].vn_refcount - Cardinality(S)
  <2>1. n \in Nat
    BY <1>10
  <2>2. vnode' = [vnode EXCEPT ![v].vn_refcount = n]
    BY DEF Unref
  <2> HIDE DEF n
  <2>3. /\ vnode' \in [VnodeT -> VnodeRec] /\ \A w \in VnodeT \ {v} : vnode'[w] = vnode[w]
        /\ vnode'[v].vn_refcount = n
        /\ vnode'[v].vn_vno = vnode[v].vn_vno /\ vnode'[v].busy = vnode[v].busy
    BY <1>1, <2>1, <2>2 DEF VnodeRec
  <2>. QED BY <2>3 DEF n
<1>12. VnodeTypeOK'
  BY <1>1, <1>5, <1>6, <1>11 DEF VnodeTypeOK, ThreadRec, VnodeRec, FrameRec
<1>13. Shape(thread'[t])
  BY <1>1, <1>2, <1>3, <1>5 DEF Shape, Looking, OnPage, Moving, Dropping, AtWork, Waiting
<1>14. /\ vnode'[v].vn_vno # NoIno /\ ~vnode'[v].busy
       /\ \A w \in VnodeT \ {v} : vnode[w].vn_vno # vnode'[v].vn_vno
       /\ \A u \in Thread \ {t} :
            /\ thread[u].pc \in Moving => thread[u].vn # v
            /\ ~(thread[u].pc \in Dropping /\ thread[u].vn = v)
  <2>1. \A u \in Thread : thread[u].pc \in Dropping /\ thread[u].vn = v => u = t
    BY DEF Drops
  <2>2. vnode[v].vn_vno # NoIno /\ ~vnode[v].busy
    BY FromCount DEF VnodeIInv
  <2>. QED BY <1>11, <2>1, <2>2 DEF VnodeIInv, MoversAlone, Unique
<1>15. "vput_waitq" \notin AtWork \cup Moving /\ thread[t].pc \notin AtWork
  BY DEF AtWork, Moving
<1>16. /\ \A u \in Thread, p \in Page : pte'[u][p] =>
            pte[u][p] /\ (u = t => thread'[t].pc \in Holding \ Dropping /\ thread'[t].vn # NoVnode)
       /\ \A g \in Frame : g[1] # v => pframe'[g] = pframe[g]
       /\ \A g \in Frame : pframe'[g].state = "busy" <=> pframe[g].state = "busy"
  BY <1>2, <1>6 DEF NoPage
<1>17. /\ thread'[t].pc = "vput_waitq" /\ thread'[t].vn = v /\ thread'[t].name = NoName
       /\ Busy(thread'[t].pf)
       /\ vnode'[v].vn_refcount = Cardinality(Holders(v)') + Cardinality(Respages(v)')
  BY <1>3, <1>5, <1>10, <1>11
<1>18. DropsAlone(t, v)'
  <2>1. thread'[t].left \subseteq {v} \X Page /\ thread'[t].left = L \ S
    BY <1>3, <1>5 DEF Drops
  <2>2. \A u \in Thread : thread'[u].pc \in Dropping /\ thread'[u].vn = v => u = t
    BY DEF Drops, OthersStay, Dropping
  <2>3. vnode[v].vn_vno \notin revived =>
          ~Linked(vnode[v].vn_vno)' /\ Holders(v)' = {t} /\ L \ S = Respages(v)'
    BY <1>7, <1>8, <1>11 DEF Drops, Linked
  <2>. QED BY <1>11, <2>1, <2>2, <2>3 DEF DropsAlone, Linked
<1>19. thread'[t].pc # "link" /\ vnode'[v].vn_vno # NoIno /\ names' = names /\ revived' = revived
  BY <1>3, <1>5, <1>14
<1>. QED BY <1>5, <1>11, <1>12, <1>13, <1>14, <1>15, <1>16, <1>17, <1>18, <1>19, VnodeStep

LEMMA FreePagesStep ==
  ASSUME VnodeIInv, NEW t \in Thread, NEW v \in VnodeT, thread[t].vn = v,
         thread[t].pc \in {"user", "opened", "vput"}, t \in Holders(v), NEW L, Drops(t, v, L),
         NEW pt \in [Thread -> [Page -> BOOLEAN]], FreePages(t, v, L, pt),
         \A u \in Thread, p \in Page : pt[u][p] => pte[u][p] /\ u # t,
         UNCHANGED <<names, disk, latest, asked, revived>>
  PROVE  VnodeIInv' \/ (panic' /\ UNCHANGED <<thread, vnode, pframe, pte>>)
<1>1. ASSUME NEW f \in L, NEW S \in SUBSET L,
             Busy(f), \A g \in S : Idle(g), Uncache(S), pte' = remove_from_pts(S, pt),
             vnode' = Unref(v, Cardinality(S)), UNCHANGED panic,
             thread' = [thread EXCEPT ![t] = [@ EXCEPT !.pc = "vput_waitq", !.pf = f, !.left = L \ S]]
      PROVE  VnodeIInv'
  <2>1. /\ pte' \in [Thread -> [Page -> BOOLEAN]]
        /\ \A u \in Thread, p \in Page : pte'[u][p] => pte[u][p] /\ u # t
    BY <1>1, Unmapped
  <2>. QED BY <1>1, <2>1, FreeSomeStep
<1>2. CASE /\ \A f \in L : Idle(f)
           /\ Respages(v) = L /\ vnode[v].vn_refcount = Cardinality(L) + 1
           /\ Uncache(L)
           /\ pte' = remove_from_pts(L, pt)
           /\ TakeOut(t, v)
  <2>1. NoPage \in FrameRec /\ NoPage.state = "absent" /\ pframe \in [Frame -> FrameRec]
    BY Types DEF NoPage, FrameRec, VnodeIInv
  <2>2. \A g \in Frame : pframe'[g] = IF g \in Respages(v) THEN NoPage ELSE pframe[g]
    BY <1>2 DEF Uncache
  <2>3. pframe' \in [Frame -> FrameRec]
    BY <1>2, <2>1 DEF Uncache
  <2>4. Respages(v)' = {}
    <3>1. \A g \in {v} \X Page : g \in Frame
      BY DEF Frame
    <3>. QED BY <2>1, <2>2, <3>1 DEF Respages
  <2>5. \A f \in Frame : f[1] # v => pframe'[f] = pframe[f]
    BY <2>2 DEF Respages
  <2>6. \A f \in Frame : pframe'[f].state = "busy" <=> pframe[f].state = "busy"
    BY <1>2, <2>1, <2>2 DEF Idle
  <2>7. Holders(v) = {t}
    <3> DEFINE k == Cardinality(L)
    <3>1. vn_nrespages(v) = k /\ k \in Nat /\ vnode[v].vn_refcount = k + 1
      BY <1>2, CountsFinite DEF vn_nrespages, VnodeIInv
    <3> HIDE DEF k
    <3>2. vn_nrespages(v) = vnode[v].vn_refcount - 1
      BY <3>1
    <3>. QED BY <3>2, FromCount DEF VnodeIInv
  <2>8. /\ pte' \in [Thread -> [Page -> BOOLEAN]]
        /\ \A u \in Thread, p \in Page : pte'[u][p] => pte[u][p] /\ u # t
    BY <1>2, Unmapped
  <2>. QED BY <1>2, <2>3, <2>4, <2>5, <2>6, <2>7, <2>8, TakeOutStep
<1>. QED BY <1>1, <1>2 DEF FreePages

(* The assertions that end the loop do not fail unless do_link has revived  *)
(* the inode.                                                               *)
LEMMA PanicsRevived ==
  ASSUME VnodeIInv, NEW t \in Thread, NEW v \in VnodeT, NEW L, Drops(t, v, L),
         Respages(v) # L \/ vnode[v].vn_refcount # Cardinality(L) + 1
  PROVE  vnode[v].vn_vno \in revived
<1>1. SUFFICES ASSUME Holders(v) = {t}, L = Respages(v) PROVE vnode[v].vn_refcount = Cardinality(L) + 1
  BY DEF Drops
<1>2. /\ Cardinality(Holders(v)) = 1 /\ Cardinality(Respages(v)) \in Nat
      /\ vnode[v].vn_refcount = Cardinality(Holders(v)) + Cardinality(Respages(v))
  BY <1>1, CountsFinite, FS_Singleton DEF VnodeIInv, Counted, vn_nrespages
<1>. QED BY <1>1, <1>2

(* A step that stops the kernel changes nothing else.                       *)
LEMMA SameStep ==
  ASSUME VnodeIInv, panic' \in BOOLEAN,
         UNCHANGED <<thread, vnode, pframe, pte, names, disk, latest, asked, revived>>
  PROVE  VnodeIInv'
<1> USE DEF VnodeIInv
<1>1. VnodeTypeOK' /\ ThreadShape' /\ VnodeShape' /\ Unique'
  BY DEF VnodeTypeOK, ThreadShape, VnodeShape, Unique
<1>2. MoversAlone' /\ WorkersAlone' /\ WritersHold' /\ NamesKept' /\ LinksRead'
  BY DEF MoversAlone, WorkersAlone, WritersHold, NamesKept, Busy, LinksRead
<1>3. DroppersAlone'
  BY DEF DroppersAlone, DropsAlone, Holders, Linked, Respages
<1>4. Counted'
  BY DEF Counted, Holders, vn_nrespages, Respages
<1>. QED BY <1>1, <1>2, <1>3, <1>4

LEMMA VputStep ==
  ASSUME VnodeIInv, NEW t \in Thread, vput(t)
  PROVE  VnodeIInv' /\ UNCHANGED panic
<1>1. /\ thread \in [Thread -> ThreadRec] /\ vnode \in [VnodeT -> VnodeRec] /\ VnodeTypeOK
      /\ pframe \in [Frame -> FrameRec] /\ thread[t].pc \in {"user", "opened"} /\ thread[t].vn # NoVnode
      /\ thread[t].name = NoName
  BY Types DEF VnodeIInv, vput, ThreadShape, Shape, Looking
<1>2. PICK v \in VnodeT : v = thread[t].vn
  BY <1>1 DEF ThreadRec
<1>3. t \in Holders(v) /\ vnode[v].vn_refcount > 0 /\ vnode[v].vn_vno # NoIno /\ ~vnode[v].busy
  BY <1>1, <1>2, HeldVnode, FromCount DEF VnodeIInv, Holding
<1>4. UNCHANGED <<names, disk, latest, asked, revived>>
  BY DEF vput
<1> DEFINE pt == [pte EXCEPT ![t] = [p \in Page |-> FALSE]]
<1>5. pt \in [Thread -> [Page -> BOOLEAN]] /\ \A u \in Thread, p \in Page : pt[u][p] => pte[u][p] /\ u # t
  BY <1>1 DEF VnodeTypeOK
<1>6. CASE /\ vn_nrespages(v) = vnode[v].vn_refcount - 1 /\ ~Linked(vnode[v].vn_vno)
           /\ FreePages(t, v, Respages(v), pt)
  <2>1. Holders(v) = {t}
    BY <1>3, <1>6, FromCount DEF VnodeIInv
  <2>2. Drops(t, v, Respages(v))
    <3>1. \A u \in Thread : thread[u].pc \in Dropping /\ thread[u].vn = v => u \in Holders(v)
      BY DEF Dropping, Holders
    <3>. QED BY <1>6, <2>1, <3>1 DEF Drops, Respages
  <2>3. VnodeIInv' \/ (panic' /\ UNCHANGED <<thread, vnode, pframe, pte>>)
    <3>1. FreePages(t, v, Respages(v), pt)
      BY <1>6
    <3> HIDE DEF pt
    <3>. QED BY <1>1, <1>2, <1>3, <1>4, <1>5, <2>2, <3>1, FreePagesStep
  <2>4. UNCHANGED panic
    <3> DEFINE k == vn_nrespages(v)
    <3>1. k \in Nat /\ k = vnode[v].vn_refcount - 1 /\ vnode[v].vn_refcount \in Nat
      BY <1>1, <1>6, CountsFinite DEF VnodeRec
    <3> HIDE DEF k
    <3>2. vnode[v].vn_refcount = k + 1
      BY <3>1
    <3>3. ~(Respages(v) # Respages(v) \/ vnode[v].vn_refcount # Cardinality(Respages(v)) + 1)
      BY <3>2 DEF k, vn_nrespages
    <3>. QED BY <1>6, <3>3 DEF FreePages, TakeOut
  <2>5. VnodeIInv'
    <3>1. CASE UNCHANGED <<thread, vnode, pframe, pte>>
      <4>1. panic' \in BOOLEAN
        BY <1>1, <2>4 DEF VnodeTypeOK
      <4>. QED BY <1>4, <3>1, <4>1, SameStep
    <3>. QED BY <2>3, <3>1
  <2>. QED BY <2>4, <2>5
<1>7. CASE vnode[v].vn_refcount = 1 /\ TakeOut(t, v) /\ pte' = pt /\ UNCHANGED pframe
  <2>1. Holders(v) = {t} /\ Respages(v) = {}
    BY <1>3, <1>7, FromCount DEF VnodeIInv
  <2>2. Respages(v)' = {}
    BY <1>7, <2>1 DEF Respages
  <2>3. /\ pte' \in [Thread -> [Page -> BOOLEAN]] /\ pframe' = pframe
        /\ \A u \in Thread, p \in Page : pte'[u][p] => pte[u][p] /\ u # t
    BY <1>5, <1>7
  <2>4. TakeOut(t, v) /\ UNCHANGED panic
    BY <1>7 DEF TakeOut
  <2> HIDE DEF pt
  <2>. QED BY <1>1, <1>2, <1>4, <2>1, <2>2, <2>3, <2>4, TakeOutStep
<1>8. CASE /\ vnode[v].vn_refcount # 1 /\ vnode' = Unref(v, 1) /\ UNCHANGED <<pframe, panic>> /\ pte' = pt
           /\ thread' = [thread EXCEPT ![t] = VputReturns(@)]
  <2> DEFINE r == VputReturns(thread[t])
  <2>1. /\ r \in ThreadRec /\ r.name = NoName
        /\ \/ r.pc = "user" /\ r.vn = NoVnode
           \/ r.pc = "link" /\ r.vn = v
    <3>1. thread[t] \in ThreadRec /\ thread[t].vn = v
      BY <1>1, <1>2
    <3>2. CASE thread[t].want = "link"
      <4> DEFINE x == [thread[t] EXCEPT !.pc = "link"]
      <4>1. x \in ThreadRec /\ x.name = NoName /\ x.pc = "link" /\ x.vn = v
        BY <1>1, <3>1, ZenonT(30) DEF ThreadRec
      <4> HIDE DEF x
      <4>. QED BY <3>2, <4>1 DEF VputReturns, x
    <3>3. CASE thread[t].want # "link"
      <4> DEFINE x == [thread[t] EXCEPT !.pc = "user", !.vn = NoVnode]
      <4>1. x \in ThreadRec /\ x.name = NoName /\ x.pc = "user" /\ x.vn = NoVnode
        BY <1>1, <3>1, ZenonT(30) DEF ThreadRec
      <4> HIDE DEF x
      <4>. QED BY <3>3, <4>1 DEF VputReturns, x
    <3>. QED BY <3>2, <3>3
  <2>2. thread' = [thread EXCEPT ![t] = r]
    BY <1>8
  <2> HIDE DEF r
  <2>3. /\ thread' \in [Thread -> ThreadRec] /\ OthersStay(t) /\ thread'[t].name = NoName
        /\ \/ thread'[t].pc = "user" /\ thread'[t].vn = NoVnode
           \/ thread'[t].pc = "link" /\ thread'[t].vn = v
    BY <1>1, <2>1, <2>2 DEF OthersStay
  <2>4. vnode[v].vn_refcount \in Nat
    BY <1>1 DEF VnodeRec
  <2>5. /\ vnode' \in [VnodeT -> VnodeRec] /\ \A w \in VnodeT \ {v} : vnode'[w] = vnode[w]
        /\ vnode'[v].vn_refcount = vnode[v].vn_refcount - 1
        /\ vnode'[v].vn_vno = vnode[v].vn_vno /\ vnode'[v].busy = vnode[v].busy
    <3> DEFINE n == vnode[v].vn_refcount - 1
    <3>1. n \in Nat
      BY <1>3, <2>4
    <3>2. vnode' = [vnode EXCEPT ![v].vn_refcount = n]
      BY <1>8 DEF Unref
    <3> HIDE DEF n
    <3>3. /\ vnode' \in [VnodeT -> VnodeRec] /\ \A w \in VnodeT \ {v} : vnode'[w] = vnode[w]
          /\ vnode'[v].vn_refcount = n
          /\ vnode'[v].vn_vno = vnode[v].vn_vno /\ vnode'[v].busy = vnode[v].busy
      BY <1>1, <3>1, <3>2 DEF VnodeRec
    <3>. QED BY <3>3 DEF n
  <2>6. VnodeTypeOK'
    <3>1. pte' \in [Thread -> [Page -> BOOLEAN]]
      BY <1>5, <1>8
    <3>. QED BY <1>1, <1>4, <1>8, <2>3, <2>5, <3>1 DEF VnodeTypeOK, ThreadRec, VnodeRec
  <2>7. vnode'[v].vn_refcount = Cardinality(Holders(v)') + Cardinality(Respages(v)')
    <3>1. ~(thread'[t].vn = v /\ thread'[t].pc \notin Out) /\ Respages(v)' = Respages(v)
      BY <1>8, <2>3 DEF Respages, Out
    <3>. QED BY <1>3, <2>3, <2>5, <3>1, CountLoses
  <2>8. Shape(thread'[t])
    BY <2>3 DEF Shape, Looking, OnPage, Moving, Dropping, AtWork, Waiting
  <2>9. /\ \A w \in VnodeT \ {v} : vnode[w].vn_vno = vnode'[v].vn_vno => vnode'[v].vn_vno = NoIno
        /\ \A u \in Thread \ {t} : thread[u].pc \in Moving => thread[u].vn # v
        /\ vnode'[v].vn_vno # NoIno /\ ~vnode'[v].busy
    BY <1>3, <2>5 DEF VnodeIInv, Unique, MoversAlone
  <2>10. {"user", "opened", "link"} \cap (AtWork \cup Waiting \cup Dropping \cup Moving) = {}
    BY DEF AtWork, Waiting, Dropping, Moving
  <2>11. \A u \in Thread \ {t} : thread[u].pc \in Dropping /\ thread[u].vn = v =>
           vnode'[v].vn_vno = vnode[v].vn_vno /\ vnode[v].vn_vno \in revived
    BY <1>3, <2>5 DEF VnodeIInv, DroppersAlone, DropsAlone
  <2>12. /\ \A g \in Frame : g[1] # v => pframe'[g] = pframe[g]
         /\ \A g \in Frame : pframe'[g].state = "busy" <=> pframe[g].state = "busy"
         /\ \A u \in Thread, p \in Page : pte'[u][p] => pte[u][p] /\ u # t
         /\ names' = names /\ revived' = revived
         /\ thread[t].vn \in {v, NoVnode} /\ thread'[t].vn \in {v, NoVnode}
    BY <1>2, <1>4, <1>5, <1>8, <2>3
  <2>13. thread[t].pc \notin AtWork /\ thread'[t].pc \notin AtWork \cup Waiting \cup Dropping \cup Moving
    BY <1>1, <2>3, <2>10
  <2>14. VnodeIInv'
    BY <2>3, <2>5, <2>6, <2>7, <2>8, <2>9, <2>11, <2>12, <2>13, VnodeStep
  <2>. QED BY <1>8, <2>14
<1>. QED BY <1>2, <1>6, <1>7, <1>8 DEF vput

LEMMA VputAgainStep ==
  ASSUME VnodeIInv, NEW t \in Thread, VputAgain(t)
  PROVE  /\ VnodeIInv'
         /\ panic' # panic => panic' /\ thread' = thread /\ vnode' = vnode
                             /\ vnode[thread[t].vn].vn_vno \in revived
<1> DEFINE L == thread[t].left
<1>1. /\ thread \in [Thread -> ThreadRec] /\ thread[t].pc = "vput" /\ thread[t].pc \in Dropping
      /\ Shape(thread[t]) /\ pte \in [Thread -> [Page -> BOOLEAN]]
  BY Types DEF VnodeIInv, VputAgain, ThreadShape, Dropping
<1>2. PICK v \in VnodeT : v = thread[t].vn
  BY <1>1 DEF ThreadRec, Shape
<1>3. t \in Holders(v) /\ Drops(t, v, L)
  BY <1>1, <1>2 DEF VnodeIInv, DroppersAlone, DropsAlone, Drops, Holders
<1>4. \A u \in Thread, p \in Page : pte[u][p] => u # t
  BY <1>1 DEF VnodeIInv, WritersHold
<1>5. FreePages(t, v, L, pte) /\ UNCHANGED <<names, disk, latest, asked, revived>>
  BY <1>2 DEF VputAgain
<1> HIDE DEF L
<1>6. VnodeIInv'
  <2>1. VnodeIInv' \/ (panic' /\ UNCHANGED <<thread, vnode, pframe, pte>>)
    BY <1>1, <1>2, <1>3, <1>4, <1>5, FreePagesStep
  <2>. QED BY <1>5, <2>1, SameStep
<1>7. ASSUME panic' # panic
      PROVE  panic' /\ thread' = thread /\ vnode' = vnode /\ vnode[v].vn_vno \in revived
  <2>1. /\ Respages(v) # L \/ vnode[v].vn_refcount # Cardinality(L) + 1
        /\ panic' /\ thread' = thread /\ vnode' = vnode
    BY <1>5, <1>7 DEF FreePages, TakeOut
  <2>. QED BY <1>3, <2>1, PanicsRevived
<1>. QED BY <1>2, <1>6, <1>7
-----------------------------------------------------------------------------
LEMMA VnodeInitOK == VnodeInit => VnodeIInv
<1> SUFFICES ASSUME VnodeInit PROVE VnodeIInv
  OBVIOUS
<1> USE DEF VnodeInit
<1>1. VnodeTypeOK
  <2>1. /\ disk = Blank /\ latest = Blank /\ asked = [t \in Thread |-> Blank]
        /\ Blank \in [Ino -> [Page -> 0..MaxWrite]]
    BY DEF Blank
  <2>2. thread \in [Thread -> ThreadRec]
    BY DEF ThreadRec
  <2>3. names \subseteq Dir \X Ino /\ panic \in BOOLEAN /\ revived \subseteq Ino
    OBVIOUS
  <2>4. vnode \in [VnodeT -> VnodeRec]
    BY DEF FreeVnode, VnodeRec
  <2>5. pframe \in [Frame -> FrameRec]
    BY DEF NoPage, FrameRec
  <2>6. pte \in [Thread -> [Page -> BOOLEAN]]
    OBVIOUS
  <2>7. /\ disk \in [Ino -> [Page -> 0..MaxWrite \cup {Junk}]] /\ latest \in [Ino -> [Page -> 0..MaxWrite]]
        /\ asked \in [Thread -> [Ino -> [Page -> 0..MaxWrite]]]
    BY <2>1
  <2>. QED BY ONLY <2>2, <2>3, <2>4, <2>5, <2>6, <2>7, Types
<1>2. \A t \in Thread : /\ thread[t].pc = "user" /\ thread[t].vn = NoVnode
                        /\ thread[t].name = NoName /\ thread[t].pf = NoFrame
  OBVIOUS
<1>3. ThreadShape
  BY <1>2 DEF ThreadShape, Shape, Looking, OnPage, Moving, Dropping, AtWork, Waiting
<1>4. VnodeShape /\ Unique
  BY DEF VnodeShape, Unique, FreeVnode
<1>5. MoversAlone /\ WorkersAlone /\ WritersHold /\ NamesKept /\ DroppersAlone /\ LinksRead
  <2>1. \A f \in Frame : pframe[f].state = "absent"
    BY DEF NoPage
  <2>. QED BY <1>2, <2>1 DEF MoversAlone, WorkersAlone, WritersHold, NamesKept, DroppersAlone, LinksRead,
                             Moving, Dropping, AtWork, Waiting, Busy
<1>6. Counted
  <2>1. ASSUME NEW v \in VnodeT PROVE Holders(v) = {} /\ Respages(v) = {} /\ vnode[v].vn_refcount = 0
    <3>1. Holders(v) = {}
      BY <1>2 DEF Holders
    <3>2. Respages(v) = {}
      <4>1. \A g \in {v} \X Page : g \in Frame
        BY DEF Frame
      <4>. QED BY <4>1 DEF Respages, NoPage
    <3>. QED BY <3>1, <3>2 DEF FreeVnode
  <2>2. Cardinality({}) = 0
    BY FS_EmptySet
  <2>3. ASSUME NEW v \in VnodeT PROVE Cardinality(Holders(v)) = 0 /\ Cardinality(Respages(v)) = 0
    BY <2>1, <2>2
  <2>. QED BY <2>1, <2>3 DEF Counted, vn_nrespages
<1>. QED BY <1>1, <1>3, <1>4, <1>5, <1>6 DEF VnodeIInv

LEMMA VnodeNextOK == VnodeIInv /\ [VnodeNext]_vnodeVars => VnodeIInv'
<1> SUFFICES ASSUME VnodeIInv, [VnodeNext]_vnodeVars PROVE VnodeIInv'
  OBVIOUS
<1>1. ASSUME NEW t \in Thread, NEW d \in Dir, NEW i \in Ino, NEW want \in {"read", "link"}, vget(t, d, i, want)
      PROVE  VnodeIInv'
  BY <1>1, FindStep DEF vget
<1>2. ASSUME NEW t \in Thread, FindAgain(t)
      PROVE  VnodeIInv'
  <2>1. thread[t].pc = "find" /\ thread[t].vn = NoVnode /\ thread[t].name # NoName
        /\ thread[t].name \in names
    BY <1>2 DEF FindAgain, VnodeIInv, ThreadShape, Shape, Looking, NamesKept
  <2>2. thread[t].name \in Dir \X Ino /\ thread[t].want \in {"read", "write", "copy", "link"}
    BY <2>1 DEF VnodeIInv, VnodeTypeOK
  <2>. QED BY <1>2, <2>1, <2>2, FindStep DEF FindAgain
<1>3. ASSUME NEW t \in Thread, NEW f \in Frame, NEW want \in {"read", "write", "copy"},
             thread[t].pc \in {"user", "get"}, thread[t].vn # NoVnode, f[1] = thread[t].vn,
             pframe_get(t, f, want)
      PROVE  VnodeIInv'
  BY <1>3, GetAbsent, GetResident
<1>4. ASSUME NEW t \in Thread, NEW p \in Page, NEW want \in {"read", "write", "copy"}, Access(t, p, want)
      PROVE  VnodeIInv'
  <2>1. <<thread[t].vn, p>> \in Frame /\ thread[t].pc = "user" /\ thread[t].vn # NoVnode
    BY <1>4 DEF Access, VnodeIInv, VnodeTypeOK, Frame
  <2>. QED BY <1>3, <1>4, <2>1 DEF Access
<1>5. ASSUME NEW t \in Thread, GetAgain(t)
      PROVE  VnodeIInv'
  <2>1. thread[t].pc = "get" /\ thread[t].pc \in OnPage
    BY <1>5 DEF GetAgain, OnPage
  <2>2. thread[t].pf \in Frame /\ thread[t].pf[1] = thread[t].vn /\ thread[t].vn # NoVnode
    BY <2>1, PageOf
  <2>3. thread[t].want \in {"read", "write", "copy"}
    BY <2>1 DEF VnodeIInv, VnodeTypeOK, ThreadShape, Shape
  <2>. QED BY <1>3, <1>5, <2>1, <2>2, <2>3 DEF GetAgain
<1>6. CASE UNCHANGED vnodeVars
  <2>1. panic' \in BOOLEAN
    BY <1>6 DEF VnodeIInv, VnodeTypeOK, vnodeVars
  <2>. QED BY <1>6, <2>1, SameStep DEF vnodeVars
<1>7. ASSUME ThreadStep PROVE VnodeIInv'
  BY <1>1, <1>2, <1>4, <1>5, <1>7, IsInStep, IsOutStep, UnlinkStep, LinkStep, VputStep, VputAgainStep,
     FillStep, DirtyStep, CleanStep, UserWriteStep, SyncStep, CleanAllStep DEF ThreadStep
<1>. QED BY <1>6, <1>7 DEF VnodeNext, Halted

(* Only vput, on its way through the pages, stops the kernel.               *)
LEMMA StopsOK == VnodeIInv /\ StopsOverRevived /\ [VnodeNext]_vnodeVars => StopsOverRevived'
<1> SUFFICES ASSUME VnodeIInv, StopsOverRevived, [VnodeNext]_vnodeVars, panic'
             PROVE  \E t \in Thread : thread'[t].pc = "vput" /\ vnode'[thread'[t].vn].vn_vno \in revived'
  BY DEF StopsOverRevived
<1>1. CASE UNCHANGED vnodeVars
  BY <1>1 DEF vnodeVars, StopsOverRevived
<1>2. CASE ~panic /\ ThreadStep
  <2>1. PICK t \in Thread : vput(t) \/ VputAgain(t)
    <3>1. ASSUME NEW t \in Thread, NEW f, NEW want, pframe_get(t, f, want) PROVE UNCHANGED panic
      BY <3>1 DEF pframe_get
    <3>2. ASSUME NEW t \in Thread, NEW name, NEW want, Find(t, name, want) PROVE UNCHANGED panic
      BY <3>2 DEF Find
    <3>3. ASSUME NEW t \in Thread, NEW d, NEW i, NEW want,
                 vget(t, d, i, want) \/ do_link(t, d) \/ do_unlink(t, d) \/ FindAgain(t) \/ VnodeIsIn(t)
                 \/ VnodeIsOut(t)
          PROVE  UNCHANGED panic
      BY <3>2, <3>3 DEF vget, do_link, do_unlink, FindAgain, VnodeIsIn, VnodeIsOut
    <3>4. ASSUME NEW t \in Thread, NEW p, NEW want,
                 Access(t, p, want) \/ UserWrite(t, p) \/ GetAgain(t) \/ PageIsFilled(t) \/ PageIsDirty(t)
                 \/ sync(t) \/ pframe_clean_all(t) \/ PageIsClean(t)
          PROVE  UNCHANGED panic
      BY <3>1, <3>4 DEF Access, UserWrite, GetAgain, PageIsFilled, PageIsDirty, sync, pframe_clean_all,
                        PageIsClean
    <3>5. PICK t \in Thread : vput(t) \/ VputAgain(t) \/ UNCHANGED panic
      BY ONLY <1>2, <3>3, <3>4 DEF ThreadStep
    <3>. QED BY <1>2, <3>5
  <2>2. VputAgain(t) /\ panic' # panic
    BY <1>2, <2>1, VputStep
  <2>3. thread[t].pc = "vput" /\ UNCHANGED revived
    BY <2>2 DEF VputAgain
  <2>. QED BY <2>2, <2>3, VputAgainStep
<1>. QED BY <1>1, <1>2 DEF VnodeNext, Halted

(* At any number of threads and pages, the invariant of the vnode cache     *)
(* holds (fs/vnode.c, mm/pframe.c).                                         *)
THEOREM VnodeInductive == VnodeSpec => []VnodeIInv
<1>1. VnodeIInv /\ UNCHANGED vnodeVars => VnodeIInv'
  BY VnodeNextOK
<1>. QED BY VnodeInitOK, VnodeNextOK, PTL DEF VnodeSpec

(* One vnode for an inode, with the reference count of its holders and      *)
(* resident pages, whatever sleeps in vget, vput, do_link and the page      *)
(* operations (vnode.c:111-318); and the assertions that end vput's loop    *)
(* (vnode.c:278-280) fail over no inode but one that do_link revived.       *)
THEOREM VnodesCounted == VnodeSpec => []VnodesSound
<1>1. VnodeIInv /\ StopsOverRevived => VnodesSound
  <2> SUFFICES ASSUME VnodeIInv, StopsOverRevived PROVE VnodesSound
    OBVIOUS
  <2>1. RefcountAccounted
    BY FromCount DEF VnodeIInv, Counted, RefcountAccounted
  <2>2. OneVnodePerInode
    BY DEF VnodeIInv, Unique, OneVnodePerInode
  <2>. QED BY <2>1, <2>2 DEF VnodesSound, VnodeIInv
<1>2. VnodeInit => StopsOverRevived
  BY DEF VnodeInit, StopsOverRevived
<1>3. VnodeSpec => []StopsOverRevived
  BY <1>2, StopsOK, VnodeInductive, PTL DEF VnodeSpec
<1>. QED BY <1>1, <1>3, VnodeInductive, PTL

(* Whoever sleeps for a page sleeps for one that is resident and busy, with *)
(* a thread at work on it that will broadcast (pframe.c:326-338, 503-560,   *)
(* vnode.c:272-275).                                                        *)
THEOREM PageSleepers == VnodeSpec => []PageSleeperAwaited
<1>1. VnodeIInv => PageSleeperAwaited
  <2> SUFFICES ASSUME VnodeIInv, NEW t \in Thread, thread[t].pc \in Waiting
               PROVE  /\ Busy(thread[t].pf)
                      /\ \E u \in Thread : thread[u].pc \in AtWork /\ thread[u].pf = thread[t].pf
    BY DEF PageSleeperAwaited, Waiting
  <2>1. thread[t].pf \in Frame
    BY PageOf
  <2>. QED BY <2>1 DEF VnodeIInv, WorkersAlone
<1>. QED BY <1>1, VnodeInductive, PTL
-----------------------------------------------------------------------------
(* What is written to the pages stays, when fillpage and dirtypage succeed: *)
(* the inductive invariant of the data.                                     *)

(* Only pages that are dirty and idle are mapped for writing.               *)
WritableIsDirty ==
  \A t \in Thread, p \in Page : pte[t][p] =>
    Idle(<<thread[t].vn, p>>) /\ pframe[<<thread[t].vn, p>>].dirty

(* An inode with a name, or with a vnode that is in use; but none that      *)
(* do_link has named when nothing kept its pages any more                   *)
Alive(i) ==
  /\ i \notin revived
  /\ \/ Linked(i)
     \/ \E v \in InUse(i) :
          ~vnode[v].busy /\ \A t \in Thread : thread[t].vn = v => thread[t].pc \notin Dropping

Kept(i, p) ==
  /\ \A v \in InUse(i) : Filled(<<v, p>>) =>
       /\ pframe[<<v, p>>].data = latest[i][p]
       /\ disk[i][p] = latest[i][p] \/ pframe[<<v, p>>].dirty \/ Busy(<<v, p>>)
  /\ (\A v \in InUse(i) : ~Filled(<<v, p>>)) => disk[i][p] = latest[i][p]
DataKept == \A i \in Ino, p \in Page : Alive(i) => Kept(i, p)

(* A page on its way to be mapped for writing is still as on the disk.      *)
PinnedIsClean ==
  \A t \in Thread, i \in Ino, p \in Page :
    /\ thread[t].pc = "dirtypage" /\ thread[t].want = "write"
    /\ vnode[thread[t].vn].vn_vno = i /\ thread[t].pf[2] = p
    /\ Alive(i)
    => disk[i][p] = latest[i][p]

(* A sync was asked for what had been written then.                         *)
AskedBefore == \A t \in Thread, i \in Ino, p \in Page : asked[t][i][p] <= latest[i][p]

DataIInv == VnodeIInv /\ WritableIsDirty /\ DataKept /\ PinnedIsClean

(* A page that is being filled is busy, and one that is idle is filled.     *)
LEMMA FillingIsBusy ==
  ASSUME VnodeIInv, NEW f \in Frame
  PROVE  /\ Filling(f) => pframe[f].state = "busy"
         /\ pframe[f].state = "idle" => Filled(f)
BY DEF VnodeIInv, WorkersAlone, Filling, Filled, AtWork, Busy

(* A step that writes nothing                                               *)
LEMMA QuietStep ==
  ASSUME DataIInv, VnodeIInv', disk' = disk, latest' = latest,
         \A i \in Ino : Alive(i)' => Alive(i),
         \A i \in Ino : Alive(i)' => \A v \in VnodeT, p \in Page :
           /\ vnode'[v].vn_vno = i /\ Filled(<<v, p>>)' <=> vnode[v].vn_vno = i /\ Filled(<<v, p>>)
           /\ vnode[v].vn_vno = i /\ Filled(<<v, p>>) =>
                /\ pframe'[<<v, p>>].data = pframe[<<v, p>>].data
                /\ pframe[<<v, p>>].dirty \/ pframe[<<v, p>>].state = "busy" =>
                     pframe'[<<v, p>>].dirty \/ pframe'[<<v, p>>].state = "busy",
         \A u \in Thread, p \in Page : pte'[u][p] =>
           pframe'[<<thread'[u].vn, p>>].state = "idle" /\ pframe'[<<thread'[u].vn, p>>].dirty,
         \A u \in Thread, i \in Ino, p \in Page :
           /\ thread'[u].pc = "dirtypage" /\ thread'[u].want = "write"
           /\ vnode'[thread'[u].vn].vn_vno = i /\ thread'[u].pf[2] = p
           /\ Alive(i)'
           => \/ /\ thread[u].pc = "dirtypage" /\ thread[u].want = "write"
                 /\ vnode[thread[u].vn].vn_vno = i /\ thread[u].pf[2] = p
              \/ disk[i][p] = latest[i][p]
  PROVE  DataIInv'
<1>1. WritableIsDirty'
  BY DEF WritableIsDirty, Idle
<1>2. ASSUME NEW i \in Ino, NEW p \in Page, Alive(i)'
      PROVE  Kept(i, p)'
  <2>1. Kept(i, p)
    BY <1>2 DEF DataIInv, DataKept
  <2>2. InUse(i)' = {v \in VnodeT : vnode'[v].vn_vno = i}
    BY DEF InUse
  <2>3. ASSUME NEW v \in InUse(i)', Filled(<<v, p>>)'
        PROVE  /\ pframe'[<<v, p>>].data = latest[i][p]
               /\ disk[i][p] = latest[i][p] \/ pframe'[<<v, p>>].dirty \/ pframe'[<<v, p>>].state = "busy"
    <3>1. v \in VnodeT /\ v \in InUse(i) /\ Filled(<<v, p>>)
      BY <1>2, <2>2, <2>3 DEF InUse
    <3>. QED BY <1>2, <2>1, <3>1 DEF Kept, Busy, InUse
  <2>4. ASSUME \A v \in InUse(i)' : ~Filled(<<v, p>>)'
        PROVE  disk[i][p] = latest[i][p]
    <3>1. \A v \in InUse(i) : ~Filled(<<v, p>>)
      BY <1>2, <2>2, <2>4 DEF InUse
    <3>. QED BY <2>1, <3>1 DEF Kept
  <2>. QED BY <2>3, <2>4 DEF Kept, Busy
<1>3. PinnedIsClean'
  BY DEF DataIInv, PinnedIsClean
<1>. QED BY <1>1, <1>2, <1>3 DEF DataIInv, DataKept

(* An inode whose file is gone does not come back.                          *)
LEMMA AliveStays ==
  ASSUME VnodeIInv, VnodeIInv', NEW i \in Ino, Alive(i)', revived \subseteq revived',
         i \notin revived' /\ Linked(i)' => Linked(i) \/ Alive(i),
         \A v \in VnodeT : vnode'[v].vn_vno = i /\ ~vnode'[v].busy =>
           \/ Linked(i)
           \/ vnode[v].vn_vno = i /\ ~vnode[v].busy,
         \A u \in Thread : thread[u].pc \in Dropping =>
           \/ vnode'[thread[u].vn].busy
           \/ thread'[u].pc \in Dropping /\ thread'[u].vn = thread[u].vn
  PROVE  Alive(i)
<1>1. CASE Linked(i)'
  BY <1>1 DEF Alive
<1>2. CASE \E v \in InUse(i)' :
             ~vnode'[v].busy /\ \A t \in Thread : thread'[t].vn = v => thread'[t].pc \notin Dropping
  BY <1>2 DEF Alive, InUse
<1>. QED BY <1>1, <1>2 DEF Alive

(* The steps of the threads that are not in vput are followed by Dropping.  *)
LEMMA WokenDrop ==
  ASSUME VnodeTypeOK, NEW f, NEW u \in Thread, NEW th, th = pf_broadcast(f, thread)
  PROVE  /\ th[u].pc \in Dropping <=> thread[u].pc \in Dropping
         /\ th[u].pc \in {"fillpage", "refill", "dirtypage", "user"} => th[u] = thread[u]
         /\ thread[u].pc \in {"fillpage", "refill", "dirtypage"} => th[u] = thread[u]
         /\ th[u].vn = thread[u].vn /\ th[u].pf = thread[u].pf
<1>1. th[u].pc \in Dropping <=> thread[u].pc \in Dropping
  BY Broadcast, ZenonT(30) DEF Dropping, WokenPc, Waiting
<1>2. thread[u].pc \in {"fillpage", "refill", "dirtypage"} => th[u] = thread[u]
  BY DEF pf_broadcast, Asleep
<1>3. th[u].pc \in {"fillpage", "refill", "dirtypage", "user"} => th[u] = thread[u]
  <2>1. thread[u].pc \in Waiting => WokenPc[thread[u].pc] \in {"get", "vput", "sync"}
    BY DEF WokenPc, Waiting
  <2>2. th[u].pc \in {"fillpage", "refill", "dirtypage", "user"} => thread[u].pc \notin Waiting \/ thread[u].pf # f
    BY <2>1, Broadcast
  <2>. QED BY <2>2 DEF pf_broadcast, Asleep, Waiting
<1>. QED BY <1>1, <1>2, <1>3, Broadcast

(* What the caller of pframe_get writes                                     *)
LEMMA UsesData ==
  ASSUME VnodeTypeOK, NEW t \in Thread, NEW f \in Frame, vnode[f[1]].vn_vno \in Ino,
         NEW want \in {"read", "write", "copy"},
         NEW pg \in [Frame -> FrameRec], pg[f].state = "idle",
         NEW th \in [Thread -> ThreadRec], HavePage(t, f, want, pg, th)
  PROVE  /\ pframe'[f].dirty = pg[f].dirty
         /\ pg[f].dirty => pframe'[f].state = "idle"
         /\ \/ latest' = latest /\ pframe'[f].data = pg[f].data
            \/ /\ latest' = Wrote(f) /\ (pframe'[f].dirty \/ pframe'[f].state = "busy")
               /\ pg[f].data # Junk => pframe'[f].data = NextWrite(f)
               /\ thread'[t].pc = "dirtypage" => thread'[t].want = "copy"
         /\ thread'[t].pc = "dirtypage" => ~pg[f].dirty
         /\ \A u \in Thread, q \in Page : pte'[u][q] =>
              pte[u][q] \/ (u = t /\ q = f[2] /\ pg[f].dirty)
<1>1. Finished(t, th)[t].pc = "user"
  BY FinishedThread
<1> DEFINE dirtying == [th EXCEPT ![t] = [@ EXCEPT !.pc = "dirtypage", !.pf = f, !.want = want]]
<1>2. dirtying[t].want = want
  <2> DEFINE r == [th[t] EXCEPT !.pc = "dirtypage", !.pf = f, !.want = want]
  <2>1. r.want = want
    BY ZenonT(30) DEF ThreadRec
  <2>2. dirtying = [th EXCEPT ![t] = r]
    OBVIOUS
  <2> HIDE DEF r, dirtying
  <2>. QED BY <2>1, <2>2
<1> USE DEF FrameRec
<1>3. /\ Copied(f, pg) \in [Frame -> FrameRec] /\ Copied(f, pg)[f].state = "idle"
      /\ Copied(f, pg)[f].dirty = pg[f].dirty
      /\ pg[f].data # Junk => Copied(f, pg)[f].data = NextWrite(f)
  <2> DEFINE n == NextWrite(f)
             d == IF pg[f].data = Junk THEN Junk ELSE n
  <2>1. n \in 0..MaxWrite
    BY WriteTypes
  <2>2. Copied(f, pg) = [pg EXCEPT ![f].data = d]
    BY DEF Copied
  <2>3. d \in 0..MaxWrite \cup {Junk} /\ (pg[f].data # Junk => d = n)
    BY <2>1
  <2> HIDE DEF d, n
  <2>4. /\ Copied(f, pg) \in [Frame -> FrameRec] /\ Copied(f, pg)[f].state = "idle"
        /\ Copied(f, pg)[f].dirty = pg[f].dirty /\ Copied(f, pg)[f].data = d
    BY <2>2, <2>3
  <2>. QED BY <2>3, <2>4 DEF n
<1>4. ASSUME NEW q \in [Frame -> FrameRec]
      PROVE  /\ Dirtying(f, q)[f].dirty = q[f].dirty /\ Dirtying(f, q)[f].data = q[f].data
             /\ Dirtying(f, q)[f].state = "busy"
  BY DEF Dirtying
<1>5. \A u \in Thread, q \in Page : [pte EXCEPT ![t][f[2]] = TRUE][u][q] => pte[u][q] \/ (u = t /\ q = f[2])
  BY DEF VnodeTypeOK
<1>6. \/ pframe' = pg /\ thread' = Finished(t, th) /\ UNCHANGED <<pte, latest>>
      \/ pg[f].dirty /\ pframe' = pg /\ thread' = Finished(t, th) /\ pte' = [pte EXCEPT ![t][f[2]] = TRUE]
         /\ UNCHANGED latest
      \/ ~pg[f].dirty /\ pframe' = Dirtying(f, pg) /\ thread' = dirtying /\ UNCHANGED <<pte, latest>>
      \/ pg[f].dirty /\ latest' = Wrote(f) /\ UNCHANGED pte /\ pframe' = Copied(f, pg) /\ thread' = Finished(t, th)
      \/ want = "copy" /\ ~pg[f].dirty /\ latest' = Wrote(f) /\ UNCHANGED pte
         /\ pframe' = Dirtying(f, Copied(f, pg)) /\ thread' = dirtying
  BY DEF HavePage
<1> HIDE DEF dirtying
<1>7. CASE pframe' = pg /\ thread' = Finished(t, th) /\ UNCHANGED <<pte, latest>>
  BY <1>1, <1>7
<1>8. CASE pg[f].dirty /\ pframe' = pg /\ thread' = Finished(t, th) /\ pte' = [pte EXCEPT ![t][f[2]] = TRUE]
           /\ UNCHANGED latest
  BY <1>1, <1>5, <1>8
<1>9. CASE ~pg[f].dirty /\ pframe' = Dirtying(f, pg) /\ thread' = dirtying /\ UNCHANGED <<pte, latest>>
  BY <1>4, <1>9
<1>10. CASE pg[f].dirty /\ latest' = Wrote(f) /\ UNCHANGED pte /\ pframe' = Copied(f, pg)
            /\ thread' = Finished(t, th)
  BY <1>1, <1>3, <1>10
<1>11. CASE want = "copy" /\ ~pg[f].dirty /\ latest' = Wrote(f) /\ UNCHANGED pte
            /\ pframe' = Dirtying(f, Copied(f, pg)) /\ thread' = dirtying
  BY <1>2, <1>3, <1>4, <1>11
<1>. QED BY <1>6, <1>7, <1>8, <1>9, <1>10, <1>11

(* A step of thread t that writes to no page but f, filled and idle         *)
LEMMA WriteStep ==
  ASSUME DataIInv, VnodeIInv', NEW t \in Thread, NEW f \in Frame,
         vnode' = vnode, names' = names, disk' = disk, revived' = revived,
         thread[t].pc \in {"user", "get", "fillpage"}, thread[t].vn = f[1],
         thread[t].pc = "fillpage" => thread[t].pf = f,
         NEW pg \in [Frame -> FrameRec], pg[f].state = "idle",
         \A g \in Frame \ {f} : pg[g] = pframe[g],
         pframe[f].state = "busy" => thread[t].pc = "fillpage",
         pframe[f].state # "absent", pframe[f].state # "busy" => pg = pframe,
         \A i \in Ino : vnode[f[1]].vn_vno = i /\ Alive(i) =>
           /\ pg[f].data = latest[i][f[2]]
           /\ disk[i][f[2]] = latest[i][f[2]] \/ pg[f].dirty,
         NEW th, th = thread \/ th = pf_broadcast(f, thread),
         \A u \in Thread \ {t} : thread'[u] = th[u],
         thread'[t].vn = thread[t].vn,
         \A g \in Frame \ {f} : pframe'[g] = pframe[g],
         \/ thread'[t].pc = "user" /\ pframe'[f].state = "idle"
         \/ thread'[t].pc = "dirtypage" /\ thread'[t].pf = f /\ pframe'[f].state = "busy",
         pframe'[f].dirty = pg[f].dirty,
         pg[f].dirty => pframe'[f].state = "idle",
         \/ latest' = latest /\ pframe'[f].data = pg[f].data
         \/ /\ latest' = Wrote(f) /\ (pframe'[f].dirty \/ pframe'[f].state = "busy")
            /\ pg[f].data # Junk => pframe'[f].data = NextWrite(f)
            /\ thread'[t].pc = "dirtypage" => thread'[t].want = "copy",
         thread'[t].pc = "dirtypage" => ~pg[f].dirty,
         \A u \in Thread, q \in Page : pte'[u][q] =>
           pte[u][q] \/ (u = t /\ q = f[2] /\ pg[f].dirty)
  PROVE  DataIInv'
<1>1. VnodeIInv /\ VnodeTypeOK /\ thread \in [Thread -> ThreadRec] /\ pframe \in [Frame -> FrameRec]
  BY Types DEF DataIInv, VnodeIInv
<1>2. PICK v \in VnodeT, p \in Page : f = <<v, p>> /\ v = f[1] /\ p = f[2]
  BY DEF Frame
<1>3. \A u \in Thread :
        /\ th[u].pc \in Dropping <=> thread[u].pc \in Dropping
        /\ th[u].pc \in {"fillpage", "refill", "dirtypage", "user"} => th[u] = thread[u]
        /\ thread[u].pc \in {"fillpage", "refill", "dirtypage"} => th[u] = thread[u]
        /\ th[u].vn = thread[u].vn /\ th[u].pf = thread[u].pf
  BY <1>1, WokenDrop
<1>4. vnode[v].vn_vno \in Ino /\ vnode[f[1]].vn_vno \in Ino
  BY <1>1, <1>2, ResidentVnode
<1>5. /\ \A u \in Thread \ {t} : thread'[u] = th[u]
      /\ thread'[t].vn = thread[t].vn
      /\ \A g \in Frame \ {f} : pframe'[g] = pframe[g]
      /\ \/ thread'[t].pc = "user" /\ pframe'[f].state = "idle"
         \/ thread'[t].pc = "dirtypage" /\ thread'[t].pf = f /\ pframe'[f].state = "busy"
  OBVIOUS
<1>6. /\ pframe'[f].dirty = pg[f].dirty
      /\ pg[f].dirty => pframe'[f].state = "idle"
      /\ \/ latest' = latest /\ pframe'[f].data = pg[f].data
         \/ /\ latest' = Wrote(f) /\ (pframe'[f].dirty \/ pframe'[f].state = "busy")
            /\ pg[f].data # Junk => pframe'[f].data = NextWrite(f)
            /\ thread'[t].pc = "dirtypage" => thread'[t].want = "copy"
      /\ thread'[t].pc = "dirtypage" => ~pg[f].dirty
      /\ \A u \in Thread, q \in Page : pte'[u][q] =>
           pte[u][q] \/ (u = t /\ q = f[2] /\ pg[f].dirty)
  OBVIOUS
<1>7. \A i \in Ino : Alive(i)' => Alive(i)
  <2>1. \A u \in Thread : thread[u].pc \in Dropping => thread'[u].pc \in Dropping /\ thread'[u].vn = thread[u].vn
    BY <1>3, <1>5 DEF Dropping
  <2>. QED BY <1>1, <2>1, AliveStays DEF Linked
<1>8. ASSUME NEW u \in Thread, u # t, thread[u].pf = f
      PROVE  thread[u].pc \notin AtWork
  <2>1. thread[u].pc \in AtWork => pframe[f].state = "busy"
    BY <1>1, <1>8 DEF VnodeIInv, WorkersAlone, Busy
  <2>2. thread[t].pc = "fillpage" => thread[t].pc \in AtWork
    BY DEF AtWork
  <2>. QED BY <1>1, <1>8, <2>1, <2>2 DEF VnodeIInv, WorkersAlone
<1>9. ASSUME NEW g \in Frame, g # f
      PROVE  Filled(g)' <=> Filled(g)
  BY <1>3, <1>5, <1>9 DEF Filled, Filling
<1>10. Filled(f)'
  <2>1. ASSUME NEW u \in Thread, thread'[u].pf = f PROVE thread'[u].pc \notin {"fillpage", "refill"}
    BY <1>3, <1>5, <1>8, <2>1 DEF AtWork
  <2>. QED BY <1>5, <2>1 DEF Filled, Filling
<1>11. WritableIsDirty'
  <2>1. ASSUME NEW u \in Thread, NEW q \in Page, pte'[u][q]
        PROVE  pframe'[<<thread'[u].vn, q>>].state = "idle" /\ pframe'[<<thread'[u].vn, q>>].dirty
    <3>1. thread'[u].vn = thread[u].vn
      BY <1>3, <1>5
    <3>2. CASE pte[u][q]
      <4>1. /\ <<thread[u].vn, q>> \in Frame /\ pframe[<<thread[u].vn, q>>].state = "idle"
            /\ pframe[<<thread[u].vn, q>>].dirty
        BY <1>1, <3>2 DEF DataIInv, WritableIsDirty, Idle, VnodeIInv, WritersHold, ThreadRec, Frame
      <4>2. CASE <<thread[u].vn, q>> = f
        BY <1>6, <3>1, <4>1, <4>2
      <4>3. CASE <<thread[u].vn, q>> # f
        BY <1>5, <3>1, <4>1, <4>3
      <4>. QED BY <4>2, <4>3
    <3>3. CASE u = t /\ q = f[2] /\ pg[f].dirty
      BY <1>2, <1>6, <3>1, <3>3
    <3>. QED BY <1>6, <2>1, <3>2, <3>3
  <2>. QED BY <2>1 DEF WritableIsDirty, Idle
<1>12. /\ NextWrite(f) \in 0..MaxWrite
       /\ latest \in [Ino -> [Page -> 0..MaxWrite]]
       /\ \A i \in Ino, q \in Page :
            Wrote(f)[i][q] = IF i = vnode[v].vn_vno /\ q = p THEN NextWrite(f) ELSE latest[i][q]
  <2>1. NextWrite(f) \in 0..MaxWrite /\ latest \in [Ino -> [Page -> 0..MaxWrite]]
    BY <1>1, <1>2, <1>4, WriteTypes DEF VnodeTypeOK
  <2> DEFINE n == NextWrite(f)
             i0 == vnode[v].vn_vno
  <2>2. Wrote(f) = [latest EXCEPT ![i0][p] = n] /\ i0 \in Ino
    BY <1>2, <1>4 DEF Wrote
  <2> HIDE DEF n, i0
  <2>3. \A i \in Ino, q \in Page :
          Wrote(f)[i][q] = IF i = i0 /\ q = p THEN n ELSE latest[i][q]
    BY <2>1, <2>2
  <2>. QED BY <2>1, <2>3 DEF n, i0
<1>13. ASSUME NEW i \in Ino, NEW q \in Page, i # vnode[v].vn_vno \/ q # p
       PROVE  latest'[i][q] = latest[i][q]
  <2>1. Wrote(f)[i][q] = latest[i][q]
    BY <1>12, <1>13
  <2>2. latest' = latest \/ latest' = Wrote(f)
    BY <1>6
  <2>. QED BY <2>1, <2>2
<1>14. ASSUME Alive(vnode[v].vn_vno)
       PROVE  /\ pframe'[f].data = latest'[vnode[v].vn_vno][p]
              /\ \/ disk[vnode[v].vn_vno][p] = latest'[vnode[v].vn_vno][p]
                 \/ pframe'[f].dirty \/ pframe'[f].state = "busy"
  <2>1. pg[f].data = latest[vnode[v].vn_vno][p] /\ pg[f].data # Junk
        /\ (disk[vnode[v].vn_vno][p] = latest[vnode[v].vn_vno][p] \/ pg[f].dirty)
    <3>1. PICK i \in Ino : i = vnode[v].vn_vno /\ vnode[f[1]].vn_vno = i
      BY <1>2, <1>4
    <3>2. pg[f].data = latest[i][f[2]] /\ (disk[i][f[2]] = latest[i][f[2]] \/ pg[f].dirty)
      BY <1>14, <3>1
    <3>3. latest[i][p] \in Nat
      BY <1>12
    <3>. QED BY <1>2, <3>1, <3>2, <3>3
  <2>2. CASE latest' = latest /\ pframe'[f].data = pg[f].data
    BY <1>6, <2>1, <2>2
  <2>3. CASE latest' = Wrote(f) /\ (pframe'[f].dirty \/ pframe'[f].state = "busy")
             /\ (pg[f].data # Junk => pframe'[f].data = NextWrite(f))
    <3>1. Wrote(f)[vnode[v].vn_vno][p] = NextWrite(f)
      BY <1>4, <1>12
    <3>. QED BY <2>1, <2>3, <3>1
  <2>. QED BY <1>6, <2>2, <2>3
<1>15. ASSUME NEW i \in Ino, NEW q \in Page, Alive(i)'
       PROVE  Kept(i, q)'
  <2>1. Kept(i, q) /\ Alive(i)
    BY <1>7, <1>15 DEF DataIInv, DataKept
  <2>2. InUse(i)' = InUse(i)
    BY DEF InUse
  <2>3. CASE i = vnode[v].vn_vno /\ q = p
    <3>1. InUse(i) = {v}
      BY <1>1, <1>4, <2>3 DEF InUse, VnodeIInv, Unique
    <3>2. /\ Filled(<<v, p>>)' /\ pframe'[<<v, p>>].data = latest'[i][p]
          /\ disk[i][p] = latest'[i][p] \/ pframe'[<<v, p>>].dirty \/ pframe'[<<v, p>>].state = "busy"
      BY <1>2, <1>10, <1>14, <2>1, <2>3
    <3>. QED BY <2>2, <2>3, <3>1, <3>2 DEF Kept, Busy
  <2>4. CASE i # vnode[v].vn_vno \/ q # p
    <3>1. latest'[i][q] = latest[i][q]
      BY <1>13, <2>4
    <3>2. ASSUME NEW w \in InUse(i)
          PROVE  (Filled(<<w, q>>)' <=> Filled(<<w, q>>)) /\ pframe'[<<w, q>>] = pframe[<<w, q>>]
      <4>1. <<w, q>> \in Frame /\ <<w, q>> # f
        BY <1>2, <2>4 DEF InUse, Frame
      <4>. QED BY <1>5, <1>9, <4>1
    <3>. QED BY <2>1, <2>2, <3>1, <3>2 DEF Kept, Busy
  <2>. QED BY <2>3, <2>4
<1>16. PinnedIsClean'
  <2>1. ASSUME NEW u \in Thread, NEW i \in Ino, NEW q \in Page,
               thread'[u].pc = "dirtypage" /\ thread'[u].want = "write",
               vnode[thread'[u].vn].vn_vno = i /\ thread'[u].pf[2] = q, Alive(i)'
        PROVE  disk[i][q] = latest'[i][q]
    <3>1. CASE u = t
      <4>1. latest' = latest /\ ~pg[f].dirty /\ i = vnode[v].vn_vno /\ q = p
        BY <1>2, <1>5, <1>6, <2>1, <3>1
      <4>. QED BY <1>2, <1>7, <2>1, <4>1
    <3>2. CASE u # t
      <4>1. thread'[u] = thread[u] /\ thread[u].pc \in AtWork /\ thread[u].pc \in OnPage
        BY <1>3, <1>5, <2>1, <3>2 DEF AtWork, OnPage
      <4>2. disk[i][q] = latest[i][q]
        BY <1>7, <2>1, <4>1 DEF DataIInv, PinnedIsClean
      <4>3. thread[u].vn \in VnodeT /\ thread[u].pf = <<thread[u].vn, q>>
        BY <1>1, <2>1, <4>1, PageOf DEF Frame
      <4>4. i # vnode[v].vn_vno \/ q # p
        BY <1>1, <1>2, <1>4, <1>8, <2>1, <3>2, <4>1, <4>3 DEF VnodeIInv, Unique
      <4>. QED BY <1>13, <4>2, <4>4
    <3>. QED BY <3>1, <3>2
  <2>. QED BY <2>1 DEF PinnedIsClean
<1>. QED BY <1>11, <1>15, <1>16 DEF DataIInv, DataKept

(* What the caller of pframe_get does with the page f, filled and idle      *)
LEMMA HaveDataStep ==
  ASSUME DataIInv, VnodeIInv', NEW t \in Thread, NEW f \in Frame, NEW want \in {"read", "write", "copy"},
         vnode' = vnode, names' = names, disk' = disk, revived' = revived,
         thread[t].pc \in {"user", "get", "fillpage"}, thread[t].vn = f[1],
         thread[t].pc = "fillpage" => thread[t].pf = f,
         NEW pg \in [Frame -> FrameRec], pg[f].state = "idle",
         \A g \in Frame \ {f} : pg[g] = pframe[g],
         pframe[f].state = "busy" => thread[t].pc = "fillpage",
         pframe[f].state # "absent", pframe[f].state # "busy" => pg = pframe,
         \A i \in Ino : vnode[f[1]].vn_vno = i /\ Alive(i) =>
           /\ pg[f].data = latest[i][f[2]]
           /\ disk[i][f[2]] = latest[i][f[2]] \/ pg[f].dirty,
         NEW th \in [Thread -> ThreadRec], th[t] = thread[t],
         th = thread \/ th = pf_broadcast(f, thread),
         HavePage(t, f, want, pg, th)
  PROVE  DataIInv'
<1>1. VnodeTypeOK /\ vnode[f[1]].vn_vno \in Ino
  BY ResidentVnode DEF DataIInv, VnodeIInv
<1>2. /\ \A u \in Thread \ {t} : thread'[u] = th[u]
      /\ thread'[t].vn = th[t].vn
      /\ \A g \in Frame \ {f} : pframe'[g] = pg[g]
      /\ \/ thread'[t].pc = "user" /\ pframe'[f].state = "idle"
         \/ thread'[t].pc = "dirtypage" /\ thread'[t].pf = f /\ pframe'[f].state = "busy"
  BY <1>1, UsesPage
<1>3. /\ pframe'[f].dirty = pg[f].dirty
      /\ pg[f].dirty => pframe'[f].state = "idle"
      /\ \/ latest' = latest /\ pframe'[f].data = pg[f].data
         \/ /\ latest' = Wrote(f) /\ (pframe'[f].dirty \/ pframe'[f].state = "busy")
            /\ pg[f].data # Junk => pframe'[f].data = NextWrite(f)
            /\ thread'[t].pc = "dirtypage" => thread'[t].want = "copy"
      /\ thread'[t].pc = "dirtypage" => ~pg[f].dirty
      /\ \A u \in Thread, q \in Page : pte'[u][q] =>
           pte[u][q] \/ (u = t /\ q = f[2] /\ pg[f].dirty)
  BY <1>1, UsesData
<1>4. thread'[t].vn = thread[t].vn /\ \A g \in Frame \ {f} : pframe'[g] = pframe[g]
  BY <1>2
<1>. QED BY <1>2, <1>3, <1>4, WriteStep

(* The steps that leave every page as it is                                 *)
LEMMA SamePages ==
  ASSUME DataIInv, VnodeIInv', disk' = disk, latest' = latest, pframe' = pframe,
         \A i \in Ino : Alive(i)' => Alive(i),
         \A v \in VnodeT : vnode'[v].vn_vno = vnode[v].vn_vno \/ Respages(v) = {},
         \A u \in Thread : {thread[u].pc, thread'[u].pc} \cap {"fillpage", "refill", "dirtypage"} # {} =>
           thread'[u] = thread[u],
         \A u \in Thread, p \in Page : pte'[u][p] => pte[u][p] /\ thread'[u].vn = thread[u].vn
  PROVE  DataIInv'
<1>1. ASSUME NEW f \in Frame PROVE Filled(f)' <=> Filled(f)
  <2>1. ASSUME NEW u \in Thread
        PROVE  thread'[u].pf = f /\ thread'[u].pc \in {"fillpage", "refill"}
               <=> thread[u].pf = f /\ thread[u].pc \in {"fillpage", "refill"}
    OBVIOUS
  <2>. QED BY <2>1 DEF Filled, Filling
<1>2. ASSUME NEW i \in Ino, NEW v \in VnodeT, NEW p \in Page
      PROVE  vnode'[v].vn_vno = i /\ Filled(<<v, p>>)' <=> vnode[v].vn_vno = i /\ Filled(<<v, p>>)
  <2>1. <<v, p>> \in Frame /\ <<v, p>> \in {v} \X Page
    BY DEF Frame
  <2>2. Respages(v) = {} => ~Filled(<<v, p>>)
    BY <2>1 DEF Respages, Filled
  <2>. QED BY <1>1, <2>1, <2>2
<1>3. ASSUME NEW u \in Thread, NEW p \in Page, pte'[u][p]
      PROVE  pframe'[<<thread'[u].vn, p>>].state = "idle" /\ pframe'[<<thread'[u].vn, p>>].dirty
  BY <1>3 DEF DataIInv, WritableIsDirty, Idle
<1>4. ASSUME NEW u \in Thread, thread'[u].pc = "dirtypage"
      PROVE  thread'[u] = thread[u] /\ vnode'[thread[u].vn].vn_vno = vnode[thread[u].vn].vn_vno
  <2>1. thread'[u] = thread[u] /\ thread[u].pc \in AtWork /\ thread[u].pc \in OnPage
    BY <1>4 DEF AtWork, OnPage
  <2>2. /\ thread[u].pf \in Frame /\ pframe[thread[u].pf].state = "busy"
        /\ thread[u].vn \in VnodeT /\ thread[u].pf[1] = thread[u].vn
    BY <2>1, PageOf DEF DataIInv
  <2>3. thread[u].pf \in Respages(thread[u].vn)
    BY <2>2, ResidentVnode DEF DataIInv
  <2>. QED BY <2>1, <2>2, <2>3
<1>. QED BY <1>2, <1>3, <1>4, QuietStep

(* A thread that keeps what it has but the place                            *)
LEMMA DropsOn ==
  ASSUME VnodeIInv, VnodeIInv', NEW t \in Thread, OthersStay(t), names' = names, revived' = revived,
         thread[t].pc \in Dropping => vnode'[thread[t].vn].busy,
         \A v \in VnodeT : \/ vnode'[v].vn_vno = vnode[v].vn_vno /\ vnode'[v].busy = vnode[v].busy
                           \/ vnode'[v].busy \/ vnode'[v].vn_vno = NoIno \/ Linked(vnode'[v].vn_vno)
  PROVE  \A i \in Ino : Alive(i)' => Alive(i)
<1>1. \A u \in Thread \ {t} : thread[u].pc \in Dropping => thread'[u] = thread[u]
  BY DEF OthersStay, Dropping
<1>2. \A i \in Ino : Linked(i)' => Linked(i)
  BY DEF Linked
<1>. QED BY <1>1, <1>2, AliveStays

LEMMA FindData ==
  ASSUME DataIInv, VnodeIInv', NEW t \in Thread, NEW name \in Dir \X Ino, thread[t].vn = NoVnode,
         thread[t].pc \in {"user", "find"}, name \in names,
         NEW want \in {"read", "write", "copy", "link"}, Find(t, name, want)
  PROVE  DataIInv'
<1>1. thread \in [Thread -> ThreadRec] /\ vnode \in [VnodeT -> VnodeRec] /\ VnodeIInv
  BY Types DEF DataIInv, VnodeIInv
<1>2. UNCHANGED <<pframe, pte, names, disk, latest, revived>>
  BY DEF Find
<1>3. PICK pc, v, nm :
        /\ pc \in {"user", "opened", "vn_waitq", "read_vnode", "find"}
        /\ thread' = [thread EXCEPT ![t] = [@ EXCEPT !.pc = pc, !.vn = v, !.name = nm, !.want = want]]
  <2> DEFINE Now(pc, v, nm) ==
        thread' = [thread EXCEPT ![t] = [@ EXCEPT !.pc = pc, !.vn = v, !.name = nm, !.want = want]]
  <2>1. \/ \E v : Now("vn_waitq", v, name)
        \/ \E v : Now(Got(want), v, NoName)
        \/ \E v : Now("read_vnode", v, name)
        \/ Now("find", NoVnode, name)
    BY DEF Find
  <2>2. Got(want) \in {"user", "opened"}
    BY DEF Got
  <2> HIDE DEF Now
  <2>3. ASSUME NEW pc, NEW v, NEW nm, Now(pc, v, nm), pc \in {"user", "opened", "vn_waitq", "read_vnode", "find"}
        PROVE  \E c, x, m : /\ c \in {"user", "opened", "vn_waitq", "read_vnode", "find"}
                            /\ Now(c, x, m)
    BY <2>3
  <2>4. \E c, x, m : c \in {"user", "opened", "vn_waitq", "read_vnode", "find"} /\ Now(c, x, m)
    BY <2>1, <2>2, <2>3
  <2>. QED BY <2>4 DEF Now
<1>4. OthersStay(t) /\ thread'[t].pc \in {"user", "opened", "vn_waitq", "read_vnode", "find"}
  <2> DEFINE r == [thread[t] EXCEPT !.pc = pc, !.vn = v, !.name = nm, !.want = want]
  <2>1. r.pc = pc
    <3>1. thread[t] \in ThreadRec
      BY <1>1
    <3>. QED BY <3>1, ZenonT(30) DEF ThreadRec
  <2>2. thread' = [thread EXCEPT ![t] = r]
    BY <1>3
  <2> HIDE DEF r
  <2>. QED BY <1>1, <1>3, <2>1, <2>2 DEF OthersStay
<1>5. ASSUME NEW x \in VnodeT
      PROVE  \/ vnode'[x].vn_vno = vnode[x].vn_vno /\ vnode'[x].busy = vnode[x].busy
             \/ vnode'[x].busy /\ vnode[x].vn_vno = NoIno
  <2>1. CASE \E w \in InUse(NoIno) :
               vnode' = [vnode EXCEPT ![w] = [vn_vno |-> name[2], busy |-> TRUE, vn_refcount |-> 0]]
    <3> DEFINE q == [vn_vno |-> name[2], busy |-> TRUE, vn_refcount |-> 0]
    <3>1. q.vn_vno = name[2] /\ q.busy = TRUE
      OBVIOUS
    <3>2. PICK w \in InUse(NoIno) : vnode' = [vnode EXCEPT ![w] = q]
      BY <2>1
    <3> HIDE DEF q
    <3>. QED BY <1>1, <3>1, <3>2 DEF InUse
  <2>2. CASE \E w \in VnodeT : vnode' = [vnode EXCEPT ![w].vn_refcount = @ + 1]
    BY <1>1, <2>2 DEF VnodeRec
  <2>. QED BY <2>1, <2>2 DEF Find, InUse
<1>6. \A i \in Ino : Alive(i)' => Alive(i)
  BY <1>1, <1>2, <1>4, <1>5, DropsOn DEF Dropping
<1>7. \A x \in VnodeT : vnode'[x].vn_vno = vnode[x].vn_vno \/ Respages(x) = {}
  BY <1>1, <1>5, FromCount DEF VnodeIInv
<1>8. \A u \in Thread : {thread[u].pc, thread'[u].pc} \cap {"fillpage", "refill", "dirtypage"} # {} =>
        thread'[u] = thread[u]
  BY <1>4 DEF OthersStay
<1>9. \A u \in Thread, p \in Page : pte'[u][p] => pte[u][p] /\ thread'[u].vn = thread[u].vn
  BY <1>1, <1>2, <1>4 DEF OthersStay, VnodeIInv, WritersHold, Holding, OnPage, Dropping
<1>. QED BY <1>2, <1>6, <1>7, <1>8, <1>9, SamePages

(* Where vput returns to                                                    *)
LEMMA VputReturnsTo ==
  ASSUME NEW r \in ThreadRec
  PROVE  /\ VputReturns(r) \in ThreadRec /\ VputReturns(r).pc \in {"user", "link"}
         /\ VputReturns(r).pc = "link" => VputReturns(r).vn = r.vn
<1>1. CASE r.want = "link"
  <2> DEFINE x == [r EXCEPT !.pc = "link"]
  <2>1. x \in ThreadRec /\ x.pc = "link" /\ x.vn = r.vn
    BY ZenonT(30) DEF ThreadRec
  <2> HIDE DEF x
  <2>. QED BY <1>1, <2>1 DEF VputReturns, x
<1>2. CASE r.want # "link"
  <2> DEFINE x == [r EXCEPT !.pc = "user", !.vn = NoVnode]
  <2>1. x \in ThreadRec /\ x.pc = "user"
    BY ZenonT(30) DEF ThreadRec
  <2> HIDE DEF x
  <2>. QED BY <1>2, <2>1 DEF VputReturns, x
<1>. QED BY <1>1, <1>2

LEMMA InOutData ==
  ASSUME DataIInv, VnodeIInv', NEW t \in Thread, VnodeIsIn(t) \/ VnodeIsOut(t)
  PROVE  DataIInv'
<1>1. thread \in [Thread -> ThreadRec] /\ vnode \in [VnodeT -> VnodeRec] /\ VnodeIInv
  BY Types DEF DataIInv, VnodeIInv
<1>2. UNCHANGED <<pframe, pte, names, disk, latest, revived>>
  BY DEF VnodeIsIn, VnodeIsOut
<1>3. /\ thread[t].pc \in Moving /\ thread[t].vn \in VnodeT /\ vnode[thread[t].vn].busy
      /\ thread[t].pc \in {"read_vnode", "delete_vnode"}
  BY <1>1 DEF VnodeIsIn, VnodeIsOut, Moving, VnodeIInv, MoversAlone, ThreadShape, Shape, ThreadRec
<1>4. OthersStay(t) /\ thread'[t].pc \in {"user", "opened", "link"}
  <2>1. CASE VnodeIsIn(t)
    <3> DEFINE g == Got(thread[t].want)
               r == [thread[t] EXCEPT !.pc = g, !.name = NoName]
    <3>1. g \in {"user", "opened"}
      BY DEF Got
    <3>2. thread' = [thread EXCEPT ![t] = r]
      BY <2>1 DEF VnodeIsIn
    <3> HIDE DEF g
    <3>3. r.pc = g
      <4>1. thread[t] \in ThreadRec
        BY <1>1
      <4>. QED BY <4>1, ZenonT(30) DEF ThreadRec
    <3> HIDE DEF r
    <3>. QED BY <1>1, <3>1, <3>2, <3>3 DEF OthersStay
  <2>2. CASE VnodeIsOut(t)
    <3>1. PICK v \in VnodeT : v = thread[t].vn /\ vnode[v].vn_vno \in Ino
      BY <1>1, <1>3 DEF VnodeIInv, VnodeShape, VnodeRec
    <3> DEFINE n == vnode[v].vn_vno
    <3>2. n # NoIno /\ n \in Ino \cup {NoIno}
      BY <3>1
    <3>3. ASSUME NEW u \in Thread
          PROVE  thread'[u] =
                   LET r == IF u = t THEN VputReturns(thread[u]) ELSE thread[u] IN
                   CASE r.vn = v /\ r.pc = "vn_waitq" -> [r EXCEPT !.pc = "find", !.vn = NoVnode]
                     [] r.vn = v /\ r.pc = "link" -> [r EXCEPT !.stale = n]
                     [] OTHER -> r
      BY <2>2, <3>1, ZenonT(30) DEF VnodeIsOut
    <3> HIDE DEF n
    <3>4. ASSUME NEW r \in ThreadRec
          PROVE  LET y == [r EXCEPT !.stale = n] IN
                 y.pc = r.pc /\ y.vn = r.vn /\ y.name = r.name /\ y.pf = r.pf /\ y.stale = n
      BY <3>2, ZenonT(30) DEF ThreadRec
    <3>5. thread'[t].pc \in {"user", "link"}
      <4> DEFINE r == VputReturns(thread[t])
      <4>1. r \in ThreadRec /\ r.pc \in {"user", "link"}
        BY <1>1, VputReturnsTo
      <4>2. thread'[t] = IF r.vn = v /\ r.pc = "link" THEN [r EXCEPT !.stale = n] ELSE r
        BY <3>3, <4>1
      <4> HIDE DEF r
      <4>. QED BY <3>4, <4>1, <4>2
    <3>6. ASSUME NEW u \in Thread, u # t
          PROVE  \/ thread'[u] = thread[u]
                 \/ /\ thread[u].pc = "vn_waitq" /\ thread'[u].pc = "find"
                    /\ thread'[u].vn = NoVnode /\ thread'[u].name = thread[u].name
                    /\ thread'[u].pf = thread[u].pf
                 \/ /\ thread[u].pc = "link" /\ thread'[u].pc = "link" /\ thread'[u].vn = thread[u].vn
                    /\ thread'[u].name = thread[u].name /\ thread'[u].pf = thread[u].pf
                    /\ thread'[u].stale # NoIno
      <4>1. thread[u] \in ThreadRec
        BY <1>1
      <4>2. CASE thread[u].pc = "vn_waitq" /\ thread[u].vn = v
        <5> DEFINE x == [thread[u] EXCEPT !.pc = "find", !.vn = NoVnode]
        <5>1. x.pc = "find" /\ x.vn = NoVnode /\ x.name = thread[u].name /\ x.pf = thread[u].pf
          BY <4>1, ZenonT(30) DEF ThreadRec
        <5>2. thread'[u] = x
          BY <3>3, <3>6, <4>2
        <5> HIDE DEF x
        <5>. QED BY <4>2, <5>1, <5>2
      <4>3. CASE thread[u].pc = "link" /\ thread[u].vn = v
        <5>1. thread'[u] = [thread[u] EXCEPT !.stale = n]
          BY <3>3, <3>6, <4>3
        <5>. QED BY <3>2, <3>4, <4>1, <4>3, <5>1
      <4>4. CASE ~(thread[u].vn = v /\ thread[u].pc \in {"vn_waitq", "link"})
        BY <3>3, <3>6, <4>4
      <4>. QED BY <4>2, <4>3, <4>4
    <3>. QED BY <3>5, <3>6 DEF OthersStay
  <2>. QED BY <2>1, <2>2
<1>5. ASSUME NEW v \in VnodeT
      PROVE  /\ \/ vnode'[v].vn_vno = vnode[v].vn_vno /\ vnode'[v].busy = vnode[v].busy
                \/ vnode'[v].vn_vno = NoIno \/ Linked(vnode'[v].vn_vno)
             /\ vnode'[v].vn_vno = vnode[v].vn_vno \/ vnode[v].busy
  <2>1. CASE v # thread[t].vn
    BY <1>1, <1>3, <2>1 DEF VnodeIsIn, VnodeIsOut
  <2>2. CASE v = thread[t].vn /\ VnodeIsIn(t)
    <3>1. thread[t].name # NoName /\ thread[t].pc = "read_vnode"
      BY <1>1, <2>2 DEF VnodeIsIn, VnodeIInv, ThreadShape, Shape, Looking
    <3>2. thread[t].name \in names /\ vnode[v].vn_vno = thread[t].name[2]
      BY <1>1, <1>3, <2>2, <3>1 DEF VnodeIInv, NamesKept, MoversAlone
    <3>3. vnode'[v].vn_vno = vnode[v].vn_vno
      BY <1>1, <2>2 DEF VnodeIsIn, VnodeRec
    <3>4. Linked(vnode[v].vn_vno)
      <4>1. thread[t].name \in Dir \X Ino
        BY <1>1, <3>1 DEF ThreadRec
      <4>. QED BY <3>2, <4>1 DEF Linked
    <3>. QED BY <3>3, <3>4
  <2>3. CASE v = thread[t].vn /\ VnodeIsOut(t)
    BY <1>1, <1>3, <2>3 DEF VnodeIsOut, FreeVnode
  <2>. QED BY <2>1, <2>2, <2>3
<1>6. \A i \in Ino : Alive(i)' => Alive(i)
  BY <1>1, <1>2, <1>3, <1>4, <1>5, DropsOn DEF Dropping
<1>7. \A v \in VnodeT : vnode'[v].vn_vno = vnode[v].vn_vno \/ Respages(v) = {}
  BY <1>1, <1>5, FromCount DEF VnodeIInv
<1>8. \A u \in Thread : {thread[u].pc, thread'[u].pc} \cap {"fillpage", "refill", "dirtypage"} # {} =>
        thread'[u] = thread[u]
  BY <1>3, <1>4 DEF OthersStay
<1>9. \A u \in Thread, p \in Page : pte'[u][p] => pte[u][p] /\ thread'[u].vn = thread[u].vn
  BY <1>1, <1>2, <1>3, <1>4 DEF OthersStay, VnodeIInv, WritersHold, Holding, OnPage, Dropping
<1>. QED BY <1>2, <1>6, <1>7, <1>8, <1>9, SamePages

(* A thread goes from one place to another, neither of them in the middle   *)
(* of a fillpage or a dirtypage.                                            *)
LEMMA PlainStep ==
  ASSUME DataIInv, VnodeIInv', NEW t \in Thread, OthersStay(t),
         UNCHANGED <<pframe, names, disk, latest, revived>>,
         {thread[t].pc, thread'[t].pc} \cap {"fillpage", "refill", "dirtypage"} = {},
         thread[t].pc \notin Dropping,
         \A v \in VnodeT : /\ vnode'[v].vn_vno = vnode[v].vn_vno
                           /\ vnode'[v].busy = vnode[v].busy \/ vnode'[v].busy,
         \A u \in Thread, p \in Page : pte'[u][p] => pte[u][p] /\ thread'[u].vn = thread[u].vn
  PROVE  DataIInv'
<1>1. VnodeIInv
  BY DEF DataIInv
<1>2. \A i \in Ino : Alive(i)' => Alive(i)
  BY <1>1, DropsOn
<1>3. \A u \in Thread : {thread[u].pc, thread'[u].pc} \cap {"fillpage", "refill", "dirtypage"} # {} =>
        thread'[u] = thread[u]
  BY DEF OthersStay
<1>. QED BY <1>2, <1>3, SamePages

(* What stays mapped when the vnodes of the threads do                      *)
LEMMA MappedStays ==
  ASSUME VnodeIInv, NEW t \in Thread, OthersStay(t), NEW u \in Thread, NEW p \in Page, pte[u][p],
         u = t => thread'[t].vn = thread[t].vn
  PROVE  thread'[u].vn = thread[u].vn
BY DEF OthersStay, VnodeIInv, WritersHold, Holding, OnPage, Dropping

LEMMA UnlinkData ==
  ASSUME DataIInv, VnodeIInv', NEW t \in Thread, NEW d \in Dir, do_unlink(t, d)
  PROVE  DataIInv'
<1>1. /\ UNCHANGED <<thread, vnode, pframe, pte, disk, latest, revived>>
      /\ names' = names \ {<<d, vnode[thread[t].vn].vn_vno>>}
  BY DEF do_unlink
<1>2. \A i \in Ino : Alive(i)' => Alive(i)
  BY <1>1, AliveStays DEF DataIInv, Linked
<1>. QED BY <1>1, <1>2, SamePages

(* do_link: an inode that gets a name has one, or a user, or is revived.    *)
LEMMA LinkData ==
  ASSUME DataIInv, VnodeIInv', NEW t \in Thread, NEW d \in Dir, do_link(t, d)
  PROVE  DataIInv'
<1> DEFINE w == thread[t].vn
           n == IF vnode[w].vn_vno = NoIno THEN thread[t].stale ELSE vnode[w].vn_vno
           r == [thread[t] EXCEPT !.pc = "user", !.vn = NoVnode, !.want = "read", !.stale = NoIno]
<1>1. /\ UNCHANGED <<vnode, pframe, pte, disk, latest>>
      /\ names' = names \cup {<<d, n>>} /\ thread[t].pc = "link"
      /\ revived' = IF Linked(n) \/ Users(n) # {} THEN revived ELSE revived \cup {n}
      /\ thread' = [thread EXCEPT ![t] = r]
  BY DEF do_link
<1>2. VnodeIInv /\ thread \in [Thread -> ThreadRec] /\ thread[t] \in ThreadRec
  BY Types DEF DataIInv, VnodeIInv
<1>3. r.pc = "user"
  BY <1>2, ZenonT(30) DEF ThreadRec
<1> HIDE DEF n, r
<1>4. thread'[t].pc = "user" /\ \A u \in Thread \ {t} : thread'[u] = thread[u]
  BY <1>1, <1>2, <1>3
<1>5. ASSUME NEW i \in Ino, i \notin revived', Linked(i)'
      PROVE  Linked(i) \/ Alive(i)
  <2> SUFFICES ASSUME ~Linked(i) PROVE Alive(i)
    OBVIOUS
  <2>1. i = n /\ i \notin revived /\ Users(i) # {}
    BY <1>1, <1>5 DEF Linked
  <2>2. PICK u \in Users(i) : TRUE
    BY <2>1
  <2>3. PICK v \in VnodeT : v = thread[u].vn /\ vnode[v].vn_vno = i /\ u \in Holders(v)
                             /\ thread[u].pc \notin Dropping
    BY <1>2, UsersHold
  <2>4. ~vnode[v].busy
    BY <1>2, <2>3, FromCount DEF VnodeIInv
  <2>5. ASSUME NEW x \in Thread, thread[x].vn = v, thread[x].pc \in Dropping PROVE FALSE
    <3>1. DropsAlone(x, v)
      BY <1>2, <2>5 DEF VnodeIInv, DroppersAlone
    <3>2. Holders(v) = {x}
      BY <2>1, <2>3, <3>1 DEF DropsAlone
    <3>. QED BY <2>3, <2>5, <3>2
  <2>. QED BY <2>1, <2>3, <2>4, <2>5 DEF Alive, InUse
<1>6. \A i \in Ino : Alive(i)' => Alive(i)
  <2>1. \A u \in Thread : thread[u].pc \in Dropping => thread'[u] = thread[u]
    BY <1>1, <1>4 DEF Dropping
  <2>2. revived \subseteq revived'
    BY <1>1
  <2>. QED BY <1>1, <1>2, <1>5, <2>1, <2>2, AliveStays
<1>7. \A u \in Thread : {thread[u].pc, thread'[u].pc} \cap {"fillpage", "refill", "dirtypage"} # {} =>
        thread'[u] = thread[u]
  BY <1>1, <1>4
<1>8. \A u \in Thread, p \in Page : pte'[u][p] => pte[u][p] /\ thread'[u].vn = thread[u].vn
  BY <1>1, <1>2, <1>4 DEF VnodeIInv, WritersHold, Holding, OnPage, Dropping
<1>. QED BY <1>1, <1>6, <1>7, <1>8, SamePages

LEMMA BusyData ==
  ASSUME DataIInv, VnodeIInv', NEW t \in Thread, NEW f \in Frame, NEW want \in {"read", "write", "copy"},
         thread[t].pc \in {"user", "get"}, pframe[f].state = "busy", pframe_get(t, f, want)
  PROVE  DataIInv'
<1>1. thread \in [Thread -> ThreadRec] /\ VnodeIInv
  BY Types DEF DataIInv, VnodeIInv
<1>2. /\ thread' = [thread EXCEPT ![t] = [@ EXCEPT !.pc = "pf_waitq", !.pf = f, !.want = want]]
      /\ UNCHANGED <<pframe, vnode, pte, latest, names, disk, revived>>
  BY DEF pframe_get, Busy, Idle
<1> DEFINE r == [thread[t] EXCEPT !.pc = "pf_waitq", !.pf = f, !.want = want]
<1>3. r.pc = "pf_waitq" /\ r.vn = thread[t].vn
  <2>1. thread[t] \in ThreadRec
    BY <1>1
  <2>. QED BY <2>1, ZenonT(30) DEF ThreadRec
<1>4. thread' = [thread EXCEPT ![t] = r]
  BY <1>2
<1> HIDE DEF r
<1>5. OthersStay(t) /\ thread'[t].pc = "pf_waitq" /\ thread'[t].vn = thread[t].vn
  BY <1>1, <1>3, <1>4 DEF OthersStay
<1>6. \A u \in Thread, p \in Page : pte'[u][p] => pte[u][p] /\ thread'[u].vn = thread[u].vn
  BY <1>1, <1>2, <1>5, MappedStays
<1>. QED BY <1>2, <1>5, <1>6, PlainStep DEF Dropping

LEMMA SyncData ==
  ASSUME DataIInv, VnodeIInv', NEW t \in Thread, sync(t)
  PROVE  DataIInv'
<1>1. thread \in [Thread -> ThreadRec] /\ VnodeIInv /\ thread[t].pc = "user"
  BY Types DEF DataIInv, VnodeIInv, sync
<1>2. UNCHANGED <<pframe, vnode, pte, latest, names, disk, revived>>
  BY DEF sync
<1>3. OthersStay(t) /\ thread'[t].pc = "sync" /\ thread'[t].vn = thread[t].vn
  BY <1>1 DEF OthersStay, sync, Goto, ThreadRec
<1>4. \A u \in Thread, p \in Page : pte'[u][p] => pte[u][p] /\ thread'[u].vn = thread[u].vn
  BY <1>1, <1>2, <1>3, MappedStays
<1>. QED BY <1>1, <1>2, <1>3, <1>4, PlainStep DEF Dropping

(* pframe_clean_all that sleeps or is through                               *)
LEMMA CleanAllWaits ==
  ASSUME DataIInv, VnodeIInv', NEW t \in Thread, pframe_clean_all(t), pframe' = pframe, pte' = pte
  PROVE  DataIInv'
<1>1. thread \in [Thread -> ThreadRec] /\ VnodeIInv /\ thread[t].pc = "sync"
  BY Types DEF DataIInv, VnodeIInv, pframe_clean_all
<1>2. UNCHANGED <<vnode, latest, names, disk, revived>>
  BY DEF pframe_clean_all
<1>3. ASSUME NEW r, thread' = [thread EXCEPT ![t] = r], r.pc \in {"user", "sync_waitq"}, r.vn = thread[t].vn
      PROVE  DataIInv'
  <2>1. OthersStay(t) /\ thread'[t].pc \in {"user", "sync_waitq"} /\ thread'[t].vn = thread[t].vn
    BY <1>1, <1>3 DEF OthersStay
  <2>2. \A u \in Thread, p \in Page : pte'[u][p] => pte[u][p] /\ thread'[u].vn = thread[u].vn
    BY <1>1, <2>1, MappedStays
  <2>. QED BY <1>1, <1>2, <2>1, <2>2, PlainStep DEF Dropping
<1>4. thread[t] \in ThreadRec
  BY <1>1
<1>5. CASE \E f \in AllocList :
             thread' = [thread EXCEPT ![t] = [@ EXCEPT !.pc = "sync_waitq", !.pf = f]]
  <2>1. PICK f \in AllocList : thread' = [thread EXCEPT ![t] = [@ EXCEPT !.pc = "sync_waitq", !.pf = f]]
    BY <1>5
  <2> DEFINE r == [thread[t] EXCEPT !.pc = "sync_waitq", !.pf = f]
  <2>2. r.pc = "sync_waitq" /\ r.vn = thread[t].vn
    BY <1>4, ZenonT(30) DEF ThreadRec
  <2>3. thread' = [thread EXCEPT ![t] = r]
    BY <2>1
  <2> HIDE DEF r
  <2>. QED BY <1>3, <2>2, <2>3
<1>6. CASE thread' = Finished(t, thread)
  <2> DEFINE r == [thread[t] EXCEPT !.pc = "user", !.pf = NoFrame, !.want = "read"]
  <2>1. r.pc = "user" /\ r.vn = thread[t].vn
    BY <1>4, ZenonT(30) DEF ThreadRec
  <2>2. thread' = [thread EXCEPT ![t] = r]
    BY <1>6 DEF Finished
  <2> HIDE DEF r
  <2>. QED BY <1>3, <2>1, <2>2
<1>7. ASSUME NEW f \in AllocList, Idle(f), pframe_clean(t, f) PROVE FALSE
  <2>1. pframe' = [pframe EXCEPT ![f] = [@ EXCEPT !.state = "busy", !.dirty = FALSE]] /\ f \in Frame
    BY <1>7 DEF pframe_clean, AllocList
  <2>2. pframe \in [Frame -> FrameRec] /\ pframe[f] \in FrameRec
    BY <1>1, <2>1, Types DEF VnodeIInv
  <2>3. pframe'[f].state = "busy"
    BY <2>1, <2>2 DEF FrameRec
  <2>. QED BY <1>7, <2>3 DEF Idle
<1>. QED BY <1>5, <1>6, <1>7 DEF pframe_clean_all

(* A thread in vput frees pages of a vnode of which it is the last holder,  *)
(* or of an inode that do_link has named since.                             *)
LEMMA FreedData ==
  ASSUME DataIInv, VnodeIInv', NEW t \in Thread, NEW v \in VnodeT, thread[t].vn = v,
         thread[t].pc \in {"user", "opened", "vput"}, t \in Holders(v),
         vnode[v].vn_vno \in revived \/ ~Linked(vnode[v].vn_vno),
         OthersStay(t), UNCHANGED <<names, disk, latest, revived>>,
         \A g \in Frame : g[1] # v => pframe'[g] = pframe[g],
         thread'[t].vn = v, thread'[t].pc \in {"vput_waitq", "delete_vnode"},
         thread'[t].pc = "delete_vnode" => vnode'[v].busy,
         \A w \in VnodeT : /\ vnode'[w].vn_vno = vnode[w].vn_vno
                           /\ vnode'[w].busy = vnode[w].busy \/ vnode'[w].busy,
         \A u \in Thread, p \in Page : pte'[u][p] =>
           pte[u][p] /\ u # t /\ pframe'[<<thread[u].vn, p>>] = pframe[<<thread[u].vn, p>>]
  PROVE  DataIInv'
<1>1. VnodeIInv
  BY DEF DataIInv
<1>2. vnode[v].vn_vno # NoIno
  BY <1>1, FromCount DEF VnodeIInv
<1>3. ASSUME NEW u \in Thread
      PROVE  /\ {thread[u].pc, thread'[u].pc} \cap {"fillpage", "refill", "dirtypage"} # {} =>
                  thread'[u] = thread[u] /\ u # t
             /\ thread[u].pc \in Dropping =>
                  \/ vnode'[thread[u].vn].busy
                  \/ thread'[u].pc \in Dropping /\ thread'[u].vn = thread[u].vn
  BY DEF OthersStay, Dropping
<1>4. \A i \in Ino : Alive(i)' => Alive(i)
  BY <1>1, <1>3, AliveStays DEF Linked
<1>5. ASSUME NEW i \in Ino, Alive(i)' PROVE i # vnode[v].vn_vno
  <2> SUFFICES ASSUME i = vnode[v].vn_vno PROVE FALSE
    OBVIOUS
  <2>1. PICK w \in VnodeT : /\ vnode'[w].vn_vno = i /\ ~vnode'[w].busy
                            /\ \A u \in Thread : thread'[u].vn = w => thread'[u].pc \notin Dropping
    BY <1>5 DEF Alive, Linked, InUse
  <2>2. w = v
    BY <1>1, <1>2, <2>1 DEF VnodeIInv, Unique
  <2>. QED BY <2>1, <2>2 DEF Dropping
<1>6. ASSUME NEW g \in Frame, g[1] # v PROVE Filled(g)' <=> Filled(g)
  <2>1. ASSUME NEW u \in Thread
        PROVE  thread'[u].pf = g /\ thread'[u].pc \in {"fillpage", "refill"}
               <=> thread[u].pf = g /\ thread[u].pc \in {"fillpage", "refill"}
    BY <1>3
  <2>. QED BY <1>6, <2>1 DEF Filled, Filling
<1>7. ASSUME NEW i \in Ino, Alive(i)', NEW w \in VnodeT, NEW p \in Page
      PROVE  /\ vnode'[w].vn_vno = i /\ Filled(<<w, p>>)' <=> vnode[w].vn_vno = i /\ Filled(<<w, p>>)
             /\ vnode[w].vn_vno = i => pframe'[<<w, p>>] = pframe[<<w, p>>]
  <2>1. <<w, p>> \in Frame
    BY DEF Frame
  <2>2. i # vnode[v].vn_vno
    BY <1>5, <1>7
  <2>3. vnode[w].vn_vno = i => w # v
    BY <2>2
  <2>. QED BY <1>6, <2>1, <2>3
<1>8. ASSUME NEW u \in Thread, NEW p \in Page, pte'[u][p]
      PROVE  pframe'[<<thread'[u].vn, p>>].state = "idle" /\ pframe'[<<thread'[u].vn, p>>].dirty
  <2>1. pte[u][p] /\ u # t /\ thread[u].pc \in Holding \ Dropping /\ thread[u].vn # NoVnode
    BY <1>1, <1>8 DEF VnodeIInv, WritersHold
  <2>2. thread'[u].vn = thread[u].vn
    BY <1>1, <2>1, MappedStays
  <2>. QED BY <1>8, <2>1, <2>2 DEF DataIInv, WritableIsDirty, Idle
<1>9. ASSUME NEW u \in Thread, NEW i \in Ino, NEW p \in Page,
             thread'[u].pc = "dirtypage" /\ thread'[u].want = "write",
             vnode'[thread'[u].vn].vn_vno = i /\ thread'[u].pf[2] = p
      PROVE  /\ thread[u].pc = "dirtypage" /\ thread[u].want = "write"
             /\ vnode[thread[u].vn].vn_vno = i /\ thread[u].pf[2] = p
  <2>1. thread'[u] = thread[u] /\ thread[u].pc \in OnPage
    BY <1>3, <1>9 DEF OnPage
  <2>2. thread[u].vn \in VnodeT
    BY <1>1, <2>1, PageOf
  <2>. QED BY <1>9, <2>1, <2>2
<1>. QED BY <1>4, <1>7, <1>8, <1>9, QuietStep

(* A step that stops the kernel changes nothing else.                       *)
LEMMA SameData ==
  ASSUME DataIInv, VnodeIInv', UNCHANGED <<thread, vnode, pframe, pte, names, disk, latest, revived>>
  PROVE  DataIInv'
<1>1. \A i \in Ino : Alive(i)' => Alive(i)
  BY AliveStays DEF DataIInv, Linked
<1>. QED BY <1>1, SamePages

LEMMA FreePagesData ==
  ASSUME DataIInv, VnodeIInv', NEW t \in Thread, NEW v \in VnodeT, thread[t].vn = v,
         thread[t].pc \in {"user", "opened", "vput"}, t \in Holders(v), NEW L, Drops(t, v, L),
         NEW pt \in [Thread -> [Page -> BOOLEAN]], FreePages(t, v, L, pt),
         \A u \in Thread, p \in Page : pt[u][p] => pte[u][p] /\ u # t,
         UNCHANGED <<names, disk, latest, revived>>
  PROVE  DataIInv'
<1>1. /\ thread \in [Thread -> ThreadRec] /\ vnode \in [VnodeT -> VnodeRec] /\ thread[t] \in ThreadRec
      /\ VnodeIInv
  BY Types DEF DataIInv, VnodeIInv
<1>2. vnode[v].vn_vno \in revived \/ ~Linked(vnode[v].vn_vno)
  BY DEF Drops
<1>3. ASSUME NEW S \in SUBSET L, Uncache(S), pte' = remove_from_pts(S, pt)
      PROVE  /\ \A g \in Frame : g[1] # v => pframe'[g] = pframe[g]
             /\ \A u \in Thread, p \in Page : pte'[u][p] =>
                  pte[u][p] /\ u # t /\ pframe'[<<thread[u].vn, p>>] = pframe[<<thread[u].vn, p>>]
  <2>1. \A g \in Frame : g \notin S => pframe'[g] = pframe[g]
    BY <1>3 DEF Uncache
  <2>2. \A g \in S : g[1] = v
    BY DEF Drops
  <2>3. ASSUME NEW u \in Thread, NEW p \in Page, pte'[u][p]
        PROVE  pte[u][p] /\ u # t /\ pframe'[<<thread[u].vn, p>>] = pframe[<<thread[u].vn, p>>]
    <3>1. pt[u][p] /\ <<thread[u].vn, p>> \notin S
      BY <1>3, <2>3, Unmapped
    <3>2. thread[u].vn \in VnodeT
      BY <1>1, <3>1 DEF VnodeIInv, WritersHold, ThreadRec
    <3>. QED BY <2>1, <3>1, <3>2 DEF Frame
  <2>. QED BY <2>1, <2>2, <2>3
<1>4. ASSUME NEW f, NEW S \in SUBSET L, Uncache(S), vnode' = Unref(v, Cardinality(S)),
             pte' = remove_from_pts(S, pt),
             thread' = [thread EXCEPT ![t] = [@ EXCEPT !.pc = "vput_waitq", !.pf = f, !.left = L \ S]]
      PROVE  DataIInv'
  <2> DEFINE l == L \ S
             r == [thread[t] EXCEPT !.pc = "vput_waitq", !.pf = f, !.left = l]
             n == vnode[v].vn_refcount - Cardinality(S)
  <2> HIDE DEF l
  <2>1. r.pc = "vput_waitq" /\ r.vn = v
    BY <1>1, ZenonT(30) DEF ThreadRec
  <2>2. thread' = [thread EXCEPT ![t] = r] /\ vnode' = [vnode EXCEPT ![v].vn_refcount = n]
    BY <1>4 DEF Unref, l
  <2> HIDE DEF r, n
  <2>3. OthersStay(t) /\ thread'[t].pc = "vput_waitq" /\ thread'[t].vn = v
    BY <1>1, <2>1, <2>2 DEF OthersStay
  <2>4. \A w \in VnodeT : vnode'[w].vn_vno = vnode[w].vn_vno /\ vnode'[w].busy = vnode[w].busy
    BY <1>1, <2>2 DEF VnodeRec
  <2>. QED BY <1>2, <1>3, <1>4, <2>3, <2>4, FreedData
<1>5. ASSUME Uncache(L), pte' = remove_from_pts(L, pt), TakeOut(t, v)
      PROVE  DataIInv'
  <2> DEFINE r == [thread[t] EXCEPT !.pc = "delete_vnode", !.pf = NoFrame, !.left = {}]
  <2>1. r.pc = "delete_vnode" /\ r.vn = v
    BY <1>1, ZenonT(30) DEF ThreadRec
  <2>2. thread' = [thread EXCEPT ![t] = r]
    BY <1>5 DEF TakeOut
  <2> HIDE DEF r
  <2>3. OthersStay(t) /\ thread'[t].pc = "delete_vnode" /\ thread'[t].vn = v
    BY <1>1, <2>1, <2>2 DEF OthersStay
  <2>4. /\ vnode'[v].busy
        /\ \A w \in VnodeT : /\ vnode'[w].vn_vno = vnode[w].vn_vno
                             /\ vnode'[w].busy = vnode[w].busy \/ vnode'[w].busy
    <3> DEFINE q == [vnode[v] EXCEPT !.busy = TRUE, !.vn_refcount = 0]
    <3>1. q.busy /\ q.vn_vno = vnode[v].vn_vno
      BY <1>1 DEF VnodeRec
    <3>2. vnode' = [vnode EXCEPT ![v] = q]
      BY <1>5 DEF TakeOut
    <3> HIDE DEF q
    <3>. QED BY <1>1, <3>1, <3>2
  <2>5. L \in SUBSET L
    OBVIOUS
  <2>. QED BY <1>2, <1>3, <1>5, <2>3, <2>4, <2>5, FreedData
<1>. QED BY <1>4, <1>5, SameData DEF FreePages

LEMMA VputData ==
  ASSUME DataIInv, VnodeIInv', NEW t \in Thread, vput(t)
  PROVE  DataIInv'
<1>1. /\ thread \in [Thread -> ThreadRec] /\ vnode \in [VnodeT -> VnodeRec] /\ VnodeIInv /\ VnodeTypeOK
      /\ thread[t].pc \in {"user", "opened"} /\ thread[t].vn # NoVnode /\ thread[t] \in ThreadRec
  BY Types DEF DataIInv, VnodeIInv, vput
<1>2. PICK v \in VnodeT : v = thread[t].vn
  BY <1>1 DEF ThreadRec
<1>3. t \in Holders(v) /\ vnode[v].vn_refcount > 0
  BY <1>1, <1>2, HeldVnode, FromCount DEF VnodeIInv, Holding
<1> DEFINE pt == [pte EXCEPT ![t] = [p \in Page |-> FALSE]]
<1>4. pt \in [Thread -> [Page -> BOOLEAN]] /\ \A u \in Thread, p \in Page : pt[u][p] => pte[u][p] /\ u # t
  BY <1>1 DEF VnodeTypeOK
<1>5. UNCHANGED <<names, disk, latest, revived>>
  BY DEF vput
<1>6. \/ /\ vn_nrespages(v) = vnode[v].vn_refcount - 1 /\ ~Linked(vnode[v].vn_vno)
         /\ FreePages(t, v, Respages(v), pt)
      \/ TakeOut(t, v) /\ pte' = pt /\ UNCHANGED pframe
      \/ /\ vnode' = Unref(v, 1) /\ pte' = pt /\ UNCHANGED pframe
         /\ thread' = [thread EXCEPT ![t] = VputReturns(@)]
  BY <1>2 DEF vput
<1> HIDE DEF pt
<1>7. CASE /\ vn_nrespages(v) = vnode[v].vn_refcount - 1 /\ ~Linked(vnode[v].vn_vno)
           /\ FreePages(t, v, Respages(v), pt)
  <2>1. Holders(v) = {t}
    BY <1>1, <1>3, <1>7, FromCount DEF VnodeIInv
  <2>2. \A u \in Thread : thread[u].pc \in Dropping /\ thread[u].vn = v => u \in Holders(v)
    BY DEF Dropping, Holders
  <2>3. Drops(t, v, Respages(v))
    BY <1>7, <2>1, <2>2 DEF Drops, Respages
  <2>. QED BY <1>1, <1>2, <1>3, <1>4, <1>5, <1>7, <2>3, FreePagesData
<1>8. ASSUME NEW r, thread' = [thread EXCEPT ![t] = r], r.pc \in {"user", "link", "delete_vnode"},
             pte' = pt, UNCHANGED pframe,
             \A w \in VnodeT : /\ vnode'[w].vn_vno = vnode[w].vn_vno
                               /\ vnode'[w].busy = vnode[w].busy \/ vnode'[w].busy
      PROVE  DataIInv'
  <2>1. OthersStay(t) /\ thread'[t].pc \in {"user", "link", "delete_vnode"}
    BY <1>1, <1>8 DEF OthersStay
  <2>2. \A u \in Thread, p \in Page : pte'[u][p] => pte[u][p] /\ thread'[u].vn = thread[u].vn
    BY <1>1, <1>4, <1>8, <2>1, MappedStays
  <2>. QED BY <1>1, <1>5, <1>8, <2>1, <2>2, PlainStep DEF Dropping
<1>9. CASE TakeOut(t, v) /\ pte' = pt /\ UNCHANGED pframe
  <2> DEFINE r == [thread[t] EXCEPT !.pc = "delete_vnode", !.pf = NoFrame, !.left = {}]
  <2>1. r.pc = "delete_vnode"
    BY <1>1, ZenonT(30) DEF ThreadRec
  <2>2. thread' = [thread EXCEPT ![t] = r]
    BY <1>9 DEF TakeOut
  <2> HIDE DEF r
  <2>3. \A w \in VnodeT : /\ vnode'[w].vn_vno = vnode[w].vn_vno
                          /\ vnode'[w].busy = vnode[w].busy \/ vnode'[w].busy
    BY <1>1, <1>9 DEF TakeOut, VnodeRec
  <2>. QED BY <1>8, <1>9, <2>1, <2>2, <2>3
<1>10. CASE /\ vnode' = Unref(v, 1) /\ pte' = pt /\ UNCHANGED pframe
            /\ thread' = [thread EXCEPT ![t] = VputReturns(@)]
  <2> DEFINE r == VputReturns(thread[t])
  <2>1. r.pc \in {"user", "link"}
    BY <1>1, VputReturnsTo
  <2>2. thread' = [thread EXCEPT ![t] = r]
    BY <1>10
  <2> HIDE DEF r
  <2>3. \A w \in VnodeT : vnode'[w].vn_vno = vnode[w].vn_vno /\ vnode'[w].busy = vnode[w].busy
    BY <1>1, <1>10 DEF Unref, VnodeRec
  <2>. QED BY <1>8, <1>10, <2>1, <2>2, <2>3
<1>. QED BY <1>6, <1>7, <1>9, <1>10

LEMMA VputAgainData ==
  ASSUME DataIInv, VnodeIInv', NEW t \in Thread, VputAgain(t)
  PROVE  DataIInv'
<1> DEFINE L == thread[t].left
<1>1. /\ thread[t].pc = "vput" /\ thread[t].pc \in Dropping /\ VnodeIInv /\ Shape(thread[t])
      /\ pte \in [Thread -> [Page -> BOOLEAN]]
  BY DEF DataIInv, VnodeIInv, VnodeTypeOK, VputAgain, ThreadShape, Dropping
<1>2. PICK v \in VnodeT : v = thread[t].vn
  BY <1>1, Types DEF VnodeIInv, ThreadRec, Shape
<1>3. t \in Holders(v) /\ Drops(t, v, L)
  BY <1>1, <1>2 DEF VnodeIInv, DroppersAlone, DropsAlone, Drops, Holders
<1>4. \A u \in Thread, p \in Page : pte[u][p] => u # t
  BY <1>1 DEF VnodeIInv, WritersHold
<1>5. FreePages(t, v, L, pte) /\ UNCHANGED <<names, disk, latest, revived>>
  BY <1>2 DEF VputAgain
<1> HIDE DEF L
<1>. QED BY <1>1, <1>2, <1>3, <1>4, <1>5, FreePagesData

LEMMA AbsentData ==
  ASSUME DataIInv, VnodeIInv', NEW t \in Thread, NEW f \in Frame, NEW want \in {"read", "write", "copy"},
         thread[t].pc \in {"user", "get"}, pframe[f].state = "absent", pframe_get(t, f, want)
  PROVE  DataIInv'
<1>1. /\ thread \in [Thread -> ThreadRec] /\ vnode \in [VnodeT -> VnodeRec] /\ thread[t] \in ThreadRec
      /\ pframe \in [Frame -> FrameRec] /\ VnodeIInv
  BY Types DEF DataIInv, VnodeIInv
<1>2. /\ pframe' = [pframe EXCEPT ![f] = [state |-> "busy", dirty |-> FALSE, data |-> Junk]]
      /\ vnode' = [vnode EXCEPT ![f[1]].vn_refcount = @ + 1]
      /\ thread' = [thread EXCEPT ![t] = [@ EXCEPT !.pc = "fillpage", !.pf = f, !.want = want]]
      /\ UNCHANGED <<pte, latest, names, disk, revived>>
  BY DEF pframe_get, Busy, Idle
<1> DEFINE r == [thread[t] EXCEPT !.pc = "fillpage", !.pf = f, !.want = want]
<1>3. r.pc = "fillpage" /\ r.pf = f /\ r.vn = thread[t].vn
  BY <1>1, ZenonT(30) DEF ThreadRec
<1>4. thread' = [thread EXCEPT ![t] = r]
  BY <1>2
<1> HIDE DEF r
<1>5. /\ OthersStay(t) /\ thread'[t].pc = "fillpage" /\ thread'[t].pf = f /\ thread'[t].vn = thread[t].vn
      /\ \A u \in Thread : u # t => thread'[u] = thread[u]
  BY <1>1, <1>3, <1>4 DEF OthersStay
<1>6. \A w \in VnodeT : vnode'[w].vn_vno = vnode[w].vn_vno /\ vnode'[w].busy = vnode[w].busy
  BY <1>1, <1>2 DEF VnodeRec
<1>7. \A g \in Frame : g # f => pframe'[g] = pframe[g]
  BY <1>1, <1>2
<1>8. \A i \in Ino : Alive(i)' => Alive(i)
  BY <1>1, <1>2, <1>5, <1>6, DropsOn DEF Dropping
<1>9. ASSUME NEW g \in Frame PROVE Filled(g)' <=> Filled(g)
  <2>1. CASE g = f
    BY <1>5, <2>1 DEF Filled, Filling
  <2>2. CASE g # f
    <3>1. ASSUME NEW u \in Thread
          PROVE  thread'[u].pf = g /\ thread'[u].pc \in {"fillpage", "refill"}
                 <=> thread[u].pf = g /\ thread[u].pc \in {"fillpage", "refill"}
      BY <1>5, <2>2
    <3>. QED BY <1>7, <2>2, <3>1 DEF Filled, Filling
  <2>. QED BY <2>1, <2>2
<1>10. ASSUME NEW w \in VnodeT, NEW p \in Page, Filled(<<w, p>>)
       PROVE  pframe'[<<w, p>>] = pframe[<<w, p>>]
  BY <1>7, <1>10 DEF Filled, Frame
<1>11. ASSUME NEW u \in Thread, NEW p \in Page, pte'[u][p]
       PROVE  pframe'[<<thread'[u].vn, p>>].state = "idle" /\ pframe'[<<thread'[u].vn, p>>].dirty
  <2>1. pte[u][p] /\ thread'[u].vn = thread[u].vn /\ thread[u].vn \in VnodeT
    BY <1>1, <1>2, <1>5, <1>11 DEF VnodeIInv, WritersHold, ThreadRec
  <2>2. /\ <<thread[u].vn, p>> \in Frame /\ pframe[<<thread[u].vn, p>>].state = "idle"
        /\ pframe[<<thread[u].vn, p>>].dirty
    BY <2>1 DEF DataIInv, WritableIsDirty, Idle, Frame
  <2>3. <<thread[u].vn, p>> # f
    BY <2>2
  <2>. QED BY <1>7, <2>1, <2>2, <2>3
<1>12. ASSUME NEW u \in Thread, NEW i \in Ino, NEW p \in Page,
              thread'[u].pc = "dirtypage" /\ thread'[u].want = "write",
              vnode'[thread'[u].vn].vn_vno = i /\ thread'[u].pf[2] = p
       PROVE  /\ thread[u].pc = "dirtypage" /\ thread[u].want = "write"
              /\ vnode[thread[u].vn].vn_vno = i /\ thread[u].pf[2] = p
  <2>1. thread'[u] = thread[u] /\ thread[u].pc \in OnPage
    BY <1>5, <1>12 DEF OnPage
  <2>2. thread[u].vn \in VnodeT
    BY <1>1, <2>1, PageOf
  <2>. QED BY <1>6, <1>12, <2>1, <2>2
<1>13. \A i \in Ino, v \in VnodeT, p \in Page :
         vnode'[v].vn_vno = i /\ Filled(<<v, p>>)' <=> vnode[v].vn_vno = i /\ Filled(<<v, p>>)
  BY <1>6, <1>9 DEF Frame
<1>. QED BY <1>2, <1>8, <1>10, <1>11, <1>12, <1>13, QuietStep

LEMMA DirtyData ==
  ASSUME DataIInv, VnodeIInv', NEW t \in Thread, PageIsDirty(t), DirtyOutcomes = {TRUE}
  PROVE  DataIInv'
<1>1. /\ thread \in [Thread -> ThreadRec] /\ thread[t] \in ThreadRec
      /\ pframe \in [Frame -> FrameRec] /\ VnodeIInv /\ VnodeTypeOK
      /\ thread[t].pc = "dirtypage" /\ thread[t].pc \in OnPage /\ thread[t].pc \in AtWork
  BY Types DEF DataIInv, VnodeIInv, PageIsDirty, OnPage, AtWork
<1>2. PICK f \in Frame : f = thread[t].pf /\ f[1] = thread[t].vn /\ pframe[f].state = "busy"
  BY <1>1, PageOf
<1>3. PICK v \in VnodeT, p \in Page : f = <<v, p>> /\ v = f[1] /\ p = f[2]
  BY DEF Frame
<1>4. /\ pframe' = [pframe EXCEPT ![f] = [@ EXCEPT !.state = "idle", !.dirty = TRUE]]
      /\ pte' = IF thread[t].want = "write" THEN [pte EXCEPT ![t][f[2]] = TRUE] ELSE pte
      /\ thread' = Finished(t, pf_broadcast(f, thread))
      /\ UNCHANGED <<vnode, latest, names, disk, revived>>
  BY <1>2 DEF PageIsDirty
<1>5. /\ \A g \in Frame : g # f => pframe'[g] = pframe[g]
      /\ pframe'[f].state = "idle" /\ pframe'[f].dirty /\ pframe'[f].data = pframe[f].data
  <2> DEFINE q == [pframe[f] EXCEPT !.state = "idle", !.dirty = TRUE]
  <2>1. q.state = "idle" /\ q.dirty /\ q.data = pframe[f].data
    <3>1. pframe[f] \in FrameRec
      BY <1>1
    <3>. QED BY <3>1 DEF FrameRec
  <2>2. pframe' = [pframe EXCEPT ![f] = q]
    BY <1>4
  <2> HIDE DEF q
  <2>. QED BY <1>1, <2>1, <2>2
<1> DEFINE th == pf_broadcast(f, thread)
<1>6. th \in [Thread -> ThreadRec] /\ th[t].vn = thread[t].vn
  BY <1>1, Broadcast
<1>7. /\ thread'[t].pc = "user" /\ thread'[t].vn = thread[t].vn
      /\ \A u \in Thread : u # t => thread'[u] = th[u]
  BY <1>4, <1>6, FinishedThread
<1>8. \A u \in Thread :
        /\ th[u].pc \in Dropping <=> thread[u].pc \in Dropping
        /\ th[u].pc \in {"fillpage", "refill", "dirtypage", "user"} => th[u] = thread[u]
        /\ thread[u].pc \in {"fillpage", "refill", "dirtypage"} => th[u] = thread[u]
        /\ th[u].vn = thread[u].vn /\ th[u].pf = thread[u].pf
  BY <1>1, WokenDrop
<1> HIDE DEF th
<1>9. ASSUME NEW u \in Thread
      PROVE  /\ thread'[u].pc \in {"fillpage", "refill", "dirtypage"} => thread'[u] = thread[u]
             /\ thread[u].pc \in {"fillpage", "refill"} => thread'[u] = thread[u]
             /\ thread'[u].vn = thread[u].vn
             /\ thread[u].pc \in Dropping => thread'[u].pc \in Dropping
  BY <1>1, <1>7, <1>8 DEF Dropping
<1>10. \A i \in Ino : Alive(i)' => Alive(i)
  BY <1>1, <1>4, <1>9, AliveStays DEF Linked
<1>11. ASSUME NEW g \in Frame PROVE Filled(g)' <=> Filled(g)
  <2>1. ASSUME NEW u \in Thread
        PROVE  thread'[u].pf = g /\ thread'[u].pc \in {"fillpage", "refill"}
               <=> thread[u].pf = g /\ thread[u].pc \in {"fillpage", "refill"}
    BY <1>9
  <2>2. pframe'[g].state # "absent" <=> pframe[g].state # "absent"
    BY <1>2, <1>5
  <2>. QED BY <2>1, <2>2 DEF Filled, Filling
<1>12. ASSUME NEW u \in Thread, NEW q \in Page, pte'[u][q]
       PROVE  pframe'[<<thread'[u].vn, q>>].state = "idle" /\ pframe'[<<thread'[u].vn, q>>].dirty
  <2>1. pte[u][q] \/ (u = t /\ q = p)
    BY <1>1, <1>3, <1>4, <1>12 DEF VnodeTypeOK
  <2>2. CASE pte[u][q]
    <3>1. thread[u].vn \in VnodeT
      BY <1>1, <2>2 DEF VnodeIInv, WritersHold, ThreadRec
    <3>2. /\ <<thread[u].vn, q>> \in Frame /\ pframe[<<thread[u].vn, q>>].state = "idle"
          /\ pframe[<<thread[u].vn, q>>].dirty
      BY <2>2, <3>1 DEF DataIInv, WritableIsDirty, Idle, Frame
    <3>. QED BY <1>5, <1>9, <3>2
  <2>3. CASE u = t /\ q = p
    BY <1>2, <1>3, <1>5, <1>9, <2>3
  <2>. QED BY <2>1, <2>2, <2>3
<1>13. ASSUME NEW u \in Thread, NEW i \in Ino, NEW q \in Page,
              thread'[u].pc = "dirtypage" /\ thread'[u].want = "write",
              vnode'[thread'[u].vn].vn_vno = i /\ thread'[u].pf[2] = q
       PROVE  /\ thread[u].pc = "dirtypage" /\ thread[u].want = "write"
              /\ vnode[thread[u].vn].vn_vno = i /\ thread[u].pf[2] = q
  BY <1>4, <1>9, <1>13
<1>14. \A i \in Ino, w \in VnodeT, q \in Page :
         /\ vnode'[w].vn_vno = i /\ Filled(<<w, q>>)' <=> vnode[w].vn_vno = i /\ Filled(<<w, q>>)
         /\ pframe'[<<w, q>>].data = pframe[<<w, q>>].data
         /\ pframe[<<w, q>>].dirty \/ pframe[<<w, q>>].state = "busy" =>
              pframe'[<<w, q>>].dirty \/ pframe'[<<w, q>>].state = "busy"
  <2>1. ASSUME NEW g \in Frame
        PROVE  /\ pframe'[g].data = pframe[g].data
               /\ pframe[g].dirty \/ pframe[g].state = "busy" => pframe'[g].dirty \/ pframe'[g].state = "busy"
    BY <1>5
  <2>2. \A w \in VnodeT, q \in Page : <<w, q>> \in Frame
    BY DEF Frame
  <2>. QED BY <1>4, <1>11, <2>1, <2>2
<1>. QED BY <1>4, <1>10, <1>12, <1>13, <1>14, QuietStep

(* pframe_clean_all that cleans a page                                      *)
LEMMA CleansData ==
  ASSUME DataIInv, VnodeIInv', NEW t \in Thread, NEW f \in Frame, thread[t].pc = "sync", Idle(f), pframe[f].dirty,
         pframe_clean(t, f), UNCHANGED <<vnode, names, disk, latest, panic, revived>>
  PROVE  DataIInv'
<1>1. /\ thread \in [Thread -> ThreadRec] /\ thread[t] \in ThreadRec
      /\ pframe \in [Frame -> FrameRec] /\ VnodeIInv /\ VnodeTypeOK
  BY Types DEF DataIInv, VnodeIInv
<1>2. PICK v \in VnodeT, p \in Page : f = <<v, p>> /\ v = f[1] /\ p = f[2]
  BY DEF Frame
<1>3. /\ \A g \in Frame : g # f => pframe'[g] = pframe[g]
      /\ pframe'[f].state = "busy" /\ pframe'[f].data = pframe[f].data
  <2> DEFINE q == [pframe[f] EXCEPT !.state = "busy", !.dirty = FALSE]
  <2>1. q.state = "busy" /\ q.data = pframe[f].data
    <3>1. pframe[f] \in FrameRec
      BY <1>1
    <3>. QED BY <3>1 DEF FrameRec
  <2>2. pframe' = [pframe EXCEPT ![f] = q]
    BY DEF pframe_clean
  <2> HIDE DEF q
  <2>. QED BY <1>1, <2>1, <2>2
<1>4. /\ OthersStay(t) /\ thread'[t].pc = "cleanpage" /\ thread'[t].vn = thread[t].vn
      /\ \A u \in Thread : u # t => thread'[u] = thread[u]
  <2> DEFINE r == [thread[t] EXCEPT !.pc = "cleanpage", !.pf = f]
  <2>1. r.pc = "cleanpage" /\ r.vn = thread[t].vn
    BY <1>1, ZenonT(30) DEF ThreadRec
  <2>2. thread' = [thread EXCEPT ![t] = r]
    BY DEF pframe_clean
  <2> HIDE DEF r
  <2>. QED BY <1>1, <2>1, <2>2 DEF OthersStay
<1>5. \A i \in Ino : Alive(i)' => Alive(i)
  BY <1>1, <1>4, DropsOn DEF Dropping
<1>6. ASSUME NEW g \in Frame PROVE Filled(g)' <=> Filled(g)
  <2>1. ASSUME NEW u \in Thread
        PROVE  thread'[u].pf = g /\ thread'[u].pc \in {"fillpage", "refill"}
               <=> thread[u].pf = g /\ thread[u].pc \in {"fillpage", "refill"}
    BY <1>4
  <2>2. pframe'[g].state # "absent" <=> pframe[g].state # "absent"
    BY <1>3 DEF Idle
  <2>. QED BY <2>1, <2>2 DEF Filled, Filling
<1>7. ASSUME NEW u \in Thread, NEW q \in Page, pte'[u][q]
      PROVE  pframe'[<<thread'[u].vn, q>>].state = "idle" /\ pframe'[<<thread'[u].vn, q>>].dirty
  <2>1. pte' = remove_from_pts({f}, pte) /\ pte \in [Thread -> [Page -> BOOLEAN]]
    BY <1>1 DEF pframe_clean, VnodeTypeOK
  <2>2. pte[u][q] /\ <<thread[u].vn, q>> # f
    <3>1. \A x \in Thread, y \in Page : remove_from_pts({f}, pte)[x][y] <=> pte[x][y] /\ <<thread[x].vn, y>> \notin {f}
      BY <2>1, Unmapped
    <3>2. remove_from_pts({f}, pte)[u][q]
      BY <1>7, <2>1
    <3>. QED BY <3>1, <3>2
  <2>3. thread[u].vn \in VnodeT /\ thread'[u].vn = thread[u].vn
    BY <1>1, <1>4, <2>2 DEF VnodeIInv, WritersHold, ThreadRec
  <2>4. /\ <<thread[u].vn, q>> \in Frame /\ pframe[<<thread[u].vn, q>>].state = "idle"
        /\ pframe[<<thread[u].vn, q>>].dirty /\ <<thread[u].vn, q>> # f
    BY <1>2, <2>2, <2>3 DEF DataIInv, WritableIsDirty, Idle, Frame
  <2>. QED BY <1>3, <2>3, <2>4
<1>8. ASSUME NEW u \in Thread, NEW i \in Ino, NEW q \in Page,
             thread'[u].pc = "dirtypage" /\ thread'[u].want = "write",
             vnode'[thread'[u].vn].vn_vno = i /\ thread'[u].pf[2] = q
      PROVE  /\ thread[u].pc = "dirtypage" /\ thread[u].want = "write"
             /\ vnode[thread[u].vn].vn_vno = i /\ thread[u].pf[2] = q
  BY <1>4, <1>8
<1>9. \A i \in Ino, w \in VnodeT, q \in Page :
        /\ vnode'[w].vn_vno = i /\ Filled(<<w, q>>)' <=> vnode[w].vn_vno = i /\ Filled(<<w, q>>)
        /\ pframe'[<<w, q>>].data = pframe[<<w, q>>].data
        /\ pframe[<<w, q>>].dirty \/ pframe[<<w, q>>].state = "busy" =>
             pframe'[<<w, q>>].dirty \/ pframe'[<<w, q>>].state = "busy"
  <2>1. ASSUME NEW g \in Frame
        PROVE  /\ pframe'[g].data = pframe[g].data
               /\ pframe[g].dirty \/ pframe[g].state = "busy" => pframe'[g].dirty \/ pframe'[g].state = "busy"
    BY <1>3
  <2>2. \A w \in VnodeT, q \in Page : <<w, q>> \in Frame
    BY DEF Frame
  <2>. QED BY <1>6, <2>1, <2>2
<1>. QED BY <1>5, <1>7, <1>8, <1>9, QuietStep

(* cleanpage writes the page, or what is not written stays dirty.           *)
LEMMA CleanData ==
  ASSUME DataIInv, VnodeIInv', NEW t \in Thread, PageIsClean(t)
  PROVE  DataIInv'
<1>1. /\ thread \in [Thread -> ThreadRec] /\ thread[t] \in ThreadRec
      /\ pframe \in [Frame -> FrameRec] /\ VnodeIInv /\ VnodeTypeOK
      /\ thread[t].pc = "cleanpage" /\ thread[t].pc \in AtWork
  BY Types DEF DataIInv, VnodeIInv, PageIsClean, AtWork
<1>2. PICK f \in Frame : f = thread[t].pf /\ pframe[f].state = "busy"
  BY <1>1, PageOf
<1>3. PICK v \in VnodeT, p \in Page : f = <<v, p>> /\ v = f[1] /\ p = f[2]
  BY DEF Frame
<1>4. PICK i0 \in Ino : i0 = vnode[v].vn_vno
  BY <1>1, <1>2, <1>3, ResidentVnode
<1>5. PICK ok \in CleanOutcomes :
        /\ pframe' = [pframe EXCEPT ![f] = [@ EXCEPT !.state = "idle", !.dirty = ~ok]]
        /\ disk' = [disk EXCEPT ![i0][p] = pframe[f].data] \/ (~ok /\ disk' = disk)
  BY <1>2, <1>3, <1>4 DEF PageIsClean
<1>6. /\ thread' = Goto(t, pf_broadcast(f, thread), "sync")
      /\ UNCHANGED <<vnode, pte, latest, names, revived>>
  BY <1>2 DEF PageIsClean
<1>7. /\ \A g \in Frame : g # f => pframe'[g] = pframe[g]
      /\ pframe'[f].state = "idle" /\ pframe'[f].dirty = ~ok /\ pframe'[f].data = pframe[f].data
  <2> DEFINE q == [pframe[f] EXCEPT !.state = "idle", !.dirty = ~ok]
  <2>1. q.state = "idle" /\ q.dirty = ~ok /\ q.data = pframe[f].data
    <3>1. pframe[f] \in FrameRec
      BY <1>1
    <3>. QED BY <3>1 DEF FrameRec
  <2>2. pframe' = [pframe EXCEPT ![f] = q]
    BY <1>5
  <2> HIDE DEF q
  <2>. QED BY <1>1, <2>1, <2>2
<1>8. /\ \A i \in Ino, q \in Page : i # i0 \/ q # p => disk'[i][q] = disk[i][q]
      /\ disk'[i0][p] = pframe[f].data \/ (~ok /\ disk'[i0][p] = disk[i0][p])
  <2> DEFINE d == pframe[f].data
  <2>1. disk' = [disk EXCEPT ![i0][p] = d] \/ (~ok /\ disk' = disk)
    BY <1>5
  <2> HIDE DEF d
  <2>2. disk \in [Ino -> [Page -> 0..MaxWrite \cup {Junk}]]
    BY <1>1 DEF VnodeTypeOK
  <2>3. /\ \A i \in Ino, q \in Page : i # i0 \/ q # p => disk'[i][q] = disk[i][q]
        /\ disk'[i0][p] = d \/ (~ok /\ disk'[i0][p] = disk[i0][p])
    BY <2>1, <2>2
  <2>. QED BY <2>3 DEF d
<1> DEFINE th == pf_broadcast(f, thread)
<1>9. th \in [Thread -> ThreadRec]
  BY <1>1, Broadcast
<1>10. \A u \in Thread :
         /\ th[u].pc \in Dropping <=> thread[u].pc \in Dropping
         /\ th[u].pc \in {"fillpage", "refill", "dirtypage", "user"} => th[u] = thread[u]
         /\ thread[u].pc \in {"fillpage", "refill", "dirtypage"} => th[u] = thread[u]
         /\ th[u].vn = thread[u].vn /\ th[u].pf = thread[u].pf
  BY <1>1, WokenDrop
<1>11. /\ thread'[t].pc = "sync" /\ thread'[t].vn = thread[t].vn
       /\ \A u \in Thread : u # t => thread'[u] = th[u]
  <2>1. thread' = [th EXCEPT ![t].pc = "sync"]
    BY <1>6 DEF Goto
  <2>2. th[t].vn = thread[t].vn
    BY <1>10
  <2> HIDE DEF th
  <2>. QED BY <1>9, <2>1, <2>2 DEF ThreadRec
<1> HIDE DEF th
<1>12. ASSUME NEW u \in Thread
       PROVE  /\ thread'[u].pc \in {"fillpage", "refill", "dirtypage"} => thread'[u] = thread[u]
              /\ thread[u].pc \in {"fillpage", "refill"} => thread'[u] = thread[u]
              /\ thread'[u].vn = thread[u].vn
              /\ thread[u].pc \in Dropping => thread'[u].pc \in Dropping
  BY <1>1, <1>10, <1>11 DEF Dropping
<1>13. \A i \in Ino : Alive(i)' => Alive(i)
  BY <1>1, <1>6, <1>12, AliveStays DEF Linked
<1>14. ASSUME NEW g \in Frame PROVE Filled(g)' <=> Filled(g)
  <2>1. ASSUME NEW u \in Thread
        PROVE  thread'[u].pf = g /\ thread'[u].pc \in {"fillpage", "refill"}
               <=> thread[u].pf = g /\ thread[u].pc \in {"fillpage", "refill"}
    BY <1>12
  <2>2. pframe'[g].state # "absent" <=> pframe[g].state # "absent"
    BY <1>2, <1>7
  <2>. QED BY <2>1, <2>2 DEF Filled, Filling
<1>15. \A u \in Thread : thread[u].pf = f /\ thread[u].pc \in AtWork => u = t
  BY <1>1, <1>2 DEF VnodeIInv, WorkersAlone
<1>16. Filled(f)
  <2>1. ~Filling(f)
    BY <1>1, <1>15 DEF Filling, AtWork
  <2>. QED BY <1>2, <2>1 DEF Filled
<1>17. WritableIsDirty'
  <2>1. ASSUME NEW u \in Thread, NEW q \in Page, pte[u][q]
        PROVE  pframe'[<<thread'[u].vn, q>>].state = "idle" /\ pframe'[<<thread'[u].vn, q>>].dirty
    <3>1. thread[u].vn \in VnodeT
      BY <1>1, <2>1 DEF VnodeIInv, WritersHold, ThreadRec
    <3>2. /\ <<thread[u].vn, q>> \in Frame /\ pframe[<<thread[u].vn, q>>].state = "idle"
          /\ pframe[<<thread[u].vn, q>>].dirty
      BY <2>1, <3>1 DEF DataIInv, WritableIsDirty, Idle, Frame
    <3>3. <<thread[u].vn, q>> # f
      BY <1>2, <3>2
    <3>. QED BY <1>7, <1>12, <3>2, <3>3
  <2>. QED BY <1>6, <2>1 DEF WritableIsDirty, Idle
<1>18. ASSUME NEW i \in Ino, NEW q \in Page, Alive(i)'
       PROVE  Kept(i, q)'
  <2>1. Kept(i, q)
    BY <1>13, <1>18 DEF DataIInv, DataKept
  <2>2. InUse(i)' = InUse(i)
    BY <1>6 DEF InUse
  <2>3. CASE i = i0 /\ q = p
    <3>1. InUse(i) = {v}
      BY <1>1, <1>4, <2>3 DEF InUse, VnodeIInv, Unique
    <3>2. pframe[f].data = latest[i][p]
      BY <1>3, <1>16, <2>1, <2>3, <3>1 DEF Kept
    <3>3. /\ Filled(<<v, p>>)' /\ pframe'[<<v, p>>].data = latest'[i][p]
          /\ disk'[i][p] = latest'[i][p] \/ pframe'[<<v, p>>].dirty
      BY <1>3, <1>6, <1>7, <1>8, <1>14, <1>16, <2>3, <3>2
    <3>. QED BY <2>2, <2>3, <3>1, <3>3 DEF Kept
  <2>4. CASE i # i0 \/ q # p
    <3>1. disk'[i][q] = disk[i][q] /\ latest'[i][q] = latest[i][q]
      BY <1>6, <1>8, <2>4
    <3>2. ASSUME NEW w \in InUse(i)
          PROVE  (Filled(<<w, q>>)' <=> Filled(<<w, q>>)) /\ pframe'[<<w, q>>] = pframe[<<w, q>>]
      <4>1. <<w, q>> \in Frame /\ <<w, q>> # f
        BY <1>3, <1>4, <2>4 DEF InUse, Frame
      <4>. QED BY <1>7, <1>14, <4>1
    <3>. QED BY <2>1, <2>2, <3>1, <3>2 DEF Kept, Busy
  <2>. QED BY <2>3, <2>4
<1>19. PinnedIsClean'
  <2>1. ASSUME NEW u \in Thread, NEW i \in Ino, NEW q \in Page,
               thread'[u].pc = "dirtypage" /\ thread'[u].want = "write",
               vnode'[thread'[u].vn].vn_vno = i /\ thread'[u].pf[2] = q, Alive(i)'
        PROVE  disk'[i][q] = latest'[i][q]
    <3>1. thread'[u] = thread[u] /\ thread[u].pc \in AtWork /\ thread[u].pc \in OnPage /\ u # t
      BY <1>1, <1>12, <2>1 DEF AtWork, OnPage
    <3>2. disk[i][q] = latest[i][q]
      BY <1>6, <1>13, <2>1, <3>1 DEF DataIInv, PinnedIsClean
    <3>3. thread[u].vn \in VnodeT /\ thread[u].pf = <<thread[u].vn, q>>
      BY <1>1, <2>1, <3>1, PageOf DEF Frame
    <3>4. i # i0 \/ q # p
      BY <1>1, <1>3, <1>4, <1>6, <1>15, <2>1, <3>1, <3>3 DEF VnodeIInv, Unique
    <3>. QED BY <1>6, <1>8, <3>2, <3>4
  <2>. QED BY <2>1 DEF PinnedIsClean
<1>. QED BY <1>17, <1>18, <1>19 DEF DataIInv, DataKept

(* The page has arrived from the disk.                                      *)
LEMMA FillData ==
  ASSUME DataIInv, VnodeIInv', NEW t \in Thread, PageIsFilled(t), FillOutcomes = {TRUE}
  PROVE  DataIInv'
<1>1. /\ thread \in [Thread -> ThreadRec] /\ thread[t] \in ThreadRec
      /\ pframe \in [Frame -> FrameRec] /\ VnodeIInv /\ VnodeTypeOK
      /\ thread[t].pc = "fillpage" /\ thread[t].pc \in AtWork /\ thread[t].pc \in OnPage
  BY Types DEF DataIInv, VnodeIInv, PageIsFilled, AtWork, OnPage
<1>2. PICK f \in Frame : f = thread[t].pf /\ f[1] = thread[t].vn /\ pframe[f].state = "busy"
  BY <1>1, PageOf
<1>3. PICK v \in VnodeT, p \in Page : f = <<v, p>> /\ v = f[1] /\ p = f[2]
  BY DEF Frame
<1>4. PICK i0 \in Ino : i0 = vnode[v].vn_vno
  BY <1>1, <1>2, <1>3, ResidentVnode
<1> DEFINE d == disk[i0][p]
           q == [pframe[f] EXCEPT !.state = "idle", !.data = d]
           pg == [pframe EXCEPT ![f] = q]
           th == pf_broadcast(f, thread)
<1>5. HavePage(t, f, thread[t].want, pg, th) /\ UNCHANGED <<vnode, names, disk, revived>>
  BY <1>1, <1>2, <1>3, <1>4 DEF PageIsFilled, Data
<1>6. d \in 0..MaxWrite \cup {Junk}
  BY <1>1 DEF VnodeTypeOK
<1> HIDE DEF d
<1>7. q \in FrameRec /\ q.state = "idle" /\ q.data = d
  <2>1. pframe[f] \in FrameRec
    BY <1>1
  <2>. QED BY <1>6, <2>1 DEF FrameRec
<1> HIDE DEF q
<1>8. /\ pg \in [Frame -> FrameRec] /\ pg[f].state = "idle" /\ pg[f].data = d
      /\ \A g \in Frame \ {f} : pg[g] = pframe[g]
  BY <1>1, <1>7
<1>9. ASSUME NEW i \in Ino, vnode[f[1]].vn_vno = i, Alive(i)
      PROVE  pg[f].data = latest[i][f[2]] /\ disk[i][f[2]] = latest[i][f[2]]
  <2>1. i = i0 /\ InUse(i) = {v}
    BY <1>1, <1>3, <1>4, <1>9 DEF InUse, VnodeIInv, Unique
  <2>2. ~Filled(<<v, p>>)
    BY <1>1, <1>2, <1>3 DEF Filled, Filling
  <2>3. disk[i][p] = latest[i][p]
    BY <1>9, <2>1, <2>2 DEF DataIInv, DataKept, Kept
  <2>. QED BY <1>3, <1>8, <2>1, <2>3 DEF d
<1>10. th \in [Thread -> ThreadRec] /\ th[t] = thread[t]
  BY <1>1, Broadcast, WokenDrop
<1>11. thread[t].want \in {"read", "write", "copy"}
  BY <1>1 DEF ThreadRec, VnodeIInv, ThreadShape, Shape
<1> HIDE DEF pg, th
<1>12. th = pf_broadcast(f, thread)
  BY DEF th
<1>. QED BY <1>1, <1>2, <1>5, <1>8, <1>9, <1>10, <1>11, <1>12, HaveDataStep

(* The page is there already.                                               *)
LEMMA ResidentKept ==
  ASSUME DataIInv, NEW f \in Frame, pframe[f].state = "idle", NEW i \in Ino, vnode[f[1]].vn_vno = i, Alive(i)
  PROVE  /\ pframe[f].data = latest[i][f[2]]
         /\ disk[i][f[2]] = latest[i][f[2]] \/ pframe[f].dirty
<1>1. PICK v \in VnodeT, p \in Page : f = <<v, p>> /\ v = f[1] /\ p = f[2]
  BY DEF Frame
<1>2. Filled(<<v, p>>) /\ v \in InUse(i) /\ Kept(i, p)
  BY <1>1, FillingIsBusy DEF InUse, DataIInv, DataKept
<1>. QED BY <1>1, <1>2 DEF Kept, Busy

LEMMA IdleData ==
  ASSUME DataIInv, VnodeIInv', NEW t \in Thread, NEW f \in Frame, NEW want \in {"read", "write", "copy"},
         thread[t].pc \in {"user", "get"}, thread[t].vn = f[1], pframe[f].state = "idle", pframe_get(t, f, want)
  PROVE  DataIInv'
<1>1. thread \in [Thread -> ThreadRec] /\ pframe \in [Frame -> FrameRec]
  BY Types DEF DataIInv, VnodeIInv
<1>2. HavePage(t, f, want, pframe, thread) /\ UNCHANGED <<vnode, names, disk, revived>>
  BY DEF pframe_get, Busy
<1>. QED BY <1>1, <1>2, ResidentKept, HaveDataStep

LEMMA UserWriteData ==
  ASSUME DataIInv, VnodeIInv', NEW t \in Thread, NEW p \in Page, UserWrite(t, p)
  PROVE  DataIInv'
<1>1. /\ thread \in [Thread -> ThreadRec] /\ pframe \in [Frame -> FrameRec] /\ VnodeIInv
      /\ thread[t].pc = "user" /\ pte[t][p]
  BY Types DEF DataIInv, VnodeIInv, UserWrite
<1>2. thread[t].vn \in VnodeT
  BY <1>1 DEF VnodeIInv, WritersHold, ThreadRec
<1>3. PICK f \in Frame : f = <<thread[t].vn, p>> /\ f[1] = thread[t].vn /\ f[2] = p
  <2>1. <<thread[t].vn, p>> \in Frame
    BY <1>2 DEF Frame
  <2>. QED BY <2>1
<1>4. pframe[f].state = "idle" /\ pframe[f].dirty
  BY <1>1, <1>3 DEF DataIInv, WritableIsDirty, Idle
<1>5. /\ pframe' = Copied(f, pframe) /\ latest' = Wrote(f)
      /\ UNCHANGED <<thread, vnode, pte, names, disk, revived>>
  BY <1>3 DEF UserWrite
<1>6. /\ \A g \in Frame \ {f} : pframe'[g] = pframe[g]
      /\ pframe'[f].state = "idle" /\ pframe'[f].dirty
      /\ pframe[f].data # Junk => pframe'[f].data = NextWrite(f)
  <2> DEFINE d == IF pframe[f].data = Junk THEN Junk ELSE NextWrite(f)
  <2>1. pframe' = [pframe EXCEPT ![f].data = d]
    BY <1>5 DEF Copied
  <2>2. pframe[f].data # Junk => d = NextWrite(f)
    OBVIOUS
  <2> HIDE DEF d
  <2>3. /\ \A g \in Frame \ {f} : pframe'[g] = pframe[g]
        /\ pframe'[f].state = "idle" /\ pframe'[f].dirty /\ pframe'[f].data = d
    BY <1>1, <1>4, <2>1 DEF FrameRec
  <2>. QED BY <2>2, <2>3
<1>7. \A i \in Ino : vnode[f[1]].vn_vno = i /\ Alive(i) =>
        /\ pframe[f].data = latest[i][f[2]]
        /\ disk[i][f[2]] = latest[i][f[2]] \/ pframe[f].dirty
  BY <1>4, ResidentKept
<1>8. /\ pframe'[f].dirty = pframe[f].dirty
      /\ thread'[t].pc = "user" /\ thread'[t].vn = thread[t].vn
      /\ \A u \in Thread \ {t} : thread'[u] = thread[u]
      /\ \A u \in Thread, q \in Page : pte'[u][q] => pte[u][q] \/ (u = t /\ q = f[2] /\ pframe[f].dirty)
  BY <1>1, <1>4, <1>5, <1>6 DEF FrameRec
<1>. QED BY <1>1, <1>3, <1>4, <1>5, <1>6, <1>7, <1>8, WriteStep
-----------------------------------------------------------------------------
LEMMA DataInitOK == VnodeInit => DataIInv
<1> SUFFICES ASSUME VnodeInit PROVE DataIInv
  OBVIOUS
<1>1. VnodeIInv
  BY VnodeInitOK
<1>2. \A t \in Thread : thread[t].pc = "user" /\ \A p \in Page : ~pte[t][p]
  BY DEF VnodeInit
<1>3. \A f \in Frame : ~Filled(f)
  BY DEF VnodeInit, NoPage, Filled
<1>4. disk = latest
  BY DEF VnodeInit
<1>5. WritableIsDirty /\ PinnedIsClean
  BY <1>2 DEF WritableIsDirty, PinnedIsClean
<1>6. ASSUME NEW i \in Ino, NEW p \in Page PROVE Kept(i, p)
  <2>1. \A v \in InUse(i) : ~Filled(<<v, p>>)
    BY <1>3 DEF InUse, Frame
  <2>. QED BY <1>4, <2>1 DEF Kept
<1>. QED BY <1>1, <1>5, <1>6 DEF DataIInv, DataKept

LEMMA DataNextOK ==
  FillOutcomes = {TRUE} /\ DirtyOutcomes = {TRUE} =>
    (DataIInv /\ VnodeIInv' /\ [VnodeNext]_vnodeVars => DataIInv')
<1> SUFFICES ASSUME FillOutcomes = {TRUE}, DirtyOutcomes = {TRUE}, DataIInv, VnodeIInv', [VnodeNext]_vnodeVars
             PROVE  DataIInv'
  OBVIOUS
<1> VnodeIInv
  BY DEF DataIInv
<1>1. ASSUME NEW t \in Thread, NEW d \in Dir, NEW i \in Ino, NEW want \in {"read", "link"}, vget(t, d, i, want)
      PROVE  DataIInv'
  BY <1>1, FindData DEF vget
<1>2. ASSUME NEW t \in Thread, FindAgain(t)
      PROVE  DataIInv'
  <2>1. thread[t].pc = "find" /\ thread[t].vn = NoVnode /\ thread[t].name # NoName
        /\ thread[t].name \in names
    BY <1>2 DEF FindAgain, VnodeIInv, ThreadShape, Shape, Looking, NamesKept
  <2>2. thread[t].name \in Dir \X Ino /\ thread[t].want \in {"read", "write", "copy", "link"}
    BY <2>1 DEF VnodeIInv, VnodeTypeOK
  <2>. QED BY <1>2, <2>1, <2>2, FindData DEF FindAgain
<1>3. ASSUME NEW t \in Thread, NEW f \in Frame, NEW want \in {"read", "write", "copy"},
             thread[t].pc \in {"user", "get"}, thread[t].vn = f[1], pframe_get(t, f, want)
      PROVE  DataIInv'
  <2>1. pframe[f].state \in {"absent", "busy", "idle"}
    BY DEF VnodeIInv, VnodeTypeOK
  <2>. QED BY <1>3, <2>1, AbsentData, BusyData, IdleData
<1>4. ASSUME NEW t \in Thread, NEW p \in Page, NEW want \in {"read", "write", "copy"}, Access(t, p, want)
      PROVE  DataIInv'
  <2>1. <<thread[t].vn, p>> \in Frame /\ thread[t].pc = "user"
    BY <1>4 DEF Access, VnodeIInv, VnodeTypeOK, Frame
  <2>. QED BY <1>3, <1>4, <2>1 DEF Access
<1>5. ASSUME NEW t \in Thread, GetAgain(t)
      PROVE  DataIInv'
  <2>1. thread[t].pc = "get" /\ thread[t].pc \in OnPage
    BY <1>5 DEF GetAgain, OnPage
  <2>2. thread[t].pf \in Frame /\ thread[t].pf[1] = thread[t].vn
    BY <2>1, PageOf
  <2>3. thread[t].want \in {"read", "write", "copy"}
    BY <2>1 DEF VnodeIInv, VnodeTypeOK, ThreadShape, Shape
  <2>. QED BY <1>3, <1>5, <2>1, <2>2, <2>3 DEF GetAgain
<1>6. ASSUME NEW t \in Thread, pframe_clean_all(t)
      PROVE  DataIInv'
  <2>1. UNCHANGED <<vnode, names, disk, latest, panic, revived>> /\ thread[t].pc = "sync"
    BY <1>6 DEF pframe_clean_all
  <2>2. CASE \E f \in AllocList : Idle(f) /\ pframe[f].dirty /\ pframe_clean(t, f)
    BY <2>1, <2>2, CleansData DEF AllocList
  <2>3. CASE pframe' = pframe /\ pte' = pte
    BY <1>6, <2>3, CleanAllWaits
  <2>. QED BY <1>6, <2>2, <2>3 DEF pframe_clean_all
<1>7. CASE UNCHANGED vnodeVars
  BY <1>7, SameData DEF vnodeVars
<1>8. ASSUME ThreadStep PROVE DataIInv'
  BY <1>1, <1>2, <1>4, <1>5, <1>6, <1>8, InOutData, UnlinkData, LinkData, VputData, VputAgainData,
     FillData, DirtyData, CleanData, UserWriteData, SyncData DEF ThreadStep
<1>. QED BY <1>7, <1>8 DEF VnodeNext, Halted

(* When the file system's fillpage and dirtypage succeed, the invariant of  *)
(* the data holds, whether or not cleanpage does.                           *)
THEOREM DataInductive ==
  ASSUME FillOutcomes = {TRUE}, DirtyOutcomes = {TRUE}
  PROVE  VnodeSpec => []DataIInv
<1>1. VnodeInit => DataIInv /\ VnodeIInv
  BY DataInitOK, VnodeInitOK
<1>2. DataIInv /\ VnodeIInv /\ [VnodeNext]_vnodeVars => DataIInv' /\ VnodeIInv'
  BY DataNextOK, VnodeNextOK
<1>. QED BY <1>1, <1>2, PTL DEF VnodeSpec

(* Of a linked file that do_link has not revived, no order of page faults,  *)
(* copies, cleaning and uncaching drops a write or leaves one that no sync  *)
(* would find (pframe.c:503-601, pagefault.c:110-131, vnode.c:257-275).     *)
THEOREM NoWriteLost ==
  ASSUME FillOutcomes = {TRUE}, DirtyOutcomes = {TRUE}
  PROVE  VnodeSpec => []NothingLost
<1>1. DataIInv => NothingLost
  <2> SUFFICES ASSUME DataIInv, NEW i \in Ino \ revived, NEW p \in Page, Linked(i)
               PROVE  IF \E v \in InUse(i) : Filled(<<v, p>>)
                      THEN \E v \in InUse(i) :
                             /\ pframe[<<v, p>>].data = latest[i][p]
                             /\ disk[i][p] = latest[i][p] \/ pframe[<<v, p>>].dirty \/ Busy(<<v, p>>)
                      ELSE disk[i][p] = latest[i][p]
    BY DEF NothingLost
  <2>1. Kept(i, p)
    BY DEF DataIInv, DataKept, Alive
  <2>. QED BY <2>1 DEF Kept
<1>. QED BY <1>1, DataInductive, PTL
-----------------------------------------------------------------------------
(* Writes only grow.                                                        *)
LEMMA WroteMore ==
  ASSUME VnodeTypeOK, NEW f
  PROVE  \A i \in Ino, p \in Page : Wrote(f)[i][p] \in Nat /\ Wrote(f)[i][p] >= latest[i][p]
<1> DEFINE i0 == vnode[f[1]].vn_vno
           n == NextWrite(f)
<1>1. latest \in [Ino -> [Page -> 0..MaxWrite]]
  BY DEF VnodeTypeOK
<1>2. ASSUME i0 \in Ino, f[2] \in Page PROVE n \in Nat /\ n >= latest[i0][f[2]]
  BY <1>1, <1>2 DEF NextWrite, Data
<1>3. Wrote(f) = [latest EXCEPT ![i0][f[2]] = n]
  BY DEF Wrote
<1> HIDE DEF i0, n
<1>4. ASSUME NEW i \in Ino, NEW p \in Page PROVE Wrote(f)[i][p] \in Nat /\ Wrote(f)[i][p] >= latest[i][p]
  <2>1. CASE i = i0 /\ p = f[2]
    <3>1. Wrote(f)[i][p] = n
      BY <1>1, <1>3, <2>1
    <3>. QED BY <1>2, <2>1, <3>1
  <2>2. CASE ~(i = i0 /\ p = f[2])
    <3>1. Wrote(f)[i][p] = latest[i][p]
      BY <1>1, <1>3, <2>2
    <3>2. latest[i][p] \in Nat
      BY <1>1
    <3>. QED BY <3>1, <3>2
  <2>. QED BY <2>1, <2>2
<1>. QED BY <1>4

(* What a step of thread u does to a thread in sync, to latest and to asked *)
LEMMA SyncedOrNot ==
  ASSUME VnodeIInv, [VnodeNext]_vnodeVars
  PROVE  /\ latest' = latest \/ \E f : latest' = Wrote(f)
         /\ \A t \in Thread : thread[t].pc = "sync" =>
              \/ thread'[t] = thread[t]
              \/ pframe_clean_all(t)
         /\ \/ asked' = asked
            \/ latest' = latest /\ \E t \in Thread : \/ asked' = [asked EXCEPT ![t] = latest]
                                                     \/ asked' = [asked EXCEPT ![t] = Blank]
<1>1. thread \in [Thread -> ThreadRec]
  BY Types DEF VnodeIInv
<1> DEFINE Fine(u) ==
      /\ latest' = latest \/ \E f : latest' = Wrote(f)
      /\ asked' = asked
      /\ thread[u].pc # "sync"
      /\ \A t \in Thread \ {u} : thread[t].pc = "sync" => thread'[t] = thread[t]
<1>2. ASSUME NEW f, NEW t \in Thread, thread[t].pc = "sync" PROVE pf_broadcast(f, thread)[t] = thread[t]
  BY <1>2 DEF pf_broadcast, Asleep
<1>3. ASSUME NEW f, NEW th, NEW u \in Thread, th \in [Thread -> ThreadRec], NEW t \in Thread \ {u}
      PROVE  /\ Finished(u, th)[t] = th[t]
             /\ \A pc : Goto(u, th, pc)[t] = th[t]
  BY <1>3 DEF Finished, Goto
<1>4. ASSUME NEW u \in Thread, NEW f, NEW want, NEW pg, NEW th \in [Thread -> ThreadRec],
             HavePage(u, f, want, pg, th),
             \A t \in Thread : thread[t].pc = "sync" => th[t] = thread[t]
      PROVE  /\ latest' = latest \/ latest' = Wrote(f)
             /\ \A t \in Thread \ {u} : thread[t].pc = "sync" => thread'[t] = thread[t]
  <2>1. latest' = latest \/ latest' = Wrote(f)
    BY <1>4 DEF HavePage
  <2>2. \/ thread' = Finished(u, th)
        \/ thread' = [th EXCEPT ![u] = [@ EXCEPT !.pc = "dirtypage", !.pf = f, !.want = want]]
    BY <1>4 DEF HavePage
  <2>3. \A t \in Thread \ {u} : thread'[t] = th[t]
    BY <1>3, <2>2
  <2>. QED BY <1>4, <2>1, <2>3
<1>5. \A f : pf_broadcast(f, thread) \in [Thread -> ThreadRec]
  BY Broadcast DEF VnodeIInv
<1>6. ASSUME NEW u \in Thread, NEW name, NEW want, Find(u, name, want)
      PROVE  latest' = latest /\ asked' = asked /\ \A t \in Thread \ {u} : thread'[t] = thread[t]
  BY <1>1, <1>6 DEF Find
<1>7. ASSUME NEW u \in Thread, NEW v, NEW L, NEW pt, FreePages(u, v, L, pt)
      PROVE  \A t \in Thread \ {u} : thread'[t] = thread[t]
  BY <1>1, <1>7 DEF FreePages, TakeOut
<1>8. ASSUME NEW u \in Thread, NEW f, NEW want, pframe_get(u, f, want)
      PROVE  /\ latest' = latest \/ \E g : latest' = Wrote(g)
             /\ asked' = asked
             /\ \A t \in Thread \ {u} : thread[t].pc = "sync" => thread'[t] = thread[t]
  <2>1. CASE HavePage(u, f, want, pframe, thread)
    BY <1>1, <1>4, <1>8, <2>1 DEF pframe_get
  <2>2. CASE ~HavePage(u, f, want, pframe, thread)
    BY <1>1, <1>8, <2>2 DEF pframe_get
  <2>. QED BY <2>1, <2>2
<1>11. ASSUME NEW u \in Thread, NEW d \in Dir, NEW i \in Ino, NEW want, vget(u, d, i, want) PROVE Fine(u)
  BY <1>6, <1>11 DEF vget
<1>12. ASSUME NEW u \in Thread, FindAgain(u) PROVE Fine(u)
  BY <1>6, <1>12 DEF FindAgain
<1>13. ASSUME NEW u \in Thread, VnodeIsIn(u) PROVE Fine(u)
  BY <1>1, <1>13 DEF VnodeIsIn
<1>14. ASSUME NEW u \in Thread, NEW d \in Dir, do_link(u, d) \/ do_unlink(u, d) PROVE Fine(u)
  BY <1>1, <1>14 DEF do_link, do_unlink
<1>15. ASSUME NEW u \in Thread, vput(u) PROVE Fine(u)
  <2>1. latest' = latest /\ asked' = asked /\ thread[u].pc \in {"user", "opened"}
    BY <1>15 DEF vput
  <2>2. \A t \in Thread \ {u} : thread'[t] = thread[t]
    BY <1>1, <1>7, <1>15 DEF vput, TakeOut
  <2>. QED BY <2>1, <2>2
<1>16. ASSUME NEW u \in Thread, VputAgain(u) PROVE Fine(u)
  BY <1>7, <1>16 DEF VputAgain
<1>17. ASSUME NEW u \in Thread, VnodeIsOut(u) PROVE Fine(u)
  <2>1. latest' = latest /\ asked' = asked /\ thread[u].pc = "delete_vnode"
    BY <1>17 DEF VnodeIsOut
  <2>2. ASSUME NEW t \in Thread \ {u}, thread[t].pc = "sync" PROVE thread'[t] = thread[t]
    BY <1>17, <2>2, ZenonT(30) DEF VnodeIsOut
  <2>. QED BY <2>1, <2>2
<1>18. ASSUME NEW u \in Thread, NEW p \in Page, NEW want, Access(u, p, want) PROVE Fine(u)
  BY <1>8, <1>18 DEF Access
<1>19. ASSUME NEW u \in Thread, NEW p \in Page, UserWrite(u, p) PROVE Fine(u)
  BY <1>19 DEF UserWrite
<1>20. ASSUME NEW u \in Thread, GetAgain(u) PROVE Fine(u)
  BY <1>8, <1>20 DEF GetAgain
<1>21. ASSUME NEW u \in Thread, PageIsFilled(u) PROVE Fine(u)
  <2>1. asked' = asked /\ thread[u].pc # "sync"
    BY <1>21 DEF PageIsFilled
  <2>2. PICK f : f = thread[u].pf
    OBVIOUS
  <2>3. \/ \E pg : HavePage(u, f, thread[u].want, pg, pf_broadcast(f, thread))
        \/ latest' = latest /\ (\/ thread' = Goto(u, pf_broadcast(f, thread), "refill")
                                \/ thread' = Finished(u, pf_broadcast(f, thread)))
    BY <1>21, <2>2 DEF PageIsFilled
  <2>4. \A t \in Thread : thread[t].pc = "sync" => pf_broadcast(f, thread)[t] = thread[t]
    BY <1>2
  <2>5. CASE \E pg : HavePage(u, f, thread[u].want, pg, pf_broadcast(f, thread))
    BY <1>4, <1>5, <2>1, <2>4, <2>5
  <2>6. CASE latest' = latest /\ (\/ thread' = Goto(u, pf_broadcast(f, thread), "refill")
                                  \/ thread' = Finished(u, pf_broadcast(f, thread)))
    BY <1>3, <1>5, <2>1, <2>4, <2>6
  <2>. QED BY <2>3, <2>5, <2>6
<1>22. ASSUME NEW u \in Thread, PageIsDirty(u) PROVE Fine(u)
  <2>1. /\ asked' = asked /\ latest' = latest /\ thread[u].pc # "sync"
        /\ thread' = Finished(u, pf_broadcast(thread[u].pf, thread))
    BY <1>22 DEF PageIsDirty
  <2>. QED BY <1>2, <1>3, <1>5, <2>1
<1>23. ASSUME NEW u \in Thread, PageIsClean(u) PROVE Fine(u)
  <2>1. /\ asked' = asked /\ latest' = latest /\ thread[u].pc # "sync"
        /\ thread' = Goto(u, pf_broadcast(thread[u].pf, thread), "sync")
    BY <1>23 DEF PageIsClean
  <2>2. PICK th \in [Thread -> ThreadRec] :
          th = pf_broadcast(thread[u].pf, thread) /\ thread' = Goto(u, th, "sync")
    BY <1>5, <2>1
  <2>3. \A t \in Thread \ {u} : thread'[t] = th[t]
    BY <2>2 DEF Goto
  <2>. QED BY <1>2, <2>1, <2>2, <2>3
<1>24. ASSUME NEW u \in Thread, sync(u)
       PROVE  /\ latest' = latest /\ asked' = [asked EXCEPT ![u] = latest] /\ thread[u].pc # "sync"
              /\ \A t \in Thread \ {u} : thread'[t] = thread[t]
  <2>1. /\ latest' = latest /\ asked' = [asked EXCEPT ![u] = latest] /\ thread[u].pc # "sync"
        /\ thread' = Goto(u, thread, "sync")
    BY ONLY <1>24 DEF sync
  <2>2. \A t \in Thread \ {u} : thread'[t] = thread[t]
    BY <1>1, <2>1 DEF Goto
  <2>. QED BY <2>1, <2>2
<1>25. ASSUME NEW u \in Thread, pframe_clean_all(u)
       PROVE  /\ latest' = latest /\ (asked' = asked \/ asked' = [asked EXCEPT ![u] = Blank])
              /\ \A t \in Thread \ {u} : thread'[t] = thread[t]
  <2>1. latest' = latest /\ (asked' = asked \/ asked' = [asked EXCEPT ![u] = Blank])
    BY <1>25 DEF pframe_clean_all
  <2>2. \/ \E f, pc : thread' = [thread EXCEPT ![u] = [@ EXCEPT !.pc = pc, !.pf = f]]
        \/ thread' = Finished(u, thread)
    BY <1>25 DEF pframe_clean_all, pframe_clean
  <2>3. CASE \E f, pc : thread' = [thread EXCEPT ![u] = [@ EXCEPT !.pc = pc, !.pf = f]]
    <3>1. PICK f, pc : thread' = [thread EXCEPT ![u] = [@ EXCEPT !.pc = pc, !.pf = f]]
      BY <2>3
    <3>2. \A t \in Thread \ {u} : thread'[t] = thread[t]
      BY <1>1, <3>1
    <3>. QED BY <2>1, <3>2
  <2>4. CASE thread' = Finished(u, thread)
    BY <1>1, <1>3, <2>1, <2>4
  <2>. QED BY <2>2, <2>3, <2>4
<1>26. ASSUME NEW u \in Thread, Fine(u)
       PROVE  /\ latest' = latest \/ \E f : latest' = Wrote(f)
              /\ \A t \in Thread : thread[t].pc = "sync" => thread'[t] = thread[t]
              /\ asked' = asked
  BY <1>26
<1> HIDE DEF Fine
<1>27. CASE UNCHANGED vnodeVars
  BY <1>27 DEF vnodeVars
<1>28. CASE \E u \in Thread : Fine(u)
  BY <1>26, <1>28
<1>29. CASE \E u \in Thread : sync(u) \/ pframe_clean_all(u)
  BY <1>24, <1>25, <1>29
<1>. QED BY <1>11, <1>12, <1>13, <1>14, <1>15, <1>16, <1>17, <1>18, <1>19, <1>20, <1>21, <1>22, <1>23,
            <1>27, <1>28, <1>29 DEF VnodeNext, ThreadStep, Halted

LEMMA AskedNextOK == VnodeIInv /\ AskedBefore /\ [VnodeNext]_vnodeVars => AskedBefore'
<1> SUFFICES ASSUME VnodeIInv, AskedBefore, [VnodeNext]_vnodeVars PROVE AskedBefore'
  OBVIOUS
<1>1. /\ latest \in [Ino -> [Page -> 0..MaxWrite]]
      /\ asked \in [Thread -> [Ino -> [Page -> 0..MaxWrite]]] /\ VnodeTypeOK
  BY DEF VnodeIInv, VnodeTypeOK
<1>2. \A i \in Ino, p \in Page : latest'[i][p] \in Nat /\ latest'[i][p] >= latest[i][p]
  <2>1. \A i \in Ino, p \in Page : latest[i][p] \in Nat
    BY <1>1
  <2>. QED BY <1>1, <2>1, SyncedOrNot, WroteMore
<1>3. ASSUME NEW t \in Thread, NEW i \in Ino, NEW p \in Page
      PROVE  asked'[t][i][p] \in Nat /\ asked'[t][i][p] <= latest'[i][p]
  <2>1. /\ asked[t][i][p] \in Nat /\ asked[t][i][p] <= latest[i][p]
        /\ latest[i][p] \in Nat /\ Blank[i][p] = 0
    BY <1>1 DEF AskedBefore, Blank
  <2>2. asked'[t] = asked[t] \/ asked'[t] = latest \/ asked'[t] = Blank
    BY <1>1, SyncedOrNot
  <2>. QED BY <1>2, <2>1, <2>2
<1>. QED BY <1>3 DEF AskedBefore

(* When sync returns, the disk has what was written before it was called,   *)
(* of linked files that do_link has not revived, although it skips the      *)
(* pages that are being dirtied (pframe.c:607-641).                         *)
THEOREM SyncsSave ==
  ASSUME FillOutcomes = {TRUE}, DirtyOutcomes = {TRUE}
  PROVE  VnodeSpec => SyncSaves
<1> DEFINE Saves ==
      \A t \in Thread : thread[t].pc = "sync" /\ thread'[t].pc = "user" =>
        \A i \in Ino \ revived, p \in Page : Linked(i) => disk[i][p] >= asked[t][i][p]
<1>1. VnodeInit => AskedBefore
  BY DEF VnodeInit, AskedBefore, Blank
<1>2. VnodeIInv /\ AskedBefore /\ [VnodeNext]_vnodeVars => AskedBefore'
  BY AskedNextOK
<1>3. DataIInv /\ VnodeIInv /\ AskedBefore /\ [VnodeNext]_vnodeVars => [Saves]_vnodeVars
  <2> SUFFICES ASSUME DataIInv, VnodeIInv, AskedBefore, [VnodeNext]_vnodeVars,
                      NEW t \in Thread, thread[t].pc = "sync", thread'[t].pc = "user",
                      NEW i \in Ino \ revived, NEW p \in Page, Linked(i)
               PROVE  disk[i][p] >= asked[t][i][p]
    OBVIOUS
  <2>1. pframe_clean_all(t)
    BY SyncedOrNot
  <2>2. \A f \in AllocList : Idle(f) /\ ~pframe[f].dirty
    <3>1. thread \in [Thread -> ThreadRec] /\ thread[t] \in ThreadRec
      BY Types DEF VnodeIInv
    <3>2. ASSUME NEW f, NEW pc \in {"sync_waitq", "cleanpage"},
                 thread' = [thread EXCEPT ![t] = [@ EXCEPT !.pc = pc, !.pf = f]]
          PROVE  FALSE
      <4> DEFINE r == [thread[t] EXCEPT !.pc = pc, !.pf = f]
      <4>1. r.pc = pc
        BY <3>1, ZenonT(30) DEF ThreadRec
      <4>2. thread' = [thread EXCEPT ![t] = r]
        BY <3>2
      <4> HIDE DEF r
      <4>. QED BY <3>1, <4>1, <4>2
    <3>. QED BY <2>1, <3>2 DEF pframe_clean_all, pframe_clean
  <2>3. Alive(i) /\ Kept(i, p)
    BY DEF DataIInv, DataKept, Alive
  <2>4. disk[i][p] = latest[i][p]
    <3>1. CASE \A v \in InUse(i) : ~Filled(<<v, p>>)
      BY <2>3, <3>1 DEF Kept
    <3>2. ASSUME NEW v \in InUse(i), Filled(<<v, p>>) PROVE disk[i][p] = latest[i][p]
      <4>1. <<v, p>> \in Frame /\ vnode[v].vn_vno = i
        BY DEF InUse, Frame
      <4>2. CASE <<v, p>> \in AllocList
        <5>1. ~pframe[<<v, p>>].dirty /\ ~Busy(<<v, p>>)
          BY <2>2, <4>2 DEF Busy, Idle
        <5>. QED BY <2>3, <3>2, <5>1 DEF Kept
      <4>3. CASE <<v, p>> \notin AllocList
        <5>1. Pinned(<<v, p>>)
          BY <3>2, <4>1, <4>3 DEF AllocList, Filled
        <5>2. PICK u \in Thread : thread[u].pf = <<v, p>> /\ thread[u].pc = "dirtypage" /\ thread[u].want = "write"
          BY <5>1 DEF Pinned
        <5>3. thread[u].vn = v
          <6>1. thread[u].pc \in OnPage
            BY <5>2 DEF OnPage
          <6>. QED BY <5>2, <6>1, PageOf DEF VnodeIInv, ThreadShape, Shape
        <5>. QED BY <2>3, <4>1, <5>2, <5>3 DEF DataIInv, PinnedIsClean
      <4>. QED BY <4>2, <4>3
    <3>. QED BY <3>1, <3>2
  <2>5. asked[t][i][p] <= latest[i][p] /\ asked[t][i][p] \in Nat /\ latest[i][p] \in Nat
    BY DEF AskedBefore, VnodeIInv, VnodeTypeOK
  <2>. QED BY <2>4, <2>5
<1> HIDE DEF Saves
<1>4. VnodeSpec => [][Saves]_vnodeVars
  BY <1>1, <1>2, <1>3, DataInductive, VnodeInductive, PTL DEF VnodeSpec
<1>. QED BY <1>4 DEF SyncSaves, Saves
=============================================================================
