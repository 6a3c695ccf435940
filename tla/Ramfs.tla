-------------------------------- MODULE Ramfs --------------------------------
(***************************************************************************)
(* The file system in memory (fs/ramfs/ramfs.c), the vnodes over it        *)
(* (fs/vnode.c), and the walk along a path (fs/namev.c).                   *)
(*                                                                         *)
(* None of these functions has a scheduling point when the file system is  *)
(* ramfs, so each is an operator from a state of the file system to the    *)
(* next.  A state S has the fields                                         *)
(*   inode     rfs_inodes: number -> NoInode or the inode                  *)
(*   vnode     the structures of the vnode slab; in use if vn_refcount > 0 *)
(*   free      the free list of that slab, the last one freed first        *)
(*   stranded  number -> names that went with the directory they were in   *)
(*   panic     "", or where the kernel failed an assertion or called NULL  *)
(* and a function that returns more gives [S, ret, vn].  The memory of a   *)
(* directory is a function from names, without the order of its entries,   *)
(* which only readdir shows; its size counts entries.  Of a file only the  *)
(* size is kept.                                                           *)
(***************************************************************************)
EXTENDS Integers, FiniteSets, SequencesExt

CONSTANTS
  VnodeT,      (* the vnode_t structures of the slab                       *)
  MaxFiles,    (* RAMFS_MAX_FILES                                          *)
  MaxDirent,   (* RAMFS_MAX_DIRENT                                         *)
  PageSize,    (* bytes of a file at most                                  *)
  Name,        (* the names that directories hold                          *)
  Dot, DotDot, NoName, NoVnode, NoInode

Ino == 0 .. (MaxFiles - 1)
Nowhere == MaxFiles      (* what a name that a directory does not hold has *)
InodeT ==
  [rf_mode : {"data", "dir", "chr"}, rf_size : Nat, rf_linkcount : Nat,
   rf_mem : [Name \cup {Dot, DotDot} -> Ino \cup {Nowhere}]]

ASSUME RamfsAssumption ==
  /\ MaxFiles \in Nat \ {0} /\ MaxDirent \in Nat \ {0, 1} /\ PageSize \in Nat \ {0}
  /\ IsFiniteSet(VnodeT) /\ Cardinality(VnodeT) >= MaxFiles     (* vget finds memory *)
  /\ IsFiniteSet(Name)
  /\ Dot # DotDot /\ {Dot, DotDot, NoName} \cap Name = {} /\ NoName \notin {Dot, DotDot}
  /\ NoVnode \notin VnodeT /\ NoInode \notin InodeT

NoMem == [n \in Name \cup {Dot, DotDot} |-> Nowhere]
DirMem(self, parent) == [NoMem EXCEPT ![Dot] = self, ![DotDot] = parent]
Held(mem) == {n \in DOMAIN mem : mem[n] # Nowhere}
Unused == [vn_vno |-> 0, vn_mode |-> "data", vn_len |-> 0, vn_refcount |-> 0]

Panics(S, where) == IF S.panic # "" THEN S ELSE [S EXCEPT !.panic = where]
Ok(S, v) == [S |-> S, ret |-> "0", vn |-> v]
Fails(S, errno) == [S |-> S, ret |-> errno, vn |-> NoVnode]
-----------------------------------------------------------------------------
(* Vnodes.  ramfs counts a vnode in use as a link to its inode, and frees   *)
(* an inode when the last link goes.                                        *)
InUse(S, i) == {v \in VnodeT : S.vnode[v].vn_refcount > 0 /\ S.vnode[v].vn_vno = i}
VnodeOf(S, i) == IF InUse(S, i) = {} THEN NoVnode ELSE CHOOSE v \in InUse(S, i) : TRUE
Mem(S, d) == S.inode[S.vnode[d].vn_vno].rf_mem

vref(S, v) ==
  IF S.panic # "" THEN S
  ELSE IF S.vnode[v].vn_refcount = 0 THEN Panics(S, "vref")
  ELSE [S EXCEPT !.vnode[v].vn_refcount = @ + 1]

vget(S, i) ==
  IF S.panic # "" THEN S
  ELSE IF InUse(S, i) # {} THEN vref(S, VnodeOf(S, i))
  ELSE IF S.inode[i] = NoInode THEN Panics(S, "read_vnode")
  ELSE [S EXCEPT !.free = Tail(@),
                 !.vnode[Head(S.free)] =
                    [vn_vno |-> i, vn_mode |-> S.inode[i].rf_mode, vn_refcount |-> 1,
                     vn_len |-> IF S.inode[i].rf_mode = "data" THEN S.inode[i].rf_size ELSE 0],
                 !.inode[i].rf_linkcount = @ + 1]

ramfs_delete_vnode_keeps_last(S, i) ==
  IF S.inode[i].rf_linkcount = 2 THEN [S EXCEPT !.inode[i] = NoInode]
  ELSE [S EXCEPT !.inode[i].rf_linkcount = @ - 1]

ramfs_delete_vnode(S, i) ==
  IF S.inode[i].rf_linkcount = 1
  THEN [S EXCEPT !.inode[i] = NoInode,
                 !.stranded = [j \in Ino |-> @[j] + Cardinality({n \in Name : S.inode[i].rf_mem[n] = j})]]
  ELSE [S EXCEPT !.inode[i].rf_linkcount = @ - 1]

vput(S, v) ==
  IF S.panic # "" THEN S
  ELSE IF S.vnode[v].vn_refcount = 0 THEN Panics(S, "vput")
  ELSE IF S.vnode[v].vn_refcount > 1 THEN [S EXCEPT !.vnode[v].vn_refcount = @ - 1]
  ELSE ramfs_delete_vnode([S EXCEPT !.vnode[v].vn_refcount = 0, !.free = <<v>> \o @],
                          S.vnode[v].vn_vno)
-----------------------------------------------------------------------------
(* Directories.  The assertions that a new name is not there yet repeat a   *)
(* lookup that the caller has just made, and are left out.                  *)
Got(S, i) == Ok(S, VnodeOf(S, i))       (* what vget returns               *)

ramfs_lookup(S, d, n) ==
  IF n = NoName THEN Fails(Panics(S, "namelen"), "panic")
  ELSE IF Mem(S, d)[n] = Nowhere THEN Fails(S, "ENOENT")
  ELSE Got(vget(S, Mem(S, d)[n]), Mem(S, d)[n])

(* A vnode that is not a directory has no lookup: the call goes to NULL.    *)
lookup(S, d, n) ==
  IF S.panic # "" THEN Fails(S, "panic")
  ELSE IF d = NoVnode THEN Fails(Panics(S, "dir"), "panic")
  ELSE IF S.vnode[d].vn_mode # "dir" THEN Fails(Panics(S, "lookup"), "panic")
  ELSE ramfs_lookup(S, d, n)

FreeInodes(S) == {i \in Ino : S.inode[i] = NoInode}
First(is) == CHOOSE i \in is : \A j \in is : i <= j
NoRoom(S, d) == Cardinality(Held(Mem(S, d))) = MaxDirent
NewInode(mode, mem, size) ==
  [rf_mode |-> mode, rf_size |-> size, rf_linkcount |-> 1, rf_mem |-> mem]

Entered(r, n, i) == [r EXCEPT !.rf_size = @ + 1, !.rf_mem[n] = i]
Erased(r, n) == [r EXCEPT !.rf_size = @ - 1, !.rf_mem[n] = Nowhere]
AddEntry(S, d, n, i) == [S EXCEPT !.inode[S.vnode[d].vn_vno] = Entered(@, n, i)]
DropEntry(S, d, n) == [S EXCEPT !.inode[S.vnode[d].vn_vno] = Erased(@, n)]

DropLink(S, v) == [S EXCEPT !.inode[S.vnode[v].vn_vno].rf_linkcount = @ - 1]

(* room in the directory first, then an inode                               *)
Make(S, d, n, mode) ==
  LET i == First(FreeInodes(S))
      mem == IF mode = "dir" THEN DirMem(i, S.vnode[d].vn_vno) ELSE NoMem
  IN IF S.panic # "" THEN Fails(S, "panic")
     ELSE IF NoRoom(S, d) \/ FreeInodes(S) = {} THEN Fails(S, "ENOSPC")
     ELSE Ok([AddEntry(S, d, n, i) EXCEPT
                !.inode[i] = NewInode(mode, mem, IF mode = "dir" THEN 2 ELSE 0)], NoVnode)

Created(M, i) == IF M.ret # "0" THEN M ELSE Got(vget(M.S, i), i)
ramfs_create(S, d, n) == Created(Make(S, d, n, "data"), First(FreeInodes(S)))
ramfs_mknod(S, d, n) == Make(S, d, n, "chr")
ramfs_mkdir(S, d, n) == Make(S, d, n, "dir")

(* the old vnode is whatever its structure holds now                        *)
ramfs_link(S, old, d, n) ==
  IF S.panic # "" THEN Fails(S, "panic")
  ELSE IF NoRoom(S, d) THEN Fails(S, "ENOSPC")
  ELSE Ok([AddEntry(S, d, n, S.vnode[old].vn_vno)
             EXCEPT !.inode[S.vnode[old].vn_vno].rf_linkcount = @ + 1], NoVnode)

(* once the vnode of the name has been looked up: L                         *)
Unlinked(L, d, n) ==
  IF L.S.panic # "" THEN Fails(L.S, "panic")
  ELSE Ok(vput(DropLink(DropEntry(L.S, d, n), L.vn), L.vn), NoVnode)

ramfs_unlink(S, d, n) == Unlinked(ramfs_lookup(S, d, n), d, n)

RmdirRefuses(L) ==
  IF L.S.vnode[L.vn].vn_mode # "dir" THEN "ENOTDIR"
  ELSE IF Held(Mem(L.S, L.vn)) \cap Name # {} THEN "ENOTEMPTY" ELSE ""

Removed(L, d, n) ==
  IF L.ret # "0" \/ L.S.panic # "" THEN L
  ELSE IF RmdirRefuses(L) # "" THEN Fails(vput(L.S, L.vn), RmdirRefuses(L))
  ELSE Unlinked(L, d, n)

ramfs_rmdir(S, d, n) == Removed(ramfs_lookup(S, d, n), d, n)
-----------------------------------------------------------------------------
(* Paths, [abs, dirs, last, slash]: whether it starts with a slash, the     *)
(* names up to the last, the last or NoName for "/", and whether a slash    *)
(* follows it.  The root directory is inode 0 and always has a vnode.       *)
Path ==
  [abs : BOOLEAN, dirs : Seq(Name \cup {Dot, DotDot}), last : Name \cup {Dot, DotDot, NoName},
   slash : BOOLEAN]

Leave(S, v) == IF v = NoVnode THEN S ELSE vput(S, v)

(* the next name on the way, n: what is left is put when the name has been  *)
(* looked up, or could not be                                               *)
WalkOn(W, pre, n) ==
  LET L == lookup(W.S, W.vn, n)
      left == Leave(L.S, pre)
  IN IF L.ret # "0" THEN Fails(left, L.ret) ELSE Ok(left, L.vn)

Walk(S, dir, names) ==
  LET at[k \in 0 .. Len(names)] ==
        IF k = 0 THEN Ok(S, dir)
        ELSE IF at[k - 1].ret # "0" THEN at[k - 1]
        ELSE WalkOn(at[k - 1], IF k = 1 THEN NoVnode ELSE at[k - 1].vn, names[k])
  IN at[Len(names)]

(* Where the walk began there is no lookup, and no test for a directory.    *)
Arrive_untested(S, dir, path) ==
  IF path.dirs = <<>> THEN Ok(vref(S, dir), dir) ELSE Walk(S, dir, path.dirs)

Arrive(S, dir, path) ==
  LET W == Walk(S, dir, path.dirs)
  IN IF path.dirs = <<>> THEN Ok(vref(S, dir), dir)
     ELSE IF W.ret = "0" /\ W.S.panic = "" /\ W.S.vnode[W.vn].vn_mode # "dir"
     THEN Fails(vput(W.S, W.vn), "ENOTDIR")
     ELSE W

dir_namev(S, cwd, path) == Arrive(S, IF path.abs THEN VnodeOf(S, 0) ELSE cwd, path)

(* open_namev with the directory D, and with what lookup finds there, L     *)
NeedsDir(L, path) == L.S.panic = "" /\ path.slash /\ L.S.vnode[L.vn].vn_mode # "dir"
Put(R, v) == [R EXCEPT !.S = vput(@, v)]

OpenFound(L, d, path, creat) ==
  IF L.ret = "ENOENT" /\ creat THEN Put(ramfs_create(L.S, d, path.last), d)
  ELSE IF L.ret = "0" /\ NeedsDir(L, path) THEN Put(Fails(vput(L.S, L.vn), "ENOTDIR"), d)
  ELSE Put(L, d)

OpenIn(D, path, creat) ==
  IF D.ret # "0" \/ path.last = NoName THEN D
  ELSE OpenFound(lookup(D.S, D.vn, path.last), D.vn, path, creat)

open_namev(S, cwd, path, creat) == OpenIn(dir_namev(S, cwd, path), path, creat)
=============================================================================
