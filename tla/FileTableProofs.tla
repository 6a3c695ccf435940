--------------------------- MODULE FileTableProofs ---------------------------
(***************************************************************************)
(* Proofs about the file system in memory, open files and descriptors.     *)
(***************************************************************************)
EXTENDS FileTable, FiniteSetTheorems, NaturalsInduction, TLAPS

(* The types of the parts of a state of the file system                     *)
VnodeRec ==
  [vn_vno : Ino, vn_mode : {"data", "dir", "chr"}, vn_len : 0 .. PageSize, vn_refcount : Nat]
FileRec ==
  [f_refcount : Nat, f_mode : SUBSET {"read", "write", "append"},
   f_vnode : VnodeT \cup {NoVnode}, f_pos : Nat]
StateT ==
  [inode : [Ino -> InodeT \cup {NoInode}], vnode : [VnodeT -> VnodeRec],
   stranded : [Ino -> Nat], panic : PanicT, file : [FileT -> FileRec], free : Seq(VnodeT)]

(* The names of an inode, in the directories there are                      *)
DirsIn(ino) == {i \in Ino : ino[i] # NoInode /\ ino[i].rf_mode = "dir"}
NamesIn(ino, i) == {x \in DirsIn(ino) \X Name : ino[x[1]].rf_mem[x[2]] = i}
NameCount(ino, i) == Cardinality(NamesIn(ino, i))

(* 1 if a vnode shows inode i; 1 if it is the root, which the mount keeps   *)
Shown(vn, i) == \E v \in VnodeT : vn[v].vn_refcount > 0 /\ vn[v].vn_vno = i
Uses(vn, i) == IF Shown(vn, i) THEN 1 ELSE 0
RootLink(i) == IF i = 0 THEN 1 ELSE 0

OneVnode(vn) ==
  \A v, w \in VnodeT :
    vn[v].vn_refcount > 0 /\ vn[w].vn_refcount > 0 /\ vn[v].vn_vno = vn[w].vn_vno => v = w

ShowsInode(vn, ino, v) ==
  vn[v].vn_refcount > 0 =>
    /\ ino[vn[v].vn_vno] # NoInode
    /\ vn[v].vn_mode = ino[vn[v].vn_vno].rf_mode
    /\ vn[v].vn_mode = "data" => vn[v].vn_len = ino[vn[v].vn_vno].rf_size

LinksExact(ino, vn, str, i) ==
  IF ino[i] = NoInode THEN str[i] = 0 /\ NamesIn(ino, i) = {}
  ELSE /\ ino[i].rf_linkcount = NameCount(ino, i) + Uses(vn, i) + str[i] + RootLink(i)
       /\ ino[i].rf_linkcount > 0

InodeOK(i, r) ==
  IF r.rf_mode = "dir"
  THEN /\ r.rf_mem[Dot] = i /\ r.rf_mem[DotDot] \in Ino
       /\ r.rf_size = Cardinality(Held(r.rf_mem)) /\ r.rf_size <= MaxDirent
  ELSE r.rf_mem = NoMem /\ r.rf_size <= PageSize

RootOK(ino) == ino[0] # NoInode /\ ino[0].rf_mode = "dir" /\ ino[0].rf_mem[DotDot] = 0

(* the free list: the vnodes that are not in use, each once                 *)
FreeOK(vn, free) ==
  /\ \A j, k \in 1 .. Len(free) : free[j] = free[k] => j = k
  /\ \A v \in VnodeT : vn[v].vn_refcount = 0 <=> \E k \in 1 .. Len(free) : free[k] = v

(* A directory has one name at most, in the directory that its .. names.    *)
Tree(ino) ==
  \A d \in DirsIn(ino) :
    /\ \A x, y \in NamesIn(ino, d) : x = y
    /\ \A x \in NamesIn(ino, d) : ino[d].rf_mem[DotDot] = x[1]

Good(S) ==
  /\ S \in StateT
  /\ OneVnode(S.vnode)
  /\ \A v \in VnodeT : ShowsInode(S.vnode, S.inode, v)
  /\ \A i \in Ino : LinksExact(S.inode, S.vnode, S.stranded, i)
  /\ \A i \in Ino : S.inode[i] # NoInode => InodeOK(i, S.inode[i])
  /\ RootOK(S.inode)
  /\ FreeOK(S.vnode, S.free)
  /\ LinksInPlace => Tree(S.inode)

(* where the kernel may stop during a call                                  *)
Stops == {"", "read_vnode", "lookup", "dir", "namelen", "memcpy", "write"}

(* the references to a vnode, and to a file_t                               *)
Holders(file_, cwd, root, v) ==
  Cardinality({f \in FileT : file_[f].f_vnode = v}) + Cardinality({p \in Proc : cwd[p] = v})
  + (IF v = root THEN 1 ELSE 0)
Slots(fds, f) == Cardinality({x \in Proc \X Fd : fds[x[1]][x[2]] = f})

VnodesCounted ==
  \A v \in VnodeT :
    vnode[v].vn_refcount = Holders(file, p_cwd, IF mounted THEN VnodeOf(Now, 0) ELSE NoVnode, v)
FilesCounted == \A f \in FileT : file[f].f_refcount = Slots(p_files, f) + lost[f]

(* A process is in a directory, and no directory is open for writing.       *)
Kinds(vn, fl, cwd) ==
  /\ \A p \in Proc : cwd[p] # NoVnode => vn[cwd[p]].vn_mode = "dir"
  /\ \A f \in FileT :
       fl[f].f_refcount > 0 /\ "write" \in fl[f].f_mode => vn[fl[f].f_vnode].vn_mode # "dir"

FilesIInv ==
  /\ FilesTypeOK
  /\ panic \in Stops \cup {"vfs_shutdown"}
  /\ mounted => Good(Now) /\ InUse(Now, 0) # {}
  /\ ~mounted => (\A v \in VnodeT : vnode[v].vn_refcount = 0) /\ inode = [i \in Ino |-> NoInode]
  /\ VnodesCounted /\ FilesCounted
  /\ \A f \in FileT : file[f].f_refcount > 0 => file[f].f_vnode \in VnodeT
  /\ \A p \in Proc : IF p_cwd[p] = NoVnode THEN \A fd \in Fd : p_files[p][fd] = NoFile ELSE mounted
  /\ StopsAccounted
  /\ Kinds(vnode, file, p_cwd)
-----------------------------------------------------------------------------
(* Sets of names and of vnodes                                              *)
LEMMA InoFacts ==
  /\ 0 \in Ino /\ Nowhere \notin Ino /\ IsFiniteSet(Ino) /\ Cardinality(Ino) = MaxFiles
BY RamfsAssumption, FS_Interval DEF Ino, Nowhere

(* The names of an inode are finitely many.                                 *)
LEMMA NamesFinite ==
  ASSUME NEW ino, NEW i
  PROVE  IsFiniteSet(NamesIn(ino, i)) /\ NameCount(ino, i) \in Nat
<1>1. IsFiniteSet(Ino \X Name)
  BY InoFacts, RamfsAssumption, FS_Product
<1>2. NamesIn(ino, i) \in SUBSET (Ino \X Name)
  BY DEF NamesIn, DirsIn
<1>. QED BY <1>1, <1>2, FS_Subset, FS_CardinalityType DEF NameCount

(* Two inodes that are there or not alike, with the same names in them      *)
SameEntry(a, b) ==
  /\ a = NoInode <=> b = NoInode
  /\ a # NoInode => a.rf_mode = b.rf_mode /\ a.rf_mem = b.rf_mem
SameEntries(ino, ino2) == \A i \in Ino : SameEntry(ino[i], ino2[i])
SameSizes(ino, ino2) == \A i \in Ino : ino[i] # NoInode => ino[i].rf_size = ino2[i].rf_size

(* The same entries give the same directories and the same names.           *)
LEMMA SameNames ==
  ASSUME NEW ino, NEW ino2, SameEntries(ino, ino2)
  PROVE  /\ DirsIn(ino2) = DirsIn(ino)
         /\ \A i : NamesIn(ino2, i) = NamesIn(ino, i)
<1>1. DirsIn(ino2) = DirsIn(ino)
  BY DEF DirsIn, SameEntries, SameEntry
<1>2. \A d \in DirsIn(ino) : ino2[d].rf_mem = ino[d].rf_mem
  BY DEF DirsIn, SameEntries, SameEntry
<1>. QED BY <1>1, <1>2 DEF NamesIn

(* So whether they form a tree is the same.                                 *)
LEMMA SameTree ==
  ASSUME NEW ino, NEW ino2, SameEntries(ino, ino2)
  PROVE  /\ Tree(ino) => Tree(ino2)
         /\ RootOK(ino) => RootOK(ino2)
         /\ \A i \in Ino : NameCount(ino2, i) = NameCount(ino, i)
<1>1. DirsIn(ino2) = DirsIn(ino) /\ \A i : NamesIn(ino2, i) = NamesIn(ino, i)
  BY SameNames
<1>2. \A d \in DirsIn(ino) : ino2[d].rf_mem = ino[d].rf_mem
  BY DEF DirsIn, SameEntries, SameEntry
<1>3. RootOK(ino) => RootOK(ino2)
  BY InoFacts DEF RootOK, SameEntries, SameEntry
<1>. QED BY <1>1, <1>2, <1>3 DEF Tree, NameCount

(* The vnodes are in use alike, and show the same.                          *)
SameIds(vn, vn2) ==
  \A v \in VnodeT : vn2[v].vn_vno = vn[v].vn_vno /\ vn2[v].vn_mode = vn[v].vn_mode
                    /\ vn2[v].vn_len = vn[v].vn_len
SameUse(vn, vn2) == \A v \in VnodeT : vn2[v].vn_refcount = 0 <=> vn[v].vn_refcount = 0

(* Vnodes that show the same and are in use alike fit the same inodes.      *)
LEMMA SameShown ==
  ASSUME NEW vn \in [VnodeT -> VnodeRec], NEW vn2 \in [VnodeT -> VnodeRec],
         SameIds(vn, vn2), SameUse(vn, vn2)
  PROVE  /\ \A i : Uses(vn2, i) = Uses(vn, i)
         /\ OneVnode(vn) => OneVnode(vn2)
         /\ \A free : FreeOK(vn, free) => FreeOK(vn2, free)
         /\ \A ino : (\A v \in VnodeT : ShowsInode(vn, ino, v)) => \A v \in VnodeT : ShowsInode(vn2, ino, v)
<1>1. \A v \in VnodeT : vn2[v].vn_refcount > 0 <=> vn[v].vn_refcount > 0
  BY DEF VnodeRec, SameUse
<1>2. \A i : Shown(vn2, i) = Shown(vn, i)
  BY <1>1 DEF Shown, SameIds
<1>3. OneVnode(vn) => OneVnode(vn2)
  BY <1>1 DEF OneVnode, SameIds
<1>4. ASSUME NEW free, FreeOK(vn, free) PROVE FreeOK(vn2, free)
  BY <1>4 DEF FreeOK, SameUse
<1>5. ASSUME NEW ino, \A v \in VnodeT : ShowsInode(vn, ino, v), NEW v \in VnodeT
      PROVE  ShowsInode(vn2, ino, v)
  <2>1. ShowsInode(vn, ino, v)
    BY <1>5
  <2>2. /\ vn2[v].vn_refcount > 0 <=> vn[v].vn_refcount > 0
        /\ vn2[v].vn_vno = vn[v].vn_vno /\ vn2[v].vn_mode = vn[v].vn_mode
        /\ vn2[v].vn_len = vn[v].vn_len
    BY <1>1 DEF SameIds
  <2>. QED BY <2>1, <2>2 DEF ShowsInode
<1>. QED BY <1>2, <1>3, <1>4, <1>5 DEF Uses

(* Only the numbers of references change, and no vnode comes or goes.       *)
LEMMA RefsOnly ==
  ASSUME NEW S, Good(S), NEW T \in StateT,
         T.inode = S.inode, T.stranded = S.stranded, T.free = S.free,
         SameIds(S.vnode, T.vnode), SameUse(S.vnode, T.vnode)
  PROVE  Good(T)
<1>1. S.vnode \in [VnodeT -> VnodeRec] /\ T.vnode \in [VnodeT -> VnodeRec]
  BY DEF Good, StateT
<1>2. /\ \A i : Uses(T.vnode, i) = Uses(S.vnode, i)
      /\ OneVnode(S.vnode) => OneVnode(T.vnode)
      /\ FreeOK(S.vnode, S.free) => FreeOK(T.vnode, S.free)
      /\ (\A v \in VnodeT : ShowsInode(S.vnode, S.inode, v))
         => \A v \in VnodeT : ShowsInode(T.vnode, S.inode, v)
  BY <1>1, SameShown
<1>3. \A i \in Ino : LinksExact(T.inode, T.vnode, T.stranded, i)
  BY <1>2 DEF Good, LinksExact
<1>. QED BY <1>2, <1>3 DEF Good

(* The one vnode of an inode                                                *)
LEMMA TheVnode ==
  ASSUME NEW S, OneVnode(S.vnode), NEW v \in VnodeT, S.vnode[v].vn_refcount > 0
  PROVE  InUse(S, S.vnode[v].vn_vno) = {v} /\ VnodeOf(S, S.vnode[v].vn_vno) = v
<1>1. InUse(S, S.vnode[v].vn_vno) = {v}
  BY DEF InUse, OneVnode
<1>. QED BY <1>1 DEF VnodeOf

(* An inode is shown when a vnode of it is in use.                          *)
LEMMA ShownIs ==
  ASSUME NEW S, NEW i
  PROVE  Shown(S.vnode, i) <=> InUse(S, i) # {}
BY DEF Shown, InUse
-----------------------------------------------------------------------------
(* What calls do to vnodes: the references after them, what stays           *)
Refs(S) == [v \in VnodeT |-> S.vnode[v].vn_refcount]
Plus(r, v) == [r EXCEPT ![v] = @ + 1]
Minus(r, v) == [r EXCEPT ![v] = @ - 1]

Quiet(S, T) ==
  /\ T.file = S.file /\ T.stranded = S.stranded
  /\ SameEntries(S.inode, T.inode) /\ SameSizes(S.inode, T.inode)
Kept(vn, vn2) ==
  \A v \in VnodeT : vn[v].vn_refcount > 0 =>
    vn2[v].vn_vno = vn[v].vn_vno /\ vn2[v].vn_mode = vn[v].vn_mode /\ vn2[v].vn_len = vn[v].vn_len

Up(S) == S.panic = ""
SetVnode(S, vn, T) == T = [S EXCEPT !.vnode = vn]
SetRefcount(S, v, n, T) == T = [S EXCEPT !.vnode[v].vn_refcount = n]

(* A state with other vnodes is a state.                                    *)
LEMMA WithVnode ==
  ASSUME NEW S \in StateT, NEW vn \in [VnodeT -> VnodeRec], NEW T, SetVnode(S, vn, T)
  PROVE  /\ T \in StateT /\ T.vnode = vn
         /\ T.inode = S.inode /\ T.stranded = S.stranded /\ T.free = S.free
         /\ T.panic = S.panic /\ T.file = S.file
BY DEF StateT, SetVnode

Counting(vn, v, n, vn2) == vn2 = [vn EXCEPT ![v].vn_refcount = n]

(* Setting one count leaves what the vnodes show.                           *)
LEMMA WithRefcount ==
  ASSUME NEW vn \in [VnodeT -> VnodeRec], NEW v \in VnodeT, NEW n \in Nat, NEW vn2,
         Counting(vn, v, n, vn2)
  PROVE  /\ vn2 \in [VnodeT -> VnodeRec] /\ vn2[v].vn_refcount = n
         /\ \A w \in VnodeT \ {v} : vn2[w] = vn[w]
         /\ SameIds(vn, vn2)
<1>1. vn[v] \in VnodeRec
  OBVIOUS
<1>2. vn2 = [vn EXCEPT ![v] = [vn[v] EXCEPT !.vn_refcount = n]]
  BY DEF Counting
<1>3. PICK r : r = [vn[v] EXCEPT !.vn_refcount = n]
  OBVIOUS
<1>4. r \in VnodeRec /\ r.vn_refcount = n /\ r.vn_vno = vn[v].vn_vno /\ r.vn_mode = vn[v].vn_mode
      /\ r.vn_len = vn[v].vn_len
  BY <1>1, <1>3 DEF VnodeRec
<1>5. vn2 = [vn EXCEPT ![v] = r]
  BY <1>2, <1>3
<1>. QED BY <1>4, <1>5 DEF SameIds

(* One count went up by one.                                                *)
LEMMA RefsPlus ==
  ASSUME NEW S, NEW T, S.vnode \in [VnodeT -> VnodeRec], NEW v \in VnodeT,
         T.vnode[v].vn_refcount = S.vnode[v].vn_refcount + 1,
         \A w \in VnodeT \ {v} : T.vnode[w].vn_refcount = S.vnode[w].vn_refcount
  PROVE  Refs(T) = Plus(Refs(S), v)
BY DEF Refs, Plus

(* One count went down by one.                                              *)
LEMMA RefsMinus ==
  ASSUME NEW S, NEW T, S.vnode \in [VnodeT -> VnodeRec], NEW v \in VnodeT,
         T.vnode[v].vn_refcount = S.vnode[v].vn_refcount - 1,
         \A w \in VnodeT \ {v} : T.vnode[w].vn_refcount = S.vnode[w].vn_refcount
  PROVE  Refs(T) = Minus(Refs(S), v)
BY DEF Refs, Minus

(* A vnode in use with a reference more or less, and still in use           *)
LEMMA RefcountGood ==
  ASSUME NEW S, Good(S), NEW v \in VnodeT, S.vnode[v].vn_refcount > 0, NEW n \in Nat \ {0},
         NEW T, SetRefcount(S, v, n, T)
  PROVE  /\ Good(T) /\ T.panic = S.panic /\ Quiet(S, T) /\ SameIds(S.vnode, T.vnode)
         /\ T.vnode[v].vn_refcount = n
         /\ \A w \in VnodeT \ {v} : T.vnode[w] = S.vnode[w]
<1>1. S \in StateT /\ S.vnode \in [VnodeT -> VnodeRec]
  BY DEF Good, StateT
<1>2. PICK vn : Counting(S.vnode, v, n, vn)
  BY DEF Counting
<1>3. vn \in [VnodeT -> VnodeRec] /\ vn[v].vn_refcount = n /\ SameIds(S.vnode, vn)
      /\ \A w \in VnodeT \ {v} : vn[w] = S.vnode[w]
  BY <1>1, <1>2, WithRefcount
<1>4. SetVnode(S, vn, T)
  BY <1>2 DEF SetVnode, SetRefcount, Counting
<1>5. /\ T \in StateT /\ T.vnode = vn
      /\ T.inode = S.inode /\ T.stranded = S.stranded /\ T.free = S.free
      /\ T.panic = S.panic /\ T.file = S.file
  BY <1>1, <1>3, <1>4, WithVnode
<1>6. SameUse(S.vnode, vn)
  <2>1. \A w \in VnodeT : w # v => vn[w] = S.vnode[w]
    BY <1>3
  <2>. QED BY <1>3, <2>1 DEF SameUse
<1>7. Good(T)
  BY <1>3, <1>5, <1>6, RefsOnly
<1>. QED BY <1>3, <1>5, <1>7 DEF Quiet, SameEntries, SameEntry, SameSizes

(* A vnode in use is given one more reference (vnode.c vref).               *)
LEMMA VrefGood ==
  ASSUME NEW S, Good(S), Up(S), NEW v \in VnodeT, S.vnode[v].vn_refcount > 0,
         NEW T, T = vref(S, v)
  PROVE  /\ Good(T) /\ Up(T) /\ Quiet(S, T)
         /\ SameIds(S.vnode, T.vnode) /\ Refs(T) = Plus(Refs(S), v)
<1>1. S.vnode \in [VnodeT -> VnodeRec] /\ S.vnode[v].vn_refcount \in Nat
  BY DEF Good, StateT, VnodeRec
<1>2. PICK n : n = S.vnode[v].vn_refcount + 1
  OBVIOUS
<1>3. SetRefcount(S, v, n, T)
  <2>1. S.vnode[v].vn_refcount # 0
    BY <1>1
  <2>. QED BY <1>2, <2>1 DEF vref, SetRefcount, Up
<1>4. n \in Nat \ {0}
  BY <1>1, <1>2
<1>5. /\ Good(T) /\ T.panic = S.panic /\ Quiet(S, T) /\ SameIds(S.vnode, T.vnode)
      /\ T.vnode[v].vn_refcount = n
      /\ \A w \in VnodeT \ {v} : T.vnode[w] = S.vnode[w]
  BY <1>3, <1>4, RefcountGood
<1>6. Refs(T) = Plus(Refs(S), v)
  BY <1>1, <1>2, <1>5, RefsPlus
<1>7. Up(T)
  BY <1>5 DEF Up
<1>. QED BY <1>5, <1>6, <1>7

(* The number of references to an inode from vnodes, when one goes          *)
LEMMA LastUse ==
  ASSUME NEW vn \in [VnodeT -> VnodeRec], OneVnode(vn), NEW v \in VnodeT, vn[v].vn_refcount > 0,
         NEW vn2 \in [VnodeT -> VnodeRec], vn2[v].vn_refcount = 0,
         \A w \in VnodeT \ {v} : vn2[w] = vn[w]
  PROVE  /\ Uses(vn, vn[v].vn_vno) = 1 /\ Uses(vn2, vn[v].vn_vno) = 0
         /\ \A i : i # vn[v].vn_vno => Uses(vn2, i) = Uses(vn, i)
         /\ OneVnode(vn2)
<1>1. Shown(vn, vn[v].vn_vno)
  BY DEF Shown
<1>2. ~Shown(vn2, vn[v].vn_vno)
  <2> SUFFICES ASSUME NEW w \in VnodeT, vn2[w].vn_refcount > 0, vn2[w].vn_vno = vn[v].vn_vno
               PROVE  FALSE
    BY DEF Shown
  <2>1. w # v
    OBVIOUS
  <2>2. vn[w].vn_refcount > 0 /\ vn[w].vn_vno = vn[v].vn_vno
    BY <2>1
  <2>. QED BY <2>1, <2>2 DEF OneVnode
<1>3. ASSUME NEW i, i # vn[v].vn_vno PROVE Shown(vn2, i) <=> Shown(vn, i)
  <2>1. ASSUME NEW w \in VnodeT
        PROVE  (vn2[w].vn_refcount > 0 /\ vn2[w].vn_vno = i) <=> (vn[w].vn_refcount > 0 /\ vn[w].vn_vno = i)
    <3>1. CASE w = v
      BY <1>3, <3>1
    <3>2. CASE w # v
      BY <3>2
    <3>. QED BY <3>1, <3>2
  <2>. QED BY <2>1 DEF Shown
<1>4. OneVnode(vn2)
  <2> SUFFICES ASSUME NEW w \in VnodeT, NEW x \in VnodeT, vn2[w].vn_refcount > 0,
                      vn2[x].vn_refcount > 0, vn2[w].vn_vno = vn2[x].vn_vno
               PROVE  w = x
    BY DEF OneVnode
  <2>1. w # v /\ x # v
    OBVIOUS
  <2>2. vn2[w] = vn[w] /\ vn2[x] = vn[x]
    BY <2>1
  <2>. QED BY <2>2 DEF OneVnode
<1>. QED BY <1>1, <1>2, <1>3, <1>4 DEF Uses

(* The free list with one more, and with its first one taken                *)
LEMMA FreePush ==
  ASSUME NEW vn, NEW free \in Seq(VnodeT), FreeOK(vn, free), NEW v \in VnodeT,
         vn[v].vn_refcount # 0, NEW vn2, vn2[v].vn_refcount = 0,
         \A w \in VnodeT \ {v} : vn2[w] = vn[w]
  PROVE  <<v>> \o free \in Seq(VnodeT) /\ FreeOK(vn2, <<v>> \o free)
<1> DEFINE fr == <<v>> \o free
<1>1. fr \in Seq(VnodeT) /\ Len(fr) = Len(free) + 1 /\ Len(free) \in Nat
  OBVIOUS
<1>2. fr[1] = v /\ \A k \in 2 .. (Len(free) + 1) : fr[k] = free[k - 1]
  OBVIOUS
<1>3. ASSUME NEW k \in 1 .. Len(free), free[k] = v PROVE FALSE
  <2>1. vn[v].vn_refcount = 0
    BY <1>3 DEF FreeOK
  <2>. QED BY <2>1
<1> HIDE DEF fr
<1>4. ASSUME NEW j \in 1 .. Len(fr), NEW k \in 1 .. Len(fr), fr[j] = fr[k] PROVE j = k
  <2>0. ASSUME NEW l \in 2 .. Len(fr) PROVE fr[l] # v
    <3>1. l - 1 \in 1 .. Len(free) /\ fr[l] = free[l - 1]
      BY <1>1, <1>2
    <3>. QED BY <3>1, <1>3
  <2>1. CASE j = 1 \/ k = 1
    <3>1. j = 1 \/ j \in 2 .. Len(fr)
      BY <1>1
    <3>2. k = 1 \/ k \in 2 .. Len(fr)
      BY <1>1
    <3>3. fr[1] = v
      BY <1>2
    <3>. QED BY <1>4, <2>0, <2>1, <3>1, <3>2, <3>3
  <2>2. CASE j # 1 /\ k # 1
    <3>1. /\ fr[j] = free[j - 1] /\ fr[k] = free[k - 1]
          /\ j - 1 \in 1 .. Len(free) /\ k - 1 \in 1 .. Len(free)
      BY <1>1, <1>2, <2>2
    <3>0. \A a, b \in 1 .. Len(free) : free[a] = free[b] => a = b
      BY DEF FreeOK
    <3>2. j - 1 = k - 1
      BY <1>4, <3>0, <3>1
    <3>. QED BY <1>1, <3>2
  <2>. QED BY <2>1, <2>2
<1>5. ASSUME NEW w \in VnodeT PROVE vn2[w].vn_refcount = 0 <=> \E k \in 1 .. Len(fr) : fr[k] = w
  <2>1. CASE w = v
    BY <1>1, <1>2, <2>1
  <2>2. CASE w # v
    <3>1. vn2[w].vn_refcount = 0 <=> \E k \in 1 .. Len(free) : free[k] = w
      BY <2>2 DEF FreeOK
    <3>2. ASSUME NEW k \in 1 .. Len(free), free[k] = w PROVE \E j \in 1 .. Len(fr) : fr[j] = w
      <4>1. k + 1 \in 1 .. Len(fr) /\ fr[k + 1] = w
        BY <1>1, <1>2, <3>2
      <4>. QED BY <4>1
    <3>3. ASSUME NEW j \in 1 .. Len(fr), fr[j] = w PROVE \E k \in 1 .. Len(free) : free[k] = w
      <4>1. j - 1 \in 1 .. Len(free) /\ free[j - 1] = w
        BY <1>1, <1>2, <2>2, <3>3
      <4>. QED BY <4>1
    <3>. QED BY <3>1, <3>2, <3>3
  <2>. QED BY <2>1, <2>2
<1>. QED BY <1>1, <1>4, <1>5 DEF FreeOK, fr

(* vget takes the first free vnode.                                         *)
LEMMA FreePop ==
  ASSUME NEW vn, NEW free \in Seq(VnodeT), FreeOK(vn, free), free # <<>>,
         NEW vn2, vn2[Head(free)].vn_refcount # 0,
         \A w \in VnodeT \ {Head(free)} : vn2[w] = vn[w]
  PROVE  /\ Head(free) \in VnodeT /\ vn[Head(free)].vn_refcount = 0
         /\ Tail(free) \in Seq(VnodeT) /\ FreeOK(vn2, Tail(free))
<1> DEFINE fr == Tail(free)
<1>1. fr \in Seq(VnodeT) /\ Len(free) \in Nat \ {0} /\ Len(fr) = Len(free) - 1
  OBVIOUS
<1>2. /\ Head(free) = free[1] /\ Head(free) \in VnodeT
      /\ \A k \in 1 .. (Len(free) - 1) : fr[k] = free[k + 1]
  OBVIOUS
<1>3. vn[Head(free)].vn_refcount = 0
  BY <1>1, <1>2 DEF FreeOK
<1> HIDE DEF fr
<1>4. ASSUME NEW j \in 1 .. Len(fr), NEW k \in 1 .. Len(fr), fr[j] = fr[k] PROVE j = k
  <2>1. free[j + 1] = free[k + 1] /\ j + 1 \in 1 .. Len(free) /\ k + 1 \in 1 .. Len(free)
    BY <1>1, <1>2, <1>4
  <2>2. j + 1 = k + 1
    BY <2>1 DEF FreeOK
  <2>. QED BY <1>1, <2>2
<1>5. ASSUME NEW w \in VnodeT PROVE vn2[w].vn_refcount = 0 <=> \E k \in 1 .. Len(fr) : fr[k] = w
  <2>1. CASE w = Head(free)
    <3>1. ASSUME NEW k \in 1 .. Len(fr), fr[k] = w PROVE FALSE
      <4>1. free[k + 1] = free[1] /\ k + 1 \in 1 .. Len(free) /\ 1 \in 1 .. Len(free)
        BY <1>1, <1>2, <2>1, <3>1
      <4>2. k + 1 = 1
        BY <4>1 DEF FreeOK
      <4>. QED BY <1>1, <4>2
    <3>. QED BY <2>1, <3>1
  <2>2. CASE w # Head(free)
    <3>1. vn2[w].vn_refcount = 0 <=> \E k \in 1 .. Len(free) : free[k] = w
      BY <2>2 DEF FreeOK
    <3>2. ASSUME NEW k \in 1 .. Len(free), free[k] = w PROVE \E j \in 1 .. Len(fr) : fr[j] = w
      <4>1. k - 1 \in 1 .. Len(fr) /\ fr[k - 1] = w
        BY <1>1, <1>2, <2>2, <3>2
      <4>. QED BY <4>1
    <3>3. ASSUME NEW j \in 1 .. Len(fr), fr[j] = w PROVE \E k \in 1 .. Len(free) : free[k] = w
      <4>1. j + 1 \in 1 .. Len(free) /\ free[j + 1] = w
        BY <1>1, <1>2, <3>3
      <4>. QED BY <4>1
    <3>. QED BY <3>1, <3>2, <3>3
  <2>. QED BY <2>1, <2>2
<1>. QED BY <1>1, <1>2, <1>3, <1>4, <1>5 DEF FreeOK, fr
-----------------------------------------------------------------------------
(* Inodes with another link count, and with one less                        *)
InodesT == [Ino -> InodeT \cup {NoInode}]
InodesOK(ino) == \A i \in Ino : ino[i] # NoInode => InodeOK(i, ino[i])
AllShow(vn, ino) == \A v \in VnodeT : ShowsInode(vn, ino, v)
SetLinks(ino, i, n, ino2) == ino2 = [ino EXCEPT ![i].rf_linkcount = n]

(* Setting one link count leaves the entries.                               *)
LEMMA WithLinks ==
  ASSUME NEW ino \in InodesT, NEW i \in Ino, ino[i] # NoInode, NEW n \in Nat, NEW ino2,
         SetLinks(ino, i, n, ino2)
  PROVE  /\ ino2 \in InodesT /\ SameEntries(ino, ino2) /\ SameSizes(ino, ino2)
         /\ ino2[i].rf_linkcount = n /\ \A j \in Ino \ {i} : ino2[j] = ino[j]
<1>1. ino[i] \in InodeT
  BY DEF InodesT
<1>2. PICK r : r = [ino[i] EXCEPT !.rf_linkcount = n]
  OBVIOUS
<1>3. /\ r \in InodeT /\ r.rf_linkcount = n /\ r.rf_mode = ino[i].rf_mode /\ r.rf_mem = ino[i].rf_mem
      /\ r.rf_size = ino[i].rf_size
  BY <1>1, <1>2 DEF InodeT
<1>4. ino2 = [ino EXCEPT ![i] = r]
  BY <1>2 DEF SetLinks
<1>5. r # NoInode
  BY <1>3, RamfsAssumption
<1>6. ino2[i] = r /\ \A j \in Ino \ {i} : ino2[j] = ino[j]
  BY <1>4 DEF InodesT
<1>7. ino2 \in InodesT
  BY <1>3, <1>4 DEF InodesT
<1>8. \A j \in Ino : SameEntry(ino[j], ino2[j])
  BY <1>3, <1>5, <1>6 DEF SameEntry
<1>9. SameSizes(ino, ino2)
  BY <1>3, <1>6 DEF SameSizes
<1>. QED BY <1>3, <1>6, <1>7, <1>8, <1>9 DEF SameEntries

(* Inodes with the same entries and sizes are as good as before.            *)
LEMMA SameInodes ==
  ASSUME NEW ino, NEW ino2, SameEntries(ino, ino2), SameSizes(ino, ino2)
  PROVE  /\ InodesOK(ino) => InodesOK(ino2)
         /\ \A vn \in [VnodeT -> VnodeRec] : AllShow(vn, ino) => AllShow(vn, ino2)
<1>1. \A i \in Ino : /\ ino2[i] = NoInode <=> ino[i] = NoInode
                     /\ ino[i] # NoInode => /\ ino2[i].rf_mode = ino[i].rf_mode
                                            /\ ino2[i].rf_mem = ino[i].rf_mem
                                            /\ ino2[i].rf_size = ino[i].rf_size
  BY DEF SameEntries, SameEntry, SameSizes
<1>2. ASSUME NEW i \in Ino, InodesOK(ino), ino2[i] # NoInode PROVE InodeOK(i, ino2[i])
  <2>1. InodeOK(i, ino[i])
    BY <1>1, <1>2 DEF InodesOK
  <2>2. /\ ino2[i].rf_mode = ino[i].rf_mode /\ ino2[i].rf_mem = ino[i].rf_mem
        /\ ino2[i].rf_size = ino[i].rf_size
    BY <1>1, <1>2
  <2>. QED BY <2>1, <2>2 DEF InodeOK
<1>3. ASSUME NEW vn \in [VnodeT -> VnodeRec], AllShow(vn, ino), NEW v \in VnodeT
      PROVE  ShowsInode(vn, ino2, v)
  <2>1. vn[v].vn_vno \in Ino
    BY DEF VnodeRec
  <2>2. PICK i \in Ino : i = vn[v].vn_vno
    BY <2>1
  <2>3. ShowsInode(vn, ino, v)
    BY <1>3 DEF AllShow
  <2>. QED BY <1>1, <2>2, <2>3 DEF ShowsInode
<1>. QED BY <1>2, <1>3 DEF InodesOK, AllShow

(* What a removed directory held, counted by inode                          *)
RemoveInode(ino, i, ino2) == ino2 = [ino EXCEPT ![i] = NoInode]
HeldBy(mem, j) == {n \in Name : mem[n] = j}

(* A directory has as many names of an inode as entries that lead to it.    *)
LEMMA PairCount ==
  ASSUME NEW i, NEW T \in SUBSET Name
  PROVE  IsFiniteSet({i} \X T) /\ Cardinality({i} \X T) = Cardinality(T) /\ Cardinality(T) \in Nat
<1>1. IsFiniteSet(T) /\ Cardinality(T) \in Nat
  BY RamfsAssumption, FS_Subset, FS_CardinalityType
<1>2. IsFiniteSet({i}) /\ Cardinality({i}) = 1
  BY FS_Singleton
<1>3. IsFiniteSet({i} \X T) /\ Cardinality({i} \X T) = Cardinality({i}) * Cardinality(T)
  BY <1>1, <1>2, FS_Product
<1>. QED BY <1>1, <1>2, <1>3

(* An inode without a name goes, and with it the names it held.             *)
LEMMA InodeGone ==
  ASSUME NEW ino \in InodesT, InodesOK(ino), NEW i \in Ino, ino[i] # NoInode, NamesIn(ino, i) = {},
         NEW ino2, RemoveInode(ino, i, ino2)
  PROVE  /\ ino2 \in InodesT /\ ino2[i] = NoInode /\ (\A j \in Ino \ {i} : ino2[j] = ino[j])
         /\ InodesOK(ino2)
         /\ \A j : NamesIn(ino2, j) = NamesIn(ino, j) \ ({i} \X Name)
         /\ \A j \in Ino : NameCount(ino, j) = NameCount(ino2, j) + Cardinality(HeldBy(ino[i].rf_mem, j))
         /\ Tree(ino) => Tree(ino2)
<1>1. ino2 \in InodesT /\ ino2[i] = NoInode /\ \A j \in Ino \ {i} : ino2[j] = ino[j]
  BY DEF InodesT, RemoveInode
<1>2. InodesOK(ino2)
  BY <1>1 DEF InodesOK
<1>3. DirsIn(ino2) = DirsIn(ino) \ {i}
  BY <1>1 DEF DirsIn
<1>4. \A j : NamesIn(ino2, j) = NamesIn(ino, j) \ ({i} \X Name)
  <2>1. \A d \in DirsIn(ino2) : ino2[d] = ino[d]
    BY <1>1, <1>3 DEF DirsIn
  <2>. QED BY <1>3, <2>1 DEF NamesIn
<1>5. ASSUME NEW j \in Ino
      PROVE  NameCount(ino, j) = NameCount(ino2, j) + Cardinality(HeldBy(ino[i].rf_mem, j))
  <2> DEFINE H == HeldBy(ino[i].rf_mem, j)
  <2>0. H \in SUBSET Name
    BY DEF HeldBy
  <2>1. IsFiniteSet({i} \X H) /\ Cardinality({i} \X H) = Cardinality(H) /\ Cardinality(H) \in Nat
    BY <2>0, PairCount
  <2>2. NamesIn(ino, j) = NamesIn(ino2, j) \cup ({i} \X H)
    <3>1. CASE i \in DirsIn(ino)
      <4>1. \A n \in Name : <<i, n>> \in NamesIn(ino, j) <=> n \in H
        BY <3>1 DEF NamesIn, HeldBy
      <4> HIDE DEF H
      <4>2. ASSUME NEW x \in NamesIn(ino, j), x \in {i} \X Name PROVE x \in {i} \X H
        <5>1. PICK n \in Name : x = <<i, n>>
          BY <4>2
        <5>. QED BY <4>1, <4>2, <5>1
      <4>3. ASSUME NEW x \in {i} \X H PROVE x \in NamesIn(ino, j)
        <5>1. PICK n \in H : x = <<i, n>>
          OBVIOUS
        <5>. QED BY <2>0, <4>1, <5>1
      <4>4. \A x : x \in NamesIn(ino2, j) <=> x \in NamesIn(ino, j) /\ x \notin {i} \X Name
        BY <1>4
      <4>. QED BY <2>0, <4>2, <4>3, <4>4
    <3>2. CASE i \notin DirsIn(ino)
      <4>1. ino[i].rf_mode # "dir" /\ InodeOK(i, ino[i])
        BY <3>2 DEF DirsIn, InodesOK
      <4>2. ino[i].rf_mem = NoMem
        BY <4>1 DEF InodeOK
      <4>3. H = {}
        BY <4>2, InoFacts DEF NoMem, HeldBy
      <4>4. NamesIn(ino, j) \cap ({i} \X Name) = {}
        BY <3>2 DEF NamesIn
      <4> HIDE DEF H
      <4>. QED BY <1>4, <4>3, <4>4
    <3>. QED BY <3>1, <3>2
  <2>3. NamesIn(ino2, j) \cap ({i} \X H) = {}
    <3> HIDE DEF H
    <3>. QED BY <1>4, <2>0
  <2>4. IsFiniteSet(NamesIn(ino2, j))
    BY NamesFinite
  <2> HIDE DEF H
  <2>5. Cardinality(NamesIn(ino2, j) \cup ({i} \X H))
          = Cardinality(NamesIn(ino2, j)) + Cardinality({i} \X H) - Cardinality(NamesIn(ino2, j) \cap ({i} \X H))
    BY <2>1, <2>4, FS_Union
  <2>6. Cardinality(NamesIn(ino2, j) \cap ({i} \X H)) = 0
    BY <2>3, FS_EmptySet
  <2>7. Cardinality(NamesIn(ino2, j)) \in Nat
    BY <2>4, FS_CardinalityType
  <2>8. Cardinality(NamesIn(ino, j)) = Cardinality(NamesIn(ino2, j)) + Cardinality(H)
    BY <2>1, <2>2, <2>5, <2>6, <2>7
  <2>. QED BY <2>8 DEF NameCount, H
<1>6. ASSUME Tree(ino) PROVE Tree(ino2)
  <2> SUFFICES ASSUME NEW d \in DirsIn(ino2)
               PROVE  /\ \A x, y \in NamesIn(ino2, d) : x = y
                      /\ \A x \in NamesIn(ino2, d) : ino2[d].rf_mem[DotDot] = x[1]
    BY DEF Tree
  <2>1. d \in DirsIn(ino) /\ ino2[d] = ino[d]
    BY <1>1, <1>3 DEF DirsIn
  <2>2. \A x : x \in NamesIn(ino2, d) => x \in NamesIn(ino, d)
    BY <1>4
  <2>3. /\ \A x, y \in NamesIn(ino, d) : x = y
        /\ \A x \in NamesIn(ino, d) : ino[d].rf_mem[DotDot] = x[1]
    BY <1>6, <2>1 DEF Tree
  <2>. QED BY <2>1, <2>2, <2>3
<1>. QED BY <1>1, <1>2, <1>4, <1>5, <1>6
-----------------------------------------------------------------------------
(* States with other parts                                                  *)
SetPushed(S, vn, fr, T) == T = [S EXCEPT !.vnode = vn, !.free = fr]
SetInodes(S, ino, T) == T = [S EXCEPT !.inode = ino]
SetStranded(S, ino, str, T) == T = [S EXCEPT !.inode = ino, !.stranded = str]

(* A state with other vnodes and another free list is a state.              *)
LEMMA WithPushed ==
  ASSUME NEW S \in StateT, NEW vn \in [VnodeT -> VnodeRec], NEW fr \in Seq(VnodeT), NEW T,
         SetPushed(S, vn, fr, T)
  PROVE  /\ T \in StateT /\ T.vnode = vn /\ T.free = fr
         /\ T.inode = S.inode /\ T.stranded = S.stranded
         /\ T.panic = S.panic /\ T.file = S.file
BY DEF StateT, SetPushed

(* A state with other names stranded is a state.                            *)
LEMMA WithStranded ==
  ASSUME NEW S \in StateT, NEW ino \in InodesT, NEW str \in [Ino -> Nat], NEW T,
         SetStranded(S, ino, str, T)
  PROVE  /\ T \in StateT /\ T.inode = ino /\ T.stranded = str
         /\ T.vnode = S.vnode /\ T.free = S.free
         /\ T.panic = S.panic /\ T.file = S.file
BY DEF StateT, SetStranded, InodesT

(* A state with other inodes is a state.                                    *)
LEMMA WithInodes ==
  ASSUME NEW S \in StateT, NEW ino \in InodesT, NEW T, SetInodes(S, ino, T)
  PROVE  /\ T \in StateT /\ T.inode = ino /\ T.stranded = S.stranded
         /\ T.vnode = S.vnode /\ T.free = S.free
         /\ T.panic = S.panic /\ T.file = S.file
BY DEF StateT, SetInodes, InodesT

(* The parts of Good, with their names.                                     *)
LEMMA GoodParts ==
  ASSUME NEW S
  PROVE  Good(S) <=>
           /\ S \in StateT /\ OneVnode(S.vnode) /\ AllShow(S.vnode, S.inode)
           /\ \A i \in Ino : LinksExact(S.inode, S.vnode, S.stranded, i)
           /\ InodesOK(S.inode) /\ RootOK(S.inode) /\ FreeOK(S.vnode, S.free)
           /\ LinksInPlace => Tree(S.inode)
BY DEF Good, AllShow, InodesOK

(* The parts of a state and their types.                                    *)
LEMMA StateParts ==
  ASSUME NEW S \in StateT
  PROVE  /\ S.vnode \in [VnodeT -> VnodeRec] /\ S.inode \in InodesT /\ S.stranded \in [Ino -> Nat]
         /\ S.free \in Seq(VnodeT) /\ S.file \in [FileT -> FileRec] /\ S.panic \in PanicT
BY DEF StateT, InodesT

(* a link count, where it is exact                                          *)
LEMMA LinkTypes ==
  ASSUME NEW ino \in InodesT, NEW vn, NEW str \in [Ino -> Nat], NEW i \in Ino
  PROVE  /\ NameCount(ino, i) \in Nat /\ Uses(vn, i) \in {0, 1} /\ str[i] \in Nat
         /\ RootLink(i) \in {0, 1} /\ (ino[i] # NoInode => ino[i].rf_linkcount \in Nat)
         /\ NamesIn(ino, i) = {} <=> NameCount(ino, i) = 0
<1>1. ino[i] # NoInode => ino[i].rf_linkcount \in Nat
  BY DEF InodesT, InodeT
<1>2. NamesIn(ino, i) = {} <=> NameCount(ino, i) = 0
  BY NamesFinite, FS_EmptySet DEF NameCount
<1>. QED BY <1>1, <1>2, NamesFinite DEF Uses, RootLink

(* The last reference to a vnode, whose inode has other links               *)
LEMMA PutKeepsInode ==
  ASSUME NEW S, Good(S), NEW v \in VnodeT, S.vnode[v].vn_refcount > 0,
         NEW i, i = S.vnode[v].vn_vno, NEW l, l = S.inode[i].rf_linkcount, l # 1,
         NEW vn, Counting(S.vnode, v, 0, vn), NEW fr \in Seq(VnodeT), FreeOK(vn, fr),
         NEW S1, SetPushed(S, vn, fr, S1),
         NEW ino, SetLinks(S.inode, i, l - 1, ino), NEW T, SetInodes(S1, ino, T)
  PROVE  /\ Good(T) /\ T.panic = S.panic /\ Quiet(S, T) /\ SameIds(S.vnode, T.vnode)
         /\ T.vnode = vn
<1>0. /\ S \in StateT /\ OneVnode(S.vnode) /\ AllShow(S.vnode, S.inode)
      /\ \A j \in Ino : LinksExact(S.inode, S.vnode, S.stranded, j)
      /\ InodesOK(S.inode) /\ RootOK(S.inode) /\ FreeOK(S.vnode, S.free)
      /\ LinksInPlace => Tree(S.inode)
  BY GoodParts
<1>1. /\ S.vnode \in [VnodeT -> VnodeRec] /\ S.inode \in InodesT /\ S.stranded \in [Ino -> Nat]
      /\ S.free \in Seq(VnodeT)
  BY <1>0, StateParts
<1>2. /\ vn \in [VnodeT -> VnodeRec] /\ vn[v].vn_refcount = 0
      /\ \A w \in VnodeT \ {v} : vn[w] = S.vnode[w]
      /\ SameIds(S.vnode, vn)
  BY <1>1, WithRefcount
<1>3. i \in Ino /\ S.inode[i] # NoInode
  BY <1>0, <1>1 DEF AllShow, ShowsInode, VnodeRec
<1>4. l \in Nat /\ l > 0 /\ l - 1 \in Nat /\ l - 1 > 0
  <2>1. l \in Nat
    BY <1>1, <1>3, LinkTypes
  <2>2. l > 0
    BY <1>0, <1>3 DEF LinksExact
  <2>. QED BY <2>1, <2>2
<1>5. /\ ino \in InodesT /\ SameEntries(S.inode, ino) /\ SameSizes(S.inode, ino)
      /\ ino[i].rf_linkcount = l - 1 /\ \A j \in Ino \ {i} : ino[j] = S.inode[j]
  BY <1>1, <1>3, <1>4, WithLinks
<1>7. /\ S1 \in StateT /\ S1.vnode = vn /\ S1.free = fr
      /\ S1.inode = S.inode /\ S1.stranded = S.stranded
      /\ S1.panic = S.panic /\ S1.file = S.file
  BY <1>0, <1>2, WithPushed
<1>8. /\ T \in StateT /\ T.inode = ino /\ T.stranded = S.stranded
      /\ T.vnode = vn /\ T.free = fr
      /\ T.panic = S.panic /\ T.file = S.file
  BY <1>5, <1>7, WithInodes
<1>9. /\ Uses(S.vnode, i) = 1 /\ Uses(vn, i) = 0
      /\ \A j : j # i => Uses(vn, j) = Uses(S.vnode, j)
      /\ OneVnode(vn)
  <2>1. /\ Uses(S.vnode, S.vnode[v].vn_vno) = 1 /\ Uses(vn, S.vnode[v].vn_vno) = 0
        /\ \A j : j # S.vnode[v].vn_vno => Uses(vn, j) = Uses(S.vnode, j)
        /\ OneVnode(vn)
    BY <1>0, <1>1, <1>2, LastUse
  <2>. QED BY <2>1
<1>10. AllShow(vn, ino)
  <2>1. AllShow(vn, S.inode)
    <3> SUFFICES ASSUME NEW w \in VnodeT, vn[w].vn_refcount > 0 PROVE ShowsInode(vn, S.inode, w)
      BY DEF AllShow, ShowsInode
    <3>1. w # v
      BY <1>2
    <3>2. vn[w] = S.vnode[w] /\ ShowsInode(S.vnode, S.inode, w)
      BY <1>0, <1>2, <3>1 DEF AllShow
    <3>. QED BY <3>2 DEF ShowsInode
  <2>. QED BY <1>2, <1>5, <2>1, SameInodes
<1>11. /\ InodesOK(ino) /\ RootOK(ino) /\ (LinksInPlace => Tree(ino))
       /\ \A j \in Ino : NameCount(ino, j) = NameCount(S.inode, j) /\ NamesIn(ino, j) = NamesIn(S.inode, j)
  BY <1>0, <1>5, SameInodes, SameTree, SameNames
<1>12. ASSUME NEW j \in Ino PROVE LinksExact(ino, vn, S.stranded, j)
  <2>1. LinksExact(S.inode, S.vnode, S.stranded, j) /\ (ino[j] = NoInode <=> S.inode[j] = NoInode)
    BY <1>0, <1>5 DEF SameEntries, SameEntry
  <2>2. CASE j = i
    <3>1. /\ NameCount(S.inode, i) \in Nat /\ Uses(S.vnode, i) \in {0, 1} /\ S.stranded[i] \in Nat
          /\ RootLink(i) \in {0, 1}
      BY <1>1, <1>3, LinkTypes
    <3>2. l = NameCount(S.inode, i) + 1 + S.stranded[i] + RootLink(i)
      BY <1>3, <1>9, <2>1, <2>2 DEF LinksExact
    <3>3. l - 1 = NameCount(S.inode, i) + 0 + S.stranded[i] + RootLink(i)
      BY ONLY <3>1, <3>2
    <3>4. ino[i].rf_linkcount = NameCount(ino, i) + Uses(vn, i) + S.stranded[i] + RootLink(i)
      BY <1>3, <1>5, <1>9, <1>11, <3>3
    <3>. QED BY <1>3, <1>4, <1>5, <2>1, <2>2, <3>4 DEF LinksExact
  <2>3. CASE j # i
    BY <1>5, <1>9, <1>11, <2>1, <2>3 DEF LinksExact
  <2>. QED BY <2>2, <2>3
<1>13. Good(T)
  BY <1>8, <1>9, <1>10, <1>11, <1>12, GoodParts
<1>. QED BY <1>2, <1>5, <1>8, <1>13 DEF Quiet

Strand(str, mem, str2) == str2 = [j \in Ino |-> str[j] + Cardinality(HeldBy(mem, j))]

(* What stranded counts once a directory is freed.                          *)
LEMMA Stranding ==
  ASSUME NEW str \in [Ino -> Nat], NEW mem, NEW str2, Strand(str, mem, str2)
  PROVE  /\ str2 \in [Ino -> Nat]
         /\ \A j \in Ino : str2[j] = str[j] + Cardinality(HeldBy(mem, j))
<1>1. ASSUME NEW j \in Ino PROVE Cardinality(HeldBy(mem, j)) \in Nat
  <2>1. HeldBy(mem, j) \in SUBSET Name
    BY DEF HeldBy
  <2>. QED BY <2>1, PairCount
<1>. QED BY <1>1 DEF Strand

(* The last reference to a vnode, and the last link of its inode            *)
LEMMA PutFreesInode ==
  ASSUME NEW S, Good(S), NEW v \in VnodeT, S.vnode[v].vn_refcount > 0,
         NEW i, i = S.vnode[v].vn_vno, S.inode[i].rf_linkcount = 1,
         NEW vn, Counting(S.vnode, v, 0, vn), NEW fr \in Seq(VnodeT), FreeOK(vn, fr),
         NEW S1, SetPushed(S, vn, fr, S1),
         NEW ino, RemoveInode(S.inode, i, ino), NEW str, Strand(S.stranded, S.inode[i].rf_mem, str),
         NEW T, SetStranded(S1, ino, str, T)
  PROVE  /\ Good(T) /\ T.panic = S.panic /\ T.file = S.file /\ SameIds(S.vnode, T.vnode)
         /\ T.vnode = vn
<1>0. /\ S \in StateT /\ OneVnode(S.vnode) /\ AllShow(S.vnode, S.inode)
      /\ \A j \in Ino : LinksExact(S.inode, S.vnode, S.stranded, j)
      /\ InodesOK(S.inode) /\ RootOK(S.inode)
      /\ LinksInPlace => Tree(S.inode)
  BY GoodParts
<1>1. /\ S.vnode \in [VnodeT -> VnodeRec] /\ S.inode \in InodesT /\ S.stranded \in [Ino -> Nat]
  BY <1>0, StateParts
<1>2. /\ vn \in [VnodeT -> VnodeRec] /\ vn[v].vn_refcount = 0
      /\ \A w \in VnodeT \ {v} : vn[w] = S.vnode[w]
      /\ SameIds(S.vnode, vn)
  BY <1>1, WithRefcount
<1>3. i \in Ino /\ S.inode[i] # NoInode
  BY <1>0, <1>1 DEF AllShow, ShowsInode, VnodeRec
<1>4. /\ Uses(S.vnode, i) = 1 /\ Uses(vn, i) = 0
      /\ \A j : j # i => Uses(vn, j) = Uses(S.vnode, j)
      /\ OneVnode(vn)
  <2>1. /\ Uses(S.vnode, S.vnode[v].vn_vno) = 1 /\ Uses(vn, S.vnode[v].vn_vno) = 0
        /\ \A j : j # S.vnode[v].vn_vno => Uses(vn, j) = Uses(S.vnode, j)
        /\ OneVnode(vn)
    BY <1>0, <1>1, <1>2, LastUse
  <2>. QED BY <2>1
<1>5. NamesIn(S.inode, i) = {} /\ S.stranded[i] = 0 /\ i # 0
  <2>1. 1 = NameCount(S.inode, i) + 1 + S.stranded[i] + RootLink(i)
    BY <1>0, <1>3, <1>4 DEF LinksExact
  <2>2. /\ NameCount(S.inode, i) \in Nat /\ S.stranded[i] \in Nat /\ RootLink(i) \in {0, 1}
        /\ NamesIn(S.inode, i) = {} <=> NameCount(S.inode, i) = 0
    BY <1>1, <1>3, LinkTypes
  <2>3. NameCount(S.inode, i) = 0 /\ S.stranded[i] = 0 /\ RootLink(i) = 0
    BY ONLY <2>1, <2>2
  <2>. QED BY <2>2, <2>3 DEF RootLink
<1>6. /\ ino \in InodesT /\ ino[i] = NoInode /\ (\A j \in Ino \ {i} : ino[j] = S.inode[j])
      /\ InodesOK(ino)
      /\ \A j : NamesIn(ino, j) = NamesIn(S.inode, j) \ ({i} \X Name)
      /\ \A j \in Ino : NameCount(S.inode, j)
                          = NameCount(ino, j) + Cardinality(HeldBy(S.inode[i].rf_mem, j))
      /\ Tree(S.inode) => Tree(ino)
  BY <1>0, <1>1, <1>3, <1>5, InodeGone
<1>7. /\ str \in [Ino -> Nat]
      /\ \A j \in Ino : str[j] = S.stranded[j] + Cardinality(HeldBy(S.inode[i].rf_mem, j))
  BY <1>1, Stranding
<1>8. /\ S1 \in StateT /\ S1.vnode = vn /\ S1.free = fr
      /\ S1.inode = S.inode /\ S1.stranded = S.stranded
      /\ S1.panic = S.panic /\ S1.file = S.file
  BY <1>0, <1>2, WithPushed
<1>9. /\ T \in StateT /\ T.inode = ino /\ T.stranded = str
      /\ T.vnode = vn /\ T.free = fr
      /\ T.panic = S.panic /\ T.file = S.file
  BY <1>6, <1>7, <1>8, WithStranded
<1>10. ASSUME NEW w \in VnodeT PROVE ShowsInode(vn, ino, w)
  <2> SUFFICES ASSUME vn[w].vn_refcount > 0 PROVE ShowsInode(vn, ino, w)
    BY DEF ShowsInode
  <2>1. w # v
    BY <1>2
  <2>2. vn[w] = S.vnode[w] /\ ShowsInode(S.vnode, S.inode, w)
    BY <1>0, <1>2, <2>1 DEF AllShow
  <2>3. S.vnode[w].vn_vno # i
    BY <1>0, <2>1, <2>2 DEF OneVnode
  <2>4. S.vnode[w].vn_vno \in Ino
    BY <1>1 DEF VnodeRec
  <2>5. ino[S.vnode[w].vn_vno] = S.inode[S.vnode[w].vn_vno]
    BY <1>6, <2>3, <2>4
  <2>. QED BY <2>2, <2>5 DEF ShowsInode
<1>11. RootOK(ino)
  BY <1>0, <1>5, <1>6, InoFacts DEF RootOK
<1>12. ASSUME NEW j \in Ino PROVE LinksExact(ino, vn, str, j)
  <2> DEFINE h == Cardinality(HeldBy(S.inode[i].rf_mem, j))
  <2>1. LinksExact(S.inode, S.vnode, S.stranded, j)
    BY <1>0
  <2>2. /\ NameCount(S.inode, j) \in Nat /\ S.stranded[j] \in Nat /\ RootLink(j) \in {0, 1}
        /\ NamesIn(S.inode, j) = {} <=> NameCount(S.inode, j) = 0
        /\ NameCount(ino, j) \in Nat /\ str[j] \in Nat
        /\ NamesIn(ino, j) = {} <=> NameCount(ino, j) = 0
    BY <1>1, <1>6, <1>7, LinkTypes
  <2>3. NameCount(S.inode, j) = NameCount(ino, j) + h /\ str[j] = S.stranded[j] + h
    BY <1>6, <1>7
  <2>4. h \in Nat
    <3>1. HeldBy(S.inode[i].rf_mem, j) \in SUBSET Name
      BY DEF HeldBy
    <3>. QED BY <3>1, PairCount
  <2> HIDE DEF h
  <2>5. CASE S.inode[j] = NoInode \/ j = i
    <3>1. NameCount(S.inode, j) = 0 /\ S.stranded[j] = 0 /\ ino[j] = NoInode
      BY <1>3, <1>5, <1>6, <2>1, <2>2, <2>5 DEF LinksExact
    <3>2. NameCount(ino, j) = 0 /\ str[j] = 0
      BY ONLY <2>2, <2>3, <2>4, <3>1
    <3>. QED BY <2>2, <3>1, <3>2 DEF LinksExact
  <2>6. CASE S.inode[j] # NoInode /\ j # i
    <3>1. /\ S.inode[j].rf_linkcount = NameCount(S.inode, j) + Uses(S.vnode, j) + S.stranded[j] + RootLink(j)
          /\ S.inode[j].rf_linkcount > 0
      BY <2>1, <2>6 DEF LinksExact
    <3>2. ino[j] = S.inode[j] /\ Uses(vn, j) = Uses(S.vnode, j) /\ Uses(S.vnode, j) \in {0, 1}
      BY <1>4, <1>6, <2>6 DEF Uses
    <3>3. RootLink(j) \in {0, 1}
      BY DEF RootLink
    <3>4. NameCount(S.inode, j) + Uses(S.vnode, j) + S.stranded[j] + RootLink(j)
            = NameCount(ino, j) + Uses(S.vnode, j) + str[j] + RootLink(j)
      BY ONLY <2>2, <2>3, <2>4, <3>2, <3>3
    <3>. QED BY <2>6, <3>1, <3>2, <3>4 DEF LinksExact
  <2>. QED BY <2>5, <2>6
<1>13. Good(T)
  BY <1>0, <1>4, <1>6, <1>9, <1>10, <1>11, <1>12, GoodParts DEF AllShow
<1>. QED BY <1>2, <1>9, <1>13

(* A vnode in use loses a reference (vnode.c vput): its inode goes only with*)
(* its last link.                                                           *)
LEMMA VputGood ==
  ASSUME NEW S, Good(S), Up(S), NEW v \in VnodeT, S.vnode[v].vn_refcount > 0,
         NEW T, T = vput(S, v)
  PROVE  /\ Good(T) /\ Up(T) /\ T.file = S.file
         /\ SameIds(S.vnode, T.vnode) /\ Refs(T) = Minus(Refs(S), v)
         /\ S.vnode[v].vn_refcount > 1 \/ S.inode[S.vnode[v].vn_vno].rf_linkcount # 1 => Quiet(S, T)
<1>1. S.vnode \in [VnodeT -> VnodeRec] /\ S.vnode[v].vn_refcount \in Nat /\ S.inode \in InodesT
  BY GoodParts, StateParts DEF VnodeRec
<1>2. S.vnode[v].vn_refcount # 0
  BY <1>1
<1>3. CASE S.vnode[v].vn_refcount > 1
  <2>1. PICK n : n = S.vnode[v].vn_refcount - 1
    OBVIOUS
  <2>2. SetRefcount(S, v, n, T)
    BY <1>2, <1>3, <2>1 DEF vput, SetRefcount, Up
  <2>3. n \in Nat \ {0}
    BY <1>1, <1>3, <2>1
  <2>4. /\ Good(T) /\ T.panic = S.panic /\ Quiet(S, T) /\ SameIds(S.vnode, T.vnode)
        /\ T.vnode[v].vn_refcount = n
        /\ \A w \in VnodeT \ {v} : T.vnode[w] = S.vnode[w]
    BY <2>2, <2>3, RefcountGood
  <2>5. Refs(T) = Minus(Refs(S), v)
    BY <1>1, <2>1, <2>4, RefsMinus
  <2>6. Up(T)
    BY <2>4 DEF Up
  <2>. QED BY <2>4, <2>5, <2>6 DEF Quiet
<1>4. CASE ~(S.vnode[v].vn_refcount > 1)
  <2>1. PICK i : i = S.vnode[v].vn_vno
    OBVIOUS
  <2>2. PICK vn : Counting(S.vnode, v, 0, vn)
    BY DEF Counting
  <2>3. PICK fr : fr = <<v>> \o S.free
    OBVIOUS
  <2>4. PICK S1 : SetPushed(S, vn, fr, S1)
    BY DEF SetPushed
  <2>5. T = ramfs_delete_vnode(S1, i)
    BY <1>2, <1>4, <2>1, <2>2, <2>3, <2>4 DEF vput, Up, Counting, SetPushed
  <2>6. /\ vn \in [VnodeT -> VnodeRec] /\ vn[v].vn_refcount = 0
        /\ \A w \in VnodeT \ {v} : vn[w] = S.vnode[w]
        /\ SameIds(S.vnode, vn)
    BY <1>1, <2>2, WithRefcount
  <2>7. fr \in Seq(VnodeT) /\ FreeOK(vn, fr)
    <3>1. S.free \in Seq(VnodeT) /\ FreeOK(S.vnode, S.free)
      BY GoodParts, StateParts
    <3>. QED BY <1>2, <2>3, <2>6, <3>1, FreePush
  <2>8. S.vnode[v].vn_refcount = 1
    BY <1>1, <1>2, <1>4
  <2>9. ASSUME T.vnode = vn PROVE Refs(T) = Minus(Refs(S), v)
    <3>1. T.vnode[v].vn_refcount = S.vnode[v].vn_refcount - 1
      BY <2>6, <2>8, <2>9
    <3>2. \A w \in VnodeT \ {v} : T.vnode[w].vn_refcount = S.vnode[w].vn_refcount
      BY <2>6, <2>9
    <3>. QED BY <1>1, <3>1, <3>2, RefsMinus
  <2>10. S \in StateT /\ S1.inode = S.inode /\ S1.stranded = S.stranded
    BY <2>4, <2>6, <2>7, GoodParts, WithPushed
  <2>11. CASE S.inode[i].rf_linkcount = 1
    <3>1. PICK ino : RemoveInode(S.inode, i, ino)
      BY DEF RemoveInode
    <3>2. PICK str : Strand(S.stranded, S.inode[i].rf_mem, str)
      BY DEF Strand
    <3>3. SetStranded(S1, ino, str, T)
      BY <2>5, <2>10, <2>11, <3>1, <3>2 DEF ramfs_delete_vnode, RemoveInode, Strand, SetStranded, HeldBy
    <3>4. /\ Good(T) /\ T.panic = S.panic /\ T.file = S.file /\ SameIds(S.vnode, T.vnode)
          /\ T.vnode = vn
      BY <2>1, <2>2, <2>4, <2>7, <2>11, <3>1, <3>2, <3>3, PutFreesInode
    <3>. QED BY <1>4, <2>1, <2>9, <2>11, <3>4 DEF Up
  <2>12. CASE S.inode[i].rf_linkcount # 1
    <3>1. PICK l : l = S.inode[i].rf_linkcount
      OBVIOUS
    <3>2. PICK ino : SetLinks(S.inode, i, l - 1, ino)
      BY DEF SetLinks
    <3>3. SetInodes(S1, ino, T)
      BY <2>5, <2>10, <2>12, <3>1, <3>2 DEF ramfs_delete_vnode, SetLinks, SetInodes
    <3>4. /\ Good(T) /\ T.panic = S.panic /\ Quiet(S, T) /\ SameIds(S.vnode, T.vnode)
          /\ T.vnode = vn
      BY <2>1, <2>2, <2>4, <2>7, <2>12, <3>1, <3>2, <3>3, PutKeepsInode
    <3>. QED BY <2>9, <3>4 DEF Up, Quiet
  <2>. QED BY <2>11, <2>12
<1>. QED BY <1>3, <1>4

(* An inode that no vnode shows leaves a vnode free: there are as many      *)
(* vnodes as inodes, and no two show the same (vnode.c vget).               *)
LEMMA VnodeIsFree ==
  ASSUME NEW vn \in [VnodeT -> VnodeRec], OneVnode(vn), NEW free \in Seq(VnodeT), FreeOK(vn, free),
         NEW i \in Ino, ~Shown(vn, i)
  PROVE  free # <<>>
<1> SUFFICES ASSUME free = <<>> PROVE FALSE
  OBVIOUS
<1>1. \A w \in VnodeT : vn[w].vn_refcount > 0
  BY DEF FreeOK, VnodeRec
<1> DEFINE f == [w \in VnodeT |-> vn[w].vn_vno]
<1>2. f \in Injection(VnodeT, Ino \ {i})
  <2>1. f \in [VnodeT -> Ino \ {i}]
    BY <1>1 DEF Shown, VnodeRec
  <2>2. \A w, x \in VnodeT : f[w] = f[x] => w = x
    BY <1>1 DEF OneVnode
  <2> HIDE DEF f
  <2>. QED BY <2>1, <2>2 DEF Injection, IsInjective
<1> HIDE DEF f
<1>3. IsFiniteSet(Ino \ {i}) /\ Cardinality(Ino \ {i}) = MaxFiles - 1
  BY InoFacts, FS_RemoveElement
<1>4. Cardinality(VnodeT) <= MaxFiles - 1
  BY <1>2, <1>3, FS_Injection
<1>5. Cardinality(VnodeT) \in Nat
  BY RamfsAssumption, FS_CardinalityType
<1>. QED BY <1>4, <1>5, RamfsAssumption

(* An inode that is there, and that no vnode shows yet, is given one.       *)
LEMMA VgetReads ==
  ASSUME NEW S, Good(S), NEW i \in Ino, S.inode[i] # NoInode, ~Shown(S.vnode, i),
         NEW h \in VnodeT, S.vnode[h].vn_refcount = 0,
         NEW r \in VnodeRec, r.vn_refcount = 1, r.vn_vno = i, r.vn_mode = S.inode[i].rf_mode,
         r.vn_mode = "data" => r.vn_len = S.inode[i].rf_size,
         NEW vn, vn = [S.vnode EXCEPT ![h] = r],
         NEW fr \in Seq(VnodeT), FreeOK(vn, fr),
         NEW S1, SetPushed(S, vn, fr, S1),
         NEW l, l = S.inode[i].rf_linkcount,
         NEW ino, SetLinks(S.inode, i, l + 1, ino), NEW T, SetInodes(S1, ino, T)
  PROVE  /\ Good(T) /\ T.panic = S.panic /\ Quiet(S, T) /\ T.vnode = vn
<1>0. /\ S \in StateT /\ OneVnode(S.vnode) /\ AllShow(S.vnode, S.inode)
      /\ \A j \in Ino : LinksExact(S.inode, S.vnode, S.stranded, j)
      /\ InodesOK(S.inode) /\ RootOK(S.inode) /\ FreeOK(S.vnode, S.free)
      /\ LinksInPlace => Tree(S.inode)
  BY GoodParts
<1>1. /\ S.vnode \in [VnodeT -> VnodeRec] /\ S.inode \in InodesT /\ S.stranded \in [Ino -> Nat]
  BY <1>0, StateParts
<1>2. /\ vn \in [VnodeT -> VnodeRec] /\ vn[h] = r
      /\ \A w \in VnodeT : w # h => vn[w] = S.vnode[w]
  BY <1>1
<1>3. l \in Nat
  BY <1>1, LinkTypes
<1>4. /\ ino \in InodesT /\ SameEntries(S.inode, ino) /\ SameSizes(S.inode, ino)
      /\ ino[i].rf_linkcount = l + 1 /\ \A j \in Ino \ {i} : ino[j] = S.inode[j]
  <2>1. l + 1 \in Nat
    BY <1>3
  <2>. QED BY <1>1, <2>1, WithLinks
<1>5. /\ S1 \in StateT /\ S1.vnode = vn /\ S1.free = fr
      /\ S1.inode = S.inode /\ S1.stranded = S.stranded
      /\ S1.panic = S.panic /\ S1.file = S.file
  BY <1>0, <1>2, WithPushed
<1>6. /\ T \in StateT /\ T.inode = ino /\ T.stranded = S.stranded
      /\ T.vnode = vn /\ T.free = fr
      /\ T.panic = S.panic /\ T.file = S.file
  BY <1>4, <1>5, WithInodes
<1>7. Uses(vn, i) = 1 /\ Uses(S.vnode, i) = 0 /\ \A j : j # i => Uses(vn, j) = Uses(S.vnode, j)
  <2>1. Shown(vn, i)
    BY <1>2 DEF Shown
  <2>2. ASSUME NEW j, j # i PROVE Shown(vn, j) <=> Shown(S.vnode, j)
    <3>1. ASSUME NEW w \in VnodeT
          PROVE  (vn[w].vn_refcount > 0 /\ vn[w].vn_vno = j)
                   <=> (S.vnode[w].vn_refcount > 0 /\ S.vnode[w].vn_vno = j)
      <4>1. CASE w = h
        BY <1>2, <2>2, <4>1
      <4>2. CASE w # h
        BY <1>2, <4>2
      <4>. QED BY <4>1, <4>2
    <3>. QED BY <3>1 DEF Shown
  <2>. QED BY <2>1, <2>2 DEF Uses
<1>8. OneVnode(vn)
  <2> SUFFICES ASSUME NEW w \in VnodeT, NEW x \in VnodeT, vn[w].vn_refcount > 0,
                      vn[x].vn_refcount > 0, vn[w].vn_vno = vn[x].vn_vno
               PROVE  w = x
    BY DEF OneVnode
  <2>1. ASSUME NEW y \in VnodeT, y # h, vn[y].vn_refcount > 0 PROVE vn[y].vn_vno # i
    BY <1>2, <2>1 DEF Shown
  <2>2. CASE w = h \/ x = h
    BY <1>2, <2>1, <2>2
  <2>3. CASE w # h /\ x # h
    BY <1>0, <1>2, <2>3 DEF OneVnode
  <2>. QED BY <2>2, <2>3
<1>9. AllShow(vn, ino)
  <2>1. AllShow(vn, S.inode)
    <3> SUFFICES ASSUME NEW w \in VnodeT, vn[w].vn_refcount > 0 PROVE ShowsInode(vn, S.inode, w)
      BY DEF AllShow, ShowsInode
    <3>1. CASE w = h
      BY <1>2, <3>1 DEF ShowsInode
    <3>2. CASE w # h
      <4>1. vn[w] = S.vnode[w] /\ ShowsInode(S.vnode, S.inode, w)
        BY <1>0, <1>2, <3>2 DEF AllShow
      <4>. QED BY <4>1 DEF ShowsInode
    <3>. QED BY <3>1, <3>2
  <2>. QED BY <1>2, <1>4, <2>1, SameInodes
<1>10. /\ InodesOK(ino) /\ RootOK(ino) /\ (LinksInPlace => Tree(ino))
       /\ \A j \in Ino : NameCount(ino, j) = NameCount(S.inode, j) /\ NamesIn(ino, j) = NamesIn(S.inode, j)
  BY <1>0, <1>4, SameInodes, SameTree, SameNames
<1>11. ASSUME NEW j \in Ino PROVE LinksExact(ino, vn, S.stranded, j)
  <2>1. LinksExact(S.inode, S.vnode, S.stranded, j) /\ (ino[j] = NoInode <=> S.inode[j] = NoInode)
    BY <1>0, <1>4 DEF SameEntries, SameEntry
  <2>2. CASE j = i
    <3>1. /\ NameCount(S.inode, i) \in Nat /\ S.stranded[i] \in Nat /\ RootLink(i) \in {0, 1}
      BY <1>1, LinkTypes
    <3>2. l = NameCount(S.inode, i) + 0 + S.stranded[i] + RootLink(i)
      BY <1>7, <2>1, <2>2 DEF LinksExact
    <3>3. l + 1 = NameCount(S.inode, i) + 1 + S.stranded[i] + RootLink(i) /\ l + 1 > 0
      BY ONLY <1>3, <3>1, <3>2
    <3>4. ino[i].rf_linkcount = NameCount(ino, i) + Uses(vn, i) + S.stranded[i] + RootLink(i)
      BY <1>4, <1>7, <1>10, <3>3
    <3>. QED BY <1>4, <2>1, <2>2, <3>3, <3>4 DEF LinksExact
  <2>3. CASE j # i
    BY <1>4, <1>7, <1>10, <2>1, <2>3 DEF LinksExact
  <2>. QED BY <2>2, <2>3
<1>12. Good(T)
  BY <1>6, <1>8, <1>9, <1>10, <1>11, GoodParts
<1>. QED BY <1>4, <1>6, <1>12 DEF Quiet

(* An inode that is there is given a vnode, or one more reference to the    *)
(* one it has (vnode.c vget).                                               *)
LEMMA VgetGood ==
  ASSUME NEW S, Good(S), Up(S), NEW i \in Ino, S.inode[i] # NoInode,
         NEW T, T = vget(S, i), NEW v, v = VnodeOf(T, i)
  PROVE  /\ Good(T) /\ Up(T) /\ Quiet(S, T) /\ Kept(S.vnode, T.vnode)
         /\ v \in VnodeT /\ Refs(T) = Plus(Refs(S), v) /\ T.vnode[v].vn_vno = i
         /\ \A w \in VnodeT : w # v => T.vnode[w].vn_vno = S.vnode[w].vn_vno
<1>1. S.vnode \in [VnodeT -> VnodeRec] /\ S.inode \in InodesT /\ OneVnode(S.vnode)
      /\ S.free \in Seq(VnodeT) /\ FreeOK(S.vnode, S.free) /\ InodesOK(S.inode) /\ S \in StateT
  BY GoodParts, StateParts
<1>2. CASE Shown(S.vnode, i)
  <2>1. PICK w \in VnodeT : S.vnode[w].vn_refcount > 0 /\ S.vnode[w].vn_vno = i
    BY <1>2 DEF Shown
  <2>2. InUse(S, i) = {w} /\ VnodeOf(S, i) = w
    BY <1>1, <2>1, TheVnode
  <2>3. T = vref(S, w)
    BY <2>2 DEF vget, Up
  <2>4. /\ Good(T) /\ Up(T) /\ Quiet(S, T) /\ SameIds(S.vnode, T.vnode) /\ Refs(T) = Plus(Refs(S), w)
    BY <2>1, <2>3, VrefGood
  <2>5. T.vnode[w].vn_vno = i /\ T.vnode[w].vn_refcount > 0 /\ OneVnode(T.vnode)
    <3>1. Refs(T)[w] = Refs(S)[w] + 1
      BY <2>4 DEF Plus, Refs
    <3>2. T.vnode[w].vn_refcount = S.vnode[w].vn_refcount + 1
      BY <3>1 DEF Refs
    <3>3. S.vnode[w].vn_refcount \in Nat
      BY <1>1 DEF VnodeRec
    <3>. QED BY <2>1, <2>4, <3>2, <3>3, GoodParts DEF SameIds
  <2>6. VnodeOf(T, i) = w
    BY <2>5, TheVnode
  <2>. QED BY <2>4, <2>5, <2>6 DEF SameIds, Kept
<1>3. CASE ~Shown(S.vnode, i)
  <2>1. S.free # <<>>
    BY <1>1, <1>3, VnodeIsFree
  <2>2. PICK h : h = Head(S.free)
    OBVIOUS
  <2>3. PICK fr : fr = Tail(S.free)
    OBVIOUS
  <2>4. PICK l : l = S.inode[i].rf_linkcount
    OBVIOUS
  <2>5. PICK r : r = [vn_vno |-> i, vn_mode |-> S.inode[i].rf_mode, vn_refcount |-> 1,
                      vn_len |-> IF S.inode[i].rf_mode = "data" THEN S.inode[i].rf_size ELSE 0]
    OBVIOUS
  <2>6. /\ r \in VnodeRec /\ r.vn_refcount = 1 /\ r.vn_vno = i /\ r.vn_mode = S.inode[i].rf_mode
        /\ r.vn_mode = "data" => r.vn_len = S.inode[i].rf_size
    <3>1. /\ S.inode[i].rf_mode \in {"data", "dir", "chr"} /\ S.inode[i].rf_size \in Nat
          /\ S.inode[i].rf_mode = "data" => S.inode[i].rf_size <= PageSize
      BY <1>1 DEF InodesT, InodeT, InodesOK, InodeOK
    <3>. QED BY <2>5, <3>1, RamfsAssumption DEF VnodeRec
  <2>7. PICK vn : vn = [S.vnode EXCEPT ![h] = r]
    OBVIOUS
  <2>8. h \in VnodeT
    BY <1>1, <2>1, <2>2
  <2>9. vn \in [VnodeT -> VnodeRec] /\ vn[h] = r /\ \A w \in VnodeT \ {h} : vn[w] = S.vnode[w]
    BY <1>1, <2>6, <2>7, <2>8
  <2>10. S.vnode[h].vn_refcount = 0 /\ fr \in Seq(VnodeT) /\ FreeOK(vn, fr)
    <3>1. vn[h].vn_refcount # 0
      BY <2>6, <2>9
    <3>. QED BY <1>1, <2>1, <2>2, <2>3, <2>9, <3>1, FreePop
  <2>11. PICK S1 : SetPushed(S, vn, fr, S1)
    BY DEF SetPushed
  <2>12. S1.inode = S.inode
    BY <1>1, <2>9, <2>10, <2>11, WithPushed
  <2>13. PICK ino : SetLinks(S.inode, i, l + 1, ino)
    BY DEF SetLinks
  <2>14. SetInodes(S1, ino, T)
    <3>1. InUse(S, i) = {}
      BY <1>3, ShownIs
    <3>2. T = [S EXCEPT !.free = fr, !.vnode = vn, !.inode = ino]
      BY <2>2, <2>3, <2>4, <2>5, <2>7, <2>13, <3>1 DEF vget, Up, SetLinks
    <3>. QED BY <2>11, <3>2 DEF SetPushed, SetInodes
  <2>15. /\ Good(T) /\ T.panic = S.panic /\ Quiet(S, T) /\ T.vnode = vn
    BY <1>3, <2>4, <2>6, <2>7, <2>8, <2>10, <2>11, <2>13, <2>14, VgetReads
  <2>16. VnodeOf(T, i) = h
    BY <2>6, <2>8, <2>9, <2>15, TheVnode, GoodParts
  <2>17. Refs(T) = Plus(Refs(S), h)
    <3>1. T.vnode[h].vn_refcount = S.vnode[h].vn_refcount + 1
      BY <2>6, <2>9, <2>10, <2>15
    <3>2. \A w \in VnodeT \ {h} : T.vnode[w].vn_refcount = S.vnode[w].vn_refcount
      BY <2>9, <2>15
    <3>. QED BY <1>1, <2>8, <3>1, <3>2, RefsPlus
  <2>18. Kept(S.vnode, T.vnode)
    BY <2>9, <2>10, <2>15 DEF Kept
  <2>19. T.vnode[h].vn_vno = i /\ \A w \in VnodeT : w # h => T.vnode[w].vn_vno = S.vnode[w].vn_vno
    BY <2>6, <2>9, <2>15
  <2>. QED BY <2>8, <2>15, <2>16, <2>17, <2>18, <2>19 DEF Up
<1>. QED BY <1>2, <1>3
-----------------------------------------------------------------------------
(* Looking names up.  From S0 on, S has only given vnodes to inodes and put *)
(* what was given since: no inode has gone, and every vnode, in use or not, *)
(* has the number of an inode that is there.                                *)
AllThere(S) == \A v \in VnodeT : S.inode[S.vnode[v].vn_vno] # NoInode
Calm(S0, S) ==
  /\ Good(S0) /\ Good(S) /\ Up(S) /\ Quiet(S0, S) /\ Kept(S0.vnode, S.vnode) /\ AllThere(S)
  /\ \A v \in VnodeT : Refs(S0)[v] <= Refs(S)[v]

StopsOK(S0, S) ==
  /\ S.panic \in Stops
  /\ S.panic # "" => Cause(S0, p_cwd, p_files, lost, S.panic)

(* the references after L, which holds one to the vnode it found            *)
Holding(L, R) ==
  IF L.ret = "0" THEN L.vn \in VnodeT /\ Refs(L.S) = Plus(R, L.vn) ELSE Refs(L.S) = R
Found(S0, L, R) == StopsOK(S0, L.S) /\ (Up(L.S) => Calm(S0, L.S) /\ Holding(L, R))

(* What no step on the way changes is the same in the end.                  *)
LEMMA QuietTrans ==
  ASSUME NEW S, NEW T, NEW U, Quiet(S, T), Quiet(T, U)
  PROVE  Quiet(S, U)
<1>1. \A i \in Ino : SameEntry(S.inode[i], U.inode[i])
  BY DEF Quiet, SameEntries, SameEntry
<1>2. SameSizes(S.inode, U.inode)
  BY DEF Quiet, SameEntries, SameEntry, SameSizes
<1>. QED BY <1>1, <1>2 DEF Quiet, SameEntries

(* The references to vnodes are numbers, the counts of the vnodes.          *)
LEMMA RefsType ==
  ASSUME NEW S, Good(S)
  PROVE  /\ Refs(S) \in [VnodeT -> Nat]
         /\ \A v \in VnodeT : Refs(S)[v] = S.vnode[v].vn_refcount
<1>1. S.vnode \in [VnodeT -> VnodeRec]
  BY GoodParts, StateParts
<1>2. \A v \in VnodeT : S.vnode[v].vn_refcount \in Nat
  BY <1>1 DEF VnodeRec
<1>. QED BY <1>2 DEF Refs

(* One reference more: to the one vnode.                                    *)
LEMMA PlusIs ==
  ASSUME NEW r \in [VnodeT -> Nat], NEW v \in VnodeT
  PROVE  /\ Plus(r, v) \in [VnodeT -> Nat] /\ Plus(r, v)[v] = r[v] + 1
         /\ \A w \in VnodeT : w # v => Plus(r, v)[w] = r[w]
         /\ \A w \in VnodeT : r[w] <= Plus(r, v)[w]
         /\ Minus(Plus(r, v), v) = r
<1>1. PICK q : q = Plus(r, v)
  OBVIOUS
<1>2. /\ q \in [VnodeT -> Nat] /\ q[v] = r[v] + 1
      /\ \A w \in VnodeT : w # v => q[w] = r[w]
  BY <1>1 DEF Plus
<1>3. \A w \in VnodeT : r[w] <= q[w]
  BY <1>2
<1>4. Minus(q, v) \in [VnodeT -> Int] /\ \A w \in VnodeT : Minus(q, v)[w] = r[w]
  BY <1>2 DEF Minus
<1>5. Minus(q, v) = r
  BY <1>4
<1>. QED BY <1>1, <1>2, <1>3, <1>5

(* One reference less: to the one vnode.                                    *)
LEMMA MinusIs ==
  ASSUME NEW r \in [VnodeT -> Nat], NEW v \in VnodeT, r[v] > 0
  PROVE  /\ Minus(r, v) \in [VnodeT -> Nat] /\ Minus(r, v)[v] = r[v] - 1
         /\ \A w \in VnodeT : w # v => Minus(r, v)[w] = r[w]
BY DEF Minus

(* References are given in any order, and taken back.                       *)
LEMMA PlusPlus ==
  ASSUME NEW r \in [VnodeT -> Nat], NEW v \in VnodeT, NEW w \in VnodeT
  PROVE  Plus(Plus(r, v), w) = Plus(Plus(r, w), v) /\ Minus(Plus(Plus(r, v), w), v) = Plus(r, w)
<1>1. Plus(r, v) \in [VnodeT -> Nat] /\ Plus(r, w) \in [VnodeT -> Nat]
  BY PlusIs
<1>2. \A x \in VnodeT : Plus(Plus(r, v), w)[x] = Plus(Plus(r, w), v)[x]
  BY DEF Plus
<1>3. Plus(Plus(r, v), w) = Plus(Plus(r, w), v)
  BY <1>1, <1>2 DEF Plus
<1>. QED BY <1>1, <1>3, PlusIs

(* A vnode in use all the time shows the same all the time.                 *)
LEMMA KeptTrans ==
  ASSUME NEW S0, NEW S, Good(S0), Good(S), NEW vn, Kept(S0.vnode, S.vnode), Kept(S.vnode, vn),
         \A v \in VnodeT : Refs(S0)[v] <= Refs(S)[v]
  PROVE  Kept(S0.vnode, vn)
<1>1. ASSUME NEW v \in VnodeT, S0.vnode[v].vn_refcount > 0 PROVE S.vnode[v].vn_refcount > 0
  <2>1. /\ Refs(S0)[v] \in Nat /\ Refs(S)[v] \in Nat /\ Refs(S0)[v] = S0.vnode[v].vn_refcount
        /\ Refs(S)[v] = S.vnode[v].vn_refcount /\ Refs(S0)[v] <= Refs(S)[v]
    BY RefsType
  <2>. QED BY <1>1, <2>1
<1>. QED BY <1>1 DEF Kept

(* Every vnode has the number of an inode that is there, still.             *)
LEMMA AllThereStays ==
  ASSUME NEW S, NEW T, Good(S), AllThere(S), Quiet(S, T), SameIds(S.vnode, T.vnode)
  PROVE  AllThere(T)
<1>1. S.vnode \in [VnodeT -> VnodeRec]
  BY GoodParts, StateParts
<1>2. ASSUME NEW v \in VnodeT PROVE T.inode[T.vnode[v].vn_vno] # NoInode
  <2>1. PICK i \in Ino : i = S.vnode[v].vn_vno
    BY <1>1 DEF VnodeRec
  <2>2. T.vnode[v].vn_vno = i /\ S.inode[i] # NoInode
    BY <2>1 DEF SameIds, AllThere
  <2>. QED BY <2>2 DEF Quiet, SameEntries, SameEntry
<1>. QED BY <1>2 DEF AllThere

(* What shows the same is kept.                                             *)
LEMMA SameIdsKept ==
  ASSUME NEW vn, NEW vn2, SameIds(vn, vn2)
  PROVE  Kept(vn, vn2)
BY DEF SameIds, Kept

(* vref on the way along a path.                                            *)
LEMMA CalmRef ==
  ASSUME NEW S0, NEW S, Calm(S0, S), NEW v \in VnodeT, Refs(S)[v] > 0, NEW T, T = vref(S, v)
  PROVE  Calm(S0, T) /\ Refs(T) = Plus(Refs(S), v)
<1>1. Good(S0) /\ Good(S) /\ Up(S) /\ Quiet(S0, S) /\ Kept(S0.vnode, S.vnode) /\ AllThere(S)
  BY DEF Calm
<1>2. S.vnode[v].vn_refcount > 0
  BY <1>1, RefsType
<1>3. /\ Good(T) /\ Up(T) /\ Quiet(S, T)
      /\ SameIds(S.vnode, T.vnode) /\ Refs(T) = Plus(Refs(S), v)
  BY <1>1, <1>2, VrefGood
<1>4. Kept(S0.vnode, T.vnode)
  BY <1>1, <1>3, SameIdsKept, KeptTrans DEF Calm
<1>5. \A w \in VnodeT : Refs(S0)[w] <= Refs(T)[w]
  <2>1. Refs(S) \in [VnodeT -> Nat] /\ Refs(S0) \in [VnodeT -> Nat]
    BY <1>1, RefsType
  <2>2. \A w \in VnodeT : Refs(S)[w] <= Refs(T)[w] /\ Refs(T)[w] \in Nat
    BY <1>3, <2>1, PlusIs
  <2>3. \A w \in VnodeT : Refs(S0)[w] <= Refs(S)[w]
    BY DEF Calm
  <2>. QED BY <2>1, <2>2, <2>3
<1>6. Quiet(S0, T) /\ AllThere(T)
  BY <1>1, <1>3, QuietTrans, AllThereStays
<1>. QED BY <1>1, <1>3, <1>4, <1>5, <1>6 DEF Calm

(* vget on the way along a path: the vnode of an inode that is there.       *)
LEMMA CalmGet ==
  ASSUME NEW S0, NEW S, Calm(S0, S), NEW i \in Ino, S.inode[i] # NoInode,
         NEW T, T = vget(S, i), NEW v, v = VnodeOf(T, i)
  PROVE  Calm(S0, T) /\ v \in VnodeT /\ Refs(T) = Plus(Refs(S), v) /\ T.vnode[v].vn_vno = i
<1>1. Good(S0) /\ Good(S) /\ Up(S) /\ Quiet(S0, S) /\ Kept(S0.vnode, S.vnode) /\ AllThere(S)
  BY DEF Calm
<1>2. /\ Good(T) /\ Up(T) /\ Quiet(S, T) /\ Kept(S.vnode, T.vnode)
      /\ v \in VnodeT /\ Refs(T) = Plus(Refs(S), v) /\ T.vnode[v].vn_vno = i
      /\ \A w \in VnodeT : w # v => T.vnode[w].vn_vno = S.vnode[w].vn_vno
  BY <1>1, VgetGood
<1>4. Kept(S0.vnode, T.vnode)
  BY <1>1, <1>2, KeptTrans DEF Calm
<1>5. \A w \in VnodeT : Refs(S0)[w] <= Refs(T)[w]
  <2>1. Refs(S) \in [VnodeT -> Nat] /\ Refs(S0) \in [VnodeT -> Nat]
    BY <1>1, RefsType
  <2>2. \A w \in VnodeT : Refs(S)[w] <= Refs(T)[w] /\ Refs(T)[w] \in Nat
    BY <1>2, <2>1, PlusIs
  <2>3. \A w \in VnodeT : Refs(S0)[w] <= Refs(S)[w]
    BY DEF Calm
  <2>. QED BY <2>1, <2>2, <2>3
<1>6. ASSUME NEW w \in VnodeT PROVE T.inode[T.vnode[w].vn_vno] # NoInode
  <2>1. PICK j \in Ino : j = T.vnode[w].vn_vno
    <3>1. T.vnode \in [VnodeT -> VnodeRec]
      BY <1>2, GoodParts, StateParts
    <3>. QED BY <3>1 DEF VnodeRec
  <2>2. S.inode[j] # NoInode
    BY <1>1, <1>2, <2>1 DEF AllThere
  <2>. QED BY <1>2, <2>1, <2>2 DEF Quiet, SameEntries, SameEntry
<1>7. Quiet(S0, T)
  BY <1>1, <1>2, QuietTrans
<1>. QED BY <1>1, <1>2, <1>4, <1>5, <1>6, <1>7 DEF Calm, AllThere

(* What was given since S0 is put: its inode keeps the links it had.        *)
LEMMA CalmPut ==
  ASSUME NEW S0, NEW S, Calm(S0, S), NEW v \in VnodeT, Refs(S)[v] > Refs(S0)[v],
         NEW T, T = vput(S, v)
  PROVE  Calm(S0, T) /\ Refs(T) = Minus(Refs(S), v) /\ SameIds(S.vnode, T.vnode)
<1>1. Good(S0) /\ Good(S) /\ Up(S) /\ Quiet(S0, S) /\ Kept(S0.vnode, S.vnode) /\ AllThere(S)
  BY DEF Calm
<1>2. /\ Refs(S) \in [VnodeT -> Nat] /\ Refs(S0) \in [VnodeT -> Nat]
      /\ \A w \in VnodeT : Refs(S)[w] = S.vnode[w].vn_refcount
      /\ \A w \in VnodeT : Refs(S0)[w] = S0.vnode[w].vn_refcount
      /\ \A w \in VnodeT : Refs(S0)[w] <= Refs(S)[w]
  BY <1>1, RefsType DEF Calm
<1>3. S.vnode[v].vn_refcount > 0 /\ Refs(S)[v] > 0
  BY <1>2
<1>4. /\ Good(T) /\ Up(T) /\ T.file = S.file
      /\ SameIds(S.vnode, T.vnode) /\ Refs(T) = Minus(Refs(S), v)
      /\ S.vnode[v].vn_refcount > 1 \/ S.inode[S.vnode[v].vn_vno].rf_linkcount # 1 => Quiet(S, T)
  BY <1>1, <1>3, VputGood
<1>5. S.vnode[v].vn_refcount > 1 \/ S.inode[S.vnode[v].vn_vno].rf_linkcount # 1
  <2> SUFFICES ASSUME ~(S.vnode[v].vn_refcount > 1)
               PROVE  S.inode[S.vnode[v].vn_vno].rf_linkcount # 1
    OBVIOUS
  <2>1. Refs(S0)[v] = 0
    <3>1. Refs(S)[v] \in Nat /\ Refs(S0)[v] \in Nat /\ Refs(S)[v] > Refs(S0)[v] /\ ~(Refs(S)[v] > 1)
      BY <1>2
    <3>. QED BY ONLY <3>1
  <2>2. PICK i \in Ino : i = S.vnode[v].vn_vno
    <3>1. S.vnode \in [VnodeT -> VnodeRec]
      BY <1>1, GoodParts, StateParts
    <3>. QED BY <3>1 DEF VnodeRec
  <2>3. ASSUME NEW w \in VnodeT, S0.vnode[w].vn_refcount > 0, S0.vnode[w].vn_vno = i PROVE FALSE
    <3>1. S.vnode[w].vn_refcount > 0
      BY <1>2, <2>3
    <3>2. S.vnode[w].vn_vno = i
      BY <1>1, <2>3 DEF Kept
    <3>3. w = v
      BY <1>1, <1>3, <2>2, <3>1, <3>2, GoodParts DEF OneVnode
    <3>. QED BY <1>2, <2>1, <2>3, <3>3
  <2>4. Uses(S0.vnode, i) = 0
    BY <2>3 DEF Uses, Shown
  <2>5. Uses(S.vnode, i) = 1
    BY <1>3, <2>2 DEF Uses, Shown
  <2>6. S.inode[i] # NoInode /\ S0.inode[i] # NoInode /\ S.stranded = S0.stranded
    BY <1>1, <2>2 DEF AllThere, Quiet, SameEntries, SameEntry
  <2>7. /\ S0.inode \in InodesT /\ S0.stranded \in [Ino -> Nat] /\ S.inode \in InodesT
    BY <1>1, GoodParts, StateParts
  <2>8. LinksExact(S0.inode, S0.vnode, S0.stranded, i) /\ LinksExact(S.inode, S.vnode, S.stranded, i)
    BY <1>1, GoodParts
  <2>9. NameCount(S.inode, i) = NameCount(S0.inode, i)
    BY <1>1, SameTree DEF Quiet
  <2>10. PICK a : a = NameCount(S0.inode, i)
    OBVIOUS
  <2>11. PICK b : b = S0.stranded[i]
    OBVIOUS
  <2>12. PICK c : c = RootLink(i)
    OBVIOUS
  <2>13. a \in Nat /\ b \in Nat /\ c \in Nat
    <3>1. NameCount(S0.inode, i) \in Nat /\ S0.stranded[i] \in Nat /\ RootLink(i) \in {0, 1}
      BY <2>7, LinkTypes
    <3>. QED BY <2>10, <2>11, <2>12, <3>1
  <2>14. a + 0 + b + c > 0
    BY <2>4, <2>6, <2>8, <2>10, <2>11, <2>12 DEF LinksExact
  <2>15. S.inode[i].rf_linkcount = a + 1 + b + c
    BY <2>5, <2>6, <2>8, <2>9, <2>10, <2>11, <2>12 DEF LinksExact
  <2>16. a + 1 + b + c # 1
    BY ONLY <2>13, <2>14
  <2>. QED BY <2>2, <2>15, <2>16
<1>6. Quiet(S, T)
  BY <1>4, <1>5
<1>7. \A w \in VnodeT : Refs(S0)[w] <= Refs(T)[w]
  <2>1. Refs(T)[v] = Refs(S)[v] - 1 /\ \A w \in VnodeT : w # v => Refs(T)[w] = Refs(S)[w]
    BY <1>2, <1>3, <1>4, MinusIs
  <2>. QED BY <1>2, <2>1
<1>8. Quiet(S0, T) /\ AllThere(T) /\ Kept(S0.vnode, T.vnode)
  BY <1>1, <1>2, <1>4, <1>6, QuietTrans, AllThereStays, SameIdsKept, KeptTrans
<1>. QED BY <1>1, <1>4, <1>7, <1>8 DEF Calm
-----------------------------------------------------------------------------
(* The lookup of a name, and the walk along a path (namev.c)                *)
LookupNames == Name \cup {Dot, DotDot, NoName}

(* The lookup of name n in inode i: where it may stop, and what in S0 says  *)
(* so                                                                       *)
May(S0, i, n) ==
  /\ ~IsDirIn(S0.inode, i) => ThroughFile(S0.inode, S0.vnode, p_cwd)
  /\ n = NoName => Nameless
  /\ n = DotDot /\ Astray(S0.inode, i) => UpFromAstray(S0.inode, S0.vnode, p_cwd)

(* Only a .. leads nowhere, that of a directory with no name there.         *)
LEMMA AstrayThere ==
  ASSUME NEW S, Good(S), NEW d \in DirsIn(S.inode), NEW n \in Name \cup {Dot, DotDot},
         NEW i \in Ino, i = S.inode[d].rf_mem[n], S.inode[i] = NoInode
  PROVE  n = DotDot /\ Astray(S.inode, d)
<1>1. /\ \A j \in Ino : LinksExact(S.inode, S.vnode, S.stranded, j)
      /\ InodesOK(S.inode) /\ RootOK(S.inode)
  BY GoodParts
<1>2. d \in Ino /\ S.inode[d] # NoInode /\ S.inode[d].rf_mode = "dir"
  BY DEF DirsIn
<1>3. S.inode[d].rf_mem[Dot] = d
  BY <1>1, <1>2 DEF InodesOK, InodeOK
<1>4. n # Dot
  BY <1>2, <1>3
<1>5. n \notin Name
  <2> SUFFICES ASSUME n \in Name PROVE FALSE
    OBVIOUS
  <2>1. <<d, n>> \in NamesIn(S.inode, i)
    BY DEF NamesIn
  <2>. QED BY <1>1, <2>1 DEF LinksExact
<1>6. n = DotDot
  BY <1>4, <1>5
<1>7. d # 0
  BY <1>1, <1>6 DEF RootOK
<1>8. ~IsDirIn(S.inode, S.inode[d].rf_mem[DotDot])
  BY <1>6 DEF IsDirIn
<1>. QED BY <1>2, <1>6, <1>7, <1>8 DEF Astray, IsDirIn

(* The same entries give the same directories, and the same of them astray. *)
LEMMA SameWays ==
  ASSUME NEW ino, NEW ino2, SameEntries(ino, ino2)
  PROVE  /\ \A i : IsDirIn(ino2, i) <=> IsDirIn(ino, i)
         /\ \A i : IsDirIn(ino, i) => ino2[i].rf_mem = ino[i].rf_mem
         /\ \A i : Astray(ino2, i) <=> Astray(ino, i)
<1>1. \A i : IsDirIn(ino2, i) <=> IsDirIn(ino, i)
  BY DEF IsDirIn, SameEntries, SameEntry
<1>2. \A i : IsDirIn(ino, i) => ino2[i].rf_mem = ino[i].rf_mem
  BY DEF IsDirIn, SameEntries, SameEntry
<1>3. ASSUME NEW i, IsDirIn(ino, i) PROVE Astray(ino2, i) <=> Astray(ino, i)
  <2>1. PICK j : j = ino[i].rf_mem[DotDot]
    OBVIOUS
  <2>2. ino2[i].rf_mem[DotDot] = j
    BY <1>2, <1>3, <2>1
  <2>3. IsDirIn(ino, j) => ino2[j].rf_mem = ino[j].rf_mem
    BY <1>2
  <2>. QED BY <1>1, <2>1, <2>2, <2>3 DEF Astray
<1>4. ASSUME NEW i, ~IsDirIn(ino, i) PROVE ~Astray(ino2, i) /\ ~Astray(ino, i)
  BY <1>1, <1>4 DEF Astray
<1>. QED BY <1>1, <1>2, <1>3, <1>4

(* What a state on the way along a path is like.                            *)
LEMMA CalmFacts ==
  ASSUME NEW S0, NEW S, Calm(S0, S)
  PROVE  /\ Good(S) /\ Up(S) /\ SameEntries(S0.inode, S.inode) /\ StopsOK(S0, S)
         /\ Refs(S) \in [VnodeT -> Nat] /\ Refs(S0) \in [VnodeT -> Nat]
         /\ \A v \in VnodeT : Refs(S0)[v] <= Refs(S)[v]
         /\ S.vnode \in [VnodeT -> VnodeRec] /\ S.inode \in InodesT
<1>1. Good(S0) /\ Good(S) /\ Up(S) /\ Quiet(S0, S)
  BY DEF Calm
<1>2. SameEntries(S0.inode, S.inode)
  BY <1>1 DEF Quiet
<1>3. StopsOK(S0, S)
  BY <1>1 DEF StopsOK, Stops, Up
<1>. QED BY <1>1, <1>2, <1>3, RefsType, GoodParts, StateParts DEF Calm

(* Where the kernel stops on the way.                                       *)
LEMMA PanicsStops ==
  ASSUME NEW S0, NEW S, Calm(S0, S), NEW where \in Stops \ {""}, NEW T, T = Panics(S, where),
         Cause(S0, p_cwd, p_files, lost, where)
  PROVE  ~Up(T) /\ StopsOK(S0, T)
<1>1. S \in StateT /\ S.panic = ""
  BY CalmFacts, GoodParts DEF Up
<1>2. T.panic = where
  BY <1>1 DEF Panics, StateT
<1>. QED BY <1>2 DEF Up, StopsOK

(* what a vnode that is referred to shows                                   *)
LEMMA InUseShows ==
  ASSUME NEW S, Good(S), NEW d \in VnodeT, Refs(S)[d] > 0
  PROVE  /\ S.vnode[d].vn_vno \in Ino /\ S.inode[S.vnode[d].vn_vno] # NoInode
         /\ S.vnode[d].vn_mode = S.inode[S.vnode[d].vn_vno].rf_mode
         /\ Mem(S, d) \in [Name \cup {Dot, DotDot} -> Ino \cup {Nowhere}]
         /\ S.vnode[d].vn_mode = "dir" => S.vnode[d].vn_vno \in DirsIn(S.inode)
<1>1. S.vnode \in [VnodeT -> VnodeRec] /\ S.inode \in InodesT /\ AllShow(S.vnode, S.inode)
  BY GoodParts, StateParts
<1>2. S.vnode[d].vn_refcount > 0
  BY RefsType
<1>3. PICK i \in Ino : i = S.vnode[d].vn_vno
  BY <1>1 DEF VnodeRec
<1>4. S.inode[i] # NoInode /\ S.vnode[d].vn_mode = S.inode[i].rf_mode
  BY <1>1, <1>2, <1>3 DEF AllShow, ShowsInode
<1>5. S.inode[i] \in InodeT
  BY <1>1, <1>4 DEF InodesT
<1>6. S.inode[i].rf_mem \in [Name \cup {Dot, DotDot} -> Ino \cup {Nowhere}]
  BY <1>5 DEF InodeT
<1>. QED BY <1>3, <1>4, <1>6 DEF Mem, DirsIn

Missing(L, S, d, n) ==
  /\ L.ret = "ENOENT" /\ L.S = S /\ S.vnode[d].vn_mode = "dir"
  /\ n \in Name \cup {Dot, DotDot} /\ Mem(S, d)[n] = Nowhere
There(L, S, d, n) ==
  /\ S.vnode[d].vn_mode = "dir" /\ n \in Name \cup {Dot, DotDot}
  /\ Mem(S, d)[n] \in Ino /\ L.S.vnode[L.vn].vn_vno = Mem(S, d)[n]

(* The inode a vnode in use shows is a directory in S0 if it is now.        *)
LEMMA ShowsDir ==
  ASSUME NEW S0, NEW S, Calm(S0, S), NEW d \in VnodeT, Refs(S)[d] > 0,
         NEW i, i = S.vnode[d].vn_vno
  PROVE  /\ i \in Ino
         /\ S.vnode[d].vn_mode = "dir" <=> IsDirIn(S0.inode, i)
         /\ IsDirIn(S0.inode, i) => S0.inode[i].rf_mem = Mem(S, d)
<1>1. /\ i \in Ino /\ S.inode[i] # NoInode
      /\ S.vnode[d].vn_mode = S.inode[i].rf_mode
  BY CalmFacts, InUseShows
<1>2. S.vnode[d].vn_mode = "dir" <=> IsDirIn(S.inode, i)
  BY <1>1 DEF IsDirIn
<1>3. /\ IsDirIn(S.inode, i) <=> IsDirIn(S0.inode, i)
      /\ IsDirIn(S0.inode, i) => S.inode[i].rf_mem = S0.inode[i].rf_mem
  BY CalmFacts, SameWays
<1>. QED BY <1>1, <1>2, <1>3 DEF Mem

(* A directory that is in use may be searched for a name.                   *)
LEMMA MayHere ==
  ASSUME NEW S0, NEW S, Calm(S0, S), NEW d \in VnodeT, Refs(S)[d] > 0,
         S.vnode[d].vn_mode = "dir", NEW n, n # DotDot, n = NoName => Nameless
  PROVE  May(S0, S.vnode[d].vn_vno, n)
<1>1. IsDirIn(S0.inode, S.vnode[d].vn_vno)
  BY ShowsDir
<1>. QED BY <1>1 DEF May

(* lookup finds a vnode and holds it, or nothing, or stops where it may.    *)
LEMMA LookupFound ==
  ASSUME NEW S0, NEW S, Calm(S0, S), NEW d \in VnodeT, Refs(S)[d] > 0, NEW n \in LookupNames,
         NEW L, L = lookup(S, d, n)
  PROVE  /\ Up(L.S) => Calm(S0, L.S) /\ Holding(L, Refs(S))
         /\ Up(L.S) => IF L.ret = "0" THEN There(L, S, d, n) ELSE Missing(L, S, d, n)
         /\ May(S0, S.vnode[d].vn_vno, n) => Found(S0, L, Refs(S))
<1>1. /\ Good(S) /\ Up(S) /\ S.vnode \in [VnodeT -> VnodeRec] /\ S.inode \in InodesT
  BY CalmFacts
<1>2. d # NoVnode
  BY RamfsAssumption
<1> DEFINE may == May(S0, S.vnode[d].vn_vno, n)
<1>3. CASE S.vnode[d].vn_mode # "dir"
  <2>1. PICK T : T = Panics(S, "lookup")
    OBVIOUS
  <2>2. L.S = T
    BY <1>1, <1>2, <1>3, <2>1 DEF lookup, Up, Fails
  <2>3. ~Up(T)
    <3>1. S \in StateT /\ S.panic = ""
      BY <1>1, GoodParts DEF Up
    <3>. QED BY <2>1, <3>1 DEF Panics, Up, StateT
  <2>4. ASSUME may PROVE StopsOK(S0, T)
    <3>1. ~IsDirIn(S0.inode, S.vnode[d].vn_vno)
      BY <1>3, ShowsDir
    <3>2. PICK where \in Stops \ {""} : where = "lookup"
      BY DEF Stops
    <3>3. Cause(S0, p_cwd, p_files, lost, where)
      BY <2>4, <3>1, <3>2 DEF Cause, May
    <3>. QED BY <2>1, <3>2, <3>3, PanicsStops
  <2>. QED BY <2>2, <2>3, <2>4 DEF Found
<1>4. CASE S.vnode[d].vn_mode = "dir" /\ n = NoName
  <2>1. PICK T : T = Panics(S, "namelen")
    OBVIOUS
  <2>2. L.S = T
    BY <1>1, <1>2, <1>4, <2>1 DEF lookup, Up, Fails, ramfs_lookup
  <2>3. ~Up(T)
    <3>1. S \in StateT /\ S.panic = ""
      BY <1>1, GoodParts DEF Up
    <3>. QED BY <2>1, <3>1 DEF Panics, Up, StateT
  <2>4. ASSUME may PROVE StopsOK(S0, T)
    <3>2. PICK where \in Stops \ {""} : where = "namelen"
      BY DEF Stops
    <3>3. Cause(S0, p_cwd, p_files, lost, where)
      BY <1>4, <2>4, <3>2 DEF Cause, May
    <3>. QED BY <2>1, <3>2, <3>3, PanicsStops
  <2>. QED BY <2>2, <2>3, <2>4 DEF Found
<1>5. CASE S.vnode[d].vn_mode = "dir" /\ n # NoName
  <2>0. n \in Name \cup {Dot, DotDot}
    BY <1>5 DEF LookupNames
  <2>1. L = ramfs_lookup(S, d, n)
    BY <1>1, <1>2, <1>5 DEF lookup, Up
  <2>2. /\ S.vnode[d].vn_vno \in DirsIn(S.inode)
        /\ Mem(S, d) \in [Name \cup {Dot, DotDot} -> Ino \cup {Nowhere}]
    BY <1>1, <1>5, InUseShows
  <2>3. CASE Mem(S, d)[n] = Nowhere
    <3>1. L = Fails(S, "ENOENT")
      BY <1>5, <2>1, <2>3 DEF ramfs_lookup
    <3>2. L.S = S /\ L.ret = "ENOENT"
      BY <3>1 DEF Fails
    <3>3. Found(S0, L, Refs(S))
      BY <3>2, CalmFacts DEF Found, Holding
    <3>. QED BY <1>5, <2>0, <2>3, <3>2, <3>3 DEF Missing, Found
  <2>4. CASE Mem(S, d)[n] # Nowhere
    <3>1. PICK i \in Ino : i = Mem(S, d)[n]
      BY <2>0, <2>2, <2>4
    <3>2. PICK T : T = vget(S, i)
      OBVIOUS
    <3>3. L = Got(T, i)
      BY <1>5, <2>1, <2>4, <3>1, <3>2 DEF ramfs_lookup
    <3>4. L.S = T /\ L.ret = "0" /\ L.vn = VnodeOf(T, i)
      BY <3>3 DEF Got, Ok
    <3>5. CASE S.inode[i] # NoInode
      <4>1. Calm(S0, T) /\ L.vn \in VnodeT /\ Refs(T) = Plus(Refs(S), L.vn) /\ T.vnode[L.vn].vn_vno = i
        BY <3>2, <3>4, <3>5, CalmGet
      <4>2. StopsOK(S0, T)
        BY <4>1, CalmFacts
      <4>. QED BY <1>5, <2>0, <3>1, <3>4, <4>1, <4>2 DEF Found, Holding, There
    <3>6. CASE S.inode[i] = NoInode
      <4>1. InUse(S, i) = {}
        <5>1. AllShow(S.vnode, S.inode)
          BY <1>1, GoodParts
        <5>. QED BY <3>6, <5>1 DEF InUse, AllShow, ShowsInode
      <4>2. T = Panics(S, "read_vnode")
        BY <1>1, <3>2, <3>6, <4>1 DEF vget, Up
      <4>3. ~Up(T)
        <5>1. S \in StateT /\ S.panic = ""
          BY <1>1, GoodParts DEF Up
        <5>. QED BY <4>2, <5>1 DEF Panics, Up, StateT
      <4>4. n = DotDot /\ Astray(S0.inode, S.vnode[d].vn_vno)
        <5>1. i = S.inode[S.vnode[d].vn_vno].rf_mem[n]
          BY <3>1 DEF Mem
        <5>2. n = DotDot /\ Astray(S.inode, S.vnode[d].vn_vno)
          BY <1>1, <2>0, <2>2, <3>6, <5>1, AstrayThere
        <5>. QED BY <5>2, CalmFacts, SameWays
      <4>5. ASSUME may PROVE StopsOK(S0, T)
        <5>1. PICK where \in Stops \ {""} : where = "read_vnode"
          BY DEF Stops
        <5>2. Cause(S0, p_cwd, p_files, lost, where)
          BY <4>4, <4>5, <5>1 DEF Cause, May
        <5>. QED BY <4>2, <5>1, <5>2, PanicsStops
      <4>. QED BY <3>4, <4>3, <4>5 DEF Found
    <3>. QED BY <3>5, <3>6
  <2>. QED BY <2>3, <2>4
<1>. QED BY <1>3, <1>4, <1>5

(* A state in which the kernel has stopped stays as it is.                  *)
LEMMA StaysDown ==
  ASSUME NEW S, ~Up(S)
  PROVE  /\ \A v : vput(S, v) = S /\ vref(S, v) = S
         /\ \A d, n : lookup(S, d, n) = Fails(S, "panic")
BY DEF Up, vput, vref, lookup

(* What was held before is put once something was found.                    *)
LEMMA FoundPut ==
  ASSUME NEW S0, NEW S, Calm(S0, S), NEW v \in VnodeT, NEW R \in [VnodeT -> Nat],
         Refs(S) = Plus(R, v), \A w \in VnodeT : Refs(S0)[w] <= R[w], NEW T, T = vput(S, v)
  PROVE  Calm(S0, T) /\ Refs(T) = R /\ StopsOK(S0, T) /\ Up(T) /\ SameIds(S.vnode, T.vnode)
<1>1. Refs(S)[v] > Refs(S0)[v]
  <2>1. Refs(S)[v] = R[v] + 1 /\ Refs(S0)[v] <= R[v] /\ R[v] \in Nat /\ Refs(S0)[v] \in Nat
    BY PlusIs, CalmFacts
  <2>. QED BY ONLY <2>1
<1>2. Calm(S0, T) /\ Refs(T) = Minus(Refs(S), v) /\ SameIds(S.vnode, T.vnode)
  BY <1>1, CalmPut
<1>3. Refs(T) = R
  BY <1>2, PlusIs
<1>. QED BY <1>2, <1>3, CalmFacts
-----------------------------------------------------------------------------
(* Induction.  The library's rules take an operator, the provers a set.     *)
LEMMA LeastElement ==
  ASSUME NEW T \in SUBSET Nat, T # {}
  PROVE  \E n \in T : \A m \in T : ~(m < n)
<1>1. IsWellFoundedOn(OpToRel(<, Nat), Nat)
  BY NatLessThanWellFounded
<1>2. PICK n \in T : \A m \in T : ~(<<m, n>> \in OpToRel(<, Nat))
  BY <1>1, WFMin
<1>3. \A m \in T : <<m, n>> \in OpToRel(<, Nat) <=> m < n
  BY DEF OpToRel
<1>. QED BY <1>2, <1>3

(* A set of naturals with 0 and the successor of each member has them all.  *)
LEMMA SetInduction ==
  ASSUME NEW T, 0 \in T, \A n \in Nat : n \in T => n + 1 \in T
  PROVE  \A n \in Nat : n \in T
<1> SUFFICES ASSUME Nat \ T # {} PROVE FALSE
  OBVIOUS
<1>1. PICK n \in Nat \ T : \A m \in Nat \ T : ~(m < n)
  BY LeastElement
<1>2. n - 1 \in Nat /\ n - 1 < n /\ (n - 1) + 1 = n
  BY <1>1
<1>3. n - 1 \in T
  BY <1>1, <1>2
<1>. QED BY <1>1, <1>2, <1>3

(* The states of a walk, one for each name on the way                       *)
WalkStep(W, k, names) ==
  IF W.ret # "0" THEN W ELSE WalkOn(W, IF k = 1 THEN NoVnode ELSE W.vn, names[k])
IsWalk(at, S, dir, names, n) ==
  at = [k \in 0 .. n |-> IF k = 0 THEN Ok(S, dir) ELSE WalkStep(at[k - 1], k, names)]

(* Walk is what its equations say, for a path of any length.                *)
LEMMA WalkExists ==
  ASSUME NEW S, NEW dir, NEW names, NEW n \in Nat
  PROVE  \E at : IsWalk(at, S, dir, names, n)
<1> DEFINE T == {k \in Nat : \E at : IsWalk(at, S, dir, names, k)}
<1>1. 0 \in T
  <2> DEFINE at == [i \in 0 .. 0 |-> Ok(S, dir)]
  <2>1. at = [i \in 0 .. 0 |-> IF i = 0 THEN Ok(S, dir) ELSE WalkStep(at[i - 1], i, names)]
    OBVIOUS
  <2>. QED BY <2>1 DEF IsWalk
<1>2. ASSUME NEW k \in Nat, k \in T PROVE k + 1 \in T
  <2>1. PICK g : IsWalk(g, S, dir, names, k)
    BY <1>2
  <2>2. PICK y : y = WalkStep(g[k], k + 1, names)
    OBVIOUS
  <2> DEFINE h == [i \in 0 .. (k + 1) |-> IF i = k + 1 THEN y ELSE g[i]]
  <2>3. ASSUME NEW i \in 0 .. (k + 1)
        PROVE  h[i] = IF i = 0 THEN Ok(S, dir) ELSE WalkStep(h[i - 1], i, names)
    <3>1. CASE i = 0
      BY <2>1, <3>1 DEF IsWalk
    <3>2. CASE i = k + 1
      <4>1. h[i] = y /\ i - 1 = k /\ h[k] = g[k]
        BY <3>2
      <4>. QED BY <2>2, <3>2, <4>1
    <3>3. CASE i # 0 /\ i # k + 1
      <4>1. i \in 0 .. k /\ i - 1 \in 0 .. k /\ h[i] = g[i] /\ h[i - 1] = g[i - 1]
        BY <3>3
      <4>2. g[i] = WalkStep(g[i - 1], i, names)
        BY <2>1, <3>3, <4>1 DEF IsWalk
      <4>. QED BY <3>3, <4>1, <4>2
    <3>. QED BY <3>1, <3>2, <3>3
  <2>4. IsWalk(h, S, dir, names, k + 1)
    <3>1. h = [i \in 0 .. (k + 1) |-> IF i = 0 THEN Ok(S, dir) ELSE WalkStep(h[i - 1], i, names)]
      BY <2>3
    <3>. QED BY <3>1 DEF IsWalk
  <2>. QED BY <2>4
<1> HIDE DEF T
<1>3. n \in T
  BY <1>1, <1>2, SetInduction
<1>. QED BY <1>3 DEF T

(* The states along a walk, one lookup after the other.                     *)
LEMMA WalkStates ==
  ASSUME NEW S, NEW dir, NEW names, Len(names) \in Nat
  PROVE  \E at : /\ at[0] = Ok(S, dir) /\ Walk(S, dir, names) = at[Len(names)]
                 /\ \A k \in 1 .. Len(names) : at[k] = WalkStep(at[k - 1], k, names)
<1> DEFINE at == CHOOSE at : at = [k \in 0 .. Len(names) |->
                   IF k = 0 THEN Ok(S, dir)
                   ELSE IF at[k - 1].ret # "0" THEN at[k - 1]
                   ELSE WalkOn(at[k - 1], IF k = 1 THEN NoVnode ELSE at[k - 1].vn, names[k])]
<1>1. Walk(S, dir, names) = at[Len(names)]
  BY DEF Walk
<1>2. at = CHOOSE g : IsWalk(g, S, dir, names, Len(names))
  BY DEF IsWalk, WalkStep
<1> HIDE DEF at
<1>3. IsWalk(at, S, dir, names, Len(names))
  BY <1>2, WalkExists
<1>4. at[0] = Ok(S, dir) /\ \A k \in 1 .. Len(names) : at[k] = WalkStep(at[k - 1], k, names)
  <2>1. \A k \in 0 .. Len(names) : at[k] = IF k = 0 THEN Ok(S, dir) ELSE WalkStep(at[k - 1], k, names)
    BY <1>3 DEF IsWalk
  <2>. QED BY <2>1
<1>. QED BY <1>1, <1>4

(* Where names lead, one name after the other                               *)
LEMMA LeadsNone ==
  ASSUME NEW ino, NEW d \in Ino, NEW names
  PROVE  \A i : Leads(ino, d, names, 0, i) <=> i = d
<1>1. ASSUME NEW i, Leads(ino, d, names, 0, i) PROVE i = d
  BY <1>1 DEF Leads
<1>2. Leads(ino, d, names, 0, d)
  <2> DEFINE along == [k \in 0 .. 0 |-> d]
  <2>1. along \in [0 .. 0 -> Ino] /\ along[0] = d
    OBVIOUS
  <2>2. \A j \in 1 .. 0 : FALSE
    OBVIOUS
  <2>. QED BY <2>1, <2>2 DEF Leads
<1>. QED BY <1>1, <1>2

(* Where one name more leads                                                *)
Follows(ino, d, names, k, m) ==
  \A i : Leads(ino, d, names, m, i) <=>
    \E j \in Ino : /\ Leads(ino, d, names, k, j) /\ IsDirIn(ino, j) /\ i \in Ino
                  /\ ino[j].rf_mem[names[m]] = i

(* One name more leads to what the directory there has by that name.        *)
LEMMA LeadsOn ==
  ASSUME NEW ino, NEW d, NEW names, NEW k \in Nat, NEW m, m = k + 1
  PROVE  Follows(ino, d, names, k, m)
<1>1. ASSUME NEW i, Leads(ino, d, names, m, i)
      PROVE  \E j \in Ino : /\ Leads(ino, d, names, k, j) /\ IsDirIn(ino, j) /\ i \in Ino
                           /\ ino[j].rf_mem[names[m]] = i
  <2>1. PICK along \in [0 .. m -> Ino] :
          /\ along[0] = d /\ along[m] = i
          /\ \A j \in 1 .. m :
               IsDirIn(ino, along[j - 1]) /\ ino[along[j - 1]].rf_mem[names[j]] = along[j]
    BY <1>1 DEF Leads
  <2> DEFINE part == [j \in 0 .. k |-> along[j]]
  <2>2. part \in [0 .. k -> Ino] /\ \A j \in 0 .. k : part[j] = along[j]
    OBVIOUS
  <2>3. ASSUME NEW j \in 1 .. k
        PROVE  IsDirIn(ino, part[j - 1]) /\ ino[part[j - 1]].rf_mem[names[j]] = part[j]
    <3>1. j \in 1 .. m /\ j \in 0 .. k /\ j - 1 \in 0 .. k
      OBVIOUS
    <3>2. part[j - 1] = along[j - 1] /\ part[j] = along[j]
      BY <2>2, <3>1
    <3>. QED BY <2>1, <3>1, <3>2
  <2>4. 0 \in 0 .. k /\ k \in 0 .. k
    OBVIOUS
  <2>5. part[0] = d /\ part[k] = along[k]
    BY <2>1, <2>2, <2>4
  <2> HIDE DEF part
  <2>6. Leads(ino, d, names, k, along[k])
    BY <2>2, <2>3, <2>5 DEF Leads
  <2>7. m \in 1 .. m /\ m - 1 = k /\ k \in 0 .. m /\ m \in 0 .. m
    OBVIOUS
  <2>8. IsDirIn(ino, along[k]) /\ ino[along[k]].rf_mem[names[m]] = i /\ i \in Ino /\ along[k] \in Ino
    BY <2>1, <2>7
  <2>. QED BY <2>6, <2>8
<1>2. ASSUME NEW l \in Ino, Leads(ino, d, names, k, l), IsDirIn(ino, l), NEW i \in Ino,
             ino[l].rf_mem[names[m]] = i
      PROVE  Leads(ino, d, names, m, i)
  <2>1. PICK part \in [0 .. k -> Ino] :
          /\ part[0] = d /\ part[k] = l
          /\ \A j \in 1 .. k : IsDirIn(ino, part[j - 1]) /\ ino[part[j - 1]].rf_mem[names[j]] = part[j]
    BY <1>2 DEF Leads
  <2> DEFINE along == [j \in 0 .. m |-> IF j = m THEN i ELSE part[j]]
  <2>2. /\ along[m] = i
        /\ \A j \in 0 .. k : along[j] = part[j]
    OBVIOUS
  <2>3. along \in [0 .. m -> Ino]
    <3>1. ASSUME NEW j \in 0 .. m PROVE along[j] \in Ino
      <4>1. CASE j = m
        BY <1>2, <4>1
      <4>2. CASE j # m
        <5>1. j \in 0 .. k
          BY <4>2
        <5>. QED BY <2>1, <2>2, <5>1
      <4>. QED BY <4>1, <4>2
    <3>. QED BY <3>1
  <2>4. ASSUME NEW j \in 1 .. m
        PROVE  IsDirIn(ino, along[j - 1]) /\ ino[along[j - 1]].rf_mem[names[j]] = along[j]
    <3>1. CASE j = m
      <4>1. j - 1 = k /\ k \in 0 .. k
        BY <3>1
      <4>2. along[j - 1] = l /\ along[j] = i
        BY <2>1, <2>2, <3>1, <4>1
      <4>. QED BY <1>2, <3>1, <4>2
    <3>2. CASE j # m
      <4>1. j \in 1 .. k /\ j \in 0 .. k /\ j - 1 \in 0 .. k
        BY <3>2
      <4>2. along[j - 1] = part[j - 1] /\ along[j] = part[j]
        BY <2>2, <4>1
      <4>. QED BY <2>1, <4>1, <4>2
    <3>. QED BY <3>1, <3>2
  <2>5. 0 \in 0 .. k
    OBVIOUS
  <2>6. along[0] = d
    BY <2>1, <2>2, <2>5
  <2> HIDE DEF along
  <2>. QED BY <2>2, <2>3, <2>4, <2>6 DEF Leads
<1>. QED BY <1>1, <1>2 DEF Follows

(* What one name more found on the way, or did not                          *)
WayOn(S0, W, n, L) ==
  LET i == W.S.vnode[W.vn].vn_vno
  IN /\ Up(W.S) /\ i \in Ino /\ IsDirIn(S0.inode, i)
     /\ IF L.ret = "0"
        THEN L.S.vnode[L.vn].vn_vno \in Ino /\ S0.inode[i].rf_mem[n] = L.S.vnode[L.vn].vn_vno
        ELSE S0.inode[i].rf_mem[n] \notin Ino

(* One name further: the vnode before is put, unless it is the first.       *)
LEMMA WalkOnFound ==
  ASSUME NEW S0, NEW R \in [VnodeT -> Nat], \A w \in VnodeT : Refs(S0)[w] <= R[w],
         NEW W, StopsOK(S0, W.S), NEW n \in LookupNames, NEW pre,
         Up(W.S) => /\ Calm(S0, W.S) /\ W.vn \in VnodeT /\ Refs(W.S)[W.vn] > 0
                    /\ Refs(W.S) = IF pre = NoVnode THEN R ELSE Plus(R, W.vn),
         pre \in {NoVnode, W.vn}, NEW L, L = WalkOn(W, pre, n),
         Up(W.S) => May(S0, W.S.vnode[W.vn].vn_vno, n)
  PROVE  Found(S0, L, R) /\ (Up(L.S) => WayOn(S0, W, n, L))
<1>1. PICK M : M = lookup(W.S, W.vn, n)
  OBVIOUS
<1>2. PICK left : left = Leave(M.S, pre)
  OBVIOUS
<1>3. /\ L.S = left
      /\ M.ret = "0" => L.ret = "0" /\ L.vn = M.vn
      /\ M.ret # "0" => L.ret = M.ret
  BY <1>1, <1>2 DEF WalkOn, Ok, Fails
<1>4. CASE ~Up(W.S)
  <2>1. M.S = W.S /\ left = W.S
    BY <1>1, <1>2, <1>4, StaysDown DEF Fails, Leave
  <2>. QED BY <1>3, <1>4, <2>1 DEF Found
<1>5. CASE Up(W.S)
  <2>1. /\ Found(S0, M, Refs(W.S))
        /\ Up(M.S) => IF M.ret = "0" THEN There(M, W.S, W.vn, n) ELSE Missing(M, W.S, W.vn, n)
    BY <1>1, <1>5, LookupFound
  <2>0. PICK i : i = W.S.vnode[W.vn].vn_vno
    OBVIOUS
  <2>5. ASSUME Up(M.S), M.ret = "0" => SameIds(M.S.vnode, left.vnode) PROVE WayOn(S0, W, n, L)
    <3>1. /\ i \in Ino /\ (W.S.vnode[W.vn].vn_mode = "dir" <=> IsDirIn(S0.inode, i))
          /\ IsDirIn(S0.inode, i) => S0.inode[i].rf_mem = Mem(W.S, W.vn)
      BY <1>5, <2>0, ShowsDir
    <3>2. CASE M.ret = "0"
      <4>1. There(M, W.S, W.vn, n) /\ M.vn \in VnodeT
        BY <2>1, <2>5, <3>2 DEF Found, Holding
      <4>2. left.vnode[M.vn].vn_vno = M.S.vnode[M.vn].vn_vno
        BY <2>5, <3>2, <4>1 DEF SameIds
      <4>. QED BY <1>3, <1>5, <2>0, <3>1, <3>2, <4>1, <4>2 DEF There, WayOn
    <3>3. CASE M.ret # "0"
      <4>1. Missing(M, W.S, W.vn, n)
        BY <2>1, <2>5, <3>3
      <4>. QED BY <1>3, <1>5, <2>0, <3>1, <3>3, <4>1, InoFacts DEF Missing, WayOn
    <3>. QED BY <3>2, <3>3
  <2>2. CASE ~Up(M.S)
    <3>1. left = M.S
      BY <1>2, <2>2, StaysDown DEF Leave
    <3>. QED BY <1>3, <2>1, <2>2, <3>1 DEF Found
  <2>3. CASE Up(M.S) /\ pre = NoVnode
    <3>1. left = M.S /\ Refs(W.S) = R
      BY <1>2, <1>5, <2>3 DEF Leave
    <3>2. SameIds(M.S.vnode, left.vnode)
      BY <3>1 DEF SameIds
    <3>. QED BY <1>3, <2>1, <2>3, <2>5, <3>1, <3>2 DEF Found, Holding
  <2>4. CASE Up(M.S) /\ pre # NoVnode
    <3>1. left = vput(M.S, W.vn) /\ Refs(W.S) = Plus(R, W.vn) /\ W.vn \in VnodeT
      BY <1>2, <1>5, <2>4 DEF Leave
    <3>2. Calm(S0, M.S) /\ Holding(M, Refs(W.S))
      BY <2>1, <2>4 DEF Found
    <3>3. CASE M.ret = "0"
      <4>1. M.vn \in VnodeT /\ Refs(M.S) = Plus(Plus(R, W.vn), M.vn)
        BY <3>1, <3>2, <3>3 DEF Holding
      <4>2. Refs(M.S) = Plus(Plus(R, M.vn), W.vn)
        BY <3>1, <4>1, PlusPlus
      <4>3. PICK Q : Q = Plus(R, M.vn)
        OBVIOUS
      <4>4. Q \in [VnodeT -> Nat] /\ \A w \in VnodeT : Refs(S0)[w] <= Q[w]
        <5>1. Q \in [VnodeT -> Nat] /\ \A w \in VnodeT : R[w] <= Q[w]
          BY <4>1, <4>3, PlusIs
        <5>2. Refs(S0) \in [VnodeT -> Nat]
          BY <3>2, CalmFacts
        <5>. QED BY <5>1, <5>2
      <4>5. Calm(S0, left) /\ Refs(left) = Q /\ StopsOK(S0, left) /\ SameIds(M.S.vnode, left.vnode)
        BY <3>1, <3>2, <4>2, <4>3, <4>4, FoundPut
      <4>. QED BY <1>3, <2>4, <2>5, <3>3, <4>1, <4>3, <4>5 DEF Found, Holding
    <3>4. CASE M.ret # "0"
      <4>1. Refs(M.S) = Plus(R, W.vn)
        BY <3>1, <3>2, <3>4 DEF Holding
      <4>2. Calm(S0, left) /\ Refs(left) = R /\ StopsOK(S0, left)
        BY <3>1, <3>2, <4>1, FoundPut
      <4>. QED BY <1>3, <2>4, <2>5, <3>4, <4>2 DEF Found, Holding
    <3>. QED BY <3>3, <3>4
  <2>. QED BY <2>2, <2>3, <2>4
<1>. QED BY <1>4, <1>5

(* A walk along names from a directory may look each of them up.            *)
MayWalk(S0, d, names) ==
  \A k \in 1 .. Len(names), i \in Ino :
    Leads(S0.inode, d, names, k - 1, i) => May(S0, i, names[k])
Reaches(S0, d, names, k, L) ==
  \A i : Leads(S0.inode, d, names, k, i) <=> L.ret = "0" /\ i = L.S.vnode[L.vn].vn_vno

(* A walk holds the vnode it arrived at and no other; it is where the names *)
(* lead.                                                                    *)
LEMMA WalkFound ==
  ASSUME NEW S0, NEW S, Calm(S0, S), NEW dir \in VnodeT, Refs(S)[dir] > 0,
         NEW names \in Seq(Name \cup {Dot, DotDot}), names # <<>>,
         NEW L, L = Walk(S, dir, names),
         NEW start, start = S.vnode[dir].vn_vno, MayWalk(S0, start, names)
  PROVE  Found(S0, L, Refs(S)) /\ (Up(L.S) => Reaches(S0, start, names, Len(names), L))
<1> DEFINE R == Refs(S)
           n == Len(names)
<1>1. n \in Nat /\ n > 0 /\ \A k \in 1 .. n : names[k] \in LookupNames
  BY DEF LookupNames
<1>2. PICK at : /\ at[0] = Ok(S, dir) /\ L = at[n]
                /\ \A k \in 1 .. n : at[k] = WalkStep(at[k - 1], k, names)
  BY <1>1, WalkStates
<1>3. R \in [VnodeT -> Nat] /\ (\A w \in VnodeT : Refs(S0)[w] <= R[w]) /\ StopsOK(S0, S) /\ Up(S)
  BY CalmFacts
<1>0. start \in Ino
  BY ShowsDir
<1>9. \A k \in 1 .. n, i \in Ino : Leads(S0.inode, start, names, k - 1, i) => May(S0, i, names[k])
  BY DEF MayWalk
<1> HIDE DEF R, n
<1> DEFINE Along(k) ==
             Found(S0, at[k], R) /\ (Up(at[k].S) => Reaches(S0, start, names, k, at[k]))
           T == {k \in Nat : k + 1 <= n => Along(k + 1)}
<1>4. 0 \in T
  <2>1. at[1] = WalkOn(at[0], NoVnode, names[1])
    BY <1>1, <1>2 DEF WalkStep, Ok
  <2>2. at[0].S = S /\ at[0].vn = dir
    BY <1>2 DEF Ok
  <2>3. names[1] \in LookupNames
    BY <1>1
  <2>4. \A i : Leads(S0.inode, start, names, 0, i) <=> i = start
    BY <1>0, LeadsNone
  <2>5. May(S0, start, names[1])
    <3>1. 1 \in 1 .. n /\ 1 - 1 = 0
      BY <1>1
    <3>. QED BY <1>0, <1>9, <2>4, <3>1
  <2>6. Found(S0, at[1], R) /\ (Up(at[1].S) => WayOn(S0, at[0], names[1], at[1]))
    BY <1>3, <2>1, <2>2, <2>3, <2>5, WalkOnFound DEF R
  <2>7. ASSUME Up(at[1].S) PROVE Reaches(S0, start, names, 1, at[1])
    <3>1. WayOn(S0, at[0], names[1], at[1])
      BY <2>6, <2>7
    <3>2. 0 \in Nat /\ 0 + 1 = 1
      OBVIOUS
    <3>6. \A i : Leads(S0.inode, start, names, 1, i) <=>
                 \E j \in Ino : /\ Leads(S0.inode, start, names, 0, j) /\ IsDirIn(S0.inode, j)
                               /\ i \in Ino /\ S0.inode[j].rf_mem[names[1]] = i
      <4>1. Follows(S0.inode, start, names, 0, 1)
        BY <3>2, LeadsOn
      <4>. QED BY <4>1 DEF Follows
    <3>4. \A i : Leads(S0.inode, start, names, 1, i) <=>
                 IsDirIn(S0.inode, start) /\ i \in Ino /\ S0.inode[start].rf_mem[names[1]] = i
      BY <1>0, <2>4, <3>6
    <3>. QED BY <2>2, <3>1, <3>4 DEF WayOn, Reaches
  <2>. QED BY <2>6, <2>7
<1>5. ASSUME NEW k \in Nat, k \in T PROVE k + 1 \in T
  <2> SUFFICES ASSUME k + 2 <= n
               PROVE  /\ Found(S0, at[k + 2], R)
                      /\ Up(at[k + 2].S) => Reaches(S0, start, names, k + 2, at[k + 2])
    BY <1>1
  <2>1. Found(S0, at[k + 1], R) /\ (Up(at[k + 1].S) => Reaches(S0, start, names, k + 1, at[k + 1]))
    BY <1>1, <1>5
  <2>2. PICK W : W = at[k + 1]
    OBVIOUS
  <2>3. at[k + 2] = WalkStep(W, k + 2, names) /\ names[k + 2] \in LookupNames
    <3>1. k + 2 \in 1 .. n /\ (k + 2) - 1 = k + 1
      BY <1>1
    <3>. QED BY <1>1, <1>2, <2>2, <3>1
  <2>6. \A i : Leads(S0.inode, start, names, k + 2, i) <=>
               \E j \in Ino : /\ Leads(S0.inode, start, names, k + 1, j) /\ IsDirIn(S0.inode, j) /\ i \in Ino
                             /\ S0.inode[j].rf_mem[names[k + 2]] = i
    <3>1. k + 1 \in Nat /\ (k + 1) + 1 = k + 2
      OBVIOUS
    <3>2. Follows(S0.inode, start, names, k + 1, k + 2)
      BY <3>1, LeadsOn
    <3>. QED BY <3>2 DEF Follows
  <2>4. CASE W.ret # "0"
    <3>1. at[k + 2] = W
      BY <2>3, <2>4 DEF WalkStep
    <3>2. ASSUME Up(W.S) PROVE Reaches(S0, start, names, k + 2, W)
      <4>1. \A j : ~Leads(S0.inode, start, names, k + 1, j)
        BY <2>1, <2>2, <2>4, <3>2 DEF Reaches
      <4>. QED BY <2>4, <2>6, <4>1 DEF Reaches
    <3>. QED BY <2>1, <2>2, <3>1, <3>2
  <2>5. CASE W.ret = "0"
    <3>1. k + 2 # 1
      OBVIOUS
    <3>2. at[k + 2] = WalkOn(W, W.vn, names[k + 2])
      BY <2>3, <2>5, <3>1 DEF WalkStep
    <3>3. StopsOK(S0, W.S)
      BY <2>1, <2>2 DEF Found
    <3>4. ASSUME Up(W.S)
          PROVE  /\ Calm(S0, W.S) /\ W.vn \in VnodeT /\ Refs(W.S)[W.vn] > 0
                 /\ Refs(W.S) = IF W.vn = NoVnode THEN R ELSE Plus(R, W.vn)
      <4>1. Calm(S0, W.S) /\ W.vn \in VnodeT /\ Refs(W.S) = Plus(R, W.vn)
        BY <2>1, <2>2, <2>5, <3>4 DEF Found, Holding
      <4>2. Refs(W.S)[W.vn] = R[W.vn] + 1 /\ R[W.vn] \in Nat
        BY <1>3, <4>1, PlusIs
      <4>3. W.vn # NoVnode
        BY <4>1, RamfsAssumption
      <4>. QED BY <4>1, <4>2, <4>3
    <3>5. PICK i : i = W.S.vnode[W.vn].vn_vno
      OBVIOUS
    <3>6. ASSUME Up(W.S) PROVE \A j : Leads(S0.inode, start, names, k + 1, j) <=> j = i
      BY <2>1, <2>2, <2>5, <3>5, <3>6 DEF Reaches
    <3>7. ASSUME Up(W.S) PROVE May(S0, i, names[k + 2])
      <4>1. i \in Ino
        BY <3>4, <3>5, <3>7, ShowsDir
      <4>2. k + 2 \in 1 .. n /\ (k + 2) - 1 = k + 1
        BY <1>1
      <4>. QED BY <1>9, <3>6, <3>7, <4>1, <4>2
    <3>8. Found(S0, at[k + 2], R) /\ (Up(at[k + 2].S) => WayOn(S0, W, names[k + 2], at[k + 2]))
      BY <1>3, <2>3, <3>2, <3>3, <3>4, <3>5, <3>7, WalkOnFound
    <3>9. ASSUME Up(at[k + 2].S) PROVE Reaches(S0, start, names, k + 2, at[k + 2])
      <4>1. WayOn(S0, W, names[k + 2], at[k + 2])
        BY <3>8, <3>9
      <4>2. \A j : Leads(S0.inode, start, names, k + 1, j) <=> j = i
        BY <3>6, <4>1 DEF WayOn
      <4>3. i \in Ino
        BY <3>5, <4>1 DEF WayOn
      <4>4. \A j : Leads(S0.inode, start, names, k + 2, j) <=>
                   IsDirIn(S0.inode, i) /\ j \in Ino /\ S0.inode[i].rf_mem[names[k + 2]] = j
        BY <2>6, <4>2, <4>3
      <4>. QED BY <3>5, <4>1, <4>4 DEF WayOn, Reaches
    <3>. QED BY <3>8, <3>9
  <2>. QED BY <2>4, <2>5
<1> HIDE DEF T
<1>6. n - 1 \in T
  <2>1. n - 1 \in Nat
    BY <1>1
  <2>. QED BY <1>4, <1>5, <2>1, SetInduction
<1>7. Found(S0, at[(n - 1) + 1], R)
      /\ (Up(at[(n - 1) + 1].S) => Reaches(S0, start, names, (n - 1) + 1, at[(n - 1) + 1]))
  BY <1>1, <1>6 DEF T
<1>8. (n - 1) + 1 = n
  BY <1>1
<1>. QED BY <1>2, <1>7, <1>8 DEF R, n

(* What dir_namev returns: the directory the names lead to, or no directory *)
Arrives(S0, d, names, L) ==
  IF L.ret = "0"
  THEN /\ L.S.vnode[L.vn].vn_mode = "dir"
       /\ Leads(S0.inode, d, names, Len(names), L.S.vnode[L.vn].vn_vno)
  ELSE \A i : Leads(S0.inode, d, names, Len(names), i) => ~IsDirIn(S0.inode, i)

(* What was found is in use.                                                *)
LEMMA FoundGrows ==
  ASSUME NEW S0, NEW L, NEW R \in [VnodeT -> Nat], Found(S0, L, R), L.ret = "0", Up(L.S)
  PROVE  Calm(S0, L.S) /\ L.vn \in VnodeT /\ Refs(L.S)[L.vn] > 0
<1>1. Calm(S0, L.S) /\ L.vn \in VnodeT /\ Refs(L.S) = Plus(R, L.vn)
  BY DEF Found, Holding
<1>2. PICK v \in VnodeT : v = L.vn
  BY <1>1
<1>3. Plus(R, v)[v] = R[v] + 1 /\ R[v] \in Nat
  BY PlusIs
<1>4. Plus(R, v)[v] > 0
  BY <1>3
<1>. QED BY <1>1, <1>2, <1>4

(* A walk along no names stays where it began, with one more reference.     *)
LEMMA ArriveFound ==
  ASSUME NEW S0, NEW S, Calm(S0, S), NEW dir \in VnodeT, Refs(S)[dir] > 0, NEW path \in Path,
         NEW L, L = Arrive(S, dir, path), S.vnode[dir].vn_mode = "dir",
         NEW start, start = S.vnode[dir].vn_vno, MayWalk(S0, start, path.dirs)
  PROVE  /\ Found(S0, L, Refs(S))
         /\ Up(L.S) => Arrives(S0, start, path.dirs, L)
         /\ path.dirs = <<>> => Up(L.S) /\ L.ret = "0" /\ SameIds(S.vnode, L.S.vnode)
<1>1. PICK R : R = Refs(S)
  OBVIOUS
<1>2. R \in [VnodeT -> Nat] /\ (\A w \in VnodeT : Refs(S0)[w] <= R[w]) /\ StopsOK(S0, S) /\ Up(S)
  BY <1>1, CalmFacts
<1>3. CASE path.dirs = <<>>
  <2>1. PICK T : T = vref(S, dir)
    OBVIOUS
  <2>2. L.S = T /\ L.vn = dir /\ L.ret = "0"
    BY <1>3, <2>1 DEF Arrive, Ok
  <2>3. Calm(S0, T) /\ Refs(T) = Plus(R, dir)
    BY <1>1, <2>1, CalmRef
  <2>4. SameIds(S.vnode, T.vnode)
    BY <1>1, <1>2, <2>1, VrefGood, RefsType DEF Calm
  <2>5. start \in Ino /\ IsDirIn(S0.inode, start)
    BY ShowsDir
  <2>6. Len(path.dirs) = 0 /\ \A i : Leads(S0.inode, start, path.dirs, 0, i) <=> i = start
    BY <1>3, <2>5, LeadsNone
  <2>7. T.vnode[dir].vn_mode = "dir" /\ T.vnode[dir].vn_vno = start
    BY <2>4 DEF SameIds
  <2>8. Arrives(S0, start, path.dirs, L)
    BY <2>2, <2>6, <2>7 DEF Arrives
  <2>. QED BY <1>1, <2>2, <2>3, <2>4, <2>8, CalmFacts DEF Found, Holding
<1>4. CASE path.dirs # <<>>
  <2>1. PICK W : W = Walk(S, dir, path.dirs)
    OBVIOUS
  <2>2. Found(S0, W, R) /\ (Up(W.S) => Reaches(S0, start, path.dirs, Len(path.dirs), W))
    <3>1. path.dirs \in Seq(Name \cup {Dot, DotDot})
      BY DEF Path
    <3>. QED BY <1>1, <1>4, <2>1, <3>1, WalkFound
  <2>3. CASE W.ret = "0" /\ Up(W.S) /\ W.S.vnode[W.vn].vn_mode # "dir"
    <3>1. PICK T : T = vput(W.S, W.vn)
      OBVIOUS
    <3>2. L = Fails(T, "ENOTDIR")
      BY <1>4, <2>1, <2>3, <3>1 DEF Arrive, Up
    <3>3. Calm(S0, T) /\ Refs(T) = R /\ StopsOK(S0, T)
      BY <1>2, <2>2, <2>3, <3>1, FoundPut DEF Found, Holding
    <3>4. L.S = T /\ L.ret = "ENOTDIR"
      BY <3>2 DEF Fails
    <3>5. ~IsDirIn(S0.inode, W.S.vnode[W.vn].vn_vno)
      <4>1. PICK w : w = W.vn
        OBVIOUS
      <4>2. PICK X : X = W.S
        OBVIOUS
      <4>3. Calm(S0, X) /\ w \in VnodeT /\ Refs(X)[w] > 0
        BY <1>2, <2>2, <2>3, <4>1, <4>2, FoundGrows
      <4>. QED BY <2>3, <4>1, <4>2, <4>3, ShowsDir
    <3>6. Arrives(S0, start, path.dirs, L)
      BY <2>2, <2>3, <3>4, <3>5 DEF Reaches, Arrives
    <3>. QED BY <1>1, <1>4, <3>3, <3>4, <3>6 DEF Found, Holding
  <2>4. CASE ~(W.ret = "0" /\ Up(W.S) /\ W.S.vnode[W.vn].vn_mode # "dir")
    <3>1. L = W
      BY <1>4, <2>1, <2>4 DEF Arrive, Up
    <3>2. ASSUME Up(W.S) PROVE Arrives(S0, start, path.dirs, L)
      <4>1. CASE W.ret # "0"
        BY <2>2, <3>1, <3>2, <4>1 DEF Reaches, Arrives
      <4>2. CASE W.ret = "0" /\ W.S.vnode[W.vn].vn_mode = "dir"
        BY <2>2, <3>1, <3>2, <4>2 DEF Reaches, Arrives
      <4>. QED BY <2>4, <3>2, <4>1, <4>2
    <3>. QED BY <1>1, <1>4, <2>2, <3>1, <3>2
  <2>. QED BY <2>3, <2>4
<1>. QED BY <1>3, <1>4

RootShown(S) == Shown(S.vnode, 0)

(* The root directory has its vnode throughout.                             *)
LEMMA RootInUse ==
  ASSUME NEW S0, NEW S, Calm(S0, S), RootShown(S0)
  PROVE  /\ RootShown(S) /\ VnodeOf(S, 0) \in VnodeT /\ Refs(S)[VnodeOf(S, 0)] > 0
         /\ S.vnode[VnodeOf(S, 0)].vn_vno = 0
<1>1. PICK v \in VnodeT : S0.vnode[v].vn_refcount > 0 /\ S0.vnode[v].vn_vno = 0
  BY DEF RootShown, Shown
<1>2. Good(S0) /\ Good(S) /\ Kept(S0.vnode, S.vnode) /\ OneVnode(S.vnode)
  BY GoodParts DEF Calm
<1>3. S.vnode[v].vn_vno = 0
  BY <1>1, <1>2 DEF Kept
<1>4. S.vnode[v].vn_refcount > 0 /\ Refs(S)[v] > 0
  <2>1. Refs(S0)[v] > 0 /\ Refs(S)[v] = S.vnode[v].vn_refcount
    BY <1>1, <1>2, RefsType
  <2>2. Refs(S0)[v] <= Refs(S)[v] /\ Refs(S)[v] \in Nat /\ Refs(S0)[v] \in Nat
    BY CalmFacts
  <2>3. Refs(S)[v] > 0
    BY ONLY <2>1, <2>2
  <2>. QED BY <2>1, <2>3
<1>5. VnodeOf(S, 0) = v
  BY <1>2, <1>3, <1>4, TheVnode
<1>. QED BY <1>3, <1>4, <1>5 DEF RootShown, Shown

(* A path as it is given to a call: it begins in a directory, and each of   *)
(* its names may be looked up, the last if it is one.                       *)
StartIn(S0, cwd, path) == IF path.abs THEN 0 ELSE S0.vnode[cwd].vn_vno
GivenPath(S0, cwd, path) ==
  /\ path \in Path
  /\ IsDirIn(S0.inode, StartIn(S0, cwd, path))
  /\ MayWalk(S0, StartIn(S0, cwd, path), path.dirs)
  /\ path.last = DotDot => \A i \in Ino :
       Leads(S0.inode, StartIn(S0, cwd, path), path.dirs, Len(path.dirs), i) /\ Astray(S0.inode, i)
         => UpFromAstray(S0.inode, S0.vnode, p_cwd)
MayLook(S0, D, path) ==
  (path.last = NoName => Nameless) => May(S0, D.S.vnode[D.vn].vn_vno, path.last)
NoWay(S0, cwd, path) ==
  \A i : Leads(S0.inode, StartIn(S0, cwd, path), path.dirs, Len(path.dirs), i) => ~IsDirIn(S0.inode, i)

(* dir_namev (namev.c) holds the directory it returns and nothing else, and *)
(* finds one if the names lead to one.                                      *)
LEMMA DirNamevFound ==
  ASSUME NEW S0, NEW S, Calm(S0, S), RootShown(S0), NEW cwd \in VnodeT, Refs(S0)[cwd] > 0,
         Refs(S)[cwd] > 0, NEW path, GivenPath(S0, cwd, path), NEW L, L = dir_namev(S, cwd, path)
  PROVE  /\ Found(S0, L, Refs(S))
         /\ Up(L.S) => IF L.ret = "0" THEN MayLook(S0, L, path) ELSE NoWay(S0, cwd, path)
         /\ path.dirs = <<>> => Up(L.S) /\ L.ret = "0" /\ SameIds(S.vnode, L.S.vnode)
<1>0. path \in Path
  BY DEF GivenPath
<1>1. PICK dir : dir = IF path.abs THEN VnodeOf(S, 0) ELSE cwd
  OBVIOUS
<1>2. dir \in VnodeT /\ Refs(S)[dir] > 0
  BY <1>1, RootInUse
<1>3. L = Arrive(S, dir, path)
  BY <1>1 DEF dir_namev
<1>4. PICK start : start = StartIn(S0, cwd, path)
  OBVIOUS
<1>5. start = S.vnode[dir].vn_vno
  <2>1. S0.vnode[cwd].vn_refcount > 0
    <3>1. Good(S0)
      BY DEF Calm
    <3>. QED BY <3>1, RefsType
  <2>2. S.vnode[cwd].vn_vno = S0.vnode[cwd].vn_vno
    BY <2>1 DEF Calm, Kept
  <2>. QED BY <1>1, <1>4, <2>2, RootInUse DEF StartIn
<1>6. S.vnode[dir].vn_mode = "dir"
  BY <1>2, <1>4, <1>5, ShowsDir DEF GivenPath
<1>7. MayWalk(S0, start, path.dirs)
  BY <1>4 DEF GivenPath
<1>8. /\ Found(S0, L, Refs(S))
      /\ Up(L.S) => Arrives(S0, start, path.dirs, L)
      /\ path.dirs = <<>> => Up(L.S) /\ L.ret = "0" /\ SameIds(S.vnode, L.S.vnode)
  BY <1>0, <1>2, <1>3, <1>5, <1>6, <1>7, ArriveFound
<1>9. ASSUME Up(L.S), L.ret = "0" PROVE MayLook(S0, L, path)
  <2>1. Refs(S) \in [VnodeT -> Nat]
    BY CalmFacts
  <2>2. PICK X : X = L.S
    OBVIOUS
  <2>3. PICK d : d = L.vn
    OBVIOUS
  <2>4. Calm(S0, X) /\ d \in VnodeT /\ Refs(X)[d] > 0
    BY <1>8, <1>9, <2>1, <2>2, <2>3, FoundGrows
  <2>5. X.vnode[d].vn_mode = "dir" /\ Leads(S0.inode, start, path.dirs, Len(path.dirs), X.vnode[d].vn_vno)
    BY <1>8, <1>9, <2>2, <2>3 DEF Arrives
  <2>6. X.vnode[d].vn_vno \in Ino /\ IsDirIn(S0.inode, X.vnode[d].vn_vno)
    BY <2>4, <2>5, ShowsDir
  <2>. QED BY <1>4, <2>2, <2>3, <2>5, <2>6 DEF GivenPath, MayLook, May
<1>10. ASSUME Up(L.S), L.ret # "0" PROVE NoWay(S0, cwd, path)
  BY <1>4, <1>8, <1>10 DEF Arrives, NoWay
<1>. QED BY <1>8, <1>9, <1>10
-----------------------------------------------------------------------------
(* What a call that has changed names leaves                                *)
Live(S0, S) == Good(S) /\ S.file = S0.file /\ Kept(S0.vnode, S.vnode)
Opened(S0, L, R) == StopsOK(S0, L.S) /\ (Up(L.S) => Live(S0, L.S) /\ Holding(L, R))

(* What lookups do is a case of what calls do.                              *)
LEMMA CalmLive ==
  ASSUME NEW S0, NEW S, Calm(S0, S)
  PROVE  Live(S0, S)
BY DEF Calm, Live, Quiet

(* So is what they find.                                                    *)
LEMMA FoundOpened ==
  ASSUME NEW S0, NEW L, NEW R, Found(S0, L, R)
  PROVE  Opened(S0, L, R)
BY CalmLive DEF Found, Opened

(* A kernel that runs has not stopped where it may not.                     *)
LEMMA UpStops ==
  ASSUME NEW S0, NEW S, Up(S)
  PROVE  StopsOK(S0, S)
BY DEF Up, StopsOK, Stops

(* A call puts what it held.                                                *)
LEMMA LivePut ==
  ASSUME NEW S0, NEW S, Live(S0, S), Up(S), NEW v \in VnodeT, NEW R \in [VnodeT -> Nat],
         Refs(S) = Plus(R, v), NEW T, T = vput(S, v)
  PROVE  Live(S0, T) /\ Up(T) /\ Refs(T) = R /\ StopsOK(S0, T) /\ SameIds(S.vnode, T.vnode)
<1>1. S.vnode[v].vn_refcount > 0
  <2>1. Refs(S)[v] = R[v] + 1 /\ Refs(S)[v] = S.vnode[v].vn_refcount /\ R[v] \in Nat
    BY PlusIs, RefsType DEF Live
  <2>2. Refs(S)[v] > 0
    BY ONLY <2>1
  <2>. QED BY <2>1, <2>2
<1>2. /\ Good(T) /\ Up(T) /\ T.file = S.file
      /\ SameIds(S.vnode, T.vnode) /\ Refs(T) = Minus(Refs(S), v)
  BY <1>1, VputGood DEF Live
<1>3. Kept(S0.vnode, T.vnode)
  BY <1>2 DEF Live, Kept, SameIds
<1>4. Refs(T) = R
  BY <1>2, PlusIs
<1>. QED BY <1>2, <1>3, <1>4, UpStops DEF Live

IsResult(L) == \E S, ret, vn : L = [S |-> S, ret |-> ret, vn |-> vn]

(* A vnode and a directory are put that were held beside R.                 *)
LEMMA OpenedPut ==
  ASSUME NEW S0, NEW L, NEW R \in [VnodeT -> Nat], NEW d \in VnodeT, Opened(S0, L, Plus(R, d)),
         NEW M, M = Put(L, d), IsResult(L)
  PROVE  Opened(S0, M, R) /\ M.ret = L.ret /\ M.vn = L.vn
<1>1. M.S = vput(L.S, d) /\ M.ret = L.ret /\ M.vn = L.vn
  BY DEF Put, IsResult
<1>2. CASE ~Up(L.S)
  BY <1>1, <1>2, StaysDown DEF Opened
<1>3. CASE Up(L.S) /\ L.ret = "0"
  <2>1. Live(S0, L.S) /\ L.vn \in VnodeT /\ Refs(L.S) = Plus(Plus(R, d), L.vn)
    BY <1>3 DEF Opened, Holding
  <2>2. PICK Q : Q = Plus(R, L.vn)
    OBVIOUS
  <2>3. Q \in [VnodeT -> Nat] /\ Refs(L.S) = Plus(Q, d)
    BY <2>1, <2>2, PlusPlus, PlusIs
  <2>4. Live(S0, M.S) /\ Up(M.S) /\ Refs(M.S) = Q /\ StopsOK(S0, M.S)
    BY <1>1, <1>3, <2>1, <2>3, LivePut
  <2>. QED BY <1>1, <1>3, <2>1, <2>2, <2>4 DEF Opened, Holding
<1>4. CASE Up(L.S) /\ L.ret # "0"
  <2>1. Live(S0, L.S) /\ Refs(L.S) = Plus(R, d)
    BY <1>4 DEF Opened, Holding
  <2>2. Live(S0, M.S) /\ Up(M.S) /\ Refs(M.S) = R /\ StopsOK(S0, M.S)
    BY <1>1, <1>4, <2>1, LivePut
  <2>. QED BY <1>1, <1>4, <2>2 DEF Opened, Holding
<1>. QED BY <1>2, <1>3, <1>4
-----------------------------------------------------------------------------
(* A directory is given or loses a name.                                    *)
Entries == Name \cup {Dot, DotDot}
SetEntry(ino, d, n, x, s, ino2) ==
  ino2 = [ino EXCEPT ![d] = [ino[d] EXCEPT !.rf_size = s, !.rf_mem = [ino[d].rf_mem EXCEPT ![n] = x]]]

SetRecord(r, n, x, s, q) == q = [r EXCEPT !.rf_size = s, !.rf_mem = [r.rf_mem EXCEPT ![n] = x]]

(* what that comes to                                                       *)
RecordIs(r, n, x, s, q) ==
  /\ q \in InodeT /\ q # NoInode /\ q.rf_mode = r.rf_mode /\ q.rf_linkcount = r.rf_linkcount
  /\ q.rf_size = s /\ q.rf_mem[n] = x /\ \A m \in Entries : m # n => q.rf_mem[m] = r.rf_mem[m]
  /\ q.rf_mem \in [Entries -> Ino \cup {Nowhere}]

EntryIs(ino, d, n, x, s, ino2) ==
  /\ ino2 \in InodesT
  /\ \A j \in Ino : j # d => ino2[j] = ino[j]
  /\ DirsIn(ino2) = DirsIn(ino)
  /\ \A j \in Ino : ino2[j] = NoInode <=> ino[j] = NoInode
  /\ \A j \in Ino : ino2[j].rf_linkcount = ino[j].rf_linkcount /\ ino2[j].rf_mode = ino[j].rf_mode
  /\ ino2[d].rf_size = s /\ ino2[d].rf_mem[n] = x
  /\ \A m \in Entries : m # n => ino2[d].rf_mem[m] = ino[d].rf_mem[m]
  /\ ino2[d].rf_mem \in [Entries -> Ino \cup {Nowhere}]

(* An inode with one entry changed is an inode.                             *)
LEMMA EntryRecord ==
  ASSUME NEW r \in InodeT, NEW n \in Entries, NEW x \in Ino \cup {Nowhere}, NEW s \in Nat,
         NEW q, SetRecord(r, n, x, s, q)
  PROVE  RecordIs(r, n, x, s, q)
<1>1. PICK mem : mem = [r.rf_mem EXCEPT ![n] = x]
  OBVIOUS
<1>2. r.rf_mem \in [Entries -> Ino \cup {Nowhere}]
  BY DEF InodeT, Entries
<1>3. mem \in [Entries -> Ino \cup {Nowhere}] /\ mem[n] = x
      /\ \A m \in Entries : m # n => mem[m] = r.rf_mem[m]
  BY <1>1, <1>2
<1>4. q = [r EXCEPT !.rf_size = s, !.rf_mem = mem]
  BY <1>1 DEF SetRecord
<1>5. /\ q \in InodeT /\ q.rf_mode = r.rf_mode /\ q.rf_linkcount = r.rf_linkcount
      /\ q.rf_size = s /\ q.rf_mem = mem
  BY <1>3, <1>4 DEF InodeT, Entries
<1>. QED BY <1>3, <1>5, RamfsAssumption DEF RecordIs

(* The inodes with one entry of a directory changed.                        *)
LEMMA WithEntry ==
  ASSUME NEW ino \in InodesT, NEW d \in DirsIn(ino), NEW n \in Name, NEW x \in Ino \cup {Nowhere},
         NEW s \in Nat, NEW ino2, SetEntry(ino, d, n, x, s, ino2)
  PROVE  EntryIs(ino, d, n, x, s, ino2)
<1>1. d \in Ino /\ ino[d] # NoInode /\ ino[d] \in InodeT
  BY DEF DirsIn, InodesT
<1>2. PICK q : SetRecord(ino[d], n, x, s, q)
  BY DEF SetRecord
<1>3. /\ q \in InodeT /\ q # NoInode /\ q.rf_mode = ino[d].rf_mode
      /\ q.rf_linkcount = ino[d].rf_linkcount
      /\ q.rf_size = s /\ q.rf_mem[n] = x
      /\ \A m \in Entries : m # n => q.rf_mem[m] = ino[d].rf_mem[m]
      /\ q.rf_mem \in [Entries -> Ino \cup {Nowhere}]
  <2>1. n \in Entries
    BY DEF Entries
  <2>2. RecordIs(ino[d], n, x, s, q)
    BY <1>1, <1>2, <2>1, EntryRecord
  <2>. QED BY <2>2 DEF RecordIs
<1>4. ino2 = [ino EXCEPT ![d] = q]
  BY <1>2 DEF SetEntry, SetRecord
<1>5. ino2 \in InodesT /\ ino2[d] = q /\ \A j \in Ino : j # d => ino2[j] = ino[j]
  BY <1>1, <1>3, <1>4 DEF InodesT
<1>6. \A j \in Ino : /\ ino2[j] = NoInode <=> ino[j] = NoInode
                     /\ ino2[j].rf_linkcount = ino[j].rf_linkcount
                     /\ ino2[j].rf_mode = ino[j].rf_mode
  BY <1>1, <1>3, <1>5
<1>7. DirsIn(ino2) = DirsIn(ino)
  BY <1>6 DEF DirsIn
<1>. QED BY <1>3, <1>5, <1>6, <1>7 DEF EntryIs

(* Its name is there or gone, the other names stay.                         *)
LEMMA EntryNames ==
  ASSUME NEW ino \in InodesT, NEW d \in DirsIn(ino), NEW n \in Name, NEW x \in Ino \cup {Nowhere},
         NEW s \in Nat, NEW ino2, SetEntry(ino, d, n, x, s, ino2), NEW j \in Ino
  PROVE  NamesIn(ino2, j) = IF j = x THEN NamesIn(ino, j) \cup {<<d, n>>}
                            ELSE NamesIn(ino, j) \ {<<d, n>>}
<1>1. /\ \A k \in Ino : k # d => ino2[k] = ino[k]
      /\ DirsIn(ino2) = DirsIn(ino) /\ ino2[d].rf_mem[n] = x
      /\ \A m \in Entries : m # n => ino2[d].rf_mem[m] = ino[d].rf_mem[m]
  <2>1. EntryIs(ino, d, n, x, s, ino2)
    BY WithEntry
  <2>. QED BY <2>1 DEF EntryIs
<1>2. ASSUME NEW k \in DirsIn(ino), NEW m \in Name
      PROVE  ino2[k].rf_mem[m] = IF k = d /\ m = n THEN x ELSE ino[k].rf_mem[m]
  <2>1. k \in Ino /\ m \in Entries
    BY DEF DirsIn, Entries
  <2>. QED BY <1>1, <2>1
<1>3. ASSUME NEW k \in DirsIn(ino), NEW m \in Name
      PROVE  <<k, m>> \in NamesIn(ino2, j)
               <=> IF k = d /\ m = n THEN x = j ELSE <<k, m>> \in NamesIn(ino, j)
  <2>1. <<k, m>> \in NamesIn(ino2, j) <=> ino2[k].rf_mem[m] = j
    BY <1>1 DEF NamesIn
  <2>2. <<k, m>> \in NamesIn(ino, j) <=> ino[k].rf_mem[m] = j
    BY DEF NamesIn
  <2>. QED BY <1>2, <2>1, <2>2
<1>4. NamesIn(ino2, j) \subseteq DirsIn(ino) \X Name /\ NamesIn(ino, j) \subseteq DirsIn(ino) \X Name
  BY <1>1 DEF NamesIn
<1>5. ASSUME NEW y \in DirsIn(ino) \X Name
      PROVE  y \in NamesIn(ino2, j)
               <=> y \in (IF j = x THEN NamesIn(ino, j) \cup {<<d, n>>} ELSE NamesIn(ino, j) \ {<<d, n>>})
  <2>1. PICK k \in DirsIn(ino), m \in Name : y = <<k, m>>
    OBVIOUS
  <2>2. y = <<d, n>> <=> k = d /\ m = n
    BY <2>1
  <2>3. CASE k = d /\ m = n
    BY <1>3, <2>1, <2>2, <2>3
  <2>4. CASE ~(k = d /\ m = n)
    <3>1. y \in NamesIn(ino2, j) <=> y \in NamesIn(ino, j)
      BY <1>3, <2>1, <2>4
    <3>. QED BY <2>2, <2>4, <3>1
  <2>. QED BY <2>3, <2>4
<1>6. <<d, n>> \in DirsIn(ino) \X Name
  OBVIOUS
<1>7. \A y : y \in NamesIn(ino2, j)
               <=> y \in (IF j = x THEN NamesIn(ino, j) \cup {<<d, n>>} ELSE NamesIn(ino, j) \ {<<d, n>>})
  BY <1>4, <1>5, <1>6
<1>. QED BY <1>7

(* The number of names goes up or down by that one.                         *)
LEMMA EntryCounts ==
  ASSUME NEW ino \in InodesT, NEW d \in DirsIn(ino), NEW n \in Name, NEW x \in Ino \cup {Nowhere},
         NEW s \in Nat, NEW ino2, SetEntry(ino, d, n, x, s, ino2), NEW was, was = ino[d].rf_mem[n],
         NEW j \in Ino
  PROVE  /\ was = Nowhere /\ j = x => NameCount(ino2, j) = NameCount(ino, j) + 1
         /\ x = Nowhere /\ j = was => NameCount(ino2, j) = NameCount(ino, j) - 1
         /\ j # x /\ j # was => NamesIn(ino2, j) = NamesIn(ino, j) /\ NameCount(ino2, j) = NameCount(ino, j)
<1>1. NamesIn(ino2, j) = IF j = x THEN NamesIn(ino, j) \cup {<<d, n>>} ELSE NamesIn(ino, j) \ {<<d, n>>}
  BY EntryNames
<1>2. <<d, n>> \in NamesIn(ino, j) <=> j = was
  BY DEF NamesIn
<1>3. IsFiniteSet(NamesIn(ino, j)) /\ Cardinality(NamesIn(ino, j)) \in Nat
  BY NamesFinite DEF NameCount
<1>4. CASE was = Nowhere /\ j = x
  <2>1. <<d, n>> \notin NamesIn(ino, j)
    BY <1>2, <1>4, InoFacts
  <2>2. Cardinality(NamesIn(ino, j) \cup {<<d, n>>}) = Cardinality(NamesIn(ino, j)) + 1
    BY <1>3, <2>1, FS_AddElement
  <2>3. j # Nowhere
    BY InoFacts
  <2>. QED BY <1>1, <1>4, <2>2, <2>3 DEF NameCount
<1>5. CASE x = Nowhere /\ j = was
  <2>1. j # x
    BY <1>5, InoFacts
  <2>2. Cardinality(NamesIn(ino, j) \ {<<d, n>>}) = Cardinality(NamesIn(ino, j)) - 1
    BY <1>2, <1>3, <1>5, FS_RemoveElement
  <2>. QED BY <1>1, <1>5, <2>1, <2>2 DEF NameCount
<1>6. CASE j # x /\ j # was
  <2>1. NamesIn(ino2, j) = NamesIn(ino, j)
    BY <1>1, <1>2, <1>6
  <2>. QED BY <1>6, <2>1 DEF NameCount
<1>. QED BY <1>4, <1>5, <1>6

(* A directory holds finitely many names.                                   *)
LEMMA HeldFinite ==
  ASSUME NEW mem \in [Entries -> Ino \cup {Nowhere}]
  PROVE  IsFiniteSet(Held(mem)) /\ Cardinality(Held(mem)) \in Nat
<1>1. IsFiniteSet(Entries)
  <2>1. IsFiniteSet({Dot}) /\ IsFiniteSet({DotDot})
    BY FS_Singleton
  <2>2. Entries = (Name \cup {Dot}) \cup {DotDot}
    BY DEF Entries
  <2>. QED BY <2>1, <2>2, RamfsAssumption, FS_Union
<1>2. Held(mem) \in SUBSET Entries
  BY DEF Held
<1>. QED BY <1>1, <1>2, FS_Subset, FS_CardinalityType

(* With the size counting the entries again, the inodes are as they were    *)
(* (ramfs.c).                                                               *)
LEMMA EntryInodes ==
  ASSUME NEW ino \in InodesT, InodesOK(ino), NEW d \in DirsIn(ino), NEW n \in Name,
         NEW x \in Ino \cup {Nowhere}, NEW s \in Nat, NEW ino2, SetEntry(ino, d, n, x, s, ino2),
         NEW was, was = ino[d].rf_mem[n],
         \/ /\ was = Nowhere /\ x \in Ino /\ s = ino[d].rf_size + 1
            /\ Cardinality(Held(ino[d].rf_mem)) # MaxDirent
         \/ was \in Ino /\ x = Nowhere /\ s = ino[d].rf_size - 1
  PROVE  /\ InodesOK(ino2) /\ (RootOK(ino) => RootOK(ino2))
         /\ \A vn \in [VnodeT -> VnodeRec] : AllShow(vn, ino) => AllShow(vn, ino2)
<1>1. EntryIs(ino, d, n, x, s, ino2)
  BY WithEntry
<1>2. d \in Ino /\ ino[d] # NoInode /\ ino[d] \in InodeT /\ ino[d].rf_mode = "dir"
  BY DEF DirsIn, InodesT
<1>3. /\ ino[d].rf_mem \in [Entries -> Ino \cup {Nowhere}]
      /\ ino[d].rf_mem[Dot] = d /\ ino[d].rf_mem[DotDot] \in Ino
      /\ ino[d].rf_size = Cardinality(Held(ino[d].rf_mem)) /\ ino[d].rf_size <= MaxDirent
      /\ ino[d].rf_size \in Nat
  BY <1>2 DEF InodeT, InodesOK, InodeOK, Entries
<1>4. Dot # n /\ DotDot # n /\ Dot \in Entries /\ DotDot \in Entries /\ n \in Entries
  BY RamfsAssumption DEF Entries
<1>5. /\ ino2[d].rf_mem[Dot] = d /\ ino2[d].rf_mem[DotDot] = ino[d].rf_mem[DotDot]
      /\ ino2[d].rf_size = s /\ ino2[d].rf_mode = "dir"
  BY <1>1, <1>2, <1>3, <1>4 DEF EntryIs
<1>6. PICK a : a = ino[d].rf_mem
  OBVIOUS
<1>7. PICK b : b = ino2[d].rf_mem
  OBVIOUS
<1>8. /\ a \in [Entries -> Ino \cup {Nowhere}] /\ b \in [Entries -> Ino \cup {Nowhere}]
      /\ a[n] = was /\ b[n] = x /\ \A m \in Entries : m # n => b[m] = a[m]
  BY <1>1, <1>3, <1>6, <1>7 DEF EntryIs
<1>9. IsFiniteSet(Held(a)) /\ Cardinality(Held(a)) \in Nat /\ Cardinality(Held(a)) = ino[d].rf_size
  BY <1>3, <1>6, <1>8, HeldFinite
<1>10. Cardinality(Held(b)) = s /\ s <= MaxDirent
  <2>1. CASE /\ was = Nowhere /\ x \in Ino /\ s = ino[d].rf_size + 1
             /\ Cardinality(Held(ino[d].rf_mem)) # MaxDirent
    <3>1. x # Nowhere
      BY <2>1, InoFacts
    <3>2. Held(b) = Held(a) \cup {n} /\ n \notin Held(a)
      BY <1>4, <1>8, <2>1, <3>1 DEF Held
    <3>3. Cardinality(Held(b)) = Cardinality(Held(a)) + 1
      BY <1>9, <3>2, FS_AddElement
    <3>4. ino[d].rf_size # MaxDirent /\ MaxDirent \in Nat
      BY <1>3, <2>1, RamfsAssumption
    <3>5. s <= MaxDirent
      BY <1>3, <2>1, <3>4
    <3>. QED BY <1>9, <2>1, <3>3, <3>5
  <2>2. CASE was \in Ino /\ x = Nowhere /\ s = ino[d].rf_size - 1
    <3>1. was # Nowhere
      BY <2>2, InoFacts
    <3>2. Held(b) = Held(a) \ {n} /\ n \in Held(a)
      <4>1. DOMAIN a = Entries /\ DOMAIN b = Entries /\ a[n] # Nowhere /\ b[n] = Nowhere
        BY <1>8, <2>2, <3>1
      <4>2. \A m \in Entries : b[m] # Nowhere <=> a[m] # Nowhere /\ m # n
        BY ONLY <1>8, <4>1
      <4>3. Held(a) = {m \in Entries : a[m] # Nowhere} /\ Held(b) = {m \in Entries : b[m] # Nowhere}
        BY ONLY <4>1 DEF Held
      <4>4. \A m : m \in Held(b) <=> m \in Held(a) /\ m # n
        BY ONLY <4>2, <4>3
      <4>5. n \in Held(a)
        BY ONLY <1>4, <4>1, <4>3
      <4>6. Held(b) = Held(a) \ {n}
        <5> DEFINE Ha == Held(a)
        <5> DEFINE Hb == Held(b)
        <5>1. \A m : m \in Hb <=> m \in Ha /\ m # n
          BY ONLY <4>4
        <5> HIDE DEF Ha, Hb
        <5>2. Hb = Ha \ {n}
          BY ONLY <5>1
        <5>. QED BY <5>2 DEF Ha, Hb
      <4>. QED BY <4>5, <4>6
    <3>3. Cardinality(Held(b)) = Cardinality(Held(a)) - 1
      <4>1. n \in Held(a) /\ IsFiniteSet(Held(a))
        BY ONLY <1>9, <3>2
      <4>2. Cardinality(Held(a) \ {n}) = Cardinality(Held(a)) - 1
        BY ONLY <4>1, FS_RemoveElement
      <4>. QED BY ONLY <3>2, <4>2
    <3>4. MaxDirent \in Nat
      BY RamfsAssumption
    <3>5. s <= MaxDirent
      BY <1>3, <2>2, <3>4
    <3>. QED BY <1>9, <2>2, <3>3, <3>5
  <2>. QED BY <2>1, <2>2
<1>11. ASSUME NEW j \in Ino, ino2[j] # NoInode PROVE InodeOK(j, ino2[j])
  <2>1. CASE j = d
    BY <1>3, <1>5, <1>7, <1>10, <2>1 DEF InodeOK
  <2>2. CASE j # d
    <3>1. ino2[j] = ino[j]
      BY <1>1, <2>2 DEF EntryIs
    <3>. QED BY <1>11, <3>1 DEF InodesOK
  <2>. QED BY <2>1, <2>2
<1>12. ASSUME RootOK(ino) PROVE RootOK(ino2)
  <2>1. CASE d = 0
    BY <1>1, <1>5, <1>12, <2>1, InoFacts DEF RootOK, EntryIs
  <2>2. CASE d # 0
    BY <1>1, <1>12, <2>2, InoFacts DEF RootOK, EntryIs
  <2>. QED BY <2>1, <2>2
<1>13. ASSUME NEW vn \in [VnodeT -> VnodeRec], AllShow(vn, ino), NEW v \in VnodeT
       PROVE  ShowsInode(vn, ino2, v)
  <2>1. PICK j \in Ino : j = vn[v].vn_vno
    BY DEF VnodeRec
  <2>2. ShowsInode(vn, ino, v)
    BY <1>13 DEF AllShow
  <2>3. CASE j = d
    BY <1>1, <1>2, <1>5, <2>1, <2>2, <2>3 DEF ShowsInode, EntryIs
  <2>4. CASE j # d
    <3>1. ino2[j] = ino[j]
      BY <1>1, <2>4 DEF EntryIs
    <3>. QED BY <2>1, <2>2, <3>1 DEF ShowsInode
  <2>. QED BY <2>3, <2>4
<1>. QED BY <1>11, <1>12, <1>13 DEF InodesOK, AllShow
-----------------------------------------------------------------------------
(* A new inode: an entry for number i in directory d, then the inode        *)
SetInode(ino, i, r, ino2) == ino2 = [ino EXCEPT ![i] = r]
Fits(i, d, r) ==
  /\ r \in InodeT /\ r # NoInode /\ r.rf_linkcount = 1 /\ InodeOK(i, r)
  /\ \A n \in Name : r.rf_mem[n] = Nowhere
  /\ r.rf_mode = "dir" => r.rf_mem[DotDot] = d

(* What ramfs_mkdir, ramfs_mknod and ramfs_create write is an inode.        *)
LEMMA NewInodeFits ==
  ASSUME NEW i \in Ino, NEW d \in Ino, NEW mode \in {"data", "dir", "chr"}, NEW mem, NEW r,
         mem = IF mode = "dir" THEN DirMem(i, d) ELSE NoMem,
         r = NewInode(mode, mem, IF mode = "dir" THEN 2 ELSE 0)
  PROVE  Fits(i, d, r)
<1>1. Dot # DotDot /\ Dot \notin Name /\ DotDot \notin Name /\ MaxDirent \in Nat /\ PageSize \in Nat
      /\ MaxDirent >= 2
  BY RamfsAssumption
<1>2. NoMem \in [Entries -> Ino \cup {Nowhere}] /\ \A n \in Entries : NoMem[n] = Nowhere
  BY DEF NoMem, Entries
<1>3. /\ DirMem(i, d) \in [Entries -> Ino \cup {Nowhere}]
      /\ DirMem(i, d)[Dot] = i /\ DirMem(i, d)[DotDot] = d
      /\ \A n \in Name : DirMem(i, d)[n] = Nowhere
  BY <1>1, <1>2 DEF DirMem, Entries
<1>4. mem \in [Entries -> Ino \cup {Nowhere}] /\ \A n \in Name : mem[n] = Nowhere
  BY <1>2, <1>3 DEF Entries
<1>5. PICK s \in Nat : s = IF mode = "dir" THEN 2 ELSE 0
  OBVIOUS
<1>6. /\ r = [rf_mode |-> mode, rf_size |-> s, rf_linkcount |-> 1, rf_mem |-> mem]
  BY <1>5 DEF NewInode
<1>7. /\ r \in InodeT /\ r.rf_linkcount = 1 /\ r.rf_mode = mode /\ r.rf_mem = mem /\ r.rf_size = s
  BY <1>4, <1>6 DEF InodeT, Entries
<1>8. InodeOK(i, r)
  <2>1. CASE mode = "dir"
    <3>1. Held(mem) = {Dot, DotDot}
      BY <1>1, <1>3, <2>1, InoFacts DEF Held, Entries
    <3>2. Cardinality(Held(mem)) = 2
      <4>1. IsFiniteSet({Dot}) /\ Cardinality({Dot}) = 1
        BY FS_Singleton
      <4>2. {Dot, DotDot} = {Dot} \cup {DotDot} /\ DotDot \notin {Dot}
        BY <1>1
      <4>3. Cardinality({Dot, DotDot}) = Cardinality({Dot}) + 1
        BY <4>1, <4>2, FS_AddElement
      <4>. QED BY <3>1, <4>1, <4>3
    <3>. QED BY <1>1, <1>3, <1>5, <1>7, <2>1, <3>2 DEF InodeOK
  <2>2. CASE mode # "dir"
    BY <1>1, <1>5, <1>7, <2>2 DEF InodeOK
  <2>. QED BY <2>1, <2>2
<1>9. r.rf_mode = "dir" => r.rf_mem[DotDot] = d
  BY <1>3, <1>7
<1>10. r # NoInode
  BY <1>7, RamfsAssumption
<1>. QED BY <1>4, <1>7, <1>8, <1>9, <1>10 DEF Fits

(* The inodes with one of them written.                                     *)
LEMMA WithInode ==
  ASSUME NEW ino \in InodesT, NEW i \in Ino, NEW r \in InodeT, NEW ino2, SetInode(ino, i, r, ino2)
  PROVE  /\ ino2 \in InodesT /\ ino2[i] = r /\ \A j \in Ino : j # i => ino2[j] = ino[j]
BY DEF SetInode, InodesT

(* A number that no inode has is nobody's name and nobody's vnode.          *)
LEMMA FreeNumber ==
  ASSUME NEW S, Good(S), NEW i \in Ino, S.inode[i] = NoInode
  PROVE  /\ NamesIn(S.inode, i) = {} /\ NameCount(S.inode, i) = 0 /\ S.stranded[i] = 0
         /\ Uses(S.vnode, i) = 0 /\ i # 0 /\ i \notin DirsIn(S.inode)
<1>1. LinksExact(S.inode, S.vnode, S.stranded, i) /\ RootOK(S.inode)
  BY DEF Good
<1>2. ~Shown(S.vnode, i)
  <2> SUFFICES ASSUME NEW v \in VnodeT, S.vnode[v].vn_refcount > 0, S.vnode[v].vn_vno = i
               PROVE  FALSE
    BY DEF Shown
  <2>1. ShowsInode(S.vnode, S.inode, v)
    BY DEF Good
  <2>. QED BY <2>1 DEF ShowsInode
<1>3. NameCount(S.inode, i) = 0
  BY <1>1, FS_EmptySet DEF LinksExact, NameCount
<1>. QED BY <1>1, <1>2, <1>3 DEF LinksExact, Uses, RootOK, DirsIn

(* An inode and its first name appear together (ramfs.c).                   *)
LEMMA NewInodeGood ==
  ASSUME NEW S, Good(S), NEW d \in DirsIn(S.inode), NEW n \in Name,
         S.inode[d].rf_mem[n] = Nowhere, Cardinality(Held(S.inode[d].rf_mem)) # MaxDirent,
         NEW i \in Ino, S.inode[i] = NoInode, NEW r, Fits(i, d, r),
         NEW s, s = S.inode[d].rf_size + 1, NEW ino2, SetEntry(S.inode, d, n, i, s, ino2),
         NEW ino3, SetInode(ino2, i, r, ino3), NEW T, SetInodes(S, ino3, T)
  PROVE  /\ Good(T) /\ T.panic = S.panic /\ T.vnode = S.vnode /\ T.file = S.file
         /\ T.inode[i] # NoInode
<1>0. /\ S \in StateT /\ OneVnode(S.vnode) /\ AllShow(S.vnode, S.inode)
      /\ \A j \in Ino : LinksExact(S.inode, S.vnode, S.stranded, j)
      /\ InodesOK(S.inode) /\ RootOK(S.inode) /\ FreeOK(S.vnode, S.free)
      /\ LinksInPlace => Tree(S.inode)
  BY GoodParts
<1>1. /\ S.inode \in InodesT /\ S.vnode \in [VnodeT -> VnodeRec] /\ S.stranded \in [Ino -> Nat]
  BY <1>0, StateParts
<1>2. /\ NamesIn(S.inode, i) = {} /\ NameCount(S.inode, i) = 0 /\ S.stranded[i] = 0
      /\ Uses(S.vnode, i) = 0 /\ i # 0 /\ i \notin DirsIn(S.inode) /\ i # d /\ d \in Ino
  BY FreeNumber DEF DirsIn
<1>3. s \in Nat /\ S.inode[d] # NoInode
  BY <1>0, <1>1, <1>2 DEF DirsIn, InodesT, InodeT
<1>4. EntryIs(S.inode, d, n, i, s, ino2)
  BY <1>1, <1>3, WithEntry
<1>5. InodesOK(ino2) /\ RootOK(ino2) /\ AllShow(S.vnode, ino2)
  <2>1. PICK was : was = S.inode[d].rf_mem[n]
    OBVIOUS
  <2>. QED BY <1>0, <1>1, <1>3, <2>1, EntryInodes
<1>6. /\ \A j \in Ino : j # i => NamesIn(ino2, j) = NamesIn(S.inode, j)
                                  /\ NameCount(ino2, j) = NameCount(S.inode, j)
      /\ NamesIn(ino2, i) = {<<d, n>>} /\ NameCount(ino2, i) = 1
  <2>1. PICK was : was = S.inode[d].rf_mem[n]
    OBVIOUS
  <2>2. was = Nowhere /\ was \notin Ino
    BY <2>1, InoFacts
  <2>3. NameCount(ino2, i) = NameCount(S.inode, i) + 1
    BY <1>1, <1>3, <2>1, <2>2, EntryCounts
  <2>4. ASSUME NEW j \in Ino, j # i PROVE NamesIn(ino2, j) = NamesIn(S.inode, j)
                                  /\ NameCount(ino2, j) = NameCount(S.inode, j)
    BY <1>1, <1>3, <2>1, <2>2, <2>4, EntryCounts
  <2>5. NamesIn(ino2, i) = NamesIn(S.inode, i) \cup {<<d, n>>}
    BY <1>1, <1>3, EntryNames
  <2>. QED BY <1>2, <2>3, <2>4, <2>5
<1>7. r \in InodeT /\ ino2 \in InodesT /\ ino2[i] = NoInode
  BY <1>2, <1>4 DEF Fits, EntryIs
<1>8. ino3 \in InodesT /\ ino3[i] = r /\ \A j \in Ino : j # i => ino3[j] = ino2[j]
  BY <1>7, WithInode
<1>9. DirsIn(ino3) \ {i} = DirsIn(ino2) /\ DirsIn(ino2) = DirsIn(S.inode)
  BY <1>2, <1>4, <1>7, <1>8 DEF DirsIn, EntryIs
<1>10. ASSUME NEW j \in Ino PROVE NamesIn(ino3, j) = NamesIn(ino2, j)
  <2>1. ASSUME NEW x \in NamesIn(ino3, j) PROVE x \in NamesIn(ino2, j)
    <3>1. PICK e \in DirsIn(ino3), m \in Name : x = <<e, m>> /\ ino3[e].rf_mem[m] = j
      BY <2>1 DEF NamesIn
    <3>2. e # i
      BY <1>8, <3>1, InoFacts DEF Fits
    <3>3. e \in DirsIn(ino2) /\ ino3[e] = ino2[e]
      BY <1>8, <1>9, <3>2 DEF DirsIn
    <3>. QED BY <3>1, <3>3 DEF NamesIn
  <2>2. ASSUME NEW x \in NamesIn(ino2, j) PROVE x \in NamesIn(ino3, j)
    <3>1. PICK e \in DirsIn(ino2), m \in Name : x = <<e, m>> /\ ino2[e].rf_mem[m] = j
      BY <2>2 DEF NamesIn
    <3>2. e # i /\ e \in Ino
      BY <1>7 DEF DirsIn
    <3>3. e \in DirsIn(ino3) /\ ino3[e] = ino2[e]
      BY <1>8, <1>9, <3>2
    <3>. QED BY <3>1, <3>3 DEF NamesIn
  <2>. QED BY <2>1, <2>2
<1>11. \A j \in Ino : NameCount(ino3, j) = NameCount(ino2, j)
  BY <1>10 DEF NameCount
<1>12. /\ T \in StateT /\ T.inode = ino3 /\ T.stranded = S.stranded
       /\ T.vnode = S.vnode /\ T.free = S.free
       /\ T.panic = S.panic /\ T.file = S.file
  BY <1>0, <1>8, WithInodes
<1>13. r # NoInode /\ r.rf_linkcount = 1 /\ InodeOK(i, r) /\ (r.rf_mode = "dir" => r.rf_mem[DotDot] = d)
  BY DEF Fits
<1>14. AllShow(S.vnode, ino3)
  <2> SUFFICES ASSUME NEW v \in VnodeT, S.vnode[v].vn_refcount > 0 PROVE ShowsInode(S.vnode, ino3, v)
    BY DEF AllShow, ShowsInode
  <2>1. PICK j \in Ino : j = S.vnode[v].vn_vno
    BY <1>1 DEF VnodeRec
  <2>2. j # i
    BY <1>0, <2>1 DEF AllShow, ShowsInode
  <2>3. ino3[j] = ino2[j]
    BY <1>8, <2>2
  <2>4. ShowsInode(S.vnode, ino2, v)
    BY <1>5 DEF AllShow
  <2>. QED BY <2>1, <2>3, <2>4 DEF ShowsInode
<1>15. ASSUME NEW j \in Ino PROVE LinksExact(ino3, S.vnode, S.stranded, j)
  <2>1. CASE j = i
    <3>1. RootLink(i) = 0 /\ NameCount(ino3, i) = 1
      BY <1>2, <1>6, <1>11 DEF RootLink
    <3>. QED BY <1>2, <1>8, <1>13, <2>1, <3>1 DEF LinksExact
  <2>2. CASE j # i
    <3>1. LinksExact(S.inode, S.vnode, S.stranded, j)
      BY <1>0
    <3>2. ino3[j] = ino2[j] /\ (ino2[j] = NoInode <=> S.inode[j] = NoInode)
          /\ ino2[j].rf_linkcount = S.inode[j].rf_linkcount
      BY <1>4, <1>8, <2>2 DEF EntryIs
    <3>3. NameCount(ino3, j) = NameCount(S.inode, j) /\ NamesIn(ino3, j) = NamesIn(S.inode, j)
      BY <1>6, <1>10, <1>11, <2>2
    <3>. QED BY <3>1, <3>2, <3>3 DEF LinksExact
  <2>. QED BY <2>1, <2>2
<1>16. InodesOK(ino3)
  <2> SUFFICES ASSUME NEW j \in Ino, ino3[j] # NoInode PROVE InodeOK(j, ino3[j])
    BY DEF InodesOK
  <2>1. CASE j = i
    BY <1>8, <1>13, <2>1
  <2>2. CASE j # i
    BY <1>5, <1>8, <2>2 DEF InodesOK
  <2>. QED BY <2>1, <2>2
<1>17. RootOK(ino3)
  BY <1>2, <1>5, <1>8, InoFacts DEF RootOK
<1>18. ASSUME LinksInPlace PROVE Tree(ino3)
  <2>0. Tree(S.inode)
    BY <1>0, <1>18
  <2> SUFFICES ASSUME NEW e \in DirsIn(ino3)
               PROVE  /\ \A x, y \in NamesIn(ino3, e) : x = y
                      /\ \A x \in NamesIn(ino3, e) : ino3[e].rf_mem[DotDot] = x[1]
    BY DEF Tree
  <2>1. CASE e = i
    <3>1. NamesIn(ino3, e) = {<<d, n>>}
      BY <1>6, <1>10, <2>1
    <3>2. ino3[e].rf_mem[DotDot] = d
      BY <1>8, <1>13, <2>1 DEF DirsIn
    <3>. QED BY <3>1, <3>2
  <2>2. CASE e # i
    <3>1. e \in DirsIn(S.inode) /\ e \in Ino /\ ino3[e] = ino2[e]
      BY <1>8, <1>9, <2>2 DEF DirsIn
    <3>2. NamesIn(ino3, e) = NamesIn(S.inode, e)
      BY <1>6, <1>10, <2>2, <3>1
    <3>3. ino2[e].rf_mem[DotDot] = S.inode[e].rf_mem[DotDot]
      <4>1. DotDot # n /\ DotDot \in Entries
        BY RamfsAssumption DEF Entries
      <4>. QED BY <1>4, <3>1, <4>1 DEF EntryIs
    <3>. QED BY <2>0, <3>1, <3>2, <3>3 DEF Tree
  <2>. QED BY <2>1, <2>2
<1>19. Good(T)
  BY <1>0, <1>12, <1>14, <1>15, <1>16, <1>17, <1>18, GoodParts
<1>. QED BY <1>8, <1>12, <1>13, <1>19

(* What functions return.                                                   *)
LEMMA ResultIs ==
  ASSUME NEW S, NEW ret, NEW vn
  PROVE  IsResult(Ok(S, vn)) /\ IsResult(Fails(S, ret))
BY DEF IsResult, Ok, Fails

(* AddEntry and DropEntry write one record.                                 *)
LEMMA EntryWritten ==
  ASSUME NEW S, NEW d, NEW n, NEW i, NEW k, k = S.vnode[d].vn_vno,
         NEW ino2, NEW T, SetInodes(S, ino2, T)
  PROVE  /\ SetEntry(S.inode, k, n, i, S.inode[k].rf_size + 1, ino2) => T = AddEntry(S, d, n, i)
         /\ SetEntry(S.inode, k, n, Nowhere, S.inode[k].rf_size - 1, ino2) => T = DropEntry(S, d, n)
<1>1. PICK r : r = S.inode[k]
  OBVIOUS
<1>2. Entered(r, n, i) = [r EXCEPT !.rf_size = r.rf_size + 1, !.rf_mem = [r.rf_mem EXCEPT ![n] = i]]
  BY DEF Entered
<1>3. Erased(r, n) = [r EXCEPT !.rf_size = r.rf_size - 1, !.rf_mem = [r.rf_mem EXCEPT ![n] = Nowhere]]
  BY DEF Erased
<1>4. AddEntry(S, d, n, i) = [S EXCEPT !.inode = [S.inode EXCEPT ![k] = Entered(r, n, i)]]
  BY <1>1 DEF AddEntry
<1>5. DropEntry(S, d, n) = [S EXCEPT !.inode = [S.inode EXCEPT ![k] = Erased(r, n)]]
  BY <1>1 DEF DropEntry
<1>. QED BY <1>1, <1>2, <1>3, <1>4, <1>5 DEF SetEntry, SetInodes

(* A directory in use, and a name that it does not hold, is not . or ..     *)
LEMMA MissingName ==
  ASSUME NEW S, Good(S), NEW d \in VnodeT, Refs(S)[d] > 0, S.vnode[d].vn_mode = "dir",
         NEW n \in Entries, Mem(S, d)[n] = Nowhere
  PROVE  /\ n \in Name /\ S.vnode[d].vn_vno \in DirsIn(S.inode)
         /\ S.inode[S.vnode[d].vn_vno].rf_mem[n] = Nowhere
<1>1. PICK k \in Ino : k = S.vnode[d].vn_vno
  BY InUseShows
<1>2. k \in DirsIn(S.inode)
  BY <1>1, InUseShows
<1>3. InodeOK(k, S.inode[k]) /\ S.inode[k].rf_mode = "dir"
  BY <1>1, <1>2 DEF Good, DirsIn
<1>4. S.inode[k].rf_mem[n] = Nowhere
  BY <1>1 DEF Mem
<1>. QED BY <1>1, <1>2, <1>3, <1>4, InoFacts DEF InodeOK, Entries

(* The inode that ramfs_create, ramfs_mknod and ramfs_mkdir take is free.   *)
LEMMA FirstFree ==
  ASSUME NEW S, FreeInodes(S) # {}
  PROVE  First(FreeInodes(S)) \in Ino /\ S.inode[First(FreeInodes(S))] = NoInode
<1>1. FreeInodes(S) \in SUBSET Nat
  BY DEF FreeInodes, Ino
<1>2. PICK i \in FreeInodes(S) : \A j \in FreeInodes(S) : ~(j < i)
  BY <1>1, LeastElement
<1>3. \A j \in FreeInodes(S) : i <= j
  BY <1>1, <1>2
<1>4. First(FreeInodes(S)) \in FreeInodes(S)
  BY <1>2, <1>3 DEF First
<1>. QED BY <1>4 DEF FreeInodes

(* Made, or refused because the directory or the disk is full               *)
MadeIs(S, M, i) ==
  \/ M.ret = "ENOSPC" /\ M.S = S
  \/ /\ M.ret = "0" /\ M.vn = NoVnode /\ Good(M.S) /\ Up(M.S)
     /\ M.S.vnode = S.vnode /\ M.S.file = S.file /\ i \in Ino /\ M.S.inode[i] # NoInode

(* A new name for a new inode, in a directory with room (ramfs.c).          *)
LEMMA MakeGood ==
  ASSUME NEW S, Good(S), Up(S), NEW d \in VnodeT, Refs(S)[d] > 0, S.vnode[d].vn_mode = "dir",
         NEW n \in Entries, Mem(S, d)[n] = Nowhere, NEW mode \in {"data", "dir", "chr"},
         NEW M, M = Make(S, d, n, mode)
  PROVE  MadeIs(S, M, First(FreeInodes(S))) /\ IsResult(M)
<1>1. PICK i : i = First(FreeInodes(S))
  OBVIOUS
<1>2. PICK k : k = S.vnode[d].vn_vno
  OBVIOUS
<1>3. n \in Name /\ k \in DirsIn(S.inode) /\ S.inode[k].rf_mem[n] = Nowhere
  BY <1>2, MissingName
<1>4. S.panic = ""
  BY DEF Up
<1>5. CASE NoRoom(S, d) \/ FreeInodes(S) = {}
  <2>1. M = Fails(S, "ENOSPC")
    BY <1>4, <1>5 DEF Make
  <2>. QED BY <2>1, ResultIs DEF MadeIs, Fails
<1>6. CASE ~NoRoom(S, d) /\ FreeInodes(S) # {}
  <2>1. i \in Ino /\ S.inode[i] = NoInode
    BY <1>1, <1>6, FirstFree
  <2>2. PICK mem : mem = IF mode = "dir" THEN DirMem(i, k) ELSE NoMem
    OBVIOUS
  <2>3. PICK r : r = NewInode(mode, mem, IF mode = "dir" THEN 2 ELSE 0)
    OBVIOUS
  <2>4. PICK s : s = S.inode[k].rf_size + 1
    OBVIOUS
  <2>5. PICK ino2 : SetEntry(S.inode, k, n, i, s, ino2)
    BY DEF SetEntry
  <2>6. PICK ino3 : SetInode(ino2, i, r, ino3)
    BY DEF SetInode
  <2>7. PICK T : SetInodes(S, ino3, T)
    BY DEF SetInodes
  <2>8. M = Ok([AddEntry(S, d, n, i) EXCEPT !.inode[i] = r], NoVnode)
    BY <1>1, <1>2, <1>4, <1>6, <2>2, <2>3 DEF Make
  <2>9. S \in StateT
    BY DEF Good
  <2>10. PICK T2 : SetInodes(S, ino2, T2)
    BY DEF SetInodes
  <2>11. T2 = AddEntry(S, d, n, i)
    BY <1>2, <2>4, <2>5, <2>10, EntryWritten
  <2>12. T2.inode = ino2 /\ T = [T2 EXCEPT !.inode = ino3]
    BY <2>7, <2>9, <2>10 DEF SetInodes, StateT
  <2>13. T = [T2 EXCEPT !.inode[i] = r]
    BY <2>6, <2>12 DEF SetInode
  <2>14. M = Ok(T, NoVnode)
    BY <2>8, <2>11, <2>13
  <2>15. Fits(i, k, r)
    BY <1>3, <2>1, <2>2, <2>3, NewInodeFits DEF DirsIn
  <2>16. Cardinality(Held(S.inode[k].rf_mem)) # MaxDirent
    BY <1>2, <1>6 DEF NoRoom, Mem
  <2>17. /\ Good(T) /\ T.panic = S.panic /\ T.vnode = S.vnode /\ T.file = S.file
         /\ T.inode[i] # NoInode
    BY <1>3, <2>1, <2>4, <2>5, <2>6, <2>7, <2>15, <2>16, NewInodeGood
  <2>18. Up(T)
    BY <1>4, <2>17 DEF Up
  <2>19. M.S = T /\ M.ret = "0" /\ M.vn = NoVnode /\ IsResult(M)
    BY <2>14, ResultIs DEF Ok
  <2>. QED BY <1>1, <2>1, <2>17, <2>18, <2>19 DEF MadeIs
<1>. QED BY <1>5, <1>6

(* Where the vnodes and the files are as they were, little is left to say.  *)
LEMMA LiveSame ==
  ASSUME NEW S0, NEW S, Live(S0, S), NEW T, Good(T), Up(T), T.vnode = S.vnode, T.file = S.file
  PROVE  Live(S0, T) /\ Refs(T) = Refs(S) /\ StopsOK(S0, T)
<1>1. Refs(T) = Refs(S)
  BY DEF Refs
<1>2. StopsOK(S0, T)
  BY UpStops
<1>. QED BY <1>1, <1>2 DEF Live

(* Names that may be made in a directory, or taken out of it *)
MakesIn(S, d, n) ==
  /\ d \in VnodeT /\ Refs(S)[d] > 0 /\ S.vnode[d].vn_mode = "dir" /\ n \in Entries
  /\ Mem(S, d)[n] = Nowhere

(* On the way of a call that is in the directory.                           *)
LEMMA MakeOpened ==
  ASSUME NEW S0, NEW S, Calm(S0, S), NEW d, NEW n, MakesIn(S, d, n),
         NEW mode \in {"data", "dir", "chr"}, NEW M, M = Make(S, d, n, mode)
  PROVE  /\ StopsOK(S0, M.S) /\ Up(M.S) /\ Live(S0, M.S) /\ Refs(M.S) = Refs(S) /\ IsResult(M)
<1>1. Good(S) /\ Up(S) /\ Live(S0, S) /\ StopsOK(S0, S)
  BY CalmFacts, CalmLive
<1>2. MadeIs(S, M, First(FreeInodes(S))) /\ IsResult(M)
  BY <1>1, MakeGood DEF MakesIn
<1>3. CASE M.ret = "ENOSPC" /\ M.S = S
  BY <1>1, <1>2, <1>3
<1>4. CASE ~(M.ret = "ENOSPC" /\ M.S = S)
  <2>1. Good(M.S) /\ Up(M.S) /\ M.S.vnode = S.vnode /\ M.S.file = S.file
    BY <1>2, <1>4 DEF MadeIs
  <2>2. Live(S0, M.S) /\ Refs(M.S) = Refs(S) /\ StopsOK(S0, M.S)
    BY <1>1, <2>1, LiveSame
  <2>. QED BY <1>2, <2>1, <2>2
<1>. QED BY <1>3, <1>4

(* ramfs_create makes the inode and gets its vnode (ramfs.c).               *)
LEMMA CreateOpened ==
  ASSUME NEW S0, NEW S, Calm(S0, S), NEW d, NEW n, MakesIn(S, d, n),
         NEW M, M = ramfs_create(S, d, n)
  PROVE  Opened(S0, M, Refs(S)) /\ IsResult(M)
<1>1. PICK L : L = Make(S, d, n, "data")
  OBVIOUS
<1>2. PICK i : i = First(FreeInodes(S))
  OBVIOUS
<1>3. M = Created(L, i)
  BY <1>1, <1>2 DEF ramfs_create
<1>4. Good(S) /\ Up(S) /\ Live(S0, S) /\ StopsOK(S0, S)
  BY CalmFacts, CalmLive
<1>5. MadeIs(S, L, i) /\ IsResult(L)
  BY <1>1, <1>2, <1>4, MakeGood DEF MakesIn
<1>6. CASE L.ret = "ENOSPC" /\ L.S = S
  <2>1. M = L
    BY <1>3, <1>6 DEF Created
  <2>. QED BY <1>4, <1>5, <1>6, <2>1 DEF Opened, Holding
<1>7. CASE ~(L.ret = "ENOSPC" /\ L.S = S)
  <2>1. /\ L.ret = "0" /\ Good(L.S) /\ Up(L.S)
        /\ L.S.vnode = S.vnode /\ L.S.file = S.file /\ i \in Ino /\ L.S.inode[i] # NoInode
    BY <1>5, <1>7 DEF MadeIs
  <2>2. Live(S0, L.S) /\ Refs(L.S) = Refs(S)
    BY <1>4, <2>1, LiveSame
  <2>3. PICK T : T = vget(L.S, i)
    OBVIOUS
  <2>4. PICK v : v = VnodeOf(T, i)
    OBVIOUS
  <2>5. M = Ok(T, v)
    BY <1>3, <2>1, <2>3, <2>4 DEF Created, Got
  <2>6. /\ Good(T) /\ Up(T) /\ Quiet(L.S, T) /\ Kept(L.S.vnode, T.vnode)
        /\ v \in VnodeT /\ Refs(T) = Plus(Refs(L.S), v)
    BY <2>1, <2>3, <2>4, VgetGood
  <2>7. Kept(S0.vnode, T.vnode)
    <3>1. Good(S0) /\ Kept(S0.vnode, S.vnode) /\ \A w \in VnodeT : Refs(S0)[w] <= Refs(S)[w]
      BY DEF Calm
    <3>. QED BY <1>4, <2>1, <2>6, <3>1, KeptTrans
  <2>8. T.file = S0.file
    BY <2>2, <2>6 DEF Live, Quiet
  <2>9. StopsOK(S0, T)
    BY <2>6, UpStops
  <2>10. M.S = T /\ M.ret = "0" /\ M.vn = v /\ IsResult(M)
    BY <2>5, ResultIs DEF Ok
  <2>. QED BY <2>2, <2>6, <2>7, <2>8, <2>9, <2>10 DEF Opened, Holding, Live
<1>. QED BY <1>6, <1>7
-----------------------------------------------------------------------------
(* A further name for an inode that is there                                *)
LEMMA LinkedGood ==
  ASSUME NEW S, Good(S), NEW d \in DirsIn(S.inode), NEW n \in Name,
         S.inode[d].rf_mem[n] = Nowhere, Cardinality(Held(S.inode[d].rf_mem)) # MaxDirent,
         NEW i \in Ino, S.inode[i] # NoInode, LinksInPlace => S.inode[i].rf_mode # "dir",
         NEW s, s = S.inode[d].rf_size + 1, NEW ino2, SetEntry(S.inode, d, n, i, s, ino2),
         NEW l, l = ino2[i].rf_linkcount, NEW ino3, SetLinks(ino2, i, l + 1, ino3),
         NEW T, SetInodes(S, ino3, T)
  PROVE  Good(T) /\ T.panic = S.panic /\ T.vnode = S.vnode /\ T.file = S.file
<1>0. /\ S \in StateT /\ OneVnode(S.vnode) /\ AllShow(S.vnode, S.inode)
      /\ \A j \in Ino : LinksExact(S.inode, S.vnode, S.stranded, j)
      /\ InodesOK(S.inode) /\ RootOK(S.inode) /\ FreeOK(S.vnode, S.free)
      /\ LinksInPlace => Tree(S.inode)
  BY GoodParts
<1>1. /\ S.inode \in InodesT /\ S.vnode \in [VnodeT -> VnodeRec] /\ S.stranded \in [Ino -> Nat]
  BY <1>0, StateParts
<1>2. s \in Nat /\ S.inode[d] # NoInode /\ d \in Ino
  BY <1>0, <1>1 DEF DirsIn, InodesT, InodeT
<1>3. EntryIs(S.inode, d, n, i, s, ino2)
  BY <1>1, <1>2, WithEntry
<1>4. PICK was : was = S.inode[d].rf_mem[n]
  OBVIOUS
<1>5. was = Nowhere /\ was \notin Ino
  BY <1>4, InoFacts
<1>6. InodesOK(ino2) /\ RootOK(ino2) /\ AllShow(S.vnode, ino2)
  BY <1>0, <1>1, <1>2, <1>4, EntryInodes
<1>7. /\ \A j \in Ino : j # i => NamesIn(ino2, j) = NamesIn(S.inode, j)
                                  /\ NameCount(ino2, j) = NameCount(S.inode, j)
      /\ NameCount(ino2, i) = NameCount(S.inode, i) + 1
  <2>1. NameCount(ino2, i) = NameCount(S.inode, i) + 1
    BY <1>1, <1>2, <1>4, <1>5, EntryCounts
  <2>2. ASSUME NEW j \in Ino, j # i PROVE NamesIn(ino2, j) = NamesIn(S.inode, j)
                                  /\ NameCount(ino2, j) = NameCount(S.inode, j)
    BY <1>1, <1>2, <1>4, <1>5, <2>2, EntryCounts
  <2>. QED BY <2>1, <2>2
<1>8. ino2 \in InodesT /\ ino2[i] # NoInode /\ l \in Nat /\ l = S.inode[i].rf_linkcount
  <2>1. ino2 \in InodesT /\ ino2[i] # NoInode /\ l = S.inode[i].rf_linkcount
    BY <1>3 DEF EntryIs
  <2>. QED BY <2>1 DEF InodesT, InodeT
<1>9. /\ ino3 \in InodesT /\ SameEntries(ino2, ino3) /\ SameSizes(ino2, ino3)
      /\ ino3[i].rf_linkcount = l + 1 /\ \A j \in Ino \ {i} : ino3[j] = ino2[j]
  <2>1. l + 1 \in Nat
    BY <1>8
  <2>. QED BY <1>8, <2>1, WithLinks
<1>10. /\ T \in StateT /\ T.inode = ino3 /\ T.stranded = S.stranded
       /\ T.vnode = S.vnode /\ T.free = S.free
       /\ T.panic = S.panic /\ T.file = S.file
  BY <1>0, <1>9, WithInodes
<1>11. AllShow(S.vnode, ino3) /\ InodesOK(ino3) /\ RootOK(ino3)
  BY <1>1, <1>6, <1>9, SameInodes, SameTree
<1>12. \A j \in Ino : NameCount(ino3, j) = NameCount(ino2, j) /\ NamesIn(ino3, j) = NamesIn(ino2, j)
  BY <1>9, SameNames, SameTree
<1>13. ASSUME NEW j \in Ino PROVE LinksExact(ino3, S.vnode, S.stranded, j)
  <2>1. LinksExact(S.inode, S.vnode, S.stranded, j)
    BY <1>0
  <2>2. (ino3[j] = NoInode <=> S.inode[j] = NoInode)
    BY <1>3, <1>9 DEF EntryIs, SameEntries, SameEntry
  <2>3. CASE j = i
    <3>1. /\ NameCount(S.inode, i) \in Nat /\ S.stranded[i] \in Nat /\ RootLink(i) \in {0, 1}
          /\ Uses(S.vnode, i) \in {0, 1}
      BY <1>1, LinkTypes
    <3>2. l = NameCount(S.inode, i) + Uses(S.vnode, i) + S.stranded[i] + RootLink(i)
      BY <1>8, <2>1, <2>3 DEF LinksExact
    <3>3. l + 1 = (NameCount(S.inode, i) + 1) + Uses(S.vnode, i) + S.stranded[i] + RootLink(i)
          /\ l + 1 > 0
      BY ONLY <1>8, <3>1, <3>2
    <3>4. ino3[i].rf_linkcount = NameCount(ino3, i) + Uses(S.vnode, i) + S.stranded[i] + RootLink(i)
      BY <1>7, <1>9, <1>12, <3>3
    <3>. QED BY <1>9, <2>1, <2>2, <2>3, <3>3, <3>4 DEF LinksExact
  <2>4. CASE j # i
    <3>1. ino3[j].rf_linkcount = S.inode[j].rf_linkcount
      BY <1>3, <1>9, <2>4 DEF EntryIs
    <3>2. NameCount(ino3, j) = NameCount(S.inode, j) /\ NamesIn(ino3, j) = NamesIn(S.inode, j)
      BY <1>7, <1>12, <2>4
    <3>. QED BY <2>1, <2>2, <3>1, <3>2 DEF LinksExact
  <2>. QED BY <2>3, <2>4
<1>14. ASSUME LinksInPlace PROVE Tree(ino3)
  <2>0. Tree(S.inode) /\ S.inode[i].rf_mode # "dir" /\ DirsIn(ino2) = DirsIn(S.inode)
    BY <1>0, <1>3, <1>14 DEF EntryIs
  <2>1. ASSUME NEW e \in DirsIn(ino2)
        PROVE  /\ \A x, y \in NamesIn(ino2, e) : x = y
               /\ \A x \in NamesIn(ino2, e) : ino2[e].rf_mem[DotDot] = x[1]
    <3>1. e \in DirsIn(S.inode) /\ e # i /\ e \in Ino
      BY <2>0, <2>1 DEF DirsIn
    <3>2. NamesIn(ino2, e) = NamesIn(S.inode, e)
      BY <1>7, <3>1
    <3>3. ino2[e].rf_mem[DotDot] = S.inode[e].rf_mem[DotDot]
      <4>1. DotDot # n /\ DotDot \in Entries
        BY RamfsAssumption DEF Entries
      <4>. QED BY <1>3, <3>1, <4>1 DEF EntryIs
    <3>. QED BY <2>0, <3>1, <3>2, <3>3 DEF Tree
  <2>2. Tree(ino2)
    BY <2>1 DEF Tree
  <2>. QED BY <1>9, <2>2, SameTree
<1>15. Good(T)
  BY <1>0, <1>10, <1>11, <1>13, <1>14, GoodParts
<1>. QED BY <1>10, <1>15

(* A link count in a state that has been written before.                    *)
LEMMA WithRecordLinks ==
  ASSUME NEW S \in StateT, NEW i, NEW ino2, NEW T2, SetInodes(S, ino2, T2),
         NEW l, l = ino2[i].rf_linkcount, NEW ino3, NEW T, SetInodes(S, ino3, T)
  PROVE  /\ SetLinks(ino2, i, l + 1, ino3) => T = [T2 EXCEPT !.inode[i].rf_linkcount = @ + 1]
         /\ SetLinks(ino2, i, l - 1, ino3) => T = [T2 EXCEPT !.inode[i].rf_linkcount = @ - 1]
<1>1. T2.inode = ino2 /\ T = [T2 EXCEPT !.inode = ino3]
  BY DEF SetInodes, StateT
<1>2. ASSUME SetLinks(ino2, i, l + 1, ino3) PROVE T = [T2 EXCEPT !.inode[i].rf_linkcount = @ + 1]
  BY <1>1, <1>2 DEF SetLinks
<1>3. ASSUME SetLinks(ino2, i, l - 1, ino3) PROVE T = [T2 EXCEPT !.inode[i].rf_linkcount = @ - 1]
  BY <1>1, <1>3 DEF SetLinks
<1>. QED BY <1>2, <1>3

(* A call in a directory has ended: the references are as they were.        *)
Ends(S0, T, R) == StopsOK(S0, T) /\ (Up(T) => Live(S0, T) /\ Refs(T) = R)

(* ramfs_link: the old vnode may have been put, but shows an inode that is  *)
(* there (ramfs.c).                                                         *)
LEMMA LinkEnds ==
  ASSUME NEW S0, NEW S, Calm(S0, S), NEW d, NEW n, MakesIn(S, d, n), NEW old \in VnodeT,
         LinksInPlace => S.inode[S.vnode[old].vn_vno].rf_mode # "dir",
         NEW M, M = ramfs_link(S, old, d, n)
  PROVE  Ends(S0, M.S, Refs(S)) /\ IsResult(M)
<1>1. Good(S) /\ Up(S) /\ Live(S0, S) /\ StopsOK(S0, S) /\ S \in StateT
  BY CalmFacts, CalmLive DEF Good
<1>2. S.panic = ""
  BY <1>1 DEF Up
<1>3. PICK k : k = S.vnode[d].vn_vno
  OBVIOUS
<1>4. PICK i : i = S.vnode[old].vn_vno
  OBVIOUS
<1>5. i \in Ino /\ S.inode[i] # NoInode /\ (LinksInPlace => S.inode[i].rf_mode # "dir")
  BY <1>1, <1>4 DEF StateT, VnodeRec, Calm, AllThere
<1>6. n \in Name /\ k \in DirsIn(S.inode) /\ S.inode[k].rf_mem[n] = Nowhere
  BY <1>1, <1>3, MissingName DEF MakesIn
<1>7. CASE NoRoom(S, d)
  <2>1. M = Fails(S, "ENOSPC")
    BY <1>2, <1>7 DEF ramfs_link
  <2>. QED BY <1>1, <2>1, ResultIs DEF Ends, Fails
<1>8. CASE ~NoRoom(S, d)
  <2>1. PICK s : s = S.inode[k].rf_size + 1
    OBVIOUS
  <2>2. PICK ino2 : SetEntry(S.inode, k, n, i, s, ino2)
    BY DEF SetEntry
  <2>3. PICK l : l = ino2[i].rf_linkcount
    OBVIOUS
  <2>4. PICK ino3 : SetLinks(ino2, i, l + 1, ino3)
    BY DEF SetLinks
  <2>5. PICK T : SetInodes(S, ino3, T)
    BY DEF SetInodes
  <2>6. PICK T2 : SetInodes(S, ino2, T2)
    BY DEF SetInodes
  <2>7. T2 = AddEntry(S, d, n, i)
    BY <1>3, <2>1, <2>2, <2>6, EntryWritten
  <2>8. T = [T2 EXCEPT !.inode[i].rf_linkcount = @ + 1]
    BY <1>1, <2>3, <2>4, <2>5, <2>6, WithRecordLinks
  <2>9. M = Ok(T, NoVnode)
    BY <1>2, <1>4, <1>8, <2>7, <2>8 DEF ramfs_link
  <2>10. Cardinality(Held(S.inode[k].rf_mem)) # MaxDirent
    BY <1>3, <1>8 DEF NoRoom, Mem
  <2>11. Good(T) /\ T.panic = S.panic /\ T.vnode = S.vnode /\ T.file = S.file
    BY <1>1, <1>5, <1>6, <2>1, <2>2, <2>3, <2>4, <2>5, <2>10, LinkedGood
  <2>12. Up(T)
    BY <1>2, <2>11 DEF Up
  <2>13. Live(S0, T) /\ Refs(T) = Refs(S) /\ StopsOK(S0, T)
    BY <1>1, <2>11, <2>12, LiveSame
  <2>14. M.S = T /\ IsResult(M)
    BY <2>9, ResultIs DEF Ok
  <2>. QED BY <2>12, <2>13, <2>14 DEF Ends
<1>. QED BY <1>7, <1>8

(* An inode that is open loses a name.                                      *)
LEMMA UnlinkedGood ==
  ASSUME NEW S, Good(S), NEW d \in DirsIn(S.inode), NEW n \in Name,
         NEW i \in Ino, S.inode[d].rf_mem[n] = i, S.inode[i] # NoInode, Uses(S.vnode, i) = 1,
         NEW s, s = S.inode[d].rf_size - 1, NEW ino2, SetEntry(S.inode, d, n, Nowhere, s, ino2),
         NEW l, l = ino2[i].rf_linkcount, NEW ino3, SetLinks(ino2, i, l - 1, ino3),
         NEW T, SetInodes(S, ino3, T)
  PROVE  Good(T) /\ T.panic = S.panic /\ T.vnode = S.vnode /\ T.file = S.file
<1>0. /\ S \in StateT /\ OneVnode(S.vnode) /\ AllShow(S.vnode, S.inode)
      /\ \A j \in Ino : LinksExact(S.inode, S.vnode, S.stranded, j)
      /\ InodesOK(S.inode) /\ RootOK(S.inode) /\ FreeOK(S.vnode, S.free)
      /\ LinksInPlace => Tree(S.inode)
  BY GoodParts
<1>1. /\ S.inode \in InodesT /\ S.vnode \in [VnodeT -> VnodeRec] /\ S.stranded \in [Ino -> Nat]
  BY <1>0, StateParts
<1>2. S.inode[d] # NoInode /\ d \in Ino /\ S.inode[d] \in InodeT /\ InodeOK(d, S.inode[d])
      /\ S.inode[d].rf_mode = "dir"
  BY <1>0, <1>1 DEF DirsIn, InodesT, InodesOK
<1>3. s \in Nat
  <2>1. /\ S.inode[d].rf_mem \in [Entries -> Ino \cup {Nowhere}] /\ n \in Entries
        /\ S.inode[d].rf_size = Cardinality(Held(S.inode[d].rf_mem)) /\ S.inode[d].rf_size \in Nat
    BY <1>2 DEF InodeT, InodeOK, Entries
  <2>2. PICK a : a = S.inode[d].rf_mem
    OBVIOUS
  <2>3. n \in Held(a) /\ a \in [Entries -> Ino \cup {Nowhere}]
    BY <2>1, <2>2, InoFacts DEF Held
  <2>4. IsFiniteSet(Held(a)) /\ Cardinality(Held(a)) \in Nat
    BY <2>3, HeldFinite
  <2>5. Cardinality(Held(a)) # 0
    BY <2>3, <2>4, FS_EmptySet
  <2>6. S.inode[d].rf_size # 0
    BY <2>1, <2>2, <2>5
  <2>. QED BY <2>1, <2>6
<1>4. Nowhere \in Ino \cup {Nowhere} /\ i # Nowhere
  BY InoFacts
<1>5. EntryIs(S.inode, d, n, Nowhere, s, ino2)
  BY <1>1, <1>3, WithEntry
<1>6. PICK was : was = S.inode[d].rf_mem[n]
  OBVIOUS
<1>7. was = i
  BY <1>6
<1>8. InodesOK(ino2) /\ RootOK(ino2) /\ AllShow(S.vnode, ino2)
  BY <1>0, <1>1, <1>3, <1>6, <1>7, EntryInodes
<1>9. /\ \A j \in Ino : j # i => NamesIn(ino2, j) = NamesIn(S.inode, j)
                                  /\ NameCount(ino2, j) = NameCount(S.inode, j)
      /\ NameCount(ino2, i) = NameCount(S.inode, i) - 1
  <2>1. NameCount(ino2, i) = NameCount(S.inode, i) - 1
    BY <1>1, <1>3, <1>4, <1>6, <1>7, EntryCounts
  <2>2. ASSUME NEW j \in Ino, j # i PROVE NamesIn(ino2, j) = NamesIn(S.inode, j)
                                  /\ NameCount(ino2, j) = NameCount(S.inode, j)
    BY <1>1, <1>3, <1>4, <1>6, <1>7, <2>2, InoFacts, EntryCounts
  <2>. QED BY <2>1, <2>2
<1>9a. \A j \in Ino : j # Nowhere => NamesIn(ino2, j) = NamesIn(S.inode, j) \ {<<d, n>>}
  <2>1. PICK x : x = Nowhere
    OBVIOUS
  <2>2. PICK ino : ino = S.inode
    OBVIOUS
  <2>3. x \in Ino \cup {Nowhere} /\ SetEntry(ino, d, n, x, s, ino2) /\ ino \in InodesT /\ d \in DirsIn(ino)
    BY <1>1, <2>1, <2>2
  <2>4. ASSUME NEW j \in Ino, j # Nowhere PROVE NamesIn(ino2, j) = NamesIn(ino, j) \ {<<d, n>>}
    <3>1. NamesIn(ino2, j) = IF j = x THEN NamesIn(ino, j) \cup {<<d, n>>}
                             ELSE NamesIn(ino, j) \ {<<d, n>>}
      BY <1>3, <2>3, EntryNames
    <3>. QED BY <2>1, <2>4, <3>1
  <2>. QED BY <2>2, <2>4
<1>10. ino2 \in InodesT /\ ino2[i] # NoInode /\ l \in Nat /\ l = S.inode[i].rf_linkcount
  <2>1. ino2 \in InodesT /\ ino2[i] # NoInode /\ l = S.inode[i].rf_linkcount
    BY <1>5 DEF EntryIs
  <2>. QED BY <2>1 DEF InodesT, InodeT
<1>11. /\ NameCount(S.inode, i) \in Nat /\ NameCount(ino2, i) \in Nat /\ S.stranded[i] \in Nat
       /\ RootLink(i) \in {0, 1}
  BY <1>1, <1>10, LinkTypes
<1>12. /\ l - 1 = (NameCount(S.inode, i) - 1) + 1 + S.stranded[i] + RootLink(i)
       /\ l - 1 > 0 /\ l - 1 \in Nat
  <2>1. l = NameCount(S.inode, i) + 1 + S.stranded[i] + RootLink(i)
    BY <1>0, <1>10 DEF LinksExact
  <2>2. NameCount(S.inode, i) - 1 \in Nat
    BY <1>9, <1>11
  <2>. QED BY ONLY <1>10, <1>11, <2>1, <2>2
<1>13. /\ ino3 \in InodesT /\ SameEntries(ino2, ino3) /\ SameSizes(ino2, ino3)
       /\ ino3[i].rf_linkcount = l - 1 /\ \A j \in Ino \ {i} : ino3[j] = ino2[j]
  BY <1>10, <1>12, WithLinks
<1>14. /\ T \in StateT /\ T.inode = ino3 /\ T.stranded = S.stranded
       /\ T.vnode = S.vnode /\ T.free = S.free
       /\ T.panic = S.panic /\ T.file = S.file
  BY <1>0, <1>13, WithInodes
<1>15. AllShow(S.vnode, ino3) /\ InodesOK(ino3) /\ RootOK(ino3)
  BY <1>1, <1>8, <1>13, SameInodes, SameTree
<1>16. \A j \in Ino : NameCount(ino3, j) = NameCount(ino2, j) /\ NamesIn(ino3, j) = NamesIn(ino2, j)
  BY <1>13, SameNames, SameTree
<1>17. ASSUME NEW j \in Ino PROVE LinksExact(ino3, S.vnode, S.stranded, j)
  <2>1. LinksExact(S.inode, S.vnode, S.stranded, j)
    BY <1>0
  <2>2. (ino3[j] = NoInode <=> S.inode[j] = NoInode)
    BY <1>5, <1>13 DEF EntryIs, SameEntries, SameEntry
  <2>3. CASE j = i
    <3>1. ino3[i].rf_linkcount = NameCount(ino3, i) + Uses(S.vnode, i) + S.stranded[i] + RootLink(i)
      BY <1>9, <1>12, <1>13, <1>16
    <3>. QED BY <1>12, <1>13, <2>1, <2>2, <2>3, <3>1 DEF LinksExact
  <2>4. CASE j # i
    <3>1. ino3[j].rf_linkcount = S.inode[j].rf_linkcount
      BY <1>5, <1>13, <2>4 DEF EntryIs
    <3>2. NameCount(ino3, j) = NameCount(S.inode, j) /\ NamesIn(ino3, j) = NamesIn(S.inode, j)
      BY <1>9, <1>16, <2>4
    <3>. QED BY <2>1, <2>2, <3>1, <3>2 DEF LinksExact
  <2>. QED BY <2>3, <2>4
<1>18. ASSUME LinksInPlace PROVE Tree(ino3)
  <2>0. Tree(S.inode) /\ DirsIn(ino2) = DirsIn(S.inode)
    BY <1>0, <1>5, <1>18 DEF EntryIs
  <2>1. ASSUME NEW e \in DirsIn(ino2)
        PROVE  /\ \A x, y \in NamesIn(ino2, e) : x = y
               /\ \A x \in NamesIn(ino2, e) : ino2[e].rf_mem[DotDot] = x[1]
    <3>1. e \in DirsIn(S.inode) /\ e \in Ino
      BY <2>0, <2>1 DEF DirsIn
    <3>2. NamesIn(ino2, e) = NamesIn(S.inode, e) \ {<<d, n>>}
      <4>1. e # Nowhere
        BY <3>1, InoFacts
      <4>. QED BY <1>9a, <3>1, <4>1
    <3>3. ino2[e].rf_mem[DotDot] = S.inode[e].rf_mem[DotDot]
      <4>1. DotDot # n /\ DotDot \in Entries
        BY RamfsAssumption DEF Entries
      <4>. QED BY <1>5, <3>1, <4>1 DEF EntryIs
    <3>. QED BY <2>0, <3>1, <3>2, <3>3 DEF Tree
  <2>2. Tree(ino2)
    BY <2>1 DEF Tree
  <2>. QED BY <1>13, <2>2, SameTree
<1>19. Good(T)
  BY <1>0, <1>14, <1>15, <1>17, <1>18, GoodParts
<1>. QED BY <1>14, <1>19

(* ramfs_unlink and ramfs_rmdir, once the name has been found: the reference*)
(* that the lookup took goes last (ramfs.c).                                *)
LEMMA UnlinkedEnds ==
  ASSUME NEW S0, NEW L, Calm(S0, L.S), NEW d \in VnodeT, Refs(L.S)[d] > 0,
         L.S.vnode[d].vn_mode = "dir", NEW n \in Name,
         L.vn \in VnodeT, Mem(L.S, d)[n] = L.S.vnode[L.vn].vn_vno,
         NEW R \in [VnodeT -> Nat], Refs(L.S) = Plus(R, L.vn),
         NEW M, M = Unlinked(L, d, n)
  PROVE  Ends(S0, M.S, R) /\ M.ret = "0" /\ IsResult(M)
<1>1. PICK S : S = L.S
  OBVIOUS
<1>2. PICK v : v = L.vn
  OBVIOUS
<1>3. v \in VnodeT /\ Refs(S) = Plus(R, v) /\ Calm(S0, S)
  BY <1>1, <1>2
<1>4. Good(S) /\ Up(S) /\ Live(S0, S) /\ S \in StateT
  BY <1>3, CalmFacts, CalmLive DEF Good
<1>5. S.panic = ""
  BY <1>4 DEF Up
<1>6. PICK k : k = S.vnode[d].vn_vno
  OBVIOUS
<1>7. PICK i : i = S.vnode[v].vn_vno
  OBVIOUS
<1>8. k \in DirsIn(S.inode) /\ S.inode[k].rf_mem[n] = i
  BY <1>1, <1>2, <1>4, <1>6, <1>7, InUseShows DEF Mem
<1>9. Refs(S)[v] > 0
  <2>1. Refs(S)[v] = R[v] + 1 /\ R[v] \in Nat
    BY <1>3, PlusIs
  <2>. QED BY <2>1
<1>10. i \in Ino /\ S.inode[i] # NoInode
  BY <1>3, <1>4, <1>7, <1>9, InUseShows
<1>11. Uses(S.vnode, i) = 1
  <2>1. S.vnode[v].vn_refcount > 0
    BY <1>3, <1>4, <1>9, RefsType
  <2>. QED BY <1>3, <1>7, <2>1 DEF Uses, Shown
<1>12. PICK s : s = S.inode[k].rf_size - 1
  OBVIOUS
<1>13. PICK ino2 : SetEntry(S.inode, k, n, Nowhere, s, ino2)
  BY DEF SetEntry
<1>14. PICK l : l = ino2[i].rf_linkcount
  OBVIOUS
<1>15. PICK ino3 : SetLinks(ino2, i, l - 1, ino3)
  BY DEF SetLinks
<1>16. PICK T : SetInodes(S, ino3, T)
  BY DEF SetInodes
<1>17. PICK T2 : SetInodes(S, ino2, T2)
  BY DEF SetInodes
<1>18. T2 = DropEntry(S, d, n)
  BY <1>6, <1>12, <1>13, <1>17, EntryWritten
<1>19. T = [T2 EXCEPT !.inode[i].rf_linkcount = @ - 1]
  BY <1>4, <1>14, <1>15, <1>16, <1>17, WithRecordLinks
<1>20. T2.vnode[v].vn_vno = i
  <2>1. T2.vnode = S.vnode
    BY <1>4, <1>17 DEF SetInodes, StateT
  <2>. QED BY <1>7, <2>1
<1>21. T = DropLink(T2, v)
  BY <1>19, <1>20 DEF DropLink
<1>22. Good(T) /\ T.panic = S.panic /\ T.vnode = S.vnode /\ T.file = S.file
  BY <1>4, <1>8, <1>10, <1>11, <1>12, <1>13, <1>14, <1>15, <1>16, UnlinkedGood
<1>23. Up(T)
  BY <1>5, <1>22 DEF Up
<1>24. Live(S0, T) /\ Refs(T) = Refs(S)
  BY <1>4, <1>22, <1>23, LiveSame
<1>25. PICK U : U = vput(T, v)
  OBVIOUS
<1>26. Live(S0, U) /\ Up(U) /\ Refs(U) = R /\ StopsOK(S0, U)
  BY <1>3, <1>23, <1>24, <1>25, LivePut
<1>27. M = Ok(U, NoVnode)
  BY <1>1, <1>2, <1>5, <1>18, <1>21, <1>25 DEF Unlinked
<1>28. M.S = U /\ M.ret = "0" /\ IsResult(M)
  BY <1>27, ResultIs DEF Ok
<1>. QED BY <1>26, <1>28 DEF Ends
-----------------------------------------------------------------------------
(* The calls on paths                                                       *)
LEMMA LookupParts ==
  ASSUME NEW S, NEW d, NEW n, NEW L, L = lookup(S, d, n)
  PROVE  IsResult(L) /\ (L.ret = "ENOENT" => Up(S) /\ L.S = S)
<1>1. CASE S.panic # ""
  <2>1. L = Fails(S, "panic")
    BY <1>1 DEF lookup
  <2>. QED BY <2>1, ResultIs DEF Fails
<1>2. CASE S.panic = "" /\ d = NoVnode
  <2>1. L = Fails(Panics(S, "dir"), "panic")
    BY <1>2 DEF lookup
  <2>. QED BY <2>1, ResultIs DEF Fails
<1>3. CASE S.panic = "" /\ d # NoVnode /\ S.vnode[d].vn_mode # "dir"
  <2>1. L = Fails(Panics(S, "lookup"), "panic")
    BY <1>3 DEF lookup
  <2>. QED BY <2>1, ResultIs DEF Fails
<1>4. CASE S.panic = "" /\ d # NoVnode /\ S.vnode[d].vn_mode = "dir"
  <2>1. L = ramfs_lookup(S, d, n)
    BY <1>4 DEF lookup
  <2>2. CASE n = NoName
    <3>1. L = Fails(Panics(S, "namelen"), "panic")
      BY <2>1, <2>2 DEF ramfs_lookup
    <3>. QED BY <3>1, ResultIs DEF Fails
  <2>3. CASE n # NoName /\ Mem(S, d)[n] = Nowhere
    <3>1. L = Fails(S, "ENOENT")
      BY <2>1, <2>3 DEF ramfs_lookup
    <3>2. Up(S)
      BY <1>4 DEF Up
    <3>3. L.S = S
      BY <3>1 DEF Fails
    <3>. QED BY <3>1, <3>2, <3>3, ResultIs
  <2>4. CASE n # NoName /\ Mem(S, d)[n] # Nowhere
    <3>1. PICK T : T = vget(S, Mem(S, d)[n])
      OBVIOUS
    <3>2. PICK v : v = VnodeOf(T, Mem(S, d)[n])
      OBVIOUS
    <3>3. L = Ok(T, v)
      BY <2>1, <2>4, <3>1, <3>2 DEF ramfs_lookup, Got
    <3>. QED BY <3>3, ResultIs DEF Ok
  <2>. QED BY <2>2, <2>3, <2>4
<1>. QED BY <1>1, <1>2, <1>3, <1>4

(* Put, after a call that gives a vnode                                     *)
LEMMA FoundThenPut ==
  ASSUME NEW S0, NEW L, NEW R \in [VnodeT -> Nat], \A w \in VnodeT : Refs(S0)[w] <= R[w],
         NEW d \in VnodeT, Found(S0, L, Plus(R, d)), NEW M, M = Put(L, d), IsResult(L)
  PROVE  Found(S0, M, R) /\ M.ret = L.ret /\ M.vn = L.vn
<1>1. PICK S, ret, vn : L = [S |-> S, ret |-> ret, vn |-> vn]
  BY DEF IsResult
<1>2. PICK T : T = vput(S, d)
  OBVIOUS
<1>3. M = [S |-> T, ret |-> ret, vn |-> vn]
  BY <1>1, <1>2 DEF Put
<1>4. M.S = T /\ M.ret = ret /\ M.vn = vn /\ L.S = S /\ L.ret = ret /\ L.vn = vn
  BY <1>1, <1>3
<1>5. CASE ~Up(S)
  <2>1. T = S
    BY <1>2, <1>5, StaysDown
  <2>. QED BY <1>4, <1>5, <2>1 DEF Found
<1>6. CASE Up(S)
  <2>1. Calm(S0, S) /\ Holding(L, Plus(R, d))
    BY <1>4, <1>6 DEF Found
  <2>2. CASE ret = "0"
    <3>1. vn \in VnodeT /\ Refs(S) = Plus(Plus(R, d), vn)
      BY <1>4, <2>1, <2>2 DEF Holding
    <3>2. PICK Q : Q = Plus(R, vn)
      OBVIOUS
    <3>3. Q \in [VnodeT -> Nat] /\ Refs(S) = Plus(Q, d) /\ \A w \in VnodeT : R[w] <= Q[w]
      BY <3>1, <3>2, PlusPlus, PlusIs
    <3>4. \A w \in VnodeT : Refs(S0)[w] <= Q[w]
      <4>1. \A w \in VnodeT : Refs(S0)[w] \in Nat /\ R[w] \in Nat /\ Q[w] \in Nat
        BY <2>1, <3>3, CalmFacts
      <4>. QED BY <3>3, <4>1
    <3>5. Calm(S0, T) /\ Refs(T) = Q /\ StopsOK(S0, T)
      BY <1>2, <2>1, <3>3, <3>4, FoundPut
    <3>. QED BY <1>4, <2>2, <3>1, <3>2, <3>5 DEF Found, Holding
  <2>3. CASE ret # "0"
    <3>1. Refs(S) = Plus(R, d)
      BY <1>4, <2>1, <2>3 DEF Holding
    <3>2. Calm(S0, T) /\ Refs(T) = R /\ StopsOK(S0, T)
      BY <1>2, <2>1, <3>1, FoundPut
    <3>. QED BY <1>4, <2>3, <3>2 DEF Found, Holding
  <2>. QED BY <2>2, <2>3
<1>. QED BY <1>5, <1>6

(* What was found is put, and an error comes of it.                         *)
LEMMA FoundFails ==
  ASSUME NEW S0, NEW L, NEW R \in [VnodeT -> Nat], \A w \in VnodeT : Refs(S0)[w] <= R[w],
         Found(S0, L, R), L.ret = "0", NEW errno, errno # "0",
         NEW M, M = Fails(vput(L.S, L.vn), errno)
  PROVE  Found(S0, M, R) /\ M.ret = errno /\ IsResult(M)
<1>1. PICK T : T = vput(L.S, L.vn)
  OBVIOUS
<1>2. M.S = T /\ M.ret = errno /\ IsResult(M)
  BY <1>1, ResultIs DEF Fails
<1>3. CASE ~Up(L.S)
  <2>1. T = L.S
    BY <1>1, <1>3, StaysDown
  <2>. QED BY <1>2, <1>3, <2>1 DEF Found
<1>4. CASE Up(L.S)
  <2>1. Calm(S0, L.S) /\ L.vn \in VnodeT /\ Refs(L.S) = Plus(R, L.vn)
    BY <1>4 DEF Found, Holding
  <2>2. PICK S : S = L.S
    OBVIOUS
  <2>3. PICK v : v = L.vn
    OBVIOUS
  <2>4. Calm(S0, T) /\ Refs(T) = R /\ StopsOK(S0, T)
    BY <1>1, <2>1, <2>2, <2>3, FoundPut
  <2>. QED BY <1>2, <2>4 DEF Found, Holding
<1>. QED BY <1>3, <1>4

(* open_namev: the vnode of the path, with one reference more, and with     *)
(* O_CREAT perhaps a new one (namev.c).                                     *)
LEMMA OpenNamevOpened ==
  ASSUME NEW S0, NEW S, Calm(S0, S), RootShown(S0), NEW cwd \in VnodeT, Refs(S0)[cwd] > 0,
         Refs(S)[cwd] > 0, NEW path, GivenPath(S0, cwd, path), NEW creat \in BOOLEAN, NEW O, O = open_namev(S, cwd, path, creat)
  PROVE  /\ Opened(S0, O, Refs(S))
         /\ ~creat => Found(S0, O, Refs(S))
<1>1. PICK D : D = dir_namev(S, cwd, path)
  OBVIOUS
<1>2. PICK R : R = Refs(S)
  OBVIOUS
<1>3. O = OpenIn(D, path, creat)
  BY <1>1 DEF open_namev
<1>4. Found(S0, D, R) /\ (Up(D.S) /\ D.ret = "0" => MayLook(S0, D, path))
  BY <1>1, <1>2, DirNamevFound
<1>5. R \in [VnodeT -> Nat] /\ \A w \in VnodeT : Refs(S0)[w] <= R[w]
  BY <1>2, CalmFacts
<1>6. CASE D.ret # "0" \/ path.last = NoName
  <2>1. O = D
    BY <1>3, <1>6 DEF OpenIn
  <2>. QED BY <1>2, <1>4, <2>1, FoundOpened
<1>7. CASE D.ret = "0" /\ path.last # NoName
  <2>1. PICK n : n = path.last
    OBVIOUS
  <2>2. n \in LookupNames
    BY <2>1 DEF GivenPath, Path, LookupNames
  <2>3. PICK X : X = D.S
    OBVIOUS
  <2>4. PICK d : d = D.vn
    OBVIOUS
  <2>5. PICK L : L = lookup(X, d, n)
    OBVIOUS
  <2>6. O = OpenFound(L, d, path, creat)
    BY <1>3, <1>7, <2>1, <2>3, <2>4, <2>5 DEF OpenIn
  <2>7. IsResult(L) /\ (L.ret = "ENOENT" => Up(X) /\ L.S = X)
    BY <2>5, LookupParts
  <2>8. CASE ~Up(X)
    <3>1. L = Fails(X, "panic")
      BY <2>5, <2>8, StaysDown
    <3>2. L.ret = "panic" /\ L.S = X
      BY <3>1 DEF Fails
    <3>3. O = Put(L, d)
      BY <2>6, <3>2 DEF OpenFound
    <3>4. O = Fails(vput(X, d), "panic")
      BY <3>1, <3>3 DEF Put, Fails
    <3>5. O = Fails(X, "panic")
      BY <2>8, <3>4, StaysDown
    <3>6. O.S = X
      BY <3>5 DEF Fails
    <3>. QED BY <1>4, <2>3, <2>8, <3>6 DEF Found, Opened
  <2>9. CASE Up(X)
    <3>1. Calm(S0, X) /\ d \in VnodeT /\ Refs(X) = Plus(R, d)
      BY <1>4, <1>7, <2>3, <2>4, <2>9 DEF Found, Holding
    <3>2. /\ Plus(R, d) \in [VnodeT -> Nat] /\ Refs(X)[d] > 0
          /\ \A w \in VnodeT : Refs(S0)[w] <= Plus(R, d)[w]
      <4>1. Plus(R, d)[d] = R[d] + 1 /\ R[d] \in Nat
        BY <1>5, <3>1, PlusIs
      <4>. QED BY <1>5, <3>1, <4>1, CalmFacts, PlusIs
    <3>3. Found(S0, L, Plus(R, d))
          /\ (Up(L.S) => IF L.ret = "0" THEN There(L, X, d, n) ELSE Missing(L, X, d, n))
      <4>1. May(S0, X.vnode[d].vn_vno, n)
        BY <1>4, <1>7, <2>1, <2>3, <2>4, <2>9 DEF MayLook
      <4>. QED BY <2>2, <2>5, <3>1, <3>2, <4>1, LookupFound
    <3>4. CASE L.ret = "ENOENT" /\ creat
      <4>1. PICK C : C = ramfs_create(X, d, n)
        OBVIOUS
      <4>2. O = Put(C, d)
        BY <2>1, <2>6, <2>7, <3>4, <4>1 DEF OpenFound
      <4>3. MakesIn(X, d, n)
        BY <2>7, <2>9, <3>1, <3>2, <3>3, <3>4 DEF MakesIn, Missing, Entries
      <4>4. Opened(S0, C, Plus(R, d)) /\ IsResult(C)
        BY <3>1, <4>1, <4>3, CreateOpened
      <4>5. Opened(S0, O, R)
        BY <1>5, <3>1, <4>2, <4>4, OpenedPut
      <4>. QED BY <1>2, <3>4, <4>5
    <3>5. CASE ~(L.ret = "ENOENT" /\ creat) /\ L.ret = "0" /\ NeedsDir(L, path)
      <4>1. PICK F : F = Fails(vput(L.S, L.vn), "ENOTDIR")
        OBVIOUS
      <4>2. O = Put(F, d)
        BY <2>6, <3>5, <4>1 DEF OpenFound
      <4>3. Found(S0, F, Plus(R, d)) /\ IsResult(F)
        <5>1. PICK errno : errno = "ENOTDIR"
          OBVIOUS
        <5>2. errno # "0" /\ F = Fails(vput(L.S, L.vn), errno)
          BY <4>1, <5>1
        <5>. QED BY <3>2, <3>3, <3>5, <5>2, FoundFails
      <4>4. Found(S0, O, R)
        BY <1>5, <3>1, <4>2, <4>3, FoundThenPut
      <4>. QED BY <1>2, <4>4, FoundOpened
    <3>6. CASE ~(L.ret = "ENOENT" /\ creat) /\ ~(L.ret = "0" /\ NeedsDir(L, path))
      <4>1. O = Put(L, d)
        BY <2>6, <3>6 DEF OpenFound
      <4>2. Found(S0, O, R)
        BY <1>5, <2>7, <3>1, <3>3, <4>1, FoundThenPut
      <4>. QED BY <1>2, <4>2, FoundOpened
    <3>. QED BY <3>4, <3>5, <3>6
  <2>. QED BY <2>8, <2>9
<1>. QED BY <1>6, <1>7

(* What a call in a directory leaves, with the directory held and put       *)
LEMMA CalmEnds ==
  ASSUME NEW S0, NEW S, Calm(S0, S)
  PROVE  Ends(S0, S, Refs(S))
BY CalmFacts, CalmLive DEF Ends

(* A call that ends by putting what it held.                                *)
LEMMA EndsPut ==
  ASSUME NEW S0, NEW S, NEW R \in [VnodeT -> Nat], NEW v \in VnodeT, Ends(S0, S, Plus(R, v)),
         NEW T, T = vput(S, v)
  PROVE  Ends(S0, T, R)
<1>1. CASE ~Up(S)
  BY <1>1, StaysDown DEF Ends
<1>2. CASE Up(S)
  BY <1>2, LivePut DEF Ends
<1>. QED BY <1>1, <1>2

(* A call that ends with what it found, or puts it.                         *)
LEMMA FoundEnds ==
  ASSUME NEW S0, NEW L, NEW R \in [VnodeT -> Nat], Found(S0, L, R)
  PROVE  /\ L.ret # "0" \/ ~Up(L.S) => Ends(S0, L.S, R)
         /\ L.ret = "0" => Ends(S0, vput(L.S, L.vn), R)
<1>1. CASE ~Up(L.S)
  BY <1>1, StaysDown DEF Ends, Found
<1>2. CASE Up(L.S) /\ L.ret # "0"
  BY <1>2, CalmLive DEF Ends, Found, Holding
<1>3. CASE Up(L.S) /\ L.ret = "0"
  <2>1. Live(S0, L.S) /\ L.vn \in VnodeT /\ Refs(L.S) = Plus(R, L.vn)
    BY <1>3, CalmLive DEF Found, Holding
  <2>2. PICK T : T = vput(L.S, L.vn)
    OBVIOUS
  <2>3. Live(S0, T) /\ Up(T) /\ Refs(T) = R /\ StopsOK(S0, T)
    BY <1>3, <2>1, <2>2, LivePut
  <2>. QED BY <1>3, <2>2, <2>3 DEF Ends
<1>. QED BY <1>1, <1>2, <1>3

DirLeft(D, M) == IF D.ret # "0" THEN D.S ELSE vput(M.S, D.vn)
ActsIn(S0, D, M) ==
  IF Up(D.S) THEN Ends(S0, M.S, Refs(D.S)) ELSE M.S.panic = D.S.panic

(* A call in a directory puts the directory when it is done.                *)
LEMMA DirEnds ==
  ASSUME NEW S0, NEW D, NEW R \in [VnodeT -> Nat], Found(S0, D, R), NEW M,
         D.ret = "0" => ActsIn(S0, D, M)
  PROVE  Ends(S0, DirLeft(D, M), R)
<1>1. CASE D.ret # "0"
  BY <1>1, FoundEnds DEF DirLeft
<1>2. CASE D.ret = "0" /\ ~Up(D.S)
  <2>1. M.S.panic = D.S.panic /\ ~Up(M.S)
    BY <1>2 DEF ActsIn, Up
  <2>2. DirLeft(D, M) = M.S
    BY <1>2, <2>1, StaysDown DEF DirLeft
  <2>3. StopsOK(S0, M.S)
    BY <2>1 DEF Found, StopsOK
  <2>. QED BY <2>1, <2>2, <2>3 DEF Ends
<1>3. CASE D.ret = "0" /\ Up(D.S)
  <2>1. Ends(S0, M.S, Refs(D.S))
    BY <1>3 DEF ActsIn
  <2>2. D.vn \in VnodeT /\ Refs(D.S) = Plus(R, D.vn)
    BY <1>3 DEF Found, Holding
  <2>3. PICK T : T = vput(M.S, D.vn)
    OBVIOUS
  <2>4. Ends(S0, T, R)
    BY <2>1, <2>2, <2>3, EndsPut
  <2>. QED BY <1>3, <2>3, <2>4 DEF DirLeft
<1>. QED BY <1>1, <1>2, <1>3

(* A directory that was found is held.                                      *)
LEMMA FoundHolds ==
  ASSUME NEW S0, NEW D, NEW R \in [VnodeT -> Nat], Found(S0, D, R), D.ret = "0", Up(D.S)
  PROVE  Calm(S0, D.S) /\ D.vn \in VnodeT /\ Refs(D.S) = Plus(R, D.vn) /\ Refs(D.S)[D.vn] > 0
<1>1. Calm(S0, D.S) /\ D.vn \in VnodeT /\ Refs(D.S) = Plus(R, D.vn)
  BY DEF Found, Holding
<1>2. PICK d \in VnodeT : d = D.vn
  BY <1>1
<1>3. Plus(R, d)[d] = R[d] + 1 /\ R[d] \in Nat
  BY PlusIs
<1>4. Plus(R, d)[d] > 0
  BY <1>3
<1>. QED BY <1>1, <1>2, <1>4

(* A name that is looked up, and is to be new                               *)
LEMMA IfMissingActs ==
  ASSUME NEW S0, NEW D, NEW R \in [VnodeT -> Nat], Found(S0, D, R), D.ret = "0",
         NEW n \in LookupNames, NEW L, L = lookup(D.S, D.vn, n), NEW M,
         Up(D.S) => May(S0, D.S.vnode[D.vn].vn_vno, n),
         L.ret = "0" => M = Fails(vput(L.S, L.vn), "EEXIST"),
         L.ret = "ENOENT" /\ Up(D.S) /\ MakesIn(D.S, D.vn, n) => Ends(S0, M.S, Refs(D.S)),
         L.ret # "0" /\ L.ret # "ENOENT" => M = L
  PROVE  ActsIn(S0, D, M)
<1>1. CASE ~Up(D.S)
  <2>1. L = Fails(D.S, "panic")
    BY <1>1, StaysDown
  <2>2. L.ret = "panic" /\ L.S = D.S
    BY <2>1 DEF Fails
  <2>. QED BY <1>1, <2>2 DEF ActsIn
<1>2. CASE Up(D.S)
  <2>1. PICK X : X = D.S
    OBVIOUS
  <2>2. PICK d : d = D.vn
    OBVIOUS
  <2>3. Calm(S0, X) /\ d \in VnodeT /\ Refs(X)[d] > 0
    BY <1>2, <2>1, <2>2, FoundHolds
  <2>4. /\ Found(S0, L, Refs(X))
        /\ Up(L.S) => IF L.ret = "0" THEN There(L, X, d, n) ELSE Missing(L, X, d, n)
    BY <1>2, <2>1, <2>2, <2>3, LookupFound
  <2>5. Refs(X) \in [VnodeT -> Nat]
    BY <2>3, CalmFacts
  <2>6. (L.ret = "ENOENT" => L.S = X)
    BY <2>1, <2>2, LookupParts
  <2>7. CASE L.ret = "0"
    <3>1. M.S = vput(L.S, L.vn)
      BY <2>7 DEF Fails
    <3>. QED BY <1>2, <2>1, <2>4, <2>5, <2>7, <3>1, FoundEnds DEF ActsIn
  <2>8. CASE L.ret = "ENOENT"
    <3>1. MakesIn(X, d, n)
      BY <1>2, <2>1, <2>3, <2>4, <2>6, <2>8 DEF MakesIn, Missing, Entries
    <3>. QED BY <1>2, <2>1, <2>2, <2>8, <3>1 DEF ActsIn
  <2>9. CASE L.ret # "0" /\ L.ret # "ENOENT"
    BY <1>2, <2>1, <2>4, <2>5, <2>9, FoundEnds DEF ActsIn
  <2>. QED BY <2>7, <2>8, <2>9
<1>. QED BY <1>1, <1>2

(* What the calls below are given: a state between calls, the directory of  *)
(* the process and a path                                                   *)
Begins(S, cwd, path) ==
  /\ Calm(S, S) /\ RootShown(S) /\ cwd \in VnodeT /\ Refs(S)[cwd] > 0 /\ GivenPath(S, cwd, path)

(* dir_namev at the beginning of a call.                                    *)
LEMMA BeginsFound ==
  ASSUME NEW S, NEW cwd, NEW path, Begins(S, cwd, path), NEW D, D = dir_namev(S, cwd, path)
  PROVE  /\ Found(S, D, Refs(S)) /\ Refs(S) \in [VnodeT -> Nat] /\ path.last \in LookupNames
         /\ Up(D.S) => IF D.ret = "0" THEN MayLook(S, D, path) ELSE NoWay(S, cwd, path)
BY DirNamevFound, CalmFacts DEF Begins, GivenPath, Path, LookupNames

(* What do_mkdir and do_mknod do in the directory.                          *)
LEMMA MadeActs ==
  ASSUME NEW S0, NEW D, NEW R \in [VnodeT -> Nat], Found(S0, D, R), D.ret = "0",
         NEW n \in LookupNames, NEW L, L = lookup(D.S, D.vn, n), NEW mode \in {"data", "dir", "chr"},
         NEW M, Up(D.S) => May(S0, D.S.vnode[D.vn].vn_vno, n),
         L.ret = "0" => M = Fails(vput(L.S, L.vn), "EEXIST"),
         L.ret = "ENOENT" => M = Make(L.S, D.vn, n, mode),
         L.ret # "0" /\ L.ret # "ENOENT" => M = L
  PROVE  ActsIn(S0, D, M)
<1>1. ASSUME L.ret = "ENOENT", Up(D.S), MakesIn(D.S, D.vn, n) PROVE Ends(S0, M.S, Refs(D.S))
  <2>1. Calm(S0, D.S)
    BY <1>1, FoundHolds
  <2>2. M = Make(D.S, D.vn, n, mode)
    BY <1>1, LookupParts
  <2>3. StopsOK(S0, M.S) /\ Up(M.S) /\ Live(S0, M.S) /\ Refs(M.S) = Refs(D.S)
    BY <1>1, <2>1, <2>2, MakeOpened
  <2>. QED BY <2>3 DEF Ends
<1>. QED BY <1>1, IfMissingActs

(* do_mkdir (vfs_syscall.c)                                                 *)
LEMMA MkdirEnds ==
  ASSUME NEW p, NEW path, do_mkdir(p, path), Begins(Now, p_cwd[p], path)
  PROVE  \E T : Returns(T) /\ Ends(Now, T, Refs(Now))
<1>1. PICK D : D = dir_namev(Now, p_cwd[p], path)
  OBVIOUS
<1>2. PICK L : L = lookup(D.S, D.vn, path.last)
  OBVIOUS
<1>3. PICK M : M = IF path.last = NoName THEN Fails(D.S, "EEXIST")
                   ELSE IfMissing(L, D.vn, path.last, ramfs_mkdir)
  OBVIOUS
<1>4. Returns(DirLeft(D, M))
  BY <1>1, <1>2, <1>3 DEF do_mkdir, InDirectory, DirLeft
<1>5. PICK S0 : S0 = Now
  OBVIOUS
<1>6. /\ Found(S0, D, Refs(S0)) /\ Refs(S0) \in [VnodeT -> Nat] /\ path.last \in LookupNames
      /\ Up(D.S) /\ D.ret = "0" => MayLook(S0, D, path)
  BY <1>1, <1>5, BeginsFound
<1>7. CASE path.last = NoName
  <2>1. M.S = D.S
    BY <1>3, <1>7 DEF Fails
  <2>2. D.ret = "0" => ActsIn(S0, D, M)
    BY <1>6, <2>1, FoundHolds, CalmEnds DEF ActsIn
  <2>. QED BY <1>4, <1>5, <1>6, <2>2, DirEnds
<1>8. CASE path.last # NoName
  <2>1. /\ L.ret = "0" => M = Fails(vput(L.S, L.vn), "EEXIST")
        /\ L.ret = "ENOENT" => M = Make(L.S, D.vn, path.last, "dir")
        /\ L.ret # "0" /\ L.ret # "ENOENT" => M = L
    BY <1>3, <1>8 DEF IfMissing, ramfs_mkdir
  <2>3. D.ret = "0" /\ Up(D.S) => May(S0, D.S.vnode[D.vn].vn_vno, path.last)
    BY <1>6, <1>8 DEF MayLook
  <2>2. D.ret = "0" => ActsIn(S0, D, M)
    BY <1>2, <1>6, <2>1, <2>3, MadeActs
  <2>. QED BY <1>4, <1>5, <1>6, <2>2, DirEnds
<1>. QED BY <1>7, <1>8

(* do_mknod (vfs_syscall.c)                                                 *)
LEMMA MknodEnds ==
  ASSUME NEW p \in Proc, NEW path \in With("mknod"), do_mknod(p, path), Begins(Now, p_cwd[p], path)
  PROVE  \E T : Returns(T) /\ Ends(Now, T, Refs(Now))
<1>1. PICK E : E = dir_namev(Now, p_cwd[p], path)
  OBVIOUS
<1>2. PICK D : D = Unchecked(E)
  OBVIOUS
<1>3. PICK L : L = lookup(D.S, D.vn, path.last)
  OBVIOUS
<1>4. PICK M : M = IfMissing(L, D.vn, path.last, ramfs_mknod)
  OBVIOUS
<1>5. Returns(DirLeft(D, M))
  BY <1>1, <1>2, <1>3, <1>4 DEF do_mknod, InDirectory, DirLeft
<1>6. PICK S0 : S0 = Now
  OBVIOUS
<1>7. /\ Found(S0, E, Refs(S0)) /\ Refs(S0) \in [VnodeT -> Nat] /\ path.last \in LookupNames
      /\ Up(E.S) => IF E.ret = "0" THEN MayLook(S0, E, path) ELSE NoWay(S0, p_cwd[p], path)
  BY <1>1, <1>6, BeginsFound
<1>8. Found(S0, D, Refs(S0))
  <2>1. CASE E.ret = "0"
    BY <1>2, <1>7, <2>1 DEF Unchecked
  <2>2. CASE E.ret # "0"
    <3>1. PICK T : T = Panics(E.S, "dir")
      OBVIOUS
    <3>2. D.S = T
      BY <1>2, <2>2, <3>1 DEF Unchecked, Ok
    <3>3. CASE Up(E.S)
      <4>1. Calm(S0, E.S)
        BY <1>7, <3>3 DEF Found
      <4>2. PICK where \in Stops \ {""} : where = "dir"
        BY DEF Stops
      <4>3. PICK X : X = E.S
        OBVIOUS
      <4>5. Cause(S0, p_cwd, p_files, lost, where)
        <5>1. p_cwd[p] # NoVnode
          BY RamfsAssumption DEF Begins
        <5>2. NoWay(S0, p_cwd[p], path)
          BY <1>7, <2>2, <3>3
        <5>3. InNoDirectory(S0.inode, S0.vnode, p_cwd)
          BY <5>1, <5>2 DEF InNoDirectory, NoWay, StartIn, StartOf
        <5>. QED BY <4>2, <5>3 DEF Cause
      <4>4. ~Up(T) /\ StopsOK(S0, T)
        BY <3>1, <4>1, <4>2, <4>3, <4>5, PanicsStops
      <4>. QED BY <3>2, <4>4 DEF Found
    <3>4. CASE ~Up(E.S)
      <4>1. T = E.S
        BY <3>1, <3>4 DEF Panics, Up
      <4>. QED BY <1>7, <3>2, <3>4, <4>1 DEF Found
    <3>. QED BY <3>3, <3>4
  <2>. QED BY <2>1, <2>2
<1>9. /\ L.ret = "0" => M = Fails(vput(L.S, L.vn), "EEXIST")
      /\ L.ret = "ENOENT" => M = Make(L.S, D.vn, path.last, "chr")
      /\ L.ret # "0" /\ L.ret # "ENOENT" => M = L
  BY <1>4 DEF IfMissing, ramfs_mknod
<1>11. ASSUME Up(D.S) PROVE May(S0, D.S.vnode[D.vn].vn_vno, path.last)
  <2>1. CASE E.ret = "0"
    <3>1. D = E
      BY <1>2, <2>1 DEF Unchecked
    <3>2. path.last = NoName => Nameless
      BY DEF Nameless
    <3>. QED BY <1>7, <1>11, <2>1, <3>1, <3>2 DEF MayLook
  <2>2. CASE E.ret # "0"
    <3>1. PICK T : T = Panics(E.S, "dir")
      OBVIOUS
    <3>2. D.S = T
      BY <1>2, <2>2, <3>1 DEF Unchecked, Ok
    <3>3. CASE Up(E.S)
      <4>1. E.S \in StateT
        BY <1>7, <3>3 DEF Found, Calm, Good
      <4>2. T.panic = "dir"
        BY <3>1, <3>3, <4>1 DEF Panics, Up, StateT
      <4>. QED BY <1>11, <3>2, <4>2 DEF Up
    <3>4. CASE ~Up(E.S)
      BY <1>11, <3>1, <3>2, <3>4 DEF Panics, Up
    <3>. QED BY <3>3, <3>4
  <2>. QED BY <2>1, <2>2
<1>10. D.ret = "0" => ActsIn(S0, D, M)
  BY <1>3, <1>7, <1>8, <1>9, <1>11, MadeActs
<1>. QED BY <1>5, <1>6, <1>7, <1>8, <1>10, DirEnds

(* ramfs_lookup is lookup in a directory.  What another call gives has the  *)
(* same directory there.                                                    *)
LEMMA CalmSelf ==
  ASSUME NEW S0, NEW S, Calm(S0, S)
  PROVE  Calm(S, S)
<1>1. \A v \in VnodeT : Refs(S)[v] <= Refs(S)[v]
  BY CalmFacts
<1>. QED BY <1>1 DEF Calm, Quiet, SameEntries, SameEntry, SameSizes, Kept

(* A directory that is in use stays what it is while names are looked up.   *)
LEMMA SameDirectory ==
  ASSUME NEW S, NEW T, Calm(S, T), NEW d \in VnodeT, Refs(S)[d] > 0, S.vnode[d].vn_mode = "dir"
  PROVE  /\ T.vnode[d].vn_mode = "dir" /\ T.vnode[d].vn_vno = S.vnode[d].vn_vno
         /\ Mem(T, d) = Mem(S, d) /\ Refs(T)[d] > 0
<1>1. Good(S) /\ Kept(S.vnode, T.vnode) /\ Quiet(S, T) /\ Refs(S)[d] <= Refs(T)[d]
      /\ Refs(S)[d] \in Nat /\ Refs(T)[d] \in Nat
  BY CalmFacts DEF Calm
<1>2. S.vnode[d].vn_refcount > 0
  BY <1>1, RefsType
<1>3. T.vnode[d].vn_mode = "dir" /\ T.vnode[d].vn_vno = S.vnode[d].vn_vno
  BY <1>1, <1>2 DEF Kept
<1>4. PICK k \in Ino : k = S.vnode[d].vn_vno
  BY <1>1, InUseShows
<1>5. S.inode[k] # NoInode
  BY <1>1, <1>4, InUseShows
<1>6. T.inode[k].rf_mem = S.inode[k].rf_mem
  BY <1>1, <1>5 DEF Quiet, SameEntries, SameEntry
<1>. QED BY <1>1, <1>3, <1>4, <1>6 DEF Mem

(* In a directory, lookup is ramfs_lookup.                                  *)
LEMMA RamfsLookup ==
  ASSUME NEW S0, NEW S, Calm(S0, S), NEW d \in VnodeT, S.vnode[d].vn_mode = "dir", NEW n
  PROVE  ramfs_lookup(S, d, n) = lookup(S, d, n)
<1>1. S.panic = ""
  BY CalmFacts DEF Up
<1>2. d # NoVnode
  BY RamfsAssumption
<1>. QED BY <1>1, <1>2 DEF lookup

(* Once a name is found, it can be removed.                                 *)
LEMMA FoundUnlinked ==
  ASSUME NEW S0, NEW X, Calm(S0, X), NEW d \in VnodeT, Refs(X)[d] > 0, X.vnode[d].vn_mode = "dir",
         NEW n \in Name, NEW L, L = ramfs_lookup(X, d, n), L.ret = "0",
         NEW M, M = Unlinked(L, d, n)
  PROVE  Ends(S0, M.S, Refs(X)) /\ IsResult(M)
<1>1. L = lookup(X, d, n) /\ n \in LookupNames
  BY RamfsLookup DEF LookupNames
<1>2. Calm(X, X) /\ Refs(X) \in [VnodeT -> Nat]
  BY CalmSelf, CalmFacts
<1>3. Found(S0, L, Refs(X)) /\ (Up(L.S) => There(L, X, d, n))
  <2>1. May(S0, X.vnode[d].vn_vno, n)
    <3>1. n # DotDot /\ n # NoName
      BY RamfsAssumption
    <3>. QED BY <3>1, MayHere
  <2>. QED BY <1>1, <2>1, LookupFound
<1>4. Up(L.S) => Calm(X, L.S)
  BY <1>1, <1>2, LookupFound
<1>5. CASE ~Up(L.S)
  <2>1. M = Fails(L.S, "panic")
    BY <1>5 DEF Unlinked, Up
  <2>2. M.S = L.S
    BY <2>1 DEF Fails
  <2>. QED BY <1>3, <1>5, <2>1, <2>2, ResultIs DEF Found, Ends
<1>6. CASE Up(L.S)
  <2>1. Calm(S0, L.S) /\ Calm(X, L.S) /\ L.vn \in VnodeT /\ Refs(L.S) = Plus(Refs(X), L.vn)
    BY <1>3, <1>4, <1>6 DEF Found, Holding
  <2>2. Mem(X, d)[n] = L.S.vnode[L.vn].vn_vno
    BY <1>3, <1>6 DEF There
  <2>3. PICK Y : Y = L.S
    OBVIOUS
  <2>4. Y.vnode[d].vn_mode = "dir" /\ Mem(Y, d) = Mem(X, d) /\ Refs(Y)[d] > 0
    BY <2>1, <2>3, SameDirectory
  <2>. QED BY <1>2, <2>1, <2>2, <2>3, <2>4, UnlinkedEnds
<1>. QED BY <1>5, <1>6

(* What do_rmdir does in the directory.                                     *)
LEMMA RmdirActs ==
  ASSUME NEW S0, NEW D, NEW R \in [VnodeT -> Nat], Found(S0, D, R), D.ret = "0",
         NEW n \in Name \cup {NoName}, NEW M, M = ramfs_rmdir(D.S, D.vn, n),
         n = NoName => Nameless
  PROVE  ActsIn(S0, D, M)
<1>1. PICK X : X = D.S
  OBVIOUS
<1>2. PICK d : d = D.vn
  OBVIOUS
<1>3. PICK L : L = ramfs_lookup(X, d, n)
  OBVIOUS
<1>4. M = Removed(L, d, n)
  BY <1>1, <1>2, <1>3 DEF ramfs_rmdir
<1>5. CASE ~Up(X)
  <2>1. CASE n = NoName
    <3>1. L = Fails(Panics(X, "namelen"), "panic")
      BY <1>3, <2>1 DEF ramfs_lookup
    <3>2. Panics(X, "namelen") = X
      BY <1>5 DEF Panics, Up
    <3>3. M = L /\ L.S = X
      BY <1>4, <3>1, <3>2 DEF Removed, Fails
    <3>. QED BY <1>1, <1>5, <3>3 DEF ActsIn
  <2>2. CASE n # NoName /\ Mem(X, d)[n] = Nowhere
    <3>1. L = Fails(X, "ENOENT")
      BY <1>3, <2>2 DEF ramfs_lookup
    <3>2. M = L /\ L.S = X
      BY <1>4, <3>1 DEF Removed, Fails
    <3>. QED BY <1>1, <1>5, <3>2 DEF ActsIn
  <2>3. CASE n # NoName /\ Mem(X, d)[n] # Nowhere
    <3>1. vget(X, Mem(X, d)[n]) = X
      BY <1>5 DEF vget, Up
    <3>2. L.S = X
      BY <1>3, <2>3, <3>1 DEF ramfs_lookup, Got, Ok
    <3>3. M = L
      BY <1>4, <1>5, <3>2 DEF Removed, Up
    <3>. QED BY <1>1, <1>5, <3>2, <3>3 DEF ActsIn
  <2>. QED BY <2>1, <2>2, <2>3
<1>6. CASE Up(X)
  <2>1. Calm(S0, X) /\ d \in VnodeT /\ Refs(X)[d] > 0 /\ Refs(X) \in [VnodeT -> Nat]
    BY <1>1, <1>2, <1>6, FoundHolds, CalmFacts
  <2>2. CASE n = NoName
    <3>1. PICK T : T = Panics(X, "namelen")
      OBVIOUS
    <3>2. L = Fails(T, "panic")
      BY <1>3, <2>2, <3>1 DEF ramfs_lookup
    <3>3. M = L /\ L.S = T
      BY <1>4, <3>2 DEF Removed, Fails
    <3>4. PICK where \in Stops \ {""} : where = "namelen"
      BY DEF Stops
    <3>6. Cause(S0, p_cwd, p_files, lost, where)
      BY <2>2, <3>4 DEF Cause
    <3>5. ~Up(T) /\ StopsOK(S0, T)
      BY <2>1, <3>1, <3>4, <3>6, PanicsStops
    <3>. QED BY <1>1, <1>6, <3>3, <3>5 DEF ActsIn, Ends
  <2>3. CASE n # NoName /\ X.vnode[d].vn_mode # "dir"
    <3>1. PICK k \in Ino : k = X.vnode[d].vn_vno
      BY <2>1, CalmFacts, InUseShows
    <3>2. X.inode[k] # NoInode /\ X.inode[k].rf_mode # "dir"
      BY <2>1, <2>3, <3>1, CalmFacts, InUseShows
    <3>3. Mem(X, d) = NoMem
      <4>1. InodeOK(k, X.inode[k])
        BY <2>1, <3>2, CalmFacts DEF Good
      <4>. QED BY <3>1, <3>2, <4>1 DEF InodeOK, Mem
    <3>4. Mem(X, d)[n] = Nowhere
      BY <2>3, <3>3 DEF NoMem
    <3>5. L = Fails(X, "ENOENT")
      BY <1>3, <2>3, <3>4 DEF ramfs_lookup
    <3>6. M = L /\ L.S = X
      BY <1>4, <3>5 DEF Removed, Fails
    <3>. QED BY <1>1, <1>6, <2>1, <3>6, CalmEnds DEF ActsIn
  <2>4. CASE n # NoName /\ X.vnode[d].vn_mode = "dir"
    <3>0. n \in Name
      BY <2>4
    <3>1. L = lookup(X, d, n) /\ n \in LookupNames
      BY <1>3, <2>1, <2>4, RamfsLookup DEF LookupNames
    <3>2. Found(S0, L, Refs(X))
      <4>1. n # DotDot /\ n # NoName
        BY <3>0, RamfsAssumption
      <4>2. May(S0, X.vnode[d].vn_vno, n)
        BY <2>1, <2>4, <4>1, MayHere
      <4>. QED BY <2>1, <3>1, <4>2, LookupFound
    <3>3. CASE L.ret # "0" \/ L.S.panic # ""
      <4>1. M = L
        BY <1>4, <3>3 DEF Removed
      <4>2. L.ret # "0" \/ ~Up(L.S)
        BY <3>3 DEF Up
      <4>. QED BY <1>1, <1>6, <2>1, <3>2, <4>1, <4>2, FoundEnds DEF ActsIn
    <3>4. CASE L.ret = "0" /\ L.S.panic = "" /\ RmdirRefuses(L) # ""
      <4>1. M.S = vput(L.S, L.vn)
        <5>1. PICK T : T = vput(L.S, L.vn)
          OBVIOUS
        <5>2. PICK errno : errno = RmdirRefuses(L)
          OBVIOUS
        <5>3. M = Fails(T, errno)
          BY <1>4, <3>4, <5>1, <5>2 DEF Removed
        <5>. QED BY <5>1, <5>3 DEF Fails
      <4>. QED BY <1>1, <1>6, <2>1, <3>2, <3>4, <4>1, FoundEnds DEF ActsIn
    <3>5. CASE L.ret = "0" /\ L.S.panic = "" /\ RmdirRefuses(L) = ""
      <4>1. M = Unlinked(L, d, n)
        BY <1>4, <3>5 DEF Removed
      <4>2. Ends(S0, M.S, Refs(X))
        BY <1>3, <2>1, <2>4, <3>0, <3>5, <4>1, FoundUnlinked
      <4>. QED BY <1>1, <1>6, <4>2 DEF ActsIn
    <3>. QED BY <3>3, <3>4, <3>5
  <2>. QED BY <2>2, <2>3, <2>4
<1>. QED BY <1>5, <1>6

(* do_rmdir                                                                 *)
LEMMA RmdirEnds ==
  ASSUME NEW p, NEW path \in With("rmdir"), do_rmdir(p, path), Begins(Now, p_cwd[p], path)
  PROVE  \E T : Returns(T) /\ Ends(Now, T, Refs(Now))
<1>1. PICK D : D = dir_namev(Now, p_cwd[p], path)
  OBVIOUS
<1>2. PICK M : M = IF path.last \in {Dot, DotDot} THEN Fails(D.S, "EINVAL, ENOTEMPTY")
                   ELSE ramfs_rmdir(D.S, D.vn, path.last)
  OBVIOUS
<1>3. Returns(DirLeft(D, M))
  BY <1>1, <1>2 DEF do_rmdir, InDirectory, DirLeft
<1>4. PICK S0 : S0 = Now
  OBVIOUS
<1>5. Found(S0, D, Refs(S0)) /\ Refs(S0) \in [VnodeT -> Nat] /\ path.last \in LookupNames
  BY <1>1, <1>4, BeginsFound
<1>6. CASE path.last \in {Dot, DotDot}
  <2>1. M.S = D.S
    BY <1>2, <1>6 DEF Fails
  <2>2. D.ret = "0" => ActsIn(S0, D, M)
    BY <1>5, <2>1, FoundHolds, CalmEnds DEF ActsIn
  <2>. QED BY <1>3, <1>4, <1>5, <2>2, DirEnds
<1>7. CASE path.last \notin {Dot, DotDot}
  <2>1. PICK n \in Name \cup {NoName} : n = path.last
    BY <1>5, <1>7 DEF LookupNames
  <2>2. M = ramfs_rmdir(D.S, D.vn, n)
    BY <1>2, <1>7, <2>1
  <2>3. D.ret = "0" => ActsIn(S0, D, M)
    <3>1. n = NoName => Nameless
      BY <2>1 DEF Nameless
    <3>. QED BY <1>5, <2>2, <3>1, RmdirActs
  <2>. QED BY <1>3, <1>4, <1>5, <2>3, DirEnds
<1>. QED BY <1>6, <1>7

(* What do_unlink does in the directory.                                    *)
LEMMA UnlinkActs ==
  ASSUME NEW S0, NEW D, NEW R \in [VnodeT -> Nat], Found(S0, D, R), D.ret = "0",
         NEW n \in LookupNames, n # DotDot, NEW L, L = lookup(D.S, D.vn, n),
         NEW M, M = UnlinkFound(L, D.vn, n), Up(D.S) => May(S0, D.S.vnode[D.vn].vn_vno, n)
  PROVE  ActsIn(S0, D, M)
<1>1. PICK X : X = D.S
  OBVIOUS
<1>2. PICK d : d = D.vn
  OBVIOUS
<1>3. CASE ~Up(X)
  <2>1. L = Fails(X, "panic")
    BY <1>1, <1>3, StaysDown
  <2>2. M = L /\ L.S = X
    BY <2>1 DEF UnlinkFound, Failed, Fails
  <2>. QED BY <1>1, <1>3, <2>2 DEF ActsIn
<1>4. CASE Up(X)
  <2>1. Calm(S0, X) /\ d \in VnodeT /\ Refs(X)[d] > 0 /\ Refs(X) \in [VnodeT -> Nat] /\ Calm(X, X)
    BY <1>1, <1>2, <1>4, FoundHolds, CalmFacts, CalmSelf
  <2>2. /\ Found(S0, L, Refs(X)) /\ (Up(L.S) => Calm(X, L.S))
        /\ Up(L.S) /\ L.ret = "0" => There(L, X, d, n)
    BY <1>1, <1>2, <1>4, <2>1, LookupFound
  <2>3. CASE Failed(L)
    <3>1. M = L
      BY <2>3 DEF UnlinkFound
    <3>2. L.ret # "0" \/ ~Up(L.S)
      BY <2>3 DEF Failed, Up
    <3>. QED BY <1>1, <1>4, <2>1, <2>2, <3>1, <3>2, FoundEnds DEF ActsIn
  <2>4. CASE ~Failed(L) /\ IsDir(L)
    <3>1. M.S = vput(L.S, L.vn)
      BY <2>4 DEF UnlinkFound, Fails
    <3>. QED BY <1>1, <1>4, <2>1, <2>2, <2>4, <3>1, FoundEnds DEF ActsIn, Failed
  <2>5. CASE ~Failed(L) /\ ~IsDir(L)
    <3>1. PICK Y : Y = L.S
      OBVIOUS
    <3>2. PICK v : v = L.vn
      OBVIOUS
    <3>3. L.ret = "0" /\ Up(Y)
      BY <2>5, <3>1 DEF Failed, Up
    <3>4. Calm(S0, Y) /\ Calm(X, Y) /\ v \in VnodeT /\ Refs(Y) = Plus(Refs(X), v) /\ There(L, X, d, n)
      BY <2>2, <3>1, <3>2, <3>3 DEF Found, Holding
    <3>5. /\ X.vnode[d].vn_mode = "dir" /\ n \in Name \cup {Dot, DotDot}
          /\ Mem(X, d)[n] \in Ino /\ Y.vnode[v].vn_vno = Mem(X, d)[n]
      BY <3>1, <3>2, <3>4 DEF There
    <3>6. /\ Y.vnode[d].vn_mode = "dir" /\ Y.vnode[d].vn_vno = X.vnode[d].vn_vno
          /\ Mem(Y, d) = Mem(X, d) /\ Refs(Y)[d] > 0
      BY <2>1, <3>4, <3>5, SameDirectory
    <3>7. n # Dot
      <4>1. SUFFICES ASSUME n = Dot PROVE FALSE
        OBVIOUS
      <4>2. PICK k \in Ino : k = X.vnode[d].vn_vno
        BY <2>1, CalmFacts, InUseShows
      <4>3. k \in DirsIn(X.inode) /\ InodeOK(k, X.inode[k]) /\ X.inode[k].rf_mode = "dir"
        BY <2>1, <3>5, <4>2, CalmFacts, InUseShows DEF Good, DirsIn
      <4>4. Mem(X, d)[n] = k
        BY <4>1, <4>2, <4>3 DEF InodeOK, Mem
      <4>5. Y.vnode[v].vn_vno = Y.vnode[d].vn_vno
        BY <3>5, <3>6, <4>2, <4>4
      <4>6. Refs(Y)[v] > 0
        <5>1. Plus(Refs(X), v)[v] = Refs(X)[v] + 1 /\ Refs(X)[v] \in Nat
          BY <2>1, <3>4, PlusIs
        <5>2. Plus(Refs(X), v)[v] > 0
          BY <5>1
        <5>. QED BY <3>4, <5>2
      <4>7. v = d
        <5>1. Good(Y)
          BY <3>4, CalmFacts
        <5>2. Y.vnode[v].vn_refcount > 0 /\ Y.vnode[d].vn_refcount > 0
          BY <2>1, <3>4, <3>6, <4>6, <5>1, RefsType
        <5>. QED BY <2>1, <3>4, <4>5, <5>1, <5>2 DEF Good, OneVnode
      <4>. QED BY <2>5, <3>1, <3>2, <3>6, <4>7 DEF IsDir
    <3>8. n \in Name
      BY <3>5, <3>7
    <3>9. PICK U : U = ramfs_unlink(Y, d, n)
      OBVIOUS
    <3>10. PICK L2 : L2 = ramfs_lookup(Y, d, n)
      OBVIOUS
    <3>11. U = Unlinked(L2, d, n)
      BY <3>9, <3>10 DEF ramfs_unlink
    <3>12. L2 = lookup(Y, d, n)
      BY <2>1, <3>4, <3>6, <3>10, RamfsLookup
    <3>13. /\ Found(S0, L2, Refs(Y))
           /\ Up(L2.S) => IF L2.ret = "0" THEN There(L2, Y, d, n) ELSE Missing(L2, Y, d, n)
      <4>1. n \in LookupNames /\ n # DotDot /\ n # NoName
        BY <3>8, RamfsAssumption DEF LookupNames
      <4>2. May(S0, Y.vnode[d].vn_vno, n)
        BY <2>1, <3>4, <3>6, <4>1, MayHere
      <4>. QED BY <2>1, <3>4, <3>6, <3>12, <4>1, <4>2, LookupFound
    <3>14. M = Put(U, v)
      BY <1>2, <2>5, <3>1, <3>2, <3>9 DEF UnlinkFound
    <3>15. Ends(S0, U.S, Refs(Y)) /\ IsResult(U)
      <4>1. CASE ~Up(L2.S)
        <5>1. U = Fails(L2.S, "panic")
          BY <3>11, <4>1 DEF Unlinked, Up
        <5>2. U.S = L2.S
          BY <5>1 DEF Fails
        <5>. QED BY <3>13, <4>1, <5>1, <5>2, ResultIs DEF Found, Ends
      <4>2. CASE Up(L2.S)
        <5>1. L2.ret = "0"
          BY <3>5, <3>6, <3>13, <4>2, InoFacts DEF Missing
        <5>. QED BY <2>1, <3>4, <3>6, <3>8, <3>10, <3>11, <5>1, FoundUnlinked
      <4>. QED BY <4>1, <4>2
    <3>16. M.S = vput(U.S, v)
      BY <3>14, <3>15 DEF Put, IsResult
    <3>17. Ends(S0, U.S, Plus(Refs(X), v))
      BY <3>4, <3>15
    <3>18. Ends(S0, M.S, Refs(X))
      BY <2>1, <3>4, <3>16, <3>17, EndsPut
    <3>. QED BY <1>1, <1>4, <3>18 DEF ActsIn
  <2>. QED BY <2>3, <2>4, <2>5
<1>. QED BY <1>3, <1>4

(* do_unlink                                                                *)
LEMMA UnlinkEnds ==
  ASSUME NEW p, NEW path \in With("unlink"), do_unlink(p, path), Begins(Now, p_cwd[p], path), path.last # DotDot
  PROVE  \E T : Returns(T) /\ Ends(Now, T, Refs(Now))
<1>1. PICK D : D = dir_namev(Now, p_cwd[p], path)
  OBVIOUS
<1>2. PICK L : L = lookup(D.S, D.vn, path.last)
  OBVIOUS
<1>3. PICK M : M = UnlinkFound(L, D.vn, path.last)
  OBVIOUS
<1>4. Returns(DirLeft(D, M))
  BY <1>1, <1>2, <1>3 DEF do_unlink, InDirectory, DirLeft
<1>5. PICK S0 : S0 = Now
  OBVIOUS
<1>6. /\ Found(S0, D, Refs(S0)) /\ Refs(S0) \in [VnodeT -> Nat] /\ path.last \in LookupNames
      /\ Up(D.S) /\ D.ret = "0" => MayLook(S0, D, path)
  BY <1>1, <1>5, BeginsFound
<1>7. D.ret = "0" => ActsIn(S0, D, M)
  <2>1. path.last = NoName => Nameless
    BY DEF Nameless
  <2>2. D.ret = "0" /\ Up(D.S) => May(S0, D.S.vnode[D.vn].vn_vno, path.last)
    BY <1>6, <2>1 DEF MayLook
  <2>. QED BY <1>2, <1>3, <1>6, <2>2, UnlinkActs
<1>. QED BY <1>4, <1>5, <1>6, <1>7, DirEnds

(* The vnode that do_link is given names no directory, if it makes no lookup*)
(* between (vfs_syscall.c).                                                 *)
LEMMA NoDirectory ==
  ASSUME NEW S0, NEW S, NEW X, NEW Y, Calm(S0, S), Calm(S0, X), Calm(S0, Y), NEW old \in VnodeT,
         Refs(S)[old] > 0, S.vnode[old].vn_mode # "dir",
         SameIds(S.vnode, X.vnode), SameIds(X.vnode, Y.vnode)
  PROVE  Y.inode[Y.vnode[old].vn_vno].rf_mode # "dir"
<1>1. PICK i \in Ino : i = S.vnode[old].vn_vno
  BY CalmFacts, InUseShows
<1>2. S.inode[i] # NoInode /\ S.inode[i].rf_mode # "dir"
  BY <1>1, CalmFacts, InUseShows
<1>3. Y.vnode[old].vn_vno = i
  BY <1>1 DEF SameIds
<1>4. SameEntry(S0.inode[i], S.inode[i]) /\ SameEntry(S0.inode[i], Y.inode[i])
  BY DEF Calm, Quiet, SameEntries
<1>. QED BY <1>2, <1>3, <1>4 DEF SameEntry

(* What do_link does in the directory, with an old vnode that was put       *)
(* before.                                                                  *)
LEMMA LinkActs ==
  ASSUME NEW S0, NEW D, NEW R \in [VnodeT -> Nat], Found(S0, D, R), D.ret = "0",
         NEW n \in LookupNames, NEW L, L = lookup(D.S, D.vn, n), NEW old \in VnodeT,
         LinksInPlace /\ Up(D.S) => D.S.inode[D.S.vnode[old].vn_vno].rf_mode # "dir",
         NEW M, Up(D.S) => May(S0, D.S.vnode[D.vn].vn_vno, n),
         L.ret = "0" => M = Fails(vput(L.S, L.vn), "EEXIST"),
         L.ret = "ENOENT" => M = ramfs_link(L.S, old, D.vn, n),
         L.ret # "0" /\ L.ret # "ENOENT" => M = L
  PROVE  ActsIn(S0, D, M)
<1>1. ASSUME L.ret = "ENOENT", Up(D.S), MakesIn(D.S, D.vn, n) PROVE Ends(S0, M.S, Refs(D.S))
  <2>1. Calm(S0, D.S)
    BY <1>1, FoundHolds
  <2>2. M = ramfs_link(D.S, old, D.vn, n)
    BY <1>1, LookupParts
  <2>3. PICK X : X = D.S
    OBVIOUS
  <2>. QED BY <1>1, <2>1, <2>2, <2>3, LinkEnds
<1>. QED BY <1>1, IfMissingActs

(* do_link from where the old vnode was put.                                *)
LEMMA LinkToEnds ==
  ASSUME NEW S0, NEW X, Calm(S0, X), RootShown(S0), NEW p, p_cwd[p] \in VnodeT,
         Refs(S0)[p_cwd[p]] > 0, Refs(X)[p_cwd[p]] > 0, NEW to, GivenPath(S0, p_cwd[p], to),
         to.last = NoName => Nameless, NEW old \in VnodeT, LinkTo(p, to, old, X),
         NEW S, Calm(S0, S), Refs(S)[old] > 0, S.vnode[old].vn_mode # "dir",
         SameIds(S.vnode, X.vnode), LinksInPlace => to.dirs = <<>>
  PROVE  \E T : Returns(T) /\ Ends(S0, T, Refs(X))
<1>1. PICK D : D = dir_namev(X, p_cwd[p], to)
  OBVIOUS
<1>2. PICK L : L = lookup(D.S, D.vn, to.last)
  OBVIOUS
<1>3. PICK M : M = IF L.ret = "0" THEN Fails(vput(L.S, L.vn), "EEXIST")
                   ELSE IF L.ret = "ENOENT" THEN ramfs_link(L.S, old, D.vn, to.last) ELSE L
  OBVIOUS
<1>4. Returns(DirLeft(D, M))
  BY <1>1, <1>2, <1>3 DEF LinkTo, InDirectory, IfMissing, DirLeft
<1>5. PICK cwd \in VnodeT : cwd = p_cwd[p]
  OBVIOUS
<1>6. /\ Found(S0, D, Refs(X))
      /\ Up(D.S) /\ D.ret = "0" => MayLook(S0, D, to)
      /\ to.dirs = <<>> => Up(D.S) /\ D.ret = "0" /\ SameIds(X.vnode, D.S.vnode)
  BY <1>1, <1>5, DirNamevFound
<1>7. Refs(X) \in [VnodeT -> Nat] /\ to.last \in LookupNames
  BY CalmFacts DEF GivenPath, Path, LookupNames
<1>8. ASSUME LinksInPlace, Up(D.S) PROVE D.S.inode[D.S.vnode[old].vn_vno].rf_mode # "dir"
  <2>1. PICK Y : Y = D.S
    OBVIOUS
  <2>2. Calm(S0, Y) /\ SameIds(X.vnode, Y.vnode)
    BY <1>6, <1>8, <2>1 DEF Found
  <2>. QED BY <2>1, <2>2, NoDirectory
<1>9. PICK R : R = Refs(X)
  OBVIOUS
<1>10. D.ret = "0" => ActsIn(S0, D, M)
  <2>1. D.ret = "0" /\ Up(D.S) => May(S0, D.S.vnode[D.vn].vn_vno, to.last)
    BY <1>6 DEF MayLook
  <2>. QED BY <1>2, <1>3, <1>6, <1>7, <1>8, <1>9, <2>1, LinkActs
<1>. QED BY <1>4, <1>6, <1>7, <1>9, <1>10, DirEnds

(* do_link                                                                  *)
LEMMA DoLinkEnds ==
  ASSUME NEW p, NEW from, NEW to, do_link(p, from, to), Begins(Now, p_cwd[p], from),
         Begins(Now, p_cwd[p], to), to.last = NoName => Nameless,
         LinksInPlace => to.dirs = <<>>
  PROVE  \E T : Returns(T) /\ Ends(Now, T, Refs(Now))
<1>1. PICK O : O = open_namev(Now, p_cwd[p], from, FALSE)
  OBVIOUS
<1>2. LinkFrom(p, to, O)
  BY <1>1 DEF do_link
<1>3. PICK S0 : S0 = Now
  OBVIOUS
<1>4. PICK cwd \in VnodeT : cwd = p_cwd[p]
  BY DEF Begins
<1>5. /\ Calm(S0, S0) /\ RootShown(S0) /\ Refs(S0)[cwd] > 0
      /\ GivenPath(S0, cwd, from) /\ GivenPath(S0, cwd, to)
  BY <1>3, <1>4 DEF Begins
<1>6. PICK R : R = Refs(S0)
  OBVIOUS
<1>7. R \in [VnodeT -> Nat] /\ \A w \in VnodeT : Refs(S0)[w] <= R[w]
  BY <1>5, <1>6, CalmFacts
<1>8. Found(S0, O, R)
  <2>1. PICK creat \in BOOLEAN : creat = FALSE
    OBVIOUS
  <2>. QED BY <1>1, <1>3, <1>4, <1>5, <1>6, <2>1, OpenNamevOpened
<1>9. CASE Failed(O)
  <2>1. Returns(O.S)
    BY <1>2, <1>9 DEF LinkFrom
  <2>2. O.ret # "0" \/ ~Up(O.S)
    BY <1>9 DEF Failed, Up
  <2>. QED BY <1>3, <1>6, <1>7, <1>8, <2>1, <2>2, FoundEnds
<1>10. CASE ~Failed(O) /\ IsDir(O)
  <2>1. Returns(vput(O.S, O.vn))
    BY <1>2, <1>10 DEF LinkFrom
  <2>. QED BY <1>3, <1>6, <1>7, <1>8, <1>10, <2>1, FoundEnds DEF Failed
<1>11. CASE ~Failed(O) /\ ~IsDir(O)
  <2>1. PICK S : S = O.S
    OBVIOUS
  <2>2. PICK old : old = O.vn
    OBVIOUS
  <2>3. PICK X : X = vput(S, old)
    OBVIOUS
  <2>4. LinkTo(p, to, old, X)
    BY <1>2, <1>11, <2>1, <2>2, <2>3 DEF LinkFrom
  <2>5. Up(S) /\ O.ret = "0"
    BY <1>11, <2>1 DEF Failed, Up
  <2>6. Calm(S0, S) /\ old \in VnodeT /\ Refs(S) = Plus(R, old) /\ Refs(S)[old] > 0
    BY <1>7, <1>8, <2>1, <2>2, <2>5, FoundHolds
  <2>7. Calm(S0, X) /\ Refs(X) = R /\ SameIds(S.vnode, X.vnode)
    BY <1>7, <2>3, <2>6, FoundPut
  <2>8. S.vnode[old].vn_mode # "dir"
    BY <1>11, <2>1, <2>2 DEF IsDir
  <2>9. /\ p_cwd[p] \in VnodeT /\ Refs(X)[p_cwd[p]] > 0 /\ Refs(S0)[p_cwd[p]] > 0
        /\ GivenPath(S0, p_cwd[p], to)
    BY <1>4, <1>5, <1>6, <2>7
  <2>10. \E T : Returns(T) /\ Ends(S0, T, Refs(X))
    BY <1>5, <2>4, <2>6, <2>7, <2>8, <2>9, LinkToEnds
  <2>. QED BY <1>3, <1>6, <2>7, <2>10
<1>. QED BY <1>9, <1>10, <1>11
-----------------------------------------------------------------------------
(* Between calls.  The free list of Now is a list of the unused vnodes.     *)
LEMMA SetToSeqFacts ==
  ASSUME NEW X, IsFiniteSet(X), NEW s, s = SetToSeq(X)
  PROVE  /\ s \in Seq(X)
         /\ \A j, k \in 1 .. Len(s) : s[j] = s[k] => j = k
         /\ \A x \in X : \E k \in 1 .. Len(s) : s[k] = x
<1>1. PICK n \in Nat : n = Cardinality(X)
  BY FS_CardinalityType
<1>2. ExistsBijection(1 .. n, X)
  BY <1>1, FS_CardinalityType
<1>3. PICK f \in [1 .. n -> X] : IsInjective(f)
  BY <1>2 DEF ExistsBijection, Bijection, Injection
<1>4. s \in [1 .. n -> X] /\ IsInjective(s)
  BY <1>1, <1>3 DEF SetToSeq
<1>5. s \in Seq(X) /\ Len(s) = n
  BY <1>4
<1>6. s \in Injection(1 .. n, X)
  BY <1>4 DEF Injection
<1>7. IsFiniteSet(1 .. n) /\ Cardinality(1 .. n) = n
  BY FS_Interval
<1>8. s \in Surjection(1 .. n, X)
  BY <1>1, <1>6, <1>7, FS_Injection
<1>9. \A j, k \in 1 .. Len(s) : s[j] = s[k] => j = k
  BY <1>4, <1>5 DEF IsInjective
<1>10. \A x \in X : \E k \in 1 .. Len(s) : s[k] = x
  BY <1>5, <1>8 DEF Surjection
<1>. QED BY <1>5, <1>9, <1>10

(* The free list between calls holds each vnode that is not in use, once.   *)
LEMMA FreeVnodes ==
  ASSUME NEW vn \in [VnodeT -> VnodeRec], NEW free,
         free = SetToSeq({v \in VnodeT : vn[v].vn_refcount = 0})
  PROVE  free \in Seq(VnodeT) /\ FreeOK(vn, free)
<1>1. PICK X : X = {v \in VnodeT : vn[v].vn_refcount = 0}
  OBVIOUS
<1>2. X \in SUBSET VnodeT /\ IsFiniteSet(X)
  BY <1>1, RamfsAssumption, FS_Subset
<1>3. /\ free \in Seq(X)
      /\ \A j, k \in 1 .. Len(free) : free[j] = free[k] => j = k
      /\ \A x \in X : \E k \in 1 .. Len(free) : free[k] = x
  <2>1. free = SetToSeq(X)
    BY <1>1
  <2>. QED BY ONLY <1>2, <2>1, SetToSeqFacts
<1>4. free \in Seq(VnodeT)
  BY <1>2, <1>3
<1>5. \A k \in 1 .. Len(free) : free[k] \in X
  BY <1>3
<1>6. \A v \in VnodeT : vn[v].vn_refcount = 0 <=> \E k \in 1 .. Len(free) : free[k] = v
  BY ONLY <1>1, <1>3, <1>5
<1>. QED BY <1>3, <1>4, <1>6 DEF FreeOK

(* What a vnode that is not in use holds does not matter.                   *)
Blank(vn) == [v \in VnodeT |-> IF vn[v].vn_refcount = 0 THEN Unused ELSE vn[v]]

(* Blanking what is not in use changes no vnode in use.                     *)
LEMMA BlankVnodes ==
  ASSUME NEW vn \in [VnodeT -> VnodeRec], NEW vn2, vn2 = Blank(vn)
  PROVE  /\ vn2 \in [VnodeT -> VnodeRec]
         /\ \A v \in VnodeT : vn[v].vn_refcount > 0 => vn2[v] = vn[v]
         /\ \A v \in VnodeT : vn2[v].vn_refcount = vn[v].vn_refcount
         /\ \A v \in VnodeT : vn2[v].vn_refcount = 0 => vn2[v] = Unused
<1>1. Unused \in VnodeRec /\ Unused.vn_refcount = 0
  BY InoFacts, RamfsAssumption DEF Unused, VnodeRec
<1>2. ASSUME NEW v \in VnodeT
      PROVE  /\ vn2[v] \in VnodeRec /\ vn2[v].vn_refcount = vn[v].vn_refcount
             /\ vn[v].vn_refcount > 0 => vn2[v] = vn[v]
             /\ vn2[v].vn_refcount = 0 => vn2[v] = Unused
  <2>1. vn2[v] = IF vn[v].vn_refcount = 0 THEN Unused ELSE vn[v]
    BY DEF Blank
  <2>2. vn[v] \in VnodeRec /\ vn[v].vn_refcount \in Nat
    BY DEF VnodeRec
  <2>3. CASE vn[v].vn_refcount = 0
    BY <1>1, <2>1, <2>2, <2>3
  <2>4. CASE vn[v].vn_refcount # 0
    BY <2>1, <2>2, <2>4
  <2>. QED BY <2>3, <2>4
<1>3. vn2 \in [VnodeT -> VnodeRec]
  BY <1>2 DEF Blank
<1>. QED BY <1>2, <1>3

(* Nor what fits.                                                           *)
LEMMA BlankGood ==
  ASSUME NEW T, Good(T), NEW vn, vn = Blank(T.vnode), NEW U \in StateT, U.vnode = vn,
         U.inode = T.inode, U.stranded = T.stranded, FreeOK(vn, U.free)
  PROVE  Good(U) /\ Refs(U) = Refs(T)
<1>0. /\ T \in StateT /\ OneVnode(T.vnode) /\ AllShow(T.vnode, T.inode)
      /\ \A j \in Ino : LinksExact(T.inode, T.vnode, T.stranded, j)
      /\ InodesOK(T.inode) /\ RootOK(T.inode)
      /\ LinksInPlace => Tree(T.inode)
  BY GoodParts
<1>1. T.vnode \in [VnodeT -> VnodeRec]
  BY <1>0, StateParts
<1>2. /\ vn \in [VnodeT -> VnodeRec]
      /\ \A v \in VnodeT : T.vnode[v].vn_refcount > 0 => vn[v] = T.vnode[v]
      /\ \A v \in VnodeT : vn[v].vn_refcount = T.vnode[v].vn_refcount
  BY <1>1, BlankVnodes
<1>3. \A i : Uses(vn, i) = Uses(T.vnode, i)
  <2>1. \A i : Shown(vn, i) <=> Shown(T.vnode, i)
    BY <1>2 DEF Shown
  <2>. QED BY <2>1 DEF Uses
<1>4. OneVnode(vn)
  BY <1>0, <1>2 DEF OneVnode
<1>5. AllShow(vn, T.inode)
  <2> SUFFICES ASSUME NEW v \in VnodeT, vn[v].vn_refcount > 0 PROVE ShowsInode(vn, T.inode, v)
    BY DEF AllShow, ShowsInode
  <2>1. vn[v] = T.vnode[v] /\ ShowsInode(T.vnode, T.inode, v)
    BY <1>0, <1>2 DEF AllShow
  <2>. QED BY <2>1 DEF ShowsInode
<1>6. \A j \in Ino : LinksExact(U.inode, U.vnode, U.stranded, j)
  BY <1>0, <1>3 DEF LinksExact
<1>7. Refs(U) = Refs(T)
  BY <1>2 DEF Refs
<1>. QED BY <1>0, <1>4, <1>5, <1>6, <1>7, GoodParts

(* Of finitely many things, how many have the value v, when one changes     *)
If1(a, b) == IF a = b THEN 1 ELSE 0
HowMany(X, g, v) == Cardinality({x \in X : g[x] = v})

(* How many have a value, when one of them moves to another value.          *)
LEMMA HowManyMoves ==
  ASSUME NEW X, IsFiniteSet(X), NEW g, NEW h, NEW x \in X, \A y \in X : y # x => h[y] = g[y],
         NEW v
  PROVE  /\ HowMany(X, g, v) \in Nat /\ HowMany(X, h, v) \in Nat
         /\ HowMany(X, h, v) + If1(g[x], v) = HowMany(X, g, v) + If1(h[x], v)
         /\ HowMany(X, g, v) >= If1(g[x], v)
<1>1. PICK A : A = {y \in X : y # x /\ g[y] = v}
  OBVIOUS
<1>2. IsFiniteSet(A) /\ x \notin A /\ Cardinality(A) \in Nat
  BY <1>1, FS_Subset, FS_CardinalityType
<1>3. Cardinality(A \cup {x}) = Cardinality(A) + 1
  BY <1>2, FS_AddElement
<1>4. HowMany(X, g, v) = Cardinality(A) + If1(g[x], v)
  <2>1. CASE g[x] = v
    <3>1. {y \in X : g[y] = v} = A \cup {x}
      BY <1>1, <2>1
    <3>. QED BY <1>3, <2>1, <3>1 DEF HowMany, If1
  <2>2. CASE g[x] # v
    <3>1. {y \in X : g[y] = v} = A
      BY <1>1, <2>2
    <3>2. HowMany(X, g, v) = Cardinality(A) /\ If1(g[x], v) = 0
      BY <2>2, <3>1 DEF HowMany, If1
    <3>. QED BY <1>2, <3>2
  <2>. QED BY <2>1, <2>2
<1>5. HowMany(X, h, v) = Cardinality(A) + If1(h[x], v)
  <2>1. CASE h[x] = v
    <3>1. {y \in X : h[y] = v} = A \cup {x}
      BY <1>1, <2>1
    <3>. QED BY <1>3, <2>1, <3>1 DEF HowMany, If1
  <2>2. CASE h[x] # v
    <3>1. {y \in X : h[y] = v} = A
      BY <1>1, <2>2
    <3>2. HowMany(X, h, v) = Cardinality(A) /\ If1(h[x], v) = 0
      BY <2>2, <3>1 DEF HowMany, If1
    <3>. QED BY <1>2, <3>2
  <2>. QED BY <2>1, <2>2
<1>6. If1(g[x], v) \in {0, 1} /\ If1(h[x], v) \in {0, 1}
  BY DEF If1
<1>. QED BY ONLY <1>2, <1>4, <1>5, <1>6
-----------------------------------------------------------------------------
(* The counts of a state of the file system against descriptors, working    *)
(* directories and lost references                                          *)
FilesOK(fl) ==
  \A f \in FileT : /\ (fl[f].f_refcount = 0) <=> (fl[f] = NoFileT)
                   /\ fl[f].f_refcount > 0 => fl[f].f_vnode \in VnodeT
Stays(vn, vn2) ==
  \A v \in VnodeT : vn[v].vn_refcount > 0 =>
    vn2[v].vn_vno = vn[v].vn_vno /\ vn2[v].vn_mode = vn[v].vn_mode
FileStays(fl, fl2) ==
  \A f \in FileT : fl[f].f_refcount > 0 /\ fl2[f].f_refcount > 0 => fl2[f].f_vnode = fl[f].f_vnode
FdsT == [Proc -> [Fd -> FileT \cup {NoFile}]]
CwdT == [Proc -> VnodeT \cup {NoVnode}]
LostT == [FileT -> 0 .. MaxLost]

Sums(S0, S, fds, cwd, gone) ==
  /\ Good(S) /\ Up(S) /\ FilesOK(S.file)
  /\ Stays(S0.vnode, S.vnode) /\ FileStays(S0.file, S.file)
  /\ fds \in FdsT /\ cwd \in CwdT /\ gone \in LostT
  /\ \A v \in VnodeT : Refs(S)[v] = Holders(S.file, cwd, VnodeOf(S0, 0), v)
  /\ \A f \in FileT : S.file[f].f_refcount = Slots(fds, f) + gone[f]
  /\ Kinds(S.vnode, S.file, cwd)
NobodyElse(fds, cwd) == \A p \in Proc : cwd[p] = NoVnode => \A fd \in Fd : fds[p][fd] = NoFile

Outcome(S0, S, fds, cwd, gone) ==
  StopsOK(S0, S) /\ (Up(S) => Sums(S0, S, fds, cwd, gone) /\ NobodyElse(fds, cwd))

VnodesOf(fl) == [f \in FileT |-> fl[f].f_vnode]
SlotsOf(fds) == [x \in Proc \X Fd |-> fds[x[1]][x[2]]]

(* Descriptors, processes and files are finitely many.                      *)
LEMMA SlotsFinite ==
  /\ IsFiniteSet(Proc \X Fd) /\ IsFiniteSet(Proc) /\ IsFiniteSet(FileT)
  /\ 0 \in Fd /\ NoFile \notin FileT /\ NoVnode \notin VnodeT /\ NFILES \in Nat
<1>1. IsFiniteSet(Fd) /\ NFILES \in Nat /\ 0 \in Fd
  BY FileTableAssumption, FS_Interval DEF Fd
<1>. QED BY <1>1, FileTableAssumption, RamfsAssumption, FS_Product

(* The holders of a vnode, by kind.                                         *)
LEMMA HoldersIs ==
  ASSUME NEW fl, NEW cwd, NEW root, NEW v
  PROVE  Holders(fl, cwd, root, v) = HowMany(FileT, VnodesOf(fl), v) + HowMany(Proc, cwd, v) + If1(v, root)
<1>1. {f \in FileT : VnodesOf(fl)[f] = v} = {f \in FileT : fl[f].f_vnode = v}
  BY DEF VnodesOf
<1>. QED BY <1>1 DEF Holders, HowMany, If1

(* The descriptors that hold a file.                                        *)
LEMMA SlotsIs ==
  ASSUME NEW fds, NEW f
  PROVE  Slots(fds, f) = HowMany(Proc \X Fd, SlotsOf(fds), f)
<1>1. {x \in Proc \X Fd : SlotsOf(fds)[x] = f} = {x \in Proc \X Fd : fds[x[1]][x[2]] = f}
  BY DEF SlotsOf
<1>. QED BY <1>1 DEF Slots, HowMany

(* How many is a number, not 0 when there is one.                           *)
LEMMA HowManyNat ==
  ASSUME NEW X, IsFiniteSet(X), NEW g, NEW v
  PROVE  HowMany(X, g, v) \in Nat /\ \A x \in X : g[x] = v => HowMany(X, g, v) > 0
<1>1. IsFiniteSet({x \in X : g[x] = v})
  BY FS_Subset
<1>2. HowMany(X, g, v) \in Nat
  BY <1>1, FS_CardinalityType DEF HowMany
<1>3. ASSUME NEW x \in X, g[x] = v PROVE HowMany(X, g, v) > 0
  <2>1. HowMany(X, g, v) >= If1(g[x], v)
    BY HowManyMoves
  <2>. QED BY <1>2, <1>3, <2>1 DEF If1
<1>. QED BY <1>2, <1>3

(* The holders of a vnode, and the slots of a file, are numbers; where there*)
(* is one, the number is not 0.                                             *)
LEMMA HoldersNat ==
  ASSUME NEW fl, NEW cwd, NEW root, NEW v
  PROVE  /\ Holders(fl, cwd, root, v) \in Nat
         /\ \A f \in FileT : fl[f].f_vnode = v => Holders(fl, cwd, root, v) > 0
         /\ \A p \in Proc : cwd[p] = v => Holders(fl, cwd, root, v) > 0
         /\ v = root => Holders(fl, cwd, root, v) > 0
<1>1. PICK a : a = HowMany(FileT, VnodesOf(fl), v)
  OBVIOUS
<1>2. PICK b : b = HowMany(Proc, cwd, v)
  OBVIOUS
<1>3. PICK c : c = If1(v, root)
  OBVIOUS
<1>4. Holders(fl, cwd, root, v) = a + b + c
  BY <1>1, <1>2, <1>3, HoldersIs
<1>5. a \in Nat /\ \A f \in FileT : fl[f].f_vnode = v => a > 0
  BY <1>1, SlotsFinite, HowManyNat DEF VnodesOf
<1>6. b \in Nat /\ \A p \in Proc : cwd[p] = v => b > 0
  BY <1>2, SlotsFinite, HowManyNat
<1>7. c \in {0, 1} /\ (v = root => c = 1)
  BY <1>3 DEF If1
<1>8. a + b + c \in Nat /\ (a > 0 => a + b + c > 0) /\ (b > 0 => a + b + c > 0) /\ (c = 1 => a + b + c > 0)
  BY ONLY <1>5, <1>6, <1>7
<1>. QED BY <1>4, <1>5, <1>6, <1>7, <1>8

(* So is the number of descriptors that hold a file.                        *)
LEMMA SlotsNat ==
  ASSUME NEW fds, NEW f
  PROVE  /\ Slots(fds, f) \in Nat
         /\ \A p \in Proc, fd \in Fd : fds[p][fd] = f => Slots(fds, f) > 0
<1>1. /\ HowMany(Proc \X Fd, SlotsOf(fds), f) \in Nat
      /\ \A x \in Proc \X Fd : SlotsOf(fds)[x] = f => HowMany(Proc \X Fd, SlotsOf(fds), f) > 0
  BY SlotsFinite, HowManyNat
<1>2. ASSUME NEW p \in Proc, NEW fd \in Fd, fds[p][fd] = f PROVE Slots(fds, f) > 0
  <2>1. <<p, fd>> \in Proc \X Fd /\ SlotsOf(fds)[<<p, fd>>] = f
    BY <1>2 DEF SlotsOf
  <2>. QED BY <1>1, <2>1, SlotsIs
<1>. QED BY <1>1, <1>2, SlotsIs

(* A process moves, a file is opened or closed, a descriptor is written.    *)
Moves(cwd, p, b, cwd2) == cwd2 = [cwd EXCEPT ![p] = b]

(* A process goes from one directory to another, and so does one holder.    *)
LEMMA CwdMoves ==
  ASSUME NEW cwd \in CwdT, NEW p \in Proc, NEW b, NEW cwd2, Moves(cwd, p, b, cwd2),
         NEW fl, NEW root, NEW v
  PROVE  Holders(fl, cwd2, root, v) + If1(cwd[p], v) = Holders(fl, cwd, root, v) + If1(b, v)
<1>1. cwd2[p] = b /\ \A q \in Proc : q # p => cwd2[q] = cwd[q]
  BY DEF CwdT, Moves
<1>2. /\ HowMany(Proc, cwd, v) \in Nat /\ HowMany(Proc, cwd2, v) \in Nat
      /\ HowMany(Proc, cwd2, v) + If1(cwd[p], v) = HowMany(Proc, cwd, v) + If1(cwd2[p], v)
  <2>1. PICK g : g = cwd
    OBVIOUS
  <2>2. PICK h : h = cwd2
    OBVIOUS
  <2>3. PICK x \in Proc : x = p
    OBVIOUS
  <2>4. IsFiniteSet(Proc) /\ (\A y \in Proc : y # x => h[y] = g[y]) /\ x \in Proc
    BY <1>1, <2>1, <2>2, <2>3, SlotsFinite
  <2>5. /\ HowMany(Proc, g, v) \in Nat /\ HowMany(Proc, h, v) \in Nat
        /\ HowMany(Proc, h, v) + If1(g[x], v) = HowMany(Proc, g, v) + If1(h[x], v)
    BY ONLY <2>4, HowManyMoves
  <2>. QED BY <2>1, <2>2, <2>3, <2>5
<1>3. HowMany(FileT, VnodesOf(fl), v) \in Nat
  BY SlotsFinite, HowManyNat
<1>4. If1(cwd[p], v) \in {0, 1} /\ If1(cwd2[p], v) \in {0, 1} /\ If1(v, root) \in {0, 1}
  BY DEF If1
<1>5. /\ Holders(fl, cwd, root, v)
         = HowMany(FileT, VnodesOf(fl), v) + HowMany(Proc, cwd, v) + If1(v, root)
      /\ Holders(fl, cwd2, root, v)
         = HowMany(FileT, VnodesOf(fl), v) + HowMany(Proc, cwd2, v) + If1(v, root)
  BY HoldersIs
<1>6. Holders(fl, cwd2, root, v) + If1(cwd[p], v) = Holders(fl, cwd, root, v) + If1(cwd2[p], v)
  BY ONLY <1>2, <1>3, <1>4, <1>5
<1>. QED BY <1>1, <1>6

OthersSame(fl, f, fl2) == \A g \in FileT : g # f => fl2[g] = fl[g]

(* So when a file goes from one vnode to another.                           *)
LEMMA FileMoves ==
  ASSUME NEW fl, NEW fl2, NEW f \in FileT, OthersSame(fl, f, fl2),
         NEW cwd, NEW root, NEW v
  PROVE  Holders(fl2, cwd, root, v) + If1(fl[f].f_vnode, v)
         = Holders(fl, cwd, root, v) + If1(fl2[f].f_vnode, v)
<1>1. PICK a : a = VnodesOf(fl)
  OBVIOUS
<1>2. PICK b : b = VnodesOf(fl2)
  OBVIOUS
<1>3. /\ \A g \in FileT : g # f => b[g] = a[g]
      /\ a[f] = fl[f].f_vnode /\ b[f] = fl2[f].f_vnode
  BY <1>1, <1>2 DEF VnodesOf, OthersSame
<1>4. /\ HowMany(FileT, a, v) \in Nat /\ HowMany(FileT, b, v) \in Nat
      /\ HowMany(FileT, b, v) + If1(a[f], v) = HowMany(FileT, a, v) + If1(b[f], v)
  <2>1. IsFiniteSet(FileT) /\ \A g \in FileT : g # f => b[g] = a[g]
    BY <1>3, SlotsFinite
  <2>2. PICK X : X = FileT
    OBVIOUS
  <2>3. IsFiniteSet(X) /\ f \in X /\ \A g \in X : g # f => b[g] = a[g]
    BY <2>1, <2>2
  <2>4. /\ HowMany(X, a, v) \in Nat /\ HowMany(X, b, v) \in Nat
        /\ HowMany(X, b, v) + If1(a[f], v) = HowMany(X, a, v) + If1(b[f], v)
    BY ONLY <2>3, HowManyMoves
  <2>. QED BY <2>2, <2>4
<1>5. HowMany(Proc, cwd, v) \in Nat
  BY SlotsFinite, HowManyNat
<1>6. If1(a[f], v) \in {0, 1} /\ If1(b[f], v) \in {0, 1} /\ If1(v, root) \in {0, 1}
  BY DEF If1
<1>7. /\ Holders(fl, cwd, root, v) = HowMany(FileT, a, v) + HowMany(Proc, cwd, v) + If1(v, root)
      /\ Holders(fl2, cwd, root, v) = HowMany(FileT, b, v) + HowMany(Proc, cwd, v) + If1(v, root)
  BY <1>1, <1>2, HoldersIs
<1>8. Holders(fl2, cwd, root, v) + If1(a[f], v) = Holders(fl, cwd, root, v) + If1(b[f], v)
  BY ONLY <1>4, <1>5, <1>6, <1>7
<1>. QED BY <1>3, <1>8

SetSlot(fds, p, fd, b, fds2) == fds2 = [fds EXCEPT ![p][fd] = b]

(* So when a descriptor goes from one file to another.                      *)
LEMMA SlotMoves ==
  ASSUME NEW fds \in FdsT, NEW p \in Proc, NEW fd \in Fd, NEW b \in FileT \cup {NoFile},
         NEW fds2, SetSlot(fds, p, fd, b, fds2), NEW f
  PROVE  /\ fds2 \in FdsT /\ fds2[p][fd] = b
         /\ \A q \in Proc : q # p => fds2[q] = fds[q]
         /\ \A e \in Fd : e # fd => fds2[p][e] = fds[p][e]
         /\ Slots(fds2, f) + If1(fds[p][fd], f) = Slots(fds, f) + If1(b, f)
<1>1. PICK row : row = [fds[p] EXCEPT ![fd] = b]
  OBVIOUS
<1>2. fds2 = [fds EXCEPT ![p] = row]
  BY <1>1 DEF SetSlot
<1>3. /\ row \in [Fd -> FileT \cup {NoFile}] /\ row[fd] = b
      /\ \A e \in Fd : e # fd => row[e] = fds[p][e]
  BY <1>1 DEF FdsT
<1>4. /\ fds2 \in FdsT /\ fds2[p] = row /\ \A q \in Proc : q # p => fds2[q] = fds[q]
  BY <1>2, <1>3 DEF FdsT
<1>5. PICK g : g = SlotsOf(fds)
  OBVIOUS
<1>6. PICK h : h = SlotsOf(fds2)
  OBVIOUS
<1>7. PICK x \in Proc \X Fd : x = <<p, fd>>
  OBVIOUS
<1>8. g[x] = fds[p][fd] /\ h[x] = b
  BY <1>3, <1>4, <1>5, <1>6, <1>7 DEF SlotsOf
<1>9. \A y \in Proc \X Fd : y # x => h[y] = g[y]
  <2> SUFFICES ASSUME NEW q \in Proc, NEW e \in Fd, <<q, e>> # x PROVE h[<<q, e>>] = g[<<q, e>>]
    OBVIOUS
  <2>1. q # p \/ e # fd
    BY <1>7
  <2>2. fds2[q][e] = fds[q][e]
    BY <1>3, <1>4, <2>1
  <2>. QED BY <1>5, <1>6, <2>2 DEF SlotsOf
<1>10. HowMany(Proc \X Fd, h, f) + If1(g[x], f) = HowMany(Proc \X Fd, g, f) + If1(h[x], f)
  <2>1. IsFiniteSet(Proc \X Fd)
    BY SlotsFinite
  <2>2. PICK X : X = Proc \X Fd
    OBVIOUS
  <2>3. IsFiniteSet(X) /\ x \in X /\ \A y \in X : y # x => h[y] = g[y]
    BY <1>9, <2>1, <2>2
  <2>4. HowMany(X, h, f) + If1(g[x], f) = HowMany(X, g, f) + If1(h[x], f)
    BY ONLY <2>3, HowManyMoves
  <2>. QED BY <2>2, <2>4
<1>11. Slots(fds2, f) = HowMany(Proc \X Fd, h, f) /\ Slots(fds, f) = HowMany(Proc \X Fd, g, f)
  BY <1>5, <1>6, SlotsIs
<1>. QED BY <1>3, <1>4, <1>8, <1>10, <1>11

(* One reference more or less, as a number.                                 *)
LEMMA PlusMinusIf ==
  ASSUME NEW r \in [VnodeT -> Nat], NEW v \in VnodeT, NEW w \in VnodeT
  PROVE  /\ Plus(r, v)[w] = r[w] + If1(v, w)
         /\ r[v] > 0 => Minus(r, v)[w] = r[w] - If1(v, w)
<1>1. r[w] \in Nat
  OBVIOUS
<1>2. CASE v = w
  <2>1. If1(v, w) = 1
    BY <1>2 DEF If1
  <2>2. Plus(r, v)[w] = r[w] + 1
    BY <1>2, PlusIs
  <2>3. r[v] > 0 => Minus(r, v)[w] = r[w] - 1
    BY <1>2, MinusIs
  <2>. QED BY <2>1, <2>2, <2>3
<1>3. CASE v # w
  <2>1. If1(v, w) = 0
    BY <1>3 DEF If1
  <2>2. Plus(r, v)[w] = r[w]
    BY <1>3, PlusIs
  <2>3. r[v] > 0 => Minus(r, v)[w] = r[w]
    BY <1>3, MinusIs
  <2>. QED BY <1>1, <2>1, <2>2, <2>3
<1>. QED BY <1>2, <1>3

(* What shows the same stays what it was.                                   *)
LEMMA StaysOn ==
  ASSUME NEW vn0, NEW vn, NEW vn2, Stays(vn0, vn), SameIds(vn, vn2)
  PROVE  Stays(vn0, vn2)
BY DEF Stays, SameIds

(* A vnode that somebody holds is in use.                                   *)
LEMMA HeldInUse ==
  ASSUME NEW S0, NEW S, NEW fds, NEW cwd, NEW gone, Sums(S0, S, fds, cwd, gone),
         NEW v \in VnodeT
  PROVE  /\ \A f \in FileT : S.file[f].f_vnode = v => S.vnode[v].vn_refcount > 0
         /\ \A p \in Proc : cwd[p] = v => S.vnode[v].vn_refcount > 0
         /\ v = VnodeOf(S0, 0) => S.vnode[v].vn_refcount > 0
<1>1. PICK root : root = VnodeOf(S0, 0)
  OBVIOUS
<1>2. PICK fl : fl = S.file
  OBVIOUS
<1>3. S.vnode[v].vn_refcount = Holders(fl, cwd, root, v)
  <2>1. Refs(S)[v] = S.vnode[v].vn_refcount
    BY RefsType DEF Sums
  <2>. QED BY <1>1, <1>2, <2>1 DEF Sums
<1>4. /\ \A f \in FileT : fl[f].f_vnode = v => Holders(fl, cwd, root, v) > 0
      /\ \A p \in Proc : cwd[p] = v => Holders(fl, cwd, root, v) > 0
      /\ v = root => Holders(fl, cwd, root, v) > 0
  BY HoldersNat
<1>. QED BY <1>1, <1>2, <1>3, <1>4

(* A file that a descriptor holds is in use and has a vnode.                *)
LEMMA HeldFile ==
  ASSUME NEW S0, NEW S, NEW fds, NEW cwd, NEW gone, Sums(S0, S, fds, cwd, gone),
         NEW p \in Proc, NEW fd \in Fd, NEW f \in FileT, fds[p][fd] = f
  PROVE  /\ S.file[f].f_refcount > 0 /\ S.file[f].f_vnode \in VnodeT
         /\ S.file[f].f_refcount \in Nat
<1>1. Slots(fds, f) \in Nat /\ Slots(fds, f) > 0
  BY SlotsNat
<1>2. gone[f] \in Nat
  BY SlotsFinite, FileTableAssumption DEF Sums, LostT
<1>3. S.file[f].f_refcount = Slots(fds, f) + gone[f]
  BY DEF Sums
<1>4. Slots(fds, f) + gone[f] > 0 /\ Slots(fds, f) + gone[f] \in Nat
  BY ONLY <1>1, <1>2
<1>. QED BY <1>3, <1>4 DEF Sums, FilesOK

(* Of what kind things are stays, while vnodes and files do.                *)
SameFiles(fl, fl2) ==
  \A f \in FileT : fl2[f].f_refcount > 0 =>
    fl[f].f_refcount > 0 /\ fl2[f].f_vnode = fl[f].f_vnode /\ fl2[f].f_mode = fl[f].f_mode

(* What is held shows what it showed.                                       *)
LEMMA KindsStay ==
  ASSUME NEW S0, NEW S, NEW fds, NEW cwd, NEW gone, Sums(S0, S, fds, cwd, gone),
         NEW vn2, Stays(S.vnode, vn2), NEW fl2, SameFiles(S.file, fl2),
         NEW cwd2, \A p \in Proc : cwd2[p] # NoVnode => cwd2[p] = cwd[p]
  PROVE  Kinds(vn2, fl2, cwd2)
<1>1. /\ \A p \in Proc : cwd[p] # NoVnode => S.vnode[cwd[p]].vn_mode = "dir"
      /\ \A f \in FileT : S.file[f].f_refcount > 0 /\ "write" \in S.file[f].f_mode
                           => S.vnode[S.file[f].f_vnode].vn_mode # "dir"
      /\ cwd \in CwdT /\ FilesOK(S.file)
  BY DEF Sums, Kinds
<1>2. ASSUME NEW p \in Proc, cwd2[p] # NoVnode PROVE vn2[cwd2[p]].vn_mode = "dir"
  <2>1. PICK v \in VnodeT : v = cwd[p] /\ v = cwd2[p] /\ S.vnode[v].vn_mode = "dir"
    BY <1>1, <1>2 DEF CwdT
  <2>2. S.vnode[v].vn_refcount > 0
    BY <2>1, HeldInUse
  <2>. QED BY <2>1, <2>2 DEF Stays
<1>3. ASSUME NEW f \in FileT, fl2[f].f_refcount > 0, "write" \in fl2[f].f_mode
      PROVE  vn2[fl2[f].f_vnode].vn_mode # "dir"
  <2>1. PICK v : v = S.file[f].f_vnode
    OBVIOUS
  <2>2. v \in VnodeT /\ S.vnode[v].vn_mode # "dir" /\ fl2[f].f_vnode = v
    BY <1>1, <1>3, <2>1 DEF SameFiles, FilesOK
  <2>3. S.vnode[v].vn_refcount > 0
    BY <2>1, <2>2, HeldInUse
  <2>. QED BY <2>2, <2>3 DEF Stays
<1>. QED BY <1>2, <1>3 DEF Kinds

(* Vnodes that show the same stay.                                          *)
LEMMA IdsStay ==
  ASSUME NEW vn, NEW vn2, SameIds(vn, vn2) \/ vn2 = vn
  PROVE  Stays(vn, vn2)
BY DEF SameIds, Stays

(* A process enters a directory.                                            *)
LEMMA KindsEnter ==
  ASSUME NEW vn, NEW fl, NEW cwd \in CwdT, Kinds(vn, fl, cwd), NEW p \in Proc,
         NEW v \in VnodeT, vn[v].vn_mode = "dir", NEW cwd2, Moves(cwd, p, v, cwd2)
  PROVE  Kinds(vn, fl, cwd2)
<1>1. \A q \in Proc : cwd2[q] = IF q = p THEN v ELSE cwd[q]
  BY DEF Moves, CwdT
<1>. QED BY <1>1 DEF Kinds

(* A process that is in no directory enters one, or leaves the one it is in.*)
LEMMA SumsEnter ==
  ASSUME NEW S0, NEW S, NEW fds, NEW cwd, NEW gone, Sums(S0, S, fds, cwd, gone),
         NEW p \in Proc, cwd[p] = NoVnode, NEW v \in VnodeT, S.vnode[v].vn_refcount > 0,
         S.vnode[v].vn_mode = "dir",
         NEW T, T = vref(S, v), NEW cwd2, Moves(cwd, p, v, cwd2)
  PROVE  Sums(S0, T, fds, cwd2, gone)
<1>1. Good(S) /\ Up(S) /\ cwd \in CwdT
  BY DEF Sums
<1>2. /\ Good(T) /\ Up(T) /\ Quiet(S, T)
      /\ SameIds(S.vnode, T.vnode) /\ Refs(T) = Plus(Refs(S), v)
  BY <1>1, VrefGood
<1>3. T.file = S.file
  BY <1>2 DEF Quiet
<1>4. Stays(S0.vnode, T.vnode)
  BY <1>2, StaysOn DEF Sums
<1>5. cwd2 \in CwdT
  BY <1>1 DEF CwdT, Moves
<1>6. ASSUME NEW w \in VnodeT PROVE Refs(T)[w] = Holders(T.file, cwd2, VnodeOf(S0, 0), w)
  <2>1. PICK root : root = VnodeOf(S0, 0)
    OBVIOUS
  <2>2. PICK fl : fl = S.file
    OBVIOUS
  <2>3. Holders(fl, cwd2, root, w) + If1(cwd[p], w) = Holders(fl, cwd, root, w) + If1(v, w)
    <3>1. PICK b : b = v
      OBVIOUS
    <3>2. cwd \in CwdT /\ p \in Proc /\ Moves(cwd, p, b, cwd2)
      BY <1>1, <3>1
    <3>3. Holders(fl, cwd2, root, w) + If1(cwd[p], w) = Holders(fl, cwd, root, w) + If1(b, w)
      BY ONLY <3>2, CwdMoves
    <3>. QED BY <3>1, <3>3
  <2>4. If1(cwd[p], w) = 0 /\ If1(v, w) \in {0, 1}
    BY SlotsFinite DEF If1
  <2>5. Holders(fl, cwd2, root, w) \in Nat /\ Holders(fl, cwd, root, w) \in Nat
    BY HoldersNat
  <2>6. Refs(T)[w] = Refs(S)[w] + If1(v, w)
    BY <1>1, <1>2, RefsType, PlusMinusIf
  <2>7. Refs(S)[w] = Holders(fl, cwd, root, w)
    BY <2>1, <2>2 DEF Sums
  <2>8. Refs(T)[w] = Holders(fl, cwd2, root, w)
    BY ONLY <2>3, <2>4, <2>5, <2>6, <2>7
  <2>. QED BY <1>3, <2>1, <2>2, <2>8
<1>7. Kinds(T.vnode, T.file, cwd2)
  <2>1. SameFiles(S.file, T.file)
    BY <1>3 DEF SameFiles
  <2>2. Stays(S.vnode, T.vnode)
    BY <1>2, IdsStay
  <2>3. Kinds(T.vnode, T.file, cwd)
    BY <2>1, <2>2, KindsStay
  <2>4. T.vnode[v].vn_mode = "dir"
    BY <1>2 DEF SameIds
  <2>. QED BY <1>1, <2>3, <2>4, KindsEnter
<1>. QED BY <1>2, <1>3, <1>4, <1>5, <1>6, <1>7 DEF Sums

(* A process leaves its directory, which is put (vnode.c vput).             *)
LEMMA SumsLeave ==
  ASSUME NEW S0, NEW S, NEW fds, NEW cwd, NEW gone, Sums(S0, S, fds, cwd, gone),
         NEW p \in Proc, NEW v \in VnodeT, cwd[p] = v,
         NEW T, T = vput(S, v), NEW cwd2, Moves(cwd, p, NoVnode, cwd2)
  PROVE  Sums(S0, T, fds, cwd2, gone)
<1>1. Good(S) /\ Up(S) /\ cwd \in CwdT /\ S.vnode[v].vn_refcount > 0
  BY HeldInUse DEF Sums
<1>2. /\ Good(T) /\ Up(T) /\ T.file = S.file
      /\ SameIds(S.vnode, T.vnode) /\ Refs(T) = Minus(Refs(S), v)
  BY <1>1, VputGood
<1>4. Stays(S0.vnode, T.vnode)
  BY <1>2, StaysOn DEF Sums
<1>5. cwd2 \in CwdT
  BY <1>1 DEF CwdT, Moves
<1>6. ASSUME NEW w \in VnodeT PROVE Refs(T)[w] = Holders(T.file, cwd2, VnodeOf(S0, 0), w)
  <2>1. PICK root : root = VnodeOf(S0, 0)
    OBVIOUS
  <2>2. PICK fl : fl = S.file
    OBVIOUS
  <2>3. Holders(fl, cwd2, root, w) + If1(cwd[p], w) = Holders(fl, cwd, root, w) + If1(NoVnode, w)
    <3>1. PICK b : b = NoVnode
      OBVIOUS
    <3>2. cwd \in CwdT /\ p \in Proc /\ Moves(cwd, p, b, cwd2)
      BY <1>1, <3>1
    <3>3. Holders(fl, cwd2, root, w) + If1(cwd[p], w) = Holders(fl, cwd, root, w) + If1(b, w)
      BY ONLY <3>2, CwdMoves
    <3>. QED BY <3>1, <3>3
  <2>4. If1(NoVnode, w) = 0 /\ If1(v, w) \in {0, 1} /\ If1(cwd[p], w) = If1(v, w)
    BY SlotsFinite DEF If1
  <2>5. Holders(fl, cwd2, root, w) \in Nat /\ Holders(fl, cwd, root, w) \in Nat
    BY HoldersNat
  <2>6. Refs(T)[w] = Refs(S)[w] - If1(v, w)
    BY <1>1, <1>2, RefsType, PlusMinusIf
  <2>7. Refs(S)[w] = Holders(fl, cwd, root, w)
    BY <2>1, <2>2 DEF Sums
  <2>8. Refs(T)[w] = Holders(fl, cwd2, root, w)
    BY ONLY <2>3, <2>4, <2>5, <2>6, <2>7
  <2>. QED BY <1>2, <2>1, <2>2, <2>8
<1>7. Kinds(T.vnode, T.file, cwd2)
  <2>1. SameFiles(S.file, T.file)
    BY <1>2 DEF SameFiles
  <2>2. Stays(S.vnode, T.vnode)
    BY <1>2, IdsStay
  <2>3. \A q \in Proc : cwd2[q] # NoVnode => cwd2[q] = cwd[q]
    BY <1>1 DEF Moves, CwdT
  <2>. QED BY <2>1, <2>2, <2>3, KindsStay
<1>. QED BY <1>2, <1>4, <1>5, <1>6, <1>7 DEF Sums

(* Only the files change.                                                   *)
SetFiles(S, fl, T) == T = [S EXCEPT !.file = fl]

(* A state with other files is a state.                                     *)
LEMMA WithFiles ==
  ASSUME NEW S, Good(S), NEW fl \in [FileT -> FileRec], NEW T, SetFiles(S, fl, T)
  PROVE  /\ Good(T) /\ T.file = fl /\ T.vnode = S.vnode /\ T.panic = S.panic /\ T.inode = S.inode
         /\ T.stranded = S.stranded /\ Refs(T) = Refs(S)
<1>1. S \in StateT
  BY DEF Good
<1>2. /\ T \in StateT /\ T.file = fl /\ T.vnode = S.vnode /\ T.panic = S.panic
      /\ T.inode = S.inode /\ T.stranded = S.stranded /\ T.free = S.free
  BY <1>1 DEF StateT, SetFiles
<1>. QED BY <1>2 DEF Good, Refs

CountFile(fl, f, n, fl2) == fl2 = [fl EXCEPT ![f].f_refcount = n]

(* Setting the count of one file.                                           *)
LEMMA WithCount ==
  ASSUME NEW fl \in [FileT -> FileRec], FilesOK(fl), NEW f \in FileT, fl[f].f_refcount > 0,
         NEW n \in Nat, n # 0, NEW fl2, CountFile(fl, f, n, fl2)
  PROVE  /\ fl2 \in [FileT -> FileRec] /\ FilesOK(fl2) /\ fl2[f].f_refcount = n
         /\ \A g \in FileT : g # f => fl2[g] = fl[g]
         /\ fl2[f].f_vnode = fl[f].f_vnode /\ SameFiles(fl, fl2)
<1>1. PICK r : r = [fl[f] EXCEPT !.f_refcount = n]
  OBVIOUS
<1>2. fl2 = [fl EXCEPT ![f] = r]
  BY <1>1 DEF CountFile
<1>3. fl[f] \in FileRec
  OBVIOUS
<1>4. r \in FileRec /\ r.f_refcount = n /\ r.f_vnode = fl[f].f_vnode /\ r.f_mode = fl[f].f_mode
  BY <1>1, <1>3 DEF FileRec
<1>5. fl2 \in [FileT -> FileRec] /\ fl2[f] = r /\ \A g \in FileT : g # f => fl2[g] = fl[g]
  BY <1>2, <1>4
<1>6. r # NoFileT
  BY <1>4 DEF NoFileT
<1>7. FilesOK(fl2)
  <2> SUFFICES ASSUME NEW g \in FileT
               PROVE  /\ (fl2[g].f_refcount = 0) <=> (fl2[g] = NoFileT)
                      /\ fl2[g].f_refcount > 0 => fl2[g].f_vnode \in VnodeT
    BY DEF FilesOK
  <2>1. CASE g = f
    BY <1>4, <1>5, <1>6, <2>1 DEF FilesOK
  <2>2. CASE g # f
    BY <1>5, <2>2 DEF FilesOK
  <2>. QED BY <2>1, <2>2
<1>8. SameFiles(fl, fl2)
  BY <1>4, <1>5 DEF SameFiles
<1>. QED BY <1>4, <1>5, <1>7, <1>8

(* A file has one more reference, wherever it is kept (file.c fref).        *)
OneMore(fds, gone, f, fds2, gone2) ==
  \A g \in FileT : Slots(fds2, g) + gone2[g] = (Slots(fds, g) + gone[g]) + If1(f, g)

(* fref for one descriptor more (file.c fref).                              *)
LEMMA SumsFref ==
  ASSUME NEW S0, NEW S, NEW fds, NEW cwd, NEW gone, Sums(S0, S, fds, cwd, gone),
         NEW f \in FileT, S.file[f].f_refcount > 0, NEW T, T = fref(S, f),
         NEW fds2 \in FdsT, NEW gone2 \in LostT, OneMore(fds, gone, f, fds2, gone2)
  PROVE  Sums(S0, T, fds2, cwd, gone2)
<1>1. /\ Good(S) /\ Up(S) /\ FilesOK(S.file)
      /\ Stays(S0.vnode, S.vnode) /\ FileStays(S0.file, S.file)
      /\ \A v \in VnodeT : Refs(S)[v] = Holders(S.file, cwd, VnodeOf(S0, 0), v)
      /\ \A g \in FileT : S.file[g].f_refcount = Slots(fds, g) + gone[g]
  BY DEF Sums
<1>0. \A g \in FileT : Slots(fds2, g) + gone2[g] = (Slots(fds, g) + gone[g]) + If1(f, g)
  BY DEF OneMore
<1>2. S.file \in [FileT -> FileRec]
  BY <1>1, StateParts DEF Good
<1>3. PICK n : n = S.file[f].f_refcount + 1
  OBVIOUS
<1>4. n \in Nat /\ n # 0
  <2>1. S.file[f].f_refcount \in Nat
    BY <1>2 DEF FileRec
  <2>. QED BY <1>3, <2>1
<1>5. PICK fl : CountFile(S.file, f, n, fl)
  BY DEF CountFile
<1>6. /\ fl \in [FileT -> FileRec] /\ FilesOK(fl) /\ fl[f].f_refcount = n
      /\ \A g \in FileT : g # f => fl[g] = S.file[g]
      /\ fl[f].f_vnode = S.file[f].f_vnode /\ SameFiles(S.file, fl)
  BY <1>1, <1>2, <1>4, <1>5, WithCount
<1>7. SetFiles(S, fl, T)
  BY <1>3, <1>5 DEF fref, SetFiles, CountFile
<1>8. Good(T) /\ T.file = fl /\ T.vnode = S.vnode /\ T.panic = S.panic /\ Refs(T) = Refs(S)
  BY <1>1, <1>6, <1>7, WithFiles
<1>9. \A g \in FileT : fl[g].f_vnode = S.file[g].f_vnode
  BY <1>6
<1>10. \A v : Holders(fl, cwd, VnodeOf(S0, 0), v) = Holders(S.file, cwd, VnodeOf(S0, 0), v)
  BY <1>9 DEF Holders
<1>11. FileStays(S0.file, fl)
  BY <1>1, <1>6 DEF FileStays
<1>12. ASSUME NEW g \in FileT PROVE fl[g].f_refcount = Slots(fds2, g) + gone2[g]
  <2>1. CASE g = f
    BY <1>0, <1>1, <1>3, <1>6, <2>1 DEF If1
  <2>2. CASE g # f
    <3>1. Slots(fds, g) + gone[g] = S.file[g].f_refcount /\ S.file[g].f_refcount \in Nat
      BY <1>1, <1>2 DEF FileRec
    <3>2. If1(f, g) = 0
      BY <2>2 DEF If1
    <3>3. fl[g] = S.file[g]
      BY <1>6, <2>2
    <3>. QED BY <1>0, <3>1, <3>2, <3>3
  <2>. QED BY <2>1, <2>2
<1>13. Up(T)
  BY <1>1, <1>8 DEF Up
<1>14. cwd \in CwdT
  BY DEF Sums
<1>15. Kinds(T.vnode, T.file, cwd)
  <2>1. Stays(S.vnode, T.vnode)
    BY <1>8, IdsStay
  <2>2. SameFiles(S.file, T.file)
    BY <1>6, <1>8
  <2>. QED BY <2>1, <2>2, KindsStay
<1>. QED BY <1>1, <1>6, <1>8, <1>10, <1>11, <1>12, <1>13, <1>14, <1>15 DEF Sums

(* A file_t is freed.                                                       *)
ClearFile(fl, f, fl2) == fl2 = [fl EXCEPT ![f] = NoFileT]

(* A file is freed.                                                         *)
LEMMA WithoutFile ==
  ASSUME NEW fl \in [FileT -> FileRec], FilesOK(fl), NEW f \in FileT,
         NEW fl2, ClearFile(fl, f, fl2)
  PROVE  /\ fl2 \in [FileT -> FileRec] /\ FilesOK(fl2)
         /\ fl2[f].f_refcount = 0 /\ fl2[f].f_vnode = NoVnode
         /\ \A g \in FileT : g # f => fl2[g] = fl[g]
<1>1. NoFileT \in FileRec /\ NoFileT.f_refcount = 0 /\ NoFileT.f_vnode = NoVnode
  BY DEF NoFileT, FileRec
<1>2. fl2 \in [FileT -> FileRec] /\ fl2[f] = NoFileT /\ \A g \in FileT : g # f => fl2[g] = fl[g]
  BY <1>1 DEF ClearFile
<1>3. FilesOK(fl2)
  <2> SUFFICES ASSUME NEW g \in FileT
               PROVE  /\ (fl2[g].f_refcount = 0) <=> (fl2[g] = NoFileT)
                      /\ fl2[g].f_refcount > 0 => fl2[g].f_vnode \in VnodeT
    BY DEF FilesOK
  <2>1. CASE g = f
    BY <1>1, <1>2, <2>1
  <2>2. CASE g # f
    BY <1>2, <2>2 DEF FilesOK
  <2>. QED BY <2>1, <2>2
<1>. QED BY <1>1, <1>2, <1>3

(* One reference less to f, in the descriptors and in the counts of files   *)
Counted(fl, fds, gone) == \A g \in FileT : fl[g].f_refcount = Slots(fds, g) + gone[g]
OneSlotLess(fds, f, fds2) == \A g \in FileT : Slots(fds2, g) + If1(f, g) = Slots(fds, g)
OneRefLess(fl, f, fl2) ==
  fl2[f].f_refcount = fl[f].f_refcount - 1 /\ \A g \in FileT : g # f => fl2[g] = fl[g]

(* A descriptor less, and a reference less.                                 *)
LEMMA CountsLess ==
  ASSUME NEW fl \in [FileT -> FileRec], NEW fl2 \in [FileT -> FileRec], NEW f \in FileT,
         NEW fds, NEW fds2, NEW gone \in LostT,
         Counted(fl, fds, gone), OneSlotLess(fds, f, fds2), OneRefLess(fl, f, fl2)
  PROVE  Counted(fl2, fds2, gone)
<1> SUFFICES ASSUME NEW g \in FileT PROVE fl2[g].f_refcount = Slots(fds2, g) + gone[g]
  BY DEF Counted
<1>1. PICK a : a = Slots(fds, g)
  OBVIOUS
<1>2. PICK b : b = Slots(fds2, g)
  OBVIOUS
<1>3. a \in Nat /\ b \in Nat /\ gone[g] \in Nat
  BY <1>1, <1>2, SlotsNat, FileTableAssumption DEF LostT
<1>4. fl[g].f_refcount = a + gone[g] /\ b + If1(f, g) = a
  BY <1>1, <1>2 DEF Counted, OneSlotLess
<1>5. CASE g = f
  <2>1. If1(f, g) = 1
    BY <1>5 DEF If1
  <2>2. fl2[g].f_refcount = fl[g].f_refcount - 1
    BY <1>5 DEF OneRefLess
  <2>3. fl2[g].f_refcount = b + gone[g]
    BY ONLY <1>3, <1>4, <2>1, <2>2
  <2>. QED BY <1>2, <2>3
<1>6. CASE g # f
  <2>1. If1(f, g) = 0
    BY <1>6 DEF If1
  <2>2. fl2[g].f_refcount = fl[g].f_refcount
    BY <1>6 DEF OneRefLess
  <2>3. fl2[g].f_refcount = b + gone[g]
    BY ONLY <1>3, <1>4, <2>1, <2>2
  <2>. QED BY <1>2, <2>3
<1>. QED BY <1>5, <1>6

(* A file that is held gives up one reference; with the last one it is      *)
(* freed and its vnode put (file.c fput).                                   *)
LEMMA SumsFput ==
  ASSUME NEW S0, NEW S, NEW fds, NEW cwd, NEW gone, Sums(S0, S, fds, cwd, gone),
         NEW f \in FileT, S.file[f].f_refcount > 0, NEW T, T = fput(S, f), NEW fds2 \in FdsT,
         OneSlotLess(fds, f, fds2)
  PROVE  Sums(S0, T, fds2, cwd, gone)
<1>1. /\ Good(S) /\ Up(S) /\ FilesOK(S.file)
      /\ Stays(S0.vnode, S.vnode) /\ FileStays(S0.file, S.file)
      /\ \A v \in VnodeT : Refs(S)[v] = Holders(S.file, cwd, VnodeOf(S0, 0), v)
      /\ \A g \in FileT : S.file[g].f_refcount = Slots(fds, g) + gone[g]
      /\ cwd \in CwdT /\ gone \in LostT
  BY DEF Sums
<1>2. S.file \in [FileT -> FileRec]
  BY <1>1, StateParts DEF Good
<1>3. PICK n : n = S.file[f].f_refcount
  OBVIOUS
<1>4. n \in Nat /\ n > 0
  BY <1>2, <1>3 DEF FileRec
<1>5. PICK v \in VnodeT : v = S.file[f].f_vnode
  BY <1>1 DEF FilesOK
<1>6. CASE n > 1
  <2>1. PICK fl : CountFile(S.file, f, n - 1, fl)
    BY DEF CountFile
  <2>2. n - 1 \in Nat /\ n - 1 # 0
    BY ONLY <1>4, <1>6
  <2>3. /\ fl \in [FileT -> FileRec] /\ FilesOK(fl) /\ fl[f].f_refcount = n - 1
        /\ \A g \in FileT : g # f => fl[g] = S.file[g]
        /\ fl[f].f_vnode = S.file[f].f_vnode /\ SameFiles(S.file, fl)
    <3>1. PICK fl0 : fl0 = S.file
      OBVIOUS
    <3>2. PICK m : m = n - 1
      OBVIOUS
    <3>3. /\ fl0 \in [FileT -> FileRec] /\ FilesOK(fl0) /\ f \in FileT /\ fl0[f].f_refcount > 0
          /\ m \in Nat /\ m # 0 /\ CountFile(fl0, f, m, fl)
      BY <1>1, <1>2, <2>1, <2>2, <3>1, <3>2
    <3>4. /\ fl \in [FileT -> FileRec] /\ FilesOK(fl) /\ fl[f].f_refcount = m
          /\ \A g \in FileT : g # f => fl[g] = fl0[g]
          /\ fl[f].f_vnode = fl0[f].f_vnode /\ SameFiles(fl0, fl)
      BY ONLY <3>3, WithCount
    <3>. QED BY <3>1, <3>2, <3>4
  <2>4. SetFiles(S, fl, T)
    <3>1. S.panic = "" /\ S.file[f].f_refcount # 0 /\ S.file[f].f_refcount > 1
      <4>1. S.panic = ""
        BY <1>1 DEF Up
      <4>2. n # 0
        BY ONLY <1>4
      <4>. QED BY <1>3, <1>6, <4>1, <4>2
    <3>2. T = [S EXCEPT !.file[f].f_refcount = S.file[f].f_refcount - 1]
      BY <3>1 DEF fput
    <3>. QED BY <1>3, <2>1, <3>2 DEF SetFiles, CountFile
  <2>5. Good(T) /\ T.file = fl /\ T.vnode = S.vnode /\ T.panic = S.panic /\ Refs(T) = Refs(S)
    BY <1>1, <2>3, <2>4, WithFiles
  <2>6. \A g \in FileT : fl[g].f_vnode = S.file[g].f_vnode
    BY <2>3
  <2>7. \A w : Holders(fl, cwd, VnodeOf(S0, 0), w) = Holders(S.file, cwd, VnodeOf(S0, 0), w)
    BY <2>6 DEF Holders
  <2>8. FileStays(S0.file, fl)
    BY <1>1, <1>3, <1>4, <2>3 DEF FileStays
  <2>9. \A g \in FileT : fl[g].f_refcount = Slots(fds2, g) + gone[g]
    <3>1. PICK fl0 : fl0 = S.file
      OBVIOUS
    <3>2. /\ fl0 \in [FileT -> FileRec] /\ gone \in LostT /\ f \in FileT
         /\ Counted(fl0, fds, gone) /\ OneSlotLess(fds, f, fds2)
         /\ fl \in [FileT -> FileRec]
      BY <1>1, <1>2, <1>3, <2>3, <3>1 DEF Counted
    <3>3. OneRefLess(fl0, f, fl)
      <4>1. fl0[f].f_refcount = n /\ fl[f].f_refcount = n - 1
        BY <1>3, <2>3, <3>1
      <4>. QED BY <4>1, <2>3, <3>1 DEF OneRefLess
    <3>4. Counted(fl, fds2, gone)
      BY ONLY <3>2, <3>3, CountsLess
    <3>. QED BY <3>4 DEF Counted
  <2>10. Up(T)
    BY <1>1, <2>5 DEF Up
  <2>11. Kinds(T.vnode, T.file, cwd)
    <3>1. Stays(S.vnode, T.vnode)
      BY <2>5, IdsStay
    <3>2. SameFiles(S.file, T.file)
      BY <2>3, <2>5
    <3>. QED BY <3>1, <3>2, KindsStay
  <2>. QED BY <1>1, <2>3, <2>5, <2>7, <2>8, <2>9, <2>10, <2>11 DEF Sums
<1>7. CASE n = 1
  <2>1. PICK fl : ClearFile(S.file, f, fl)
    BY DEF ClearFile
  <2>2. /\ fl \in [FileT -> FileRec] /\ FilesOK(fl)
        /\ fl[f].f_refcount = 0 /\ fl[f].f_vnode = NoVnode
        /\ \A g \in FileT : g # f => fl[g] = S.file[g]
    BY <1>1, <1>2, <2>1, WithoutFile
  <2>3. PICK S1 : SetFiles(S, fl, S1)
    BY DEF SetFiles
  <2>4. /\ Good(S1) /\ S1.file = fl /\ S1.vnode = S.vnode /\ S1.panic = S.panic
        /\ Refs(S1) = Refs(S)
    BY <1>1, <2>2, <2>3, WithFiles
  <2>5. T = vput(S1, v)
    <3>1. S.panic = "" /\ S.file[f].f_refcount # 0 /\ ~(S.file[f].f_refcount > 1)
      <4>1. S.panic = ""
        BY <1>1 DEF Up
      <4>2. n # 0 /\ ~(n > 1)
        BY ONLY <1>7
      <4>. QED BY <1>3, <4>1, <4>2
    <3>2. S.file[f].f_vnode # NoVnode
      BY <1>5, SlotsFinite
    <3>3. S1 = [S EXCEPT !.file[f] = NoFileT]
      BY <2>1, <2>3 DEF SetFiles, ClearFile
    <3>. QED BY <1>5, <3>1, <3>2, <3>3 DEF fput
  <2>6. S1.vnode[v].vn_refcount > 0 /\ Up(S1)
    BY <1>1, <1>5, <2>4, HeldInUse DEF Up
  <2>7. /\ Good(T) /\ Up(T) /\ T.file = fl
        /\ SameIds(S.vnode, T.vnode) /\ Refs(T) = Minus(Refs(S), v)
    BY <2>4, <2>5, <2>6, VputGood
  <2>8. Stays(S0.vnode, T.vnode)
    BY <1>1, <2>7, StaysOn
  <2>9. ASSUME NEW w \in VnodeT PROVE Refs(T)[w] = Holders(fl, cwd, VnodeOf(S0, 0), w)
    <3>1. PICK root : root = VnodeOf(S0, 0)
      OBVIOUS
    <3>2. PICK fl0 : fl0 = S.file
      OBVIOUS
    <3>3. Holders(fl, cwd, root, w) + If1(fl0[f].f_vnode, w)
          = Holders(fl0, cwd, root, w) + If1(fl[f].f_vnode, w)
      <4>1. f \in FileT /\ OthersSame(fl0, f, fl)
        BY <2>2, <3>2 DEF OthersSame
      <4>. QED BY ONLY <4>1, FileMoves
    <3>4. If1(fl[f].f_vnode, w) = 0 /\ If1(v, w) \in {0, 1} /\ fl0[f].f_vnode = v
      BY <1>5, <2>2, <3>2, SlotsFinite DEF If1
    <3>5. Holders(fl, cwd, root, w) \in Nat /\ Holders(fl0, cwd, root, w) \in Nat
      BY HoldersNat
    <3>6. Refs(T)[w] = Refs(S)[w] - If1(v, w)
      <4>1. Refs(S) \in [VnodeT -> Nat] /\ Refs(S)[v] > 0
        BY <1>1, <2>4, <2>6, RefsType
      <4>. QED BY <2>7, <4>1, PlusMinusIf
    <3>7. Refs(S)[w] = Holders(fl0, cwd, root, w)
      BY <1>1, <3>1, <3>2
    <3>8. Refs(T)[w] = Holders(fl, cwd, root, w)
      BY ONLY <3>3, <3>4, <3>5, <3>6, <3>7
    <3>. QED BY <3>1, <3>8
  <2>10. FileStays(S0.file, fl)
    BY <1>1, <2>2 DEF FileStays
  <2>11. \A g \in FileT : fl[g].f_refcount = Slots(fds2, g) + gone[g]
    <3>1. PICK fl0 : fl0 = S.file
      OBVIOUS
    <3>2. /\ fl0 \in [FileT -> FileRec] /\ gone \in LostT /\ f \in FileT
         /\ Counted(fl0, fds, gone) /\ OneSlotLess(fds, f, fds2)
         /\ fl \in [FileT -> FileRec]
      BY <1>1, <1>2, <1>3, <1>7, <2>2, <3>1 DEF Counted
    <3>3. OneRefLess(fl0, f, fl)
      <4>1. fl0[f].f_refcount = n /\ fl[f].f_refcount = n - 1
        <5>1. n - 1 = 0
          BY ONLY <1>7
        <5>. QED BY <1>3, <2>2, <3>1, <5>1
      <4>. QED BY <4>1, <2>2, <3>1 DEF OneRefLess
    <3>4. Counted(fl, fds2, gone)
      BY ONLY <3>2, <3>3, CountsLess
    <3>. QED BY <3>4 DEF Counted
  <2>12. Kinds(T.vnode, T.file, cwd)
    <3>1. Stays(S.vnode, T.vnode)
      BY <2>7, IdsStay
    <3>2. SameFiles(S.file, T.file)
      BY <2>2, <2>7 DEF SameFiles
    <3>. QED BY <3>1, <3>2, KindsStay
  <2>. QED BY <1>1, <2>2, <2>7, <2>8, <2>9, <2>10, <2>11, <2>12 DEF Sums
<1>. QED BY <1>4, <1>6, <1>7

(* A descriptor that was empty holds f now; a reference to f is lost; a     *)
(* descriptor is overwritten, and what it held is lost; it is emptied.      *)
Lose(gone, f, gone2) == gone2 = [gone EXCEPT ![f] = @ + 1]

(* A reference more is lost.                                                *)
LEMMA RefLost ==
  ASSUME NEW gone \in LostT, NEW f \in FileT, gone[f] < MaxLost, NEW gone2, Lose(gone, f, gone2)
  PROVE  /\ gone2 \in LostT /\ \A g \in FileT : gone2[g] = gone[g] + If1(f, g)
<1>1. gone[f] + 1 \in 0 .. MaxLost
  <2>1. gone[f] \in 0 .. MaxLost /\ MaxLost \in Nat
    BY FileTableAssumption DEF LostT
  <2>. QED BY <2>1
<1>2. gone2 \in LostT /\ gone2[f] = gone[f] + 1 /\ \A g \in FileT : g # f => gone2[g] = gone[g]
  BY <1>1 DEF Lose, LostT
<1>3. \A g \in FileT : gone[g] \in Nat
  BY FileTableAssumption DEF LostT
<1>. QED BY <1>2, <1>3 DEF If1

(* A lost reference is one more than the descriptors hold.                  *)
LEMMA LostMore ==
  ASSUME NEW fds, NEW gone \in LostT, NEW f \in FileT, gone[f] < MaxLost,
         NEW gone2, Lose(gone, f, gone2)
  PROVE  gone2 \in LostT /\ OneMore(fds, gone, f, fds, gone2)
<1>1. gone2 \in LostT /\ \A g \in FileT : gone2[g] = gone[g] + If1(f, g)
  BY RefLost
<1>2. ASSUME NEW g \in FileT PROVE Slots(fds, g) + gone2[g] = (Slots(fds, g) + gone[g]) + If1(f, g)
  <2>1. PICK a : a = Slots(fds, g)
    OBVIOUS
  <2>2. PICK b : b = If1(f, g)
    OBVIOUS
  <2>3. a \in Nat /\ gone[g] \in Nat /\ b \in {0, 1} /\ gone2[g] = gone[g] + b
    BY <1>1, <2>1, <2>2, SlotsNat, FileTableAssumption DEF LostT, If1
  <2>4. a + gone2[g] = (a + gone[g]) + b
    BY ONLY <2>3
  <2>. QED BY <2>1, <2>2, <2>4
<1>. QED BY <1>1, <1>2 DEF OneMore

(* A file stored in an empty descriptor is one more.                        *)
LEMMA SlotStored ==
  ASSUME NEW fds \in FdsT, NEW p \in Proc, NEW fd \in Fd, fds[p][fd] = NoFile, NEW f \in FileT,
         NEW gone \in LostT, NEW fds2, SetSlot(fds, p, fd, f, fds2)
  PROVE  fds2 \in FdsT /\ OneMore(fds, gone, f, fds2, gone)
<1>1. /\ fds2 \in FdsT
      /\ \A g : Slots(fds2, g) + If1(fds[p][fd], g) = Slots(fds, g) + If1(f, g)
  BY SlotMoves
<1>2. ASSUME NEW g \in FileT PROVE Slots(fds2, g) + gone[g] = (Slots(fds, g) + gone[g]) + If1(f, g)
  <2>1. PICK a : a = Slots(fds, g)
    OBVIOUS
  <2>2. PICK a2 : a2 = Slots(fds2, g)
    OBVIOUS
  <2>3. PICK b : b = If1(f, g)
    OBVIOUS
  <2>4. a \in Nat /\ a2 \in Nat /\ gone[g] \in Nat /\ b \in {0, 1}
    BY <2>1, <2>2, <2>3, SlotsNat, FileTableAssumption DEF LostT, If1
  <2>5. If1(fds[p][fd], g) = 0
    BY SlotsFinite DEF If1
  <2>6. a2 + 0 = a + b
    BY <1>1, <2>1, <2>2, <2>3, <2>5
  <2>7. a2 + gone[g] = (a + gone[g]) + b
    BY ONLY <2>4, <2>6
  <2>. QED BY <2>1, <2>2, <2>3, <2>7
<1>. QED BY <1>1, <1>2 DEF OneMore

(* A file stored over another, whose reference is lost.                     *)
LEMMA SlotReplaced ==
  ASSUME NEW fds \in FdsT, NEW p \in Proc, NEW fd \in Fd, NEW old \in FileT, fds[p][fd] = old,
         NEW f \in FileT, NEW gone \in LostT, gone[old] < MaxLost,
         NEW fds2, SetSlot(fds, p, fd, f, fds2), NEW gone2, Lose(gone, old, gone2)
  PROVE  fds2 \in FdsT /\ gone2 \in LostT /\ OneMore(fds, gone, f, fds2, gone2)
<1>1. /\ fds2 \in FdsT
      /\ \A g : Slots(fds2, g) + If1(fds[p][fd], g) = Slots(fds, g) + If1(f, g)
  BY SlotMoves
<1>2. gone2 \in LostT /\ \A g \in FileT : gone2[g] = gone[g] + If1(old, g)
  BY RefLost
<1>3. ASSUME NEW g \in FileT PROVE Slots(fds2, g) + gone2[g] = (Slots(fds, g) + gone[g]) + If1(f, g)
  <2>1. PICK a : a = Slots(fds, g)
    OBVIOUS
  <2>2. PICK a2 : a2 = Slots(fds2, g)
    OBVIOUS
  <2>3. PICK b : b = If1(f, g)
    OBVIOUS
  <2>4. PICK c : c = If1(old, g)
    OBVIOUS
  <2>5. a \in Nat /\ a2 \in Nat /\ gone[g] \in Nat /\ b \in {0, 1} /\ c \in {0, 1}
    BY <2>1, <2>2, <2>3, <2>4, SlotsNat, FileTableAssumption DEF LostT, If1
  <2>6. a2 + c = a + b /\ gone2[g] = gone[g] + c
    BY <1>1, <1>2, <2>1, <2>2, <2>3, <2>4
  <2>7. a2 + gone2[g] = (a + gone[g]) + b
    BY ONLY <2>5, <2>6
  <2>. QED BY <2>1, <2>2, <2>3, <2>7
<1>. QED BY <1>1, <1>2, <1>3 DEF OneMore

(* An emptied descriptor is one less.                                       *)
LEMMA SlotEmptied ==
  ASSUME NEW fds \in FdsT, NEW p \in Proc, NEW fd \in Fd, NEW f \in FileT, fds[p][fd] = f,
         NEW fds2, SetSlot(fds, p, fd, NoFile, fds2)
  PROVE  fds2 \in FdsT /\ OneSlotLess(fds, f, fds2)
<1>1. PICK b : b = NoFile
  OBVIOUS
<1>2. /\ fds2 \in FdsT
      /\ \A g : Slots(fds2, g) + If1(fds[p][fd], g) = Slots(fds, g) + If1(b, g)
  BY <1>1, SlotMoves
<1>3. ASSUME NEW g \in FileT PROVE Slots(fds2, g) + If1(f, g) = Slots(fds, g)
  <2>1. If1(b, g) = 0
    BY <1>1, SlotsFinite DEF If1
  <2>2. PICK a : a = Slots(fds, g)
    OBVIOUS
  <2>3. a \in Nat /\ Slots(fds2, g) + If1(f, g) = a + 0
    BY <1>2, <2>1, <2>2, SlotsNat
  <2>4. Slots(fds2, g) + If1(f, g) = a
    BY ONLY <2>3
  <2>. QED BY <2>2, <2>4
<1>. QED BY <1>2, <1>3 DEF OneSlotLess

(* A new file_t is stored that holds the vnode which open_namev returned    *)
(* (open.c).                                                                *)
NewFile(fl, f, r, fl2) == fl2 = [fl EXCEPT ![f] = r]

(* A fresh file is written.                                                 *)
LEMMA WithNewFile ==
  ASSUME NEW fl \in [FileT -> FileRec], FilesOK(fl), NEW f \in FileT, NEW r \in FileRec,
         r.f_refcount = 1, r.f_vnode \in VnodeT, NEW fl2, NewFile(fl, f, r, fl2)
  PROVE  /\ fl2 \in [FileT -> FileRec] /\ FilesOK(fl2)
         /\ fl2[f].f_refcount = 1 /\ fl2[f].f_vnode = r.f_vnode /\ fl2[f].f_mode = r.f_mode
         /\ \A g \in FileT : g # f => fl2[g] = fl[g]
<1>1. r # NoFileT
  BY DEF NoFileT
<1>2. fl2 \in [FileT -> FileRec] /\ fl2[f] = r /\ \A g \in FileT : g # f => fl2[g] = fl[g]
  BY DEF NewFile
<1>3. FilesOK(fl2)
  <2> SUFFICES ASSUME NEW g \in FileT
               PROVE  /\ (fl2[g].f_refcount = 0) <=> (fl2[g] = NoFileT)
                      /\ fl2[g].f_refcount > 0 => fl2[g].f_vnode \in VnodeT
    BY DEF FilesOK
  <2>1. CASE g = f
    BY <1>1, <1>2, <2>1
  <2>2. CASE g # f
    BY <1>2, <2>2 DEF FilesOK
  <2>. QED BY <2>1, <2>2
<1>. QED BY <1>2, <1>3

(* A file opened on a vnode takes over the reference to the vnode.          *)
LEMMA SumsOpen ==
  ASSUME NEW S0, NEW fds, NEW cwd, NEW gone, Sums(S0, S0, fds, cwd, gone),
         NEW S, Live(S0, S), Up(S), NEW v \in VnodeT, Refs(S) = Plus(Refs(S0), v),
         NEW f \in FileT, S0.file[f].f_refcount = 0, NEW r \in FileRec,
         r.f_refcount = 1, r.f_vnode = v, "write" \in r.f_mode => S.vnode[v].vn_mode # "dir",
         NEW fl, NewFile(S0.file, f, r, fl),
         NEW T, SetFiles(S, fl, T),
         NEW fds2 \in FdsT, NEW gone2 \in LostT, OneMore(fds, gone, f, fds2, gone2)
  PROVE  Sums(S0, T, fds2, cwd, gone2)
<1>1. /\ Good(S0) /\ FilesOK(S0.file) /\ cwd \in CwdT
      /\ \A w \in VnodeT : Refs(S0)[w] = Holders(S0.file, cwd, VnodeOf(S0, 0), w)
      /\ \A g \in FileT : S0.file[g].f_refcount = Slots(fds, g) + gone[g]
  BY DEF Sums
<1>2. S0.file \in [FileT -> FileRec]
  BY <1>1, StateParts DEF Good
<1>3. Good(S) /\ S.file = S0.file /\ Stays(S0.vnode, S.vnode)
  BY DEF Live, Kept, Stays
<1>4. /\ fl \in [FileT -> FileRec] /\ FilesOK(fl) /\ fl[f].f_refcount = 1 /\ fl[f].f_vnode = v
      /\ fl[f].f_mode = r.f_mode /\ \A g \in FileT : g # f => fl[g] = S0.file[g]
  BY <1>1, <1>2, WithNewFile
<1>5. Good(T) /\ T.file = fl /\ T.vnode = S.vnode /\ T.panic = S.panic /\ Refs(T) = Refs(S)
  BY <1>3, <1>4, WithFiles
<1>6. ASSUME NEW w \in VnodeT PROVE Refs(T)[w] = Holders(fl, cwd, VnodeOf(S0, 0), w)
  <2>1. PICK root : root = VnodeOf(S0, 0)
    OBVIOUS
  <2>2. PICK fl0 : fl0 = S0.file
    OBVIOUS
  <2>3. Holders(fl, cwd, root, w) + If1(fl0[f].f_vnode, w)
        = Holders(fl0, cwd, root, w) + If1(fl[f].f_vnode, w)
    <3>1. f \in FileT /\ OthersSame(fl0, f, fl)
      BY <1>4, <2>2 DEF OthersSame
    <3>. QED BY ONLY <3>1, FileMoves
  <2>4. fl0[f].f_vnode = NoVnode
    BY <1>1, <2>2 DEF FilesOK, NoFileT
  <2>5. If1(fl0[f].f_vnode, w) = 0 /\ If1(v, w) \in {0, 1} /\ fl[f].f_vnode = v
    BY <1>4, <2>4, SlotsFinite DEF If1
  <2>6. Holders(fl, cwd, root, w) \in Nat /\ Holders(fl0, cwd, root, w) \in Nat
    BY HoldersNat
  <2>7. Refs(T)[w] = Refs(S0)[w] + If1(v, w)
    <3>1. Refs(S0) \in [VnodeT -> Nat]
      BY <1>1, RefsType
    <3>. QED BY <1>5, <3>1, PlusMinusIf
  <2>8. Refs(S0)[w] = Holders(fl0, cwd, root, w)
    BY <1>1, <2>1, <2>2
  <2>9. Refs(T)[w] = Holders(fl, cwd, root, w)
    BY ONLY <2>3, <2>5, <2>6, <2>7, <2>8
  <2>. QED BY <2>1, <2>9
<1>7. FileStays(S0.file, fl)
  BY <1>4 DEF FileStays
<1>8. ASSUME NEW g \in FileT PROVE fl[g].f_refcount = Slots(fds2, g) + gone2[g]
  <2>1. Slots(fds2, g) + gone2[g] = S0.file[g].f_refcount + If1(f, g)
    BY <1>1 DEF OneMore
  <2>2. S0.file[g].f_refcount \in Nat
    BY <1>2 DEF FileRec
  <2>3. CASE g = f
    BY <1>4, <2>1, <2>3 DEF If1
  <2>4. CASE g # f
    <3>1. If1(f, g) = 0 /\ fl[g].f_refcount = S0.file[g].f_refcount
      BY <1>4, <2>4 DEF If1
    <3>. QED BY <2>1, <2>2, <3>1
  <2>. QED BY <2>3, <2>4
<1>9. Up(T)
  BY <1>5 DEF Up
<1>10. Kinds(T.vnode, T.file, cwd)
  <2>1. SameFiles(S0.file, S0.file)
    BY DEF SameFiles
  <2>2. Kinds(S.vnode, S0.file, cwd)
    BY <1>3, <2>1, KindsStay
  <2>3. ASSUME NEW g \in FileT, fl[g].f_refcount > 0, "write" \in fl[g].f_mode
        PROVE  S.vnode[fl[g].f_vnode].vn_mode # "dir"
    <3>1. CASE g = f
      BY <1>4, <2>3, <3>1
    <3>2. CASE g # f
      BY <1>4, <2>2, <2>3, <3>2 DEF Kinds
    <3>. QED BY <3>1, <3>2
  <2>. QED BY <1>5, <2>2, <2>3 DEF Kinds
<1>. QED BY <1>1, <1>3, <1>4, <1>5, <1>6, <1>7, <1>8, <1>9, <1>10 DEF Sums
-----------------------------------------------------------------------------
(* Between calls everything is counted, and the file system is at rest.     *)
Ready ==
  /\ Sums(Now, Now, p_files, p_cwd, lost) /\ NobodyElse(p_files, p_cwd)
  /\ Calm(Now, Now) /\ RootShown(Now)
CallReturns ==
  \E T, fds, cwd, gone : Return(T, fds, cwd, gone) /\ Outcome(Now, T, fds, cwd, gone)

(* The state of the file system, in the variables.                          *)
LEMMA NowParts ==
  /\ Now.inode = inode /\ Now.vnode = vnode /\ Now.stranded = stranded /\ Now.panic = panic
  /\ Now.file = file /\ Now.free = SetToSeq({v \in VnodeT : vnode[v].vn_refcount = 0})
BY DEF Now

(* The parts of what is counted.                                            *)
LEMMA SumsParts ==
  ASSUME NEW S0, NEW S, NEW fds, NEW cwd, NEW gone, Sums(S0, S, fds, cwd, gone)
  PROVE  /\ Good(S) /\ Up(S) /\ FilesOK(S.file) /\ S.file \in [FileT -> FileRec]
         /\ Stays(S0.vnode, S.vnode) /\ FileStays(S0.file, S.file)
         /\ fds \in FdsT /\ cwd \in CwdT /\ gone \in LostT
         /\ \A v \in VnodeT : Refs(S)[v] = Holders(S.file, cwd, VnodeOf(S0, 0), v)
         /\ \A f \in FileT : S.file[f].f_refcount = Slots(fds, f) + gone[f]
         /\ Kinds(S.vnode, S.file, cwd)
BY StateParts DEF Sums, Good

(* A call that takes and gives no reference leaves the counts exact.        *)
LEMMA SumsLive ==
  ASSUME NEW S0, NEW fds, NEW cwd, NEW gone, Sums(S0, S0, fds, cwd, gone),
         NEW T, Live(S0, T), Up(T), Refs(T) = Refs(S0)
  PROVE  Sums(S0, T, fds, cwd, gone)
<1>1. Good(T) /\ T.file = S0.file /\ Stays(S0.vnode, T.vnode)
  BY DEF Live, Kept, Stays
<1>2. Kinds(T.vnode, T.file, cwd)
  <2>1. SameFiles(S0.file, T.file)
    BY <1>1 DEF SameFiles
  <2>. QED BY <1>1, <2>1, KindsStay
<1>. QED BY <1>1, <1>2 DEF Sums

(* So the calls on names return with everything counted.                    *)
LEMMA EndsReturns ==
  ASSUME Ready, NEW T, Returns(T), Ends(Now, T, Refs(Now))
  PROVE  CallReturns
<1>1. PICK S0 : S0 = Now
  OBVIOUS
<1>2. Sums(S0, S0, p_files, p_cwd, lost) /\ NobodyElse(p_files, p_cwd)
  BY <1>1 DEF Ready
<1>3. Outcome(S0, T, p_files, p_cwd, lost)
  <2>1. Ends(S0, T, Refs(S0))
    BY <1>1
  <2>. QED BY <1>2, <2>1, SumsLive DEF Ends, Outcome
<1>. QED BY <1>1, <1>3 DEF CallReturns, Returns

(* The descriptor that get_empty_fd returns is empty (open.c).              *)
LEMMA FirstEmpty ==
  ASSUME NEW p, Empty(p) # {}
  PROVE  First(Empty(p)) \in Fd /\ p_files[p][First(Empty(p))] = NoFile
<1>1. Empty(p) \in SUBSET Nat
  BY DEF Empty, Fd
<1>2. PICK i \in Empty(p) : \A j \in Empty(p) : ~(j < i)
  BY <1>1, LeastElement
<1>3. \A j \in Empty(p) : i <= j
  BY <1>1, <1>2
<1>4. First(Empty(p)) \in Empty(p)
  BY <1>2, <1>3 DEF First
<1>. QED BY <1>4 DEF Empty

(* A call that stores a file_t that has one reference more than it had      *)
Admits(T, f) ==
  /\ StopsOK(Now, T)
  /\ Up(T) => \A fds \in FdsT, gone \in LostT :
       OneMore(p_files, lost, f, fds, gone) => Sums(Now, T, fds, p_cwd, gone)

(* A file stored in the first empty descriptor, or lost.                    *)
LEMMA StoreReturns ==
  ASSUME Ready, NEW p \in Proc, p_cwd[p] # NoVnode, NEW f \in FileT, NEW T, Admits(T, f),
         StoreNew(T, p, f)
  PROVE  CallReturns
<1>1. p_files \in FdsT /\ lost \in LostT /\ NobodyElse(p_files, p_cwd)
  BY SumsParts DEF Ready
<1>2. CASE Empty(p) = {}
  <2>1. PICK gone : Lose(lost, f, gone)
    BY DEF Lose
  <2>2. lost[f] < MaxLost /\ Return(T, p_files, p_cwd, gone)
    BY <1>2, <2>1 DEF StoreNew, RoomToLose, Lose
  <2>3. gone \in LostT /\ OneMore(p_files, lost, f, p_files, gone)
    <3>1. PICK a : a = p_files
      OBVIOUS
    <3>2. PICK b \in LostT : b = lost
      BY <1>1
    <3>3. b[f] < MaxLost /\ Lose(b, f, gone) /\ f \in FileT
      BY <2>1, <2>2, <3>2
    <3>4. gone \in LostT /\ OneMore(a, b, f, a, gone)
      BY ONLY <3>2, <3>3, LostMore
    <3>. QED BY <3>1, <3>2, <3>4
  <2>4. Outcome(Now, T, p_files, p_cwd, gone)
    BY <1>1, <2>3 DEF Outcome, Admits
  <2>. QED BY <2>2, <2>4 DEF CallReturns
<1>3. CASE Empty(p) # {}
  <2>1. PICK fd \in Fd : fd = First(Empty(p)) /\ p_files[p][fd] = NoFile
    BY <1>3, FirstEmpty
  <2>2. PICK fds : SetSlot(p_files, p, fd, f, fds)
    BY DEF SetSlot
  <2>3. Return(T, fds, p_cwd, lost)
    BY <1>3, <2>1, <2>2 DEF StoreNew, SetSlot
  <2>4. fds \in FdsT /\ OneMore(p_files, lost, f, fds, lost)
    <3>1. PICK a \in FdsT : a = p_files
      BY <1>1
    <3>2. PICK b \in LostT : b = lost
      BY <1>1
    <3>3. a[p][fd] = NoFile /\ SetSlot(a, p, fd, f, fds) /\ f \in FileT /\ fd \in Fd /\ p \in Proc
      BY <2>1, <2>2, <3>1
    <3>4. fds \in FdsT /\ OneMore(a, b, f, fds, b)
      BY ONLY <3>1, <3>2, <3>3, SlotStored
    <3>. QED BY <3>1, <3>2, <3>4
  <2>5. NobodyElse(fds, p_cwd)
    <3>1. \A q \in Proc : q # p => fds[q] = p_files[q]
      BY <2>2 DEF SetSlot
    <3>. QED BY <1>1, <3>1 DEF NobodyElse
  <2>6. Outcome(Now, T, fds, p_cwd, lost)
    BY <1>1, <2>4, <2>5 DEF Outcome, Admits
  <2>. QED BY <2>3, <2>6 DEF CallReturns
<1>. QED BY <1>2, <1>3

(* The modes of files                                                       *)
LEMMA ModeType ==
  ASSUME NEW flags \in OpenFlags
  PROVE  f_mode(flags) \in SUBSET {"read", "write", "append"}
<1>1. flags[1] \in {"O_RDONLY", "O_WRONLY", "O_RDWR"}
  BY FileTableAssumption
<1>. QED BY <1>1 DEF f_mode

(* Opening for reading only                                                 *)
LEMMA ReadMode ==
  ASSUME NEW flags, flags[1] = "O_RDONLY"
  PROVE  "write" \notin f_mode(flags)
<1>1. f_mode(flags) = {"read"} \cup (IF flags[2] = "O_APPEND" THEN {"append"} ELSE {})
  BY DEF f_mode
<1>. QED BY <1>1

(* do_open (open.c)                                                         *)
LEMMA OpenReturns ==
  ASSUME Ready, NEW p \in Proc, NEW path, NEW flags \in OpenFlags, do_open(p, path, flags),
         Begins(Now, p_cwd[p], path)
  PROVE  CallReturns
<1>1. PICK O : O = open_namev(Now, p_cwd[p], path, flags[2] = "O_CREAT")
  OBVIOUS
<1>2. PICK S0 : S0 = Now
  OBVIOUS
<1>3. PICK R : R = Refs(S0)
  OBVIOUS
<1>4. Opened(S0, O, R)
  <2>1. PICK cwd \in VnodeT : cwd = p_cwd[p]
    BY DEF Begins
  <2>2. PICK creat \in BOOLEAN : creat = (flags[2] = "O_CREAT")
    OBVIOUS
  <2>3. Calm(S0, S0) /\ RootShown(S0) /\ Refs(S0)[cwd] > 0 /\ GivenPath(S0, cwd, path)
    BY <1>2, <2>1 DEF Begins
  <2>4. O = open_namev(S0, cwd, path, creat)
    BY <1>1, <1>2, <2>1, <2>2
  <2>5. Opened(S0, O, Refs(S0))
    BY ONLY <2>1, <2>2, <2>3, <2>4, OpenNamevOpened
  <2>. QED BY <1>3, <2>5
<1>5. Opens(p, flags, O) /\ p_cwd[p] # NoVnode /\ \E f \in FileT : file[f].f_refcount = 0
  BY <1>1 DEF do_open, Runs
<1>6. CASE Failed(O)
  <2>1. Returns(O.S)
    BY <1>5, <1>6 DEF Opens
  <2>2. Ends(S0, O.S, R)
    BY <1>4, <1>6 DEF Opened, Ends, Failed, Holding, Up
  <2>. QED BY <1>2, <1>3, <2>1, <2>2, EndsReturns
<1>7. CASE ~Failed(O)
  <2>1. /\ O.ret = "0" /\ Up(O.S) /\ Live(S0, O.S) /\ O.vn \in VnodeT
        /\ Refs(O.S) = Plus(R, O.vn)
    BY <1>4, <1>7 DEF Opened, Failed, Holding, Up
  <2>2. R \in [VnodeT -> Nat]
    BY <1>2, <1>3, CalmFacts DEF Ready
  <2>3. CASE IsDir(O) /\ flags[1] # "O_RDONLY"
    <3>1. PICK T : T = vput(O.S, O.vn)
      OBVIOUS
    <3>2. Returns(T)
      BY <1>5, <1>7, <2>3, <3>1 DEF Opens
    <3>3. Live(S0, T) /\ Up(T) /\ Refs(T) = R /\ StopsOK(S0, T)
      BY <2>1, <2>2, <3>1, LivePut
    <3>4. Ends(S0, T, R)
      BY <3>3 DEF Ends
    <3>. QED BY <1>2, <1>3, <3>2, <3>4, EndsReturns
  <2>4. CASE ~(IsDir(O) /\ flags[1] # "O_RDONLY")
    <3>1. PICK f \in FileT : f = Fresh /\ file[f].f_refcount = 0
      BY <1>5 DEF Fresh
    <3>2. PICK v \in VnodeT : v = O.vn
      BY <2>1
    <3>3. PICK r : r = [f_refcount |-> 1, f_mode |-> f_mode(flags), f_vnode |-> v, f_pos |-> 0]
      OBVIOUS
    <3>4. r \in FileRec /\ r.f_refcount = 1 /\ r.f_vnode = v
      BY <3>3, ModeType DEF FileRec
    <3>11. "write" \in r.f_mode => O.S.vnode[v].vn_mode # "dir"
      BY <2>4, <3>2, <3>3, ReadMode DEF IsDir
    <3>5. PICK T : T = [O.S EXCEPT !.file[f] = r]
      OBVIOUS
    <3>6. StoreNew(T, p, f)
      BY <1>5, <1>7, <2>4, <3>1, <3>2, <3>3, <3>5 DEF Opens
    <3>7. S0.file[f].f_refcount = 0 /\ O.S.file = S0.file
      BY <1>2, <2>1, <3>1, NowParts DEF Live
    <3>8. PICK fl : NewFile(S0.file, f, r, fl)
      BY DEF NewFile
    <3>9. SetFiles(O.S, fl, T)
      BY <3>5, <3>7, <3>8 DEF SetFiles, NewFile
    <3>10. Admits(T, f)
      <4>1. Up(T)
        <5>1. O.S \in StateT
          BY <2>1 DEF Live, Good
        <5>. QED BY <2>1, <3>9, <5>1 DEF Up, SetFiles, StateT
      <4>2. ASSUME NEW fds \in FdsT, NEW gone \in LostT, OneMore(p_files, lost, f, fds, gone)
            PROVE  Sums(S0, T, fds, p_cwd, gone)
        <5>1. PICK a : a = p_files
          OBVIOUS
        <5>2. PICK b : b = lost
          OBVIOUS
        <5>3. PICK c : c = p_cwd
          OBVIOUS
        <5>4. PICK S : S = O.S
          OBVIOUS
        <5>5. /\ Sums(S0, S0, a, c, b) /\ OneMore(a, b, f, fds, gone)
              /\ Live(S0, S) /\ Up(S) /\ Refs(S) = Plus(Refs(S0), v)
              /\ SetFiles(S, fl, T) /\ f \in FileT /\ v \in VnodeT
              /\ "write" \in r.f_mode => S.vnode[v].vn_mode # "dir"
          BY <3>11, <1>2, <1>3, <2>1, <3>2, <3>9, <4>2, <5>1, <5>2, <5>3, <5>4 DEF Ready
        <5>6. Sums(S0, T, fds, c, gone)
          BY ONLY <3>4, <3>7, <3>8, <4>2, <5>5, SumsOpen
        <5>. QED BY <5>3, <5>6
      <4>3. StopsOK(S0, T)
        BY <4>1, UpStops
      <4>. QED BY <1>2, <4>2, <4>3 DEF Admits
    <3>. QED BY <1>5, <3>6, <3>10, StoreReturns
  <2>. QED BY <2>3, <2>4
<1>. QED BY <1>6, <1>7

(* do_close, do_dup, do_dup2 (vfs_syscall.c)                                *)
LEMMA OpenFile ==
  ASSUME Ready, NEW p \in Proc, NEW fd \in Fd, Open(p, fd)
  PROVE  /\ p_cwd[p] # NoVnode /\ p_files[p][fd] \in FileT
         /\ file[p_files[p][fd]].f_refcount > 0
         /\ file[p_files[p][fd]].f_vnode \in VnodeT
         /\ vnode[file[p_files[p][fd]].f_vnode].vn_refcount > 0
<1>1. PICK S : S = Now
  OBVIOUS
<1>2. PICK a : a = p_files
  OBVIOUS
<1>3. PICK c : c = p_cwd
  OBVIOUS
<1>4. PICK g : g = lost
  OBVIOUS
<1>5. Sums(S, S, a, c, g)
  BY <1>1, <1>2, <1>3, <1>4 DEF Ready
<1>6. PICK f \in FileT : f = a[p][fd]
  <2>1. a \in FdsT /\ a[p][fd] # NoFile
    BY <1>2, <1>5, SumsParts DEF Open
  <2>. QED BY <2>1 DEF FdsT
<1>7. S.file[f].f_refcount > 0 /\ S.file[f].f_vnode \in VnodeT
  BY <1>5, <1>6, HeldFile
<1>8. PICK v \in VnodeT : v = S.file[f].f_vnode
  BY <1>7
<1>9. S.vnode[v].vn_refcount > 0
  BY <1>5, <1>8, HeldInUse
<1>10. S.file = file /\ S.vnode = vnode
  BY <1>1, NowParts
<1>. QED BY <1>2, <1>6, <1>7, <1>8, <1>9, <1>10 DEF Open, Runs

(* do_close (vfs_syscall.c)                                                 *)
LEMMA CloseReturns ==
  ASSUME Ready, NEW p \in Proc, NEW fd \in Fd, do_close(p, fd)
  PROVE  CallReturns
<1>1. Open(p, fd)
  BY DEF do_close
<1>2. PICK f \in FileT : f = p_files[p][fd] /\ file[f].f_refcount > 0 /\ p_cwd[p] # NoVnode
  BY <1>1, OpenFile
<1>3. PICK S : S = Now
  OBVIOUS
<1>4. PICK T : T = fput(S, f)
  OBVIOUS
<1>5. PICK fds : SetSlot(p_files, p, fd, NoFile, fds)
  BY DEF SetSlot
<1>6. Return(T, fds, p_cwd, lost)
  BY <1>2, <1>3, <1>4, <1>5 DEF do_close, SetSlot
<1>7. PICK a : a = p_files
  OBVIOUS
<1>8. PICK c : c = p_cwd
  OBVIOUS
<1>9. PICK g : g = lost
  OBVIOUS
<1>10. Sums(S, S, a, c, g) /\ NobodyElse(a, c) /\ a \in FdsT
  BY <1>3, <1>7, <1>8, <1>9, SumsParts DEF Ready
<1>11. fds \in FdsT /\ OneSlotLess(a, f, fds)
  <2>1. a[p][fd] = f /\ SetSlot(a, p, fd, NoFile, fds)
    BY <1>2, <1>5, <1>7
  <2>. QED BY ONLY <1>10, <2>1, p \in Proc, fd \in Fd, f \in FileT, SlotEmptied
<1>12. S.file[f].f_refcount > 0
  BY <1>2, <1>3, NowParts
<1>13. Sums(S, T, fds, c, g)
  BY <1>4, <1>10, <1>11, <1>12, SumsFput
<1>14. NobodyElse(fds, c)
  <2>1. \A q \in Proc : q # p => fds[q] = a[q]
    BY <1>5, <1>7 DEF SetSlot
  <2>. QED BY <1>2, <1>8, <1>10, <2>1 DEF NobodyElse
<1>15. Outcome(S, T, fds, c, g)
  BY <1>13, <1>14, SumsParts, UpStops DEF Outcome
<1>. QED BY <1>3, <1>6, <1>8, <1>9, <1>15 DEF CallReturns

(* fref, for wherever the one more reference is then stored.                *)
LEMMA FrefAdmits ==
  ASSUME Ready, NEW f \in FileT, file[f].f_refcount > 0, NEW T, T = fref(Now, f)
  PROVE  /\ Up(T)
         /\ \A fds \in FdsT, gone \in LostT :
              OneMore(p_files, lost, f, fds, gone) => Sums(Now, T, fds, p_cwd, gone)
<1>1. PICK S : S = Now
  OBVIOUS
<1>2. PICK a : a = p_files
  OBVIOUS
<1>3. PICK c : c = p_cwd
  OBVIOUS
<1>4. PICK g : g = lost
  OBVIOUS
<1>5. Sums(S, S, a, c, g) /\ S.file[f].f_refcount > 0 /\ T = fref(S, f)
  BY <1>1, <1>2, <1>3, <1>4, NowParts DEF Ready
<1>6. ASSUME NEW fds \in FdsT, NEW gone \in LostT, OneMore(a, g, f, fds, gone)
      PROVE  Sums(S, T, fds, c, gone)
  BY ONLY <1>5, <1>6, f \in FileT, SumsFref
<1>7. Up(T)
  <2>1. S \in StateT /\ S.panic = ""
    BY <1>5, SumsParts DEF Good, Up
  <2>. QED BY <1>5, <2>1 DEF fref, StateT, Up
<1>. QED BY <1>1, <1>2, <1>3, <1>4, <1>6, <1>7

(* do_dup (vfs_syscall.c)                                                   *)
LEMMA DupReturns ==
  ASSUME Ready, NEW p \in Proc, NEW fd \in Fd, do_dup(p, fd)
  PROVE  CallReturns
<1>1. Open(p, fd)
  BY DEF do_dup
<1>2. PICK f \in FileT : f = p_files[p][fd] /\ file[f].f_refcount > 0 /\ p_cwd[p] # NoVnode
  BY <1>1, OpenFile
<1>3. PICK T : T = fref(Now, f)
  OBVIOUS
<1>4. StoreNew(T, p, f)
  BY <1>2, <1>3 DEF do_dup
<1>5. Admits(T, f)
  BY <1>2, <1>3, FrefAdmits, UpStops DEF Admits
<1>. QED BY <1>2, <1>4, <1>5, StoreReturns

(* do_dup2 (vfs_syscall.c)                                                  *)
LEMMA Dup2Returns ==
  ASSUME Ready, NEW p \in Proc, NEW ofd \in Fd, NEW nfd \in Fd, do_dup2(p, ofd, nfd)
  PROVE  CallReturns
<1>1. Open(p, ofd)
  BY DEF do_dup2
<1>2. PICK f \in FileT : f = p_files[p][ofd] /\ file[f].f_refcount > 0 /\ p_cwd[p] # NoVnode
  BY <1>1, OpenFile
<1>3. PICK T : T = fref(Now, f)
  OBVIOUS
<1>4. PICK old : old = p_files[p][nfd]
  OBVIOUS
<1>5. PICK fds : SetSlot(p_files, p, nfd, f, fds)
  BY DEF SetSlot
<1>6. PICK gone : gone = IF old = NoFile THEN lost ELSE [lost EXCEPT ![old] = @ + 1]
  OBVIOUS
<1>7. Return(T, fds, p_cwd, gone) /\ (old # NoFile => RoomToLose)
  BY <1>2, <1>3, <1>4, <1>5, <1>6 DEF do_dup2, SetSlot
<1>8. PICK a \in FdsT : a = p_files
  BY SumsParts DEF Ready
<1>9. PICK g \in LostT : g = lost
  BY SumsParts DEF Ready
<1>10. a[p][nfd] = old /\ SetSlot(a, p, nfd, f, fds)
  BY <1>4, <1>5, <1>8
<1>11. fds \in FdsT /\ gone \in LostT /\ OneMore(a, g, f, fds, gone)
  <2>1. CASE old = NoFile
    <3>1. gone = g
      BY <1>6, <1>9, <2>1
    <3>2. fds \in FdsT /\ OneMore(a, g, f, fds, g)
      <4>1. a[p][nfd] = NoFile
        BY <1>10, <2>1
      <4>. QED BY ONLY <1>8, <1>9, <1>10, <4>1, p \in Proc, nfd \in Fd, f \in FileT, SlotStored
    <3>. QED BY <1>9, <3>1, <3>2
  <2>2. CASE old # NoFile
    <3>1. old \in FileT
      BY <1>8, <1>10, <2>2 DEF FdsT
    <3>2. g[old] < MaxLost
      BY <1>7, <1>9, <2>2, <3>1 DEF RoomToLose
    <3>3. Lose(g, old, gone)
      BY <1>6, <1>9, <2>2 DEF Lose
    <3>. QED BY ONLY <1>8, <1>9, <1>10, <3>1, <3>2, <3>3, p \in Proc, nfd \in Fd, f \in FileT, SlotReplaced
  <2>. QED BY <2>1, <2>2
<1>12. Up(T) /\ Sums(Now, T, fds, p_cwd, gone)
  BY <1>2, <1>3, <1>8, <1>9, <1>11, FrefAdmits
<1>13. NobodyElse(fds, p_cwd)
  <2>1. \A q \in Proc : q # p => fds[q] = p_files[q]
    BY <1>5 DEF SetSlot
  <2>. QED BY <1>2, <2>1 DEF NobodyElse, Ready
<1>. QED BY <1>7, <1>12, <1>13, UpStops DEF CallReturns, Outcome

(* do_chdir (vfs_syscall.c)                                                 *)
LEMMA ChdirReturns ==
  ASSUME Ready, NEW p \in Proc, NEW path, do_chdir(p, path), Begins(Now, p_cwd[p], path)
  PROVE  CallReturns
<1>1. PICK O : O = open_namev(Now, p_cwd[p], path, FALSE)
  OBVIOUS
<1>2. PICK S0 : S0 = Now
  OBVIOUS
<1>3. PICK cwd \in VnodeT : cwd = p_cwd[p]
  BY DEF Begins
<1>4. PICK R : R = Refs(S0)
  OBVIOUS
<1>5. Opened(S0, O, R)
  <2>1. Calm(S0, S0) /\ RootShown(S0) /\ Refs(S0)[cwd] > 0 /\ GivenPath(S0, cwd, path)
    BY <1>2, <1>3 DEF Begins
  <2>2. O = open_namev(S0, cwd, path, FALSE)
    BY <1>1, <1>2, <1>3
  <2>3. Opened(S0, O, Refs(S0))
    BY ONLY <1>3, <2>1, <2>2, FALSE \in BOOLEAN, OpenNamevOpened
  <2>. QED BY <1>4, <2>3
<1>6. ChdirTo(p, O) /\ p_cwd[p] # NoVnode
  BY <1>1 DEF do_chdir, Runs
<1>7. R \in [VnodeT -> Nat] /\ R[cwd] > 0
  BY <1>2, <1>3, <1>4, CalmFacts DEF Ready, Begins
<1>8. CASE Failed(O)
  <2>1. Returns(O.S)
    BY <1>6, <1>8 DEF ChdirTo
  <2>2. Ends(S0, O.S, R)
    BY <1>5, <1>8 DEF Opened, Ends, Failed, Holding, Up
  <2>. QED BY <1>2, <1>4, <2>1, <2>2, EndsReturns
<1>9. CASE ~Failed(O)
  <2>1. /\ O.ret = "0" /\ Up(O.S) /\ Live(S0, O.S) /\ O.vn \in VnodeT
        /\ Refs(O.S) = Plus(R, O.vn)
    BY <1>5, <1>9 DEF Opened, Failed, Holding, Up
  <2>2. CASE ~IsDir(O)
    <3>1. PICK T : T = vput(O.S, O.vn)
      OBVIOUS
    <3>2. Returns(T)
      BY <1>6, <1>9, <2>2, <3>1 DEF ChdirTo
    <3>3. Live(S0, T) /\ Up(T) /\ Refs(T) = R /\ StopsOK(S0, T)
      BY <1>7, <2>1, <3>1, LivePut
    <3>4. Ends(S0, T, R)
      BY <3>3 DEF Ends
    <3>. QED BY <1>2, <1>4, <3>2, <3>4, EndsReturns
  <2>3. CASE IsDir(O)
    <3>1. PICK v \in VnodeT : v = O.vn
      BY <2>1
    <3>2. PICK S : S = O.S
      OBVIOUS
    <3>3. PICK T : T = vput(S, cwd)
      OBVIOUS
    <3>4. PICK cwd2 : Moves(p_cwd, p, v, cwd2)
      BY DEF Moves
    <3>5. Return(T, p_files, cwd2, lost)
      BY <1>3, <1>6, <1>9, <2>3, <3>1, <3>2, <3>3, <3>4 DEF ChdirTo, Moves
    <3>6. Good(S) /\ Up(S) /\ S.file = S0.file /\ Stays(S0.vnode, S.vnode) /\ Refs(S) = Plus(R, v)
      BY <2>1, <3>1, <3>2 DEF Live, Kept, Stays
    <3>7. Refs(S)[cwd] > 0 /\ S.vnode[cwd].vn_refcount > 0
      <4>1. Refs(S)[cwd] = R[cwd] + If1(v, cwd) /\ R[cwd] \in Nat /\ If1(v, cwd) \in {0, 1}
        BY <1>7, <3>6, PlusMinusIf DEF If1
      <4>2. Refs(S)[cwd] > 0
        BY ONLY <1>7, <4>1
      <4>. QED BY <3>6, <4>2, RefsType
    <3>8. /\ Good(T) /\ Up(T) /\ T.file = S.file
          /\ SameIds(S.vnode, T.vnode) /\ Refs(T) = Minus(Refs(S), cwd)
      BY <3>3, <3>6, <3>7, VputGood
    <3>9. PICK c \in CwdT : c = p_cwd
      BY SumsParts DEF Ready
    <3>10. Sums(S0, S0, p_files, c, lost) /\ c[p] = cwd /\ Moves(c, p, v, cwd2)
      BY <1>2, <1>3, <3>4, <3>9 DEF Ready
    <3>11. ASSUME NEW w \in VnodeT PROVE Refs(T)[w] = Holders(T.file, cwd2, VnodeOf(S0, 0), w)
      <4>1. PICK root : root = VnodeOf(S0, 0)
        OBVIOUS
      <4>2. PICK fl : fl = S0.file
        OBVIOUS
      <4>3. Holders(fl, cwd2, root, w) + If1(c[p], w) = Holders(fl, c, root, w) + If1(v, w)
        BY ONLY <3>9, <3>10, p \in Proc, CwdMoves
      <4>4. If1(c[p], w) = If1(cwd, w) /\ If1(cwd, w) \in {0, 1} /\ If1(v, w) \in {0, 1}
        BY <3>10 DEF If1
      <4>5. Holders(fl, cwd2, root, w) \in Nat /\ Holders(fl, c, root, w) \in Nat
        BY HoldersNat
      <4>6. Refs(T)[w] = Refs(S)[w] - If1(cwd, w)
        BY <3>6, <3>7, <3>8, RefsType, PlusMinusIf
      <4>7. Refs(S)[w] = R[w] + If1(v, w)
        BY <1>7, <3>6, PlusMinusIf
      <4>8. R[w] = Holders(fl, c, root, w)
        BY <1>4, <3>10, <4>1, <4>2, SumsParts
      <4>9. Refs(T)[w] = Holders(fl, cwd2, root, w)
        BY ONLY <4>3, <4>4, <4>5, <4>6, <4>7, <4>8
      <4>. QED BY <3>6, <3>8, <4>1, <4>2, <4>9
    <3>12. cwd2 \in CwdT
      BY <3>9, <3>10 DEF CwdT, Moves
    <3>13. Stays(S0.vnode, T.vnode)
      BY <3>6, <3>8, StaysOn
    <3>14. T.file = S0.file
      BY <3>6, <3>8
    <3>18. Kinds(T.vnode, T.file, cwd2)
      <4>1. SameFiles(S0.file, T.file)
        BY <3>14 DEF SameFiles
      <4>2. Kinds(T.vnode, T.file, c)
        BY <3>10, <3>13, <4>1, KindsStay
      <4>3. T.vnode[v].vn_mode = "dir"
        BY <2>3, <3>1, <3>2, <3>8 DEF IsDir, SameIds
      <4>. QED BY <3>1, <3>9, <3>10, <4>2, <4>3, KindsEnter
    <3>15. Sums(S0, T, p_files, cwd2, lost)
      BY <3>8, <3>10, <3>11, <3>12, <3>13, <3>14, <3>18 DEF Sums
    <3>16. NobodyElse(p_files, cwd2)
      <4>1. \A q \in Proc : q # p => cwd2[q] = p_cwd[q]
        BY <3>4 DEF Moves
      <4>2. cwd2[p] # NoVnode
        BY <3>9, <3>10, SlotsFinite DEF Moves, CwdT
      <4>. QED BY <4>1, <4>2 DEF NobodyElse, Ready
    <3>17. Outcome(S0, T, p_files, cwd2, lost)
      BY <3>8, <3>15, <3>16, UpStops DEF Outcome
    <3>. QED BY <1>2, <3>5, <3>17 DEF CallReturns
  <2>. QED BY <2>2, <2>3
<1>. QED BY <1>8, <1>9

(* Only the position of an open file changes.                               *)
SetPos(fl, f, x, fl2) == fl2 = [fl EXCEPT ![f].f_pos = x]

(* Setting the position of one file.                                        *)
LEMMA WithPos ==
  ASSUME NEW fl \in [FileT -> FileRec], FilesOK(fl), NEW f \in FileT, fl[f].f_refcount > 0,
         NEW x \in Nat, NEW fl2, SetPos(fl, f, x, fl2)
  PROVE  /\ fl2 \in [FileT -> FileRec] /\ FilesOK(fl2)
         /\ \A g \in FileT : /\ fl2[g].f_refcount = fl[g].f_refcount
                             /\ fl2[g].f_vnode = fl[g].f_vnode
         /\ SameFiles(fl, fl2)
<1>1. PICK r : r = [fl[f] EXCEPT !.f_pos = x]
  OBVIOUS
<1>2. fl[f] \in FileRec
  OBVIOUS
<1>3. r \in FileRec /\ r.f_refcount = fl[f].f_refcount /\ r.f_vnode = fl[f].f_vnode /\ r.f_mode = fl[f].f_mode
  BY <1>1, <1>2 DEF FileRec
<1>4. fl2 = [fl EXCEPT ![f] = r]
  BY <1>1 DEF SetPos
<1>5. fl2 \in [FileT -> FileRec] /\ fl2[f] = r /\ \A g \in FileT : g # f => fl2[g] = fl[g]
  BY <1>3, <1>4
<1>6. r # NoFileT
  <2>1. fl[f].f_refcount # 0
    BY <1>2 DEF FileRec
  <2>. QED BY <1>3, <2>1 DEF NoFileT
<1>7. FilesOK(fl2)
  <2> SUFFICES ASSUME NEW g \in FileT
               PROVE  /\ (fl2[g].f_refcount = 0) <=> (fl2[g] = NoFileT)
                      /\ fl2[g].f_refcount > 0 => fl2[g].f_vnode \in VnodeT
    BY DEF FilesOK
  <2>1. CASE g = f
    <3>1. fl2[g].f_refcount # 0
      BY <1>2, <1>3, <1>5, <2>1 DEF FileRec
    <3>2. fl2[g].f_vnode \in VnodeT
      BY <1>3, <1>5, <2>1 DEF FilesOK
    <3>. QED BY <1>5, <1>6, <2>1, <3>1, <3>2
  <2>2. CASE g # f
    BY <1>5, <2>2 DEF FilesOK
  <2>. QED BY <2>1, <2>2
<1>8. SameFiles(fl, fl2)
  BY <1>3, <1>5 DEF SameFiles
<1>. QED BY <1>3, <1>5, <1>7, <1>8

(* The references stay, in files, descriptors and vnodes.                   *)
LEMMA SumsPos ==
  ASSUME NEW S0, NEW fds, NEW cwd, NEW gone, Sums(S0, S0, fds, cwd, gone),
         NEW f \in FileT, S0.file[f].f_refcount > 0, NEW x \in Nat,
         NEW fl, SetPos(S0.file, f, x, fl),
         NEW T, Good(T), Up(T), T.file = fl, Refs(T) = Refs(S0), Stays(S0.vnode, T.vnode)
  PROVE  Sums(S0, T, fds, cwd, gone)
<1>1. S0.file \in [FileT -> FileRec] /\ FilesOK(S0.file)
  BY SumsParts
<1>2. /\ FilesOK(fl) /\ SameFiles(S0.file, fl)
      /\ \A g \in FileT : /\ fl[g].f_refcount = S0.file[g].f_refcount
                          /\ fl[g].f_vnode = S0.file[g].f_vnode
  BY <1>1, WithPos
<1>3. \A w : Holders(fl, cwd, VnodeOf(S0, 0), w) = Holders(S0.file, cwd, VnodeOf(S0, 0), w)
  BY <1>2 DEF Holders
<1>4. FileStays(S0.file, fl)
  BY <1>2 DEF FileStays
<1>5. Kinds(T.vnode, T.file, cwd)
  BY <1>2, KindsStay
<1>. QED BY <1>2, <1>3, <1>4, <1>5 DEF Sums

(* A call that only moves a position.                                       *)
LEMMA PosReturns ==
  ASSUME Ready, NEW f \in FileT, file[f].f_refcount > 0, NEW x \in Nat,
         NEW T, T = [Now EXCEPT !.file[f].f_pos = x], Returns(T)
  PROVE  CallReturns
<1>1. PICK S : S = Now
  OBVIOUS
<1>2. PICK fl : SetPos(S.file, f, x, fl)
  BY DEF SetPos
<1>3. SetFiles(S, fl, T)
  BY <1>1, <1>2 DEF SetPos, SetFiles
<1>4. Sums(S, S, p_files, p_cwd, lost) /\ S.file[f].f_refcount > 0
  BY <1>1, NowParts DEF Ready
<1>5. Good(S) /\ Up(S) /\ FilesOK(S.file) /\ S.file \in [FileT -> FileRec]
  BY <1>4, SumsParts
<1>6. fl \in [FileT -> FileRec]
  BY <1>2, <1>4, <1>5, WithPos
<1>7. /\ Good(T) /\ T.file = fl /\ T.vnode = S.vnode /\ T.panic = S.panic /\ Refs(T) = Refs(S)
  BY ONLY <1>3, <1>5, <1>6, WithFiles
<1>8. Up(T) /\ Stays(S.vnode, T.vnode)
  BY <1>5, <1>7 DEF Up, Stays
<1>9. PICK a : a = p_files
  OBVIOUS
<1>10. PICK c : c = p_cwd
  OBVIOUS
<1>11. PICK g : g = lost
  OBVIOUS
<1>12. Sums(S, S, a, c, g)
  BY <1>4, <1>9, <1>10, <1>11
<1>13. Sums(S, T, a, c, g)
  BY ONLY f \in FileT, x \in Nat, <1>2, <1>4, <1>7, <1>8, <1>12, SumsPos
<1>14. Outcome(S, T, a, c, g)
  <2>1. NobodyElse(a, c)
    BY <1>9, <1>10 DEF Ready
  <2>. QED BY <1>8, <1>13, <2>1, UpStops DEF Outcome
<1>. QED BY <1>1, <1>9, <1>10, <1>11, <1>14 DEF CallReturns, Returns

(* What an open descriptor shows.                                           *)
LEMMA OpenShows ==
  ASSUME Ready, NEW p \in Proc, NEW fd \in Fd, Open(p, fd),
         NEW f, f = p_files[p][fd], NEW v, v = file[f].f_vnode, NEW i, i = vnode[v].vn_vno
  PROVE  /\ f \in FileT /\ file[f].f_refcount > 0 /\ file[f].f_pos \in Nat
         /\ v \in VnodeT /\ vnode[v].vn_refcount > 0 /\ vnode[v].vn_len \in Nat
         /\ i \in Ino /\ inode[i] # NoInode /\ inode[i].rf_size \in Nat
         /\ vnode[v].vn_mode = inode[i].rf_mode
         /\ vnode[v].vn_mode = "data" => vnode[v].vn_len = inode[i].rf_size
         /\ vnode[v].vn_mode \in {"data", "dir", "chr"}
         /\ vnode[v].vn_len <= PageSize
<1>1. PICK S : S = Now
  OBVIOUS
<1>2. S.inode = inode /\ S.vnode = vnode /\ S.file = file
  BY <1>1, NowParts
<1>3. Good(S) /\ S.file \in [FileT -> FileRec]
  BY <1>1, SumsParts DEF Ready
<1>4. S.vnode \in [VnodeT -> VnodeRec] /\ S.inode \in InodesT /\ AllShow(S.vnode, S.inode)
  BY <1>3, GoodParts, StateParts
<1>5. f \in FileT /\ file[f].f_refcount > 0 /\ v \in VnodeT /\ vnode[v].vn_refcount > 0
  BY OpenFile
<1>6. file[f].f_pos \in Nat
  BY <1>2, <1>3, <1>5 DEF FileRec
<1>7. i \in Ino /\ vnode[v].vn_len \in 0 .. PageSize /\ vnode[v].vn_mode \in {"data", "dir", "chr"}
  BY <1>2, <1>4, <1>5 DEF VnodeRec
<1>8. /\ inode[i] # NoInode /\ vnode[v].vn_mode = inode[i].rf_mode
      /\ vnode[v].vn_mode = "data" => vnode[v].vn_len = inode[i].rf_size
  BY <1>2, <1>4, <1>5 DEF AllShow, ShowsInode
<1>9. inode[i] \in InodeT
  BY <1>2, <1>4, <1>7, <1>8 DEF InodesT
<1>10. inode[i].rf_size \in Nat
  BY <1>9 DEF InodeT
<1>11. vnode[v].vn_len \in Nat /\ vnode[v].vn_len <= PageSize
  BY <1>7, RamfsAssumption
<1>. QED BY <1>5, <1>6, <1>7, <1>8, <1>10, <1>11

(* do_read and do_lseek (vfs_syscall.c)                                     *)
LEMMA ReadReturns ==
  ASSUME Ready, NEW p \in Proc, NEW fd \in Fd, do_read(p, fd)
  PROVE  CallReturns
<1>1. PICK f : f = p_files[p][fd]
  OBVIOUS
<1>2. PICK v : v = file[f].f_vnode
  OBVIOUS
<1>3. PICK i : i = vnode[v].vn_vno
  OBVIOUS
<1>4. Open(p, fd)
  BY DEF do_read
<1>5. f \in FileT /\ file[f].f_refcount > 0 /\ file[f].f_pos \in Nat /\ inode[i].rf_size \in Nat
  BY <1>1, <1>2, <1>3, <1>4, OpenShows
<1>6. PICK pos \in Nat : pos = file[f].f_pos
  BY <1>5
<1>7. PICK size \in Nat : size = inode[i].rf_size
  BY <1>5
<1>8. PICK x : x = pos + Greater(0, Smaller(1, size - pos))
  OBVIOUS
<1>9. x \in Nat
  BY ONLY pos \in Nat, size \in Nat, <1>8 DEF Greater, Smaller
<1>10. PICK T : T = [Now EXCEPT !.file[f].f_pos = x]
  OBVIOUS
<1>11. Returns(T)
  BY <1>1, <1>2, <1>3, <1>6, <1>7, <1>8, <1>10 DEF do_read
<1>. QED BY <1>5, <1>9, <1>10, <1>11, PosReturns

(* do_lseek                                                                 *)
LEMMA LseekReturns ==
  ASSUME Ready, NEW p \in Proc, NEW fd \in Fd, NEW offset \in SeekTo,
         NEW whence \in {"SEEK_SET", "SEEK_CUR", "SEEK_END"}, do_lseek(p, fd, offset, whence)
  PROVE  CallReturns
<1>1. PICK f : f = p_files[p][fd]
  OBVIOUS
<1>2. PICK v : v = file[f].f_vnode
  OBVIOUS
<1>3. PICK i : i = vnode[v].vn_vno
  OBVIOUS
<1>4. Open(p, fd)
  BY DEF do_lseek
<1>5. f \in FileT /\ file[f].f_refcount > 0 /\ file[f].f_pos \in Nat /\ vnode[v].vn_len \in Nat
  BY <1>1, <1>2, <1>3, <1>4, OpenShows
<1>6. PICK from : from = CASE whence = "SEEK_SET" -> 0 [] whence = "SEEK_CUR" -> file[f].f_pos
                           [] whence = "SEEK_END" -> vnode[v].vn_len
  OBVIOUS
<1>7. from \in Nat
  BY <1>5, <1>6
<1>8. PICK x : x = offset + from
  OBVIOUS
<1>9. PICK T : T = [Now EXCEPT !.file[f].f_pos = x]
  OBVIOUS
<1>10. 0 <= x /\ Returns(T)
  BY <1>1, <1>2, <1>6, <1>8, <1>9 DEF do_lseek
<1>11. x \in Nat
  <2>1. offset \in Int
    BY FileTableAssumption
  <2>. QED BY ONLY <1>7, <1>8, <1>10, <2>1
<1>. QED BY <1>5, <1>9, <1>10, <1>11, PosReturns

(* A file is written: the vnode and the inode get the same length           *)
(* (ramfs.c, vfs_syscall.c).                                                *)
SetLen(vn, v, len, vn2) == vn2 = [vn EXCEPT ![v].vn_len = len]
SetSize(ino, i, len, ino2) == ino2 = [ino EXCEPT ![i].rf_size = len]
SetLengths(S, fl, vn, ino, T) == T = [S EXCEPT !.file = fl, !.vnode = vn, !.inode = ino]

(* Setting the length of one vnode.                                         *)
LEMMA WithLen ==
  ASSUME NEW vn \in [VnodeT -> VnodeRec], NEW v \in VnodeT, NEW len \in 0 .. PageSize,
         NEW vn2, SetLen(vn, v, len, vn2)
  PROVE  /\ vn2 \in [VnodeT -> VnodeRec] /\ vn2[v].vn_len = len
         /\ \A w \in VnodeT : /\ vn2[w].vn_vno = vn[w].vn_vno /\ vn2[w].vn_mode = vn[w].vn_mode
                              /\ vn2[w].vn_refcount = vn[w].vn_refcount
         /\ \A w \in VnodeT : w # v => vn2[w] = vn[w]
<1>1. PICK r : r = [vn[v] EXCEPT !.vn_len = len]
  OBVIOUS
<1>2. vn[v] \in VnodeRec
  OBVIOUS
<1>3. /\ r \in VnodeRec /\ r.vn_len = len /\ r.vn_vno = vn[v].vn_vno /\ r.vn_mode = vn[v].vn_mode
      /\ r.vn_refcount = vn[v].vn_refcount
  BY <1>1, <1>2 DEF VnodeRec
<1>4. vn2 = [vn EXCEPT ![v] = r]
  BY <1>1 DEF SetLen
<1>5. vn2 \in [VnodeT -> VnodeRec] /\ vn2[v] = r /\ \A w \in VnodeT : w # v => vn2[w] = vn[w]
  BY <1>3, <1>4
<1>. QED BY <1>3, <1>5

(* Setting the size of one inode.                                           *)
LEMMA WithSize ==
  ASSUME NEW ino \in InodesT, NEW i \in Ino, ino[i] # NoInode, NEW len \in Nat,
         NEW ino2, SetSize(ino, i, len, ino2)
  PROVE  /\ ino2 \in InodesT /\ SameEntries(ino, ino2)
         /\ ino2[i].rf_size = len /\ ino2[i].rf_linkcount = ino[i].rf_linkcount
         /\ \A j \in Ino : j # i => ino2[j] = ino[j]
<1>1. ino[i] \in InodeT
  BY DEF InodesT
<1>2. PICK r : r = [ino[i] EXCEPT !.rf_size = len]
  OBVIOUS
<1>3. /\ r \in InodeT /\ r.rf_linkcount = ino[i].rf_linkcount /\ r.rf_mode = ino[i].rf_mode
      /\ r.rf_mem = ino[i].rf_mem /\ r.rf_size = len
  BY <1>1, <1>2 DEF InodeT
<1>4. ino2 = [ino EXCEPT ![i] = r]
  BY <1>2 DEF SetSize
<1>5. r # NoInode
  BY <1>3, RamfsAssumption
<1>6. ino2[i] = r /\ \A j \in Ino : j # i => ino2[j] = ino[j]
  BY <1>4 DEF InodesT
<1>7. ino2 \in InodesT
  BY <1>3, <1>4 DEF InodesT
<1>8. \A j \in Ino : SameEntry(ino[j], ino2[j])
  BY <1>3, <1>5, <1>6 DEF SameEntry
<1>. QED BY <1>3, <1>6, <1>7, <1>8 DEF SameEntries

(* A length and a size written alike (ramfs.c ramfs_write).                 *)
LEMMA WriteGood ==
  ASSUME NEW S, Good(S), NEW v \in VnodeT, S.vnode[v].vn_refcount > 0, S.vnode[v].vn_mode = "data",
         NEW i, i = S.vnode[v].vn_vno, NEW len \in 0 .. PageSize,
         NEW fl \in [FileT -> FileRec],
         NEW vn, SetLen(S.vnode, v, len, vn), NEW ino, SetSize(S.inode, i, len, ino),
         NEW T, SetLengths(S, fl, vn, ino, T)
  PROVE  Good(T) /\ T.panic = S.panic /\ T.file = fl /\ Refs(T) = Refs(S) /\ Stays(S.vnode, T.vnode)
<1>0. /\ S \in StateT /\ OneVnode(S.vnode) /\ AllShow(S.vnode, S.inode)
      /\ \A j \in Ino : LinksExact(S.inode, S.vnode, S.stranded, j)
      /\ InodesOK(S.inode) /\ RootOK(S.inode) /\ FreeOK(S.vnode, S.free)
      /\ LinksInPlace => Tree(S.inode)
  BY GoodParts
<1>1. S.vnode \in [VnodeT -> VnodeRec] /\ S.inode \in InodesT
  BY <1>0, StateParts
<1>2. i \in Ino /\ S.inode[i] # NoInode /\ S.inode[i].rf_mode = "data"
  <2>1. i \in Ino
    BY <1>1 DEF VnodeRec
  <2>2. ShowsInode(S.vnode, S.inode, v)
    BY <1>0 DEF AllShow
  <2>. QED BY <2>1, <2>2 DEF ShowsInode
<1>3. len \in Nat /\ len <= PageSize
  BY RamfsAssumption
<1>4. /\ vn \in [VnodeT -> VnodeRec] /\ vn[v].vn_len = len
      /\ \A w \in VnodeT : /\ vn[w].vn_vno = S.vnode[w].vn_vno /\ vn[w].vn_mode = S.vnode[w].vn_mode
                           /\ vn[w].vn_refcount = S.vnode[w].vn_refcount
      /\ \A w \in VnodeT : w # v => vn[w] = S.vnode[w]
  BY <1>1, WithLen
<1>5. /\ ino \in InodesT /\ SameEntries(S.inode, ino)
      /\ ino[i].rf_size = len /\ ino[i].rf_linkcount = S.inode[i].rf_linkcount
      /\ \A j \in Ino : j # i => ino[j] = S.inode[j]
  BY <1>1, <1>2, <1>3, WithSize
<1>6. /\ T \in StateT /\ T.vnode = vn /\ T.inode = ino /\ T.file = fl
      /\ T.stranded = S.stranded /\ T.free = S.free /\ T.panic = S.panic
  BY <1>0, <1>4, <1>5 DEF StateT, SetLengths, InodesT
<1>7. OneVnode(vn)
  BY <1>0, <1>4 DEF OneVnode
<1>8. FreeOK(vn, S.free)
  BY <1>0, <1>4 DEF FreeOK
<1>9. AllShow(vn, ino)
  <2> SUFFICES ASSUME NEW w \in VnodeT, vn[w].vn_refcount > 0 PROVE ShowsInode(vn, ino, w)
    BY DEF AllShow, ShowsInode
  <2>1. PICK j \in Ino : j = S.vnode[w].vn_vno
    BY <1>1 DEF VnodeRec
  <2>2. S.vnode[w].vn_refcount > 0 /\ ShowsInode(S.vnode, S.inode, w)
    BY <1>0, <1>4 DEF AllShow
  <2>3. SameEntry(S.inode[j], ino[j])
    BY <1>5 DEF SameEntries
  <2>4. ino[j] # NoInode /\ vn[w].vn_mode = ino[j].rf_mode /\ vn[w].vn_vno = j
    BY <1>4, <2>1, <2>2, <2>3 DEF ShowsInode, SameEntry
  <2>5. vn[w].vn_mode = "data" => vn[w].vn_len = ino[j].rf_size
    <3>1. CASE j = i
      <4>1. w = v
        BY <1>0, <2>1, <2>2, <3>1 DEF OneVnode
      <4>. QED BY <1>4, <1>5, <3>1, <4>1
    <3>2. CASE j # i
      <4>1. w # v
        BY <2>1, <3>2
      <4>2. vn[w] = S.vnode[w] /\ ino[j] = S.inode[j]
        BY <1>4, <1>5, <3>2, <4>1
      <4>. QED BY <2>1, <2>2, <4>2 DEF ShowsInode
    <3>. QED BY <3>1, <3>2
  <2>. QED BY <2>4, <2>5 DEF ShowsInode
<1>10. \A j \in Ino : LinksExact(ino, vn, S.stranded, j)
  <2> SUFFICES ASSUME NEW j \in Ino PROVE LinksExact(ino, vn, S.stranded, j)
    OBVIOUS
  <2>1. Uses(vn, j) = Uses(S.vnode, j)
    <3>1. Shown(vn, j) <=> Shown(S.vnode, j)
      BY <1>4 DEF Shown
    <3>. QED BY <3>1 DEF Uses
  <2>2. NamesIn(ino, j) = NamesIn(S.inode, j) /\ NameCount(ino, j) = NameCount(S.inode, j)
    BY <1>5, SameNames DEF NameCount
  <2>3. (ino[j] = NoInode <=> S.inode[j] = NoInode)
        /\ (S.inode[j] # NoInode => ino[j].rf_linkcount = S.inode[j].rf_linkcount)
    <3>1. SameEntry(S.inode[j], ino[j])
      BY <1>5 DEF SameEntries
    <3>. QED BY <1>5, <3>1 DEF SameEntry
  <2>4. LinksExact(S.inode, S.vnode, S.stranded, j)
    BY <1>0
  <2>. QED BY <2>1, <2>2, <2>3, <2>4 DEF LinksExact
<1>11. InodesOK(ino)
  <2> SUFFICES ASSUME NEW j \in Ino, ino[j] # NoInode PROVE InodeOK(j, ino[j])
    BY DEF InodesOK
  <2>1. SameEntry(S.inode[j], ino[j])
    BY <1>5 DEF SameEntries
  <2>2. InodeOK(j, S.inode[j]) /\ ino[j].rf_mode = S.inode[j].rf_mode /\ ino[j].rf_mem = S.inode[j].rf_mem
    BY <1>0, <2>1 DEF InodesOK, SameEntry
  <2>3. CASE j = i
    <3>1. S.inode[j].rf_mode = "data" /\ ino[j].rf_size <= PageSize
      BY <1>2, <1>3, <1>5, <2>3
    <3>. QED BY <2>2, <3>1 DEF InodeOK
  <2>4. CASE j # i
    BY <1>5, <2>2, <2>4
  <2>. QED BY <2>3, <2>4
<1>12. RootOK(ino) /\ (LinksInPlace => Tree(ino))
  BY <1>0, <1>5, SameTree
<1>13. Good(T)
  BY <1>6, <1>7, <1>8, <1>9, <1>10, <1>11, <1>12, GoodParts
<1>. QED BY <1>4, <1>6, <1>13 DEF Refs, Stays

(* where a write ends, and the length after it                              *)
LEMMA WriteEnd ==
  ASSUME NEW at \in Nat, NEW size, size = PageSize, at <= size, NEW len0 \in 0 .. size,
         NEW pos, pos = at + Smaller(1, size - at), NEW len, len = Greater(len0, pos)
  PROVE  pos \in Nat /\ len \in 0 .. size /\ ~(pos > len)
<1>1. size \in Nat
  BY RamfsAssumption
<1>. QED BY ONLY <1>1, at \in Nat, at <= size, len0 \in 0 .. size,
            pos = at + Smaller(1, size - at), len = Greater(len0, pos) DEF Smaller, Greater

(* An assertion fails, and the call does not return.                        *)
LEMMA PanicReturns ==
  ASSUME Ready, NEW where \in Stops \ {""}, Cause(Now, p_cwd, p_files, lost, where),
         NEW T, T = Panics(Now, where), Returns(T)
  PROVE  CallReturns
<1>1. PICK S : S = Now
  OBVIOUS
<1>2. Calm(S, S) /\ Cause(S, p_cwd, p_files, lost, where)
  BY <1>1 DEF Ready
<1>3. ~Up(T) /\ StopsOK(S, T)
  BY <1>1, <1>2, PanicsStops
<1>. QED BY <1>1, <1>3 DEF CallReturns, Outcome, Returns

(* do_write                                                                 *)
LEMMA WriteReturns ==
  ASSUME Ready, NEW p \in Proc, NEW fd \in Fd, do_write(p, fd)
  PROVE  CallReturns
<1>1. PICK f : f = p_files[p][fd]
  OBVIOUS
<1>2. PICK v : v = file[f].f_vnode
  OBVIOUS
<1>3. PICK i : i = vnode[v].vn_vno
  OBVIOUS
<1>4. Open(p, fd) /\ vnode[v].vn_mode # "chr"
  BY <1>1, <1>2 DEF do_write
<1>5. /\ f \in FileT /\ file[f].f_refcount > 0 /\ file[f].f_pos \in Nat
      /\ v \in VnodeT /\ vnode[v].vn_refcount > 0 /\ vnode[v].vn_len \in Nat
      /\ i \in Ino
      /\ vnode[v].vn_mode = "data" => vnode[v].vn_len = inode[i].rf_size
      /\ vnode[v].vn_mode \in {"data", "dir", "chr"}
      /\ vnode[v].vn_len <= PageSize
  BY <1>1, <1>2, <1>3, <1>4, OpenShows
<1>6. PICK at : at = IF "append" \in file[f].f_mode THEN vnode[v].vn_len ELSE file[f].f_pos
  OBVIOUS
<1>7. at \in Nat
  BY <1>5, <1>6
<1>8. Returns(IF vnode[v].vn_mode = "dir" THEN Panics(Now, "write") ELSE Written(Now, f, at))
  BY <1>1, <1>2, <1>6 DEF do_write
<1>9. PICK S : S = Now
  OBVIOUS
<1>10. S.inode = inode /\ S.vnode = vnode /\ S.file = file
  BY <1>9, NowParts
<1>11. CASE vnode[v].vn_mode = "dir"
  <2>1. PICK where : where = "write"
    OBVIOUS
  <2>2. PICK T : T = Panics(Now, where)
    OBVIOUS
  <2>3. Returns(T) /\ where \in Stops \ {""}
    BY <1>8, <1>11, <2>1, <2>2 DEF Stops
  <2>4. "write" \notin S.file[f].f_mode
    <3>1. Kinds(S.vnode, S.file, p_cwd)
      BY <1>9, SumsParts DEF Ready
    <3>. QED BY <1>2, <1>5, <1>10, <1>11, <3>1 DEF Kinds
  <2>5. "append" \in S.file[f].f_mode
    BY <1>1, <1>10, <2>4 DEF do_write
  <2>6. AppendsToDir(S.file, S.vnode, p_files)
    BY <1>1, <1>2, <1>4, <1>10, <1>11, <2>5 DEF AppendsToDir, Open
  <2>7. Cause(Now, p_cwd, p_files, lost, where)
    BY <1>9, <2>1, <2>6 DEF Cause
  <2>. QED BY <2>2, <2>3, <2>7, PanicReturns
<1>12. CASE vnode[v].vn_mode # "dir" /\ at > PageSize
  <2>1. PICK where : where = "memcpy"
    OBVIOUS
  <2>2. PICK T : T = Panics(Now, where)
    OBVIOUS
  <2>3. Written(Now, f, at) = T
    BY <1>12, <2>1, <2>2 DEF Written
  <2>4. Returns(T) /\ where \in Stops \ {""}
    BY <1>8, <1>12, <2>1, <2>3 DEF Stops
  <2>5. "append" \notin file[f].f_mode
    <3>1. PICK len : len = vnode[v].vn_len
      OBVIOUS
    <3>2. PICK size : size = PageSize
      OBVIOUS
    <3>3. len \in Nat /\ size \in Nat /\ len <= size /\ at > size
      BY <1>5, <1>12, <3>1, <3>2, RamfsAssumption
    <3>4. at # len
      BY ONLY <3>3
    <3>. QED BY <1>6, <3>1, <3>4
  <2>6. at = file[f].f_pos /\ "write" \in file[f].f_mode
    BY <1>1, <1>6, <2>5 DEF do_write
  <2>7. WritesPast(S.file, p_files)
    BY <1>1, <1>4, <1>10, <1>12, <2>6 DEF WritesPast, Open
  <2>8. Cause(Now, p_cwd, p_files, lost, where)
    BY <1>9, <2>1, <2>7 DEF Cause
  <2>. QED BY <2>2, <2>4, <2>8, PanicReturns
<1>13. CASE vnode[v].vn_mode # "dir" /\ ~(at > PageSize)
  <2>1. vnode[v].vn_mode = "data" /\ vnode[v].vn_len = inode[i].rf_size
    BY <1>4, <1>5, <1>13
  <2>2. PICK pos : pos = at + Smaller(1, PageSize - at)
    OBVIOUS
  <2>3. PICK len : len = Greater(vnode[v].vn_len, pos)
    OBVIOUS
  <2>4. pos \in Nat /\ len \in 0 .. PageSize /\ ~(pos > len)
    <3>1. PICK size : size = PageSize
      OBVIOUS
    <3>2. PICK len0 : len0 = vnode[v].vn_len
      OBVIOUS
    <3>3. PageSize \in Nat /\ len0 \in Nat /\ len0 <= PageSize
      BY <1>5, <3>2, RamfsAssumption
    <3>4. at <= size /\ len0 \in 0 .. size
      BY ONLY <1>7, <1>13, <3>1, <3>3
    <3>5. pos = at + Smaller(1, size - at) /\ len = Greater(len0, pos)
      BY <2>2, <2>3, <3>1, <3>2
    <3>6. pos \in Nat /\ len \in 0 .. size /\ ~(pos > len)
      BY ONLY <1>7, <3>1, <3>4, <3>5, WriteEnd
    <3>. QED BY <3>1, <3>6
  <2>5. PICK fl : SetPos(file, f, pos, fl)
    BY DEF SetPos
  <2>6. PICK vn : SetLen(vnode, v, len, vn)
    BY DEF SetLen
  <2>7. PICK ino : SetSize(inode, i, len, ino)
    BY DEF SetSize
  <2>8. PICK T : SetLengths(S, fl, vn, ino, T)
    BY DEF SetLengths
  <2>9. Written(S, f, at) = T
    <3>1. S.file[f].f_vnode = v /\ S.vnode[v].vn_vno = i
      BY <1>2, <1>3, <1>10
    <3>2. Greater(S.vnode[v].vn_len, pos) = len /\ ~(S.vnode[v].vn_len # S.inode[i].rf_size)
      BY <1>10, <2>1, <2>3
    <3>3. ~(at > PageSize) /\ ~(pos > len)
      BY <1>13, <2>4
    <3>4. Written(S, f, at)
          = [S EXCEPT !.file[f].f_pos = pos, !.vnode[v].vn_len = len, !.inode[i].rf_size = len]
      BY <2>2, <3>1, <3>2, <3>3 DEF Written
    <3>5. T = [S EXCEPT !.file[f].f_pos = pos, !.vnode[v].vn_len = len, !.inode[i].rf_size = len]
      BY <1>10, <2>5, <2>6, <2>7, <2>8 DEF SetPos, SetLen, SetSize, SetLengths
    <3>. QED BY <3>4, <3>5
  <2>10. Returns(T)
    BY <1>8, <1>9, <1>13, <2>9
  <2>11. PICK a : a = p_files
    OBVIOUS
  <2>12. PICK c : c = p_cwd
    OBVIOUS
  <2>13. PICK g : g = lost
    OBVIOUS
  <2>14. Sums(S, S, a, c, g)
    BY <1>9, <2>11, <2>12, <2>13 DEF Ready
  <2>15. Good(S) /\ Up(S) /\ FilesOK(S.file) /\ S.file \in [FileT -> FileRec]
    BY <2>14, SumsParts
  <2>16. SetPos(S.file, f, pos, fl) /\ S.file[f].f_refcount > 0 /\ pos \in Nat /\ f \in FileT
    BY <1>5, <1>10, <2>4, <2>5
  <2>17. fl \in [FileT -> FileRec]
    BY <2>15, <2>16, WithPos
  <2>18. Good(T) /\ T.panic = S.panic /\ T.file = fl /\ Refs(T) = Refs(S) /\ Stays(S.vnode, T.vnode)
    <3>1. /\ S.vnode[v].vn_refcount > 0 /\ S.vnode[v].vn_mode = "data" /\ i = S.vnode[v].vn_vno
          /\ SetLen(S.vnode, v, len, vn) /\ SetSize(S.inode, i, len, ino)
      BY <1>3, <1>5, <1>10, <2>1, <2>6, <2>7
    <3>. QED BY <1>5, <2>4, <2>8, <2>15, <2>17, <3>1, WriteGood
  <2>19. Up(T)
    BY <2>15, <2>18 DEF Up
  <2>20. Sums(S, T, a, c, g)
    BY <2>14, <2>16, <2>18, <2>19, SumsPos
  <2>21. NobodyElse(a, c)
    BY <2>11, <2>12 DEF Ready
  <2>. QED BY <1>9, <2>10, <2>11, <2>12, <2>13, <2>19, <2>20, <2>21, UpStops DEF CallReturns, Outcome, Returns
<1>. QED BY <1>11, <1>12, <1>13
-----------------------------------------------------------------------------
(* The descriptors of a process one after the other: the states in between  *)
OverStep(keep, W, f) == IF f = NoFile THEN W ELSE IF keep = 1 THEN fref(W, f) ELSE fput(W, f)
IsOver(keep, at, S, row, n) ==
  at = [k \in 0 .. n |-> IF k = 0 THEN S ELSE OverStep(keep, at[k - 1], row[k - 1])]

(* A pass over the descriptors is what its equations say.                   *)
LEMMA OverExists ==
  ASSUME NEW keep, NEW S, NEW row, NEW n \in Nat
  PROVE  \E at : IsOver(keep, at, S, row, n)
<1> DEFINE T == {k \in Nat : \E at : IsOver(keep, at, S, row, k)}
<1>1. 0 \in T
  <2> DEFINE at == [i \in 0 .. 0 |-> S]
  <2>1. at = [i \in 0 .. 0 |-> IF i = 0 THEN S ELSE OverStep(keep, at[i - 1], row[i - 1])]
    OBVIOUS
  <2>. QED BY <2>1 DEF IsOver
<1>2. ASSUME NEW k \in Nat, k \in T PROVE k + 1 \in T
  <2>1. PICK g : IsOver(keep, g, S, row, k)
    BY <1>2
  <2>2. PICK y : y = OverStep(keep, g[k], row[k])
    OBVIOUS
  <2> DEFINE h == [i \in 0 .. (k + 1) |-> IF i = k + 1 THEN y ELSE g[i]]
  <2>3. ASSUME NEW i \in 0 .. (k + 1)
        PROVE  h[i] = IF i = 0 THEN S ELSE OverStep(keep, h[i - 1], row[i - 1])
    <3>1. CASE i = 0
      BY <2>1, <3>1 DEF IsOver
    <3>2. CASE i = k + 1
      <4>1. h[i] = y /\ i - 1 = k /\ h[k] = g[k]
        BY <3>2
      <4>. QED BY <2>2, <3>2, <4>1
    <3>3. CASE i # 0 /\ i # k + 1
      <4>1. i \in 0 .. k /\ i - 1 \in 0 .. k /\ h[i] = g[i] /\ h[i - 1] = g[i - 1]
        BY <3>3
      <4>2. g[i] = OverStep(keep, g[i - 1], row[i - 1])
        BY <2>1, <3>3, <4>1 DEF IsOver
      <4>. QED BY <3>3, <4>1, <4>2
    <3>. QED BY <3>1, <3>2, <3>3
  <2>4. IsOver(keep, h, S, row, k + 1)
    <3>1. h = [i \in 0 .. (k + 1) |-> IF i = 0 THEN S ELSE OverStep(keep, h[i - 1], row[i - 1])]
      BY <2>3
    <3>. QED BY <3>1 DEF IsOver
  <2>. QED BY <2>4
<1> HIDE DEF T
<1>3. n \in T
  BY <1>1, <1>2, SetInduction
<1>. QED BY <1>3 DEF T

OverStates(keep, at, S, row, T) ==
  /\ at[0] = S /\ at[NFILES] = T
  /\ \A k \in Fd : at[k + 1] = OverStep(keep, at[k], row[k])

(* Each of its steps                                                        *)
LEMMA OverSteps ==
  ASSUME NEW keep, NEW at, NEW S, NEW row, IsOver(keep, at, S, row, NFILES)
  PROVE  OverStates(keep, at, S, row, at[NFILES])
<1>0. NFILES \in Nat
  BY SlotsFinite
<1>1. \A k \in 0 .. NFILES : at[k] = IF k = 0 THEN S ELSE OverStep(keep, at[k - 1], row[k - 1])
  BY DEF IsOver
<1>2. ASSUME NEW k \in Fd PROVE at[k + 1] = OverStep(keep, at[k], row[k])
  <2>1. k + 1 \in 0 .. NFILES /\ k + 1 # 0 /\ (k + 1) - 1 = k
    BY <1>0 DEF Fd
  <2>. QED BY <1>1, <2>1
<1>3. at[0] = S
  BY <1>0, <1>1
<1>. QED BY <1>2, <1>3 DEF OverStates

(* The states of fork's pass over the descriptors                           *)
LEMMA FrefStates ==
  ASSUME NEW S, NEW row, NEW T, T = OverFds(fref, S, row)
  PROVE  \E at : OverStates(1, at, S, row, T)
<1> DEFINE at == CHOOSE over : over = [n \in 0 .. NFILES |->
                   IF n = 0 THEN S
                   ELSE IF row[n - 1] = NoFile THEN over[n - 1] ELSE fref(over[n - 1], row[n - 1])]
<1>1. T = at[NFILES]
  BY DEF OverFds
<1>2. at = CHOOSE g : IsOver(1, g, S, row, NFILES)
  BY DEF IsOver, OverStep
<1> HIDE DEF at
<1>3. IsOver(1, at, S, row, NFILES)
  BY <1>2, OverExists, SlotsFinite
<1>. QED BY <1>1, <1>3, OverSteps

(* The states of the pass of exit                                           *)
LEMMA FputStates ==
  ASSUME NEW S, NEW row, NEW T, T = OverFds(fput, S, row)
  PROVE  \E at : OverStates(0, at, S, row, T)
<1> DEFINE at == CHOOSE over : over = [n \in 0 .. NFILES |->
                   IF n = 0 THEN S
                   ELSE IF row[n - 1] = NoFile THEN over[n - 1] ELSE fput(over[n - 1], row[n - 1])]
<1>1. T = at[NFILES]
  BY DEF OverFds
<1>2. at = CHOOSE g : IsOver(0, g, S, row, NFILES)
  BY DEF IsOver, OverStep
<1> HIDE DEF at
<1>3. IsOver(0, at, S, row, NFILES)
  BY <1>2, OverExists, SlotsFinite
<1>. QED BY <1>1, <1>3, OverSteps

(* A row of descriptors of which the first k have been copied from a to b   *)
RowT == [Fd -> FileT \cup {NoFile}]
Part(a, b, k) == [fd \in Fd |-> IF fd < k THEN a[fd] ELSE b[fd]]
SetRow(fds, p, row, fds2) == fds2 = [fds EXCEPT ![p] = row]

(* One descriptor further                                                   *)
LEMMA PartSlot ==
  ASSUME NEW fds \in FdsT, NEW p \in Proc, NEW a \in RowT, NEW b \in RowT, NEW k \in Fd,
         NEW fds1, SetRow(fds, p, Part(a, b, k), fds1),
         NEW fds2, SetRow(fds, p, Part(a, b, k + 1), fds2)
  PROVE  /\ fds1 \in FdsT /\ fds1[p][k] = b[k] /\ SetSlot(fds1, p, k, a[k], fds2)
         /\ \A q \in Proc : q # p => fds1[q] = fds[q]
<1>1. PICK r1 : r1 = Part(a, b, k)
  OBVIOUS
<1>2. PICK r2 : r2 = Part(a, b, k + 1)
  OBVIOUS
<1>3. r1 \in RowT /\ r2 \in RowT /\ r1[k] = b[k] /\ r2[k] = a[k]
  BY <1>1, <1>2 DEF Part, RowT, Fd
<1>4. \A fd \in Fd : fd # k => r2[fd] = r1[fd]
  BY <1>1, <1>2, SlotsFinite DEF Part, RowT, Fd
<1>5. r2 = [r1 EXCEPT ![k] = a[k]]
  BY <1>3, <1>4 DEF RowT
<1>6. fds1 \in FdsT /\ fds1[p] = r1 /\ \A q \in Proc : q # p => fds1[q] = fds[q]
  BY <1>1, <1>3 DEF SetRow, FdsT, RowT
<1>7. fds2 \in FdsT /\ fds2[p] = r2 /\ \A q \in Proc : q # p => fds2[q] = fds[q]
  BY <1>2, <1>3 DEF SetRow, FdsT, RowT
<1>8. fds2 = [fds1 EXCEPT ![p] = r2]
  BY <1>6, <1>7 DEF FdsT
<1>9. SetSlot(fds1, p, k, a[k], fds2)
  BY <1>5, <1>6, <1>8 DEF SetSlot
<1>. QED BY <1>3, <1>6, <1>9

(* None of them, and all of them                                            *)
LEMMA PartEnds ==
  ASSUME NEW a \in RowT, NEW b \in RowT
  PROVE  Part(a, b, 0) = b /\ Part(a, b, NFILES) = a
BY SlotsFinite DEF Part, RowT, Fd

(* What holds of no descriptor, and of one more, holds of all.              *)
LEMMA FdInduction ==
  ASSUME NEW T, 0 \in T, \A k \in Fd : k \in T => k + 1 \in T
  PROVE  NFILES \in T
<1>1. NFILES \in Nat
  BY SlotsFinite
<1> DEFINE X == {k \in Nat : k <= NFILES => k \in T}
<1>2. 0 \in X
  OBVIOUS
<1>3. ASSUME NEW k \in Nat, k \in X PROVE k + 1 \in X
  <2>1. CASE k + 1 <= NFILES
    <3>1. k \in Fd /\ k <= NFILES
      BY <1>1, <2>1 DEF Fd
    <3>. QED BY <1>3, <3>1
  <2>2. CASE ~(k + 1 <= NFILES)
    BY <2>2
  <2>. QED BY <2>1, <2>2
<1> HIDE DEF X
<1>4. NFILES \in X
  BY <1>1, <1>2, <1>3, SetInduction
<1>. QED BY <1>1, <1>4 DEF X

(* fork: the child gets the parent's files, each with one more reference    *)
(* (fork.c).                                                                *)
LEMMA FrefAll ==
  ASSUME NEW S0, NEW S, NEW fds, NEW cwd, NEW gone, Sums(S0, S, fds, cwd, gone),
         NEW p \in Proc, NEW c \in Proc, p # c, \A fd \in Fd : fds[c][fd] = NoFile,
         NEW T, T = OverFds(fref, S, fds[p]), NEW fds2, SetRow(fds, c, fds[p], fds2)
  PROVE  Sums(S0, T, fds2, cwd, gone)
<1>1. PICK a : a = fds[p]
  OBVIOUS
<1>2. PICK b : b = fds[c]
  OBVIOUS
<1>3. fds \in FdsT /\ a \in RowT /\ b \in RowT /\ gone \in LostT
  BY <1>1, <1>2, SumsParts DEF FdsT, RowT
<1>4. PICK at : OverStates(1, at, S, a, T)
  BY <1>1, FrefStates
<1> DEFINE F(k) == [fds EXCEPT ![c] = Part(a, b, k)]
           X == {k \in 0 .. NFILES : Sums(S0, at[k], F(k), cwd, gone)}
<1>5. \A k : SetRow(fds, c, Part(a, b, k), F(k))
  BY DEF SetRow
<1>6. F(0) = fds /\ F(NFILES) = fds2
  <2>1. Part(a, b, 0) = b /\ Part(a, b, NFILES) = a
    BY <1>3, PartEnds
  <2>. QED BY <1>1, <1>2, <1>3, <2>1 DEF SetRow, FdsT
<1>7. Sums(S0, at[0], F(0), cwd, gone)
  BY <1>4, <1>6 DEF OverStates
<1> HIDE DEF F
<1>8. ASSUME NEW k \in Fd, Sums(S0, at[k], F(k), cwd, gone)
      PROVE  Sums(S0, at[k + 1], F(k + 1), cwd, gone)
  <2>1. PICK f1 : f1 = F(k)
    OBVIOUS
  <2>2. PICK f2 : f2 = F(k + 1)
    OBVIOUS
  <2>3. /\ f1 \in FdsT /\ f1[c][k] = b[k] /\ SetSlot(f1, c, k, a[k], f2)
        /\ \A q \in Proc : q # c => f1[q] = fds[q]
    <3>1. SetRow(fds, c, Part(a, b, k), f1) /\ SetRow(fds, c, Part(a, b, k + 1), f2)
      BY <1>5, <2>1, <2>2
    <3>. QED BY <1>3, <3>1, PartSlot
  <2>4. b[k] = NoFile /\ f1[p] = a
    BY <1>1, <1>2, <2>3
  <2>5. PICK W : W = at[k]
    OBVIOUS
  <2>6. PICK f : f = a[k]
    OBVIOUS
  <2>7. at[k + 1] = OverStep(1, W, f)
    BY <1>4, <2>5, <2>6 DEF OverStates
  <2>8. Sums(S0, W, f1, cwd, gone)
    BY <1>8, <2>1, <2>5
  <2>9. CASE f = NoFile
    <3>1. at[k + 1] = W
      BY <2>7, <2>9 DEF OverStep
    <3>2. f2 = f1
      BY <2>3, <2>4, <2>6, <2>9 DEF SetSlot, FdsT
    <3>. QED BY <2>2, <2>8, <3>1, <3>2
  <2>10. CASE f # NoFile
    <3>1. f \in FileT
      BY <1>3, <2>6, <2>10 DEF RowT
    <3>2. at[k + 1] = fref(W, f)
      BY <2>7, <2>10 DEF OverStep
    <3>3. W.file[f].f_refcount > 0
      BY <2>4, <2>6, <2>8, <3>1, HeldFile
    <3>4. f2 \in FdsT /\ OneMore(f1, gone, f, f2, gone)
      <4>1. f1[c][k] = NoFile /\ SetSlot(f1, c, k, f, f2) /\ f1 \in FdsT
        BY <2>3, <2>4, <2>6
      <4>. QED BY ONLY <1>3, <3>1, <4>1, c \in Proc, k \in Fd, SlotStored
    <3>5. PICK W2 : W2 = fref(W, f)
      OBVIOUS
    <3>6. Sums(S0, W2, f2, cwd, gone)
      BY ONLY <1>3, <2>8, <3>1, <3>3, <3>4, <3>5, SumsFref
    <3>. QED BY <2>2, <3>2, <3>5, <3>6
  <2>. QED BY <2>9, <2>10
<1>9. NFILES \in X
  <2>0. NFILES \in Nat
    BY SlotsFinite
  <2>1. 0 \in X
    BY <1>7, <2>0
  <2>2. \A k \in Fd : k \in X => k + 1 \in X
    BY <1>8, <2>0 DEF Fd
  <2> HIDE DEF X
  <2>. QED BY <2>1, <2>2, FdInduction
<1>. QED BY <1>4, <1>6, <1>9 DEF OverStates

(* exit: the files of the process are put (proc.c, do_exit).                *)
NoFds == [fd \in Fd |-> NoFile]

(* exit gives back every descriptor (proc.c, file.c fput).                  *)
LEMMA FputAll ==
  ASSUME NEW S0, NEW S, NEW fds, NEW cwd, NEW gone, Sums(S0, S, fds, cwd, gone),
         NEW p \in Proc, NEW T, T = OverFds(fput, S, fds[p]), NEW fds2, SetRow(fds, p, NoFds, fds2)
  PROVE  Sums(S0, T, fds2, cwd, gone)
<1>1. PICK a : a = NoFds
  OBVIOUS
<1>2. PICK b : b = fds[p]
  OBVIOUS
<1>3. fds \in FdsT /\ a \in RowT /\ b \in RowT
  BY <1>1, <1>2, SumsParts DEF FdsT, RowT, NoFds
<1>4. PICK at : OverStates(0, at, S, b, T)
  BY <1>2, FputStates
<1> DEFINE F(k) == [fds EXCEPT ![p] = Part(a, b, k)]
           X == {k \in 0 .. NFILES : Sums(S0, at[k], F(k), cwd, gone)}
<1>5. \A k : SetRow(fds, p, Part(a, b, k), F(k))
  BY DEF SetRow
<1>6. F(0) = fds /\ F(NFILES) = fds2
  <2>1. Part(a, b, 0) = b /\ Part(a, b, NFILES) = a
    BY <1>3, PartEnds
  <2>. QED BY <1>1, <1>2, <1>3, <2>1 DEF SetRow, FdsT
<1>7. Sums(S0, at[0], F(0), cwd, gone)
  BY <1>4, <1>6 DEF OverStates
<1> HIDE DEF F
<1>8. ASSUME NEW k \in Fd, Sums(S0, at[k], F(k), cwd, gone)
      PROVE  Sums(S0, at[k + 1], F(k + 1), cwd, gone)
  <2>1. PICK f1 : f1 = F(k)
    OBVIOUS
  <2>2. PICK f2 : f2 = F(k + 1)
    OBVIOUS
  <2>3. f1 \in FdsT /\ f1[p][k] = b[k] /\ SetSlot(f1, p, k, a[k], f2)
    <3>1. SetRow(fds, p, Part(a, b, k), f1) /\ SetRow(fds, p, Part(a, b, k + 1), f2)
      BY <1>5, <2>1, <2>2
    <3>. QED BY <1>3, <3>1, PartSlot
  <2>4. a[k] = NoFile
    BY <1>1 DEF NoFds
  <2>5. PICK W : W = at[k]
    OBVIOUS
  <2>6. PICK f : f = b[k]
    OBVIOUS
  <2>7. at[k + 1] = OverStep(0, W, f)
    BY <1>4, <2>5, <2>6 DEF OverStates
  <2>8. Sums(S0, W, f1, cwd, gone)
    BY <1>8, <2>1, <2>5
  <2>9. CASE f = NoFile
    <3>1. at[k + 1] = W
      BY <2>7, <2>9 DEF OverStep
    <3>2. f2 = f1
      BY <2>3, <2>4, <2>6, <2>9 DEF SetSlot, FdsT
    <3>. QED BY <2>2, <2>8, <3>1, <3>2
  <2>10. CASE f # NoFile
    <3>1. f \in FileT
      BY <1>3, <2>6, <2>10 DEF RowT
    <3>2. at[k + 1] = fput(W, f)
      BY <2>7, <2>10 DEF OverStep
    <3>3. W.file[f].f_refcount > 0
      BY <2>3, <2>6, <2>8, <3>1, HeldFile
    <3>4. f2 \in FdsT /\ OneSlotLess(f1, f, f2)
      <4>1. f1[p][k] = f /\ SetSlot(f1, p, k, NoFile, f2) /\ f1 \in FdsT
        BY <2>3, <2>4, <2>6
      <4>. QED BY ONLY <3>1, <4>1, p \in Proc, k \in Fd, SlotEmptied
    <3>5. PICK W2 : W2 = fput(W, f)
      OBVIOUS
    <3>6. Sums(S0, W2, f2, cwd, gone)
      BY ONLY <2>8, <3>1, <3>3, <3>4, <3>5, SumsFput
    <3>. QED BY <2>2, <3>2, <3>5, <3>6
  <2>. QED BY <2>9, <2>10
<1>9. NFILES \in X
  <2>0. NFILES \in Nat
    BY SlotsFinite
  <2>1. 0 \in X
    BY <1>7, <2>0
  <2>2. \A k \in Fd : k \in X => k + 1 \in X
    BY <1>8, <2>0 DEF Fd
  <2> HIDE DEF X
  <2>. QED BY <2>1, <2>2, FdInduction
<1>. QED BY <1>4, <1>6, <1>9 DEF OverStates

(* fork                                                                     *)
LEMMA ForkReturns ==
  ASSUME Ready, NEW p \in Proc, NEW c \in Proc, fork(p, c)
  PROVE  CallReturns
<1>1. PICK S : S = Now
  OBVIOUS
<1>2. PICK a : a = p_files
  OBVIOUS
<1>3. PICK d : d = p_cwd
  OBVIOUS
<1>4. PICK g : g = lost
  OBVIOUS
<1>5. Sums(S, S, a, d, g) /\ NobodyElse(a, d)
  BY <1>1, <1>2, <1>3, <1>4 DEF Ready
<1>6. d[p] # NoVnode /\ d[c] = NoVnode /\ p # c /\ a \in FdsT /\ d \in CwdT
  BY <1>3, <1>5, SumsParts DEF fork, Runs
<1>7. \A fd \in Fd : a[c][fd] = NoFile
  BY <1>5, <1>6 DEF NobodyElse
<1>8. PICK root \in VnodeT : root = VnodeOf(S, 0)
  BY <1>1, RootInUse DEF Ready
<1>9. S.vnode[root].vn_refcount > 0
  BY <1>5, <1>8, HeldInUse
<1>28. S.vnode[root].vn_mode = "dir"
  <2>1. Calm(S, S) /\ Good(S) /\ S.vnode[root].vn_vno = 0
    BY <1>1, <1>5, <1>8, RootInUse, SumsParts DEF Ready
  <2>2. AllShow(S.vnode, S.inode) /\ RootOK(S.inode)
    BY <2>1, GoodParts
  <2>. QED BY <1>9, <2>1, <2>2 DEF AllShow, ShowsInode, RootOK
<1>10. PICK W1 : W1 = vref(S, root)
  OBVIOUS
<1>11. PICK d1 : Moves(d, c, root, d1)
  BY DEF Moves
<1>12. Sums(S, W1, a, d1, g)
  BY ONLY <1>5, <1>6, <1>8, <1>9, <1>10, <1>11, <1>28, c \in Proc, SumsEnter
<1>13. PICK row : row = a[p]
  OBVIOUS
<1>14. PICK W2 : W2 = OverFds(fref, W1, row)
  OBVIOUS
<1>15. PICK fds : SetRow(a, c, row, fds)
  BY DEF SetRow
<1>16. Sums(S, W2, fds, d1, g)
  BY <1>6, <1>7, <1>12, <1>13, <1>14, <1>15, FrefAll
<1>17. PICK W3 : W3 = vput(W2, root)
  OBVIOUS
<1>18. d1[c] = root /\ Moves(d1, c, NoVnode, d)
  BY <1>6, <1>11 DEF Moves, CwdT
<1>19. Sums(S, W3, fds, d, g)
  BY ONLY <1>8, <1>16, <1>17, <1>18, c \in Proc, SumsLeave
<1>20. PICK v \in VnodeT : v = d[p]
  BY <1>6 DEF CwdT
<1>21. W3.vnode[v].vn_refcount > 0
  BY <1>19, <1>20, HeldInUse
<1>29. W3.vnode[v].vn_mode = "dir"
  <2>1. Kinds(W3.vnode, W3.file, d)
    BY <1>19, SumsParts
  <2>. QED BY <1>6, <1>20, <2>1 DEF Kinds
<1>22. PICK W4 : W4 = vref(W3, v)
  OBVIOUS
<1>23. PICK d4 : Moves(d, c, v, d4)
  BY DEF Moves
<1>24. Sums(S, W4, fds, d4, g)
  BY ONLY <1>6, <1>19, <1>20, <1>21, <1>22, <1>23, <1>29, c \in Proc, SumsEnter
<1>25. Return(W4, fds, d4, g)
  <2>1. Moved(W2, p, c)
    BY <1>1, <1>2, <1>8, <1>10, <1>13, <1>14 DEF fork
  <2>. QED BY <2>1, <1>1, <1>2, <1>3, <1>4, <1>8, <1>13, <1>15, <1>17, <1>20, <1>22, <1>23
       DEF Moved, SetRow, Moves
<1>26. NobodyElse(fds, d4)
  <2>1. d4[c] # NoVnode /\ \A q \in Proc : q # c => d4[q] = d[q] /\ fds[q] = a[q]
    BY <1>6, <1>15, <1>20, <1>23, SlotsFinite DEF Moves, SetRow, CwdT, FdsT
  <2>. QED BY <1>5, <2>1 DEF NobodyElse
<1>27. Outcome(S, W4, fds, d4, g)
  BY <1>24, <1>26, SumsParts, UpStops DEF Outcome
<1>. QED BY <1>1, <1>25, <1>27 DEF CallReturns

(* exit                                                                     *)
LEMMA ExitReturns ==
  ASSUME Ready, NEW p \in Proc, exit(p)
  PROVE  CallReturns
<1>1. PICK S : S = Now
  OBVIOUS
<1>2. PICK a : a = p_files
  OBVIOUS
<1>3. PICK d : d = p_cwd
  OBVIOUS
<1>4. PICK g : g = lost
  OBVIOUS
<1>5. Sums(S, S, a, d, g) /\ NobodyElse(a, d)
  BY <1>1, <1>2, <1>3, <1>4 DEF Ready
<1>6. d[p] # NoVnode /\ a \in FdsT /\ d \in CwdT
  BY <1>3, <1>5, SumsParts DEF exit, Runs
<1>7. PICK v \in VnodeT : v = d[p]
  BY <1>6 DEF CwdT
<1>8. PICK W1 : W1 = vput(S, v)
  OBVIOUS
<1>9. PICK d1 : Moves(d, p, NoVnode, d1)
  BY DEF Moves
<1>10. Sums(S, W1, a, d1, g)
  <2>1. d[p] = v
    BY <1>7
  <2>. QED BY ONLY <1>5, <1>7, <1>8, <1>9, <2>1, p \in Proc, SumsLeave
<1>11. PICK W2 : W2 = OverFds(fput, W1, a[p])
  OBVIOUS
<1>12. PICK fds : SetRow(a, p, NoFds, fds)
  BY DEF SetRow
<1>13. Sums(S, W2, fds, d1, g)
  BY <1>10, <1>11, <1>12, FputAll
<1>14. Return(W2, fds, d1, g)
  BY <1>1, <1>2, <1>3, <1>4, <1>7, <1>8, <1>9, <1>11, <1>12 DEF exit, SetRow, Moves, NoFds
<1>15. NobodyElse(fds, d1)
  <2>1. \A q \in Proc : q # p => d1[q] = d[q] /\ fds[q] = a[q]
    BY <1>6, <1>9, <1>12 DEF Moves, SetRow, CwdT, FdsT
  <2>2. fds[p] = NoFds
    BY <1>6, <1>12 DEF SetRow, FdsT
  <2>. QED BY <1>5, <2>1, <2>2 DEF NobodyElse, NoFds
<1>16. Outcome(S, W2, fds, d1, g)
  BY <1>13, <1>15, SumsParts, UpStops DEF Outcome
<1>. QED BY <1>1, <1>14, <1>16 DEF CallReturns
-----------------------------------------------------------------------------
(* The inductive invariant.  Where it holds, a call begins with everything  *)
(* counted.                                                                 *)
LEMMA InvReady ==
  ASSUME FilesIInv, mounted, panic = ""
  PROVE  Ready
<1>1. PICK S : S = Now
  OBVIOUS
<1>2. S.inode = inode /\ S.vnode = vnode /\ S.panic = panic /\ S.file = file /\ S.stranded = stranded
  BY <1>1, NowParts
<1>3. Good(S) /\ InUse(S, 0) # {} /\ Up(S)
  BY <1>1, <1>2 DEF FilesIInv, Up
<1>4. FilesOK(S.file)
  BY <1>2 DEF FilesIInv, FilesTypeOK, FilesOK
<1>5. p_files \in FdsT /\ p_cwd \in CwdT /\ lost \in LostT
  BY DEF FilesIInv, FilesTypeOK, FdsT, CwdT, LostT
<1>6. ASSUME NEW v \in VnodeT PROVE Refs(S)[v] = Holders(S.file, p_cwd, VnodeOf(S, 0), v)
  <2>1. Refs(S)[v] = vnode[v].vn_refcount
    BY <1>2, <1>3, RefsType
  <2>. QED BY <1>1, <1>2, <2>1 DEF FilesIInv, VnodesCounted
<1>7. \A f \in FileT : S.file[f].f_refcount = Slots(p_files, f) + lost[f]
  BY <1>2 DEF FilesIInv, FilesCounted
<1>8. Stays(S.vnode, S.vnode) /\ FileStays(S.file, S.file)
  BY DEF Stays, FileStays
<1>16. Kinds(S.vnode, S.file, p_cwd)
  BY <1>2 DEF FilesIInv
<1>9. Sums(S, S, p_files, p_cwd, lost)
  BY <1>3, <1>4, <1>5, <1>6, <1>7, <1>8, <1>16 DEF Sums
<1>10. NobodyElse(p_files, p_cwd)
  BY DEF FilesIInv, NobodyElse
<1>11. AllThere(S)
  <2> SUFFICES ASSUME NEW v \in VnodeT PROVE S.inode[S.vnode[v].vn_vno] # NoInode
    BY DEF AllThere
  <2>1. CASE S.vnode[v].vn_refcount = 0
    <3>1. S.vnode[v].vn_vno = 0
      <4>1. \A w \in VnodeT : vnode[w].vn_refcount = 0 => vnode[w] = Unused
        BY DEF FilesIInv, FilesTypeOK
      <4>2. S.vnode[v] = Unused
        BY <1>2, <2>1, <4>1
      <4>3. Unused.vn_vno = 0
        BY DEF Unused
      <4>. QED BY <4>2, <4>3
    <3>2. S.inode[0] # NoInode
      BY <1>3 DEF Good, RootOK
    <3>. QED BY <3>1, <3>2
  <2>2. CASE S.vnode[v].vn_refcount # 0
    <3>1. Refs(S)[v] > 0
      <4>1. Refs(S)[v] \in Nat /\ Refs(S)[v] = S.vnode[v].vn_refcount
        BY <1>3, RefsType
      <4>2. Refs(S)[v] # 0
        BY <2>2, <4>1
      <4>. QED BY ONLY <4>1, <4>2
    <3>. QED BY <1>3, <3>1, InUseShows
  <2>. QED BY <2>1, <2>2
<1>12. Quiet(S, S) /\ Kept(S.vnode, S.vnode)
  BY DEF Quiet, SameEntries, SameEntry, SameSizes, Kept
<1>13. \A v \in VnodeT : Refs(S)[v] <= Refs(S)[v]
  <2> SUFFICES ASSUME NEW v \in VnodeT PROVE Refs(S)[v] <= Refs(S)[v]
    OBVIOUS
  <2>1. Refs(S)[v] \in Nat
    BY <1>3, RefsType
  <2>. QED BY ONLY <2>1
<1>14. Calm(S, S)
  BY <1>3, <1>11, <1>12, <1>13 DEF Calm
<1>15. RootShown(S)
  BY <1>3, ShownIs DEF RootShown
<1>. QED BY <1>1, <1>9, <1>10, <1>14, <1>15 DEF Ready

(* Only where the kernel stopped changes.                                   *)
LEMMA GoodPanic ==
  ASSUME NEW S, Good(S), NEW U \in StateT, U.inode = S.inode, U.vnode = S.vnode,
         U.stranded = S.stranded, U.free = S.free
  PROVE  Good(U)
BY DEF Good

AnyOf(X) == CHOOSE v \in X : TRUE

(* The same vnodes are in use for the same inodes.                          *)
LEMMA SameVnodes ==
  ASSUME NEW S, NEW T, T.vnode = S.vnode
  PROVE  \A i : InUse(T, i) = InUse(S, i) /\ VnodeOf(T, i) = VnodeOf(S, i)
<1>1. \A i : InUse(T, i) = InUse(S, i)
  BY DEF InUse
<1>2. \A i : /\ VnodeOf(S, i) = IF InUse(S, i) = {} THEN NoVnode ELSE AnyOf(InUse(S, i))
            /\ VnodeOf(T, i) = IF InUse(T, i) = {} THEN NoVnode ELSE AnyOf(InUse(T, i))
  BY DEF VnodeOf, AnyOf
<1>. QED BY <1>1, <1>2

(* The kernel stops, for a cause.                                           *)
StopsAt(where) ==
  /\ panic' = where /\ where # "" /\ where \in Stops \cup {"vfs_shutdown"}
  /\ Cause(Now, p_cwd, p_files, lost, where)
  /\ UNCHANGED <<inode, vnode, stranded, file, p_files, p_cwd, lost, mounted>>

(* The kernel stops; nothing else changes.                                  *)
LEMMA StopKeeps ==
  ASSUME FilesIInv, NEW where, StopsAt(where)
  PROVE  FilesIInv'
<1>0. where \in PanicT
  <2>1. where \in Stops \cup {"vfs_shutdown"}
    BY DEF StopsAt
  <2>. QED BY <2>1 DEF Stops, PanicT
<1>1. /\ panic' = where /\ where \in Stops \cup {"vfs_shutdown"} /\ where \in PanicT
      /\ inode' = inode /\ vnode' = vnode /\ stranded' = stranded /\ file' = file
      /\ p_files' = p_files /\ p_cwd' = p_cwd /\ lost' = lost /\ mounted' = mounted
  BY <1>0 DEF StopsAt
<1>2. FilesTypeOK'
  BY <1>1 DEF FilesIInv, FilesTypeOK
<1>3. PICK S : S = Now
  OBVIOUS
<1>4. PICK U : U = Now'
  OBVIOUS
<1>5. /\ S.inode = inode /\ S.vnode = vnode /\ S.stranded = stranded /\ S.file = file
      /\ S.free = SetToSeq({v \in VnodeT : vnode[v].vn_refcount = 0})
  BY <1>3, NowParts
<1>6. /\ U.inode = S.inode /\ U.vnode = S.vnode /\ U.stranded = S.stranded /\ U.file = S.file
      /\ U.free = S.free /\ U.panic = where
      /\ U = [inode |-> inode, vnode |-> vnode, stranded |-> stranded, panic |-> where,
              file |-> file, free |-> S.free]
  BY <1>1, <1>4, <1>5 DEF Now
<1>7. \A i : InUse(U, i) = InUse(S, i) /\ VnodeOf(U, i) = VnodeOf(S, i)
  BY <1>6, SameVnodes
<1>8. mounted => Good(U) /\ InUse(U, 0) # {}
  <2> SUFFICES ASSUME mounted PROVE Good(U) /\ InUse(U, 0) # {}
    OBVIOUS
  <2>1. Good(S) /\ InUse(S, 0) # {}
    BY <1>3 DEF FilesIInv
  <2>2. S \in StateT
    BY <2>1 DEF Good
  <2>3. U \in StateT
    BY <1>1, <1>5, <1>6, <2>2 DEF StateT
  <2>. QED BY <1>6, <1>7, <2>1, <2>3, GoodPanic
<1>9. VnodesCounted'
  <2>1. VnodeOf(Now', 0) = VnodeOf(Now, 0)
    BY <1>3, <1>4, <1>7
  <2>2. VnodesCounted
    BY DEF FilesIInv
  <2>. QED BY <1>1, <2>1, <2>2 DEF VnodesCounted
<1>10. FilesCounted'
  BY <1>1 DEF FilesIInv, FilesCounted
<1>11. StopsAccounted' /\ Kinds(vnode', file', p_cwd')
  <2>1. PICK d : d = p_cwd
    OBVIOUS
  <2>2. PICK a : a = p_files
    OBVIOUS
  <2>3. PICK g : g = lost
    OBVIOUS
  <2>4. Cause(S, d, a, g, where)
    BY <1>3, <2>1, <2>2, <2>3 DEF StopsAt
  <2>5. Cause(U, d, a, g, where)
    BY <1>6, <2>4 DEF Cause
  <2>6. p_cwd' = d /\ p_files' = a /\ lost' = g
    BY <1>1, <2>1, <2>2, <2>3
  <2>7. Kinds(vnode, file, p_cwd)
    BY DEF FilesIInv
  <2>. QED BY <1>1, <1>4, <2>5, <2>6, <2>7 DEF StopsAccounted
<1>12. (~mounted => (\A v \in VnodeT : vnode[v].vn_refcount = 0) /\ inode = [i \in Ino |-> NoInode])'
  BY <1>1 DEF FilesIInv
<1>13. /\ (\A f \in FileT : file[f].f_refcount > 0 => file[f].f_vnode \in VnodeT)'
       /\ (\A p \in Proc : IF p_cwd[p] = NoVnode THEN \A fd \in Fd : p_files[p][fd] = NoFile ELSE mounted)'
  BY <1>1 DEF FilesIInv
<1>14. mounted' => Good(Now') /\ InUse(Now', 0) # {}
  BY <1>1, <1>4, <1>8
<1>. QED BY <1>1, <1>2, <1>9, <1>10, <1>11, <1>12, <1>13, <1>14 DEF FilesIInv

(* What OpenFilesStay says of a step                                        *)
StayStep ==
  mounted' =>
    /\ \A p \in Proc, fd \in Fd :
         p_files[p][fd] = p_files'[p][fd] /\ p_files[p][fd] # NoFile => Shows(p, fd)' = Shows(p, fd)
    /\ \A p \in Proc : p_cwd[p] = p_cwd'[p] /\ p_cwd[p] # NoVnode =>
         vnode'[p_cwd[p]].vn_vno = vnode[p_cwd[p]].vn_vno

(* Where vnodes, files and descriptors stay, what is open stays.            *)
LEMMA SameStays ==
  ASSUME UNCHANGED <<vnode, file, p_files, p_cwd>>
  PROVE  StayStep
BY DEF StayStep, Shows

(* A call that returns: the state after it                                  *)
Ended(T, fds, cwd, gone) ==
  /\ panic' = "" /\ mounted /\ mounted'
  /\ inode' = T.inode /\ vnode' = Blank(T.vnode) /\ stranded' = T.stranded /\ file' = T.file
  /\ p_files' = fds /\ p_cwd' = cwd /\ lost' = gone

(* What Return makes of a state in which the kernel runs.                   *)
LEMMA EndedIs ==
  ASSUME mounted, NEW T, NEW fds, NEW cwd, NEW gone, Return(T, fds, cwd, gone), Up(T)
  PROVE  Ended(T, fds, cwd, gone)
BY DEF Return, Ended, Up, Blank

(* The vnode of the root is the same.                                       *)
LEMMA RootStays ==
  ASSUME NEW S, NEW T, NEW fds, NEW cwd, NEW gone, Sums(S, T, fds, cwd, gone),
         Good(S), RootShown(S), NEW U, Good(U), U.vnode = Blank(T.vnode)
  PROVE  VnodeOf(U, 0) = VnodeOf(S, 0) /\ InUse(U, 0) # {}
<1>1. PICK v \in VnodeT : S.vnode[v].vn_refcount > 0 /\ S.vnode[v].vn_vno = 0
  BY DEF RootShown, Shown
<1>2. VnodeOf(S, 0) = v
  BY <1>1, TheVnode DEF Good
<1>3. T.vnode[v].vn_vno = 0 /\ T.vnode[v].vn_refcount > 0
  BY <1>1, <1>2, SumsParts, HeldInUse DEF Stays
<1>4. T.vnode \in [VnodeT -> VnodeRec]
  BY SumsParts, GoodParts, StateParts
<1>5. U.vnode[v] = T.vnode[v]
  BY <1>3, <1>4, BlankVnodes
<1>6. InUse(U, 0) = {v} /\ VnodeOf(U, 0) = v
  BY <1>3, <1>5, TheVnode DEF Good
<1>. QED BY <1>2, <1>6

(* The types of an inode that fits.                                         *)
LEMMA InodeTypes ==
  ASSUME NEW S, Good(S), NEW i \in Ino, S.inode[i] # NoInode
  PROVE  /\ S.inode[i].rf_mode \in {"data", "dir", "chr"} /\ S.inode[i].rf_linkcount \in Nat
         /\ S.inode[i].rf_size \in 0 .. (IF S.inode[i].rf_mode = "dir" THEN MaxDirent ELSE PageSize)
         /\ S.inode[i].rf_mem \in [Name \cup {Dot, DotDot} -> Ino \cup {Nowhere}]
<1>1. S.inode[i] \in InodeT
  BY GoodParts, StateParts DEF InodesT
<1>2. InodeOK(i, S.inode[i])
  BY GoodParts DEF InodesOK
<1>3. S.inode[i].rf_size \in Nat /\ MaxDirent \in Nat /\ PageSize \in Nat
  BY <1>1, RamfsAssumption DEF InodeT
<1>4. S.inode[i].rf_size \in 0 .. (IF S.inode[i].rf_mode = "dir" THEN MaxDirent ELSE PageSize)
  <2>1. CASE S.inode[i].rf_mode = "dir"
    BY <1>2, <1>3, <2>1 DEF InodeOK
  <2>2. CASE S.inode[i].rf_mode # "dir"
    BY <1>2, <1>3, <2>2 DEF InodeOK
  <2>. QED BY <2>1, <2>2
<1>. QED BY <1>1, <1>4 DEF InodeT

(* The invariant after a call.                                              *)
LEMMA EndKeeps ==
  ASSUME FilesIInv, Ready, NEW T, NEW fds, NEW cwd, NEW gone, Ended(T, fds, cwd, gone),
         Sums(Now, T, fds, cwd, gone), NobodyElse(fds, cwd)
  PROVE  FilesIInv'
<1>1. PICK S : S = Now
  OBVIOUS
<1>2. Sums(S, T, fds, cwd, gone) /\ Good(S) /\ RootShown(S)
  BY <1>1, SumsParts DEF Ready
<1>3. /\ Good(T) /\ FilesOK(T.file) /\ T.file \in [FileT -> FileRec]
      /\ fds \in FdsT /\ cwd \in CwdT /\ gone \in LostT
      /\ \A v \in VnodeT : Refs(T)[v] = Holders(T.file, cwd, VnodeOf(S, 0), v)
      /\ \A f \in FileT : T.file[f].f_refcount = Slots(fds, f) + gone[f]
  BY <1>2, SumsParts
<1>4. /\ panic' = "" /\ mounted' = TRUE
      /\ inode' = T.inode /\ vnode' = Blank(T.vnode) /\ stranded' = T.stranded /\ file' = T.file
      /\ p_files' = fds /\ p_cwd' = cwd /\ lost' = gone
  BY DEF Ended, FilesIInv, FilesTypeOK
<1>5. T.vnode \in [VnodeT -> VnodeRec] /\ T.inode \in InodesT /\ T.stranded \in [Ino -> Nat]
  BY <1>3, GoodParts, StateParts
<1>6. PICK vn : vn = Blank(T.vnode)
  OBVIOUS
<1>7. /\ vn \in [VnodeT -> VnodeRec]
      /\ \A v \in VnodeT : vn[v].vn_refcount = 0 => vn[v] = Unused
  BY <1>5, <1>6, BlankVnodes
<1>8. PICK U : U = Now'
  OBVIOUS
<1>9. PICK free : free = SetToSeq({v \in VnodeT : vn[v].vn_refcount = 0})
  OBVIOUS
<1>10. free \in Seq(VnodeT) /\ FreeOK(vn, free)
  BY <1>7, <1>9, FreeVnodes
<1>11. U = [inode |-> T.inode, vnode |-> vn, stranded |-> T.stranded, panic |-> "",
            file |-> T.file, free |-> free]
  BY <1>4, <1>6, <1>8, <1>9 DEF Now
<1>12. U \in StateT
  <2>1. "" \in PanicT
    BY DEF PanicT
  <2>. QED BY <1>3, <1>5, <1>7, <1>10, <1>11, <2>1 DEF StateT, InodesT
<1>13. U.vnode = vn /\ U.inode = T.inode /\ U.stranded = T.stranded /\ U.free = free
  BY <1>11
<1>14. Good(U) /\ Refs(U) = Refs(T)
  BY <1>3, <1>6, <1>10, <1>12, <1>13, BlankGood
<1>15. VnodeOf(U, 0) = VnodeOf(S, 0) /\ InUse(U, 0) # {}
  BY <1>2, <1>6, <1>13, <1>14, RootStays
<1>16. FilesTypeOK'
  <2>1. \A i \in Ino : inode'[i] # NoInode =>
          /\ inode'[i].rf_mode \in {"data", "dir", "chr"} /\ inode'[i].rf_linkcount \in Nat
          /\ inode'[i].rf_size \in 0 .. (IF inode'[i].rf_mode = "dir" THEN MaxDirent ELSE PageSize)
          /\ inode'[i].rf_mem \in [Name \cup {Dot, DotDot} -> Ino \cup {Nowhere}]
    BY <1>3, <1>4, InodeTypes
  <2>2. /\ vnode' \in [VnodeT -> [vn_vno : Ino, vn_mode : {"data", "dir", "chr"},
                                  vn_len : 0 .. PageSize, vn_refcount : Nat]]
        /\ \A v \in VnodeT : vnode'[v].vn_refcount = 0 => vnode'[v] = Unused
    BY <1>4, <1>6, <1>7 DEF VnodeRec
  <2>3. stranded' \in [Ino -> Nat] /\ panic' \in PanicT /\ mounted' \in BOOLEAN
    BY <1>4, <1>5 DEF PanicT
  <2>4. /\ file' \in [FileT -> [f_refcount : Nat, f_mode : SUBSET {"read", "write", "append"},
                                f_vnode : VnodeT \cup {NoVnode}, f_pos : Nat]]
        /\ \A f \in FileT : (file'[f].f_refcount = 0) <=> (file'[f] = NoFileT)
    BY <1>3, <1>4 DEF FileRec, FilesOK
  <2>5. /\ p_files' \in [Proc -> [Fd -> FileT \cup {NoFile}]]
        /\ p_cwd' \in [Proc -> VnodeT \cup {NoVnode}] /\ lost' \in [FileT -> 0 .. MaxLost]
    BY <1>3, <1>4 DEF FdsT, CwdT, LostT
  <2>. QED BY <2>1, <2>2, <2>3, <2>4, <2>5 DEF FilesTypeOK
<1>17. VnodesCounted'
  <2>1. ASSUME NEW v \in VnodeT
        PROVE  vnode'[v].vn_refcount = Holders(file', p_cwd', VnodeOf(Now', 0), v)
    <3>1. Refs(U)[v] = vn[v].vn_refcount
      BY <1>13, <1>14, RefsType
    <3>. QED BY <1>3, <1>4, <1>6, <1>8, <1>14, <1>15, <3>1
  <2>. QED BY <1>4, <2>1 DEF VnodesCounted
<1>18. FilesCounted'
  BY <1>3, <1>4 DEF FilesCounted
<1>19. \A f \in FileT : file'[f].f_refcount > 0 => file'[f].f_vnode \in VnodeT
  BY <1>3, <1>4 DEF FilesOK
<1>20. \A p \in Proc : IF p_cwd'[p] = NoVnode THEN \A fd \in Fd : p_files'[p][fd] = NoFile ELSE mounted'
  BY <1>4 DEF NobodyElse
<1>21. panic' \in Stops \cup {"vfs_shutdown"} /\ StopsAccounted'
  BY <1>4 DEF Stops, StopsAccounted
<1>23. Kinds(vnode', file', p_cwd')
  <2>1. Stays(T.vnode, vn)
    BY <1>5, <1>6, BlankVnodes DEF Stays
  <2>2. SameFiles(T.file, T.file)
    BY DEF SameFiles
  <2>3. Kinds(vn, T.file, cwd)
    BY <1>2, <2>1, <2>2, KindsStay
  <2>. QED BY <1>4, <1>6, <2>3
<1>22. Good(Now') /\ InUse(Now', 0) # {}
  BY <1>8, <1>14, <1>15
<1>. QED BY <1>4, <1>16, <1>17, <1>18, <1>19, <1>20, <1>21, <1>22, <1>23 DEF FilesIInv

(* What a descriptor shows, and where a process is, stays.                  *)
LEMMA EndStays ==
  ASSUME Ready, NEW T, NEW fds, NEW cwd, NEW gone, Ended(T, fds, cwd, gone),
         Sums(Now, T, fds, cwd, gone)
  PROVE  StayStep
<1>1. PICK S : S = Now
  OBVIOUS
<1>2. PICK a : a = p_files
  OBVIOUS
<1>3. PICK d : d = p_cwd
  OBVIOUS
<1>4. PICK g : g = lost
  OBVIOUS
<1>5. Sums(S, S, a, d, g) /\ Sums(S, T, fds, cwd, gone)
  BY <1>1, <1>2, <1>3, <1>4 DEF Ready
<1>6. /\ vnode' = Blank(T.vnode) /\ file' = T.file /\ p_files' = fds /\ p_cwd' = cwd
      /\ S.vnode = vnode /\ S.file = file
  BY <1>1, NowParts DEF Ended
<1>7. T.vnode \in [VnodeT -> VnodeRec]
  BY <1>5, SumsParts, GoodParts, StateParts
<1>8. PICK vn : vn = Blank(T.vnode)
  OBVIOUS
<1>9. \A v \in VnodeT : T.vnode[v].vn_refcount > 0 => vn[v] = T.vnode[v]
  BY <1>7, <1>8, BlankVnodes
<1>10. a \in FdsT /\ d \in CwdT /\ Stays(S.vnode, T.vnode) /\ FileStays(S.file, T.file)
  BY <1>5, SumsParts
<1>11. ASSUME NEW p \in Proc, NEW fd \in Fd, a[p][fd] = fds[p][fd], a[p][fd] # NoFile
       PROVE  Shows(p, fd)' = Shows(p, fd)
  <2>1. PICK f \in FileT : f = a[p][fd]
    BY <1>10, <1>11 DEF FdsT
  <2>2. S.file[f].f_refcount > 0 /\ S.file[f].f_vnode \in VnodeT
    BY <1>5, <2>1, HeldFile
  <2>3. T.file[f].f_refcount > 0
    BY <1>5, <1>11, <2>1, HeldFile
  <2>4. PICK v \in VnodeT : v = S.file[f].f_vnode
    BY <2>2
  <2>5. T.file[f].f_vnode = v
    BY <1>10, <2>2, <2>3, <2>4 DEF FileStays
  <2>6. S.vnode[v].vn_refcount > 0 /\ T.vnode[v].vn_refcount > 0
    BY <1>5, <2>4, <2>5, HeldInUse
  <2>7. vn[v].vn_vno = S.vnode[v].vn_vno /\ vn[v].vn_mode = S.vnode[v].vn_mode
    BY <1>9, <1>10, <2>6 DEF Stays
  <2>8. file[p_files[p][fd]].f_vnode = v /\ file'[p_files'[p][fd]].f_vnode = v
    BY <1>2, <1>6, <1>11, <2>1, <2>4, <2>5
  <2>9. vnode'[v].vn_vno = vnode[v].vn_vno /\ vnode'[v].vn_mode = vnode[v].vn_mode
    BY <1>6, <1>8, <2>7
  <2>10. v # NoVnode
    BY SlotsFinite
  <2>. QED BY <2>8, <2>9, <2>10 DEF Shows
<1>12. ASSUME NEW p \in Proc, d[p] = cwd[p], d[p] # NoVnode
       PROVE  vnode'[d[p]].vn_vno = vnode[d[p]].vn_vno
  <2>1. PICK v \in VnodeT : v = d[p]
    BY <1>10, <1>12 DEF CwdT
  <2>2. S.vnode[v].vn_refcount > 0 /\ T.vnode[v].vn_refcount > 0
    BY <1>5, <1>12, <2>1, HeldInUse
  <2>3. vn[v].vn_vno = S.vnode[v].vn_vno
    BY <1>9, <1>10, <2>2 DEF Stays
  <2>. QED BY <1>6, <1>8, <2>1, <2>3
<1>. QED BY <1>2, <1>3, <1>6, <1>11, <1>12 DEF StayStep

(* Whatever call it was                                                     *)
LEMMA CallKeeps ==
  ASSUME FilesIInv, mounted, panic = "", CallReturns
  PROVE  FilesIInv' /\ StayStep
<1>1. Ready
  BY InvReady
<1>2. PICK T, fds, cwd, gone : Return(T, fds, cwd, gone) /\ Outcome(Now, T, fds, cwd, gone)
  BY DEF CallReturns
<1>3. CASE Up(T)
  <2>1. Ended(T, fds, cwd, gone)
    BY <1>2, <1>3, EndedIs
  <2>2. Sums(Now, T, fds, cwd, gone) /\ NobodyElse(fds, cwd)
    BY <1>2, <1>3 DEF Outcome
  <2>. QED BY <1>1, <2>1, <2>2, EndKeeps, EndStays
<1>4. CASE ~Up(T)
  <2>1. /\ panic' = T.panic /\ T.panic # ""
        /\ UNCHANGED <<inode, vnode, stranded, file, p_files, p_cwd, lost, mounted>>
    BY <1>2, <1>4 DEF Return, Up
  <2>2. T.panic \in Stops /\ Cause(Now, p_cwd, p_files, lost, T.panic)
    BY <1>2, <2>1 DEF Outcome, StopsOK
  <2>4. PICK where : where = T.panic
    OBVIOUS
  <2>5. StopsAt(where)
    BY <2>1, <2>2, <2>4 DEF StopsAt
  <2>. QED BY <2>1, <2>5, StopKeeps, SameStays
<1>. QED BY <1>3, <1>4
-----------------------------------------------------------------------------
(* Every call, given a path of the model                                    *)
LEMMA CallBegins ==
  ASSUME Ready, NEW p \in Proc, Runs(p), NEW path \in Path, path \in Given
  PROVE  Begins(Now, p_cwd[p], path)
<1>1. PICK S : S = Now
  OBVIOUS
<1>2. PICK d : d = p_cwd
  OBVIOUS
<1>3. PICK a : a = p_files
  OBVIOUS
<1>4. PICK g : g = lost
  OBVIOUS
<1>5. Sums(S, S, a, d, g) /\ Calm(S, S) /\ RootShown(S)
  BY <1>1, <1>2, <1>3, <1>4 DEF Ready
<1>6. d \in CwdT
  BY <1>5, SumsParts
<1>7. PICK v \in VnodeT : v = d[p]
  BY <1>2, <1>6 DEF CwdT, Runs
<1>8. S.vnode[v].vn_refcount > 0
  BY <1>5, <1>7, HeldInUse
<1>9. Refs(S)[v] > 0
  BY <1>5, <1>8, RefsType DEF Calm
<1>10. PICK start : start = StartIn(S, v, path)
  OBVIOUS
<1>11. start = StartOf(S.vnode, d, p, path)
  BY <1>7, <1>10 DEF StartIn, StartOf
<1>12. IsDirIn(S.inode, start)
  <2>1. CASE path.abs
    <3>1. RootOK(S.inode) /\ 0 \in Ino
      BY <1>5, CalmFacts, GoodParts, InoFacts
    <3>. QED BY <1>10, <2>1, <3>1 DEF StartIn, IsDirIn, RootOK
  <2>2. CASE ~path.abs
    <3>1. S.vnode[v].vn_mode = "dir"
      <4>1. Kinds(S.vnode, S.file, d)
        BY <1>5, SumsParts
      <4>2. d[p] # NoVnode
        BY <1>2 DEF Runs
      <4>. QED BY <1>7, <4>1, <4>2 DEF Kinds
    <3>2. start = S.vnode[v].vn_vno
      BY <1>10, <2>2 DEF StartIn
    <3>. QED BY <1>5, <1>9, <3>1, <3>2, ShowsDir
  <2>. QED BY <2>1, <2>2
<1>13. start \in Ino
  BY <1>12 DEF IsDirIn
<1>14. PICK names : names = path.dirs
  OBVIOUS
<1>15. names \in Seq(Name \cup {Dot, DotDot})
  BY <1>14 DEF Path
<1>16. ASSUME NEW k \in 1 .. Len(names), NEW i \in Ino, Leads(S.inode, start, names, k - 1, i)
       PROVE  May(S, i, names[k])
  <2>1. ASSUME ~IsDirIn(S.inode, i) PROVE ThroughFile(S.inode, S.vnode, d)
    <3>1. k # 1
      <4> SUFFICES ASSUME k = 1 PROVE FALSE
        OBVIOUS
      <4>1. Leads(S.inode, start, names, 0, i)
        BY <1>16
      <4>2. i = start
        BY <1>13, <4>1, LeadsNone
      <4>. QED BY <1>12, <2>1, <4>2
    <3>2. PICK m : m = k - 1
      OBVIOUS
    <3>3. m \in 1 .. (Len(path.dirs) - 1)
      <4>1. Len(names) \in Nat
        BY <1>15
      <4>. QED BY <1>14, <3>1, <3>2, <4>1
    <3>4. Leads(S.inode, StartOf(S.vnode, d, p, path), path.dirs, m, i)
      BY <1>11, <1>14, <1>16, <3>2
    <3>5. d[p] # NoVnode
      BY <1>2 DEF Runs
    <3>. QED BY <2>1, <3>3, <3>4, <3>5 DEF ThroughFile
  <2>2. names[k] # NoName
    BY <1>15, RamfsAssumption
  <2>3. ASSUME names[k] = DotDot, Astray(S.inode, i) PROVE UpFromAstray(S.inode, S.vnode, d)
    <3>1. k \in 1 .. (Len(path.dirs) + 1) /\ Append(path.dirs, path.last)[k] = DotDot
      BY <1>14, <1>15, <2>3
    <3>2. Leads(S.inode, StartOf(S.vnode, d, p, path), path.dirs, k - 1, i)
      BY <1>11, <1>14, <1>16
    <3>3. d[p] # NoVnode
      BY <1>2 DEF Runs
    <3>. QED BY <2>3, <3>1, <3>2, <3>3 DEF UpFromAstray
  <2>. QED BY <1>2, <2>1, <2>2, <2>3 DEF May
<1>17. ASSUME path.last = DotDot, NEW i \in Ino, Leads(S.inode, start, names, Len(names), i),
              Astray(S.inode, i)
       PROVE  UpFromAstray(S.inode, S.vnode, d)
  <2>1. PICK k : k = Len(names) + 1
    OBVIOUS
  <2>2. /\ k \in 1 .. (Len(path.dirs) + 1) /\ Append(path.dirs, path.last)[k] = DotDot
        /\ k - 1 = Len(names)
    BY <1>14, <1>15, <1>17, <2>1
  <2>3. Leads(S.inode, StartOf(S.vnode, d, p, path), path.dirs, k - 1, i)
    BY <1>11, <1>14, <1>17, <2>2
  <2>4. d[p] # NoVnode
    BY <1>2 DEF Runs
  <2>. QED BY <1>17, <2>2, <2>3, <2>4 DEF UpFromAstray
<1>18. GivenPath(S, v, path)
  <2>1. MayWalk(S, start, names)
    BY <1>16 DEF MayWalk
  <2>. QED BY <1>2, <1>10, <1>12, <1>14, <1>17, <2>1 DEF GivenPath
<1>. QED BY <1>1, <1>2, <1>5, <1>7, <1>9, <1>18 DEF Begins

(* The paths that calls are made with.                                      *)
LEMMA CallPaths ==
  /\ \A call, path : path \in With(call) => path \in Path /\ path \in Given
  /\ \A path \in With("unlink") : path.last # DotDot
  /\ \A link \in Links : /\ link[1] \in Path /\ link[2] \in Path
                         /\ link[1] \in Given /\ link[2] \in Given
                         /\ link[2].last = NoName => Nameless
  /\ \A link \in Links : LinksInPlace => link[2].dirs = <<>>
BY FileTableAssumption DEF With, LinksInPlace, Given, Nameless

(* The calls on a path                                                      *)
LEMMA PathReturns ==
  ASSUME Ready, NEW p \in Proc,
         \/ \E path \in With("open"), flags \in OpenFlags : do_open(p, path, flags)
         \/ \E path \in With("mkdir") : do_mkdir(p, path)
         \/ \E path \in With("mknod") : do_mknod(p, path)
         \/ \E path \in With("rmdir") : do_rmdir(p, path)
         \/ \E path \in With("unlink") : do_unlink(p, path)
         \/ \E path \in With("chdir") : do_chdir(p, path)
         \/ \E link \in Links : do_link(p, link[1], link[2])
  PROVE  CallReturns
<1>1. ASSUME NEW path \in With("open"), NEW flags \in OpenFlags, do_open(p, path, flags)
      PROVE  CallReturns
  <2>1. Runs(p) /\ path \in Path /\ path \in Given
    BY <1>1, CallPaths DEF do_open
  <2>2. Begins(Now, p_cwd[p], path)
    BY <2>1, CallBegins
  <2>. QED BY <1>1, <2>2, OpenReturns
<1>2. ASSUME NEW path \in With("mkdir"), do_mkdir(p, path) PROVE CallReturns
  <2>1. Runs(p) /\ path \in Path /\ path \in Given
    BY <1>2, CallPaths DEF do_mkdir
  <2>2. Begins(Now, p_cwd[p], path)
    BY <2>1, CallBegins
  <2>. QED BY <1>2, <2>2, MkdirEnds, EndsReturns
<1>3. ASSUME NEW path \in With("mknod"), do_mknod(p, path) PROVE CallReturns
  <2>1. Runs(p) /\ path \in Path /\ path \in Given
    BY <1>3, CallPaths DEF do_mknod
  <2>2. Begins(Now, p_cwd[p], path)
    BY <2>1, CallBegins
  <2>. QED BY <1>3, <2>2, MknodEnds, EndsReturns
<1>4. ASSUME NEW path \in With("rmdir"), do_rmdir(p, path) PROVE CallReturns
  <2>1. Runs(p) /\ path \in Path /\ path \in Given
    BY <1>4, CallPaths DEF do_rmdir
  <2>2. Begins(Now, p_cwd[p], path)
    BY <2>1, CallBegins
  <2>. QED BY <1>4, <2>2, RmdirEnds, EndsReturns
<1>5. ASSUME NEW path \in With("unlink"), do_unlink(p, path) PROVE CallReturns
  <2>1. Runs(p) /\ path \in Path /\ path \in Given /\ path.last # DotDot
    BY <1>5, CallPaths DEF do_unlink
  <2>2. Begins(Now, p_cwd[p], path)
    BY <2>1, CallBegins
  <2>. QED BY <1>5, <2>1, <2>2, UnlinkEnds, EndsReturns
<1>6. ASSUME NEW path \in With("chdir"), do_chdir(p, path) PROVE CallReturns
  <2>1. Runs(p) /\ path \in Path /\ path \in Given
    BY <1>6, CallPaths DEF do_chdir
  <2>2. Begins(Now, p_cwd[p], path)
    BY <2>1, CallBegins
  <2>. QED BY <1>6, <2>2, ChdirReturns
<1>7. ASSUME NEW link \in Links, do_link(p, link[1], link[2]) PROVE CallReturns
  <2>1. PICK from : from = link[1]
    OBVIOUS
  <2>2. PICK to : to = link[2]
    OBVIOUS
  <2>3. /\ from \in Path /\ to \in Path /\ (LinksInPlace => to.dirs = <<>>)
        /\ from \in Given /\ to \in Given /\ (to.last = NoName => Nameless)
    BY <2>1, <2>2, CallPaths
  <2>4. do_link(p, from, to)
    BY <1>7, <2>1, <2>2
  <2>5. Runs(p)
    BY <2>4 DEF do_link
  <2>6. Begins(Now, p_cwd[p], from) /\ Begins(Now, p_cwd[p], to)
    BY <2>3, <2>5, CallBegins
  <2>. QED BY <2>3, <2>4, <2>6, DoLinkEnds, EndsReturns
<1>. QED BY <1>1, <1>2, <1>3, <1>4, <1>5, <1>6, <1>7

(* The calls on a descriptor                                                *)
LEMMA FdReturns ==
  ASSUME Ready, NEW p \in Proc, NEW fd \in Fd,
         \/ do_close(p, fd) \/ do_dup(p, fd) \/ do_read(p, fd) \/ do_write(p, fd)
         \/ \E nfd \in Fd : do_dup2(p, fd, nfd)
         \/ \E offset \in SeekTo, whence \in {"SEEK_SET", "SEEK_CUR", "SEEK_END"} :
              do_lseek(p, fd, offset, whence)
  PROVE  CallReturns
<1>1. CASE do_close(p, fd)
  BY <1>1, CloseReturns
<1>2. CASE do_dup(p, fd)
  BY <1>2, DupReturns
<1>3. CASE do_read(p, fd)
  BY <1>3, ReadReturns
<1>4. CASE do_write(p, fd)
  BY <1>4, WriteReturns
<1>5. ASSUME NEW nfd \in Fd, do_dup2(p, fd, nfd) PROVE CallReturns
  BY <1>5, Dup2Returns
<1>6. ASSUME NEW offset \in SeekTo, NEW whence \in {"SEEK_SET", "SEEK_CUR", "SEEK_END"},
             do_lseek(p, fd, offset, whence)
      PROVE  CallReturns
  BY <1>6, LseekReturns
<1>. QED BY <1>1, <1>2, <1>3, <1>4, <1>5, <1>6

(* What process p does in a step                                            *)
Acts(p) ==
  \/ \E path \in With("open"), flags \in OpenFlags : do_open(p, path, flags)
  \/ \E path \in With("mkdir") : do_mkdir(p, path)
  \/ \E path \in With("mknod") : do_mknod(p, path)
  \/ \E path \in With("rmdir") : do_rmdir(p, path)
  \/ \E path \in With("unlink") : do_unlink(p, path)
  \/ \E path \in With("chdir") : do_chdir(p, path)
  \/ \E link \in Links : do_link(p, link[1], link[2])
  \/ \E fd \in Fd :
       \/ do_close(p, fd) \/ do_dup(p, fd) \/ do_read(p, fd) \/ do_write(p, fd)
       \/ \E nfd \in Fd : do_dup2(p, fd, nfd)
       \/ \E offset \in SeekTo, whence \in {"SEEK_SET", "SEEK_CUR", "SEEK_END"} :
            do_lseek(p, fd, offset, whence)
  \/ \E c \in Proc : fork(p, c)
  \/ exit(p)

(* Only a process that there is acts.                                       *)
LEMMA ActsRuns ==
  ASSUME NEW p, Acts(p)
  PROVE  Runs(p)
BY DEF Acts, do_open, do_mkdir, do_mknod, do_rmdir, do_unlink, do_chdir, do_link, do_close, do_dup,
       do_read, do_write, do_dup2, do_lseek, fork, exit, Open

(* Whatever it does, the invariant stays.                                   *)
LEMMA ActsKeep ==
  ASSUME FilesIInv, NEW p \in Proc, Acts(p)
  PROVE  FilesIInv' /\ StayStep
<1>1. Runs(p)
  BY ActsRuns
<1>2. mounted /\ panic = ""
  BY <1>1 DEF Runs, FilesIInv
<1>3. Ready
  BY <1>2, InvReady
<1>4. CallReturns
  <2>1. CASE \/ \E path \in With("open"), flags \in OpenFlags : do_open(p, path, flags)
             \/ \E path \in With("mkdir") : do_mkdir(p, path)
             \/ \E path \in With("mknod") : do_mknod(p, path)
             \/ \E path \in With("rmdir") : do_rmdir(p, path)
             \/ \E path \in With("unlink") : do_unlink(p, path)
             \/ \E path \in With("chdir") : do_chdir(p, path)
             \/ \E link \in Links : do_link(p, link[1], link[2])
    BY <1>3, <2>1, PathReturns
  <2>2. ASSUME NEW fd \in Fd,
               \/ do_close(p, fd) \/ do_dup(p, fd) \/ do_read(p, fd) \/ do_write(p, fd)
               \/ \E nfd \in Fd : do_dup2(p, fd, nfd)
               \/ \E offset \in SeekTo, whence \in {"SEEK_SET", "SEEK_CUR", "SEEK_END"} :
                    do_lseek(p, fd, offset, whence)
        PROVE  CallReturns
    BY <1>3, <2>2, FdReturns
  <2>3. ASSUME NEW c \in Proc, fork(p, c) PROVE CallReturns
    BY <1>3, <2>3, ForkReturns
  <2>4. CASE exit(p)
    BY <1>3, <2>4, ExitReturns
  <2>. QED BY <2>1, <2>2, <2>3, <2>4 DEF Acts
<1>. QED BY <1>2, <1>4, CallKeeps
-----------------------------------------------------------------------------
(* Shutting down                                                            *)
LEMMA HowManyNone ==
  ASSUME NEW X, NEW g, NEW v, \A x \in X : g[x] # v
  PROVE  HowMany(X, g, v) = 0
<1>1. {x \in X : g[x] = v} = {}
  OBVIOUS
<1>. QED BY <1>1, FS_EmptySet DEF HowMany

(* Without a process no descriptor is open, and nobody is in a directory.   *)
LEMMA NobodyHolds ==
  ASSUME FilesIInv, \A p \in Proc : p_cwd[p] = NoVnode
  PROVE  /\ \A f \in FileT : Slots(p_files, f) = 0
         /\ \A v \in VnodeT : HowMany(Proc, p_cwd, v) = 0
<1>1. \A p \in Proc, fd \in Fd : p_files[p][fd] = NoFile
  BY DEF FilesIInv
<1>2. \A x \in Proc \X Fd : SlotsOf(p_files)[x] = NoFile
  BY <1>1 DEF SlotsOf
<1>3. \A f \in FileT : Slots(p_files, f) = 0
  BY <1>2, SlotsFinite, SlotsIs, HowManyNone
<1>4. \A v \in VnodeT : HowMany(Proc, p_cwd, v) = 0
  BY SlotsFinite, HowManyNone
<1>. QED BY <1>3, <1>4

(* Only a file with a lost reference can keep a vnode in use then.          *)
LEMMA UsedIsLost ==
  ASSUME FilesIInv, mounted, \A p \in Proc : p_cwd[p] = NoVnode, vfs_is_in_use
  PROVE  \E f \in FileT : lost[f] > 0
<1>1. PICK root : root = VnodeOf(Now, 0)
  OBVIOUS
<1>2. PICK v \in VnodeT : vnode[v].vn_refcount > (IF v = root THEN 1 ELSE 0)
  BY <1>1 DEF vfs_is_in_use
<1>3. vnode[v].vn_refcount = Holders(file, p_cwd, root, v)
  BY <1>1 DEF FilesIInv, VnodesCounted
<1>4. PICK a : a = HowMany(FileT, VnodesOf(file), v)
  OBVIOUS
<1>5. vnode[v].vn_refcount = a + 0 + If1(v, root)
  BY <1>3, <1>4, HoldersIs, NobodyHolds
<1>6. a \in Nat
  BY <1>4, SlotsFinite, HowManyNat
<1>7. a # 0
  BY <1>2, <1>5, <1>6 DEF If1
<1>8. PICK f \in FileT : VnodesOf(file)[f] = v
  BY <1>4, <1>7, HowManyNone
<1>9. file[f].f_vnode = v
  BY <1>8 DEF VnodesOf
<1>10. file[f].f_refcount # 0
  <2> SUFFICES ASSUME file[f] = NoFileT PROVE FALSE
    BY DEF FilesIInv, FilesTypeOK
  <2>. QED BY <1>9, SlotsFinite DEF NoFileT
<1>11. file[f].f_refcount = 0 + lost[f]
  BY NobodyHolds DEF FilesIInv, FilesCounted
<1>12. lost[f] \in Nat
  BY FileTableAssumption DEF FilesIInv, FilesTypeOK
<1>. QED BY <1>10, <1>11, <1>12

(* A vnode that is not in use.                                              *)
LEMMA UnusedVnode ==
  Unused \in VnodeRec /\ Unused.vn_refcount = 0
BY InoFacts, RamfsAssumption DEF Unused, VnodeRec

(* The file system is gone.                                                 *)
LEMMA UnmountedKeeps ==
  ASSUME FilesIInv, mounted, panic = "", \A p \in Proc : p_cwd[p] = NoVnode, ~vfs_is_in_use,
         mounted' = FALSE, inode' = [i \in Ino |-> NoInode], vnode' = [v \in VnodeT |-> Unused],
         stranded' = [i \in Ino |-> 0], UNCHANGED <<panic, file, p_files, p_cwd, lost>>
  PROVE  FilesIInv'
<1>1. Unused \in VnodeRec /\ Unused.vn_refcount = 0
  BY UnusedVnode
<1>2. FilesTypeOK'
  <2>1. vnode' \in [VnodeT -> [vn_vno : Ino, vn_mode : {"data", "dir", "chr"},
                               vn_len : 0 .. PageSize, vn_refcount : Nat]]
    BY <1>1 DEF VnodeRec
  <2>. QED BY <2>1 DEF FilesIInv, FilesTypeOK
<1>3. ASSUME NEW v \in VnodeT PROVE vnode'[v].vn_refcount = Holders(file', p_cwd', NoVnode, v)
  <2>1. PICK root : root = VnodeOf(Now, 0)
    OBVIOUS
  <2>2. ~(vnode[v].vn_refcount > (IF v = root THEN 1 ELSE 0))
    BY <2>1 DEF vfs_is_in_use
  <2>3. vnode[v].vn_refcount = Holders(file, p_cwd, root, v)
    BY <2>1 DEF FilesIInv, VnodesCounted
  <2>4. PICK a : a = HowMany(FileT, VnodesOf(file), v)
    OBVIOUS
  <2>5. a \in Nat
    BY <2>4, SlotsFinite, HowManyNat
  <2>6. vnode[v].vn_refcount = a + 0 + If1(v, root)
    BY <2>3, <2>4, HoldersIs, NobodyHolds
  <2>7. a = 0
    <3>1. CASE v = root
      BY ONLY <2>2, <2>5, <2>6, <3>1 DEF If1
    <3>2. CASE v # root
      BY ONLY <2>2, <2>5, <2>6, <3>2 DEF If1
    <3>. QED BY <3>1, <3>2
  <2>8. Holders(file, p_cwd, NoVnode, v) = 0 + 0 + If1(v, NoVnode)
    BY <2>4, <2>7, HoldersIs, NobodyHolds
  <2>9. v # NoVnode
    BY SlotsFinite
  <2>10. Holders(file', p_cwd', NoVnode, v) = Holders(file, p_cwd, NoVnode, v)
    OBVIOUS
  <2>11. If1(v, NoVnode) = 0
    BY <2>9 DEF If1
  <2>12. vnode'[v].vn_refcount = 0
    BY <1>1
  <2>. QED BY ONLY <2>8, <2>10, <2>11, <2>12
<1>4. VnodesCounted'
  BY <1>3 DEF VnodesCounted
<1>5. FilesCounted'
  BY DEF FilesIInv, FilesCounted
<1>6. Kinds(vnode', file', p_cwd')
  <2>1. \A v \in VnodeT : vnode'[v].vn_mode = "data"
    BY DEF Unused
  <2>2. \A f \in FileT : file[f].f_refcount > 0 => file[f].f_vnode \in VnodeT
    BY DEF FilesIInv
  <2>. QED BY <2>1, <2>2 DEF Kinds
<1>7. StopsAccounted'
  BY DEF StopsAccounted
<1>. QED BY <1>1, <1>2, <1>4, <1>5, <1>6, <1>7 DEF FilesIInv

(* vfs_shutdown (vfs.c)                                                     *)
LEMMA ShutdownKeeps ==
  ASSUME FilesIInv, vfs_shutdown
  PROVE  FilesIInv' /\ StayStep
<1>1. mounted /\ panic = "" /\ \A p \in Proc : p_cwd[p] = NoVnode
  BY DEF vfs_shutdown
<1>2. CASE vfs_is_in_use
  <2>1. \E f \in FileT : lost[f] > 0
    BY <1>1, <1>2, UsedIsLost
  <2>2. panic' = "vfs_shutdown"
        /\ UNCHANGED <<inode, vnode, stranded, file, p_files, p_cwd, lost, mounted>>
    BY <1>2 DEF vfs_shutdown
  <2>3. PICK where : where = "vfs_shutdown"
    OBVIOUS
  <2>5. Cause(Now, p_cwd, p_files, lost, where)
    BY <2>1, <2>3 DEF Cause
  <2>4. StopsAt(where)
    BY <2>2, <2>3, <2>5 DEF StopsAt
  <2>. QED BY <2>2, <2>4, StopKeeps, SameStays
<1>3. CASE ~vfs_is_in_use
  <2>1. /\ mounted' = FALSE /\ inode' = [i \in Ino |-> NoInode]
        /\ vnode' = [v \in VnodeT |-> Unused] /\ stranded' = [i \in Ino |-> 0]
        /\ UNCHANGED <<panic, file, p_files, p_cwd, lost>>
    BY <1>3 DEF vfs_shutdown
  <2>2. FilesIInv'
    BY <1>1, <1>3, <2>1, UnmountedKeeps
  <2>. QED BY <2>1, <2>2 DEF StayStep
<1>. QED BY <1>2, <1>3

(* Every step, and nothing happening                                        *)
LEMMA FilesKept ==
  ASSUME FilesIInv, [FilesNext]_filesVars
  PROVE  FilesIInv' /\ StayStep
<1>1. ASSUME NEW p \in Proc, Acts(p) PROVE FilesIInv' /\ StayStep
  BY <1>1, ActsKeep
<1>2. CASE vfs_shutdown
  BY <1>2, ShutdownKeeps
<1>3. CASE UNCHANGED filesVars
  <2>1. Now' = Now
    BY <1>3 DEF filesVars, Now
  <2>2. InUse(Now', 0) = InUse(Now, 0) /\ VnodeOf(Now', 0) = VnodeOf(Now, 0)
    BY <2>1
  <2>3. StayStep
    BY <1>3, SameStays DEF filesVars
  <2>4. FilesTypeOK' /\ FilesCounted'
    BY <1>3 DEF filesVars, FilesIInv, FilesTypeOK, FilesCounted
  <2>5. VnodesCounted'
    BY <1>3, <2>2 DEF filesVars, FilesIInv, VnodesCounted
  <2>6. mounted' => Good(Now') /\ InUse(Now', 0) # {}
    BY <1>3, <2>1, <2>2 DEF filesVars, FilesIInv
  <2>7. StopsAccounted'
    BY <1>3, <2>1 DEF filesVars, FilesIInv, StopsAccounted
  <2>8. Kinds(vnode, file, p_cwd)'
    BY <1>3 DEF filesVars, FilesIInv
  <2>. QED BY <1>3, <2>3, <2>4, <2>5, <2>6, <2>7, <2>8 DEF filesVars, FilesIInv
<1>. QED BY <1>1, <1>2, <1>3 DEF FilesNext, Acts
-----------------------------------------------------------------------------
(* The mounted file system before any call: the root directory alone        *)
RootInode == [NewInode("dir", DirMem(0, 0), 2) EXCEPT !.rf_linkcount = 2]

(* The inode that ramfs_mount makes.                                        *)
LEMMA RootInodeFits ==
  /\ RootInode \in InodeT /\ RootInode # NoInode /\ RootInode.rf_mode = "dir"
  /\ RootInode.rf_linkcount = 2 /\ InodeOK(0, RootInode) /\ RootInode.rf_mem[DotDot] = 0
  /\ \A n \in Name : RootInode.rf_mem[n] = Nowhere
<1>1. PICK mem : mem = DirMem(0, 0)
  OBVIOUS
<1>2. PICK r : r = NewInode("dir", mem, 2)
  OBVIOUS
<1>3. Fits(0, 0, r)
  <2>1. PICK mode : mode = "dir"
    OBVIOUS
  <2>2. mode \in {"data", "dir", "chr"} /\ 0 \in Ino
    BY <2>1, InoFacts
  <2>3. mem = IF mode = "dir" THEN DirMem(0, 0) ELSE NoMem
    BY <1>1, <2>1
  <2>4. r = NewInode(mode, mem, IF mode = "dir" THEN 2 ELSE 0)
    BY <1>2, <2>1
  <2>. QED BY ONLY <2>2, <2>3, <2>4, NewInodeFits
<1>4. r = [rf_mode |-> "dir", rf_size |-> 2, rf_linkcount |-> 1, rf_mem |-> mem]
  BY <1>2 DEF NewInode
<1>5. RootInode = [rf_mode |-> "dir", rf_size |-> 2, rf_linkcount |-> 2, rf_mem |-> mem]
  BY <1>1 DEF RootInode, NewInode
<1>6. PICK s : s = RootInode
  OBVIOUS
<1>7. /\ s.rf_mode = "dir" /\ s.rf_size = 2 /\ s.rf_linkcount = 2 /\ s.rf_mem = mem
      /\ r.rf_mode = "dir" /\ r.rf_size = 2 /\ r.rf_mem = mem
  BY <1>4, <1>5, <1>6
<1>8. s \in InodeT
  <2>1. mem \in [Name \cup {Dot, DotDot} -> Ino \cup {Nowhere}]
    BY <1>3, <1>7 DEF Fits, InodeT
  <2>. QED BY <1>5, <1>6, <2>1 DEF InodeT
<1>9. InodeOK(0, s)
  BY <1>3, <1>7 DEF Fits, InodeOK
<1>10. s # NoInode
  BY <1>8, RamfsAssumption
<1>. QED BY <1>3, <1>6, <1>7, <1>8, <1>9, <1>10 DEF Fits

Starts(ino, vn, root) ==
  /\ root \in VnodeT
  /\ ino \in [Ino -> InodeT \cup {NoInode}] /\ ino[0] = RootInode
  /\ \A i \in Ino : i # 0 => ino[i] = NoInode
  /\ vn \in [VnodeT -> VnodeRec] /\ vn[root].vn_vno = 0 /\ vn[root].vn_mode = "dir"
  /\ vn[root].vn_refcount = 2
  /\ \A v \in VnodeT : v # root => vn[v] = Unused

(* The inodes and vnodes after it.                                          *)
LEMMA StartIs ==
  ASSUME NEW root \in VnodeT, NEW ino, NEW vn,
         ino = [i \in Ino |-> IF i = 0 THEN RootInode ELSE NoInode],
         vn = [v \in VnodeT |-> IF v = root THEN [Unused EXCEPT !.vn_mode = "dir", !.vn_refcount = 2]
                                ELSE Unused]
  PROVE  Starts(ino, vn, root)
<1>1. PICK r : r = [Unused EXCEPT !.vn_mode = "dir", !.vn_refcount = 2]
  OBVIOUS
<1>2. r = [vn_vno |-> 0, vn_mode |-> "dir", vn_len |-> 0, vn_refcount |-> 2]
  BY <1>1 DEF Unused
<1>3. r \in VnodeRec /\ r.vn_vno = 0 /\ r.vn_mode = "dir" /\ r.vn_refcount = 2
  BY <1>2, InoFacts, RamfsAssumption DEF VnodeRec
<1>4. vn = [v \in VnodeT |-> IF v = root THEN r ELSE Unused]
  BY <1>1
<1>5. vn \in [VnodeT -> VnodeRec] /\ vn[root] = r /\ \A v \in VnodeT : v # root => vn[v] = Unused
  BY <1>3, <1>4, UnusedVnode
<1>6. ino \in [Ino -> InodeT \cup {NoInode}] /\ ino[0] = RootInode
      /\ \A i \in Ino : i # 0 => ino[i] = NoInode
  BY RootInodeFits, InoFacts
<1>. QED BY <1>3, <1>5, <1>6 DEF Starts

(* They fit.                                                                *)
LEMMA StartGood ==
  ASSUME NEW S \in StateT, NEW root, Starts(S.inode, S.vnode, root),
         S.stranded = [i \in Ino |-> 0], FreeOK(S.vnode, S.free)
  PROVE  /\ Good(S) /\ InUse(S, 0) # {} /\ VnodeOf(S, 0) = root
         /\ \A v \in VnodeT : S.vnode[v].vn_refcount = IF v = root THEN 2 ELSE 0
<1>1. PICK ino : ino = S.inode
  OBVIOUS
<1>2. PICK vn : vn = S.vnode
  OBVIOUS
<1>3. Starts(ino, vn, root) /\ root \in VnodeT
  BY <1>1, <1>2 DEF Starts
<1>4. \A v \in VnodeT : vn[v].vn_refcount = IF v = root THEN 2 ELSE 0
  BY <1>3, UnusedVnode DEF Starts
<1>5. OneVnode(vn)
  BY <1>4 DEF OneVnode
<1>6. ino[0] # NoInode /\ ino[0].rf_mode = "dir" /\ ino[0].rf_mem[DotDot] = 0
      /\ ino[0].rf_linkcount = 2 /\ InodeOK(0, ino[0]) /\ \A n \in Name : ino[0].rf_mem[n] = Nowhere
  BY <1>3, RootInodeFits DEF Starts
<1>7. \A v \in VnodeT : ShowsInode(vn, ino, v)
  <2> SUFFICES ASSUME NEW v \in VnodeT, vn[v].vn_refcount > 0
               PROVE  /\ ino[vn[v].vn_vno] # NoInode
                      /\ vn[v].vn_mode = ino[vn[v].vn_vno].rf_mode /\ vn[v].vn_mode # "data"
    BY DEF ShowsInode
  <2>1. v = root
    BY <1>4
  <2>2. vn[v].vn_vno = 0 /\ vn[v].vn_mode = "dir"
    BY <1>3, <2>1 DEF Starts
  <2>. QED BY <1>6, <2>2
<1>8. DirsIn(ino) = {0}
  BY <1>3, <1>6, InoFacts DEF DirsIn, Starts
<1>9. \A i \in Ino : NamesIn(ino, i) = {} /\ NameCount(ino, i) = 0
  <2>1. \A i \in Ino : NamesIn(ino, i) = {}
    BY <1>6, <1>8, InoFacts DEF NamesIn
  <2>. QED BY <2>1, FS_EmptySet DEF NameCount
<1>10. Shown(vn, 0)
  BY <1>3, <1>4 DEF Shown, Starts
<1>11. ASSUME NEW i \in Ino PROVE LinksExact(ino, vn, S.stranded, i)
  <2>1. CASE i = 0
    <3>1. Uses(vn, i) = 1 /\ RootLink(i) = 1 /\ S.stranded[i] = 0 /\ NameCount(ino, i) = 0
      BY <1>9, <1>10, <2>1 DEF Uses, RootLink
    <3>2. ino[i] # NoInode /\ ino[i].rf_linkcount = 2
      BY <1>6, <2>1
    <3>. QED BY <3>1, <3>2 DEF LinksExact
  <2>2. CASE i # 0
    BY <1>3, <1>9, <2>2 DEF LinksExact, Starts
  <2>. QED BY <2>1, <2>2
<1>12. \A i \in Ino : ino[i] # NoInode => InodeOK(i, ino[i])
  BY <1>3, <1>6 DEF Starts
<1>13. Tree(ino)
  BY <1>8, <1>9, InoFacts DEF Tree
<1>14. Good(S)
  BY <1>1, <1>2, <1>5, <1>6, <1>7, <1>11, <1>12, <1>13 DEF Good, RootOK
<1>15. S.vnode[root].vn_refcount > 0 /\ S.vnode[root].vn_vno = 0
  BY <1>2, <1>3 DEF Starts
<1>16. InUse(S, 0) = {root} /\ VnodeOf(S, 0) = root
  BY <1>3, <1>5, <1>2, <1>15, TheVnode
<1>. QED BY <1>2, <1>4, <1>14, <1>16

(* Only one has a value.                                                    *)
LEMMA HowManyOne ==
  ASSUME NEW X, IsFiniteSet(X), NEW x \in X, NEW g, NEW v, g[x] = v, \A y \in X : y # x => g[y] # v
  PROVE  HowMany(X, g, v) = 1
<1>1. {y \in X : g[y] = v} = {x}
  OBVIOUS
<1>. QED BY <1>1, FS_Singleton DEF HowMany

(* The holders of vnodes then: the first process and the mount, of the root *)
LEMMA StartHolders ==
  ASSUME NEW root \in VnodeT, NEW init \in Proc, NEW cwd, NEW fl,
         cwd = [p \in Proc |-> IF p = init THEN root ELSE NoVnode],
         fl = [f \in FileT |-> NoFileT], NEW v \in VnodeT
  PROVE  Holders(fl, cwd, root, v) = IF v = root THEN 2 ELSE 0
<1>1. VnodesOf(fl) = [f \in FileT |-> NoVnode]
  BY DEF VnodesOf, NoFileT
<1>2. HowMany(FileT, VnodesOf(fl), v) = 0
  BY <1>1, SlotsFinite, HowManyNone
<1>3. CASE v = root
  <2>1. HowMany(Proc, cwd, v) = 1
    <3>1. cwd[init] = v /\ \A p \in Proc : p # init => cwd[p] # v
      BY <1>3, SlotsFinite
    <3>. QED BY <3>1, SlotsFinite, HowManyOne
  <2>2. If1(v, root) = 1
    BY <1>3 DEF If1
  <2>. QED BY <1>2, <1>3, <2>1, <2>2, HoldersIs
<1>4. CASE v # root
  <2>1. HowMany(Proc, cwd, v) = 0
    <3>1. \A p \in Proc : cwd[p] # v
      BY <1>4, SlotsFinite
    <3>. QED BY <3>1, HowManyNone
  <2>2. If1(v, root) = 0
    BY <1>4 DEF If1
  <2>. QED BY <1>2, <1>4, <2>1, <2>2, HoldersIs
<1>. QED BY <1>3, <1>4

(* The invariant, to begin with.                                            *)
LEMMA FilesBegin ==
  ASSUME FilesInit
  PROVE  FilesIInv
<1>1. VnodeT # {} /\ Proc # {}
  BY RamfsAssumption, FileTableAssumption, FS_EmptySet
<1>2. PICK root \in VnodeT : root = CHOOSE v \in VnodeT : TRUE
  BY <1>1
<1>3. PICK init \in Proc : init = CHOOSE p \in Proc : TRUE
  BY <1>1
<1>4. /\ inode = [i \in Ino |-> IF i = 0 THEN RootInode ELSE NoInode]
      /\ vnode = [v \in VnodeT |-> IF v = root
                                   THEN [Unused EXCEPT !.vn_mode = "dir", !.vn_refcount = 2]
                                   ELSE Unused]
      /\ stranded = [i \in Ino |-> 0] /\ panic = "" /\ mounted = TRUE
      /\ file = [f \in FileT |-> NoFileT] /\ lost = [f \in FileT |-> 0]
      /\ p_files = [p \in Proc |-> [fd \in Fd |-> NoFile]]
      /\ p_cwd = [p \in Proc |-> IF p = init THEN root ELSE NoVnode]
  BY <1>2, <1>3 DEF FilesInit, RootInode
<1>5. Starts(inode, vnode, root)
  BY <1>4, StartIs
<1>6. PICK S : S = Now
  OBVIOUS
<1>7. /\ S.inode = inode /\ S.vnode = vnode /\ S.stranded = stranded /\ S.file = file
      /\ S.free = SetToSeq({v \in VnodeT : vnode[v].vn_refcount = 0})
  BY <1>6, NowParts
<1>8. vnode \in [VnodeT -> VnodeRec] /\ inode \in [Ino -> InodeT \cup {NoInode}]
  BY <1>5 DEF Starts
<1>9. S.free \in Seq(VnodeT) /\ FreeOK(S.vnode, S.free)
  <2>1. PICK free : free = SetToSeq({v \in VnodeT : vnode[v].vn_refcount = 0})
    OBVIOUS
  <2>2. free \in Seq(VnodeT) /\ FreeOK(vnode, free)
    BY <1>8, <2>1, FreeVnodes
  <2>. QED BY <1>7, <2>1, <2>2
<1>10. file \in [FileT -> FileRec] /\ \A f \in FileT : file[f] = NoFileT /\ file[f].f_refcount = 0
  BY <1>4 DEF NoFileT, FileRec
<1>11. /\ \A p \in Proc, fd \in Fd : p_files[p][fd] = NoFile
       /\ \A f \in FileT : lost[f] = 0
       /\ p_files \in [Proc -> [Fd -> FileT \cup {NoFile}]]
       /\ p_cwd \in [Proc -> VnodeT \cup {NoVnode}]
  <2>1. PICK none : none = [fd \in Fd |-> NoFile]
    OBVIOUS
  <2>2. none \in [Fd -> FileT \cup {NoFile}] /\ \A fd \in Fd : none[fd] = NoFile
    BY <2>1
  <2>3. p_files = [p \in Proc |-> none]
    BY <1>4, <2>1
  <2>4. \A p \in Proc : p_files[p] = none
    BY <2>3
  <2>5. p_files \in [Proc -> [Fd -> FileT \cup {NoFile}]]
    BY <2>2, <2>3
  <2>6. p_cwd \in [Proc -> VnodeT \cup {NoVnode}]
    BY <1>4
  <2>7. \A f \in FileT : lost[f] = 0
    BY <1>4
  <2>. QED BY <2>2, <2>4, <2>5, <2>6, <2>7
<1>12. lost \in [FileT -> 0 .. MaxLost]
  <2>1. 0 \in 0 .. MaxLost
    BY FileTableAssumption
  <2>. QED BY <1>4, <2>1
<1>13. S = [inode |-> inode, vnode |-> vnode, stranded |-> stranded, panic |-> panic,
            file |-> file, free |-> S.free]
  BY <1>6, <1>7 DEF Now
<1>14. S \in StateT
  <2>1. "" \in PanicT
    BY DEF PanicT
  <2>2. stranded \in [Ino -> Nat] /\ panic \in PanicT
    BY <1>4, <2>1
  <2>. QED BY <1>8, <1>9, <1>10, <1>13, <2>2 DEF StateT
<1>15. /\ Good(S) /\ InUse(S, 0) # {} /\ VnodeOf(S, 0) = root
       /\ \A v \in VnodeT : vnode[v].vn_refcount = IF v = root THEN 2 ELSE 0
  <2>1. Starts(S.inode, S.vnode, root) /\ S.stranded = [i \in Ino |-> 0]
    BY <1>4, <1>5, <1>7
  <2>. QED BY <1>7, <1>9, <1>14, <2>1, StartGood
<1>16. FilesTypeOK
  <2>1. \A i \in Ino : inode[i] # NoInode =>
          /\ inode[i].rf_mode \in {"data", "dir", "chr"} /\ inode[i].rf_linkcount \in Nat
          /\ inode[i].rf_size \in 0 .. (IF inode[i].rf_mode = "dir" THEN MaxDirent ELSE PageSize)
          /\ inode[i].rf_mem \in [Name \cup {Dot, DotDot} -> Ino \cup {Nowhere}]
    BY <1>7, <1>15, InodeTypes
  <2>2. \A v \in VnodeT : vnode[v].vn_refcount = 0 => vnode[v] = Unused
    BY <1>5, <1>15 DEF Starts
  <2>3. \A f \in FileT : (file[f].f_refcount = 0) <=> (file[f] = NoFileT)
    BY <1>10
  <2>4. vnode \in [VnodeT -> [vn_vno : Ino, vn_mode : {"data", "dir", "chr"}, vn_len : 0 .. PageSize,
                              vn_refcount : Nat]]
    BY <1>8 DEF VnodeRec
  <2>5. file \in [FileT -> [f_refcount : Nat, f_mode : SUBSET {"read", "write", "append"},
                            f_vnode : VnodeT \cup {NoVnode}, f_pos : Nat]]
    BY <1>10 DEF FileRec
  <2>6. stranded \in [Ino -> Nat] /\ panic \in PanicT /\ mounted \in BOOLEAN
    BY <1>4 DEF PanicT
  <2>7. /\ p_files \in [Proc -> [Fd -> FileT \cup {NoFile}]]
        /\ p_cwd \in [Proc -> VnodeT \cup {NoVnode}] /\ lost \in [FileT -> 0 .. MaxLost]
    BY ONLY <1>11, <1>12
  <2>. QED BY <2>1, <2>2, <2>3, <2>4, <2>5, <2>6, <2>7 DEF FilesTypeOK
<1>17. VnodesCounted
  <2>1. ASSUME NEW v \in VnodeT PROVE vnode[v].vn_refcount = Holders(file, p_cwd, root, v)
    <3>1. PICK fl : fl = file
      OBVIOUS
    <3>2. PICK d : d = p_cwd
      OBVIOUS
    <3>3. fl = [f \in FileT |-> NoFileT] /\ d = [p \in Proc |-> IF p = init THEN root ELSE NoVnode]
      BY <1>4, <3>1, <3>2
    <3>4. Holders(fl, d, root, v) = IF v = root THEN 2 ELSE 0
      BY <3>3, StartHolders
    <3>. QED BY <1>15, <3>1, <3>2, <3>4
  <2>2. VnodeOf(Now, 0) = root
    BY <1>6, <1>15
  <2>. QED BY <1>4, <2>1, <2>2 DEF VnodesCounted
<1>18. FilesCounted
  <2>1. ASSUME NEW f \in FileT PROVE Slots(p_files, f) = 0
    <3>1. \A x \in Proc \X Fd : SlotsOf(p_files)[x] = NoFile
      BY <1>11 DEF SlotsOf
    <3>. QED BY <3>1, SlotsFinite, SlotsIs, HowManyNone
  <2>2. ASSUME NEW f \in FileT PROVE file[f].f_refcount = Slots(p_files, f) + lost[f]
    <3>1. file[f].f_refcount = 0 /\ Slots(p_files, f) = 0 /\ lost[f] = 0
      BY <1>10, <1>11, <2>1
    <3>. QED BY ONLY <3>1
  <2>. QED BY ONLY <2>2 DEF FilesCounted
<1>19. /\ \A f \in FileT : file[f].f_refcount > 0 => file[f].f_vnode \in VnodeT
       /\ \A p \in Proc : IF p_cwd[p] = NoVnode THEN \A fd \in Fd : p_files[p][fd] = NoFile ELSE mounted
  <2>1. mounted
    BY <1>4
  <2>2. \A f \in FileT : ~(file[f].f_refcount > 0)
    BY <1>10
  <2>. QED BY <1>11, <2>1, <2>2
<1>20. panic \in Stops \cup {"vfs_shutdown"} /\ StopsAccounted
  BY <1>4 DEF Stops, StopsAccounted
<1>21. Kinds(vnode, file, p_cwd)
  <2>1. \A f \in FileT : ~(file[f].f_refcount > 0)
    BY <1>10
  <2>2. \A p \in Proc : p_cwd[p] # NoVnode => p_cwd[p] = root
    BY <1>4
  <2>3. vnode[root].vn_mode = "dir"
    BY <1>4 DEF Unused
  <2>. QED BY <2>1, <2>2, <2>3 DEF Kinds
<1>. QED BY <1>4, <1>6, <1>15, <1>16, <1>17, <1>18, <1>19, <1>20, <1>21 DEF FilesIInv
-----------------------------------------------------------------------------
(* The invariant is inductive: every state between calls is counted, its    *)
(* inodes and vnodes fit, and the kernel has stopped only where it may.     *)
THEOREM FilesInductive == FilesSpec => []FilesIInv
<1>1. FilesInit => FilesIInv
  BY FilesBegin
<1>2. FilesIInv /\ [FilesNext]_filesVars => FilesIInv'
  BY FilesKept
<1>. QED BY <1>1, <1>2, PTL DEF FilesSpec

(* What the invariant says of an inode, in the words of the properties      *)
LEMMA NowIs ==
  /\ Directories = DirsIn(inode)
  /\ \A i : NamesOf(i) = NamesIn(inode, i)
  /\ \A i : InUse(Now, i) = {v \in VnodeT : vnode[v].vn_refcount > 0 /\ vnode[v].vn_vno = i}
<1>1. Directories = DirsIn(inode)
  BY DEF Directories, DirsIn
<1>2. \A i : NamesOf(i) = NamesIn(inode, i)
  BY <1>1 DEF NamesOf, NamesIn
<1>. QED BY <1>1, <1>2, NowParts DEF InUse

(* An inode has a vnode when it is shown, and then one.                     *)
LEMMA InUseCount ==
  ASSUME FilesIInv, NEW i
  PROVE  /\ Cardinality(InUse(Now, i)) = Uses(vnode, i)
         /\ Uses(vnode, i) <= 1
<1>1. PICK X : X = InUse(Now, i)
  OBVIOUS
<1>2. X = {v \in VnodeT : vnode[v].vn_refcount > 0 /\ vnode[v].vn_vno = i}
  BY <1>1, NowIs
<1>3. OneVnode(vnode)
  <2>1. CASE mounted
    BY <2>1, NowParts DEF FilesIInv, Good
  <2>2. CASE ~mounted
    BY <2>2 DEF FilesIInv, OneVnode
  <2>. QED BY <2>1, <2>2
<1>4. CASE X = {}
  <2>1. ~Shown(vnode, i)
    BY <1>2, <1>4 DEF Shown
  <2>. QED BY <1>1, <1>4, <2>1, FS_EmptySet DEF Uses
<1>5. CASE X # {}
  <2>1. PICK v : v \in X
    BY <1>5
  <2>2. X = {v} /\ Shown(vnode, i)
    BY <1>2, <1>3, <2>1 DEF OneVnode, Shown
  <2>3. Cardinality(X) = 1
    BY <2>2, FS_Singleton
  <2>4. Uses(vnode, i) = 1
    BY <2>2 DEF Uses
  <2>. QED BY <1>1, <2>3, <2>4
<1>. QED BY <1>4, <1>5

(* Every reference is accounted for, in every reachable state: of file_t by *)
(* descriptors and what was lost, of a vnode by files, processes and the    *)
(* mount; and an inode has one vnode (file.c, vnode.c).                     *)
THEOREM FilesAreSound == FilesSpec => []FilesSound
<1>1. FilesIInv => FilesSound
  <2> SUFFICES ASSUME FilesIInv PROVE FilesSound
    OBVIOUS
  <2>1. FilesTypeOK
    BY DEF FilesIInv
  <2>2. \A f \in FileT : file[f].f_refcount =
          Cardinality({x \in Proc \X Fd : p_files[x[1]][x[2]] = f}) + lost[f]
    BY DEF FilesIInv, FilesCounted, Slots
  <2>3. ASSUME NEW v \in VnodeT
        PROVE  vnode[v].vn_refcount =
                 Cardinality({f \in FileT : file[f].f_vnode = v}) + Cardinality({p \in Proc : p_cwd[p] = v})
                 + (IF mounted /\ v = VnodeOf(Now, 0) THEN 1 ELSE 0)
    <3>1. vnode[v].vn_refcount =
            Holders(file, p_cwd, IF mounted THEN VnodeOf(Now, 0) ELSE NoVnode, v)
      BY DEF FilesIInv, VnodesCounted
    <3>2. v # NoVnode
      BY SlotsFinite
    <3>3. CASE mounted
      BY <3>1, <3>3 DEF Holders
    <3>4. CASE ~mounted
      BY <3>1, <3>2, <3>4 DEF Holders
    <3>. QED BY <3>3, <3>4
  <2>4. \A i \in Ino : Cardinality(InUse(Now, i)) <= 1
    BY InUseCount
  <2>. QED BY <2>1, <2>2, <2>3, <2>4 DEF FilesSound, ReferencesAccounted
<1>. QED BY <1>1, FilesInductive, PTL

(* The link count of an inode is exact in every reachable state: its names, *)
(* one for a vnode, one for the root, and the names that went with removed  *)
(* directories; so nothing that is named or open is freed (ramfs.c).        *)
THEOREM LinksAreAccounted == FilesSpec => []LinksAccounted
<1>1. FilesIInv => LinksAccounted
  <2> SUFFICES ASSUME FilesIInv PROVE LinksAccounted
    OBVIOUS
  <2>1. mounted => /\ \A v \in VnodeT : ShowsInode(vnode, inode, v)
                   /\ \A i \in Ino : LinksExact(inode, vnode, stranded, i)
                   /\ \A i \in Ino : inode[i] # NoInode => InodeOK(i, inode[i])
    BY NowParts DEF FilesIInv, Good
  <2>2. ~mounted => /\ \A v \in VnodeT : ~(vnode[v].vn_refcount > 0)
                    /\ \A i \in Ino : inode[i] = NoInode
    BY DEF FilesIInv
  <2>3. ASSUME NEW i \in Ino, inode[i] # NoInode
        PROVE  /\ inode[i].rf_linkcount =
                    Cardinality(NamesOf(i)) + Cardinality(InUse(Now, i)) + stranded[i]
                    + (IF i = 0 THEN 1 ELSE 0)
               /\ inode[i].rf_linkcount > 0
               /\ i \in Directories =>
                    /\ inode[i].rf_size = Cardinality(Held(inode[i].rf_mem))
                    /\ inode[i].rf_size <= MaxDirent
    <3>1. mounted
      BY <2>2, <2>3
    <3>2. /\ inode[i].rf_linkcount = NameCount(inode, i) + Uses(vnode, i) + stranded[i] + RootLink(i)
          /\ inode[i].rf_linkcount > 0
      BY <2>1, <2>3, <3>1 DEF LinksExact
    <3>3. NameCount(inode, i) = Cardinality(NamesOf(i)) /\ Uses(vnode, i) = Cardinality(InUse(Now, i))
      BY NowIs, InUseCount DEF NameCount
    <3>4. i \in Directories => /\ inode[i].rf_size = Cardinality(Held(inode[i].rf_mem))
                               /\ inode[i].rf_size <= MaxDirent
      BY <2>1, <2>3, <3>1 DEF InodeOK, Directories
    <3>. QED BY <3>2, <3>3, <3>4 DEF RootLink
  <2>4. ASSUME NEW i \in Ino, NamesOf(i) \cup InUse(Now, i) # {}
        PROVE  inode[i] # NoInode
    <3>1. CASE mounted
      <4>1. CASE NamesIn(inode, i) # {}
        BY <2>1, <3>1, <4>1 DEF LinksExact
      <4>2. CASE NamesIn(inode, i) = {}
        <5>1. PICK v \in VnodeT : vnode[v].vn_refcount > 0 /\ vnode[v].vn_vno = i
          BY <2>4, <4>2, NowIs
        <5>. QED BY <2>1, <3>1, <5>1 DEF ShowsInode
      <4>. QED BY <4>1, <4>2
    <3>2. CASE ~mounted
      <4>1. DirsIn(inode) = {}
        BY <2>2, <3>2 DEF DirsIn
      <4>2. NamesOf(i) = {}
        BY <4>1, NowIs DEF NamesIn
      <4>3. InUse(Now, i) = {}
        BY <2>2, <3>2, NowIs
      <4>. QED BY <2>4, <4>2, <4>3
    <3>. QED BY <3>1, <3>2
  <2>5. ASSUME NEW v \in VnodeT, vnode[v].vn_refcount > 0
        PROVE  /\ vnode[v].vn_mode = inode[vnode[v].vn_vno].rf_mode
               /\ vnode[v].vn_mode = "data" => vnode[v].vn_len = inode[vnode[v].vn_vno].rf_size
    BY <2>1, <2>2, <2>5 DEF ShowsInode
  <2>. QED BY <2>3, <2>4, <2>5 DEF LinksAccounted
<1>. QED BY <1>1, FilesInductive, PTL

(* Unless do_link looks something up between putting the old vnode and using*)
(* it, which can make it that of a directory, the directories form a tree   *)
(* whose .. lead back up (vfs_syscall.c do_link, namev.c lookup_dirpath).   *)
THEOREM DirectoriesAreATree ==
  ASSUME LinksInPlace
  PROVE  FilesSpec => []DirectoriesFormATree
<1>1. ASSUME FilesIInv PROVE DirectoriesFormATree
  <2> SUFFICES ASSUME NEW d \in Directories
               PROVE  /\ Cardinality(NamesOf(d)) <= 1
                      /\ \A x \in NamesOf(d) : inode[d].rf_mem[DotDot] = x[1]
    BY DEF DirectoriesFormATree
  <2>1. mounted
    BY <1>1 DEF FilesIInv, Directories
  <2>2. Tree(inode)
    BY <1>1, <2>1, NowParts DEF FilesIInv, Good
  <2>3. PICK X : X = NamesOf(d)
    OBVIOUS
  <2>4. (\A x, y \in X : x = y) /\ \A x \in X : inode[d].rf_mem[DotDot] = x[1]
    BY <2>2, <2>3, NowIs DEF Tree
  <2>5. Cardinality(X) <= 1
    <3>1. CASE X = {}
      BY <3>1, FS_EmptySet
    <3>2. CASE X # {}
      <4>1. PICK x : x \in X
        BY <3>2
      <4>2. X = {x}
        BY <2>4, <4>1
      <4>. QED BY <4>2, FS_Singleton
    <3>. QED BY <3>1, <3>2
  <2>. QED BY <2>3, <2>4, <2>5
<1>. QED BY <1>1, FilesInductive, PTL

(* The kernel stops only where the state before the call says that it will, *)
(* by what the calls are given, for any calls, paths and numbers of names   *)
(* in them (namev.c, ramfs.c, vnode.c, file.c, vfs_syscall.c).              *)
THEOREM StopsAreAccounted == FilesSpec => []StopsAccounted
<1>1. FilesIInv => StopsAccounted
  BY DEF FilesIInv
<1>. QED BY <1>1, FilesInductive, PTL

(* A descriptor shows the same file, and a process is in the same directory,*)
(* whatever other calls do meanwhile (open.c, vfs_syscall.c, vnode.c).      *)
THEOREM OpenFilesAlwaysStay == FilesSpec => OpenFilesStay
<1>1. FilesIInv /\ [FilesNext]_filesVars => StayStep
  BY FilesKept
<1>2. FilesIInv /\ [FilesNext]_filesVars =>
        [mounted' =>
           /\ \A p \in Proc, fd \in Fd :
                p_files[p][fd] = p_files'[p][fd] /\ p_files[p][fd] # NoFile => Shows(p, fd)' = Shows(p, fd)
           /\ \A p \in Proc : p_cwd[p] = p_cwd'[p] /\ p_cwd[p] # NoVnode =>
                vnode'[p_cwd[p]].vn_vno = vnode[p_cwd[p]].vn_vno]_filesVars
  BY <1>1 DEF StayStep
<1>. QED BY <1>2, FilesInductive, PTL DEF FilesSpec, OpenFilesStay
=============================================================================
