------------------------------ MODULE FileTable ------------------------------
(***************************************************************************)
(* Open files, file descriptors and the system calls on them and on paths  *)
(* (fs/file.c, fs/open.c, fs/vfs_syscall.c), with what fork, exit and      *)
(* shutting down do to files, over the file system of Ramfs.               *)
(*                                                                         *)
(* No call blocks, so each is one action, and processes interleave between *)
(* calls.  When all descriptors are in use, do_open and do_dup store the   *)
(* file at p_files[-EMFILE], which lies in the unused end of p_comm: no    *)
(* call reads it there, so that the reference is lost.  Left out: do_stat, *)
(* which changes nothing beyond open_namev and vput, O_TRUNC, which is     *)
(* accepted and ignored, the transfer of data to devices, and positions in *)
(* directories (do_getdent).                                               *)
(***************************************************************************)
EXTENDS Ramfs

CONSTANTS
  Proc,        (* processes                                                *)
  FileT,       (* the file_t structures of the slab                        *)
  NFILES,      (* descriptors of a process                                 *)
  Calls,       (* the <<system call, path>> that are made                  *)
  Links,       (* the <<from, to>> that do_link is called with             *)
  OpenFlags,   (* <<access, O_CREAT or O_APPEND or none>>                  *)
  SeekTo,      (* the offsets of lseek                                     *)
  MaxLost,     (* bound on the lost references                             *)
  NoFile

ASSUME FileTableAssumption ==
  /\ NFILES \in Nat \ {0} /\ MaxLost \in Nat /\ NoFile \notin FileT /\ IsFiniteSet(FileT)
  /\ IsFiniteSet(Proc) /\ Proc # {} /\ SeekTo \subseteq Int
  /\ \A c \in Calls : c[2] \in Path /\ (c[1] = "unlink" => c[2].last # DotDot)
  /\ Links \subseteq Path \X Path
  /\ OpenFlags \subseteq {"O_RDONLY", "O_WRONLY", "O_RDWR"} \X {"none", "O_CREAT", "O_APPEND"}

(* where do_link makes no lookup between putting the vnode and using it     *)
LinksInPlace == \A link \in Links : link[2].dirs = <<>>

VARIABLES
  inode, vnode, stranded,  (* the file system, as in Ramfs                  *)
  panic,
  file,      (* file_t -> [f_refcount, f_mode, f_vnode, f_pos]              *)
  p_files,   (* process -> descriptor -> file_t or NoFile                   *)
  p_cwd,     (* process -> its directory; NoVnode: there is no process      *)
  lost,      (* file_t -> references that no descriptor holds               *)
  mounted

filesVars == <<inode, vnode, stranded, panic, file, p_files, p_cwd, lost, mounted>>

Fd == 0 .. (NFILES - 1)
(* where the kernel stops: an assertion that fails, or a call to NULL       *)
PanicT ==
  {"", "vref", "vput", "fput", "read_vnode", "lookup", "dir", "namelen", "memcpy", "rf_size",
   "f_pos", "write", "vfs_shutdown"}
NoFileT == [f_refcount |-> 0, f_mode |-> {}, f_vnode |-> NoVnode, f_pos |-> 0]
Now ==
  [inode |-> inode, vnode |-> vnode, stranded |-> stranded, panic |-> panic, file |-> file,
   free |-> SetToSeq({v \in VnodeT : vnode[v].vn_refcount = 0})]

FilesInit ==
  LET root == CHOOSE v \in VnodeT : TRUE
      init == CHOOSE p \in Proc : TRUE
  IN
  /\ inode = [i \in Ino |-> IF i = 0 THEN [NewInode("dir", DirMem(0, 0), 2) EXCEPT !.rf_linkcount = 2]
                            ELSE NoInode]
  /\ vnode = [v \in VnodeT |-> IF v = root THEN [Unused EXCEPT !.vn_mode = "dir", !.vn_refcount = 2]
                               ELSE Unused]
  /\ stranded = [i \in Ino |-> 0] /\ panic = "" /\ mounted = TRUE
  /\ file = [f \in FileT |-> NoFileT] /\ lost = [f \in FileT |-> 0]
  /\ p_files = [p \in Proc |-> [fd \in Fd |-> NoFile]]
  /\ p_cwd = [p \in Proc |-> IF p = init THEN root ELSE NoVnode]

(* A call ends in S, or the kernel stops.  What a freed vnode_t holds does  *)
(* not matter any more.                                                     *)
Return(S, fds, cwd, gone) ==
  /\ panic' = S.panic
  /\ IF S.panic # "" THEN UNCHANGED <<inode, vnode, stranded, file, p_files, p_cwd, lost>>
     ELSE /\ inode' = S.inode
          /\ vnode' = [v \in VnodeT |-> IF S.vnode[v].vn_refcount = 0 THEN Unused ELSE S.vnode[v]]
          /\ stranded' = S.stranded /\ file' = S.file
          /\ p_files' = fds /\ p_cwd' = cwd /\ lost' = gone
  /\ UNCHANGED mounted

Returns(S) == Return(S, p_files, p_cwd, lost)
Runs(p) == panic = "" /\ p_cwd[p] # NoVnode
-----------------------------------------------------------------------------
(* file_t                                                                   *)
fref(S, f) == [S EXCEPT !.file[f].f_refcount = @ + 1]

fput(S, f) ==
  IF S.panic # "" THEN S
  ELSE IF S.file[f].f_refcount = 0 THEN Panics(S, "fput")
  ELSE IF S.file[f].f_refcount > 1 THEN [S EXCEPT !.file[f].f_refcount = @ - 1]
  ELSE LET S1 == [S EXCEPT !.file[f] = NoFileT]
       IN IF S.file[f].f_vnode = NoVnode THEN S1 ELSE vput(S1, S.file[f].f_vnode)

RoomToLose == \A f \in FileT : lost[f] < MaxLost
Empty(p) == {fd \in Fd : p_files[p][fd] = NoFile}

(* get_empty_fd, and the store at what it returns                           *)
StoreNew(S, p, f) ==
  IF Empty(p) = {} THEN RoomToLose /\ Return(S, p_files, p_cwd, [lost EXCEPT ![f] = @ + 1])
  ELSE Return(S, [p_files EXCEPT ![p][First(Empty(p))] = f], p_cwd, lost)

(* An access mode of 0 passes the test for O_RDONLY whatever the flags; the *)
(* later tests overwrite the mode.                                          *)
f_mode(flags) ==
  (CASE flags[1] = "O_RDONLY" -> {"read"}
     [] flags[1] = "O_WRONLY" -> {"write"}
     [] flags[1] = "O_RDWR" -> {"read", "write"})
  \cup (IF flags[2] = "O_APPEND" THEN {"append"} ELSE {})

(* With the outcome O of open_namev.  On an error the fresh file_t and its  *)
(* descriptor are given back.                                               *)
Failed(O) == O.ret # "0" \/ O.S.panic # ""
IsDir(O) == O.S.vnode[O.vn].vn_mode = "dir"
Fresh == CHOOSE f \in FileT : file[f].f_refcount = 0

Opens_dir_leaks(p, flags, O) ==
  IF Failed(O) \/ (IsDir(O) /\ flags[1] # "O_RDONLY") THEN Returns(O.S)
  ELSE StoreNew([O.S EXCEPT !.file[Fresh] = [f_refcount |-> 1, f_mode |-> f_mode(flags),
                                             f_vnode |-> O.vn, f_pos |-> 0]], p, Fresh)

Opens(p, flags, O) ==
  IF Failed(O) THEN Returns(O.S)
  ELSE IF IsDir(O) /\ flags[1] # "O_RDONLY" THEN Returns(vput(O.S, O.vn))
  ELSE StoreNew([O.S EXCEPT !.file[Fresh] = [f_refcount |-> 1, f_mode |-> f_mode(flags),
                                             f_vnode |-> O.vn, f_pos |-> 0]], p, Fresh)

do_open(p, path, flags) ==
  /\ Runs(p) /\ \E f \in FileT : file[f].f_refcount = 0
  /\ Opens(p, flags, open_namev(Now, p_cwd[p], path, flags[2] = "O_CREAT"))

(* The calls below on a descriptor that is not open return EBADF.           *)
Open(p, fd) == Runs(p) /\ p_files[p][fd] # NoFile

do_close(p, fd) ==
  /\ Open(p, fd)
  /\ Return(fput(Now, p_files[p][fd]), [p_files EXCEPT ![p][fd] = NoFile], p_cwd, lost)

do_dup(p, fd) ==
  /\ Open(p, fd)
  /\ StoreNew(fref(Now, p_files[p][fd]), p, p_files[p][fd])

(* What nfd was is overwritten, not closed.                                 *)
do_dup2(p, ofd, nfd) ==
  LET f == p_files[p][ofd]
      old == p_files[p][nfd]
  IN
  /\ Open(p, ofd) /\ nfd # ofd
  /\ old # NoFile => RoomToLose
  /\ Return(fref(Now, f), [p_files EXCEPT ![p][nfd] = f], p_cwd,
            IF old = NoFile THEN lost ELSE [lost EXCEPT ![old] = @ + 1])
-----------------------------------------------------------------------------
(* Reading, writing and seeking.  do_write takes O_APPEND for a permission  *)
(* to write, also to a directory, which has no write; and ramfs_write       *)
(* copies a negative number of bytes when the offset is past the page.      *)
Smaller(x, y) == IF x < y THEN x ELSE y
Greater(x, y) == IF x < y THEN y ELSE x

do_read(p, fd) ==
  LET f == p_files[p][fd]
      pos == file[f].f_pos
  IN
  /\ Open(p, fd) /\ "read" \in file[f].f_mode /\ vnode[file[f].f_vnode].vn_mode = "data"
  /\ Returns([Now EXCEPT !.file[f].f_pos =
                pos + Greater(0, Smaller(1, inode[vnode[file[f].f_vnode].vn_vno].rf_size - pos))])

Written(S, f, at) ==
  LET v == S.file[f].f_vnode
      i == S.vnode[v].vn_vno
      pos == at + Smaller(1, PageSize - at)
      len == Greater(S.vnode[v].vn_len, pos)
  IN IF at > PageSize THEN Panics(S, "memcpy")
     ELSE IF S.vnode[v].vn_len # S.inode[i].rf_size THEN Panics(S, "rf_size")
     ELSE IF pos > len THEN Panics(S, "f_pos")
     ELSE [S EXCEPT !.file[f].f_pos = pos, !.vnode[v].vn_len = len, !.inode[i].rf_size = len]

do_write(p, fd) ==
  LET f == p_files[p][fd]
      v == vnode[file[f].f_vnode]
  IN
  /\ Open(p, fd) /\ {"write", "append"} \cap file[f].f_mode # {} /\ v.vn_mode # "chr"
  /\ Returns(IF v.vn_mode = "dir" THEN Panics(Now, "write")
             ELSE Written(Now, f, IF "append" \in file[f].f_mode THEN v.vn_len ELSE file[f].f_pos))

do_lseek(p, fd, offset, whence) ==
  LET f == p_files[p][fd]
      to == offset + CASE whence = "SEEK_SET" -> 0 [] whence = "SEEK_CUR" -> file[f].f_pos
                       [] whence = "SEEK_END" -> vnode[file[f].f_vnode].vn_len
  IN
  /\ Open(p, fd) /\ vnode[file[f].f_vnode].vn_mode = "data"
  /\ 0 <= to /\ to <= PageSize + 1     (* bound; a negative one is EINVAL    *)
  /\ Returns([Now EXCEPT !.file[f].f_pos = to])
-----------------------------------------------------------------------------
(* The calls that work in the directory D a path leads to: what Do makes of *)
(* the directory, which is put afterwards.                                  *)
InDirectory(D, Do(_, _)) ==
  Returns(IF D.ret # "0" THEN D.S ELSE vput(Do(D.S, D.vn).S, D.vn))

(* Do once the name has been looked up and is not there                     *)
IfMissing(L, d, n, Do(_, _, _)) ==
  IF L.ret = "0" THEN Fails(vput(L.S, L.vn), "EEXIST")
  ELSE IF L.ret = "ENOENT" THEN Do(L.S, d, n) ELSE L

do_mkdir(p, path) ==
  LET Do(S, d) == IF path.last = NoName THEN Fails(S, "EEXIST")
                  ELSE IfMissing(lookup(S, d, path.last), d, path.last, ramfs_mkdir)
  IN Runs(p) /\ InDirectory(dir_namev(Now, p_cwd[p], path), Do)

(* The result of dir_namev is not looked at.                                *)
Unchecked(D) == IF D.ret = "0" THEN D ELSE Ok(Panics(D.S, "dir"), NoVnode)
do_mknod(p, path) ==
  LET Do(S, d) == IfMissing(lookup(S, d, path.last), d, path.last, ramfs_mknod)
  IN Runs(p) /\ InDirectory(Unchecked(dir_namev(Now, p_cwd[p], path)), Do)

do_rmdir(p, path) ==
  LET Do(S, d) == IF path.last \in {Dot, DotDot} THEN Fails(S, "EINVAL, ENOTEMPTY")
                  ELSE ramfs_rmdir(S, d, path.last)
  IN Runs(p) /\ InDirectory(dir_namev(Now, p_cwd[p], path), Do)

UnlinkFound(L, d, n) ==
  IF Failed(L) THEN L
  ELSE IF IsDir(L) THEN Fails(vput(L.S, L.vn), "EPERM")
  ELSE Put(ramfs_unlink(L.S, d, n), L.vn)

do_unlink(p, path) ==
  LET Do(S, d) == UnlinkFound(lookup(S, d, path.last), d, path.last)
  IN Runs(p) /\ InDirectory(dir_namev(Now, p_cwd[p], path), Do)

(* The reference to the old vnode, O.vn, is put before it is used; do_rename*)
(* does no more than this.                                                  *)
LinkTo(p, to, old, S) ==
  LET Link(S1, d, n) == ramfs_link(S1, old, d, n)
      Do(S1, d) == IfMissing(lookup(S1, d, to.last), d, to.last, Link)
  IN InDirectory(dir_namev(S, p_cwd[p], to), Do)

LinkFrom_any(p, to, O) ==
  IF Failed(O) THEN Returns(O.S) ELSE LinkTo(p, to, O.vn, vput(O.S, O.vn))

LinkFrom(p, to, O) ==
  IF Failed(O) THEN Returns(O.S)
  ELSE IF IsDir(O) THEN Returns(vput(O.S, O.vn))
  ELSE LinkTo(p, to, O.vn, vput(O.S, O.vn))

do_link(p, from, to) == Runs(p) /\ LinkFrom(p, to, open_namev(Now, p_cwd[p], from, FALSE))

ChdirTo(p, O) ==
  IF Failed(O) THEN Returns(O.S)
  ELSE IF ~IsDir(O) THEN Returns(vput(O.S, O.vn))
  ELSE Return(vput(O.S, p_cwd[p]), p_files, [p_cwd EXCEPT ![p] = O.vn], lost)

do_chdir(p, path) == Runs(p) /\ ChdirTo(p, open_namev(Now, p_cwd[p], path, FALSE))
-----------------------------------------------------------------------------
(* Processes.  A new process starts in the root directory and is moved.     *)
OverFds(Do(_, _), S, fds) ==
  LET over[n \in 0 .. NFILES] ==
        IF n = 0 THEN S
        ELSE IF fds[n - 1] = NoFile THEN over[n - 1] ELSE Do(over[n - 1], fds[n - 1])
  IN over[NFILES]

fork_shares_unreferenced(p, c) ==
  /\ Runs(p) /\ p_cwd[c] = NoVnode
  /\ Return(vref(Now, p_cwd[p]), [p_files EXCEPT ![c] = p_files[p]], [p_cwd EXCEPT ![c] = p_cwd[p]], lost)

Moved(S, p, c) ==
  Return(vref(vput(S, VnodeOf(Now, 0)), p_cwd[p]), [p_files EXCEPT ![c] = p_files[p]],
         [p_cwd EXCEPT ![c] = p_cwd[p]], lost)

fork(p, c) ==
  /\ Runs(p) /\ p_cwd[c] = NoVnode
  /\ Moved(OverFds(fref, vref(Now, VnodeOf(Now, 0)), p_files[p]), p, c)

exit(p) ==
  /\ Runs(p)
  /\ Return(OverFds(fput, vput(Now, p_cwd[p]), p_files[p]),
            [p_files EXCEPT ![p] = [fd \in Fd |-> NoFile]], [p_cwd EXCEPT ![p] = NoVnode], lost)

(* The idle process, once the others are gone                               *)
vfs_is_in_use ==
  \E v \in VnodeT : vnode[v].vn_refcount > IF v = VnodeOf(Now, 0) THEN 1 ELSE 0

vfs_shutdown ==
  /\ mounted /\ panic = "" /\ \A p \in Proc : p_cwd[p] = NoVnode
  /\ IF vfs_is_in_use THEN panic' = "vfs_shutdown" /\ UNCHANGED <<inode, vnode, stranded, mounted>>
     ELSE /\ mounted' = FALSE
          /\ inode' = [i \in Ino |-> NoInode]
          /\ vnode' = [v \in VnodeT |-> Unused]
          /\ stranded' = [i \in Ino |-> 0]
          /\ UNCHANGED panic
  /\ UNCHANGED <<file, p_files, p_cwd, lost>>

With(call) == {c[2] : c \in {c \in Calls : c[1] = call}}

FilesNext ==
  \/ \E p \in Proc :
       \/ \E path \in With("open"), flags \in OpenFlags : do_open(p, path, flags)
       \/ \E path \in With("mkdir") : do_mkdir(p, path)
       \/ \E path \in With("mknod") : do_mknod(p, path)
       \/ \E path \in With("rmdir") : do_rmdir(p, path)
       \/ \E path \in With("unlink") : do_unlink(p, path)
       \/ \E path \in With("chdir") : do_chdir(p, path)
       \/ \E link \in Links : do_link(p, link[1], link[2])
       \/ \E fd \in Fd :
            \/ do_close(p, fd) \/ do_dup(p, fd) \/ do_read(p, fd) \/ do_write(p, fd)
            \/ \E nfd \in Fd : do_dup2(p, fd, nfd)
            \/ \E offset \in SeekTo, whence \in {"SEEK_SET", "SEEK_CUR", "SEEK_END"} :
                 do_lseek(p, fd, offset, whence)
       \/ \E c \in Proc : fork(p, c)
       \/ exit(p)
  \/ vfs_shutdown

FilesSpec == FilesInit /\ [][FilesNext]_filesVars
-----------------------------------------------------------------------------
(* Every variable stays within its type; a slot that is not in use is       *)
(* blank.                                                                   *)
FilesTypeOK ==
  /\ \A i \in Ino : inode[i] # NoInode =>
       /\ inode[i].rf_mode \in {"data", "dir", "chr"} /\ inode[i].rf_linkcount \in Nat
       /\ inode[i].rf_size \in 0 .. (IF inode[i].rf_mode = "dir" THEN MaxDirent ELSE PageSize)
       /\ inode[i].rf_mem \in [Name \cup {Dot, DotDot} -> Ino \cup {Nowhere}]
  /\ vnode \in [VnodeT -> [vn_vno : Ino, vn_mode : {"data", "dir", "chr"}, vn_len : 0 .. PageSize,
                           vn_refcount : Nat]]
  /\ \A v \in VnodeT : vnode[v].vn_refcount = 0 => vnode[v] = Unused
  /\ stranded \in [Ino -> Nat] /\ panic \in PanicT /\ mounted \in BOOLEAN
  /\ file \in [FileT -> [f_refcount : Nat, f_mode : SUBSET {"read", "write", "append"},
                         f_vnode : VnodeT \cup {NoVnode}, f_pos : Nat]]
  /\ \A f \in FileT : (file[f].f_refcount = 0) <=> (file[f] = NoFileT)
  /\ p_files \in [Proc -> [Fd -> FileT \cup {NoFile}]]
  /\ p_cwd \in [Proc -> VnodeT \cup {NoVnode}]
  /\ lost \in [FileT -> 0 .. MaxLost]

(* The counts are exact: of a file_t, the descriptors that hold it in any   *)
(* process and the references that dup2 or a full table lost; of a vnode,   *)
(* the files open on it, the processes in it, and the mount; and an inode   *)
(* has one vnode.  One too few frees what is in use, one too many keeps the *)
(* file system from being unmounted (file.c fref, fput; vnode.c vref, vput).*)
ReferencesAccounted ==
  /\ \A f \in FileT : file[f].f_refcount =
       Cardinality({x \in Proc \X Fd : p_files[x[1]][x[2]] = f}) + lost[f]
  /\ \A v \in VnodeT : vnode[v].vn_refcount =
       Cardinality({f \in FileT : file[f].f_vnode = v}) + Cardinality({p \in Proc : p_cwd[p] = v})
       + (IF mounted /\ v = VnodeOf(Now, 0) THEN 1 ELSE 0)
  /\ \A i \in Ino : Cardinality(InUse(Now, i)) <= 1

(* Files, vnodes and descriptors hang together, counted exactly.            *)
FilesSound == FilesTypeOK /\ ReferencesAccounted

Directories == {i \in Ino : inode[i] # NoInode /\ inode[i].rf_mode = "dir"}
NamesOf(i) == {x \in Directories \X Name : inode[x[1]].rf_mem[x[2]] = i}

(* The link count of an inode is the number of its names, plus one while a  *)
(* vnode shows it, plus the names that were in removed directories, so that *)
(* nothing named or open is freed; a vnode agrees with its inode on the     *)
(* length, and the size of a directory is its entries' (ramfs.c).           *)
LinksAccounted ==
  /\ \A i \in Ino : inode[i] # NoInode =>
       /\ inode[i].rf_linkcount = Cardinality(NamesOf(i)) + Cardinality(InUse(Now, i)) + stranded[i]
                                  + (IF i = 0 THEN 1 ELSE 0)
       /\ inode[i].rf_linkcount > 0
       /\ i \in Directories =>
            inode[i].rf_size = Cardinality(Held(inode[i].rf_mem)) /\ inode[i].rf_size <= MaxDirent
  /\ \A i \in Ino : NamesOf(i) \cup InUse(Now, i) # {} => inode[i] # NoInode
  /\ \A v \in VnodeT : vnode[v].vn_refcount > 0 =>
       /\ vnode[v].vn_mode = inode[vnode[v].vn_vno].rf_mode
       /\ vnode[v].vn_mode = "data" => vnode[v].vn_len = inode[vnode[v].vn_vno].rf_size

(* A directory has at most one name, in the directory that its .. names.    *)
(* do_link's comment promises EPERM when from is a directory (vfs_syscall.c *)
(* 496), and lookup_dirpath counts on it (namev.c 336).                     *)
DirectoriesFormATree ==
  \A d \in Directories :
    /\ Cardinality(NamesOf(d)) <= 1
    /\ \A x \in NamesOf(d) : inode[d].rf_mem[DotDot] = x[1]

(* What paths lead to, in the entries of directories alone: inode i after k *)
(* names from inode d.  StartOf: where a path of process p starts.          *)
IsDirIn(ino, i) == i \in Ino /\ ino[i] # NoInode /\ ino[i].rf_mode = "dir"
Leads(ino, d, names, k, i) ==
  \E along \in [0 .. k -> Ino] :
    /\ along[0] = d /\ along[k] = i
    /\ \A j \in 1 .. k : IsDirIn(ino, along[j - 1]) /\ ino[along[j - 1]].rf_mem[names[j]] = along[j]
StartOf(vn, cwd, p, path) == IF path.abs THEN 0 ELSE vn[cwd[p]].vn_vno

Given == {c[2] : c \in Calls} \cup {link[1] : link \in Links} \cup {link[2] : link \in Links}

(* A process gives a path with a file or a device in the place of one of its*)
(* directories, but for the last.                                           *)
ThroughFile(ino, vn, cwd) ==
  \E p \in Proc, path \in Given :
    /\ cwd[p] # NoVnode
    /\ \E k \in 1 .. (Len(path.dirs) - 1), i \in Ino :
         ~IsDirIn(ino, i) /\ Leads(ino, StartOf(vn, cwd, p, path), path.dirs, k, i)

(* It goes up from a directory, not the root, that has no name in its ..    *)
Astray(ino, d) ==
  /\ IsDirIn(ino, d) /\ d # 0
  /\ ~ \E n \in Name : IsDirIn(ino, ino[d].rf_mem[DotDot]) /\ ino[ino[d].rf_mem[DotDot]].rf_mem[n] = d
UpFromAstray(ino, vn, cwd) ==
  \E p \in Proc, path \in Given :
    /\ cwd[p] # NoVnode
    /\ \E k \in 1 .. (Len(path.dirs) + 1), d \in Ino :
         /\ Astray(ino, d) /\ Append(path.dirs, path.last)[k] = DotDot
         /\ Leads(ino, StartOf(vn, cwd, p, path), path.dirs, k - 1, d)

(* It gives mknod a path in no directory.                                   *)
InNoDirectory(ino, vn, cwd) ==
  \E p \in Proc, path \in With("mknod") :
    /\ cwd[p] # NoVnode
    /\ ~ \E d \in Ino : IsDirIn(ino, d)
                       /\ Leads(ino, StartOf(vn, cwd, p, path), path.dirs, Len(path.dirs), d)

(* A path without a name is given to these calls.                           *)
Nameless ==
  \E path \in With("mknod") \cup With("rmdir") \cup With("unlink") \cup {link[2] : link \in Links} :
    path.last = NoName

WritesPast(fl, fds) ==
  \E p \in Proc, fd \in Fd :
    fds[p][fd] # NoFile /\ "write" \in fl[fds[p][fd]].f_mode /\ fl[fds[p][fd]].f_pos > PageSize
AppendsToDir(fl, vn, fds) ==
  \E p \in Proc, fd \in Fd :
    /\ fds[p][fd] # NoFile /\ "append" \in fl[fds[p][fd]].f_mode
    /\ vn[fl[fds[p][fd]].f_vnode].vn_mode = "dir"

Cause(S, cwd, fds, gone, where) ==
  \/ where = "read_vnode" /\ UpFromAstray(S.inode, S.vnode, cwd)
  \/ where = "lookup" /\ ThroughFile(S.inode, S.vnode, cwd)
  \/ where = "dir" /\ InNoDirectory(S.inode, S.vnode, cwd)
  \/ where = "namelen" /\ Nameless
  \/ where = "memcpy" /\ WritesPast(S.file, fds)
  \/ where = "write" /\ AppendsToDir(S.file, S.vnode, fds)
  \/ where = "vfs_shutdown" /\ \E f \in FileT : gone[f] > 0

(* The kernel stops nowhere but where it is called with one of these, which *)
(* the state before shows.  So no count, size or position is ever wrong     *)
(* (vref, vput, fput, ramfs_write); an inode is missing only to a path that *)
(* goes up from a removed directory; the lookup of a vnode that has none is *)
(* called (namev.c 52) only on a path through a file, since dir_namev tests *)
(* the vnode it ends at; do_mknod passes on a directory that is NULL only if*)
(* dir_namev found none (vfs_syscall.c 297); a name of length 0 comes to    *)
(* ramfs_lookup (ramfs.c 433) only from the calls of Nameless; a write fails*)
(* only past the page, or with O_APPEND on a directory; and the file system *)
(* is in use at the end only if a reference was lost (vfs.c).               *)
StopsAccounted == panic # "" => Cause(Now, p_cwd, p_files, lost, panic)

Shows(p, fd) ==
  LET v == file[p_files[p][fd]].f_vnode
  IN IF v = NoVnode THEN NoInode ELSE <<vnode[v].vn_vno, vnode[v].vn_mode>>

(* A descriptor shows the same file for as long as it is not closed or      *)
(* given another file, whoever closes, unlinks, creates or exits meanwhile; *)
(* and a process stays in its directory until it leaves it.                 *)
OpenFilesStay ==
  [][mounted' =>
     /\ \A p \in Proc, fd \in Fd :
          p_files[p][fd] = p_files'[p][fd] /\ p_files[p][fd] # NoFile => Shows(p, fd)' = Shows(p, fd)
     /\ \A p \in Proc : p_cwd[p] = p_cwd'[p] /\ p_cwd[p] # NoVnode =>
          vnode'[p_cwd[p]].vn_vno = vnode[p_cwd[p]].vn_vno]_filesVars
=============================================================================
