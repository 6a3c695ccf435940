------------------------------ MODULE MCFiles -------------------------------
(* Two processes with two descriptors each, two open files and three        *)
(* inodes.  The name a is given to directories, at any depth, and b to      *)
(* files and devices.  Links are made in the directory of the caller or    *)
(* the root: further down, do_link takes the vnode of a directory on the   *)
(* way for the file it links (see the README).                             *)
EXTENDS FileTable, TLC

CONSTANTS p1, p2, v1, v2, v3, f1, f2, a, b

MCProc == {p1, p2}
MCVnodeT == {v1, v2, v3}
MCFileT == {f1, f2}
Pathname(abs, dirs, last) == [abs |-> abs, dirs |-> dirs, last |-> last, slash |-> FALSE]
A == Pathname(FALSE, <<>>, a)
B == Pathname(FALSE, <<>>, b)
AB == Pathname(FALSE, <<a>>, b)
Up == Pathname(FALSE, <<>>, DotDot)
Root == Pathname(TRUE, <<>>, NoName)
MCCalls ==
  {"open", "unlink"} \X {B, AB} \cup {"mkdir"} \X {A, Root} \cup {"rmdir"} \X {A, B, Root}
  \cup {"chdir"} \X {A, Up, Root}
  \cup {<<"open", Root>>, <<"open", [B EXCEPT !.slash = TRUE]>>, <<"open", Pathname(FALSE, <<b, a>>, b)>>,
        <<"open", Pathname(FALSE, <<a, b>>, a)>>,
        <<"unlink", A>>, <<"mknod", AB>>}
MCLinks == {<<B, Pathname(TRUE, <<>>, b)>>, <<A, B>>}
MCOpenFlags == {<<"O_RDWR", "O_CREAT">>}
MCSymmetry == Permutations(MCProc) \cup Permutations(MCVnodeT) \cup Permutations(MCFileT)
=============================================================================
