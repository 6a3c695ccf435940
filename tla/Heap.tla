-------------------------------- MODULE Heap --------------------------------
(***************************************************************************)
(* What the kernel's allocators promise (include/mm/page.h, slab.h): the   *)
(* memory handed out is somebody's own until it is given back.             *)
(***************************************************************************)
EXTENDS Naturals

CONSTANT Size      (* the bytes there are                                  *)
VARIABLE given     (* the pieces that are handed out, as sets of bytes     *)

Piece(bytes) == bytes # {} /\ bytes \subseteq 0 .. (Size - 1)

(* Some memory is in use from the start.                                    *)
Init ==
  /\ \A piece \in given : Piece(piece)
  /\ \A piece, other \in given : piece # other => piece \cap other = {}

Allocate == \E piece \in given' :
  /\ Piece(piece)
  /\ \A other \in given : piece \cap other = {}
  /\ given' = given \cup {piece}

Free == \E piece \in given : given' = given \ {piece}

Spec == Init /\ [][Allocate \/ Free]_given
=============================================================================
