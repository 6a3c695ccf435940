-------------------------------- MODULE MCCow --------------------------------
(* Two instances.  MCCow.cfg: three processes, any of which forks another,  *)
(* over one private anonymous area and five objects, so that chains of      *)
(* three shadow objects arise and middle objects are shared by three.       *)
(* MCCowMemory.cfg: two processes, three objects, the other kinds of       *)
(* mapping, and pages of two words, so that copying matters.               *)
EXTENDS Cow, TLC

CONSTANTS p1, p2, p3, o1, o2, o3, o4, o5, file, a1, n1, w1, w2

MCProcess == {p1, p2, p3}
MCObject == {o1, o2, o3, o4, o5, file}
MCOneWord == {w1}
MCOneValue == {0}
MCBlankFile == [n \in {n1} |-> [w \in MCOneWord |-> 0]]
MCAnonPrivate == {<<FALSE, FALSE>>}
MCSymmetry == Permutations(MCProcess \ {Root})

MCTwoWord == {w1, w2}
MCTwoValue == {0, 1}
MCFileData == [n \in {n1} |-> [w \in MCTwoWord |-> 0]]
MCTwoProcess == {p1, p2}
MCThreeObject == {o1, o2, o3, file}
MCKinds == {<<TRUE, FALSE>>, <<TRUE, TRUE>>, <<FALSE, TRUE>>}
=============================================================================
