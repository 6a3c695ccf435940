------------------------------- MODULE Memory -------------------------------
(***************************************************************************)
(* What fork and mmap promise about memory, without objects or frames.     *)
(*                                                                         *)
(* An area of a process is a view of a segment.  A shared view reads and   *)
(* writes the segment itself.  A private view reads the segment until the  *)
(* process writes the page, and its own copy from then on; fork copies the *)
(* views, own pages included.  Cow implements this with chains of shadow   *)
(* objects.                                                                *)
(***************************************************************************)
CONSTANTS Process, Area, Page, Word, Value, Zero, Segment, File, NoArea, NotOwn

VARIABLES
  view,   (* process -> area -> NoArea or [seg, shared, own]               *)
  store   (* segment -> page -> contents                                    *)

memoryVars == <<view, store>>

Contents == [Word -> Value]
Zeros == [n \in Page |-> [w \in Word |-> Zero]]
Blank == [n \in Page |-> NotOwn]
Viewed(vw, s) == \E p \in Process, a \in Area : vw[p][a] # NoArea /\ vw[p][a].seg = s

(* What p sees at page n of area a                                          *)
Seen(p, a, n) ==
  IF view[p][a].own[n] # NotOwn THEN view[p][a].own[n]
                                ELSE store[view[p][a].seg][n]

(* Nothing but, perhaps, area a of p views segment s.                       *)
Unviewed(s, p, a) ==
  \A q \in Process, b \in Area :
    view[q][b] # NoArea /\ view[q][b].seg = s => q = p /\ b = a

(* An anonymous segment that nobody views any more is forgotten.            *)
Forget(vw, st) ==
  [s \in Segment |-> IF s = File \/ Viewed(vw, s) THEN st[s] ELSE Zeros]
-----------------------------------------------------------------------------
MemoryInit ==
  /\ view = [p \in Process |-> [a \in Area |-> NoArea]]
  /\ store \in [Segment -> [Page -> Contents]]
  /\ \A s \in Segment \ {File} : store[s] = Zeros

Unmap(p, a) ==
  /\ view[p][a] # NoArea
  /\ view' = [view EXCEPT ![p][a] = NoArea]
  /\ store' = Forget(view', store)

(* A new view replaces what was mapped there; an anonymous segment is new.  *)
Map(p, a, s, shared) ==
  /\ view' = [view EXCEPT ![p][a] = [seg |-> s, shared |-> shared, own |-> Blank]]
  /\ s = File \/ Unviewed(s, p, a)
  /\ store' = Forget(view', Forget([view EXCEPT ![p][a] = NoArea], store))

Write(p, a, n, w, x) ==
  LET after == [Seen(p, a, n) EXCEPT ![w] = x] IN
  /\ view[p][a] # NoArea
  /\ IF view[p][a].shared
     THEN store' = [store EXCEPT ![view[p][a].seg][n] = after] /\ UNCHANGED view
     ELSE view' = [view EXCEPT ![p][a].own[n] = after] /\ UNCHANGED store

(* The child has no memory before and its parent's afterwards.              *)
Fork(p, c) ==
  /\ p # c
  /\ \A a \in Area : view[c][a] = NoArea
  /\ view' = [view EXCEPT ![c] = view[p]]
  /\ UNCHANGED store

(* A program reads what it sees, whatever the kernel does to provide it.    *)
Read == UNCHANGED memoryVars

MemoryNext ==
  \/ Read
  \/ \E p, c \in Process : Fork(p, c)
  \/ \E p \in Process, a \in Area :
       \/ Unmap(p, a)
       \/ \E s \in Segment, shared \in BOOLEAN : Map(p, a, s, shared)
       \/ \E n \in Page, w \in Word, x \in Value : Write(p, a, n, w, x)

MemorySpec == MemoryInit /\ [][MemoryNext]_memoryVars
=============================================================================
