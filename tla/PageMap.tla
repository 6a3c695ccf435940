------------------------------- MODULE PageMap -------------------------------
(***************************************************************************)
(* What exec, mmap, munmap and brk promise a process: an address space is  *)
(* a function from pages to what each shows - a page of an object,         *)
(* privately or shared - or to nothing.  There are no areas, no splitting, *)
(* no loader and no page table.  Exec is checked to implement it.          *)
(***************************************************************************)
EXTENDS Naturals

CONSTANTS
  UserLow, UserHigh,  (* user pages are UserLow .. UserHigh-1              *)
  File,
  FilePage,           (* the pages of the file at which a mapping starts   *)
  Image,              (* the programs there are: what each shows where, by *)
                      (* [part, pn] for a page of a part, and its top      *)
  NoPage

VARIABLES
  view,  (* page -> [obj, pn, shared] or NoPage                            *)
  top    (* the first page the program break does not reach                *)

mapVars == <<view, top>>

UserPage == UserLow .. (UserHigh - 1)
Free(v, lo, hi) == \A p \in lo .. (hi - 1) : v[p] = NoPage

(* A new mapping of the pages lo .. hi-1 shows consecutive pages of an      *)
(* object nothing else shows, or of the file; what was there is gone.       *)
Map(old, new, lo, hi) ==
  /\ new[lo] # NoPage
  /\ \A p \in UserPage : new[p] = IF lo <= p /\ p < hi
                                  THEN [new[lo] EXCEPT !.pn = @ + (p - lo)]
                                  ELSE old[p]
  /\ \/ new[lo].obj = File /\ new[lo].pn \in FilePage
     \/ \A p \in UserPage : p < lo \/ hi <= p => old[p] = NoPage \/ old[p].obj # new[lo].obj

Unmap(old, new, lo, hi) ==
  \A p \in UserPage : new[p] = IF lo <= p /\ p < hi THEN NoPage ELSE old[p]

(* The break moves: pages above the heap must be free and continue its      *)
(* object, pages it gives up are gone.                                      *)
Break(old, new, from, to) ==
  /\ old[from - 1] # NoPage /\ Free(old, from, to)
  /\ \A p \in UserPage : new[p] =
       IF from <= p /\ p < to THEN [old[from - 1] EXCEPT !.pn = @ + (p - from) + 1]
       ELSE IF to <= p /\ p < from THEN NoPage ELSE old[p]

(* A program replaces everything: every part of it has an object of its     *)
(* own, which nobody has seen.                                              *)
Load(old, new, shows) ==
  /\ \A p \in UserPage :
       IF shows[p] = NoPage THEN new[p] = NoPage
       ELSE /\ new[p] # NoPage
            /\ new[p].pn = shows[p].pn /\ ~new[p].shared /\ new[p].obj # File
            /\ \A q \in UserPage : old[q] # NoPage => old[q].obj # new[p].obj
  /\ \A p, q \in {r \in UserPage : shows[r] # NoPage} :
       new[p].obj = new[q].obj <=> shows[p].part = shows[q].part

PageMapInit == view = [p \in UserPage |-> NoPage] /\ top = 0

PageMapNext ==
  \E old \in {view}, new \in {view'} :
      \/ /\ top' = top
         /\ \/ new = old
            \/ \E lo \in UserPage, hi \in UserPage \cup {UserHigh} :
                 lo < hi /\ (Unmap(old, new, lo, hi) \/ Map(old, new, lo, hi))
      \/ \E from \in (UserLow + 1) .. UserHigh : Break(old, new, from, top')
      \/ \E image \in Image : top' = image.top /\ Load(old, new, image.shows)
=============================================================================
