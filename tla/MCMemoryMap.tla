----------------------------- MODULE MCMemoryMap -----------------------------
(***************************************************************************)
(* Model-checking instance of MemoryMap: a map of three pages of two      *)
(* address units each, one backing file.                                  *)
(***************************************************************************)
EXTENDS MemoryMap

\* Addresses 2 .. 8: pages at 2, 4 and 6.
MCPage == 2
MCMmStart == 2
MCMmEnd == 8
MCProts == {"r", "rw"}
\* Half a page (PageAlign rounds it up) and two pages.
MCLengths == {1, 4}
MCHints == {NULL, 2, 4, 6}
\* Break addresses on and off page boundaries, and one past the end.
MCBreaks == {2, 3, 5, 8, 9}
=============================================================================
