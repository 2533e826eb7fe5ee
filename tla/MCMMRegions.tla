----------------------------- MODULE MCMMRegions -----------------------------
(* Two processes exec'ing twice each, after a snapshot of two regions is   *)
(* restored out of address order; two host pages are someone else's.      *)
EXTENDS MMRegions

MCSnapshot == {[base |-> 8, len |-> 2], [base |-> 3, len |-> 1]}
====
