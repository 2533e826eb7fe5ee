---------------------------- MODULE AddressSpace ----------------------------
(***************************************************************************)
(* What a MemoryMap promises, page by page: the abstract specification    *)
(* that MemoryMap refines.  There are no intervals here, only a function  *)
(* from each page of [mm_start_, mm_end_) to what is mapped there, and    *)
(* the break.  Each action is one mmap/munmap/mprotect/brk outcome stated *)
(* directly on pages; the interval registry, its splitting and merging,   *)
(* must produce exactly these page-level effects.                         *)
(***************************************************************************)
EXTENDS Integers

CONSTANTS PAGE, MmStart, MmEnd, NoFile, Prots, AnonTypes, Files, FileOffsets

VARIABLES pages, brk

LOCAL V == INSTANCE VMAreas

Bounds == (V!Pages) \cup {MmEnd}
Span(s, e) == {p \in V!Pages : s <= p /\ p < e}

Info(prot, type, file, off, s, p) ==
  [prot |-> prot, type |-> type, file |-> file,
   offset |-> IF type = "file" THEN off + (p - s) ELSE 0]

\* A new mapping of [s, e) replaces whatever was there.
MapPages(s, e, prot, type, file, off) ==
  /\ pages' = [p \in V!Pages |-> IF p \in Span(s, e)
                                 THEN Info(prot, type, file, off, s, p)
                                 ELSE pages[p]]
  /\ UNCHANGED brk

\* Removing [s, e): everything there becomes unmapped.
UnmapPages(s, e) ==
  /\ pages' = [p \in V!Pages |-> IF p \in Span(s, e) THEN V!Unmapped ELSE pages[p]]
  /\ UNCHANGED brk

\* A protection change only applies to a range that is mapped throughout,
\* and changes nothing but the protection.
ProtectPages(s, e, prot) ==
  /\ \A p \in Span(s, e) : pages[p] # V!Unmapped
  /\ pages' = [p \in V!Pages |-> IF p \in Span(s, e) THEN [pages[p] EXCEPT !.prot = prot]
                                 ELSE pages[p]]
  /\ UNCHANGED brk

\* Moving the break: growth turns the pages between the old and new
\* rounded break into read/write heap, and only pages that were free or
\* already heap; shrinking frees the pages above the new rounded break.
Break(new) ==
  LET lo == V!PageAlign(brk)
      hi == V!PageAlign(new)
  IN /\ MmStart <= new /\ new <= MmEnd
     /\ brk' = new
     /\ \A p \in Span(lo, hi) : pages[p] = V!Unmapped \/ pages[p].type = "heap"
     /\ pages' = [p \in V!Pages |->
                    CASE p \in Span(lo, hi) -> Info("rw", "heap", NoFile, 0, lo, p)
                      [] p \in Span(hi, lo) -> V!Unmapped
                      [] OTHER              -> pages[p]]

Init ==
  /\ pages = [p \in V!Pages |-> V!Unmapped]
  /\ brk = MmStart

Next ==
  \/ \E s \in Bounds : \E e \in {x \in Bounds : s < x}, prot \in Prots :
       \/ \E type \in AnonTypes : MapPages(s, e, prot, type, NoFile, 0)
       \/ \E f \in Files, off \in FileOffsets : MapPages(s, e, prot, "file", f, off)
       \/ UnmapPages(s, e)
       \/ ProtectPages(s, e, prot)
  \/ \E new \in MmStart .. MmEnd : Break(new)

Spec == Init /\ [][Next]_<<pages, brk>>
=============================================================================
