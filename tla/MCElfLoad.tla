------------------------------ MODULE MCElfLoad ------------------------------
EXTENDS ElfLoad

MCPage == 4
MCMemTop == 40
\* Link addresses lie below 16; the host places unhinted maps from 16 on,
\* around a page mapped by someone else.
MCMmapBase == 16
MCForeign == 28 .. 31

\* A valid header of each type (PHDR table at file offset 3, so a table of
\* two entries crosses a page), and one for another machine.
Hdr(t) == [magic |-> <<127, "E", "L", "F">>, class |-> 2, data |-> 1,
           identVersion |-> 1, version |-> 1, machine |-> 62,
           phsize |-> 56, ehsize |-> 64, type |-> t, phoff |-> 3]
MCHeaders == {Hdr(t) : t \in ETypes} \cup {[Hdr("exec") EXCEPT !.machine = 3]}

InterpPhdr == [type |-> "interp", vaddr |-> 0, offset |-> 0, filesz |-> 1,
               memsz |-> 1, flags |-> {"R"}, align |-> 1]
\* The interpreter: missing, an ld.so of one read/write segment with a
\* partial file page, or an executable (refused).
LdSoPhdr == [type |-> "load", vaddr |-> 0, offset |-> 0, filesz |-> 3,
             memsz |-> 6, flags |-> {"R", "W"}, align |-> 4]
MCInterpFiles ==
  {[found |-> FALSE, hdr |-> Hdr("dyn"), phdrs |-> <<>>],
   [found |-> TRUE, hdr |-> Hdr("dyn"), phdrs |-> <<LdSoPhdr>>],
   [found |-> TRUE, hdr |-> Hdr("exec"), phdrs |-> <<LdSoPhdr>>]}

\* PHDRs over small values: unaligned starts, a file part inside one page
\* or crossing into the next, bss of 0, 2 and 5 bytes, alignments 1 and
\* PAGE and an invalid 3, read-only and read/write segments.
PhdrSet ==
  [type : {"load"}, vaddr : {0, 1, 2, 5}, offset : {0, 1, 2, 5},
   filesz : {0, 1, 3}, memsz : {0}, flags : {{"R"}, {"R", "W"}},
   align : {1, 3, 4}]
WithMem(ph, extra) == [ph EXCEPT !.memsz = ph.filesz + extra]
AllPhdrs == {WithMem(ph, x) : ph \in PhdrSet, x \in {0, 2, 5}}

\* Linkers make vaddr and offset congruent modulo the page size.
PageCongruent == {ph \in AllPhdrs : ph.vaddr % MCPage = ph.offset % MCPage}

NotePhdr == [type |-> "note", vaddr |-> 0, offset |-> 3, filesz |-> 2,
             memsz |-> 2, flags |-> {"R"}, align |-> 4]

\* One segment, a note and a segment, or two segments whose pages do not
\* overlap, in ascending vaddr order as the ELF format requires.
TablesOf(S) ==
  LET A == {x \in S : x.align = MCPage}
  IN {<<p>> : p \in S} \cup {<<NotePhdr, p>> : p \in S}
     \cup {<<p, q>> \in A \X A : PageAlign(p.vaddr + p.memsz) <= q.vaddr}

MCTables == TablesOf(PageCongruent)
  \cup {<<InterpPhdr, p>> : p \in {x \in PageCongruent : x.align = MCPage}}
=============================================================================
