----------------------------- MODULE MCExecStack -----------------------------
(* Exec's stack setup with the real sizes: 4 KiB pages, a one-page guard  *)
(* and a two-page stack in a six-page memory map.                          *)
EXTENDS ExecStack

MCPage == 4096
MCMmStart == 4096
MCMmEnd == 7 * 4096
MCGuard == 4096
MCStack == 2 * 4096

\* Argument vectors (each with argv[0], possibly empty) and environment
\* vectors: empty, short strings, lengths that make the alignment padding
\* differ, and a string of about a page.
MCArgvs == {<<0>>, <<3>>, <<5, 0>>, <<4000>>}
MCEnvps == {<<>>, <<7>>, <<2, 9, 1>>}

\* Big vectors: together more than the stack holds.
MCBigArgvs == MCArgvs \cup {<<6000, 3000>>}

\* What LoadELF left: nothing, the first page, or a page in the middle so
\* that first fit has to skip past it.
MCLoaded ==
  {{}, {AnonVMA(4096, 4096, "r", "normal")},
   {AnonVMA(3 * 4096, 4096, "rw", "normal")}}
====
