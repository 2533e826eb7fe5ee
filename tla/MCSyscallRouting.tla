-------------------------- MODULE MCSyscallRouting --------------------------
(* read (0) and write (1) are let through for junction, write also for    *)
(* Caladan; brk (12) for anyone; getpid (39) always traps, and 500 lies   *)
(* past the table.                                                          *)
EXTENDS SyscallRouting

MCOrdinary == {0, 1, 12, 39}
MCRaw == {0, 1, 12, 39, 500}
MCSysNr == 455
MCAllowAny == {12}
MCAllowCaladan == {1}
MCAllowJunction == {0, 1}

====
