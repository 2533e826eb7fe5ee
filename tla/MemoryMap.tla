------------------------------ MODULE MemoryMap ------------------------------
(***************************************************************************)
(* One MemoryMap (mm.h): the registry vmareas_, the break brk_addr_, and  *)
(* the host mappings of its address range, which the Kernel* calls       *)
(* change.  Every operation below holds mu_ exclusively for its whole    *)
(* duration, host call included, so each call is one atomic step; calls  *)
(* of different threads interleave only at call granularity.             *)
(*                                                                         *)
(* The bodies of MMap, MUnmap, MProtect and SetBreak are in mm.cc, which  *)
(* is not part of the sources at hand: they are modelled from the spec    *)
(* (sections 4.1-4.3).  UnmapAll and ReleaseVMAs are from mm.h.           *)
(***************************************************************************)
EXTENDS Integers, FiniteSets

CONSTANTS
  PAGE, MmStart, MmEnd, NoFile,
  NULL,          \* the nullptr address hint
  MapProts,      \* protections passed to mmap/mprotect
  AnonTypes,     \* VMTypes of anonymous mmap calls (kNormal, kStack)
  Files,         \* backing files
  FileOffsets,   \* file offsets passed to mmap
  Lengths,       \* lengths passed to mmap/munmap/mprotect
  Hints,         \* addresses passed to mmap/munmap/mprotect
  Breaks         \* addresses passed to brk

ASSUME NULL = 0 /\ NULL < MmStart

VARIABLES
  vmareas,   \* vmareas_: the set of VMAreas
  brk,       \* brk_addr_
  kmem       \* the host's mappings: page -> [prot, file, offset] or Unmapped

vars == <<vmareas, brk, kmem>>

INSTANCE VMAreas

(***************************************************************************)
(* The host mapping primitive: fixed map, unmap and protect of a range.   *)
(***************************************************************************)
HostInfo(i) == [prot |-> i.prot, file |-> i.file, offset |-> i.offset]

KernelMap(km, s, e, prot, file, off) ==
  [p \in Pages |-> IF s <= p /\ p < e
                   THEN [prot |-> prot, file |-> file,
                         offset |-> IF file = NoFile THEN 0 ELSE off + (p - s)]
                   ELSE km[p]]
KernelUnmap(km, s, e) ==
  [p \in Pages |-> IF s <= p /\ p < e THEN Unmapped ELSE km[p]]
KernelProtect(km, s, e, prot) ==
  [p \in Pages |-> IF s <= p /\ p < e THEN [km[p] EXCEPT !.prot = prot] ELSE km[p]]

\* Sets of VMArea records the model can reach, for TypeOK.
VMAs == [start : Pages, end : Pages \cup {MmEnd}, prot : MapProts,
         type : Types, file : Files \cup {NoFile}, offset : 0 .. MmEnd + MmEnd]

(***************************************************************************)
(* MemoryMap(base, len): no areas, break at the base.  The host range is   *)
(* reserved PROT_NONE by CreateMemoryMap, which is "unmapped" here.       *)
(***************************************************************************)
Init ==
  /\ vmareas = {}
  /\ brk = MmStart
  /\ kmem = [p \in Pages |-> Unmapped]

(***************************************************************************)
(* MMap(addr, len, prot, flags, file, off) with the VMType of the caller. *)
(* flags: "none" (addr is nullptr: first fit), "fixed" (MAP_FIXED,        *)
(* replaces), "noreplace" (MAP_FIXED_NOREPLACE: AddressInUse on overlap). *)
(* The host call is made first; if it fails the registry is untouched.    *)
(***************************************************************************)
MMapStart(addr, alen, flags) ==
  IF flags = "none" THEN FirstFit(vmareas, alen) ELSE addr

\* Mutant of MMapInsert: the registry is updated even when the host call
\* failed.
MMapInsertAlways(ok, vma) == Insert(vmareas, vma)

\* The registry update of MMap, made only when the host call succeeded.
MMapInsert(ok, vma) == IF ok THEN Insert(vmareas, vma) ELSE vmareas

MMap(addr, len, prot, flags, type, file, off) ==
  LET alen  == PageAlign(len)
      start == MMapStart(addr, alen, flags)
      vma   == IF type = "file" THEN FileVMA(start, alen, prot, file, off)
                                ELSE AnonVMA(start, alen, prot, type)
  IN /\ AddressValid(addr, len)
     /\ flags = "none" => addr = NULL /\ FreeStarts(vmareas, alen) # {}
     /\ flags # "none" => MmStart <= addr /\ addr + alen <= MmEnd
     /\ flags = "noreplace" => \A v \in vmareas : ~Overlaps(v, addr, addr + alen)
     /\ \E ok \in BOOLEAN :
          /\ kmem' = IF ok THEN KernelMap(kmem, start, start + alen, prot, file, off)
                           ELSE kmem
          /\ vmareas' = MMapInsert(ok, vma)
     /\ UNCHANGED brk

(***************************************************************************)
(* MUnmap(addr, len): host unmap, then Clear of the rounded range.        *)
(***************************************************************************)
MUnmap(addr, len) ==
  LET e == addr + PageAlign(len)
  IN /\ AddressValid(addr, len)
     /\ MmStart <= addr /\ e <= MmEnd
     /\ \E ok \in BOOLEAN :
          /\ kmem' = IF ok THEN KernelUnmap(kmem, addr, e) ELSE kmem
          /\ vmareas' = IF ok THEN Clear(vmareas, addr, e) ELSE vmareas
     /\ UNCHANGED brk

(***************************************************************************)
(* MProtect(addr, len, prot): the whole range must be mapped (no holes); *)
(* host protect, then Modify.                                              *)
(***************************************************************************)
MProtect(addr, len, prot) ==
  LET e == addr + PageAlign(len)
  IN /\ AddressValid(addr, len)
     /\ MmStart <= addr /\ e <= MmEnd
     /\ \A p \in Pages : addr <= p /\ p < e => Mapped(vmareas, p)
     /\ \E ok \in BOOLEAN :
          /\ kmem' = IF ok THEN KernelProtect(kmem, addr, e, prot) ELSE kmem
          /\ vmareas' = IF ok THEN Modify(vmareas, addr, e, prot) ELSE vmareas
     /\ UNCHANGED brk

(***************************************************************************)
(* SetBreak(brk_addr).  Out of [mm_start_, mm_end_] it returns the old    *)
(* break and changes nothing.  Growth past the rounded break maps the new *)
(* pages read/write as kHeap, unless a non-heap area is in the way (old   *)
(* break returned); shrinking unmaps and clears the freed tail.  A failed *)
(* host map or unmap aborts either with the old break and no registry     *)
(* change.  The EINTR return changes nothing either.                       *)
(***************************************************************************)
\* Mutant of BreakInRange: the end of the map is not checked.
BreakAboveBase(new) == MmStart <= new

BreakInRange(new) == MmStart <= new /\ new <= MmEnd

HeapGrowthBlocked(lo, hi) ==
  \E v \in vmareas : v.type # "heap" /\ Overlaps(v, lo, hi)

SetBreak(new) ==
  LET lo == PageAlign(brk)
      hi == PageAlign(new)
  IN /\ BreakInRange(new)
     /\ CASE hi > lo ->
               /\ ~HeapGrowthBlocked(lo, hi)
               /\ \E ok \in BOOLEAN :
                    /\ kmem' = IF ok THEN KernelMap(kmem, lo, hi, "rw", NoFile, 0) ELSE kmem
                    /\ vmareas' = IF ok THEN Insert(vmareas, AnonVMA(lo, hi - lo, "rw", "heap"))
                                        ELSE vmareas
                    /\ brk' = IF ok THEN new ELSE brk
          [] hi < lo ->
               \E ok \in BOOLEAN :
                 /\ kmem' = IF ok THEN KernelUnmap(kmem, hi, lo) ELSE kmem
                 /\ vmareas' = IF ok THEN Clear(vmareas, hi, lo) ELSE vmareas
                 /\ brk' = IF ok THEN new ELSE brk
          [] OTHER ->
               /\ brk' = new
               /\ UNCHANGED <<vmareas, kmem>>

(***************************************************************************)
(* UnmapAll (mm.h): KernelMUnmap every area; a failure is only logged;    *)
(* then the registry is emptied regardless.                                *)
(***************************************************************************)
UnmapAll ==
  \E failed \in SUBSET vmareas :
    /\ kmem' = [p \in Pages |->
                  IF \E v \in vmareas \ failed : v.start <= p /\ p < v.end
                  THEN Unmapped ELSE kmem[p]]
    /\ vmareas' = {}
    /\ UNCHANGED brk

\* ReleaseVMAs (mm.h): drop the registry without unmapping anything.
ReleaseVMAs ==
  /\ vmareas' = {}
  /\ UNCHANGED <<brk, kmem>>

Next ==
  \/ \E addr \in Hints, len \in Lengths, prot \in MapProts :
       \/ \E flags \in {"none", "fixed", "noreplace"} :
            \/ \E type \in AnonTypes : MMap(addr, len, prot, flags, type, NoFile, 0)
            \/ \E f \in Files, off \in FileOffsets : MMap(addr, len, prot, flags, "file", f, off)
       \/ MProtect(addr, len, prot)
  \/ \E addr \in Hints, len \in Lengths : MUnmap(addr, len)
  \/ \E new \in Breaks : SetBreak(new)
  \/ UnmapAll
  \/ ReleaseVMAs

Spec == Init /\ [][Next]_vars

-----------------------------------------------------------------------------
(***************************************************************************)
(* Properties.                                                             *)
(***************************************************************************)

TypeOK ==
  /\ vmareas \subseteq VMAs
  /\ brk \in MmStart .. MmEnd
  /\ kmem \in [Pages -> {Unmapped} \cup
                        [prot : MapProts, file : Files \cup {NoFile},
                         offset : 0 .. MmEnd + MmEnd]]

\* Disjointness (spec 8): after any sequence of MMap, MUnmap, MProtect,
\* SetBreak and teardown calls, the areas in vmareas_ are non-empty,
\* page aligned, inside the map and pairwise disjoint; a Clear, Insert or
\* Modify that leaves an overlap or an empty remnant breaks it.
RegistryWellFormed == WellFormed(vmareas)

\* The registry never claims memory the host does not have: every page
\* that vmareas_ says is mapped is mapped in the host with the same
\* protection and the same file and file offset.  This is what makes the
\* ordering "host call first, registry only on success" and the offset
\* arithmetic of the split remnants matter.
RegistryBacked ==
  LET view == PageView(vmareas)
  IN \A p \in Pages : view[p] # Unmapped => kmem[p] = HostInfo(view[p])

\* Refinement: the page view of vmareas_ and brk_addr_ change only as the
\* page-level AddressSpace specification allows.  It fails if Clear,
\* Insert (with its merging) or Modify computes the wrong areas, or if
\* SetBreak grows the heap over a non-heap mapping.
Abstract == INSTANCE AddressSpace WITH pages <- PageView(vmareas), Prots <- MapProts

=============================================================================
