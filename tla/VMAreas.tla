------------------------------- MODULE VMAreas -------------------------------
(***************************************************************************)
(* The interval registry of a MemoryMap (mm.h: VMArea, vmareas_) and the   *)
(* algorithms on it, as pure operators.                                    *)
(*                                                                         *)
(* vmareas_ is a std::map<uintptr_t, VMArea> keyed by end address; its     *)
(* order is implied by the addresses, so the registry is modelled as a set *)
(* of VMArea records.  Whether the set is really a set of disjoint         *)
(* intervals is a property (RegistryWellFormed), not an assumption.        *)
(* Addresses are small naturals; PAGE is the page size in the same units,  *)
(* so that page rounding and unaligned lengths stay visible.              *)
(***************************************************************************)
EXTENDS Integers, FiniteSets

CONSTANTS
  PAGE,       \* kPageSize
  MmStart,    \* mm_start_: the fixed base of the memory map
  MmEnd,      \* mm_end_: the fixed end of the memory map
  NoFile      \* the empty std::shared_ptr<File> of an anonymous VMArea

ASSUME PAGE \in Nat \ {0}
ASSUME MmStart \in Nat /\ MmEnd \in Nat /\ MmStart < MmEnd
ASSUME MmStart % PAGE = 0 /\ MmEnd % PAGE = 0

\* VMType
Types == {"normal", "heap", "stack", "file"}

\* The page-aligned addresses of the memory map: one per page.
Pages == {a \in MmStart .. (MmEnd - 1) : a % PAGE = 0}

\* PageAlign and IsPageAligned (junction/base/arch.h, not under src/).
PageAlign(x) == ((x + PAGE - 1) \div PAGE) * PAGE
IsPageAligned(x) == x % PAGE = 0

\* AddressValid (mm.h): a non-empty length and a page-aligned address.
AddressValid(addr, len) == len > 0 /\ IsPageAligned(addr)

\* The two VMArea constructors.  The anonymous one leaves offset
\* uninitialised; the model gives it 0 and never reads it (Mergeable and
\* PageInfo only read the offset of kFile areas).
AnonVMA(addr, len, prot, type) ==
  [start |-> addr, end |-> addr + len, prot |-> prot, type |-> type,
   file |-> NoFile, offset |-> 0]
FileVMA(addr, len, prot, file, off) ==
  [start |-> addr, end |-> addr + len, prot |-> prot, type |-> "file",
   file |-> file, offset |-> off]

Length(v) == v.end - v.start

\* The part [s, e) of v, with the file offset moved along for a kFile area.
Slice(v, s, e) ==
  [v EXCEPT !.start = s, !.end = e,
            !.offset = IF v.type = "file" THEN v.offset + (s - v.start)
                                          ELSE v.offset]

Overlaps(v, s, e) == v.start < e /\ s < v.end

(***************************************************************************)
(* Clear(start, end): every area overlapping [start, end) is removed,     *)
(* truncated or split; what lies outside the span survives.               *)
(***************************************************************************)
Remnants(v, s, e) ==
  (IF v.start < s THEN {Slice(v, v.start, s)} ELSE {})
  \cup (IF e < v.end THEN {Slice(v, e, v.end)} ELSE {})

\* Mutant of Clear: an area lying wholly inside the span is kept.
ClearKeepsInner(R, s, e) ==
  {v \in R : ~Overlaps(v, s, e) \/ (s <= v.start /\ v.end <= e)}
  \cup UNION {Remnants(v, s, e) : v \in {w \in R : Overlaps(w, s, e)}}

Clear(R, s, e) ==
  {v \in R : ~Overlaps(v, s, e)}
  \cup UNION {Remnants(v, s, e) : v \in {w \in R : Overlaps(w, s, e)}}

(***************************************************************************)
(* TryMergeRight(prev, rhs): adjacent, same type and protection, same     *)
(* backing file with contiguous offsets.                                   *)
(***************************************************************************)
Mergeable(l, r) ==
  /\ l.end = r.start
  /\ l.type = r.type
  /\ l.prot = r.prot
  /\ l.file = r.file
  /\ l.type = "file" => l.offset + Length(l) = r.offset

Merge(l, r) == [l EXCEPT !.end = r.end]

\* Insert(vma): Clear the span, insert, then merge with the area that ends
\* where vma starts and with the one that starts where vma ends.
Insert(R, vma) ==
  LET C     == Clear(R, vma.start, vma.end)
      left  == {l \in C : Mergeable(l, vma)}
      right == {r \in C : Mergeable(vma, r)}
      m1    == IF left = {} THEN vma ELSE Merge(CHOOSE l \in left : TRUE, vma)
      m2    == IF right = {} THEN m1 ELSE Merge(m1, CHOOSE r \in right : TRUE)
  IN (C \ (left \cup right)) \cup {m2}

\* Modify(start, end, prot): split the boundary areas and change the
\* protection of the covered part in place; no merging.
Modify(R, s, e, prot) ==
  {v \in R : ~Overlaps(v, s, e)}
  \cup UNION {Remnants(v, s, e) \cup
                {[Slice(v, IF v.start < s THEN s ELSE v.start,
                           IF e < v.end THEN e ELSE v.end)
                  EXCEPT !.prot = prot]}
              : v \in {w \in R : Overlaps(w, s, e)}}

\* Find(addr): the areas containing addr (at most one when well formed).
Find(R, a) == {v \in R : v.start <= a /\ a < v.end}

Mapped(R, a) == Find(R, a) # {}

\* FindFreeRange(nullptr, len): first fit, lowest address first.
FreeAt(R, a, len) ==
  /\ MmStart <= a /\ a + len <= MmEnd
  /\ \A v \in R : ~Overlaps(v, a, a + len)
FreeStarts(R, len) == {a \in Pages : FreeAt(R, a, len)}
FirstFit(R, len) ==
  CHOOSE a \in FreeStarts(R, len) : \A b \in FreeStarts(R, len) : a <= b

(***************************************************************************)
(* The page view of a registry: what it says about each page.             *)
(***************************************************************************)
Unmapped == [type |-> "unmapped"]

PageInfo(v, p) ==
  [prot |-> v.prot, type |-> v.type, file |-> v.file,
   offset |-> IF v.type = "file" THEN v.offset + (p - v.start) ELSE 0]

PageView(R) ==
  [p \in Pages |-> IF Mapped(R, p) THEN PageInfo(CHOOSE v \in Find(R, p) : TRUE, p)
                                   ELSE Unmapped]

\* The registry is a set of non-empty, page-aligned, pairwise disjoint
\* areas inside [mm_start_, mm_end_).
WellFormed(R) ==
  /\ \A v \in R : /\ v.start < v.end
                  /\ IsPageAligned(v.start) /\ IsPageAligned(v.end)
                  /\ MmStart <= v.start /\ v.end <= MmEnd
  /\ \A v, w \in R : v # w => ~Overlaps(v, w.start, w.end)
=============================================================================
