------------------------------ MODULE MemfsSlots ------------------------------
(***************************************************************************)
(* The backing store of memfs files (fs/memfs/memfs.cc).  Every file owns *)
(* a slot of one memfd, kMaxSizeBytes long, taken from a bitmap under     *)
(* file_alloc_lock by MemInode::Create and given back by ~MemInode after  *)
(* the slot's pages are dropped with MADV_REMOVE.  SetSize drops the      *)
(* whole pages past the new length.  Files restored from a snapshot have  *)
(* no slot (extent_offset_ == -1).                                         *)
(*                                                                         *)
(* Inodes are a small set of names, each going through create, life and  *)
(* destruction again and again.  The memfd's bytes are kept per slot:     *)
(* "0" or "x"; expect is what POSIX says the file holds.  Stores into a   *)
(* file go through the mapping MemInode::MMap gives (MemFSFile's write    *)
(* path uses the same memory).                                             *)
(***************************************************************************)
EXTENDS Integers, FiniteSets

CONSTANTS
  Inodes,          \* names of MemInode objects
  Restored,        \* those restored from a snapshot, without a slot
  Slots,           \* 0 .. kMaxFiles - 1
  PAGE,            \* kPageSize
  KMAX,            \* kMaxSizeBytes
  Lens,            \* lengths SetSize is called with
  MmapOutcomes,    \* what ksys_mmap of a slot may do: TRUE ok, FALSE fail
  RemoveOutcomes,  \* what MADV_REMOVE may do
  NoSlot           \* extent_offset_ == -1

ASSUME KMAX % PAGE = 0 /\ Restored \subseteq Inodes

Bytes == 0 .. (KMAX - 1)
PageAlign(x) == ((x + PAGE - 1) \div PAGE) * PAGE
Zeros == [b \in Bytes |-> "0"]

VARIABLES
  allocated,   \* allocated_file_slots
  data,        \* slot -> the memfd bytes of the slot
  pc,          \* inode -> "none", "alloc", "map", "live", destructor steps
  slot,        \* inode -> extent_offset_
  size,        \* inode -> size_
  expect       \* inode -> the contents the file should have

vars == <<allocated, data, pc, slot, size, expect>>

Init ==
  /\ allocated = {}
  /\ data = [s \in Slots |-> Zeros]
  /\ pc = [i \in Inodes |-> IF i \in Restored THEN "live" ELSE "none"]
  /\ slot = [i \in Inodes |-> NoSlot]
  /\ size = [i \in Inodes |-> 0]
  /\ expect = [i \in Inodes |-> Zeros]

\* Mutant of FindNextClear: the bitmap is not consulted.
FindNextClearAny(bm) == Slots

\* allocated_file_slots.find_next_clear(0): the lowest clear slot.
FindNextClear(bm) ==
  LET free == Slots \ bm
  IN IF free = {} THEN {} ELSE {CHOOSE s \in free : \A r \in free : s <= r}

(***************************************************************************)
(* MemInode::Create: under file_alloc_lock find and set a clear slot, or  *)
(* ENOSPC; then, without the lock, map the slot (ksys_mmap), and on       *)
(* failure return the error.                                               *)
(***************************************************************************)
CreateAlloc(i) ==
  /\ pc[i] = "none" /\ i \notin Restored
  /\ IF FindNextClear(allocated) = {}
       THEN UNCHANGED <<allocated, pc, slot>>
       ELSE \E s \in FindNextClear(allocated) :
              /\ allocated' = allocated \cup {s}
              /\ slot' = [slot EXCEPT ![i] = s]
              /\ pc' = [pc EXCEPT ![i] = "map"]
  /\ UNCHANGED <<data, size, expect>>

CreateMap(i) ==
  /\ pc[i] = "map"
  /\ \E ok \in MmapOutcomes :
       /\ pc' = [pc EXCEPT ![i] = IF ok THEN "live" ELSE "none"]
       /\ size' = [size EXCEPT ![i] = 0]
       /\ expect' = [expect EXCEPT ![i] = Zeros]
       /\ slot' = IF ok THEN slot ELSE [slot EXCEPT ![i] = NoSlot]
  /\ UNCHANGED <<allocated, data>>

\* A store through the file's mapping into a byte below its size.
Store(i, b) ==
  /\ pc[i] = "live" /\ slot[i] # NoSlot /\ b < size[i]
  /\ data' = [data EXCEPT ![slot[i]][b] = "x"]
  /\ expect' = [expect EXCEPT ![i][b] = "x"]
  /\ UNCHANGED <<allocated, pc, slot, size>>

\* Mutant of Remove: MADV_DONTNEED instead of MADV_REMOVE, which on a
\* shared mapping of a memfd leaves the file's pages in place.
RemoveDontNeed(s, lo, hi, ok) == data

\* KernelMAdvise(p, n, MADV_REMOVE) on bytes [lo, hi) of slot s, which may
\* fail (the failure is only logged).
Remove(s, lo, hi, ok) ==
  IF s = NoSlot \/ ~ok THEN data
  ELSE [data EXCEPT ![s] = [b \in Bytes |-> IF lo <= b /\ b < hi THEN "0" ELSE @[b]]]

(***************************************************************************)
(* MemInode::SetSize(newlen): EINVAL past kMaxSizeBytes; under lock_,     *)
(* drop the pages between the page-rounded new and old lengths when the   *)
(* file shrinks, then set size_.                                           *)
(***************************************************************************)
SetSize(i, newlen) ==
  LET newlen_p == PageAlign(newlen)
      oldlen_p == PageAlign(size[i])
  IN /\ pc[i] = "live"
     /\ newlen <= KMAX
     /\ \E ok \in RemoveOutcomes :
          data' = IF newlen_p < oldlen_p THEN Remove(slot[i], newlen_p, oldlen_p, ok)
                                         ELSE data
     /\ size' = [size EXCEPT ![i] = newlen]
     /\ expect' = [expect EXCEPT ![i] =
                     [b \in Bytes |-> IF b < newlen THEN @[b] ELSE "0"]]
     /\ UNCHANGED <<allocated, pc, slot>>

(***************************************************************************)
(* ~MemInode when the last reference goes: MADV_REMOVE of the slot and    *)
(* the unmap of buf_, then (if it has a slot) clear the slot under        *)
(* file_alloc_lock.  DestroySteps is the order of the two.                 *)
(***************************************************************************)
\* Mutant of DestroySteps: the slot is given back before its pages go.
DestroyStepsClearFirst == <<"clear", "remove">>

DestroySteps == <<"remove", "clear">>

DestroyStep(i, step) ==
  /\ \/ /\ step = "remove"
        /\ \E ok \in RemoveOutcomes : data' = Remove(slot[i], 0, KMAX, ok)
        /\ UNCHANGED allocated
     \/ /\ step = "clear"
        /\ allocated' = IF slot[i] = NoSlot THEN allocated ELSE allocated \ {slot[i]}
        /\ UNCHANGED data

Destroy1(i) ==
  /\ pc[i] = "live"
  /\ DestroyStep(i, DestroySteps[1])
  /\ pc' = [pc EXCEPT ![i] = "destroying"]
  /\ UNCHANGED <<slot, size, expect>>

Destroy2(i) ==
  /\ pc[i] = "destroying"
  /\ DestroyStep(i, DestroySteps[2])
  /\ pc' = [pc EXCEPT ![i] = IF i \in Restored THEN "gone" ELSE "none"]
  /\ slot' = [slot EXCEPT ![i] = NoSlot]
  /\ UNCHANGED <<size, expect>>

Next ==
  \E i \in Inodes :
    \/ CreateAlloc(i) \/ CreateMap(i)
    \/ \E b \in Bytes : Store(i, b)
    \/ \E l \in Lens : SetSize(i, l)
    \/ Destroy1(i) \/ Destroy2(i)

Spec == Init /\ [][Next]_vars

-----------------------------------------------------------------------------
\* The slots owned by inodes being created or alive.
Owned == {slot[i] : i \in {j \in Inodes : slot[j] # NoSlot}}

\* Every slot an inode being created or alive owns is set in the bitmap,
\* and no two inodes share a slot: Create's find-and-set under
\* file_alloc_lock and the destructor's clear after the munmap keep a slot
\* out of Create's reach while its owner can still store through it.  The
\* converse does not hold: when ksys_mmap fails Create returns with the
\* slot still set (memfs.cc:100), and that slot is never cleared.
SlotsExclusive ==
  /\ Owned \subseteq allocated
  /\ \A i, j \in Inodes : i # j /\ slot[i] # NoSlot => slot[i] # slot[j]

\* Every live file with a slot holds what POSIX says: the bytes stored
\* into it below its size, zero everywhere else, across SetSize shrinking
\* and growing it and across other files being destroyed and created in
\* the slot it had before.
FileContents ==
  \A i \in Inodes :
    pc[i] = "live" /\ slot[i] # NoSlot => data[slot[i]] = expect[i]
=============================================================================
