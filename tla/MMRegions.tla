------------------------------ MODULE MMRegions ------------------------------
(***************************************************************************)
(* The global address-space allocator (kernel/mm.h): mm_base_addr_, a     *)
(* cursor under the spin lock mm_lock_, from which AllocateMMRegion hands  *)
(* out a fresh range to every CreateMemoryMap, and which RegisterMMRegion  *)
(* raises past a range a restored snapshot dictates.  CreateMemoryMap then *)
(* reserves the range in the host with KernelMMap, the base only a hint.   *)
(*                                                                         *)
(* Processes call usys_execve (CreateMemoryMap) again and again; when a    *)
(* map is dropped (~MemoryMap, in mm.cc) its host range is unmapped, but   *)
(* the allocator never takes a range back.  Snapshot regions are           *)
(* registered while the snapshot is restored, before processes run.       *)
(* Addresses are in pages.                                                 *)
(***************************************************************************)
EXTENDS Integers, Sequences, FiniteSets

CONSTANTS
  Procs,      \* processes calling CreateMemoryMap
  Lens,       \* lengths (pages) CreateMemoryMap is called with
  MemTop,     \* the host address space is pages 0 .. MemTop - 1
  Foreign,    \* pages the host has mapped for someone else
  InitBase,   \* the initial mm_base_addr_
  Snapshot,   \* [base, len] regions of the snapshot being restored
  MaxCalls,   \* bound on the CreateMemoryMap calls of one process
  NoOne       \* mm_lock_ is free

Pages(lo, len) == lo .. (lo + len - 1)
MaxOf(a, b) == IF a >= b THEN a ELSE b

VARIABLES
  cursor,     \* mm_base_addr_
  holder,     \* the process holding mm_lock_, or NoOne
  phase,      \* "restore" while the snapshot is registered, then "run"
  registered, \* snapshot regions registered so far
  pc,         \* process -> "idle", "spin", "read", "bump", "mmap", "live"
  len,        \* process -> len of its CreateMemoryMap
  base,       \* process -> the base AllocateMMRegion returned
  calls,      \* process -> how many CreateMemoryMap calls it made
  host,       \* process -> the host pages of its live MemoryMap
  reserved    \* history: every range handed out, <<lo, len>>, in order

vars == <<cursor, holder, phase, registered, pc, len, base, calls, host, reserved>>

Init ==
  /\ cursor = InitBase
  /\ holder = NoOne
  /\ phase = "restore"
  /\ registered = {}
  /\ pc = [p \in Procs |-> "idle"]
  /\ len = [p \in Procs |-> 0]
  /\ base = [p \in Procs |-> 0]
  /\ calls = [p \in Procs |-> 0]
  /\ host = [p \in Procs |-> {}]
  /\ reserved = <<>>

\* Host pages in use: the snapshot's maps, other mappings, live maps.
Used == Foreign \cup UNION {Pages(r.base, r.len) : r \in registered}
          \cup UNION {host[p] : p \in Procs}

(***************************************************************************)
(* RegisterMMRegion(base, len): under mm_lock_, raise the cursor to the   *)
(* end of the range.  The restore maps the region at its snapshot base.   *)
(***************************************************************************)
\* Mutant of RegisterCursor: the cursor is set to the range's end.
RegisterCursorSet(c, r) == r.base + r.len

\* std::max(mm_base_addr_, base + PageAlign(len))
RegisterCursor(c, r) == MaxOf(c, r.base + r.len)

Register(r) ==
  /\ phase = "restore" /\ holder = NoOne /\ r \notin registered
  /\ cursor' = RegisterCursor(cursor, r)
  /\ registered' = registered \cup {r}
  /\ reserved' = Append(reserved, <<r.base, r.len>>)
  /\ UNCHANGED <<holder, phase, pc, len, base, calls, host>>

EndRestore ==
  /\ phase = "restore" /\ registered = Snapshot
  /\ phase' = "run"
  /\ UNCHANGED <<cursor, holder, registered, pc, len, base, calls, host, reserved>>

(***************************************************************************)
(* usys_execve -> CreateMemoryMap(len) -> AllocateMMRegion(len):          *)
(* rt::SpinGuard g(mm_lock_); base = mm_base_addr_;                       *)
(* mm_base_addr_ += PageAlign(len); and the guard's release.               *)
(***************************************************************************)
Call(p, l) ==
  /\ phase = "run" /\ pc[p] = "idle" /\ calls[p] < MaxCalls
  /\ pc' = [pc EXCEPT ![p] = "spin"]
  /\ len' = [len EXCEPT ![p] = l]
  /\ calls' = [calls EXCEPT ![p] = @ + 1]
  /\ UNCHANGED <<cursor, holder, phase, registered, base, host, reserved>>

\* Mutant of SpinFree: the spin lock does not exclude anyone.
SpinFreeAlways(h) == TRUE

\* The test-and-set of the spin lock succeeds only when it is free.
SpinFree(h) == h = NoOne

Acquire(p) ==
  /\ pc[p] = "spin" /\ SpinFree(holder)
  /\ holder' = p
  /\ pc' = [pc EXCEPT ![p] = "read"]
  /\ UNCHANGED <<cursor, phase, registered, len, base, calls, host, reserved>>

Read(p) ==
  /\ pc[p] = "read"
  /\ base' = [base EXCEPT ![p] = cursor]
  /\ pc' = [pc EXCEPT ![p] = "bump"]
  /\ UNCHANGED <<cursor, holder, phase, registered, len, calls, host, reserved>>

\* Mutant of Release: the guard's scope end leaves the lock held.
ReleaseKept(h) == h

\* ~SpinGuard
Release(h) == NoOne

Bump(p) ==
  /\ pc[p] = "bump"
  /\ cursor' = cursor + len[p]
  /\ holder' = Release(holder)
  /\ reserved' = Append(reserved, <<base[p], len[p]>>)
  /\ pc' = [pc EXCEPT ![p] = "mmap"]
  /\ UNCHANGED <<phase, registered, len, base, calls, host>>

(***************************************************************************)
(* KernelMMap(base, len, PROT_NONE, 0): without MAP_FIXED the host takes  *)
(* the hint when those pages are free and in range, else any free range,  *)
(* else fails; CreateMemoryMap returns the error or a MemoryMap at *ret.   *)
(***************************************************************************)
FreeAt(b, l) == b >= 0 /\ b + l <= MemTop /\ Pages(b, l) \cap Used = {}

Placements(hint, l) ==
  IF FreeAt(hint, l) THEN {hint} ELSE {b \in 0 .. MemTop : FreeAt(b, l)}

KernelMMap(p) ==
  /\ pc[p] = "mmap"
  /\ IF Placements(base[p], len[p]) = {}
       THEN pc' = [pc EXCEPT ![p] = "idle"] /\ UNCHANGED host
       ELSE \E b \in Placements(base[p], len[p]) :
              /\ host' = [host EXCEPT ![p] = Pages(b, len[p])]
              /\ pc' = [pc EXCEPT ![p] = "live"]
  /\ UNCHANGED <<cursor, holder, phase, registered, len, base, calls, reserved>>

\* The process drops its MemoryMap (exit, or the next exec's FinishExec):
\* the destructor unmaps its range; the allocator keeps it.
DropMap(p) ==
  /\ pc[p] = "live"
  /\ host' = [host EXCEPT ![p] = {}]
  /\ pc' = [pc EXCEPT ![p] = "idle"]
  /\ UNCHANGED <<cursor, holder, phase, registered, len, base, calls, reserved>>

Next ==
  \/ \E r \in Snapshot : Register(r)
  \/ EndRestore
  \/ \E p \in Procs :
       \/ \E l \in Lens : Call(p, l)
       \/ Acquire(p) \/ Read(p) \/ Bump(p) \/ KernelMMap(p) \/ DropMap(p)

\* The holder of mm_lock_ runs with preemption disabled, so it finishes
\* its two steps; some spinning process wins a free lock; a created map
\* is handed to its process.  Nothing forces a call or a drop.
Fairness ==
  /\ \A p \in Procs : WF_vars(Read(p)) /\ WF_vars(Bump(p)) /\ WF_vars(KernelMMap(p))
  /\ WF_vars(\E p \in Procs : Acquire(p))
  /\ WF_vars(\E r \in Snapshot : Register(r)) /\ WF_vars(EndRestore)

Spec == Init /\ [][Next]_vars /\ Fairness

-----------------------------------------------------------------------------
Overlap(a, b) == a[1] < b[1] + b[2] /\ b[1] < a[1] + a[2]

\* No two ranges the allocator ever handed out overlap, whether they came
\* from AllocateMMRegion or from a snapshot's RegisterMMRegion, and none is
\* handed out again after the map that had it is gone: address spaces of
\* junction's processes never collide (spec 2, 4.5).
ReservationsNeverOverlap ==
  \A i, j \in DOMAIN reserved :
    i < j /\ reserved[i][2] > 0 /\ reserved[j][2] > 0 => ~Overlap(reserved[i], reserved[j])

\* Processes contending for mm_lock_ are not stuck: whenever some process
\* spins on the lock, some AllocateMMRegion eventually completes.
AllocationProgress ==
  \A n \in 0 .. (Cardinality(Snapshot) + MaxCalls * Cardinality(Procs)) :
    (Len(reserved) = n /\ \E p \in Procs : pc[p] = "spin") ~> Len(reserved) > n

\* AllocateMMRegion's lock, read and bump together, and RegisterMMRegion,
\* implement the spec's atomic allocator: every range handed out starts at
\* the cursor as it stood, the cursor advances by exactly the length, and
\* a registration never moves it back (spec 4.5).
Allocator == INSTANCE MMAllocator

AllocatorSpec == Allocator!Spec
====
