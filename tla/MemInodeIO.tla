----------------------------- MODULE MemInodeIO -----------------------------
(***************************************************************************)
(* Reads and writes of one memfs file (fs/memfs/memfs.h: MemInode::Read,  *)
(* MemInode::Write) by threads at once.  lock_ is a shared mutex: readers *)
(* and writers of the contents hold it shared; only a resize of buf_      *)
(* takes it exclusively, through UpgradeLock, which may let other threads *)
(* in before it returns (hence the second size check), and DowngradeLock.  *)
(*                                                                         *)
(* The contents are left out: what is checked is where the copies land.   *)
(* off_t and size_t arithmetic keeps its unsigned wrap-around (modulo     *)
(* WRAP, which exceeds every size and offset used).                        *)
(***************************************************************************)
EXTENDS Integers

CONSTANTS
  Threads,   \* threads reading or writing the file
  Offsets,   \* file positions *off the calls are given
  Lens,      \* buffer sizes of the calls
  InitSize,  \* buf_.size() when the file is opened
  WRAP,      \* 2^w for the width w of size_t
  MaxCalls   \* bound on the Read/Write calls of all threads together

VARIABLES
  size,      \* buf_.size()
  pc,        \* thread -> step of its call
  op,        \* thread -> "read" or "write"
  off,       \* thread -> *off
  len,       \* thread -> buf.size()
  cnt,       \* thread -> n, the byte count Read copies
  readers,   \* threads holding lock_ shared
  calls      \* the calls made so far

vars == <<size, pc, op, off, len, cnt, readers, calls>>

\* buf_.size() - *off as size_t.
Sub(a, b) == (a - b) % WRAP

Init ==
  /\ size = InitSize
  /\ pc = [t \in Threads |-> "idle"]
  /\ op = [t \in Threads |-> "read"]
  /\ off = [t \in Threads |-> 0]
  /\ len = [t \in Threads |-> 0]
  /\ cnt = [t \in Threads |-> 0]
  /\ readers = {}
  /\ calls = 0

\* A thread calls Read or Write with a position and a buffer.
Call(t, o, p, l) ==
  /\ pc[t] = "idle" /\ calls < MaxCalls
  /\ calls' = calls + 1
  /\ pc' = [pc EXCEPT ![t] = "lock"]
  /\ op' = [op EXCEPT ![t] = o]
  /\ off' = [off EXCEPT ![t] = p]
  /\ len' = [len EXCEPT ![t] = l]
  /\ UNCHANGED <<size, cnt, readers>>

\* Mutant of ReadCount: the count is not limited by the bytes left.
ReadCountLen(sz, p, l) == l

\* n = std::min(buf.size(), buf_.size() - *off)
ReadCount(sz, p, l) == IF l <= Sub(sz, p) THEN l ELSE Sub(sz, p)

\* The test of Write, before and after UpgradeLock: the file is too short.
NeedsGrow(sz, p, l) == Sub(sz, p) < l

\* Mutant of Recheck: the size test after UpgradeLock is left out.
RecheckDropped(sz, p, l) == TRUE

\* The test repeated under the exclusive lock.
Recheck(sz, p, l) == NeedsGrow(sz, p, l)

(***************************************************************************)
(* ScopedSharedLock g_(lock_), then Read computes n, Write its size test. *)
(***************************************************************************)
Lock(t) ==
  /\ pc[t] = "lock"
  /\ readers' = readers \cup {t}
  /\ pc' = [pc EXCEPT ![t] =
              IF op[t] = "read" THEN "copy"
              ELSE IF NeedsGrow(size, off[t], len[t]) THEN "upgrade" ELSE "copy"]
  /\ cnt' = [cnt EXCEPT ![t] = ReadCount(size, off[t], len[t])]
  /\ UNCHANGED <<size, op, off, len, calls>>

\* Mutant of Unshare: UpgradeLock keeps its shared hold while it waits.
UnshareKept(r, t) == r

\* UpgradeLock gives up the caller's shared hold.
Unshare(r, t) == r \ {t}

(***************************************************************************)
(* rt::SharedMutex is not in the sources at hand.  UpgradeLock is taken   *)
(* to give up the caller's shared hold and then wait for lock_ alone: the *)
(* second size test in Write is there because other threads may get in   *)
(* meanwhile.  The exclusive hold lasts from UpgradeLock's return to      *)
(* DowngradeLock and contains no other wait, so it is one step, Resize,   *)
(* that no other holder can overlap.                                      *)
(***************************************************************************)
Upgrade(t) ==
  /\ pc[t] = "upgrade"
  /\ readers' = Unshare(readers, t)
  /\ pc' = [pc EXCEPT ![t] = "exclusive"]
  /\ UNCHANGED <<size, op, off, len, cnt, calls>>

\* Holding lock_ alone: the second test, buf_.Resize(buf.size() + *off),
\* and DowngradeLock back to shared.
Resize(t) ==
  /\ pc[t] = "exclusive"
  /\ readers = {}
  /\ size' = IF Recheck(size, off[t], len[t]) THEN len[t] + off[t] ELSE size
  /\ readers' = {t}
  /\ pc' = [pc EXCEPT ![t] = "copy"]
  /\ UNCHANGED <<op, off, len, cnt, calls>>

\* The copy into or out of buf_, *off += n, and the end of the scope.
Copy(t) ==
  /\ pc[t] = "copy"
  /\ off' = [off EXCEPT ![t] = @ + (IF op[t] = "read" THEN cnt[t] ELSE len[t])]
  /\ readers' = readers \ {t}
  /\ pc' = [pc EXCEPT ![t] = "idle"]
  /\ UNCHANGED <<size, op, len, cnt, calls>>

Next ==
  \E t \in Threads :
    \/ \E o \in {"read", "write"}, p \in Offsets, l \in Lens : Call(t, o, p, l)
    \/ Lock(t) \/ Upgrade(t) \/ Resize(t) \/ Copy(t)

\* A thread inside Read or Write is runnable or blocked on lock_, and the
\* scheduler runs it or wakes it when the lock frees: weak fairness of each
\* of its steps.  Nothing makes a thread call.
Fairness ==
  \A t \in Threads :
    WF_vars(Lock(t)) /\ WF_vars(Upgrade(t)) /\ WF_vars(Resize(t)) /\ WF_vars(Copy(t))

Spec == Init /\ [][Next]_vars /\ Fairness

-----------------------------------------------------------------------------
\* The bytes a thread at its copy step is about to touch.
CopyEnd(t) == off[t] + (IF op[t] = "read" THEN cnt[t] ELSE len[t])

\* Every copy stays inside buf_: when a thread is about to copy, the bytes
\* [*off, *off + n) of a Read and [*off, *off + buf.size()) of a Write lie
\* below buf_.size(), whatever other readers, writers and resizes ran
\* between its size test and the copy.
CopiesInBounds ==
  \A t \in Threads : pc[t] = "copy" => CopyEnd(t) <= size

\* Write never shrinks the file: a writer that found the file too short
\* and waited for the exclusive lock does not cut back a file another
\* writer has meanwhile grown further.
WriteNeverShrinks == [][size' >= size]_size

\* Every Read and Write returns: a writer that found the file too short and
\* entered UpgradeLock gets lock_ alone once the other holders are done,
\* even when several writers upgrade at once.
CallsComplete == \A t \in Threads : pc[t] # "idle" ~> pc[t] = "idle"
=============================================================================
