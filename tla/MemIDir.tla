------------------------------- MODULE MemIDir -------------------------------
(***************************************************************************)
(* A memfs directory (fs/memfs/memfs.h: MemIDir) used by threads at once:  *)
(* the lazy first-access initialisation (DoInitCheck, RunInitialize, a    *)
(* double-checked flag with acquire/release), and the entry operations   *)
(* that run under lock_ and do not check the flag: Insert (try_emplace,   *)
(* EEXIST), Mount (InsertLockedNoCheck, which overwrites, and SetParent   *)
(* for a directory) and Unmount (ENOENT, dec_nlink, erase).               *)
(*                                                                         *)
(* DoInitialize is a hook of subclasses; its effect is counted.  Inodes   *)
(* have a link count, and only this directory links them.                 *)
(***************************************************************************)
EXTENDS Integers, FiniteSetsExt

CONSTANTS
  Threads,   \* threads using the directory
  Names,     \* entry names
  Files,     \* inodes that are not directories
  Dirs,      \* directory inodes that may be mounted
  MaxLink,   \* bound on a link count
  NoIno,     \* no entry under a name
  NoOne      \* lock_ is free

Inos == Files \cup Dirs

VARIABLES
  entries,      \* entries_: name -> inode or NoIno
  nlink,        \* inode -> link count
  parent,       \* directory inode -> its name in this directory, or NoIno
  initialized,  \* initialized_
  initCount,    \* how many times DoInitialize ran
  holder,       \* the thread holding lock_, or NoOne
  pc            \* thread -> step

vars == <<entries, nlink, parent, initialized, initCount, holder, pc>>

Init ==
  /\ entries = [n \in Names |-> NoIno]
  /\ nlink = [i \in Inos |-> 0]
  /\ parent = [d \in Dirs |-> NoIno]
  /\ initialized = FALSE
  /\ initCount = 0
  /\ holder = NoOne
  /\ pc = [t \in Threads |-> "idle"]

Goto(t, s) == pc' = [pc EXCEPT ![t] = s]

(***************************************************************************)
(* DoInitCheck is the protected entry of subclasses: a thread at "idle"   *)
(* calls it and, once it returns, is at "ready", where the subclass reads *)
(* the directory it expects to be initialised.                            *)
(***************************************************************************)
\* DoInitCheck: load_acquire of initialized_; RunInitialize when clear.
DoInitCheck(t) ==
  /\ pc[t] = "idle"
  /\ Goto(t, IF initialized THEN "ready" ELSE "lock")
  /\ UNCHANGED <<entries, nlink, parent, initialized, initCount, holder>>

\* Mutant of InnerCheck: RunInitialize does not test the flag again.
InnerCheckDropped(init) == TRUE

\* if (likely(!initialized_)) under the lock.
InnerCheck(init) == ~init

\* RunInitialize: ScopedLock g(lock_) and the second test; when the flag
\* is already set the scope ends at once and lock_ is released.
RunInitialize(t) ==
  /\ pc[t] = "lock"
  /\ holder = NoOne
  /\ holder' = IF InnerCheck(initialized) THEN t ELSE NoOne
  /\ Goto(t, IF InnerCheck(initialized) THEN "init1" ELSE "ready")
  /\ UNCHANGED <<entries, nlink, parent, initialized, initCount>>

\* Mutant of InitSteps: MarkInitialized before DoInitialize.
InitStepsMarkFirst == <<"mark", "init">>

\* DoInitialize(); MarkInitialized(); in this order.
InitSteps == <<"init", "mark">>

InitStep(s) ==
  \/ s = "init" /\ initCount' = initCount + 1 /\ UNCHANGED initialized
  \/ s = "mark" /\ initialized' = TRUE /\ UNCHANGED initCount

Initialize1(t) ==
  /\ pc[t] = "init1"
  /\ InitStep(InitSteps[1])
  /\ Goto(t, "init2")
  /\ UNCHANGED <<entries, nlink, parent, holder>>

\* Mutant of Initialize2: the end of the scope leaves lock_ held.
Initialize2Unreleased(t) ==
  /\ pc[t] = "init2"
  /\ InitStep(InitSteps[2])
  /\ Goto(t, "ready")
  /\ UNCHANGED <<entries, nlink, parent, holder>>

\* The second step, then the end of the scope releases lock_.
Initialize2(t) ==
  /\ pc[t] = "init2"
  /\ InitStep(InitSteps[2])
  /\ holder' = NoOne
  /\ Goto(t, "ready")
  /\ UNCHANGED <<entries, nlink, parent>>

\* The subclass's code after DoInitCheck returns; it reads only.
Use(t) ==
  /\ pc[t] = "ready"
  /\ Goto(t, "idle")
  /\ UNCHANGED <<entries, nlink, parent, initialized, initCount, holder>>

(***************************************************************************)
(* The entry operations.  None of them calls DoInitCheck; each takes      *)
(* lock_ (ScopedLock) for its whole body, so it is one step of a thread   *)
(* that is between calls and finds lock_ free.                            *)
(***************************************************************************)
\* Mutant of IncNlink: the new entry's inode does not get its link.
IncNlinkSkipped(nl, i) == nl

\* Inode::inc_nlink of the inode an entry is made for.
IncNlink(nl, i) == [nl EXCEPT ![i] = @ + 1]

\* Model bound, not in the code: Mount over a taken name keeps the old
\* inode's link, so link counts grow without end; no step takes one past
\* MaxLink.
LinkBound(i) == nlink[i] < MaxLink

Locked(t) ==
  /\ pc[t] = "idle"
  /\ holder = NoOne
  /\ UNCHANGED <<initialized, initCount, holder, pc>>

\* Insert(name, ino) -> InsertLocked: try_emplace; EEXIST if taken.
Insert(t, n, i) ==
  /\ Locked(t)
  /\ IF entries[n] # NoIno
       THEN UNCHANGED <<entries, nlink>>
       ELSE /\ LinkBound(i)
            /\ entries' = [entries EXCEPT ![n] = i]
            /\ nlink' = IncNlink(nlink, i)
  /\ UNCHANGED parent

\* Mount(name, ino): InsertLockedNoCheck (inc_nlink, entries_[name] = ino)
\* and, for a directory, SetParent(this, name).
Mount(t, n, i) ==
  /\ Locked(t)
  /\ LinkBound(i)
  /\ entries' = [entries EXCEPT ![n] = i]
  /\ nlink' = IncNlink(nlink, i)
  /\ parent' = IF i \in Dirs THEN [parent EXCEPT ![i] = n] ELSE parent

\* Unmount(name): ENOENT, or dec_nlink of the entry's inode and erase.
Unmount(t, n) ==
  /\ Locked(t)
  /\ IF entries[n] = NoIno
       THEN UNCHANGED <<entries, nlink>>
       ELSE /\ nlink' = [nlink EXCEPT ![entries[n]] = @ - 1]
            /\ entries' = [entries EXCEPT ![n] = NoIno]
  /\ UNCHANGED parent

Next ==
  \E t \in Threads :
    \/ DoInitCheck(t) \/ RunInitialize(t) \/ Initialize1(t) \/ Initialize2(t)
    \/ Use(t)
    \/ \E n \in Names, i \in Inos : Insert(t, n, i) \/ Mount(t, n, i)
    \/ \E n \in Names : Unmount(t, n)

\* A thread inside DoInitCheck is eventually scheduled, and lock_ is a
\* blocking mutex whose waiters are woken when it is released: those steps
\* are weakly fair.  Calling DoInitCheck, and the entry operations, are
\* the callers' choice and need no fairness.
Fairness ==
  \A t \in Threads :
    /\ WF_vars(RunInitialize(t))
    /\ WF_vars(Initialize1(t)) /\ WF_vars(Initialize2(t))

Spec == Init /\ [][Next]_vars /\ Fairness

-----------------------------------------------------------------------------
\* DoInitialize runs at most once, however many threads find the directory
\* uninitialised at the same time: the flag is tested again under lock_.
InitializedOnce == initCount <= 1

\* DoInitCheck never returns before DoInitialize has finished, whether the
\* thread ran it, waited on lock_ for the thread that ran it, or read the
\* flag without the lock: the release store of initialized_ comes after
\* DoInitialize, so a thread that reads it set also sees its effects.
InitCheckReturnsInitialized ==
  \A t \in Threads : pc[t] = "ready" => initCount = 1

\* No inode named by an entry of the directory has fewer links than the
\* names it has here: Insert and Mount count the link they make, Unmount
\* drops the link of the entry it erases, so an inode never reaches a
\* link count of zero (and is never treated as unlinked) while a name of
\* the directory still leads to it.
NamedInodesLinked ==
  \A i \in Inos : nlink[i] >= Quantify(Names, LAMBDA n : entries[n] = i)

\* Every thread that finds the directory uninitialised gets past
\* RunInitialize: the thread that initialises it releases lock_, and the
\* threads that queued on lock_ meanwhile find the flag set.
InitCompletes ==
  \A t \in Threads : pc[t] \in {"lock", "init1", "init2"} ~> pc[t] = "ready"
=============================================================================
