------------------------------ MODULE PageTracer ------------------------------
(***************************************************************************)
(* Page-access tracing of one MemoryMap (mm.h: PageAccessTracer,          *)
(* EnableTracing, HandlePageFault, RecordHit, EndTracing) with threads of *)
(* the traced process faulting concurrently.                               *)
(*                                                                         *)
(* The registry is seen page by page (MemoryMap refines this page view,   *)
(* see AddressSpace): regProt is the protection vmareas_ records for each *)
(* page, traced the VMArea::traced bit.  kprot is the host protection.    *)
(* mu_ is a reader-writer lock: the fault path holds it shared, MProtect  *)
(* exclusively.  The steps of a fault are the points where another thread *)
(* can run: taking the lock, the Find, the three steps of                 *)
(* PageAccessTracer::RecordHit (try_emplace, read of it->second, write of *)
(* the minimum), and the host protection restore.                         *)
(***************************************************************************)
EXTENDS Integers, FiniteSets

CONSTANTS
  Threads,   \* threads of the traced process
  Pages,     \* pages of the memory map
  MaxTime,   \* bound on the clock
  NoTime     \* absent entry of access_at_

ASSUME MaxTime \in Nat /\ NoTime \notin Nat

\* Protections of a VMArea and of a host page; access kinds of a fault.
Prots == {"none", "r", "rw"}
Accesses == {"r", "w"}

\* Whether protection prot allows an access of kind need.
Permits(prot, need) == IF need = "r" THEN prot \in {"r", "rw"} ELSE prot = "rw"

VARIABLES
  regProt,   \* page -> protection recorded in vmareas_
  traced,    \* page -> VMArea::traced
  kprot,     \* page -> host protection ("none" while armed)
  tracing,   \* tracer_ != nullptr
  hits,      \* PageAccessTracer::access_at_: page -> time or NoTime
  clock,     \* the Time source
  pc,        \* thread -> step of the fault path it is at
  fpage,     \* thread -> faulting page
  fneed,     \* thread -> required_prot of the fault
  ftime,     \* thread -> Time passed to HandlePageFault
  fprot,     \* thread -> vma.prot read by Find
  fread,     \* thread -> it->second read inside RecordHit
  readers,   \* threads holding mu_ shared
  recorded   \* history: page -> earliest time passed to RecordHit

vars == <<regProt, traced, kprot, tracing, hits, clock, pc, fpage, fneed,
          ftime, fprot, fread, readers, recorded>>

Min2(a, b) == IF a <= b THEN a ELSE b

Init ==
  /\ regProt \in [Pages -> Prots]
  /\ traced = [p \in Pages |-> FALSE]
  /\ kprot = regProt
  /\ tracing = FALSE
  /\ hits = [p \in Pages |-> NoTime]
  /\ clock = 0
  /\ pc = [t \in Threads |-> "run"]
  /\ fpage = [t \in Threads |-> CHOOSE p \in Pages : TRUE]
  /\ fneed = [t \in Threads |-> "r"]
  /\ ftime = [t \in Threads |-> 0]
  /\ fprot = [t \in Threads |-> "none"]
  /\ fread = [t \in Threads |-> NoTime]
  /\ readers = {}
  /\ recorded = [p \in Pages |-> NoTime]

Goto(t, step) == pc' = [pc EXCEPT ![t] = step]

\* All threads of the process are stopped (outside the fault path): the
\* precondition EnableTracing and EndTracing put on their caller.
Quiescent == \A t \in Threads : pc[t] = "run"

(***************************************************************************)
(* A thread makes an access of kind need to page p that the host denies:  *)
(* the SIGSEGV handler calls HandlePageFault with the current time.  An   *)
(* access the host allows raises nothing and changes nothing.             *)
(***************************************************************************)
Fault(t, p, need) ==
  /\ pc[t] = "run"
  /\ ~Permits(kprot[p], need)
  /\ clock < MaxTime
  /\ clock' = clock + 1
  /\ Goto(t, "find")
  /\ fpage' = [fpage EXCEPT ![t] = p]
  /\ fneed' = [fneed EXCEPT ![t] = need]
  /\ ftime' = [ftime EXCEPT ![t] = clock]
  /\ UNCHANGED <<regProt, traced, kprot, tracing, hits, fprot, fread, readers,
                 recorded>>

(***************************************************************************)
(* HandlePageFault: take mu_ shared and Find the VMA.  If it is not       *)
(* traced, or its protection does not allow the access (a genuine         *)
(* protection fault), return false and drop the lock; otherwise go on to  *)
(* RecordHit with vma.prot kept for the restore.                          *)
(***************************************************************************)
FaultFind(t) ==
  LET p == fpage[t]
      ours == tracing /\ traced[p] /\ Permits(regProt[p], fneed[t])
  IN /\ pc[t] = "find"
     /\ fprot' = [fprot EXCEPT ![t] = regProt[p]]
     /\ Goto(t, IF ours THEN "emplace" ELSE "run")
     /\ readers' = IF ours THEN readers \cup {t} ELSE readers
     /\ recorded' = IF ours
                      THEN [recorded EXCEPT ![p] =
                              IF @ = NoTime THEN ftime[t] ELSE Min2(@, ftime[t])]
                      ELSE recorded
     /\ UNCHANGED <<regProt, traced, kprot, tracing, hits, clock, fpage, fneed,
                    ftime, fread>>

(***************************************************************************)
(* PageAccessTracer::RecordHit(page, t):                                   *)
(*   auto [it, inserted] = access_at_.try_emplace(page, t);               *)
(*   it->second = std::min(it->second, t);                                 *)
(* three memory steps, none of them atomic with the others.               *)
(***************************************************************************)
RecordHitEmplace(t) ==
  LET p == fpage[t] IN
  /\ pc[t] = "emplace"
  /\ hits' = [hits EXCEPT ![p] = IF @ = NoTime THEN ftime[t] ELSE @]
  /\ Goto(t, "read")
  /\ UNCHANGED <<regProt, traced, kprot, tracing, clock, fpage, fneed, ftime,
                 fprot, fread, readers, recorded>>

RecordHitRead(t) ==
  /\ pc[t] = "read"
  /\ fread' = [fread EXCEPT ![t] = hits[fpage[t]]]
  /\ Goto(t, "write")
  /\ UNCHANGED <<regProt, traced, kprot, tracing, hits, clock, fpage, fneed,
                 ftime, fprot, readers, recorded>>

RecordHitWrite(t) ==
  /\ pc[t] = "write"
  /\ hits' = [hits EXCEPT ![fpage[t]] = Min2(fread[t], ftime[t])]
  /\ Goto(t, "protect")
  /\ UNCHANGED <<regProt, traced, kprot, tracing, clock, fpage, fneed, ftime,
                 fprot, fread, readers, recorded>>

\* Restore the VMA's protection for the page, drop mu_, retry the access.
FaultProtect(t) ==
  /\ pc[t] = "protect"
  /\ kprot' = [kprot EXCEPT ![fpage[t]] = fprot[t]]
  /\ readers' = readers \ {t}
  /\ Goto(t, "run")
  /\ UNCHANGED <<regProt, traced, tracing, hits, clock, fpage, fneed, ftime,
                 fprot, fread, recorded>>

(***************************************************************************)
(* MProtect of one page by a running thread, under mu_ held exclusively  *)
(* for the whole call: host protection change, then Modify, which keeps  *)
(* the traced bit of the area.                                            *)
(***************************************************************************)
\* Mutant of MProtectMayLock: the exclusive lock does not wait for the
\* fault path's shared holders.
MProtectIgnoresReaders == TRUE

\* mu_ can be taken exclusively only when no thread holds it shared.
MProtectMayLock == readers = {}

MProtect(t, p, prot) ==
  /\ pc[t] = "run"
  /\ MProtectMayLock
  /\ regProt' = [regProt EXCEPT ![p] = prot]
  /\ kprot' = [kprot EXCEPT ![p] = prot]
  /\ UNCHANGED <<traced, tracing, hits, clock, pc, fpage, fneed, ftime, fprot,
                 fread, readers, recorded>>

(***************************************************************************)
(* EnableTracing: every area traced, host access removed, empty tracer.  *)
(* EndTracing: original protections restored, tracer detached.  Both run *)
(* under mu_ exclusively with the threads of the process stopped.        *)
(***************************************************************************)
EnableTracing ==
  /\ Quiescent /\ ~tracing
  /\ traced' = [p \in Pages |-> TRUE]
  /\ kprot' = [p \in Pages |-> "none"]
  /\ tracing' = TRUE
  /\ hits' = [p \in Pages |-> NoTime]
  /\ recorded' = [p \in Pages |-> NoTime]
  /\ UNCHANGED <<regProt, clock, pc, fpage, fneed, ftime, fprot, fread, readers>>

\* The host protections EndTracing leaves: those of the registry.
EndTracingRestore == regProt

EndTracing ==
  /\ Quiescent /\ tracing
  /\ traced' = [p \in Pages |-> FALSE]
  /\ kprot' = EndTracingRestore
  /\ tracing' = FALSE
  /\ UNCHANGED <<regProt, hits, clock, pc, fpage, fneed, ftime, fprot, fread,
                 readers, recorded>>

Next ==
  \/ \E t \in Threads :
       \/ \E p \in Pages, need \in Accesses : Fault(t, p, need)
       \/ FaultFind(t)
       \/ RecordHitEmplace(t) \/ RecordHitRead(t) \/ RecordHitWrite(t)
       \/ FaultProtect(t)
       \/ \E p \in Pages, prot \in Prots : MProtect(t, p, prot)
  \/ EnableTracing
  \/ EndTracing

Spec == Init /\ [][Next]_vars

-----------------------------------------------------------------------------
\* A fault on page p is still being handled.
InFlight(p) == \E t \in Threads : pc[t] # "run" /\ fpage[t] = p

\* First touch (spec 4.4): once no fault on p is being handled, the time
\* the tracer holds for p is the earliest time any thread passed to
\* RecordHit for it, whatever order racing faulting threads ran in.
FirstTouch ==
  \A p \in Pages :
    tracing /\ hits[p] # NoTime /\ ~InFlight(p) => hits[p] = recorded[p]

\* Tracing never grants more than the registry: a host page is either
\* armed (no access) or has exactly the protection vmareas_ records.  The
\* fault path reads vma.prot under the shared lock and applies it after
\* RecordHit; an MProtect slipping in between would leave the old, wider
\* protection on the page.
HostWithinRegistry ==
  \A p \in Pages : kprot[p] \in {"none", regProt[p]}

=============================================================================
