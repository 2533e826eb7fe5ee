---------------------------- MODULE SyscallRouting ----------------------------
(***************************************************************************)
(* How a syscall of the application reaches its handler.  init()          *)
(* (junction.cc) runs its steps in order; SyscallInit (syscall.cc) edits  *)
(* the generated tables sys_tbl and sys_tbl_strace for uintr, strace and   *)
(* stack switching and publishes sys_tbl at SYSTBL_TRAMPOLINE_LOC          *)
(* (dst_tbl), the table the function-call path jumps through; the last    *)
(* step, init_seccomp (seccomp.cc), installs the SIGSYS handler and then  *)
(* the filter, so that a raw syscall instruction outside the allow lists  *)
(* traps, is redirected to junction_syscall_full_trap and dispatched by   *)
(* sys_dispatch through sys_tbl.                                           *)
(*                                                                         *)
(* A handler is a record: the entry point's name and, for an ordinary     *)
(* syscall, its number.  The init steps that do not touch routing          *)
(* (InitSignal, InitChroot, ...) are only their outcome.                   *)
(***************************************************************************)
EXTENDS Integers, Sequences, SequencesExt

CONSTANTS
  Ordinary,        \* ordinary syscall numbers, below 451
  Raw,             \* numbers a raw syscall instruction may carry
  SYS_NR,          \* entries of sys_tbl
  AllowAny,        \* ALLOW_SYSCALL(...) of the filter
  AllowCaladan,    \* ALLOW_CALADAN_SYSCALL(...)
  AllowJunction,   \* ALLOW_JUNCTION_SYSCALL(...)
  AppThreads,      \* uthreads of the application
  JunctionThreads, \* runtime threads without uthread-specific data
  CaladanThreads   \* contexts without thread_self() (the scheduler)

Threads == AppThreads \cup JunctionThreads \cup CaladanThreads
Entries == Ordinary \cup {451, 452, 453, 454}

H(name, nr) == [name |-> name, nr |-> nr]
None == H("none", 0)

\* The fncall entry points the generated tables hold at 451 .. 454.
SE   == H("stackswitch_enter", 0)
SEP  == H("stackswitch_enter_preserve_regs", 0)
SEU  == H("stackswitch_enter_uintr", 0)
SEPU == H("stackswitch_enter_preserve_regs_uintr", 0)
FE   == H("fncall_enter", 0)
FEP  == H("fncall_enter_preserve_regs", 0)
Fncall == (451 :> SE) @@ (452 :> SEP) @@ (453 :> FE) @@ (454 :> FEP)

\* systbl.h: sys_tbl and sys_tbl_strace as generated.
GenSys    == [e \in Entries |-> IF e \in Ordinary THEN H("sys", e) ELSE Fncall[e]]
GenStrace == [e \in Entries |-> IF e \in Ordinary THEN H("strace", e) ELSE Fncall[e]]

InitSteps == <<"InitFS", "InitSignal", "SyscallInit", "InitChroot", "ShimJmpInit",
               "InitUnixTime", "InitControlServer", "handler", "filter", "running">>

VARIABLES
  cfg,       \* GetCfg(): strace, stack_switching; and uintr_enabled
  step,      \* index into InitSteps of init's next step, or 0 once it failed
  tbl,       \* [sys |-> sys_tbl, strace |-> sys_tbl_strace, dst |-> dst_tbl]
  handler,   \* the SIGSYS handler is installed
  filter,    \* the seccomp filter is installed
  tpc,       \* thread -> "idle", "sigsys" or "dispatch"
  tnr,       \* thread -> number of its last syscall
  reached,   \* thread -> handler its last syscall reached
  exited     \* syscall_exit(-1) or a fatal signal ended the process

vars == <<cfg, step, tbl, handler, filter, tpc, tnr, reached, exited>>

\* JunctionCfg::FillFromArgs sets strace and stack_switching from the
\* command line; uintr_enabled comes from the Caladan runtime.
Init ==
  /\ cfg \in [strace : BOOLEAN, stackSwitch : BOOLEAN, uintr : BOOLEAN]
  /\ step = 1
  /\ tbl = [sys |-> GenSys, strace |-> GenStrace, dst |-> [e \in Entries |-> None]]
  /\ handler = FALSE /\ filter = FALSE
  /\ tpc = [t \in Threads |-> "idle"]
  /\ tnr = [t \in Threads |-> 0]
  /\ reached = [t \in Threads |-> None]
  /\ exited = FALSE

At(s) == step > 0 /\ InitSteps[step] = s
Running == At("running") /\ ~exited
Advance == step' = step + 1
Fail == step' = 0

(***************************************************************************)
(* The init steps that do not touch routing.  InitFS always returns {}.   *)
(***************************************************************************)
OpaqueStep ==
  /\ \E s \in {"InitSignal", "InitChroot", "ShimJmpInit", "InitUnixTime",
               "InitControlServer"}, ok \in BOOLEAN :
       At(s) /\ IF ok THEN Advance ELSE Fail
  /\ UNCHANGED <<cfg, tbl, handler, filter, tpc, tnr, reached, exited>>

InitFS ==
  /\ At("InitFS") /\ Advance
  /\ UNCHANGED <<cfg, tbl, handler, filter, tpc, tnr, reached, exited>>

(***************************************************************************)
(* SyscallInit.  The uintr rewrite of entries 451 and 452 in both tables  *)
(* comes first; then KernelMMapFixed of dst_tbl, whose failure returns    *)
(* early; then the steps of SyscallInitSteps in order.                     *)
(***************************************************************************)
\* Mutant of UintrStep: only sys_tbl gets the uintr entry points.
UintrStepSysOnly(T, c) ==
  IF c.uintr THEN [T EXCEPT !.sys = [@ EXCEPT ![451] = SEU, ![452] = SEPU]] ELSE T

\* sys_tbl_strace[451] = sys_tbl[451] = ..._uintr, and the same for 452.
UintrStep(T, c) ==
  IF c.uintr
    THEN [T EXCEPT !.sys    = [@ EXCEPT ![451] = SEU, ![452] = SEPU],
                   !.strace = [@ EXCEPT ![451] = SEU, ![452] = SEPU]]
    ELSE T

\* Mutant of StraceStep: the strace table is copied over dst_tbl, which
\* the final memcpy then overwrites.
StraceStepDst(T, c) == IF c.strace THEN [T EXCEPT !.dst = T.strace] ELSE T

\* memcpy(sys_tbl, sys_tbl_strace, sizeof(sys_tbl_strace)) under strace.
StraceStep(T, c) == IF c.strace THEN [T EXCEPT !.sys = T.strace] ELSE T

\* Mutant of StackSwitchStep: the edit lands in dst_tbl, as in
\* SyscallForceStackSwitch, instead of sys_tbl.
StackSwitchStepDst(T, c) ==
  IF c.stackSwitch THEN [T EXCEPT !.dst = [@ EXCEPT ![453] = T.sys[451], ![454] = T.sys[452]]]
  ELSE T

\* sys_tbl[453] = sys_tbl[451]; sys_tbl[454] = sys_tbl[452].
StackSwitchStep(T, c) ==
  IF c.stackSwitch THEN [T EXCEPT !.sys = [@ EXCEPT ![453] = T.sys[451], ![454] = T.sys[452]]]
  ELSE T

\* memcpy(dst_tbl, sys_tbl, sizeof(sys_tbl)).
Publish(T, c) == [T EXCEPT !.dst = T.sys]

SyscallInitSteps == <<"strace", "stackswitch", "publish">>

ApplyStep(T, s, c) ==
  CASE s = "strace"      -> StraceStep(T, c)
    [] s = "stackswitch" -> StackSwitchStep(T, c)
    [] s = "publish"     -> Publish(T, c)

SyscallInit ==
  /\ At("SyscallInit")
  /\ \E mmapOk \in BOOLEAN :
       IF mmapOk
         THEN /\ tbl' = FoldLeft(LAMBDA T, s : ApplyStep(T, s, cfg),
                                 UintrStep(tbl, cfg), SyscallInitSteps)
              /\ Advance
         ELSE tbl' = UintrStep(tbl, cfg) /\ Fail
  /\ UNCHANGED <<cfg, handler, filter, tpc, tnr, reached, exited>>

(***************************************************************************)
(* init_seccomp: _install_signal_handler (base_sigaction of SIGSYS may    *)
(* fail), then _install_seccomp_filter (prctl(PR_SET_NO_NEW_PRIVS) or the  *)
(* seccomp call, with SECCOMP_FILTER_FLAG_TSYNC, may fail).  init returns *)
(* the error of the first step that fails and junction exits.              *)
(***************************************************************************)
InstallSignalHandler ==
  /\ At("handler")
  /\ \E ok \in BOOLEAN : IF ok THEN handler' = TRUE /\ Advance
                                ELSE UNCHANGED handler /\ Fail
  /\ UNCHANGED <<cfg, tbl, filter, tpc, tnr, reached, exited>>

InstallSeccompFilter ==
  /\ At("filter")
  /\ \E ok \in BOOLEAN : IF ok THEN filter' = TRUE /\ Advance
                                ELSE UNCHANGED filter /\ Fail
  /\ UNCHANGED <<cfg, tbl, handler, tpc, tnr, reached, exited>>

\* The filter lets a syscall through to the host: the allow lists by the
\* kind of context that issues it; everything else is TRAP.
Allowed(t, n) ==
  \/ n \in AllowAny
  \/ t \in CaladanThreads /\ n \in AllowCaladan
  \/ t \in JunctionThreads /\ n \in AllowJunction

(***************************************************************************)
(* Syscalls once the application runs.                                    *)
(***************************************************************************)
Idle(t) == Running /\ tpc[t] = "idle"

\* The function-call path: the shim jumps through dst_tbl[n].
FnCall(t, n) ==
  /\ Idle(t) /\ t \in AppThreads
  /\ tnr' = [tnr EXCEPT ![t] = n]
  /\ reached' = [reached EXCEPT ![t] = tbl.dst[n]]
  /\ UNCHANGED <<cfg, step, tbl, handler, filter, tpc, exited>>

\* A syscall instruction: through to the host, or SIGSYS.
RawSyscall(t, n) ==
  /\ Idle(t)
  /\ tnr' = [tnr EXCEPT ![t] = n]
  /\ IF filter /\ ~Allowed(t, n)
       THEN tpc' = [tpc EXCEPT ![t] = "sigsys"] /\ UNCHANGED reached
       ELSE reached' = [reached EXCEPT ![t] = H("host", n)] /\ UNCHANGED tpc
  /\ UNCHANGED <<cfg, step, tbl, handler, filter, exited>>

\* __signal_handler: a trap from a context without thread_self() or
\* without uthread-specific data ends the process; an application thread
\* is redirected to junction_syscall_full_trap.
SigsysExit(t) ==
  /\ Running /\ tpc[t] = "sigsys" /\ t \notin AppThreads
  /\ exited' = TRUE
  /\ UNCHANGED <<cfg, step, tbl, handler, filter, tpc, tnr, reached>>

SigsysRedirect(t) ==
  /\ Running /\ tpc[t] = "sigsys" /\ t \in AppThreads
  /\ tpc' = [tpc EXCEPT ![t] = "dispatch"]
  /\ UNCHANGED <<cfg, step, tbl, handler, filter, tnr, reached, exited>>

\* sys_dispatch: -ENOSYS at or past SYS_NR, else sys_tbl[syscall].
SysDispatch(t) ==
  /\ Running /\ tpc[t] = "dispatch"
  /\ reached' = [reached EXCEPT ![t] =
                   IF tnr[t] >= SYS_NR THEN H("enosys", tnr[t]) ELSE tbl.sys[tnr[t]]]
  /\ tpc' = [tpc EXCEPT ![t] = "idle"]
  /\ UNCHANGED <<cfg, step, tbl, handler, filter, tnr, exited>>

\* SyscallForceStackSwitch and SyscallRestoreNoStackSwitch.
ForceStackSwitch ==
  /\ Running
  /\ tbl' = [tbl EXCEPT !.dst = [@ EXCEPT ![453] = tbl.sys[451], ![454] = tbl.sys[452]]]
  /\ UNCHANGED <<cfg, step, handler, filter, tpc, tnr, reached, exited>>

RestoreNoStackSwitch ==
  /\ Running
  /\ tbl' = [tbl EXCEPT !.dst = [@ EXCEPT ![453] = tbl.sys[453], ![454] = tbl.sys[454]]]
  /\ UNCHANGED <<cfg, step, handler, filter, tpc, tnr, reached, exited>>

Next ==
  \/ InitFS \/ OpaqueStep \/ SyscallInit
  \/ InstallSignalHandler \/ InstallSeccompFilter
  \/ ForceStackSwitch \/ RestoreNoStackSwitch
  \/ \E t \in Threads :
       \/ \E n \in Ordinary : FnCall(t, n)
       \/ \E n \in Raw : RawSyscall(t, n)
       \/ SigsysExit(t) \/ SigsysRedirect(t) \/ SysDispatch(t)

Spec == Init /\ [][Next]_vars

-----------------------------------------------------------------------------
\* SyscallInit has completed.
Published == step > 3

\* An ordinary syscall of the application reaches the same handler
\* whichever way it enters junction, a function call through dst_tbl or a
\* trapped instruction dispatched through sys_tbl, and that handler is the
\* strace wrapper exactly when strace is configured.
SameHandlerEitherPath ==
  \A t \in AppThreads :
    tpc[t] = "idle" /\ tnr[t] \in Ordinary
      /\ reached[t].name \notin {"none", "host", "enosys"}
      => reached[t] = H(IF cfg.strace THEN "strace" ELSE "sys", tnr[t])

\* With user interrupts enabled, no table junction jumps through holds a
\* stack-switching entry point of the non-uintr kind, with strace on or
\* off, and after any ForceStackSwitch.
UintrEverywhere ==
  cfg.uintr /\ Published =>
    \A T \in {tbl.sys, tbl.dst}, e \in {451, 452, 453, 454} : T[e] \notin {SE, SEP}

\* dst_tbl's function-call entries 453 and 454 switch stacks whenever
\* --stackswitch was given, even after SyscallRestoreNoStackSwitch; without
\* it they are the plain entries or, after SyscallForceStackSwitch, the
\* stack-switching pair.
StackSwitchKept ==
  Published =>
    /\ cfg.stackSwitch => tbl.dst[453] = tbl.sys[451] /\ tbl.dst[454] = tbl.sys[452]
    /\ <<tbl.dst[453], tbl.dst[454]>> \in {<<tbl.sys[451], tbl.sys[452]>>,
                                            <<tbl.sys[453], tbl.sys[454]>>}

====
