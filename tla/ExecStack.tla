------------------------------ MODULE ExecStack ------------------------------
(***************************************************************************)
(* Exec (kernel/exec.cc) on the fresh MemoryMap usys_execve creates: load *)
(* the ELF, map the guard and the stack through MemoryMap::MMap, then lay *)
(* out the initial stack with SetupStack: the strings of argv and envp at *)
(* the top, 16 random bytes below them, and from the new stack pointer    *)
(* up: argc, the argv pointers, a null, the envp pointers, a null and the *)
(* auxiliary vector.                                                       *)
(*                                                                         *)
(* The new memory map is not yet visible to any other thread, so Exec is  *)
(* one step.  An argument string is only its length: SetupStack copies    *)
(* its bytes and a terminating zero and never looks inside.               *)
(***************************************************************************)
EXTENDS Integers, Sequences, SequencesExt

CONSTANTS
  PAGE, MmStart, MmEnd, NoFile,
  GUARD,     \* RUNTIME_GUARD_SIZE
  STACK,     \* RUNTIME_STACK_SIZE
  Argvs,     \* argument vectors (sequences of string lengths)
  Envps,     \* environment vectors (sequences of string lengths)
  Loaded     \* registries LoadELF may leave in the new map

ASSUME GUARD % PAGE = 0 /\ STACK % PAGE = 0

VARIABLES
  vmareas,   \* the new MemoryMap's vmareas_
  argv,      \* argv_view
  envp,      \* envp_view
  pc,        \* "start", "done" or "failed"
  stack,     \* the stack range and the layout SetupStack produced
  elfAreas   \* history: the areas LoadELF left in the map

vars == <<vmareas, argv, envp, pc, stack, elfAreas>>

INSTANCE VMAreas

WORD == 8            \* sizeof(uint64_t)
kNumAuxVectors == 18
AUXV == 16           \* sizeof(Elf64_auxv_t)
RANDOM == 16         \* bytes of AT_RANDOM

\* VectorBytes: the bytes of the strings with their terminating zeros.
VectorBytes(vec) == FoldLeft(LAMBDA acc, l : acc + l + 1, 0, vec)

AlignUp(x, a) == ((x + a - 1) \div a) * a

(***************************************************************************)
(* SetupStack(sp, argv, envp, edata): the byte ranges it writes, as       *)
(* [lo, hi) pairs, and the stack pointer it leaves.                        *)
(***************************************************************************)
\* Mutant of SetupLength: the 16 random bytes are not reserved.
SetupLengthNoRandom(a, e) ==
  AlignUp(VectorBytes(a) + AUXV * kNumAuxVectors + (Len(a) + Len(e) + 3) * WORD
            + VectorBytes(e), 32)

\* len: strings, random bytes, auxv and the pointer words, 32-aligned.
SetupLength(a, e) ==
  AlignUp(VectorBytes(a) + VectorBytes(e) + RANDOM + AUXV * kNumAuxVectors
            + (Len(a) + Len(e) + 3) * WORD, 32)

\* filename = info_block_ptr, before the copies move it: the first string.
ExecFn(info, a, e) == info

\* SetupAuxVec: the entries that point into the stack (AT_RANDOM,
\* AT_EXECFN); the others carry values from the ELF data and the host.
SetupAuxVec(info, a, e) ==
  [at_random |-> info - RANDOM, at_execfn |-> ExecFn(info, a, e)]

\* Mutant of Advance: info_block_ptr skips the string but not its zero.
AdvanceNoNul(l) == l

\* info_block_ptr += arg.size() + 1: past the string and its zero.
Advance(l) == l + 1

\* Where the copy loops leave info_block_ptr after copying vec from p, and
\* the address each loop stores in the pointer word of each string.
CopyEnd(p, vec) == p + FoldLeft(LAMBDA acc, l : acc + Advance(l), 0, vec)
StringPtrs(p, vec) == [k \in 1 .. Len(vec) |-> CopyEnd(p, SubSeq(vec, 1, k - 1))]

SetupStack(top, a, e) ==
  LET info == top - (VectorBytes(a) + VectorBytes(e))
      sp   == top - SetupLength(a, e)
      ptrs == (Len(a) + Len(e) + 3) * WORD
  IN [aux    |-> SetupAuxVec(info, a, e),
      sp     |-> sp,
      words  |-> <<sp, sp + ptrs>>,
      auxv   |-> <<sp + ptrs, sp + ptrs + AUXV * kNumAuxVectors>>,
      random |-> <<info - RANDOM, info>>,
      info   |-> <<info, top>>,
      argvp  |-> StringPtrs(info, a),
      envpp  |-> StringPtrs(CopyEnd(info, a), e)]

(***************************************************************************)
(* mm.MMap with a null hint (first fit) or MAP_FIXED, of an anonymous     *)
(* area: the host call, then Insert; a full map or a failed host call     *)
(* leaves the registry as it was.                                          *)
(***************************************************************************)
MMapAnonAt(R, start, len, prot, type) == Insert(R, AnonVMA(start, PageAlign(len), prot, type))

\* Mutant of StackBase: the stack starts at the guard's own address.
StackBaseNoGuard(g) == g

\* rsp: the stack mapping starts RUNTIME_GUARD_SIZE above the guard mapping.
StackBase(g) == g + GUARD

\* Mutant of GetStackTop: the end of the area, its highest address.
GetStackTopEnd(R, rsp) == {v.end : v \in {w \in Find(R, rsp) : w.type = "stack"}}

\* MemoryMap::GetStackTop(rsp): the start of the kStack area that holds
\* rsp, or nothing (the empty set) when rsp is in no area or another type.
GetStackTop(R, rsp) == {v.start : v \in {w \in Find(R, rsp) : w.type = "stack"}}

\* sigframe.h IsOnStack(cur_rsp, ss): ss_sp < cur_rsp <= ss_sp + ss_size.
IsOnStack(cur, sp, size) == cur > sp /\ cur <= sp + size

NoStack == [aux |-> [at_random |-> 0, at_execfn |-> 0], lo |-> 0, hi |-> 0, sp |-> 0, words |-> <<0, 0>>, auxv |-> <<0, 0>>,
            random |-> <<0, 0>>, info |-> <<0, 0>>, argvp |-> <<>>, envpp |-> <<>>]

Init ==
  /\ vmareas \in Loaded
  /\ elfAreas = vmareas
  /\ argv \in Argvs
  /\ envp \in Envps
  /\ pc = "start"
  /\ stack = NoStack

(***************************************************************************)
(* usys_execve: CreateMemoryMap (AllocateMMRegion, then a host mapping of *)
(* the reservation, which may fail), then                                  *)
(* Exec(p, mm, pathname, argv, envp): LoadELF (which may fail), the guard  *)
(* MMap(nullptr, GUARD + STACK, PROT_NONE, kStack), the stack             *)
(* MMap(guard + GUARD, STACK, PROT_READ | PROT_WRITE, MAP_FIXED, kStack), *)
(* then SetupStack from guard + GUARD + STACK.  Each early return leaves  *)
(* what was done before it.                                                *)
(***************************************************************************)
Exec ==
  LET glen == PageAlign(GUARD + STACK) IN
  /\ pc = "start"
  /\ \E mmOk, elfOk, guardOk, stackOk \in BOOLEAN :
       LET guardOK == guardOk /\ FreeStarts(vmareas, glen) # {}
           g       == FirstFit(vmareas, glen)
           R1      == MMapAnonAt(vmareas, g, GUARD + STACK, "none", "stack")
           rsp     == StackBase(g)
           R2      == MMapAnonAt(R1, rsp, STACK, "rw", "stack")
       IN CASE ~mmOk \/ ~elfOk ->
                 pc' = "failed" /\ UNCHANGED <<vmareas, stack>>
            [] ~guardOK ->
                 pc' = "failed" /\ UNCHANGED <<vmareas, stack>>
            [] ~stackOk ->
                 pc' = "failed" /\ vmareas' = R1 /\ UNCHANGED stack
            [] OTHER ->
                 /\ pc' = "done"
                 /\ vmareas' = R2
                 /\ stack' = [lo |-> rsp, hi |-> rsp + STACK]
                                @@ SetupStack(rsp + STACK, argv, envp)
  /\ UNCHANGED <<argv, envp, elfAreas>>

Next == Exec

Spec == Init /\ [][Next]_vars

-----------------------------------------------------------------------------
Disjoint(r1, r2) == r1[2] <= r2[1] \/ r2[2] <= r1[1]
Within(r, lo, hi) == lo <= r[1] /\ r[2] <= hi

\* The initial stack SetupStack builds is sound: the stack pointer is
\* 16-byte aligned as the System V ABI requires at process entry, and the
\* pointer words, the auxv, the random bytes and the strings are pairwise
\* disjoint and all lie between the new stack pointer and the top.
InitialStackWellFormed ==
  pc = "done" =>
    LET blocks == {stack.words, stack.auxv, stack.random, stack.info}
    IN /\ stack.sp % 16 = 0
       /\ \A b \in blocks : Within(b, stack.sp, stack.hi)
       /\ \A b1, b2 \in blocks : b1 # b2 => Disjoint(b1, b2)

\* Exec leaves the new map with a PROT_NONE kStack guard of GUARD bytes
\* directly below a read/write kStack mapping of STACK bytes that ends at
\* the initial stack top, and every area LoadELF mapped is still there.
\* The second MMap is MAP_FIXED over part of the first: its address
\* arithmetic decides whether a guard is left at all.
StackGuarded ==
  pc = "done" =>
    /\ AnonVMA(stack.lo - GUARD, GUARD, "none", "stack") \in vmareas
    /\ AnonVMA(stack.lo, STACK, "rw", "stack") \in vmareas
    /\ stack.hi = stack.lo + STACK
    /\ elfAreas \subseteq vmareas

\* The copy loops lay the strings out as the length computation sized
\* them: every argv and envp pointer word points at its string, each
\* string and its terminating zero lie inside the info block, no two
\* strings share a byte, and AT_EXECFN is the argv[0] pointer and
\* AT_RANDOM the 16 random bytes.  VectorBytes sizes the block and the
\* copy loops advance through it by separate arithmetic.
ArgStringsLaidOut ==
  pc = "done" =>
    LET lens == argv \o envp
        ptrs == stack.argvp \o stack.envpp
        Str(k) == <<ptrs[k], ptrs[k] + lens[k] + 1>>
    IN /\ \A k \in DOMAIN lens : Within(Str(k), stack.info[1], stack.info[2])
       /\ \A j, k \in DOMAIN lens : j < k => Disjoint(Str(j), Str(k))
       /\ stack.aux.at_execfn = stack.argvp[1]
       /\ stack.aux.at_random = stack.random[1]

\* Every stack pointer the new thread can have while its stack has room,
\* from just above the stack's base to its top, is traced back by
\* GetStackTop to the base of the read/write kStack mapping (not to the
\* guard, whose different protection keeps the two areas apart), and
\* IsOnStack accepts it for the stack so found; a pointer inside the guard
\* is traced to the guard and is not on the stack.
StackLookup ==
  pc = "done" =>
    /\ \A rsp \in {a \in (stack.lo + 1) .. (stack.hi - 1) : a % WORD = 0} :
         GetStackTop(vmareas, rsp) = {stack.lo} /\ IsOnStack(rsp, stack.lo, STACK)
    /\ \A rsp \in {a \in (stack.lo - GUARD) .. stack.lo : a % WORD = 0} :
         GetStackTop(vmareas, rsp) = {IF rsp < stack.lo THEN stack.lo - GUARD ELSE stack.lo}
           /\ ~IsOnStack(rsp, stack.lo, STACK)

\* Everything SetupStack writes lies in the read/write stack mapping, above
\* the PROT_NONE guard: a store below stack.lo faults inside junction.
StackWithinMapping == pc = "done" => stack.sp >= stack.lo
=============================================================================
