------------------------------- MODULE ElfLoad -------------------------------
(***************************************************************************)
(* Loading of an ELF program image (kernel/elf.cc): header and PHDR       *)
(* validation, the mapping of the PHDR table, the interpreter (LoadInterp)*)
(* loaded before the image, the relocation reservation of LoadSegments    *)
(* and the layout LoadOneSegment                                          *)
(* gives each PT_LOAD segment: a fixed file mapping of the whole pages,   *)
(* an anonymous tail, the partial last file page copied in with a         *)
(* temporary write permission, and the final protection.                  *)
(*                                                                         *)
(* Memory is a function from byte addresses to what is there.  A byte     *)
(* that comes from the file is named by its file offset, an anonymous     *)
(* byte is Zero; so the image check compares where every byte came from.  *)
(* The interpreter's bytes are numbered from InterpOrigin on.             *)
(* LoadELF runs in one thread and holds no lock: it is one step.          *)
(***************************************************************************)
EXTENDS Integers, Sequences, FiniteSets, Bitwise

CONSTANTS
  PAGE,      \* kPageSize
  MemTop,    \* addresses are 0 .. MemTop - 1
  Foreign,   \* addresses mapped by someone else before the load
  MmapBase,  \* the host places a mapping without a hint at or above this
  Headers,   \* the ELF headers the program file may start with
  Tables,    \* the PHDR tables the program file may carry
  InterpFiles, \* what the PT_INTERP path may name: [found, hdr, phdrs]
  HostOutcomes \* whether a fixed host map or protect succeeds: TRUE, FALSE

ASSUME PAGE \in Nat \ {0} /\ MemTop % PAGE = 0

Addrs == 0 .. (MemTop - 1)

\* What an address holds: nothing, someone else's memory, or a byte of a
\* mapping with its protection and its data.  The data of a file byte is
\* its file offset; Zero (not an offset) is an anonymous zero byte.
Zero == -1
Free == [kind |-> "free", prot |-> {}, data |-> Zero]
Mine == [kind |-> "foreign", prot |-> {}, data |-> Zero]
Byte(prot, data) == [kind |-> "mapped", prot |-> prot, data |-> data]
Perms == {"read", "write", "exec"}

PageAlign(x) == ((x + PAGE - 1) \div PAGE) * PAGE
PageAlignDown(x) == (x \div PAGE) * PAGE

\* Mutant of SingleBit: the test (x & (x - 1)) == 0, which 0 also passes.
SingleBitOrZero(x) == x = 0 \/ \E k \in 0 .. x : 2^k = x

\* std::has_single_bit
SingleBit(x) == \E k \in 0 .. x : 2^k = x

\* The ELF types LoadELF is given (kETypeExec, kETypeDynamic, and another).
ETypes == {"exec", "dyn", "rel"}

\* sizeof(elf_header), sizeof(elf_phdr), and the size of a PHDR in the
\* addresses of this memory (one address per entry).
EhdrSize == 64
PhdrEntSize == 56
PhdrSize == 1

\* HeaderIsValid: the magic, 64-bit class, little endian, version 1,
\* x86_64, and the entry sizes junction reads with.
HeaderIsValid(h) ==
  /\ h.magic = <<127, "E", "L", "F">>
  /\ h.class = 2 /\ h.data = 1 /\ h.identVersion = 1 /\ h.version = 1
  /\ h.machine = 62
  /\ h.phsize = PhdrEntSize /\ h.ehsize = EhdrSize

\* File bytes of the interpreter are numbered from here on.
InterpOrigin == 100

(***************************************************************************)
(* ReadPHDRs: every PHDR must have a power-of-two alignment, filesz not    *)
(* above memsz, and vaddr congruent to offset modulo the alignment.       *)
(***************************************************************************)
\* x & (align - 1) in size_t; for an align of 0, align - 1 is all ones.
LowBits(x, a) == IF a = 0 THEN x ELSE x & (a - 1)

PhdrValid(ph) ==
  /\ SingleBit(ph.align)
  /\ ph.filesz <= ph.memsz
  /\ LowBits(ph.vaddr, ph.align) = LowBits(ph.offset, ph.align)

(***************************************************************************)
(* The PHDR buffer ReadPHDRs validates: std::vector<elf_phdr>(phnum) is    *)
(* zero-filled, and ReadFull fills it from the file.  A file that ends    *)
(* inside the table makes ReadFull fail after the first k entries; the    *)
(* model's files end on an entry boundary, so the rest stay all zero.     *)
(* ReadPHDRs drops that error (MakeError(ret) without return) and goes on *)
(* with the buffer.                                                        *)
(***************************************************************************)
ZeroPhdr == [type |-> "null", vaddr |-> 0, offset |-> 0, filesz |-> 0,
             memsz |-> 0, flags |-> {}, align |-> 0]

ReadBuf(t, k) == [i \in DOMAIN t |-> IF i <= k THEN t[i] ELSE ZeroPhdr]

IsLoad(ph) == ph.type = "load"

\* The PT_LOAD entries of a PHDR table.
LoadPhdrs(phdrs) == {phdrs[i] : i \in {j \in DOMAIN phdrs : IsLoad(phdrs[j])}}

\* Mutant of CountTotalLength: the file size is summed instead of memsz.
CountTotalLengthFile(phdrs) ==
  LET ends == {ph.vaddr + ph.filesz : ph \in LoadPhdrs(phdrs)}
  IN IF ends = {} THEN 0 ELSE CHOOSE e \in ends : \A x \in ends : x <= e

\* CountTotalLength: the largest end of a PT_LOAD segment.
CountTotalLength(phdrs) ==
  LET ends == {ph.vaddr + ph.memsz : ph \in LoadPhdrs(phdrs)}
  IN IF ends = {} THEN 0 ELSE CHOOSE e \in ends : \A x \in ends : x <= e

\* The mapping permissions of the PHDR flags.
ProtOf(flags) ==
  {CASE f = "X" -> "exec" [] f = "W" -> "write" [] f = "R" -> "read" : f \in flags}

(***************************************************************************)
(* The host calls, on the bytes of [s, e).                                 *)
(***************************************************************************)
Range(s, e) == {a \in Addrs : s <= a /\ a < e}

\* f.MMapFixed: bytes come from the file starting at offset foff.
MapFile(m, s, e, prot, foff) ==
  [a \in Addrs |-> IF a \in Range(s, e) THEN Byte(prot, foff + (a - s))
                                        ELSE m[a]]
\* KernelMMapFixed / KernelMMap: anonymous zero bytes.
MapAnon(m, s, e, prot) ==
  [a \in Addrs |-> IF a \in Range(s, e) THEN Byte(prot, Zero) ELSE m[a]]
\* KernelMProtect
Protect(m, s, e, prot) ==
  [a \in Addrs |-> IF a \in Range(s, e) THEN [m[a] EXCEPT !.prot = prot] ELSE m[a]]
\* ReadFull into [s, e) from file offset foff: a store into each byte.
Writable(m, s, e) == \A a \in Range(s, e) : m[a].kind = "mapped" /\ "write" \in m[a].prot
CopyIn(m, s, e, foff) ==
  [a \in Addrs |-> IF a \in Range(s, e) THEN [m[a] EXCEPT !.data = foff + (a - s)] ELSE m[a]]

(***************************************************************************)
(* LoadOneSegment(f, map_off, phdr): the set of its possible results,     *)
(* each the memory after it and "ok", "ehost" when a host call failed (it *)
(* returns MakeError at once, keeping what it mapped), or "fault" when a  *)
(* store of the copy hit a byte it may not write (a crash of the loader). *)
(***************************************************************************)
Ok(m) == [mem |-> m, err |-> "ok"]

\* A host call that is made when call holds: m after it, or the error.
HostCall(call, m, after) ==
  IF ~call THEN {Ok(m)}
  ELSE {IF ok THEN Ok(after) ELSE [mem |-> m, err |-> "ehost"] : ok \in HostOutcomes}

\* Go on with F from the results that are "ok"; the others are final.
Then(R, F(_)) == UNION {IF r.err = "ok" THEN F(r.mem) ELSE {r} : r \in R}

\* Mutant of TempProt: the temporary write permission is not added.
TempProtNoWrite(prot, file_extra, file_end) == prot

\* temp_prot: write access while the partial page is copied in.
TempProt(prot, file_extra, file_end) ==
  IF file_extra > file_end THEN prot \cup {"write"} ELSE prot

\* file_end: the end of the whole pages mapped from the file.
FileEnd(ph, off) == PageAlignDown(ph.vaddr + off + ph.filesz)

LoadOneSegment(org, m, off, ph) ==
  LET prot       == ProtOf(ph.flags)
      start      == PageAlignDown(ph.vaddr + off)
      file_end   == FileEnd(ph, off)
      file_extra == ph.vaddr + off + ph.filesz
      mem_end    == PageAlign(ph.vaddr + off + ph.memsz)
      temp_prot  == TempProt(prot, file_extra, file_end)
      foff       == org + PageAlignDown(ph.offset)
      Copy(m2) ==
        LET m3 == CopyIn(m2, file_end, file_extra, foff + file_end - start)
        IN IF ~Writable(m2, file_end, file_extra) THEN {[mem |-> m2, err |-> "fault"]}
           ELSE HostCall(temp_prot # prot, m3, Protect(m3, file_end, mem_end, prot))
      Anon(m1) ==
        Then(HostCall(TRUE, m1, MapAnon(m1, file_end, mem_end, temp_prot)),
             LAMBDA m2 : IF file_extra > file_end THEN Copy(m2) ELSE {Ok(m2)})
  IN Then(HostCall(file_end > start, m, MapFile(m, start, file_end, prot, foff)),
          LAMBDA m1 : IF mem_end > file_end THEN Anon(m1) ELSE {Ok(m1)})

\* The loop of LoadSegments over the PHDRs from index i on, skipping those
\* that are not PT_LOAD and stopping at the first failure.
RECURSIVE LoadFrom(_, _, _, _, _)
LoadFrom(org, m, off, phdrs, i) ==
  IF i > Len(phdrs) THEN {Ok(m)}
  ELSE IF ~IsLoad(phdrs[i]) THEN LoadFrom(org, m, off, phdrs, i + 1)
  ELSE Then(LoadOneSegment(org, m, off, phdrs[i]),
            LAMBDA m1 : LoadFrom(org, m1, off, phdrs, i + 1))

-----------------------------------------------------------------------------
VARIABLES
  hdr,       \* the ELF header of the program file
  phdrs,     \* its PHDR table
  readLen,   \* how many entries of the table ReadFull read before the file ended
  mem,       \* address -> Free, Mine (someone else's) or a Byte
  mapOff,    \* map_off: the relocation base (0 for kETypeExec)
  mapLen,    \* map_len
  phdrAddr,  \* phdr_addr: hdr->phoff + the address of the PHDR table mapping
  interp,    \* the interpreter file loaded, or NoInterp
  interpOff, \* its map_base
  status     \* "start", then the outcome of LoadELF

vars == <<hdr, phdrs, readLen, mem, mapOff, mapLen, phdrAddr, interp, interpOff, status>>

NoInterp == [found |-> FALSE]

InitMem == [a \in Addrs |-> IF a \in Foreign THEN Mine ELSE Free]

Init ==
  /\ hdr \in Headers
  /\ phdrs \in Tables
  /\ readLen \in 0 .. Len(phdrs)
  /\ mem = InitMem
  /\ mapOff = 0 /\ mapLen = 0 /\ phdrAddr = 0
  /\ interp = NoInterp /\ interpOff = 0
  /\ status = "start"

\* KernelMMap / KernelFile::MMap without a hint: the host picks free whole
\* pages of its mapping area; a zero length is refused.
FreeBases(m, len) ==
  {b \in MmapBase .. (MemTop - 1) :
     /\ len > 0 /\ b % PAGE = 0
     /\ b + PageAlign(len) <= MemTop
     /\ \A a \in Range(b, b + PageAlign(len)) : m[a] = Free}

TableValid(t) == \A i \in DOMAIN t : PhdrValid(t[i])

\* The outcome of a step of the loader: memory after it, error or "ok",
\* and the base and length of what it reserved.
Outcome(m, err, off, len) == [mem |-> m, err |-> err, off |-> off, len |-> len]

(***************************************************************************)
(* LoadSegments(f, phdrs, reloc): every possible outcome.  With reloc,    *)
(* reserve map_len bytes PROT_NONE wherever the host puts them and load   *)
(* every PT_LOAD relative to that base; without, at the link address.     *)
(***************************************************************************)
LoadSegments(org, m, t, reloc) ==
  LET len == CountTotalLength(t)
      Done(r, off) == Outcome(r.mem, r.err, off, len)
  IN IF ~reloc THEN {Done(r, 0) : r \in LoadFrom(org, m, 0, t, 1)}
     ELSE IF FreeBases(m, len) = {} THEN {Outcome(m, "enomem", 0, 0)}
     ELSE UNION {{Done(r, b) : r \in LoadFrom(org, MapAnon(m, b, b + PageAlign(len), {}), b, t, 1)}
                   : b \in FreeBases(m, len)}

\* Mutant of InterpReloc: the interpreter is loaded at its link address.
InterpRelocOff == FALSE

\* LoadInterp passes reloc = true.
InterpReloc == TRUE

(***************************************************************************)
(* LoadInterp(path): open (the file may be missing), ReadHeader, the type *)
(* must be kETypeDynamic, ReadPHDRs, LoadSegments.                        *)
(***************************************************************************)
LoadInterp(m, f) ==
  IF ~f.found THEN {Outcome(m, "enoent", 0, 0)}
  ELSE IF ~HeaderIsValid(f.hdr) \/ f.hdr.type # "dyn" \/ ~TableValid(f.phdrs)
    THEN {Outcome(m, "einval", 0, 0)}
  ELSE LoadSegments(InterpOrigin, m, f.phdrs, InterpReloc)

\* The first PT_INTERP entry, if any (the loop breaks after it).
HasInterp(t) == \E i \in DOMAIN t : t[i].type = "interp"

\* Mutant of PhdrMapSize: the table's offset in the file is left out.
PhdrMapSizeNoOff(h, t) == PhdrSize * Len(t)

\* map_sz = hdr->phoff + sizeof(elf_phdr) * phdrs->size()
PhdrMapSize(h, t) == h.phoff + PhdrSize * Len(t)

Fail(err) ==
  /\ status' = err
  /\ UNCHANGED <<mem, mapOff, mapLen, phdrAddr, interp, interpOff>>

(***************************************************************************)
(* LoadELF(path): ReadHeader, the type check, ReadPHDRs, the PHDR table   *)
(* mapped PROT_READ from file offset 0, the interpreter (if present)      *)
(* through ReadInterp and LoadInterp, then LoadSegments with reloc for a  *)
(* kETypeDynamic image.  The path always opens; ReadFull succeeds.        *)
(***************************************************************************)
LoadELF ==
  LET buf == ReadBuf(phdrs, readLen)
      sz == PhdrMapSize(hdr, buf)
  IN
  /\ status = "start"
  /\ IF ~HeaderIsValid(hdr) \/ hdr.type \notin {"exec", "dyn"} \/ ~TableValid(buf)
       THEN Fail("einval")
     ELSE IF FreeBases(mem, sz) = {} THEN Fail("enomem")
     ELSE \E pm \in FreeBases(mem, sz), f \in IF HasInterp(buf) THEN InterpFiles ELSE {NoInterp} :
            LET m1 == MapFile(mem, pm, pm + PageAlign(sz), {"read"}, 0)
                ir == IF HasInterp(buf) THEN LoadInterp(m1, f) ELSE {Outcome(m1, "ok", 0, 0)}
            IN \E i \in ir :
                 /\ phdrAddr' = hdr.phoff + pm
                 /\ interp' = f /\ interpOff' = i.off
                 /\ IF i.err # "ok"
                      THEN status' = i.err /\ mem' = i.mem /\ UNCHANGED <<mapOff, mapLen>>
                      ELSE \E r \in LoadSegments(0, i.mem, buf, hdr.type = "dyn") :
                             /\ status' = IF r.err = "ok" THEN "loaded" ELSE r.err
                             /\ mem' = r.mem /\ mapOff' = r.off /\ mapLen' = r.len
  /\ UNCHANGED <<hdr, phdrs, readLen>>

Next == LoadELF

Spec == Init /\ [][Next]_vars

-----------------------------------------------------------------------------
\* What the ELF format says segment ph of the file numbered from org must
\* look like when loaded at off: the first filesz bytes are the file's from
\* ph.offset on, the rest up to memsz are zero, and all have the
\* protection of its flags.
Image(org, ph, off, a) ==
  Byte(ProtOf(ph.flags),
       IF a - (ph.vaddr + off) < ph.filesz THEN org + ph.offset + (a - (ph.vaddr + off)) ELSE Zero)

Matches(org, t, off) ==
  \A i \in DOMAIN t :
    IsLoad(t[i]) =>
      \A a \in Range(t[i].vaddr + off, t[i].vaddr + off + t[i].memsz) :
        mem[a] = Image(org, t[i], off, a)

\* Every byte of every PT_LOAD segment of a loaded image, and of the
\* interpreter loaded with it, holds what the format says:
\* LoadOneSegment's page rounding of the file part, the anonymous tail and
\* the copied partial page, and the file offset it maps from, must together
\* produce exactly the segment, and the image loaded after the interpreter
\* must not map over it.
SegmentsMatchImage ==
  status = "loaded" =>
    /\ Matches(0, phdrs, mapOff)
    /\ interp.found => Matches(InterpOrigin, interp.phdrs, interpOff)

\* AT_PHDR is right: phdr_addr points at a readable copy of the program's
\* PHDR table (file offsets phoff on) when the image has loaded.
PhdrTableVisible ==
  status = "loaded" =>
    \A k \in 0 .. (PhdrSize * Len(phdrs) - 1) :
      mem[phdrAddr + k] = Byte({"read"}, hdr.phoff + k)

\* A program file that ends inside its PHDR table is never loaded, though
\* ReadPHDRs drops the error of the short ReadFull: the zero-filled
\* entries left in the buffer have p_align 0, which has_single_bit
\* rejects, so LoadELF fails with EINVAL before anything is mapped.
ShortTableRejected ==
  readLen < Len(phdrs) => status \in {"start", "einval"} /\ mem = InitMem

\* A relocatable image stays inside the reservation LoadSegments made for
\* it: apart from the PHDR table and the interpreter, every page the load
\* maps lies in the map_len bytes reserved, so no MAP_FIXED call replaces
\* memory that belongs to someone else.
LoadStaysInReservation ==
  hdr.type = "dyn" /\ status \in {"loaded", "fault", "ehost"} =>
    \A a \in Addrs \ (Range(mapOff, mapOff + PageAlign(mapLen))
                      \cup Range(phdrAddr - hdr.phoff, phdrAddr - hdr.phoff
                                   + PageAlign(PhdrMapSize(hdr, phdrs)))
                      \cup IF interp.found
                             THEN Range(interpOff, interpOff + PageAlign(CountTotalLength(interp.phdrs)))
                             ELSE {}) :
      mem[a] = InitMem[a]
=============================================================================
