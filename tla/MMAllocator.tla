----------------------------- MODULE MMAllocator -----------------------------
(***************************************************************************)
(* What the global address-space allocator promises (spec 4.5): Allocate *)
(* atomically returns the cursor and advances it by the page-aligned      *)
(* length; Register advances the cursor to at least base + length.  The  *)
(* history of handed-out ranges only grows: nothing is given back.        *)
(* MMRegions, with its spin lock and its separate read and bump, refines  *)
(* this specification.  Lengths and bases are in pages.                   *)
(***************************************************************************)
EXTENDS Integers, Sequences

CONSTANTS
  Lens,       \* lengths Allocate is called with
  Snapshot,   \* [base, len] regions Register is called with
  InitBase    \* the cursor's initial value

VARIABLES
  cursor,     \* the process-wide cursor
  reserved    \* every range handed out, <<lo, len>>, in order

Init ==
  /\ cursor = InitBase
  /\ reserved = <<>>

\* Allocate(length) -> base, one atomic fetch-and-add.
Allocate(l) ==
  /\ reserved' = Append(reserved, <<cursor, l>>)
  /\ cursor' = cursor + l

\* Register(base, length): the cursor moves past the range, never back.
Register(r) ==
  /\ reserved' = Append(reserved, <<r.base, r.len>>)
  /\ cursor' = IF cursor >= r.base + r.len THEN cursor ELSE r.base + r.len

Next ==
  \/ \E l \in Lens : Allocate(l)
  \/ \E r \in Snapshot : Register(r)

Spec == Init /\ [][Next]_<<cursor, reserved>>
====
