---------------------------- MODULE MCMemfsSlots ----------------------------
EXTENDS MemfsSlots

\* Files of two pages of two bytes each, so that a length can fall inside
\* a page.  Two slots for three files make ENOSPC and slot reuse happen,
\* and a slot lost to a failed ksys_mmap leaves Create one other slot.
MCSlots == {0, 1}
\* Page-aligned lengths, and one past kMaxSizeBytes (EINVAL).
MCLens == {0, 2, 4, 6}
\* Every length, page-aligned or not.
MCAllLens == 0 .. 4
====
