---------------------------- MODULE MCMemInodeIO ----------------------------
EXTENDS MemInodeIO


\* size_t modelled with 16 bits: larger than every size and offset here,
\* so the comparisons come out as with 64 bits.
MCWrap == 2^16
\* Positions at or before the end of a two-byte file.
MCOffsets == 0 .. 2
MCLens == 1 .. 2
====
