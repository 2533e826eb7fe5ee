CONSTANTS
  Threads = {t1, t2, t3}
  Names = {n1, n2, n3}
  Files = {f1, f2}
  Dirs = {d1}
  MaxLink <- MCMaxLink
  NoIno = NoIno
  NoOne = NoOne
SPECIFICATION Spec
INVARIANTS
  InitializedOnce
  InitCheckReturnsInitialized
  NamedInodesLinked
PROPERTIES
  InitCompletes
