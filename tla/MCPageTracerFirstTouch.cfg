CONSTANTS
  Threads = {t1, t2}
  Pages = {p1, p2}
  MaxTime <- MCMaxTime
  NoTime = NoTime
SPECIFICATION Spec
INVARIANTS
  FirstTouch
