SPECIFICATION Spec
CONSTANTS
  t1 = t1
  t2 = t2
  e1 = e1
  e2 = e2
  e3 = e3
  e4 = e4
  e5 = e5
  e6 = e6
  Tasks = {t1, t2}
  Entries = {e1, e2, e3, e4, e5, e6}
  Of <- OfTwo
  AtRoot = {e4}
  SameName = {e1, e6}
  Files = {e1, e2, e5}
  Unmovable = {}
INVARIANTS
  TypeOK
  Flattened
  NothingLost
