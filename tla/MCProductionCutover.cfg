SPECIFICATION CutoverSpec
CONSTANTS
  Terminals = {t1, t2}
  Markers = {m1, m2}
  Passwords = {p1, p2}
  Stamps = {s1, s2}
  MaxWrites = 1
  Nil = Nil
SYMMETRY Symmetry
INVARIANTS
  ConfiguredCopyIsVerified
  
PROPERTY CleanupLeavesOnlyOriginals
CHECK_DEADLOCK FALSE
