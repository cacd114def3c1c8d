SPECIFICATION Spec
CONSTANTS
  Calls = {c1, c2, c3}
  first = first
  Tables = {t1, t2, t3}
  Prices = {2}
  Times = {0, 1}
  SessionLimit = 2
  MaxInFlight = 2
  NoRow = NoRow
  NoBill = NoBill
  NoSession = NoSession
SYMMETRY Symmetry
INVARIANTS NeverTwoBills
