SPECIFICATION Spec
CONSTANTS
  Calls = {c1, c2, c3, c4}
  Attempts = {a1, a2}
  a1 = a1
  a2 = a2
  Users = {u1, u2}
  u1 = u1
  u2 = u2
  UserOf <- MCUserOf
  LastYear = 1
  MaxSeq = 2
  NoAttempt = NoAttempt
  NoRow = NoRow
  Nothing = Nothing
INVARIANTS TypeOK  UsedRefMeansMixed OneOrderPerAttempt AnswersAreTrue
PROPERTIES StoredStays
SYMMETRY Symmetry
