SPECIFICATION Spec
CONSTANTS
  Calls = {c1, c2, c3, c4}
  Keys = {k1, k2}
  k1 = k1
  k2 = k2
  Users = {u1, u2}
  u1 = u1
  u2 = u2
  Nobody = Nobody
  NoKey = NoKey
  NoBill = NoBill
  NoWallet = NoWallet
  NoId = NoId
  LastYear = 0
  MaxSeq = 1
  PaisePerPoint = 1
  PaisePerEarnedPoint = 2
  Requests <- OneBillRequests
  LineLists <- MCLineLists
  TaxLists <- MCTaxLists
  Asked <- MCAsked
  InitialWallet <- MCInitialWallet
INVARIANTS AwardedOnce
SYMMETRY Symmetry
