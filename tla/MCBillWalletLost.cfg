SPECIFICATION Spec
CONSTANTS
  Calls = {c1, c2, c3}
  Keys = {k1, k2}
  k1 = k1
  k2 = k2
  Users = {u1, u2}
  u1 = u1
  u2 = u2
  Nobody = Nobody
  NoKey = NoKey
  NoBill = NoBill
  NoWallet = NoWallet
  NoId = NoId
  LastYear = 1
  MaxSeq = 2
  PaisePerPoint = 1
  PaisePerEarnedPoint = 2
  Requests <- MCRequests
  LineLists <- MCLineLists
  TaxLists <- MCTaxLists
  Asked <- MCAsked
  InitialWallet <- MCInitialWallet
PROPERTIES WalletsKept
