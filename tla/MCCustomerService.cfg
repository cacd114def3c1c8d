SPECIFICATION Spec
CONSTANTS
  c1 = c1 c2 = c2 c3 = c3 b1 = b1 b2 = b2 p1 = p1 p2 = p2
  first = first local = local
  NoRow = NoRow NoKey = NoKey NoUser = NoUser NoSecret = NoSecret NoArg = NoArg
  Calls = {c1, c2, c3}
  Keys <- MCKeys
  SignInKeys <- MCSignInKeys
  firstKey <- MCFirstKey
  Passwords = {w1}
  Codes = {o1, o2}
  Nonces = {n1, n2}
  Labels <- MCLabels
  firstLabel <- MCFirstLabel
  Bills = {b1, b2}
  Price <- MCPrice
  Opening = 2
  Epoch = 1
  MaxTime = 4
  MaxInFlight = 2
  Mixes <- MCMixes
  Cooldown = 1
  CodeLife = 2
  MaxAttempts = 1
  TicketLife = 1
  LoginTries = 2
  EarnPer = 2
  PerBlock = 3
  RedeemBlock = 1
SYMMETRY MCSymmetry
INVARIANTS TypeOK AnswersMatchPhone TicketsOnce TicketsKept CodesSignInOnce LedgerMatches WalletAccounts BillAddsUp
PROPERTIES GuestsOnlyOnFirstContact LabelsStayUnique
