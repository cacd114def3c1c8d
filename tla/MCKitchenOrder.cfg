SPECIFICATION Spec
CONSTANTS
  Calls = {c1, c2, c3}
  Lines = {l1, l2}
  l1 = l1
  l2 = l2
  Tickets <- MCTickets
  Edits <- MCEdits
  Prices = {2}
  NoTicket = NoTicket
  NoStatus = NoStatus
  NoTotal = NoTotal
INVARIANTS TypeOK BoardShowsPending NeverUndercharged
PROPERTIES CancelledStays DoneFreezesTicket
SYMMETRY Symmetry
