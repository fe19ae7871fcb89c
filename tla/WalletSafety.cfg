CONSTANTS
  a1 = a1
  a2 = a2
  a3 = a3
  a4 = a4
  p1 = p1
  p2 = p2
  k1 = k1
  k2 = k2
  k3 = k3
  w1 = w1
  w2 = w2
  none = none
  Attempts = {a1, a2, a3, a4}
  Pods = {p1, p2}
  Keys = {k1, k2, k3}
  Wallets = {w1, w2}
  MaxAmount = 2
  MaxInFlight = 2
  Requests <- MCRequests
  None = none
SPECIFICATION Spec
SYMMETRY MCSymmetry
INVARIANT TypeOK
INVARIANT AtMostOnce
INVARIANT AnswersMatchLedger
INVARIANT OverdraftBound
PROPERTY LedgerSpec
