CONSTANTS
  a1 = a1
  a2 = a2
  a3 = a3
  a4 = a4
  p1 = p1
  p2 = p2
  k1 = k1
  k2 = k2
  k3 = k3
  w1 = w1
  w2 = w2
  none = none
  Attempts = {a1, a2, a3}
  Pods = {p1, p2}
  Keys = {k1, k2, k3}
  Wallets = {w1}
  MaxAmount = 2
  MaxInFlight = 2
  Requests <- MCDisciplined
  None = none
SPECIFICATION Spec
INVARIANT FoundKeyIsAnswered
