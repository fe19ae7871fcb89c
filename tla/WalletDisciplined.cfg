CONSTANTS
  k1 = k1
  k2 = k2
  k3 = k3
  w1 = w1
  Attempts = {a1, a2, a3}
  Pods = {p1}
  Keys = {k1, k2, k3}
  Wallets = {w1}
  MaxAmount = 2
  MaxInFlight = 3
  Bodies <- MCBodies
  CurrencyOf <- MCCurrencyOf
  Requests <- MCRecorded
  None = none
SPECIFICATION AmountsFairSpec
INVARIANT OkRecordsTheRequest
INVARIANT DriftOfEachWallet
PROPERTY WalletServiceSpec
PROPERTY RechargeRetryIsAnswered
PROPERTY EveryCallEnds
