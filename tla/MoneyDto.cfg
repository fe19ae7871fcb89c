CONSTANTS
  Inputs <- MCInputs
  MaxRows = 4
SPECIFICATION Spec
INVARIANT TypeOK
INVARIANT RoundingNeverOverdraws
INVARIANT ShownBalanceCanBeCharged
