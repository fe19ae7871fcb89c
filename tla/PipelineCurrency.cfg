CONSTANTS
  Numbers = {0, 1, 2, None}
  Currencies = {PKR, SAR}
  OtherText = OtherText
  Inherited = Inherited
  EmptyList = EmptyList
  None = None
SPECIFICATION Spec
INVARIANT UnknownCurrencyIsInvalid
