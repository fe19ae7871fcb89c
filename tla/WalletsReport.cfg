CONSTANTS
  Wallets <- MCWallets
  RetailerOf <- MCRetailerOf
  CurrencyOf <- MCCurrencyOf
  RowIds <- MCRowIds
  WalletOf <- MCWalletOf
  Amount <- MCAmount
  Users <- MCUsers
  Owner <- MCOwner
  Matches <- MCMatches
  Refused <- MCRefused
  PerPage = 2
  Null = "null"
  None = None
SPECIFICATION Spec
CHECK_DEADLOCK FALSE
INVARIANT TypeOK
INVARIANT OnlyAskedWallets
INVARIANT OneInstant
INVARIANT DetailsComplete
INVARIANT PromisedPagesExist
PROPERTY ListingSpec
