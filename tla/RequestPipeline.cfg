CONSTANTS
  Numbers = {0, 1, 2, None}
  Currencies = {PKR, SAR}
  OtherText = OtherText
  Inherited = Inherited
  EmptyList = EmptyList
  None = None
SPECIFICATION FairSpec
INVARIANT TypeOK
INVARIANT NothingUnchecked
INVARIANT ClientErrorRecordsNothing
INVARIANT SuccessIsOnRecord
INVARIANT ServerErrorsAreReported
INVARIANT LogTellsTheAnswer
PROPERTY EveryRequestIsAnswered
