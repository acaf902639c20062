SPECIFICATION MCSpec
CONSTANTS
  Fetches = {f1, f2}
  Existing = {f2}
  Transfers = {1, 2, 3, 4}
  Size = 2
  MaxFaults = 1
  None = none
  fileA = fileA
  fileB = fileB
  Names = {n1, n2}
  Item = item
  Other = other
  Files = {fileA, fileB}
  Published <- MCPublished
  Contents <- MCContents
  Limit = 2
  MaxChanges = 1
  Null = null
INVARIANTS TypeOK MprisTypeOK RunningIsOurs FileIsAnswer BytesAreOneFile OfferIsFound
PROPERTIES SuccessIsImage EveryRequestAnswered
