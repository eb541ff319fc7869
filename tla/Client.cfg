SPECIFICATION ClientSpec
CONSTANTS
  Entries = 3
  Faults = {"badUrl", "fileFails", "network", "refused"}
  IntBits = 15
  SmallBits = 6
  Strings <- SomeStrings
  Documents <- SomeDocuments
  ListLength = 2
  Extensions <- SomeExtensions
  ForeignBytes <- SomeBytes
INVARIANTS
  TypeOK
  SuccessMeansComplete
  NeitherWaitsAlone
  RequestArrives
  AnswerArrives
  NeverPanics
  SendsOnUnchanged
PROPERTY UploadEnds
CHECK_DEADLOCK FALSE
