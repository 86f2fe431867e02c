SPECIFICATION Spec
CONSTANTS
  Kinds <- AllKinds
  Related <- MCRelated
  Choices <- MCChoices
  Scalars <- MCScalars
  Truths <- MCTruths
  Number <- MCNumber
  Kept <- MCKept
  Wanted <- MCWanted
INVARIANTS
  NoopMeansSame
  ReplanIsNoop
  RevertRestores
CHECK_DEADLOCK FALSE
