SPECIFICATION FairSpec
CONSTANTS
  Pages = {"p1"}
  OperatorReactivates = FALSE
  ChanCap = 2
  MaxConsecutiveIoErrors = 1
  RecoveryHealthySamples = 2
  Modes = {"origin", "sparse"}
PROPERTY NbdContract
CHECK_DEADLOCK FALSE
