SPECIFICATION FairCreditSpec
CONSTANTS
  Window = 6
  Step = 3
  MaxFrame = 4
  MaxTaken = 3
  MaxSent = 12
INVARIANTS
  CreditTypeOK Conserved LineHasRoom NeverStalls
PROPERTIES
  HeldFramesLeave
CHECK_DEADLOCK FALSE
