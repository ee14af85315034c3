SPECIFICATION Spec
CONSTANTS
  SeqMod = 16
  Size = 4
  Default = FALSE
  MaxLate = 11
  MaxAhead = 3
  MaxNumber = 36
INVARIANTS AcceptedOnce FreshAccepted WindowInv
CHECK_DEADLOCK FALSE
