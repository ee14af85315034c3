SPECIFICATION Spec
CONSTANTS
  Pools <- NoPools
  FirstId = 65000
  Lengths = {1024, 1025, 65536, 262143, 262144, 262145, 1048576}
INVARIANT FragmentsReadBack
CHECK_DEADLOCK FALSE
