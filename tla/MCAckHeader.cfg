SPECIFICATION Spec
CONSTANTS
  SeqMod = 8
  BitsPerByte = 2
  MaxAckBytes = 3
INVARIANTS RoundTrip FieldDelimited
CHECK_DEADLOCK FALSE
