SPECIFICATION Spec
CONSTANTS
  z = z
  a = a
  b = b
  Bytes <- ThreeBytes
  Magic <- SmallMagic
  MaxLen = 8
INVARIANTS
  NothingLost
  NoOverRead
PROPERTY
  FindsFirst
CHECK_DEADLOCK FALSE
