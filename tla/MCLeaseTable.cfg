SPECIFICATION Spec
CONSTANTS
  a = a
  b = b
  c = c
  s1 = s1
  s2 = s2
  Ids <- MCIds
  Slots <- MCSlots
  MaxGen = 4
  NoIndex = NoIndex
  Free = Free
INVARIANTS
  NoCorruptStatus
  LookupFindsOwner
  TableInv
PROPERTY
  ImplementsLeases
CHECK_DEADLOCK FALSE
