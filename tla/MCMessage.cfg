SPECIFICATION MsgSpec

CONSTANTS
  m = m
  m1 = m1
  m2 = m2
  b = b
  h = h
  Objs <- Objects
  Bytes <- Values
  Buffers <- Strings
  MaxLen = 2
  Null = Null
  Unknown = Unknown

SYMMETRY Symmetry

INVARIANT MsgTypeOK
INVARIANT LengthExact
PROPERTY ImplementsStrings
