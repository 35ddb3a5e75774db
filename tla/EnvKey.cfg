\* Every environment of up to two variables over the special bytes and a letter.
SPECIFICATION Spec
CONSTANTS
  Alphabet <- Bytes
  MaxLen = 2
  MaxVars = 2
INVARIANTS Unambiguous Canonical
