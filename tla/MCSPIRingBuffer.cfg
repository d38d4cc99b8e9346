\* Two pages of two bytes, so that both address bytes matter, and two byte
\* values.
CONSTANTS
  PageSize = 2
  Pages = 2
  Byte = {0, 1}
SPECIFICATION Spec
INVARIANT TypeOK
INVARIANT ByteModeWhenAccessed
PROPERTY ImplementsRing
