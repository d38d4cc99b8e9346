\* Four slots and two byte values: every position of head and tail, wrapped or
\* not, and every stored content.
CONSTANTS
  Size = 4
  Byte = {0, 1}
SPECIFICATION Spec
INVARIANT TypeOK
INVARIANT IndicesAgree
PROPERTY ImplementsDelivered
