SPECIFICATION Spec
CONSTANTS
  first = first
  retry = retry
  other = other
  plainA = plainA
  plainB = plainB
  ref = ref
  large = large
  small = small
  foreign = foreign
  a = a
  b = b
  None = None
  NoRef = NoRef
  Requests = {first, retry, other, plainA, plainB}
  References = {ref}
  Ref <- MCRef
  Payloads = {large, small, foreign}
  Body <- MCBody
  Accounts = {a, b}
  From <- MCFrom
  Screened = {large}
INVARIANTS
  TypeOK
  NoncesAreDense
  ReviewIsOpen
PROPERTY ImplementsIdempotentSubmission
CHECK_DEADLOCK FALSE
