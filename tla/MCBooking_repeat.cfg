CONSTANTS
  r1 = r1
  r2 = r2
  r3 = r3
  r4 = r4
  c1 = c1
  c2 = c2
  Requests = {r1, r2, r3, r4}
  Clients = {c1}
  Inputs <- RepeatInputs
  SmsTo = {}
  EmailTo = {}
  None = None
SPECIFICATION Spec
CHECK_DEADLOCK FALSE
SYMMETRY Symmetry
PROPERTY
  ExactRepeatIsIdempotent
