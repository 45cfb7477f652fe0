CONSTANTS
  refuser = refuser
  refuser2 = refuser2
  before = before
  writer = writer
  reader = reader
  legacy = legacy
  NoPwd = NoPwd
  None = None
  Adapters = {refuser, refuser2, before, writer, reader, legacy}
  TypeOf <- MCTypeOf
  Observer <- MCObserver
  Results <- MCResults
  Uses <- MCSmallest
  Values = {v1}
  Passwords = {p1}
  CounterModulus = 8
SPECIFICATION Spec
INVARIANTS
  NoCallbackLost
CHECK_DEADLOCK FALSE
