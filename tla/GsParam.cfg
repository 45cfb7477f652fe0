CONSTANTS
  refuser = refuser
  refuser2 = refuser2
  before = before
  writer = writer
  reader = reader
  legacy = legacy
  NoPwd = NoPwd
  None = None
  Adapters = {refuser, refuser2, before, writer, reader, legacy}
  TypeOf <- MCTypeOf
  Observer <- MCObserver
  Results <- MCResults
  Uses <- MCUses
  Values = {v1, v2}
  Passwords = {p1}
  CounterModulus = 8
SPECIFICATION Spec
INVARIANTS
  CallbacksKept
  OnlyRegisteredEnabled
  CalledOnce
  ObserversUpToDate
PROPERTIES
  NoRemovalDuringCalls
  ReadOnlyWhenLocked
  RefusedWriteHasNoEffect
  UnregisterAllAdvances
SYMMETRY Symmetry
CHECK_DEADLOCK FALSE
