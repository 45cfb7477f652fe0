CONSTANTS
  PageSize = 2
  Size = 10
  Value = {v1}
  Junk = Junk
SPECIFICATION Spec
INVARIANTS PagesSound
PROPERTIES ImplementsFlat
