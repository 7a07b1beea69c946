CONSTANTS
  Devices = {d1}
  Views = {v, w}
  Places = {here, there}
  MaxPointers = 2
  None = None
SPECIFICATION Spec
INVARIANT MoveHasContact
