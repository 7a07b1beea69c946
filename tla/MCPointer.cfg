\* Two positions are enough for events that move the pointer and events that
\* do not.
CONSTANTS
  Devices = {d1, d2}
  Views = {v, w}
  Places = {here, there}
  MaxPointers = 3
  None = None
SYMMETRY Symmetry
SPECIFICATION Spec
INVARIANTS ChecksHold HitTestIsNew TargetIsFound
PROPERTY ImplementsProtocol
