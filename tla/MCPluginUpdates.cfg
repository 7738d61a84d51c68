SPECIFICATION Spec
CONSTANTS
  None = None
  Slots <- MCSlots
  Shape = "shape"
  Values = {0, 1}
  MaxEdits = 3
  MaxFaults = 1
INVARIANTS ApplyPursued EngineFollows
PROPERTIES Settles
