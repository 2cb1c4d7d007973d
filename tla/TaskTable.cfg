SPECIFICATION Spec
CONSTANTS
  MaxTasks = 3
  Limits = {1, 2, 3}
  Refused = {2}
  MaxReloads = 1
  MaxEvents = 2
CONSTRAINT Few
INVARIANTS OneObjectEach EndReported
PROPERTIES LimitKept SlotsFilled
