SPECIFICATION Spec
CONSTANTS
  Events = {e1, e2}
  TickMod = 8
  Interval = 1
  Delays = {0, 2}
  MaxLate = 1
  NoAdd = NoAdd
PROPERTIES ImplementsTimerEvents
