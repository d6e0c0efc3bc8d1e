SPECIFICATION Spec
CONSTANTS
  Events = {e1, e2, e3}
  TickMod = 16
  Interval = 2
  Delays = {1, 4}
  MaxLate = 2
  NoAdd = NoAdd
SYMMETRY Symmetry
INVARIANTS NodeOnOneList Sorted NotEarly
PROPERTIES TickTakesAllDue 
