SPECIFICATION FnctlSpec
CONSTANTS
  Apps = {a1, a2}
  Values = {v1, v2}
  Absent = Absent
  Part = Part
  MaxUnits = 2
  UnitArgs = {0, 1, 2}
  RawResults = {6}
  Nobody = Nobody
SYMMETRY Symmetry
CONSTRAINT OneAtATime
INVARIANTS
  FnctlTypeOK
  SettledPair
  ReadsSettled
  OwnCopy
PROPERTY SlotAnswers
