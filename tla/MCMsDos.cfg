SPECIFICATION MsDosSpec
CONSTANTS
  FirstDrive = 3
  LastDrive = 5
  MaxUnits = 2
  None = None
  Foreign = Foreign
  States = {s1, s2}
  NoState = NoState
  Unknown = Unknown
  DosErrors = {15}
  BytesArgs = {0, 1, 512, 1013, 1024, 1025, 65530}
  FnErrors = {1, 6, 7, 8, 9}
  Statuses = {0, 4, 7}
  ReplyLens = {0, 10, 11, 12, 13, 16, 523, 1024}
  DataLens = {0, 1, 2, 512, 1013, 1014, 65525, 65530}
INVARIANTS
  DosTypeOK
  DosKnowledge
  DosErrorTold
  PrintsReceived
