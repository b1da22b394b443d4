SPECIFICATION AsmSpec
CONSTANTS
  Bytes = {0, 1, 128, 255}
  MaxLen = 3
  WordMod = 4
  AddrMod = 16
  Bases = {3, 14}
  CallerD2 = 13
INVARIANTS
  AsmTypeOK
  ReadsBuffer
  D2Preserved
  EndAroundCarry
PROPERTY ImplementsChecksum
