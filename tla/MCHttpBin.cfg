SPECIFICATION FairSpec
CONSTANTS
  MaxBody = 3
  ReadChunk = 2
  Retries = 2
  UrlMax = 20
  BaseLens = {10, 13}
  Bodies <- MCBodies
  Expected <- MCExpected
  RequestLen = 2
INVARIANTS
  HttpTypeOK
  HandlesClosed
  VerdictSound
  BodyExact
PROPERTY
  Finishes
