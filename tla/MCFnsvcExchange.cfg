SPECIFICATION ExchangeSpec
CONSTANTS
  U16 = 65536
  IoBufSize = 16
  RawErrors = {261}
  ErrStatuses = {3}
  MaxUnits = 2
  Slots = {0, 1, 2}
  fitting = fitting
  long = long
  none = none
  Uris = {fitting, long, none}
  UriLen <- MCUriLen
  Boot = Boot
  Empty = Empty
  Unknown = Unknown
  DiskErrs = {1, 2}
  BootReplyLens = {0, 11, 12, 16}
  BaseLens = {11}
  ArgLens = {0, 1, 65519, 65520}
  ResolvedCaps = {0, 2}
  DisplayCaps = {0, 1}
  StrLens = {0, 3, 65527, 65528}
  ReplyLens = {7, 11, 14}
INVARIANTS
  DiskTypeOK
  BeliefSound
  RestoreDiagnosed
  ResolveTypeOK
  ResolveRequestFits
  CopiesSound
CONSTRAINT OneKind
