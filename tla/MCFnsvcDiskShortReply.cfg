SPECIFICATION DiskSpec
CONSTANTS
  U16 = 65536
  IoBufSize = 16
  RawErrors = {0, 261}
  ErrStatuses = {3}
  MaxUnits = 2
  Slots = {0, 1}
  Uris = {uri}
  UriLen <- MCUriLen
  Boot = Boot
  Empty = Empty
  Unknown = Unknown
  DiskErrs = {1, 2}
  BootReplyLens = {0, 11, 12, 16}
INVARIANT DiskLastErrorDocumented
