SPECIFICATION ListFairSpec
CONSTANTS
  U16 = 65536
  IoBufSize = 54
  RawErrors = {261}
  ErrStatuses = {3}
  Names = {1, 2, 3}
  NameLen <- MCNameLen
  ListNameMax = 2
  ListMaxPayload = 44
  UriLens = {46, 48, 49}
  Cuts = {9, 30}
  Promises = {20, 65530}
  CompactReplies = {FALSE}
PROPERTIES
  ImplementsListing
  ListReturns
