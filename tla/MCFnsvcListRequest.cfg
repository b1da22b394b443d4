SPECIFICATION ListSpec
CONSTANTS
  U16 = 65536
  IoBufSize = 54
  RawErrors = {0, 261}
  ErrStatuses = {3}
  Names = {1, 2, 3, 4}
  NameLen <- MCNameLen
  ListNameMax = 2
  ListMaxPayload = 44
  UriLens = {46, 47, 48, 49}
  Cuts = {9, 11, 13, 30}
  Promises = {1, 3, 20, 45, 65530}
  CompactReplies = {TRUE, FALSE}
INVARIANT RequestFits
CONSTANT MaxChanges = 2
CONSTRAINT FewChanges
