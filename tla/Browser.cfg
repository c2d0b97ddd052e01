SPECIFICATION FairSpec
CONSTANTS
  Boxes = {0, 5, 30}
  InputSizes = {1, 9000, 30000}
  MaxInput = 8192
  ReadLimit = 32768
  OutQueue = 1
  MaxActs = 2
  MaxChunks = 3
  PageWrite = TRUE
CHECK_DEADLOCK FALSE
INVARIANTS
  TypeOK
  OneClosingLine
  OutputContinues
  InputInOrder
  GridsAgree
PROPERTIES
  DisposedIsLeftAlone
  SessionEndIsShown
  LeavingFreesClient
