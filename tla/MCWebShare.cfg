CONSTANTS
  c1 = c1
  c2 = c2
  f1 = f1
  f2 = f2
  Clients = {c1, c2}
  MaxRequests = 3
  Asks <- MCAsks
  Files = {f1, f2}
  FileName <- MCFileName
  FileSize <- MCFileSize
  FileByte <- MCFileByte
  Selections <- MCSelections
  Announced <- MCAnnounced
  MaxUploadFiles = 1
  MaxPinAttempts = 1
  PinRequired = TRUE
  EventCapacity = 1
  MaxChanges = 1
  Limit32 = 150
  Limit16 = 100
  MaxZipFiles = 2
SPECIFICATION Spec
CHECK_DEADLOCK FALSE
INVARIANTS
  OnlyAcceptedIsServed
  SessionsAreTrue
  
PROPERTIES
  RequestIsAnswered
