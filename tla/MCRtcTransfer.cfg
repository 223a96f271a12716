CONSTANTS
  f1 = f1
  f2 = f2
  Files = {f1, f2}
  Size <- MCSize
  MaxTries = 2
  MaxGiven = 3
  MaxAhead = 2
SPECIFICATION Spec
CHECK_DEADLOCK FALSE
INVARIANTS
  
  FilesAreKeptApart
 
