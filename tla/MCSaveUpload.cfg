SPECIFICATION SaveFairSpec
CONSTANTS
    Size = 5
    MaxLength = 6
    FileCap = 2
    UploadCap = 2
    NetCap = 2
    Unset = Unset
INVARIANTS
    SentIsSaved
    
PROPERTIES
    EverybodyIsTold
CHECK_DEADLOCK FALSE
