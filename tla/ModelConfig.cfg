\* ModelConfig: files of three lines with a key.
SPECIFICATION ConfigSpec
CONSTANTS
    Lines <- LinesDef
    DefaultHandling <- DefaultHandlingDef
    CommittedBase <- CommittedBaseDef
    FallbackBase = 400
    PartId <- PartIdDef
    Bad = Bad
    Unread = Unread
    MaxLines = 3
INVARIANTS HandlingFollowsFile  ScriptsReadFile
CHECK_DEADLOCK FALSE
