SPECIFICATION Spec
CONSTANTS
    b1 = b1
    b2 = b2
    Char <- MCChar
    DF_FILENAME_SIZE = 24
    MESSAGE_LENGTH = 24
    MaxComponent = 19
    Volume <- MCVolume
    ProtectedWords <- MCProtectedWords
    BackupExtentionsIgnore <- MCIgnoredExtensions
    IgnoreSubdirInPath <- MCIgnoredSubdirs
    Block = {b1, b2}
    UserFile <- MCUserFile
    MaxFiles = 3
SYMMETRY Symmetry
CHECK_DEADLOCK FALSE
INVARIANTS
    ReadsOwnTheirBlocks
    MessageIsRead
    ListedFilesAreHeld
    
