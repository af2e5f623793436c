\* Programs that are spelled and read back, and texts that are no programs.
SPECIFICATION MCSpec
CONSTANTS
    Families = {"programs", "comments", "blocks", "statements", "shell", "chars"}
    Pieces = 3
    Chars = 3
INVARIANTS OneEnd CrashesKnown ReadsBack AcceptedWellNested AcceptedComplete
PROPERTY EndsOrSticks
CHECK_DEADLOCK FALSE
