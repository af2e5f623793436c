\* A jump behind an inner loop.
SPECIFICATION MCSpec
CONSTANTS
    Families = {"jumps"}
    Pieces = 3
    Chars = 3
INVARIANT JumpsRefusedOutside
CHECK_DEADLOCK FALSE
