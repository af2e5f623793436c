\* Programs with strings, saved and loaded.
SPECIFICATION SvSpec
CONSTANTS
    Vars = {"a", "b", "k", "n", "x"}
    Funcs = {"f", "g"}
    Nodes <- StringNodes
    REG_COUNT = 12
    BYTE = 16
    HIGH = 2
    SAVE_REGS = 4
    FRAME_SLOTS = 4
    GLOBAL_SLOTS = 2
    POOL = 1
    BUILDS = {"optimised"}
    MEMORY = 40
    Sources <- StringSources
INVARIANT ConstantsFound
