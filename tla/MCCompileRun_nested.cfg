\* A function declared inside a function.
SPECIFICATION CRSpec
CONSTANTS
    Vars = {"a", "b", "k", "m", "n", "x"}
    Funcs = {"f", "g"}
    Nodes <- NestedNodes
    REG_COUNT = 12
    BYTE = 16
    HIGH = 2
    SAVE_REGS = 4
    FRAME_SLOTS = 4
    GLOBAL_SLOTS = 2
    POOL = 1
    BUILDS = {"optimised", "plain"}
    Sources <- NestedSources
INVARIANT NeverUndefined
