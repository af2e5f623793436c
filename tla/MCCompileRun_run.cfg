\* Programs within the limits of the compiler and programs on both sides of them,
\* on either build of the machine.
SPECIFICATION CRFairSpec
CONSTANTS
    Vars = {"a", "b", "k", "m", "n", "x", "m.n", "n.m"}
    Funcs = {"f", "g"}
    Nodes <- MCNodes
    REG_COUNT = 12
    BYTE = 16
    HIGH = 8
    SAVE_REGS = 4
    FRAME_SLOTS = 4
    GLOBAL_SLOTS = 4
    POOL = 1
    BUILDS = {"optimised", "plain"}
    Sources <- MCSources
INVARIANTS FaithfulUnlessKnown UndefinedOnlyKnown
PROPERTY HaltsUnlessKnown
