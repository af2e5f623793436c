\* Sessions of correct lines, and any three lines with and without errors.
SPECIFICATION RSpec
CONSTANTS
    Vars = {"a", "b", "k", "m", "n", "x"}
    Funcs = {"f", "g"}
    Nodes <- MCNodes
    REG_COUNT = 12
    BYTE = 16
    HIGH = 8
    SAVE_REGS = 4
    FRAME_SLOTS = 4
    GLOBAL_SLOTS = 2
    POOL = 1
    BUILDS = {"optimised", "plain"}
    Sessions <- MCSessions
INVARIANTS ShownIsMeant RegistersReturned
PROPERTIES ExecutedWithoutErrors PastCodeKept NamesFound
