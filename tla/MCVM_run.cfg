\* Arbitrary bytecode with calls, returns and branches; every instruction on
\* every pair of words.
SPECIFICATION Spec
CONSTANTS
    BYTE = 4
    HIGH = 2
    REG_COUNT = 5
    SAVE_REGS = 3
    FRAME_SLOTS = 2
    GLOBAL_SLOTS = 2
    POOL = 2
    BUILDS = {"optimised", "plain"}
    MaxDepth = 3
    MaxOut = 2
    Programs <- MCPrograms
INVARIANTS TypeOK FrameDiscipline DivisionLaw
PROPERTY ImplementsCallStack
CONSTRAINT Bounded
