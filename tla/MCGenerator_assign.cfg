\* Assignments anywhere.
SPECIFICATION MCSpec
CONSTANTS
    Vars = {"m", "x", "y"}
    Funcs = {"f"}
    Nodes <- MCNodes
    Families = {"scope"}
    REG_COUNT = 20
CONSTRAINT Bounded
PROPERTY AssignsFoundVariable
