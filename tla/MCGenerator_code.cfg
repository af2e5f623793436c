\* Every node; operators, calls and returns; conditions and loops; variables
\* of functions and blocks.
SPECIFICATION MCSpec
CONSTANTS
    Vars = {"m", "x", "y"}
    Funcs = {"f"}
    Nodes <- MCNodes
    Families = {"all", "calls", "control", "scope", "foreign"}
    REG_COUNT = 20
CONSTRAINT Bounded
INVARIANTS TypeOK LiveRegisters CallsEnterFunctions JumpsResolved
PROPERTIES HeldNotOverwritten PeepholeSafe SlotsStayApart
