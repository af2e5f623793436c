----------------------------- MODULE CompileRun -----------------------------
(***************************************************************************)
(* FileRun on given source programs.  The source is a sequence of syntax   *)
(* trees; src are the nodes, in the order in which the generator visits    *)
(* them, that it has not visited yet.                                      *)
(***************************************************************************)
EXTENDS FileRun

CONSTANT Sources   \* the source programs, sequences of trees

VARIABLES source, src

vars == <<hvars, source, src>>

Language == INSTANCE Source WITH Words <- BYTE * HIGH

\* every node of a source is one of the nodes that FileRun knows
NodesOf(sources) ==
    Language!NodesIn({Language!EndNode} \cup UNION {Language!ToSet(s) : s \in sources})
ASSUME SourcesAssumption == NodesOf(Sources) \subseteq Nodes

CRInit ==
    /\ HostInit
    /\ source \in Sources
    /\ src = Language!Program(source)

\* the generator visits the next node of the source
CompileNode == /\ src # <<>>
               /\ GenNode(Head(src).node)
               /\ src' = Language!AfterVisit(src, mode' = "ret")
               /\ UNCHANGED source

CompileResume == GenResume /\ UNCHANGED <<source, src>>

Start == Launch /\ UNCHANGED <<source, src>>

Step == Execute /\ UNCHANGED <<source, src>>

CRNext == CompileNode \/ CompileResume \/ Start \/ Step \/ (Ended /\ UNCHANGED vars)

CRSpec == CRInit /\ [][CRNext]_vars

\* one thread runs the compiler and then the machine
Scheduled == WF_vars(CompileNode \/ CompileResume \/ Start \/ Step)
CRFairSpec == CRSpec /\ Scheduled

-----------------------------------------------------------------------------
\* What a program prints before it halts is what its text means, number by
\* number: no register, slot, jump or call that the compiler chose shows.
\* The meaning is computed by Source, from the tree alone.
Faithful ==
    status = "halted" =>
        LET meant == Language!Prints(source)
        IN  out = [i \in 1 .. Len(meant) |-> Machine!Token("int", meant[i])]

\* The code the compiler emits never leaves the registers, the slots of a
\* frame, the stack of frames, the return stack or the program.
NeverUndefined == status \notin {"ub", "trap"}
=============================================================================
