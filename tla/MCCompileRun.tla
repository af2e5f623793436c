---------------------------- MODULE MCCompileRun ----------------------------
(***************************************************************************)
(* Instances of Deviations for TLC: the programs of Examples and of        *)
(* EdgeExamples, twelve registers, four slots, bytes of four bits and      *)
(* integers of seven.                                                      *)
(***************************************************************************)
EXTENDS Deviations

Families == INSTANCE EdgeExamples WITH Words <- BYTE * HIGH

\* Programs within the limits of the compiler, but for the loops on a build that
\* negates a bool by its lowest bit.
OrdinarySources == Families!Expressions \cup Families!Endless \cup Families!Calls
                   \cup Families!Chains \cup Families!PipeChains \cup Families!Foreign
                   \cup Families!Loops \cup Families!NestedLoops \cup Families!Recursive

MCSources == OrdinarySources \cup Families!EdgeSources
NestedSources == {Families!NestedFunction}
GlobalSources == {Families!GlobalBelowCall}

\* the nodes of these programs
MCNodes == NodesOf(MCSources)
NestedNodes == NodesOf(NestedSources)
GlobalNodes == NodesOf(GlobalSources)
=============================================================================
