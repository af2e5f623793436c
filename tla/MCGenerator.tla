---------------------------- MODULE MCGenerator ----------------------------
(***************************************************************************)
(* Instances of Generator for TLC: all source programs over a few nodes,   *)
(* up to a number of emitted instructions and a depth of nesting.          *)
(***************************************************************************)
EXTENDS Generator

CONSTANT Families   \* which of the sets of nodes below programs are built from

VARIABLE family   \* the set of nodes of this program

Of(kind) == [kind |-> kind]
Parameters == {<<>>, <<"x">>, <<"x", "y">>, <<"x", "x">>}

ExprNodes ==
    {[kind |-> "Num", value |-> 5], [kind |-> "Bool", b |-> TRUE],
     [kind |-> "Str", length |-> 1],
     [kind |-> "Var", name |-> "x"], Of("Neg"), [kind |-> "Bin", op |-> "ADD"],
     [kind |-> "VMC", idx |-> 0, argc |-> 1]}
    \cup {[kind |-> "VMC", idx |-> VMCALL_INDEX_MAX + 1, argc |-> 0]}
    \cup {[kind |-> "Call", name |-> "f", argc |-> n] : n \in 0 .. 2}
    \cup {[kind |-> "Pipe", name |-> "f", argc |-> n] : n \in 0 .. 1}

StmtNodes ==
    {[kind |-> "Assign", name |-> "x", mut |-> TRUE],
     [kind |-> "Assign", name |-> "y", mut |-> FALSE]}
    \cup {[kind |-> "If", has_else |-> b] : b \in BOOLEAN}
    \cup {[kind |-> "Loop", counted |-> b] : b \in BOOLEAN}
    \cup {[kind |-> "Func", name |-> "f", params |-> p] : p \in Parameters}
    \cup {Of(kind) : kind \in {"Return", "ReturnVoid", "Break", "Continue",
                               "Declare", "End"}}

ModuleNode(is_dyn, decls) ==
    [kind |-> "Module", name |-> "m", dyn |-> is_dyn, lib |-> "l", decls |-> decls]
Declared(result) ==
    [name |-> "f", label |-> "f", argc |-> 1, types |-> <<"num">>, ret |-> result]

\* every node
AllNodes == ExprNodes \cup StmtNodes \cup {ModuleNode(FALSE, <<Declared("none")>>),
                                        ModuleNode(FALSE, <<>>)}

\* nodes that move values between registers
CallNodes ==
    {n \in AllNodes :
        \/ n.kind \in {"Num", "Var", "Bin", "Return", "End"}
        \/ n.kind = "VMC" /\ n.argc = 1
        \/ n.kind = "Call" /\ n.argc = 1
        \/ n.kind = "Pipe" /\ n.argc = 0
        \/ n.kind = "Func" /\ n.params = <<"x">>}

\* nodes that jump
ControlNodes ==
    {n \in AllNodes : n.kind \in {"Num", "If", "Loop", "Break", "Continue", "End"}}

\* nodes that name variables
ScopeNodes ==
    {n \in AllNodes :
        \/ n.kind \in {"Num", "Var", "Assign", "End"}
        \/ n.kind = "If" /\ n.has_else
        \/ n.kind = "Loop" /\ ~n.counted
        \/ n.kind = "Func" /\ n.params = <<"x", "y">>}

\* a module and then calls of its function
Loading == {ModuleNode(TRUE, <<Declared("num")>>)}
Calling == {[kind |-> k, name |-> "m.f", argc |-> 1] : k \in {"Call", "Pipe"}}
           \cup {[kind |-> "Call", name |-> "m.f", argc |-> 0]}
ForeignNodes ==
    IF em.ops = <<>> THEN Loading
    ELSE {n \in AllNodes : n.kind \in {"Num", "Bin", "Loop", "End"}} \cup Calling

MCNodes == AllNodes \cup Loading \cup Calling

NodesOf(name) == CASE name = "all" -> AllNodes
                   [] name = "calls" -> CallNodes
                   [] name = "control" -> ControlNodes
                   [] name = "foreign" -> ForeignNodes
                   [] OTHER -> ScopeNodes

\* bounds of the programs of a family: nested activations and instructions
MaxDepth(name) == CASE name = "all" -> 3 [] name = "control" -> 4 [] OTHER -> 5
MaxOps(name) == CASE name = "all" -> 3 [] name = "foreign" -> 14 [] OTHER -> 6

MCInit == Init /\ family \in Families
MCNext == /\ UNCHANGED family
          /\ \/ \E n \in NodesOf(family) : Visit(n)
             \/ Resume
             \/ Finished
MCSpec == MCInit /\ [][MCNext]_<<gvars, family>>

\* After an error the generator goes on, but its code is never run.
Bounded == /\ Emitted(em) <= MaxOps(family) /\ Len(todo) <= MaxDepth(family)
           /\ ~node_has_error
=============================================================================
