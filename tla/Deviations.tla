----------------------------- MODULE Deviations -----------------------------
(***************************************************************************)
(* Where a compiled program does something else than its text means: the   *)
(* programs that CompileRun's properties are not claimed for, told from    *)
(* the text alone.  A cause here is a way in which the code generator or   *)
(* the machine is known to go wrong; the properties say that there is no   *)
(* other.                                                                  *)
(***************************************************************************)
EXTENDS CompileRun

RECURSIVE Subtrees(_)
Subtrees(t) == {t} \cup UNION {Subtrees(t.kids[i]) : i \in DOMAIN t.kids}
Trees == UNION {Subtrees(source[i]) : i \in DOMAIN source}
Of(kinds) == {t \in Trees : t.node.kind \in kinds}

Inside(t) == UNION {Subtrees(t.kids[i]) : i \in DOMAIN t.kids}
Has(trees, kinds) == \E t \in trees : t.node.kind \in kinds

Calling == {"Call", "Pipe"}
Functions == Of({"Func"})
Counted == {t \in Of({"Loop"}) : t.node.counted}
Count(t) == t.kids[1]

\* the statements of the toplevel and of every body; a body may be two, the
\* branches of a condition, which follow that
Bodies == {source} \cup {t.kids : t \in Functions \cup (Of({"Loop"}) \ Counted)}
          \cup {Tail(t.kids) : t \in Of({"If"}) \cup Counted}

-----------------------------------------------------------------------------
(* Loops and jumps. *)

\* IF_FALSE tests the low byte of the counter: a loop over 16 (256) is left
\* at once, and a loop over 17 (257) after one round (vm.cpp:176)
LongLoop == \E t \in Counted : Count(t).node.kind = "Num" /\ Count(t).node.value >= BYTE

\* a build that negates a bool by flipping its bit leaves at once a loop over
\* more than 1 (vm.cpp:176)
PlainLoop == build = "plain"
             /\ \E t \in Counted : Count(t) \notin {Language!Num(0), Language!Num(1)}

\* the counter stays in register 0 when its value is what a call returned, and
\* every call in the body writes that register (generator.cpp:109)
CounterReturned == \E t \in Counted : /\ Count(t).node.kind \in Calling
                                      /\ Has(UNION {Subtrees(t.kids[i]) : i \in 2 .. Len(t.kids)},
                                             Calling)

\* a break or continue that stands before a loop, in the body of its own
\* loop, leaves or repeats that one (generator.cpp:133)
JumpBeforeLoop ==
    \E t \in Of({"Loop"}) :
        LET items == Tail(Language!Flatten(t))
            loops == {k \in DOMAIN items : items[k].node.kind = "Loop"}
        IN  \E j \in DOMAIN items :
                /\ items[j].node.kind \in {"Break", "Continue"}
                /\ \A k \in loops : ~(k < j /\ j < k + items[k].size)
                /\ \E k \in loops : j < k

-----------------------------------------------------------------------------
(* Calls and functions. *)

\* the arguments before it are in registers that it writes (generator.cpp:414)
CallInLaterArgument ==
    \E t \in Of({"Call", "VMC"}) : \E i \in 2 .. Len(t.kids) : Has(Subtrees(t.kids[i]), Calling)

\* a call to the right of more operators than registers are saved, of which
\* each holds one (vm.cpp:112)
RECURSIVE Held(_)
Held(t) ==
    IF t.node.kind # "Bin" THEN 0
    ELSE IF Has(Subtrees(t.kids[2]), Calling) THEN 1 + Held(t.kids[2])
    ELSE Held(t.kids[1])
CallBelowOperators == \E t \in Of({"Bin"}) : Held(t) >= SAVE_REGS

\* a branch that ends in a return is the end of a function, and the FRET of
\* that return is taken for the function's (emit.cpp:99)
RECURSIVE ElseReturns(_)
ElseReturns(t) ==
    /\ t.node.kind = "If" /\ t.node.has_else
    /\ LET end == t.kids[Len(t.kids) - 1]
       IN  end.node.kind = "Return" \/ ElseReturns(end)
EndsInBranch == \E t \in Functions : Len(t.kids) > 1 /\ ElseReturns(t.kids[Len(t.kids) - 1])

\* the compiler counts the functions around the text of a variable, the machine
\* those that are called (vm.cpp:191); the assignment to a global counts from
\* the wrong end (generator.cpp:309)
Globals == {source[i].node.name : i \in {j \in DOMAIN source : source[j].node.kind = "Assign"}}
Mentions(t, kinds, names) == \E u \in Inside(t) : u.node.kind \in kinds /\ u.node.name \in names
GlobalInFunction ==
    \E t \in Functions :
        \/ Mentions(t, {"Assign"}, Globals)
        \/ Mentions(t, {"Var"}, Globals) /\ \E u \in Functions : Mentions(u, Calling, {t.node.name})

\* the machine skips a function up to the end of the first one inside
\* (vm.cpp:182)
FunctionInside == \E t \in Functions : Has(Inside(t), {"Func"})

-----------------------------------------------------------------------------
(* Slots and registers. *)

\* a declaration takes a slot, also in a block that is closed, and nothing asks
\* how many there are (frame.hpp:16)
SlotsTaken(stmts, params) ==
    LET new(t) == t.node.kind \in {"Assign", "Module"} /\ t.node.name \notin params
        direct == {stmts[i].node.name : i \in {j \in DOMAIN stmts : new(stmts[j])}}
        inner == Language!Program(SelectSeq(stmts, LAMBDA t : t.node.kind \in {"If", "Loop"}))
    IN  Cardinality(params \cup direct)
          + Cardinality({i \in DOMAIN inner : /\ new(inner[i])
                                              /\ inner[i].node.mut =>
                                                    inner[i].node.name \notin direct})
TooManyVariables ==
    \/ \E t \in Functions : SlotsTaken(t.kids, Language!ToSet(t.node.params)) > FRAME_SLOTS
    \/ SlotsTaken(source, {}) > GLOBAL_SLOTS

\* an expression that is a statement keeps its register (generator.cpp:105)
Keeping == {"Num", "Bool", "Str", "Var", "Bin", "Pipe"}
Kept(stmts) == Cardinality({i \in DOMAIN stmts : stmts[i].node.kind \in Keeping})
KeptRegisters == Language!FoldSet(LAMBDA s, n : n + Kept(s), 0, Bodies)

\* Width registers are enough for a statement here
Width == 4
RegistersUsedUp == KeptRegisters + Width >= REG_COUNT

-----------------------------------------------------------------------------
(* Modules. *)

Modules == {i \in DOMAIN source : source[i].node.kind = "Module"}

\* the name of a library is found only when it is the first string of the
\* program and the first register is free (generator.cpp:165)
LateModule ==
    \E i \in Modules : \E j \in 1 .. i - 1 :
        /\ source[i].node.dyn
        /\ Has(Subtrees(source[j]), {"Str", "Module"}) \/ source[j].node.kind \in Keeping

\* a module behind another one is taken for a part of it, and its functions
\* are not found under its name (generator.cpp:170)
OtherModule ==
    \E i \in Modules : /\ \E j \in Modules : j < i
                       /\ \E t \in Trees : /\ t.node.kind \in Calling
                                           /\ t.node.name \in
                                                DOMAIN Language!Announced(source[i].node)

-----------------------------------------------------------------------------
Deviates ==
    \/ LongLoop \/ PlainLoop \/ CounterReturned \/ JumpBeforeLoop
    \/ CallInLaterArgument \/ CallBelowOperators \/ EndsInBranch
    \/ GlobalInFunction \/ FunctionInside
    \/ TooManyVariables \/ RegistersUsedUp
    \/ LateModule \/ OtherModule

\* What a program prints before it halts is what its text means, number by
\* number: no register, slot, jump or call that the compiler chose shows;
\* or the text shows one of the causes above.  (file_run, the whole of it.)
FaithfulUnlessKnown == Faithful \/ Deviates

\* The code the compiler emits leaves the registers, the slots of a frame, the
\* stack of frames, the return stack or the program for three of the causes
\* only.
UndefinedOnlyKnown ==
    NeverUndefined \/ FunctionInside \/ TooManyVariables \/ RegistersUsedUp

\* A program whose loops are counted, or left by a break that is reached,
\* is compiled, run and halts, or shows one of the causes.  (Its text does not
\* change, so it is enough to look for them before the first command.)
HaltsUnlessKnown == <>(status = "halted" \/ (em.ops = <<>> /\ Deviates))
=============================================================================
