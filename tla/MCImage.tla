------------------------------ MODULE MCImage ------------------------------
(***************************************************************************)
(* Instances of Saving for TLC: short programs that between them contain   *)
(* every kind of instruction the compiler emits.                           *)
(***************************************************************************)
EXTENDS Saving

Text == INSTANCE Examples WITH Words <- BYTE * HIGH
x == Text!x

\* conditions, both kinds of loop, calls, strings that are kept
MCSources ==
    {<<Text!Assign("x", Text!Num(1)),
       Text!IfElse(Text!Bin("CMP_LT", x, Text!Num(k)), <<Text!print(x)>>,
                   <<Text!Assign("x", Text!Str(2)), Text!print(Text!Num(4))>>)>>
        : k \in {1, 2}}
    \cup {Text!LoopOfCalls(1), Text!Fib(0),
          <<Text!If(Text!Bin("AND", Text!Bool(TRUE), Text!Bool(TRUE)),
                    <<Text!print(Text!Neg(Text!Num(2)))>>)>>,
          <<Text!Forever(<<Text!Assign("x", Text!Num(3)), Text!print(x), Text!Break>>)>>}

StringSources == {<<Text!Assign("x", Text!Str(k))>> : k \in 0 .. 2}

\* the nodes of these programs
MCNodes == NodesOf(MCSources)
StringNodes == NodesOf(StringSources)
=============================================================================
