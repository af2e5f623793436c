---------------------------- MODULE EdgeExamples ----------------------------
(***************************************************************************)
(* Families of source programs, each of which crosses the line behind      *)
(* which one cause of Deviations lies: programs on both sides of it.       *)
(***************************************************************************)
EXTENDS Examples

CONSTANTS BYTE, REG_COUNT

k == Var("k")
Minus(l, r) == Bin("SUB", l, r)
Plus(l, r) == Bin("ADD", l, r)
When(c, s) == If(c, <<s>>)
Fork(c, s, t) == IfElse(c, <<s>>, <<t>>)
Difference == Func("f", <<"a", "b">>, <<Return(Minus(a, b))>>)
Times(s, count) == [i \in 1 .. count |-> s]

\* loops that run up to more rounds than a byte counts
Counts ==
    {<<Assign("x", Num(0)), Loop(Num(rounds), <<Increment>>), print(x)>> :
        rounds \in 0 .. BYTE + 2}
    \cup {<<Difference, Assign("x", Num(0)), Loop(rounds, <<s>>), print(x)>> :
            rounds \in {f(<<Num(3), Num(1)>>), Plus(f(<<Num(3), Num(1)>>), Num(0))},
            s \in {Increment, Assign("x", f(<<x, x>>)), print(x)}}

\* jumps before, in and behind inner loops, and in loops one after the other
Jumps == {When(Bin("CMP_LT", x, Num(2)), j) : j \in Jump}
Moves == Jumps \cup Jump \cup Simple
Until(last) == When(Bin("CMP_GT", x, Num(last)), Break)
LoopsAndJumps ==
    {<<Assign("x", Num(0)),
       Loop(Num(2), <<s, Increment, Loop(Num(rounds), <<t, Increment>>), Increment>>),
       print(x)>> : s \in Moves, t \in Moves, rounds \in {1, 2}}
    \cup {<<Assign("x", Num(0)),
            Forever(<<Increment, Until(3), s, Forever(<<Increment, t, Until(1)>>)>>),
            print(x)>> : s \in Jumps \cup {Increment}, t \in Jumps \cup {Increment}}
    \cup {<<Assign("x", Num(0)), Loop(Num(2), <<s, Increment>>),
            Loop(Num(2), <<t, Increment>>), print(x)>> : s \in Moves, t \in Moves}

\* arguments that are calls, or contain some
Args == {Num(1), x, f(<<Num(2), x>>), Plus(f(<<x, Num(1)>>), Num(3)), Neg(x),
         Neg(f(<<x, Num(1)>>))}
Arguments ==
    {<<Assign("x", Num(5)), Difference, print(f(<<d, e>>))>> : d \in Args, e \in Args}
    \cup {<<Mylib, Assign("x", Num(5)), Difference, print(add(d, e))>> :
            d \in Args, e \in Args \cup {next(x)}}

\* a call below up to five operators, of a function that needs as many
Below(depth, e) == FoldLeft(LAMBDA inner, i : Minus(Num(i), inner), e,
                            [i \in 1 .. depth |-> i])
Operators == {<<Func("f", <<"a", "b">>, <<Return(Below(i, Minus(a, b)))>>),
                print(Below(j, f(<<Num(1), Num(2)>>)))>> : i \in 0 .. 5, j \in 0 .. 5}

\* functions whose branches return or not, with and without a return behind
Ends == {Return(a), print(a)}
Negative == Bin("CMP_LT", a, Num(1))
Branches == {Fork(Negative, s, t) : s \in Ends, t \in Ends}
Conditionals == Branches \cup {When(Negative, s) : s \in Ends}
                \cup {Fork(Negative, s, t) : s \in Ends, t \in Branches}
Returns ==
    {<<Assign("x", Num(1)), Func("f", <<"a">>, body),
       When(Bin("CMP_EQ", x, Num(1)), f(<<Num(i)>>)), print(x)>> :
         body \in {<<e>> : e \in Conditionals} \cup {<<e, Return(a)>> : e \in Conditionals},
         i \in {0, 2}}

\* functions that read and assign globals, called from the toplevel and from
\* another function; a function in a function
Accesses == {Increment, print(x), print(Plus(x, a)), Assign("k", a), print(k), Let("b", a)}
Scopes ==
    {NestedFunction, GlobalBelowCall}
    \cup {<<Let("m", Num(4)), Assign("x", Num(1)), Assign("k", Num(7)),
            Func("f", <<"a">>, <<s>>), Func("g", <<"a">>, <<t, u>>),
            f(<<Num(2)>>), g(<<Num(3)>>), print(x), print(k)>> :
              s \in Accesses, t \in Accesses, u \in {f(<<Num(5)>>), print(a)}}

\* up to more declarations than there are slots
Second == {Let("m", a), When(a, Let("m", Num(1))), print(a)}
Declaring ==
    {<<Func("f", <<"a", "b">>, <<c, d, e, Return(Minus(a, Num(2)))>>),
       print(f(<<Num(1), Num(2)>>))>> :
         c \in {Let("k", a), When(a, Let("k", a)), print(a)}, d \in Second,
         e \in {Let("n", a), When(b, Let("n", Num(1))), Assign("a", Num(2)), Assign("b", a)}}
    \cup {[i \in DOMAIN names |-> Let(names[i], Num(i))] \o <<d, e, print(a)>> :
            names \in {<<"a">>, <<"a", "b">>, <<"a", "b", "x">>},
            d \in {When(a, Let("k", a)), print(a)},
            e \in Second \cup {When(a, Assign("k", Num(1)))}}

\* up to as many statements that keep a register as there are registers
Leaks ==
    {<<Assign("x", Num(5)), Difference>> \o Times(x, i) \o <<print(e)>> :
        i \in 0 .. REG_COUNT, e \in {x, f(<<x, Num(1)>>), Minus(x, Minus(Num(2), x))}}
    \cup {<<Assign("x", Num(5)),
            Func("f", <<"a", "b">>, Times(a, i) \o <<Return(Minus(a, b))>>)>>
          \o Times(x, 4) \o <<print(f(<<Num(1), Minus(Num(4), x)>>))>> : i \in 0 .. 6}

\* what stands before, behind and between modules
Same == Func("f", <<"a">>, <<Return(a)>>)
Heads == {<<>>, <<Str(0)>>, <<Str(1)>>, <<Let("k", Str(1))>>, <<Num(1)>>, <<Let("k", Num(1))>>,
          <<print(Num(3))>>, <<print(Str(3))>>, <<Same>>, <<Same, f(<<Num(1)>>)>>,
          <<Same, Pipe(Num(1), "f")>>, <<Neg(Num(1))>>}
Tails == {<<>>, <<Let("n", Str(1))>>, <<Let("n", Str(40))>>, <<Num(1)>>}
OtherModules == {Tree([kind |-> "Module", name |-> "n", dyn |-> lib # "", lib |-> lib,
                       decls |-> Mylib.node.decls], <<>>) : lib \in {"mylib", ""}}
Loading ==
    {before \o <<Mylib>> \o behind \o <<print(add(Num(1), Num(2)))>> :
        before \in Heads, behind \in Tails}
    \cup {<<Mylib, m, print(Call(name, <<Num(1), Num(2)>>))>> :
            m \in OtherModules, name \in {"m.add", "n.add"}}

EdgeSources == Counts \cup LoopsAndJumps \cup Arguments \cup Operators \cup Returns
               \cup Scopes \cup Declaring \cup Leaks \cup Loading
=============================================================================
