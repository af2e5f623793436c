------------------------------ MODULE Examples ------------------------------
(***************************************************************************)
(* Families of source programs, as sets of sequences of statements.        *)
(* Together they use every construct the language has for integers; each   *)
(* family varies one part of the compiler's work.                          *)
(***************************************************************************)
EXTENDS Source

print(e) == VMC(0, <<e>>)
x == Var("x")
a == Var("a")
b == Var("b")
f(args) == Call("f", args)
g(args) == Call("g", args)

\* Register allocation: operators of operators, up to three live temporaries.
Leaves == {Num(1), Num(3), x}
Shallow == Leaves \cup {Neg(e) : e \in Leaves}
           \cup {Bin(o, l, r) : o \in {"ADD", "SUB", "MUL"}, l \in Leaves, r \in Leaves}
Deep == {Bin("SUB", l, r) : l \in Shallow, r \in Shallow} \cup {Neg(e) : e \in Shallow}
Expressions == {<<Assign("x", Num(5)), print(e)>> : e \in Deep}

\* Jumps: conditions, breaks and continues in the body of a loop.
Increment == Assign("x", Bin("ADD", x, Num(1)))
Simple == {Increment, print(x)}
Jump == {Break, Continue}
Conditions == {Bin("CMP_LT", x, Num(2)), Bin("CMP_EQ", x, Num(1))}
Guarded == {If(c, <<j>>) : c \in Conditions, j \in Jump}
           \cup {IfElse(c, <<s>>, <<j>>) : c \in Conditions, s \in Simple, j \in Jump}
Steps == Simple \cup Guarded \cup Jump
Loops == {<<Assign("x", Num(0)), Loop(Num(k), <<s, t, u>>), print(x)>> :
            k \in {0, 3}, s \in Guarded, t \in Steps, u \in Simple}

\* the jumps of an inner loop, and an outer loop that has none
NestedLoops == {<<Assign("x", Num(0)), Loop(Num(2), <<Loop(Num(k), <<s, t>>), u>>),
                  print(x)>> :
                    k \in {0, 2}, s \in Steps, t \in Simple, u \in Simple}

\* loops without a counter, left by their break
Comparisons == {Bin(o, x, Num(2)) : o \in {"CMP_GT", "CMP_GE", "CMP_EQ"}}
               \cup {Bool(TRUE)}
Either(c, d) == Bin("OR", c, Bin("AND", d, c))
Endless == {<<Assign("x", Num(0)),
              Forever(<<Increment, If(c, <<print(x), Break>>), s>>), print(x)>> :
                c \in Comparisons \cup {Either(c, d) : c, d \in Comparisons},
                s \in {print(x), Continue}}

\* Frames and saved registers: parameters, locals, reassigned parameters,
\* returns from blocks; calls as operands, as first arguments, below
\* temporaries, from functions, recursive, in the body of a loop.
Base == {Num(1), a, b, Bin("SUB", a, b)}
Bodies == {<<Return(e)>> : e \in Base}
          \cup {<<Let("k", e), Assign("a", Var("k")), Return(Bin("ADD", a, d))>> :
                    e \in Base, d \in Base}
          \cup {<<If(Bin("CMP_LT", a, b), <<Return(d)>>), Return(e)>> :
                    d \in Base, e \in Base}
Uses == {f(<<Num(1), Num(2)>>),
         Bin("SUB", f(<<Num(1), Num(2)>>), f(<<Num(2), Num(0)>>)),
         f(<<f(<<Num(1), Num(2)>>), Num(5)>>),
         Bin("ADD", Num(3), Bin("SUB", Num(7), Bin("SUB", Num(4), f(<<x, Num(1)>>))))}
Calls == {<<Assign("x", Num(3)), Func("f", <<"a", "b">>, body), print(e)>> :
            body \in Bodies, e \in Uses}

n == Var("n")
Callers == {f(<<n, n>>),
            Bin("SUB", Bin("ADD", n, Num(1)), f(<<n, Num(2)>>)),
            Bin("ADD", f(<<n, Num(2)>>), f(<<Num(2), n>>))}
CallChains(again) ==
    {<<Func("f", <<"a", "b">>, body), Func("g", <<"n">>, <<Return(e)>>),
       print(Bin("ADD", g(<<Num(2)>>), again))>> : body \in Bodies, e \in Callers}
Chains == CallChains(g(<<Num(0)>>))
PipeChains == CallChains(Pipe(Num(0), "g"))

Fib(k) == <<Func("f", <<"a">>,
              <<If(Bin("CMP_LE", a, Num(1)), <<Return(a)>>),
                Return(Bin("ADD", f(<<Bin("SUB", a, Num(1))>>),
                                  f(<<Bin("SUB", a, Num(2))>>)))>>),
            print(f(<<Num(k)>>))>>
LoopOfCalls(k) == <<Func("f", <<"a">>, <<Loop(Num(2), <<print(a)>>), Return(Num(1))>>),
                    Loop(Num(k), <<print(f(<<Num(k)>>))>>)>>
Recursive == {Fib(k) : k \in 0 .. 4} \cup {LoopOfCalls(k) : k \in 0 .. 3}

\* Foreign functions: called from the toplevel, below a temporary, from a
\* function, in a pipe and in the body of a loop.
Mylib == Module("m", "mylib", <<Extern("add", "add", <<"num", "num">>, "num"),
                                Extern("next", "inc", <<"num">>, "num"),
                                Extern("odd", "odd", <<"num">>, "bool")>>)
\* no such library, no such function, no library at all
Unloadable == {Module("m", "nolib", <<>>),
               Module("m", "mylib", <<Extern("f", "sub", <<"num">>, "num")>>),
               Tree([kind |-> "Module", name |-> "m", dyn |-> FALSE, lib |-> "",
                     decls |-> Mylib.node.decls], <<>>)}
add(l, r) == Call("m.add", <<l, r>>)
next(e) == Call("m.next", <<e>>)
odd(e) == Call("m.odd", <<e>>)
ForeignUses == {add(Num(1), Num(2)), add(next(x), x),
                Bin("SUB", Num(7), add(x, Num(2))), Neg(next(Num(0))),
                f(<<Num(1), x>>), add(f(<<x, Num(2)>>), x)}
ForeignDefs == <<Mylib, Let("x", Num(5)),
                 Func("f", <<"a", "b">>, <<Return(Bin("ADD", b, add(a, Num(1))))>>)>>
Foreign == {ForeignDefs \o <<print(e), print(Bin("SUB", d, e))>> :
                e \in ForeignUses, d \in ForeignUses \cup {Pipe(x, "m.next")}}
           \cup {<<Mylib, Assign("x", Num(0)),
                   Forever(<<Assign("x", next(x)), If(odd(x), <<Continue>>), print(x),
                             If(Bin("CMP_GT", x, Num(3)), <<Break>>)>>)>>}

\* Programs that the comments of the generator speak of: a function declared
\* inside another one, and a global read by a function that a function calls.
NestedFunction == <<Func("f", <<>>, <<Func("g", <<>>, <<Return(Num(1))>>),
                                      print(g(<<>>))>>),
                    f(<<>>)>>
GlobalBelowCall == <<Assign("x", Num(3)),
                     Func("f", <<>>, <<Return(x)>>),
                     Func("g", <<"n">>, <<Return(f(<<>>))>>),
                     print(g(<<Num(1)>>))>>
=============================================================================
