------------------------------- MODULE MCRepl -------------------------------
(***************************************************************************)
(* Instances of Repl for TLC.                                              *)
(***************************************************************************)
EXTENDS Repl

Families == INSTANCE Examples WITH Words <- BYTE * HIGH

text == Families!Str(1)
x == Families!x
Plus(l, r) == Families!Bin("ADD", l, r)

\* Sessions of correct lines: the programs of Examples, statement by
\* statement, with lines that show a value and lines the parser refuses.
Asking(lines) == lines \o <<x, Plus(x, Families!Num(2))>>
Refused == Broken(FALSE, FALSE)
CorrectSessions ==
    {Asking(p \o p) : p \in Families!Endless}
    \cup {Asking(p) \o <<LastRet>> : p \in Families!Calls}
    \cup Families!Chains
    \cup {<<Families!Let("x", Families!Num(5)), Refused>> \o Asking(<<>>)}

\* Foreign functions, before and after a string that may move the pool: the
\* module fills 25 of its 48 characters, a string of 22 and its end still fit.
ForeignSessions ==
    {Families!ForeignDefs \o <<e, LastRet, Families!Str(k), d>> :
        e, d \in Families!ForeignUses, k \in {0, 22, 23, 40}}

UnloadableSessions == {<<Families!Let("x", Families!Num(5)), m>> \o Asking(<<>>) :
                          m \in Families!Unloadable}

\* a line with a name that is not defined yet, and correct lines after it
ErrorSessions == {<<x, Families!Let("x", Families!Num(5))>> \o Asking(<<>>)}

\* Lines that keep registers, lines that do not, and lines that do or do not
\* depending on those before them: as a first line or a later one, with the
\* names they use defined or not, any three of them.
Keeping ==
    {Families!print(text), Plus(Plus(text, text), text), Plus(Families!Neg(text), text),
     Plus(Families!Pipe(text, "f"), Families!f(<<text>>)), Families!f(<<text>>),
     Families!Let("x", Families!Num(5)), Plus(x, Families!Num(2)), Families!Pipe(x, "f"),
     Plus(Families!g(<<x>>), text),
     Families!Func("f", <<"a">>, <<text, Families!Return(Families!Neg(Families!a))>>),
     Families!Func("f", <<"a">>, <<Families!print(text), Families!Return(text)>>),
     Families!If(x, <<x, Families!print(x)>>),
     Families!Loop(Families!Num(2), <<Families!Num(1), Families!Break>>),
     Families!Forever(<<Families!If(text, <<Families!Bool(TRUE)>>), Families!Break>>),
     Families!Mylib, Refused, Broken(TRUE, TRUE), LastRet}
KeepingSessions == [1 .. 3 -> Keeping]

MCSessions == CorrectSessions \cup ForeignSessions \cup UnloadableSessions
              \cup KeepingSessions

\* the nodes of these lines
MCNodes == NodesOf(MCSessions)
ErrorNodes == NodesOf(ErrorSessions)
=============================================================================
