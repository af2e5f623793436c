------------------------------- MODULE Source -------------------------------
(***************************************************************************)
(* Source programs as trees, their nodes in the order of the generator,    *)
(* and what they mean.  The meaning is a definitional interpreter over the *)
(* tree: variables are looked up by name in the scopes of the program      *)
(* text, a call evaluates its arguments from left to right and then runs   *)
(* the body in a fresh scope, `loop n` runs its body n times.  It knows    *)
(* nothing of registers, slots, frames or jumps.                           *)
(***************************************************************************)
EXTENDS Library, SequencesExt

CONSTANT Words   \* number of integers of the language, a power of two

Tree(node, kids) == [node |-> node, kids |-> kids]

\* the nodes of a tree in the order of sub_gen, each with the number of
\* nodes of its subtree; bodies end with "End"
RECURSIVE Flatten(_)
Flatten(t) ==
    LET below == FlattenSeq([i \in 1 .. Len(t.kids) |-> Flatten(t.kids[i])])
    IN  <<[node |-> t.node, size |-> 1 + Len(below)]>> \o below

\* what is left of src when its first node was visited: an activation that
\* returns at once (a leaf, or an error) does not descend into its children
AfterVisit(src, returned) ==
    IF returned THEN SubSeq(src, Head(src).size + 1, Len(src)) ELSE Tail(src)

EndNode == Tree([kind |-> "End"], <<>>)
Body(stmts) == Append(stmts, EndNode)
Program(stmts) == FlattenSeq([i \in 1 .. Len(stmts) |-> Flatten(stmts[i])])
                  \o Flatten(EndNode)
NodesIn(trees) ==
    {item.node : item \in UNION {ToSet(Flatten(t)) : t \in trees}}

\* Concrete syntax, for the configurations.
Num(k)            == Tree([kind |-> "Num", value |-> k], <<>>)
Bool(b)           == Tree([kind |-> "Bool", b |-> b], <<>>)
Str(k)            == Tree([kind |-> "Str", length |-> k], <<>>)
Var(x)            == Tree([kind |-> "Var", name |-> x], <<>>)
Neg(e)            == Tree([kind |-> "Neg"], <<e>>)
Bin(o, l, r)      == Tree([kind |-> "Bin", op |-> o], <<l, r>>)
Call(f, args)     == Tree([kind |-> "Call", name |-> f, argc |-> Len(args)], args)
Pipe(l, f)        == Tree([kind |-> "Pipe", name |-> f, argc |-> 0], <<l>>)
VMC(i, args)      == Tree([kind |-> "VMC", idx |-> i, argc |-> Len(args)], args)
Assign(x, e)      == Tree([kind |-> "Assign", name |-> x, mut |-> TRUE], <<e>>)
Let(x, e)         == Tree([kind |-> "Assign", name |-> x, mut |-> FALSE], <<e>>)
Return(e)         == Tree([kind |-> "Return"], <<e>>)
If(c, t)          == Tree([kind |-> "If", has_else |-> FALSE], <<c>> \o Body(t))
IfElse(c, t, e)   == Tree([kind |-> "If", has_else |-> TRUE],
                          <<c>> \o Body(t) \o Body(e))
Loop(c, b)        == Tree([kind |-> "Loop", counted |-> TRUE], <<c>> \o Body(b))
Forever(b)        == Tree([kind |-> "Loop", counted |-> FALSE], Body(b))
Break             == Tree([kind |-> "Break"], <<>>)
Continue          == Tree([kind |-> "Continue"], <<>>)
Module(m, lib, ds) == Tree([kind |-> "Module", name |-> m, dyn |-> TRUE, lib |-> lib,
                           decls |-> ds], <<>>)
\* a declaration of the foreign function `label` in a module
Extern(f, label, types, ret) ==
    [name |-> f, label |-> label, argc |-> Len(types), types |-> types, ret |-> ret]
Func(f, ps, b)    == Tree([kind |-> "Func", name |-> f, params |-> ps], Body(b))

-----------------------------------------------------------------------------
(* Meaning.  A state m of the interpreter:                                 *)
(*   acts   the activations, the toplevel first; an activation is the      *)
(*          sequence of its scopes, a scope a function on the names in it  *)
(*   funcs  the declared functions                                         *)
(*   out    what was printed, as the printed integers modulo Words         *)
(*   val    the value of the last expression                               *)
(*   last   the value the last call returned                               *)
(*   ctl    "go", or why the statements that follow are skipped            *)

Wrap(k) == LET w == k % Words IN IF 2 * w >= Words THEN w - Words ELSE w

Start == [acts |-> << << <<>> >> >>, funcs |-> <<>>, out |-> <<>>, val |-> 0,
          last |-> 0, ctl |-> "go"]

Extend(f, x, v) == [y \in DOMAIN f \cup {x} |-> IF y = x THEN v ELSE f[y]]

\* the activation and scope that x refers to: those of the running function,
\* then those of the toplevel
Places(m, x) == {<<a, s>> \in {1, Len(m.acts)} \X (1 .. 9) :
                    s <= Len(m.acts[a]) /\ x \in DOMAIN m.acts[a][s]}
Inner(p, q) == p[1] > q[1] \/ (p[1] = q[1] /\ p[2] >= q[2])
Place(m, x) == CHOOSE p \in Places(m, x) : \A q \in Places(m, x) : Inner(p, q)

Here(m) == <<Len(m.acts), Len(m.acts[Len(m.acts)])>>

Store(m, x, v) ==
    LET p == IF Places(m, x) = {} THEN Here(m) ELSE Place(m, x)
    IN  [m EXCEPT !.acts[p[1]][p[2]] = Extend(@, x, v)]

OpenScope(m) == [m EXCEPT !.acts[Len(m.acts)] = Append(@, <<>>)]
CloseScope(m) == [m EXCEPT !.acts[Len(m.acts)] = SubSeq(@, 1, Len(@) - 1)]

Truth(b) == IF b THEN 1 ELSE 0

Operate(o, a, b) ==
    CASE o = "ADD" -> Wrap(a + b)
      [] o = "SUB" -> Wrap(a - b)
      [] o = "MUL" -> Wrap(a * b)
      [] o = "CMP_LT" -> Truth(a < b)
      [] o = "CMP_LE" -> Truth(a <= b)
      [] o = "CMP_GT" -> Truth(a > b)
      [] o = "CMP_GE" -> Truth(a >= b)
      [] o = "CMP_EQ" -> Truth(a = b)
      [] o = "CMP_NE" -> Truth(a # b)
      [] o = "AND" -> Truth(a # 0 /\ b # 0)
      [] o = "OR" -> Truth(a # 0 \/ b # 0)

\* the functions of a module, by their full names
Announced(n) ==
    LET full(d) == n.name \o "." \o d.name
    IN  [name \in {full(n.decls[i]) : i \in 1 .. Len(n.decls)} |->
            LET d == n.decls[CHOOSE i \in 1 .. Len(n.decls) : full(n.decls[i]) = name]
            IN  Tree([kind |-> "Extern", label |-> d.label], <<>>)]

RECURSIVE Eval(_, _), EvalArgs(_, _, _), Exec(_, _), Block(_, _, _),
          Repeat(_, _, _)

\* the arguments t.kids[i] .. with the values vs computed so far
EvalArgs(t, m, vs) ==
    IF Len(vs) = Len(t.kids) THEN [m |-> m, vs |-> vs]
    ELSE LET e == Eval(t.kids[Len(vs) + 1], m)
         IN  EvalArgs(t, e, Append(vs, e.val))

Eval(t, m) ==
    LET n == t.node
        args == EvalArgs(t, m, <<>>)
        f == m.funcs[n.name]
        scope == [x \in {f.node.params[i] : i \in 1 .. Len(f.node.params)} |->
                    args.vs[CHOOSE i \in 1 .. Len(f.node.params) :
                                f.node.params[i] = x]]
        done == Block(f.kids, 1, [args.m EXCEPT !.acts = Append(@, <<scope>>)])
    IN  CASE n.kind = "Num" -> [m EXCEPT !.val = Wrap(n.value)]
          [] n.kind = "Bool" -> [m EXCEPT !.val = Truth(n.b)]
          [] n.kind = "Str" -> m   \* strings are no integers
          [] n.kind = "Var" -> [m EXCEPT !.val =
                LET p == Place(m, n.name) IN m.acts[p[1]][p[2]][n.name]]
          [] n.kind = "Neg" -> [args.m EXCEPT !.val = Wrap(-args.vs[1])]
          [] n.kind = "Bin" ->
                [args.m EXCEPT !.val = Operate(n.op, args.vs[1], args.vs[2])]
          [] n.kind = "VMC" ->
                [args.m EXCEPT !.out = Append(@, args.vs[1] % Words)]
          [] n.kind \in {"Call", "Pipe"} /\ f.node.kind = "Func" ->
                [done EXCEPT !.acts = args.m.acts, !.ctl = "go", !.last = done.val,
                             !.acts[1] = done.acts[1]]
          [] n.kind \in {"Call", "Pipe"} /\ f.node.kind = "Extern" ->
                LET w == Wrap(C(f.node.label, args.vs))
                IN  [args.m EXCEPT !.val = w, !.last = w]

\* the statements from kids[i] on; the last of the kids is "End"
Block(kids, i, m) ==
    IF i = Len(kids) \/ m.ctl # "go" THEN m
    ELSE Block(kids, i + 1, Exec(kids[i], m))

Scoped(kids, m) == CloseScope(Block(kids, 1, OpenScope(m)))

\* the body of a loop k times; -1 is forever
Repeat(kids, k, m) ==
    IF k = 0 THEN m
    ELSE LET once == Scoped(kids, m)
             next == IF k = -1 THEN -1 ELSE k - 1
         IN  CASE once.ctl = "break" -> [once EXCEPT !.ctl = "go"]
               [] once.ctl = "return" -> once
               [] OTHER -> Repeat(kids, next, [once EXCEPT !.ctl = "go"])

Exec(t, m) ==
    LET n == t.node
        first == Eval(t.kids[1], m)
        rest == Tail(t.kids)
        \* the statements of the then-block end at the first "End"
        cut == SelectInSeq(rest, LAMBDA k : k = EndNode)
    IN  CASE n.kind = "Assign" -> Store(first, n.name, first.val)
          [] n.kind = "Return" -> [first EXCEPT !.ctl = "return"]
          [] n.kind = "If" ->
                IF first.val # 0 THEN Scoped(SubSeq(rest, 1, cut), first)
                ELSE IF n.has_else
                     THEN Scoped(SubSeq(rest, cut + 1, Len(rest)), first)
                     ELSE first
          [] n.kind = "Loop" ->
                IF n.counted THEN Repeat(rest, first.val, first)
                ELSE Repeat(t.kids, -1, m)
          [] n.kind = "Break" -> [m EXCEPT !.ctl = "break"]
          [] n.kind = "Continue" -> [m EXCEPT !.ctl = "continue"]
          [] n.kind = "Func" -> [m EXCEPT !.funcs = Extend(@, n.name, t)]
          [] n.kind = "Module" -> [m EXCEPT !.funcs = @ @@ Announced(n)]
          [] OTHER -> Eval(t, m)

\* the state after a program, and what it prints
Run(stmts) == Block(Body(stmts), 1, Start)
Prints(stmts) == Run(stmts).out
=============================================================================
