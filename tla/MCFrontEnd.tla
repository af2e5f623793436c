----------------------------- MODULE MCFrontEnd -----------------------------
(***************************************************************************)
(* Instances of FrontEnd for TLC: programs spelled from trees with as few  *)
(* parentheses as the grammar of the parser allows, and texts put together *)
(* from pieces of statements, or from single characters, in any order.     *)
(***************************************************************************)
EXTENDS FrontEnd

CONSTANTS Families,   \* which of the families of sessions below
          Pieces,     \* number of pieces of a text
          Chars       \* number of characters of a text

Text == INSTANCE Examples WITH Words <- 2

-----------------------------------------------------------------------------
(* Spelling.  An expression stands where the parser reads level k; if it   *)
(* is last, nothing follows that a comparison or a sign could swallow.     *)

Sign == "ADD" :> "+" @@ "SUB" :> "-" @@ "MUL" :> "*" @@ "DIV" :> "/" @@ "MOD" :> "%"
        @@ "POW" :> "^" @@ "CMP_EQ" :> "==" @@ "CMP_NE" :> "!=" @@ "CMP_LT" :> "<"
        @@ "CMP_LE" :> "<=" @@ "CMP_GT" :> ">" @@ "CMP_GE" :> ">=" @@ "AND" :> "&&"
        @@ "OR" :> "||"
Level(o) == CASE o = "AND" -> 2 [] o = "OR" -> 3 [] o \in {"ADD", "SUB"} -> 5
              [] o \in {"MUL", "DIV", "MOD", "POW"} -> 6 [] OTHER -> 4

Cat(texts) == Text!FoldLeft(LAMBDA all, t : all \o t, "", texts)
List(names) == Text!FoldLeft(LAMBDA all, t : IF all = "" THEN t ELSE all \o ", " \o t,
                             "", names)

RECURSIVE Spell(_, _, _), Put(_, _)
Args(kids) == "(" \o List([i \in DOMAIN kids |-> Spell(kids[i], 1, TRUE)]) \o ")"
Spell(t, k, last) ==
    LET n == t.node
        level == IF n.kind = "Bin" THEN Level(n.op) ELSE IF n.kind = "Pipe" THEN 1 ELSE 7
        greedy == n.kind = "Neg" \/ level = 4
        needs == level < k \/ (greedy /\ ~last)
        open == needs \/ last
        Kid(i, j, end) == Spell(t.kids[i], j, end)
        plain == CASE n.kind = "Num" -> ToString(n.value)
                   [] n.kind = "Var" -> n.name
                   [] n.kind = "Neg" -> "-" \o Kid(1, 1, TRUE)
                   [] n.kind = "Call" -> n.name \o Args(t.kids)
                   [] n.kind = "VMC" -> "__VMC " \o ToString(n.idx) \o Args(t.kids)
                   [] n.kind = "Pipe" -> Kid(1, 1, FALSE) \o "|>" \o n.name \o "()"
                   [] OTHER -> Kid(1, IF level = 4 THEN 5 ELSE level, FALSE)
                               \o Sign[n.op] \o Kid(2, IF level = 4 THEN 1 ELSE level + 1, open)
    IN  IF needs THEN "(" \o plain \o ")" ELSE plain

\* a statement and what ends it
Puts(kids, end) ==
    "{" \o end
    \o Cat([i \in 1 .. Len(kids) |-> IF kids[i].node.kind = "End" THEN "" ELSE Put(kids[i], end)])
    \o "}"
Put(t, end) ==
    LET n == t.node
        E(i) == Spell(t.kids[i], 1, TRUE)
        cut == CHOOSE i \in DOMAIN t.kids :
                  t.kids[i].node.kind = "End" /\ \A j \in 1 .. i - 1 : t.kids[j].node.kind # "End"
        then == Puts(SubSeq(t.kids, 2, cut), end)
        rest == SubSeq(t.kids, cut + 1, Len(t.kids))
    IN  CASE n.kind = "Assign" -> (IF n.mut THEN "" ELSE "let ") \o n.name \o "=" \o E(1) \o end
          [] n.kind = "Return" -> "return " \o E(1) \o end
          [] n.kind = "ReturnVoid" -> "return" \o end
          [] n.kind = "Break" -> "break" \o end
          [] n.kind = "Continue" -> "continue" \o end
          [] n.kind = "Loop" ->
                IF n.counted THEN "loop " \o E(1) \o Puts(Tail(t.kids), end) \o end
                ELSE "loop " \o Puts(t.kids, end) \o end
          [] n.kind = "Func" ->
                "func " \o n.name \o "(" \o List(n.params) \o ")" \o Puts(t.kids, end) \o end
          [] n.kind = "If" ->
                "if(" \o E(1) \o ")" \o then
                \o (IF ~n.has_else THEN end
                    ELSE IF Len(rest) = 2 /\ rest[1].node.kind = "If"
                    THEN "else " \o Put(rest[1], end)
                    ELSE "else" \o Puts(rest, end) \o end)
          [] OTHER -> Spell(t, 1, TRUE) \o end

Program(stmts, end) ==
    [file |-> TRUE, texts |-> <<Cat([i \in DOMAIN stmts |-> Put(stmts[i], end)])>>,
     meant |-> {stmts}]

-----------------------------------------------------------------------------
(* Programs. *)

RECURSIVE Mentions(_, _)
Mentions(t, kind) == t.node.kind = kind \/ \E i \in DOMAIN t.kids : Mentions(t.kids[i], kind)
\* the scanner has no spelling for a truth value
Readable(P) == {p \in P : \A i \in DOMAIN p : ~Mentions(p[i], "Bool")}

x == Text!x
Ops == {"AND", "OR", "CMP_LT", "CMP_EQ", "ADD", "MUL", "POW"}
Logic == {<<Text!Assign("x", e)>> : e \in
            UNION {{Text!Bin(o, Text!Bin(p, x, Text!a), Text!b),
                    Text!Bin(o, x, Text!Bin(p, Text!a, Text!b)),
                    Text!Bin(o, Text!Neg(x), Text!Bin(p, Text!Num(1), Text!Neg(x)))} :
                        o \in Ops, p \in Ops}}
Branches ==
    {<<Text!IfElse(x, <<Text!print(x)>>,
          <<Text!If(Text!a, <<s>>)>>), s>> : s \in Text!Simple}
    \cup {<<Text!IfElse(x, <<s>>, <<Text!IfElse(Text!a, <<s, s>>, <<Text!IfElse(x, <<>>, <<s>>)>>),
          Text!Loop(Text!a, <<>>)>>)>> : s \in Text!Simple}
Returns0 == {<<Text!Func("f", <<"a">>, <<s, Leaf("ReturnVoid")>>)>> :
                s \in Text!Simple \cup {Leaf("ReturnVoid"), Text!Return(x)}}

\* programs whose jumps are in a loop, behind another one
NestedJumps ==
    {<<Text!Loop(Text!Num(2), <<Text!Loop(Text!Num(1), <<s>>), j>>)>> :
        s \in Text!Simple, j \in Text!Jump}

Programs == Readable(Text!Expressions \cup Text!Calls \cup Text!Chains \cup Text!PipeChains
                     \cup Text!Recursive \cup Text!Endless \cup Logic \cup Branches \cup Returns0)

-----------------------------------------------------------------------------
(* Texts in pieces. *)

Blocks6 == {"loop 2{\n", "func f(a){\n", "if(x){\n", "}\n", "break\n", "return x\n"}
Statements == {"x=1\n", "let k=1\n", "return\n", "continue\n", "loop{\n", "}else{\n",
               "}else if(a){\n", "module m:x{\n", "use \"u\"\n", "# c\n", "-x|>f()\n",
               "func d(a:t[u,v], b)\n", "func h(a):t=\"s\"\n", "x.y(1, 2).z\n", "-"}
Faults == {"x=", "return", ")", "(1", "f #c\n(1)\n", "f(1 2)", "1|>x\n", "1:2", "1*", "__VMC x",
           "let 1", "let x+", "use x\n", "func (", "func f{\n", "func f(1)", "func h()=1\n",
           "loop )", "loop x\n", "if x{\n", "if(x){}else )", "if(x){}else if", "if(x)x",
           "module {\n", "module m:x\n", "x:t[u", "\"s", "|x", "@", "f(", "# c",
           "let \"s\"\n", "let \"\"\n", "let \"s\" \n", "(1 \"s\nt\" ", "use x \"s\"\n", "f(\"s\"\n1)",
           "\"s\nt"}
Characters == {"a", "1", "_", "\"", "\\", "#", "\n", " ", "=", "|", "&", "-", "(", "@"}

AsFile(text) == [file |-> TRUE, texts |-> <<text>>, meant |-> {}]
AsLines(texts) == [file |-> FALSE, texts |-> texts, meant |-> {}]
Strings(S, n) == {Cat(t) : t \in UNION {[1 .. k -> S] : k \in 0 .. n}}

SessionsOf(family) ==
    CASE family = "programs" -> {Program(p, "\n") : p \in Programs}
      [] family = "comments" -> {Program(p, " # c\n") : p \in Readable(Text!Calls \cup Logic)}
      [] family = "jumps" -> {Program(p, "\n") : p \in NestedJumps}
      [] family = "blocks" -> {AsFile(t) : t \in Strings(Blocks6, Pieces + 1)}
      [] family = "statements" ->
            {AsFile(t) : t \in Strings(Blocks6 \cup Statements, Pieces - 1)}
            \cup {AsFile(s \o t \o u) : s \in Blocks6 \cup Statements, t \in Faults,
                                        u \in {"", "x=1\n", "}\n"}}
      [] family = "shell" ->
            {AsLines(<<s, t>>) : s, t \in Blocks6 \cup Statements \cup Faults}
            \cup {AsLines(<<s, t, u>>) : s, t, u \in {"loop{", "loop 1{break}", "func f(){",
                                                      "func f(){return 1}", "break", "return 1"}}
      [] OTHER -> {AsLines(<<t>>) : t \in Strings(Characters, Chars)}

MCInit == FrontInit(UNION {SessionsOf(family) : family \in Families})
MCSpec == MCInit /\ Running
=============================================================================
