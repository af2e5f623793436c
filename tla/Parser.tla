------------------------------- MODULE Parser -------------------------------
(***************************************************************************)
(* The parser (src/compiler/parser.cpp) on the tokens of the lexer.        *)
(* Expressions, types, argument lists and headers of statements, which     *)
(* only read tokens, are operators from a position to a result: where the  *)
(* parser stands, the tree, and whether it is a ParserError thrown there.  *)
(* parse(), which catches those errors and keeps in_func and in_loop in    *)
(* static variables, is a machine: one action per kind of statement, and   *)
(* the activations of parse() that wait for the body of a block on stack.  *)
(***************************************************************************)
EXTENDS Lexer
LOCAL INSTANCE SequencesExt

VARIABLES pos,       \* position in tokens, counted from 1
          stack,     \* open blocks, the whole program or line first
          in_func, in_loop,   \* static
          has_err,
          outcome    \* "parsing", "accepted", "refused", or "crash"

pvars == <<pos, stack, in_func, in_loop, has_err, outcome>>

Syntax == INSTANCE Source WITH Words <- 2   \* only its trees are used

Leaf(kind) == Syntax!Tree([kind |-> kind], <<>>)
Null == Leaf("Null")   \* nullptr

Tok(p) == IF p > Len(tokens) THEN tokens[Len(tokens)] ELSE tokens[p]
Kind(p) == Tok(p).type
is_eof(p) == p >= Len(tokens)

\* advance(): past comments; behind the end it throws what parse() does not
\* catch, and the position says so
Adv(p) == CHOOSE q \in p + 1 .. p + 1 + Len(tokens) :
              /\ Kind(q) # "COMMENT"
              /\ \A k \in p + 1 .. q - 1 : Kind(k) = "COMMENT"

\* F at v, with v computed once
With(v, F(_)) == CHOOSE r \in {F(w) : w \in {v}} : TRUE

Good(p, t) == [at |-> p, tree |-> t, ok |-> TRUE]
Fail(p) == [at |-> p, tree |-> Null, ok |-> FALSE]

-----------------------------------------------------------------------------
(* Expressions: six levels of binary operators over factors. *)

Operators == <<{"PIPE"}, {"AND"}, {"OR"},
               {"EQ", "LT", "GT", "LE", "GE", "NE"},
               {"OPER_PLUS", "OPER_MINUS"},
               {"OPER_MUL", "OPER_DIV", "OPER_MOD", "OPER_POW"}>>
FactorLevel == 7

\* mutant: the right operand of a sum is a sum
RightLevel_sum(k) == CASE k = 1 -> 2 [] k = 4 -> 1 [] k = 5 -> 5 [] OTHER -> k + 1

\* the level of the right operand: a whole expression behind a comparison
RightLevel(k) == CASE k = 1 -> 2 [] k = 4 -> 1 [] OTHER -> k + 1

\* the operator's name in the tree
OpName ==
    "OPER_PLUS" :> "ADD" @@ "OPER_MINUS" :> "SUB" @@ "OPER_MUL" :> "MUL"
    @@ "OPER_DIV" :> "DIV" @@ "OPER_MOD" :> "MOD" @@ "OPER_POW" :> "POW"
    @@ "EQ" :> "CMP_EQ" @@ "NE" :> "CMP_NE" @@ "LT" :> "CMP_LT"
    @@ "LE" :> "CMP_LE" @@ "GT" :> "CMP_GT" @@ "GE" :> "CMP_GE"
    @@ "AND" :> "AND" @@ "OR" :> "OR"

\* BinaryNode(l, r, op); the generator skips the first argument of a piped call
Join(op, l, r) ==
    IF op = "PIPE"
    THEN Syntax!Tree([kind |-> "Pipe", name |-> r.node.name, argc |-> r.node.argc],
                     <<l>> \o (IF r.kids = <<>> THEN <<>> ELSE Tail(r.kids)))
    ELSE Syntax!Bin(OpName[op], l, r)

\* mutant: the right operand may be missing
Missing_never(q) == FALSE
\* alert_eof
Missing(q) == is_eof(q)

RECURSIVE Parse(_, _), More(_, _), Factor(_), ArgList(_, _), Dotted(_, _),
          parse_type(_), TypeList(_), Params(_, _)

\* parse_args
parse_args(p) ==
    IF Kind(p) = "LPAREN" THEN ArgList(Adv(p), <<>>) ELSE Fail(Adv(p))

ArgList(p, args) ==
    LET Rest(e) == CASE ~e.ok -> e
                     [] e.ok /\ Kind(e.at) = "COMMA" ->
                           ArgList(Adv(e.at), Append(args, e.tree))
                     [] e.ok /\ Kind(e.at) = "RPAREN" ->
                           Good(Adv(e.at), Append(args, e.tree))
                     [] OTHER -> Fail(e.at)
    IN  IF Kind(p) = "RPAREN" THEN Good(Adv(p), args) ELSE With(Parse(1, p), Rest)

\* [: type], whose name and arguments are dropped
check_type(p) == IF Kind(p) = "COLON" THEN parse_type(Adv(p)) ELSE Good(p, Null)

parse_type(p) ==
    LET q == Adv(p)
    IN  CASE Kind(p) # "IDENTIFIER" -> Fail(p)
          [] Kind(p) = "IDENTIFIER" /\ Kind(q) = "LBRACK" -> TypeList(Adv(q))
          [] OTHER -> Good(q, Null)

TypeList(p) ==
    LET Rest(t) == CASE ~t.ok -> t
                     [] t.ok /\ Kind(t.at) = "RBRACK" -> Good(Adv(t.at), Null)
                     [] t.ok /\ Kind(t.at) = "COMMA" -> TypeList(Adv(t.at))
                     [] OTHER -> Fail(t.at)
    IN  With(parse_type(p), Rest)

Parse(k, p) == IF k = FactorLevel THEN With(p, Factor)
               ELSE With(Parse(k + 1, p), LAMBDA l : More(k, l))

\* while (match(op)): the chain of operators of level k with l on its left
More(k, l) ==
    LET op == Kind(l.at)
        q == Adv(l.at)
        Typed(t) == IF t.ok THEN Good(t.at, l.tree) ELSE t
        Joined(r) == CASE ~r.ok -> r
                       [] r.ok /\ k = 1 /\ r.tree.node.kind # "Call" -> Fail(r.at)
                       [] OTHER -> More(k, Good(r.at, Join(op, l.tree, r.tree)))
    IN  CASE ~l.ok -> l
          [] l.ok /\ op \notin Operators[k] ->
                IF k = 1 THEN With(check_type(l.at), Typed) ELSE l
          [] l.ok /\ op \in Operators[k] ->
                IF Missing(q) THEN Fail(q) ELSE With(Parse(RightLevel(k), q), Joined)

CallOf(name, a) == IF a.ok THEN Good(a.at, Syntax!Call(name, a.tree)) ELSE a

\* name.name...: the name built so far, up to position p
Dotted(name, p) ==
    LET Longer(q) == IF Kind(q) = "IDENTIFIER"
                     THEN Dotted(name \o "." \o Tok(q).text, Adv(q))
                     ELSE Dotted(name \o ".", q)
    IN  IF Kind(p) = "DOT" THEN With(Adv(p), Longer) ELSE Good(p, name)

\* a call steps back one token, which may be a comment and is then skipped
\* again: the parenthesis is taken for the name
Named(p) ==
    LET q == Adv(p)
        back == IF tokens[q - 1].type = "COMMENT" THEN q ELSE q - 1
        CallTo(name, args_at) == With(parse_args(args_at), LAMBDA a : CallOf(name, a))
        Reach(full) == IF Kind(full.at) = "LPAREN" THEN CallTo(full.tree, full.at)
                       ELSE Good(full.at, Syntax!Var(full.tree))
    IN  IF Kind(q) = "LPAREN" THEN CallTo(Tok(back).text, Adv(back))
        ELSE With(Dotted(Tok(p).text, q), Reach)

\* mutant: steps on before it reports the parenthesis that is missing
Grouped_steps(p) ==
    LET Closed(e) == CASE ~e.ok -> e
                       [] e.ok /\ Kind(e.at) = "RPAREN" -> Good(Adv(e.at), e.tree)
                       [] OTHER -> Fail(Adv(e.at))
    IN  With(Parse(1, Adv(p)), Closed)

Grouped(p) ==
    LET Closed(e) == CASE ~e.ok -> e
                       [] e.ok /\ Kind(e.at) = "RPAREN" -> Good(Adv(e.at), e.tree)
                       [] OTHER -> Fail(e.at)
    IN  With(Parse(1, Adv(p)), Closed)

\* the sign of everything that follows
Negated(p) == With(Parse(1, Adv(p)),
                   LAMBDA e : IF e.ok THEN Good(e.at, Syntax!Neg(e.tree)) ELSE e)

Vmcall(p) ==
    LET q == Adv(p)
        Full(a) == IF a.ok THEN Good(a.at, Syntax!VMC(Tok(q).text, a.tree)) ELSE a
    IN  IF Kind(q) # "NUM_LITERAL" THEN Fail(Adv(q)) ELSE With(parse_args(Adv(q)), Full)

\* at the end of the text a factor is null
Factor(p) ==
    CASE Kind(p) = "NUM_LITERAL" -> Good(Adv(p), Syntax!Num(Tok(p).text))
      [] Kind(p) = "LPAREN" -> Grouped(p)
      [] Kind(p) = "OPER_MINUS" -> Negated(p)
      [] Kind(p) = "IDENTIFIER" -> Named(p)
      [] Kind(p) \in {"TRUE_LITERAL", "FALSE_LITERAL"} ->
            Good(Adv(p), Syntax!Bool(Kind(p) = "TRUE_LITERAL"))
      [] Kind(p) = "END_OF_FILE" -> Good(Adv(p), Null)
      [] Kind(p) = "STRING_LITERAL" -> Good(Adv(p), Syntax!Str(Tok(p).text))
      [] Kind(p) = "KW_VMC" -> Vmcall(p)
      [] OTHER -> Fail(p)

-----------------------------------------------------------------------------
(* Headers. *)

\* the parameters of a function, to behind the parenthesis
Params(p, names) ==
    LET Annotated(t) == IF t.ok THEN Params(t.at, Append(names, Tok(p).text)) ELSE t
    IN  CASE Kind(p) = "IDENTIFIER" -> With(check_type(Adv(p)), Annotated)
          [] Kind(p) = "RPAREN" -> Good(Adv(p), names)
          [] Kind(p) = "COMMA" -> Params(Adv(p), names)
          [] OTHER -> Fail(Adv(p))

\* func name(params)[: type], from behind the keyword
FuncHead(p) ==
    LET q == Adv(p)
        Typed(ps) == IF ps.ok THEN With(check_type(ps.at), LAMBDA t :
                                        IF t.ok THEN Good(t.at, ps.tree) ELSE t)
                     ELSE ps
    IN  CASE Kind(p) # "IDENTIFIER" -> Fail(Adv(p))
          [] Kind(p) = "IDENTIFIER" /\ Kind(q) # "LPAREN" -> Fail(Adv(q))
          [] OTHER -> With(Params(Adv(q), <<>>), Typed)

\* the condition of an if, and the brace behind it
IfHead(p) ==
    LET Brace(c) == CASE ~c.ok -> c
                      [] c.ok /\ Kind(c.at) # "RPAREN" -> Fail(c.at)
                      [] OTHER -> IF Kind(Adv(c.at)) = "LBRACE" THEN Good(Adv(c.at), c.tree)
                                  ELSE Fail(Adv(c.at))
    IN  IF Kind(p) = "LPAREN" THEN With(Parse(1, Adv(p)), Brace) ELSE Fail(p)

\* module name[: library] {
ModuleHead(p) ==
    LET q == IF Kind(Adv(p)) = "COLON" THEN Adv(Adv(Adv(p))) ELSE Adv(p)
    IN  CASE Kind(p) # "IDENTIFIER" -> Fail(p)
          [] Kind(p) = "IDENTIFIER" /\ Kind(q) # "LBRACE" -> Fail(q)
          [] OTHER -> Good(q, Tok(p).text)

-----------------------------------------------------------------------------
(* The machine.  A frame: who waits (the program, the shell's line, a      *)
(* function, a loop, one branch of an if, a module), the node it will      *)
(* make with the children it has so far, the statements of the open block, *)
(* and the children of the ifs whose else-if it is.                        *)

Frame(fn, node, kids) == [fn |-> fn, node |-> node, kids |-> kids,
                          body |-> <<>>, outer |-> <<>>]
Top == Last(stack)
Below == Front(stack)
Blocks == {"func", "loop", "then", "else"}

\* where the next statement begins: only the first token can be a comment
Here == IF Kind(pos) = "COMMENT" THEN Adv(pos) ELSE pos

\* the loop around parse() goes on
Ready ==
    /\ outcome = "parsing"
    /\ Top.fn # "line" => Kind(pos) # "RBRACE"
    /\ Top.fn \in Blocks \cup {"program"} => ~is_eof(pos)
At(kinds) == Ready /\ Kind(Here) \in kinds

\* parse() returns tree t, or null, to the last frame of st.  A module
\* reads the kind of null, and throws at what is not a declaration.
Members == {"Assign", "Func", "Declare", "Extern", "Module"}
RECURSIVE Back(_, _, _)
Back(st, t, err) ==
    LET f == Last(st)
        kept == IF t = Null THEN st
                ELSE Append(Front(st), [f EXCEPT !.body = Append(@, t)])
        To(o) == [stack |-> kept, err |-> err, outcome |-> o]
    IN  CASE f.fn = "line" -> To(IF t = Null \/ has_err THEN "refused" ELSE "accepted")
          [] f.fn = "module" /\ t = Null -> To("crash")
          [] f.fn = "module" /\ t # Null /\ t.node.kind \notin Members ->
                Back(Front(st), Null, TRUE)
          [] OTHER -> To("parsing")

\* print_error indents a caret by the column of the token the parser is at;
\* a string of that many spaces cannot be made of a column below zero, and
\* what is thrown then leaves the handler that calls print_error
Printable(p) == Tok(p).col >= 0

\* parse() returns, at p; err says whether it caught an error
Returns(p, st, t, err) ==
    LET b == Back(st, t, err)
    IN  /\ pos' = p /\ stack' = b.stack /\ has_err' = (has_err \/ b.err)
        /\ outcome' = IF p > Len(tokens) + 1 \/ (b.err /\ ~Printable(p))
                      THEN "crash" ELSE b.outcome

Gives(r, t) == Returns(r.at, stack, IF r.ok THEN t ELSE Null, ~r.ok)

\* behind the brace at p
Opens(p, st, frame) == /\ pos' = Adv(p) /\ stack' = Append(st, frame)
                       /\ UNCHANGED <<has_err, outcome>>

Flags == <<in_func, in_loop>>

ParseLet ==
    /\ At({"KW_LET"})
    /\ LET name == Adv(Here)
           sign == Adv(name)
       IN  \E e \in {IF Kind(name) # "IDENTIFIER" THEN Fail(name)
                      ELSE IF Kind(sign) # "ASSIGN" THEN Fail(sign)
                      ELSE Parse(1, Adv(sign))} :
              Gives(e, Syntax!Let(Tok(name).text, e.tree))
    /\ UNCHANGED Flags

\* the token behind the name is looked at even if it is a comment
Assigns == Kind(Here) = "IDENTIFIER" /\ Kind(Here + 1) = "ASSIGN"

Keyword == {"KW_LET", "KW_FUNC", "KW_RETURN", "KW_LOOP", "KW_BREAK",
            "KW_CONTINUE", "KW_IF", "KW_MODULE", "KW_USE"}
ParseExpr ==
    /\ Ready /\ Kind(Here) \notin Keyword
    /\ \E e \in {Parse(1, IF Assigns THEN Adv(Adv(Here)) ELSE Here)} :
          Gives(e, IF Assigns THEN Syntax!Assign(Tok(Here).text, e.tree) ELSE e.tree)
    /\ UNCHANGED Flags

\* A return outside of a function is refused where it stands.  Its value
\* begins on its own line, and is null at the end of the text.
ParseReturn ==
    /\ At({"KW_RETURN"})
    /\ \/ /\ ~in_func
          /\ Returns(Here, stack, Null, TRUE)
       \/ /\ in_func
          /\ LET q == Adv(Here)
             IN  \E e \in {IF Tok(q).line > Tok(Here).line THEN Good(q, Null)
                            ELSE Parse(1, q)} :
                    Gives(e, IF e.tree = Null THEN Leaf("ReturnVoid")
                             ELSE Syntax!Return(e.tree))
    /\ UNCHANGED Flags

\* mutant: a break is refused where it stands
ParseJump_stays ==
    /\ At({"KW_BREAK", "KW_CONTINUE"})
    /\ LET jump == IF Kind(Here) = "KW_BREAK" THEN Syntax!Break ELSE Syntax!Continue
       IN  Returns(IF in_loop THEN Adv(Here) ELSE Here, stack,
                   IF in_loop THEN jump ELSE Null, ~in_loop)
    /\ UNCHANGED Flags

ParseJump ==
    /\ At({"KW_BREAK", "KW_CONTINUE"})
    /\ LET jump == IF Kind(Here) = "KW_BREAK" THEN Syntax!Break ELSE Syntax!Continue
       IN  Returns(Adv(Here), stack, IF in_loop THEN jump ELSE Null, ~in_loop)
    /\ UNCHANGED Flags

\* a string that is read and dropped
ParseUse ==
    /\ At({"KW_USE"})
    /\ LET q == Adv(Here)
       IN  Gives(IF Kind(q) = "STRING_LITERAL" THEN Good(Adv(q), Null) ELSE Fail(q), Null)
    /\ UNCHANGED Flags

\* in_func is set before the header is read, and stays set after an error
ParseFunc ==
    /\ At({"KW_FUNC"})
    /\ \E h \in {FuncHead(Adv(Here))} :
       LET node == [kind |-> "Func", name |-> Tok(Adv(Here)).text, params |-> h.tree]
           string == Adv(h.at)
           t == IF Kind(string) = "STRING_LITERAL" THEN check_type(Adv(string))
                ELSE Fail(string)
       IN  \/ /\ ~h.ok
              /\ Returns(h.at, stack, Null, TRUE)
              /\ in_func' = TRUE
           \/ /\ h.ok /\ Kind(h.at) = "LBRACE"
              /\ Opens(h.at, stack, Frame("func", node, <<>>))
              /\ in_func' = TRUE
           \/ /\ h.ok /\ Kind(h.at) = "ASSIGN"
              /\ Gives(t, Leaf("Extern"))
              /\ in_func' = ~t.ok
           \/ /\ h.ok /\ Kind(h.at) \notin {"LBRACE", "ASSIGN"}
              /\ Returns(h.at, stack, Leaf("Declare"), FALSE)
              /\ in_func' = FALSE
    /\ UNCHANGED in_loop

\* in_loop is set behind the counter, before the brace is seen
ParseLoop ==
    /\ At({"KW_LOOP"})
    /\ LET q == Adv(Here)
           counted == Kind(q) # "LBRACE"
           Loop(e) == Frame("loop", [kind |-> "Loop", counted |-> counted],
                            IF counted THEN <<e.tree>> ELSE <<>>)
       IN  \E e \in {IF counted THEN Parse(1, q) ELSE Good(q, Null)} :
           \/ /\ ~e.ok
              /\ Returns(e.at, stack, Null, TRUE)
              /\ UNCHANGED in_loop
           \/ /\ e.ok /\ Kind(e.at) # "LBRACE"
              /\ Returns(e.at, stack, Null, TRUE)
              /\ in_loop' = TRUE
           \/ /\ e.ok /\ Kind(e.at) = "LBRACE"
              /\ Opens(e.at, stack, Loop(e))
              /\ in_loop' = TRUE
    /\ UNCHANGED in_func

IfNode(has_else) == [kind |-> "If", has_else |-> has_else]

ParseIf ==
    /\ At({"KW_IF"})
    /\ \E h \in {IfHead(Adv(Here))} :
           \/ /\ h.ok
              /\ Opens(h.at, stack, Frame("then", IfNode(FALSE), <<h.tree>>))
           \/ /\ ~h.ok
              /\ Returns(h.at, stack, Null, TRUE)
    /\ UNCHANGED Flags

ParseModule ==
    /\ At({"KW_MODULE"})
    /\ \E h \in {ModuleHead(Adv(Here))} :
           \/ /\ h.ok
              /\ Opens(h.at, stack, Frame("module", [kind |-> "Module", name |-> h.tree], <<>>))
           \/ /\ ~h.ok
              /\ Returns(h.at, stack, Null, TRUE)
    /\ UNCHANGED Flags

-----------------------------------------------------------------------------
(* Ends of blocks. *)

Closes(fns) == outcome = "parsing" /\ Top.fn \in fns /\ Kind(pos) = "RBRACE"

\* the frame's node with its last block
Made == Syntax!Tree(Top.node, Top.kids \o Syntax!Body(Top.body))

\* the if, and those whose else-if it is
Whole == FoldRight(LAMBDA k, t : Syntax!Tree(IfNode(TRUE), k \o Syntax!Body(<<t>>)),
                   Top.outer, Made)

\* mutant: in_loop is not reset
CloseBody_set ==
    /\ Closes({"func", "loop", "module"})
    /\ Returns(Adv(pos), Below, Made, FALSE)
    /\ in_func' = (in_func /\ Top.fn # "func")
    /\ UNCHANGED in_loop

\* a loop inside of a loop, or a function inside of a function, resets the
\* flag of the one around it
CloseBody ==
    /\ Closes({"func", "loop", "module"})
    /\ Returns(Adv(pos), Below, Made, FALSE)
    /\ in_func' = (in_func /\ Top.fn # "func")
    /\ in_loop' = (in_loop /\ Top.fn # "loop")

\* else { }, else if, or the end of the if
CloseThen ==
    /\ Closes({"then"})
    /\ LET p == Adv(pos)
           q == Adv(p)
           kids == Made.kids
       IN  \/ /\ Kind(p) # "KW_ELSE"
              /\ Returns(p, Below, Whole, FALSE)
           \/ /\ Kind(p) = "KW_ELSE" /\ Kind(q) = "KW_IF"
              /\ \E h \in {IfHead(Adv(q))} :
                    \/ /\ h.ok
                       /\ Opens(h.at, Below, [Frame("then", IfNode(FALSE), <<h.tree>>)
                                              EXCEPT !.outer = Append(Top.outer, kids)])
                    \/ /\ ~h.ok
                       /\ Returns(h.at, Below, Null, TRUE)
           \/ /\ Kind(p) = "KW_ELSE" /\ Kind(q) = "LBRACE"
              /\ Opens(q, Below, [Frame("else", IfNode(TRUE), kids) EXCEPT
                                     !.outer = Top.outer])
           \/ /\ Kind(p) = "KW_ELSE" /\ Kind(q) \notin {"KW_IF", "LBRACE"}
              /\ Returns(q, Below, Null, TRUE)
    /\ UNCHANGED Flags

CloseElse ==
    /\ Closes({"else"})
    /\ Returns(Adv(pos), Below, Whole, FALSE)
    /\ UNCHANGED Flags

\* the text ends in a block: the statement it belongs to fails, with its
\* flag set
Unclosed ==
    /\ outcome = "parsing" /\ Top.fn \in Blocks
    /\ Kind(pos) # "RBRACE" /\ is_eof(pos)
    /\ Returns(pos, Below, Null, TRUE)
    /\ UNCHANGED Flags

\* parse_program: at the end of the text, or at a brace nothing opened
EndProgram ==
    /\ outcome = "parsing" /\ Top.fn = "program"
    /\ Kind(pos) = "RBRACE" \/ is_eof(pos)
    /\ outcome' = IF has_err THEN "refused" ELSE "accepted"
    /\ UNCHANGED <<pos, stack, has_err, in_func, in_loop>>

PaInit == /\ pos = 1 /\ stack = <<>> /\ in_func = FALSE /\ in_loop = FALSE
          /\ has_err = FALSE /\ outcome = "ready"

\* a new Parser on the tokens, for a program or for one statement; in_func
\* and in_loop are those of the parsers before
NewParser(fn) ==
    /\ pos' = 1 /\ has_err' = FALSE /\ outcome' = "parsing"
    /\ stack' = <<Frame(fn, [kind |-> "Program"], <<>>)>>
    /\ UNCHANGED Flags

Read == \/ ParseLet \/ ParseExpr \/ ParseReturn \/ ParseJump \/ ParseUse
        \/ ParseFunc \/ ParseLoop \/ ParseIf \/ ParseModule
        \/ CloseBody \/ CloseThen \/ CloseElse \/ Unclosed \/ EndProgram

\* the statements of an accepted text
Parsed == stack[1].body

-----------------------------------------------------------------------------
\* The parser is at a string that has characters and runs over a newline or
\* closes in front of one.
AtLineEnd ==
    /\ Kind(pos) = "STRING_LITERAL" /\ Tok(pos).text > 0
    /\ \E open \in 1 .. Len(content) :
          LET close == Closing(open + 1, 0)
          IN  /\ Char(open) = "\"" /\ close[1] # 0 /\ close[2] = Tok(pos).text
              /\ \E p \in open .. close[1] + 1 : Char(p) = "\n"

\* There are three ways for a text to end the process, apart from nesting
\* that is too deep for the C++ stack.  A caret of the lexer is in front of
\* its line (under an unclosed string over two lines, or half an operator
\* before a newline).  The body of a module, where parse_module does not ask
\* for the end of the text as parse_program and parse_block do, is read
\* behind the end, or a member that is null is looked at.  An error is
\* printed at a string at the end of its line or over several lines, whose
\* column is below zero.
CrashesKnown ==
    outcome = "crash" \/ (outcome = "parsing" /\ pos > Len(tokens) + 1) =>
        \/ \E c \in lex_err : c < 1
        \/ \E i \in DOMAIN stack : stack[i].fn = "module"
        \/ AtLineEnd
=============================================================================
