-------------------------------- MODULE Repl --------------------------------
(***************************************************************************)
(* Session on given sessions.  A line is a syntax tree, or a line that the *)
(* parser refuses; src are the nodes of the current line that are still to *)
(* be compiled.                                                            *)
(***************************************************************************)
EXTENDS Session

CONSTANT Sessions   \* the sessions, sequences of lines

VARIABLES session, src,
          before   \* what was there when the last line was read: the registers
                   \* in use, expr_release, the modules, and whether a line
                   \* before it had an error

vars == <<svars, session, src, before>>

Language == INSTANCE Source WITH Words <- BYTE * HIGH

\* a line on which the parser reports an error
Broken(in_func, in_loop) ==
    Language!Tree([kind |-> "Broken", in_func |-> in_func, in_loop |-> in_loop], <<>>)

LastRet == Language!Tree([kind |-> "LastRet"], <<>>)
Accepted(line) == line.node.kind \notin {"Broken", "LastRet"}

\* every node of a line is one of the nodes that Session knows
NodesOf(sessions) ==
    Language!NodesIn({line \in UNION {Language!ToSet(s) : s \in sessions} :
                          Accepted(line)})
ASSUME SessionsAssumption == NodesOf(Sessions) \subseteq Nodes

Line == session[read + 1]
Ended == read = Len(session) /\ phase = "prompt"

State(erred) == [regs |-> bitset, release |-> expr_release, loaded |-> modules.names,
                 erred |-> erred]

RInit == SInit /\ session \in Sessions /\ src = <<>> /\ before = State(FALSE)

ReadNext ==
    /\ before' = State(before.erred \/ node_has_error)
    /\ \/ /\ Accepted(Line)
          /\ ReadLine
          /\ src' = Language!Flatten(Line)
       \/ /\ Line.node.kind = "Broken"
          /\ RefuseLine(Line.node.in_func, Line.node.in_loop)
          /\ UNCHANGED src
       \/ /\ Line.node.kind = "LastRet"
          /\ AskLine
          /\ UNCHANGED src

\* the generator visits the next node of the line
CompileNext ==
    /\ src # <<>>
    /\ CompileNode(Head(src).node)
    /\ src' = Language!AfterVisit(src, mode' = "ret")
    /\ UNCHANGED before

\* the process is gone, or the input ended
Over == Ended \/ Gone

RNext == \/ /\ read < Len(session) /\ ReadNext
            /\ UNCHANGED session
         \/ CompileNext /\ UNCHANGED session
         \/ /\ CompileResume \/ StartLine \/ Execute \/ ShowLine
            /\ UNCHANGED <<session, src, before>>
         \/ Over /\ UNCHANGED vars

RSpec == RInit /\ [][RNext]_vars

-----------------------------------------------------------------------------
Text(k) == SelectSeq(SubSeq(session, 1, k), Accepted)   \* up to line k
\* a module that cannot be loaded
Missing(line) ==
    /\ line.node.kind = "Module"
    /\ \/ line.node.lib \notin DOMAIN Language!Libraries
       \/ \E i \in DOMAIN line.node.decls :
             line.node.decls[i].label \notin Language!Libraries[line.node.lib]

\* every string of the session is a line, so the rest is integers
OfIntegers ==
    \A i \in DOMAIN session :
        session[i].node.kind # "Str"
            => \A n \in Language!NodesIn({session[i]}) : n.kind # "Str"

\* a call stands between the last module before line k and that line: loading
\* a library returns to register 0 as well
CallBehindModule(k) ==
    \A j \in 1 .. k - 1 :
        session[j].node.kind = "Module"
            => \E i \in j + 1 .. k - 1 :
                  \E n \in Language!NodesIn({session[i]}) : n.kind = "Call"

\* No line ends the process but a module whose library or functions do not
\* exist, and the line by line compilation computes what the whole text
\* means: what the lines print, for every line that is an expression the
\* value shown, and for :lastret what the last call returned; foreign
\* functions take part in it as long as they are found.  (A session of
\* integers without errors.)
ShownIsMeant ==
    Over /\ errs = 0 /\ ~before.erred /\ ~node_has_error /\ OfIntegers =>
     \/ ~Ended /\ Missing(session[read])
     \/ /\ Ended
        /\ LET printed == Language!Prints(Text(read))
           IN  out = [i \in 1 .. Len(printed) |-> Machine!Token("int", printed[i])]
        /\ \A i \in 1 .. Len(shown) :
              LET line == session[shown[i].line]
              IN  /\ line.node.kind \in {"Num", "Var", "Neg", "Bin", "Call"} =>
                    shown[i].value = Language!Run(Text(shown[i].line)).val
                  /\ line.node.kind = "LastRet" /\ CallBehindModule(shown[i].line) =>
                    shown[i].value = Language!Run(Text(shown[i].line)).last

\* values that are computed into a register of their own
Own(t) == t.node.kind \in {"Num", "Bool", "Str", "Var", "Neg", "Bin"}
\* a text with a number, a variable or an operator sets expr_release for good
Releases(t) ==
    \E n \in Language!NodesIn({t}) : n.kind \in {"Num", "Bool", "Var", "Neg", "Bin", "Pipe"}

RECURSIVE Kept(_, _)
\* How many registers a text keeps that finds expr_release set or not: one
\* for the library of a new module, one for a pipe, one for each value that
\* is a statement in a body, and one for each string that is an operand or an
\* argument as long as expr_release was never set (at an error nodes are
\* skipped, and with them those that set it).
Kept(t, release) ==
    LET n == t.node
        inBody(i) == n.kind \in {"Func", "If", "Loop"}
                     /\ ~(i = 1 /\ (n.kind = "If" \/ (n.kind = "Loop" /\ n.counted)))
        released(i) == release \/ (~node_has_error /\ \E j \in 1 .. i - 1 : Releases(t.kids[j]))
        stays(i) == \/ inBody(i) /\ Own(t.kids[i])
                    \/ /\ t.kids[i].node.kind = "Str" /\ ~released(i)
                       /\ n.kind \in {"Neg", "Bin", "Pipe", "Call", "VMC", "Return"}
        here == \/ n.kind = "Pipe"
                \/ n.kind = "Module" /\ n.dyn /\ n.name \notin before.loaded
        count(b) == IF b THEN 1 ELSE 0
    IN  Language!FoldLeft(LAMBDA sum, i : sum + count(stays(i)) + Kept(t.kids[i], released(i)),
                          count(here), [i \in DOMAIN t.kids |-> i])

\* One allocator serves a session and has 255 registers: no line gives back
\* a register of an earlier one, and none keeps more registers than its text
\* shows (Kept).  A line without an error keeps exactly these.  One with an
\* error keeps at most these and the register of its value, which the loop
\* leaves behind with the rest of the line; a line that the parser refuses
\* keeps none.
RegistersReturned ==
    phase = "prompt" /\ read > 0 =>
        LET line == session[read]
            kept == Cardinality(bitset \ before.regs)
        IN  /\ before.regs \subseteq bitset
            /\ ~Accepted(line) => kept = 0
            /\ Accepted(line) /\ ~node_has_error => kept = Kept(line, before.release)
            /\ Accepted(line) /\ node_has_error => kept <= Kept(line, before.release) + 1
=============================================================================
