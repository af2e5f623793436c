------------------------------ MODULE FrontEnd ------------------------------
(***************************************************************************)
(* The front end at work: one text that file_run (src/tools/lm/common/     *)
(* file_run.cpp) reads as a program, or the lines that run_repl            *)
(* (src/tools/lm/common/repl.cpp) reads one after the other.  Each text    *)
(* goes through tokenize and a new Parser; the shell drops the lines that  *)
(* either of them refuses and goes on.                                     *)
(***************************************************************************)
EXTENDS Parser

VARIABLES session,   \* [file, texts, meant]: texts to read; meant holds the
                     \* statements a program was spelled from, if known
          turn,      \* texts read
          clean      \* no text before this one was refused

fvars == <<lvars, pvars, session, turn, clean>>

FrontInit(Sessions) ==
    /\ session \in Sessions /\ turn = 0 /\ clean = TRUE
    /\ LexInit /\ PaInit

ReadText ==
    /\ outcome \in {"ready", "accepted", "refused"}
    /\ turn < Len(session.texts)
    /\ Tokenize(session.texts[turn + 1])
    /\ turn' = turn + 1
    /\ clean' = (clean /\ outcome # "refused")
    /\ outcome' = "lexing"
    /\ UNCHANGED <<pos, stack, in_func, in_loop, has_err, session>>

Lex == /\ outcome = "lexing" /\ Scan
       /\ UNCHANGED <<pvars, session, turn, clean>>

\* Nothing of a text with an unknown token is parsed.  The row of carets is
\* as long as its last column and one more, which no string is when that
\* column is below -1; a caret at a column below 1 is written outside of it.
Unlexed ==
    /\ outcome = "lexing" /\ lexed /\ lex_err # {}
    /\ \/ /\ \A c \in lex_err : c >= -1
          /\ outcome' = "refused"
       \/ /\ \E c \in lex_err : c < 1
          /\ outcome' = "crash"
    /\ UNCHANGED <<lvars, pos, stack, in_func, in_loop, has_err, session, turn, clean>>

BeginParse ==
    /\ outcome = "lexing" /\ lexed /\ lex_err = {}
    /\ NewParser(IF session.file THEN "program" ELSE "line")
    /\ UNCHANGED <<lvars, session, turn, clean>>

ParseStep == Read /\ UNCHANGED <<lvars, session, turn, clean>>

FrontNext == ReadText \/ Lex \/ Unlexed \/ BeginParse \/ ParseStep

\* one thread that nothing blocks
Running == [][FrontNext]_fvars /\ WF_fvars(FrontNext)

-----------------------------------------------------------------------------
Ended == outcome \in {"accepted", "refused", "crash"}

\* A program spelled from a tree is accepted, and what is read is that tree:
\* precedence, grouping, the returns that take no value, the branches and
\* the bodies survive tokenize and parse_program.
ReadsBack ==
    Ended /\ session.meant # {} => outcome = "accepted" /\ Parsed \in session.meant

RECURSIVE WellNested(_, _, _)
\* returns stand in functions and jumps in loops; a function does not hide
\* the loop around it
WellNested(t, func, loop) ==
    LET n == t.node.kind
    IN  CASE n \in {"Return", "ReturnVoid"} -> func
          [] n \in {"Break", "Continue"} -> loop
          [] OTHER -> \A i \in DOMAIN t.kids :
                         WellNested(t.kids[i], func \/ n = "Func", loop \/ n = "Loop")

\* The flags in_func and in_loop are static, set and reset along the way
\* through blocks, headers and their errors.  As long as nothing was
\* refused, the statements they let through stand where they may.
AcceptedWellNested ==
    outcome = "accepted" /\ clean =>
        \A i \in DOMAIN Parsed : WellNested(Parsed[i], FALSE, FALSE)

RECURSIVE HasNull(_)
HasNull(t) == t = Null \/ \E i \in DOMAIN t.kids : HasNull(t.kids[i])

\* The generator dereferences every operand.  A tree with a missing operand
\* is accepted only when the text ends at an assignment or at a sign.
AcceptedComplete ==
    outcome = "accepted" /\ (\E i \in DOMAIN Parsed : HasNull(Parsed[i])) =>
        /\ Len(tokens) > 1
        /\ \E i \in 1 .. Len(tokens) - 1 :
              /\ tokens[i].type \in {"ASSIGN", "OPER_MINUS"}
              /\ \A k \in i + 1 .. Len(tokens) - 1 : tokens[k].type = "COMMENT"

\* tokens that parse() refuses without a step; it is called again in vain
Inert == ({OneChar[c] : c \in DOMAIN OneChar} \cup {TwoChar[c] : c \in DOMAIN TwoChar}
          \cup {"KW_ELSE"}) \ {"LPAREN", "OPER_MINUS"}
Stuck == Ready /\ (Kind(Here) \in Inert \/ (Kind(Here) = "KW_RETURN" /\ ~in_func))

\* Reading a text ends, or the loop around parse() repeats at a token that
\* no statement begins with, or at a return outside of a function: at no
\* other token, and in no other way.
EndsOrSticks == outcome = "parsing" ~> Ended \/ Stuck

\* A break or continue is refused "but not in loop" (parser.cpp:226, :232):
\* a program spelled with its jumps in loops is not refused.
JumpsRefusedOutside == Ended /\ session.meant # {} => outcome # "refused"
=============================================================================
