------------------------------ MODULE Session ------------------------------
(***************************************************************************)
(* The interactive loop run_repl (src/tools/lm/common/repl.cpp) on any     *)
(* lines.  One generator and one machine live through the session and      *)
(* share the program: every line is compiled behind the code of the lines  *)
(* before it, closed with a HALT, run from where the machine stopped, and  *)
(* the HALT is taken off again.  A line is one statement, whose nodes come *)
(* as in Generator, or a line that the parser refuses; Repl takes the      *)
(* lines from given sessions.                                              *)
(***************************************************************************)
EXTENDS Host

VARIABLES read,    \* how many lines were read
          phase,   \* what run_repl is at: "prompt", "gen" or "run"
          shown    \* what was printed as the value of a line, with its number

svars == <<hvars, read, phase, shown>>

SInit == HostInit /\ read = 0 /\ phase = "prompt" /\ shown = <<>>

\* lexer and parser accept the line; errors of earlier lines are forgotten
ReadLine ==
    /\ phase = "prompt"
    /\ read' = read + 1
    /\ phase' = "gen" /\ mode' = "stmt"
    /\ node_has_error' = FALSE
    /\ UNCHANGED <<todo, ret, em, Regs, Names, Points, Consts, shown, mvars>>

\* a line on which the parser reports an error; when the input ends inside
\* the body of a function or a loop, its flag stays set
RefuseLine(in_func, in_loop) ==
    /\ phase = "prompt"
    /\ read' = read + 1
    /\ lex' = [in_func |-> lex.in_func \/ in_func, in_loop |-> lex.in_loop \/ in_loop]
    /\ UNCHANGED <<mode, todo, ret, em, Regs, cur, funcs, Points, Consts,
                   node_has_error, phase, shown, mvars>>

\* :lastret prints register 0, and nothing is compiled
AskLine ==
    /\ phase = "prompt"
    /\ read' = read + 1
    /\ shown' = Append(shown, [line |-> read', value |-> Machine!i64(regs[0])])
    /\ UNCHANGED <<gvars, phase, mvars>>

\* sub_gen of the whole line returned: ret is its register op
LineDone == phase = "gen" /\ mode = "ret" /\ Len(todo) = 1

CompileNode(n) ==
    /\ phase = "gen"
    /\ Top.fn = "program" => n.kind # "End"   \* a line is not a program
    /\ Visit(n)
    /\ UNCHANGED <<read, phase, shown, mvars>>

CompileResume == /\ phase = "gen" /\ ~LineDone
                 /\ Resume
                 /\ UNCHANGED <<read, phase, shown, mvars>>

\* gen() appends HALT; on an error the loop continues with the next line
\* and leaves it there
StartLine ==
    /\ LineDone
    /\ em' = [em EXCEPT !.ops = Append(@, Op("HALT", <<0>>))]
    /\ phase' = IF node_has_error THEN "prompt" ELSE "run"
    /\ status' = IF node_has_error THEN status ELSE "running"
    /\ UNCHANGED <<mode, todo, ret, Regs, Names, Points, Consts, node_has_error,
                   read, shown>>
    /\ UNCHANGED <<build, pc, regs, ret_addr_stack, frames, out, libs, errs>>

Execute == /\ phase = "run"
           /\ UNCHANGED <<gvars, read, phase, shown>>
           /\ Machine!ForeignRun

\* run() returned: the register is freed and shown, the HALT comes off
HaltKept(e) == e    \* mutant: the HALT stays
HaltOff(e) == IF Last(e).op = "HALT"
              THEN [e EXCEPT !.ops = SubSeq(@, 1, Len(@) - 1)] ELSE e

\* look_register
ShowsZero(op) == Machine!i64(regs[0])    \* mutant: always register 0
Shows(op) == Machine!i64(regs[op])

\* mutant: the register of the line is not freed
ShowLine_held ==
    /\ phase = "run" /\ status = "halted"
    /\ phase' = "prompt"
    /\ shown' = IF ret = NoReg THEN shown
                ELSE Append(shown, [line |-> read, value |-> Shows(ret)])
    /\ em' = HaltOff(em)
    /\ UNCHANGED <<mode, todo, ret, Regs, Names, Points, Consts,
                   node_has_error, read, mvars>>

ShowLine ==
    /\ phase = "run" /\ status = "halted"
    /\ phase' = "prompt"
    /\ bitset' = Freed(bitset, ret)
    /\ shown' = IF ret = NoReg THEN shown
                ELSE Append(shown, [line |-> read, value |-> Shows(ret)])
    /\ em' = HaltOff(em)
    /\ UNCHANGED <<mode, todo, ret, expr_release, Names, Points, Consts,
                   node_has_error, read, mvars>>

\* the process is gone
Gone == \/ mode = "crash"
        \/ phase = "run" /\ status \notin {"running", "halted", "foreign"}

SNext == \/ ReadLine \/ AskLine
         \/ \E in_func, in_loop \in BOOLEAN : RefuseLine(in_func, in_loop)
         \/ \E n \in Nodes : CompileNode(n)
         \/ CompileResume \/ StartLine \/ Execute \/ ShowLine
         \/ Gone /\ UNCHANGED svars

SessionSpec == SInit /\ [][SNext]_svars

-----------------------------------------------------------------------------
\* README: "enter code in the REPL and it is executed".  When run() returns
\* for a line, it stopped at the HALT of that line: the line was executed,
\* not the HALT of a line before it.
LineExecuted ==
    phase = "run" /\ status = "halted" => pc = Emitted(em) - 1

\* no line so far had an error that the generator reports
NoErrors == phase = "prompt" => ~node_has_error

\* As long as no line has an error, every line is executed.  After an error
\* none is: the machine stands at the HALT of that line (run repl_error).
ExecutedWithoutErrors == []NoErrors => []LineExecuted

\* Code that the machine is past is never changed by compiling later lines:
\* functions declared on earlier lines are called again.  Only the HALT of a
\* line goes away.
PastCodeKept ==
    [][\A k \in 1 .. pc : em'.ops[k] = em.ops[k]]_svars

\* A declared foreign function stays callable as long as the pool of the
\* session stays where it is (repl.cpp hands the machine a new address for
\* every line; the map of the library keeps the old one).
NamesFound == Machine!FoundUnlessMoved
=============================================================================
