------------------------------ MODULE FileRun ------------------------------
(***************************************************************************)
(* file_run (src/tools/lm/common/file_run.cpp) on any source program: it   *)
(* is compiled by Generator and, when no error was reported, executed.     *)
(* The source is any sequence of nodes, see Generator; CompileRun takes    *)
(* the nodes from a given text.                                            *)
(***************************************************************************)
EXTENDS Host

GenNode(n) == Visit(n) /\ UNCHANGED mvars

GenResume == Resume /\ UNCHANGED mvars

\* main's second HALT, then set_program
Launched == Len(em.ops) > 1 /\ em.ops[Len(em.ops) - 1].op = "HALT"

Launch == /\ mode = "done" /\ ~node_has_error /\ ~Launched
          /\ em' = [em EXCEPT !.ops = Append(@, Op("HALT", <<0>>))]
          /\ UNCHANGED <<mode, todo, ret, bitset, expr_release, cur, funcs,
                         break_points, continue_points, Consts, node_has_error,
                         lex, mvars>>

Execute == /\ mode = "done" /\ Launched
           /\ UNCHANGED gvars
           /\ Machine!ForeignRun

\* the process is gone
Ended == \/ mode = "crash"
         \/ mode = "done" /\ (node_has_error \/ status \notin {"running", "foreign"})
=============================================================================
