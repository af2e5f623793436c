----------------------------- MODULE CallStack -----------------------------
(***************************************************************************)
(* What FCALL and FRET promise compiled code, without registers, frames or *)
(* values: a call remembers where to continue and the context of the       *)
(* caller, and the return that matches it continues there with that very   *)
(* context, whatever ran in between.  live is the context a call must      *)
(* preserve (what registers 1 .. 3 mean) and stack the pending calls.      *)
(***************************************************************************)
EXTENDS Integers, Sequences

VARIABLES pc, live, stack

CSvars == <<pc, live, stack>>

CSInit == pc = 0 /\ stack = <<>>

\* the callee starts with the caller's context still in place
Call == /\ stack' = Append(stack, [ret |-> pc + 1, saved |-> live])
        /\ live' = live

Return == /\ stack # <<>>
          /\ pc' = stack[Len(stack)].ret
          /\ live' = stack[Len(stack)].saved
          /\ stack' = SubSeq(stack, 1, Len(stack) - 1)

\* any other instruction works on the current context only
Work == UNCHANGED stack

CSNext == Call \/ Return \/ Work

CSSpec == CSInit /\ [][CSNext]_CSvars
=============================================================================
