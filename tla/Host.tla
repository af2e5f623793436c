-------------------------------- MODULE Host --------------------------------
(***************************************************************************)
(* What file_run and run_repl (src/tools/lm/common) have in common: one    *)
(* generator and one machine, which runs the generator's code and reads    *)
(* the generator's constant pool through pointers to them.                 *)
(***************************************************************************)
EXTENDS Generator

CONSTANTS BYTE, HIGH, SAVE_REGS, FRAME_SLOTS, GLOBAL_SLOTS, POOL, BUILDS   \* see VM

VARIABLES build, pc, regs, ret_addr_stack, frames, status, out,  \* the machine
          libs, errs  \* and its foreign functions

mvars == <<build, pc, regs, ret_addr_stack, frames, status, out, libs, errs>>
hvars == <<gvars, mvars>>

Machine == INSTANCE Foreign WITH Programs <- {}, program <- em.ops, cur <- frames,
                              constants <- pool

HostInit == Init /\ Machine!InitForeign
=============================================================================
