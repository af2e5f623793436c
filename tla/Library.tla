------------------------------ MODULE Library ------------------------------
(***************************************************************************)
(* The shared libraries a program can load, as far as the interpreter can  *)
(* tell: the symbols of each, and what their functions return.  They are   *)
(* not part of the repository; example/libload.lm loads one with "add".    *)
(***************************************************************************)
EXTENDS Integers, Sequences

Libraries == [mylib |-> {"add", "inc", "odd"}]

Params == [add |-> 2, inc |-> 1, odd |-> 1]

C(symbol, args) ==
    CASE symbol = "add" -> args[1] + args[2]
      [] symbol = "inc" -> args[1] + 1
      [] symbol = "odd" -> args[1] % 2
=============================================================================
