------------------------------- MODULE Opcode -------------------------------
(***************************************************************************)
(* The instruction set of the Lamina virtual machine                       *)
(* (src/include/opcode.hpp).  The twelve operand bytes of an Op are kept   *)
(* decoded: operands is the tuple of the registers, frame distances, slot  *)
(* numbers, immediates and addresses that the bytes spell, in their order. *)
(* An Op that sets no operand bytes has the tuple <<0>> (they are zeroed). *)
(***************************************************************************)
EXTENDS Integers, Sequences

Arith == {"ADD", "SUB", "MUL", "DIV", "MOD", "POW"}
Cmp   == {"CMP_GE", "CMP_LT", "CMP_LE", "CMP_GT", "CMP_EQ", "CMP_NE"}
Logic == {"AND", "OR"}
Ternary == Arith \cup Cmp \cup Logic      \* dst, src1, src2

\* instructions whose handler only steps over them ("todo!" in run())
Inert == {"MOV_RM", "MOV_MI", "MOV_MM", "MOV_MR", "MOV_MC",
          "DEBUG_LOG", "FUNC_END"}

Opcodes == Ternary \cup Inert \cup
           {"MOV_RI", "MOV_RR", "MOV_RC", "HALT", "FCALL", "FRET", "JMP",
            "IF_TRUE", "IF_FALSE", "FUNC_CREATE", "LOCAL_GET", "LOCAL_SET",
            "VMC", "DEC"}

Op(o, a) == [op |-> o, operands |-> a]

\* the number of operands an instruction of each kind carries
Arity(o) ==
    CASE o \in Ternary \cup {"LOCAL_GET", "LOCAL_SET"} -> 3
      [] o \in {"MOV_RI", "MOV_RR", "MOV_RC", "FCALL", "IF_TRUE",
                "IF_FALSE"} -> 2
      [] OTHER -> 1

\* every program is a sequence of well-formed instructions
Instructions == {i \in [op : Opcodes, operands : Seq(Int)] :
                    Len(i.operands) = Arity(i.op)}
=============================================================================
