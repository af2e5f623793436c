-------------------------------- MODULE Emit --------------------------------
(***************************************************************************)
(* The back ends of the code generator: LMXOpcodeEmitter                   *)
(* (src/compiler/generator/emit.cpp), whose state em is the program so far *)
(* and ret_type, what the last emitter said about the last instruction     *)
(* (that it leaves its result in a register, in a slot, or neither), and   *)
(* Allocator (generator.cpp), whose state is the set of bits of its        *)
(* bitset.  NoReg is the size_t -1 the generator uses for "no register".   *)
(***************************************************************************)
EXTENDS Opcode

CONSTANT REG_COUNT   \* number of registers (255)

ASSUME RegCountAssumption == REG_COUNT \in Nat /\ REG_COUNT > 1

Ret_Type == {"None", "Reg", "Addr"}

NoReg == -1

\* size_t to uint8_t: -1 becomes 255, which is not the index of a register
Narrow(r) == IF r = NoReg THEN REG_COUNT ELSE r

Emitted(em) == Len(em.ops)
Last(em) == em.ops[Emitted(em)]

\* ops.push_back(op); ret_type = t
emit(em, o, a, t) == [ops |-> Append(em.ops, Op(o, a)), ret_type |-> t]

emit_mov_ri(em, r, imm) == emit(em, "MOV_RI", <<Narrow(r), imm>>, "Reg")
emit_mov_rc(em, r, idx) == emit(em, "MOV_RC", <<Narrow(r), idx>>, em.ret_type)
emit_dec(em, r)         == emit(em, "DEC", <<Narrow(r)>>, em.ret_type)
emit_binary(em, o, r1, r2, r3) ==
    emit(em, o, <<Narrow(r1), Narrow(r2), Narrow(r3)>>, "Reg")
emit_local_get(em, r, s, idx) ==
    emit(em, "LOCAL_GET", <<Narrow(r), s, idx>>, "Reg")
emit_local_set(em, s, idx, r) ==
    emit(em, "LOCAL_SET", <<s, idx, Narrow(r)>>, "Addr")
emit_fcall(em, idx, ac)    == emit(em, "FCALL", <<idx, ac>>, "None")
emit_jmp(em, idx)          == emit(em, "JMP", <<idx>>, "None")
emit_if_true(em, r, idx)   == emit(em, "IF_TRUE", <<Narrow(r), idx>>, "None")
emit_if_false(em, r, idx)  == emit(em, "IF_FALSE", <<Narrow(r), idx>>, "None")
emit_func_create(em)       == emit(em, "FUNC_CREATE", <<0>>, "None")
emit_func_end(em)          == emit(em, "FUNC_END", <<0>>, "None")
emit_vmc(em, idx)          == emit(em, "VMC", <<idx>>, "None")

\* A second FRET in a row is dropped.
emit_fret(em) ==
    IF em.ops # <<>> /\ Last(em).op = "FRET"
    THEN em
    ELSE emit(em, "FRET", <<0>>, "Reg")

\* mutant: what kind of instruction comes last is not looked at
RetargetsAny(em, r2) == em.ops # <<>> /\ Last(em).operands[1] = Narrow(r2)

\* The peephole: a move out of the register the last instruction writes
\* becomes a change of that instruction's target.
Retargets(em, r2) == /\ em.ret_type = "Reg"
                     /\ em.ops # <<>>
                     /\ Last(em).operands[1] = Narrow(r2)

emit_mov_rr(em, r1, r2) ==
    CASE Narrow(r1) = Narrow(r2) -> em
      [] Narrow(r1) # Narrow(r2) /\ Retargets(em, r2) ->
            [em EXCEPT !.ops[Emitted(em)].operands[1] = Narrow(r1)]
      [] OTHER -> emit(em, "MOV_RR", <<Narrow(r1), Narrow(r2)>>, "Reg")

\* memcpy(ops[at].operands + ..., &target, 8): the address is the last operand
patch(em, at, target) ==
    [em EXCEPT !.ops[at + 1].operands[Arity(em.ops[at + 1].op)] = target]

-----------------------------------------------------------------------------
(* Allocator *)

Unused(bitset) == (0 .. REG_COUNT - 1) \ bitset

\* the lowest free register, -1 when there is none
alloc(bitset) == IF Unused(bitset) = {} THEN NoReg
                 ELSE CHOOSE r \in Unused(bitset) :
                         \A q \in Unused(bitset) : r <= q

\* the bitset after alloc()
Taken(bitset) == bitset \cup (IF Unused(bitset) = {} THEN {}
                              ELSE {alloc(bitset)})

\* mutant: register 0 can be given back
FreedAny(bitset, i) == bitset \ {i}

\* free(i) never gives back register 0, and ignores -1
Freed(bitset, i) == IF i > 0 THEN bitset \ {i} ELSE bitset

Releasing(bitset, release, i) == IF release THEN Freed(bitset, i) ELSE bitset
=============================================================================
