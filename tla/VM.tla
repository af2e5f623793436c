--------------------------------- MODULE VM ---------------------------------
(***************************************************************************)
(* The register machine lmx::runtime::VirtualCore (src/runtime/vm.cpp):    *)
(* one action per handler of run().  An access outside regs, a frame, the  *)
(* frame stack, the return stack or the program is undefined behaviour of  *)
(* the C++ code and ends in status "ub"; an arithmetic fault or an         *)
(* uncaught exception ends in "trap"; a call into the foreign function     *)
(* interface leaves the model in "foreign".                                *)
(***************************************************************************)
EXTENDS Value, Opcode

CONSTANTS Programs,      \* the programs run() may be started on
          REG_COUNT,     \* number of registers                (255)
          SAVE_REGS,     \* size of StackFrame::save_regs      (4)
          FRAME_SLOTS,   \* slots a StackFrame allocates       (56)
          GLOBAL_SLOTS,  \* slots of the frame of the toplevel (64)
          POOL,          \* address of the constant pool, not null
          BUILDS         \* which compilations of the machine are considered

ASSUME ProgramsAssumption == Programs \subseteq Seq(Instructions)
ASSUME RegsAssumption ==
    /\ REG_COUNT \in Nat /\ SAVE_REGS \in Nat
    /\ 0 < SAVE_REGS /\ SAVE_REGS <= REG_COUNT
    /\ 5 <= REG_COUNT   \* dyn_set takes five arguments
ASSUME SlotsAssumption ==
    /\ FRAME_SLOTS \in Nat /\ GLOBAL_SLOTS \in Nat /\ POOL \in Nat
ASSUME BuildsAssumption == BUILDS \subseteq {"optimised", "plain"}

VARIABLES build,   \* the compilation of the machine that is running
          program, pc, regs, ret_addr_stack, cur, status, out

vars == <<build, program, pc, regs, ret_addr_stack, cur, status, out>>

REG_COUNT_INDEX_MAX == REG_COUNT - 1
Registers == 0 .. REG_COUNT_INDEX_MAX
SavedShort == 1 .. SAVE_REGS - 2  \* mutant: one register too few
Saved == 1 .. SAVE_REGS - 1     \* the registers a call preserves

Status == {"running", "halted", "exited", "trap", "ub", "foreign"}

\* StackFrame: slot k of the code is locals[k + 1]
Frames == [locals : Seq(Values), save_regs : [Saved -> Values]]

-----------------------------------------------------------------------------
\* VirtualCore(): a machine that has run nothing yet
InitMachine ==
    /\ build \in BUILDS
    /\ pc = 0
    /\ regs = [r \in Registers |-> DefaultValue]
    /\ ret_addr_stack = <<>>
    /\ cur = <<[locals |-> [k \in 1 .. GLOBAL_SLOTS |-> DefaultValue],
                save_regs |-> [r \in Saved |-> DefaultValue]]>>
    /\ status = "running"
    /\ out = <<>>

Init == program \in Programs /\ InitMachine

-----------------------------------------------------------------------------
(* Fetching. *)

InProgram(p) == p \in 0 .. Len(program) - 1
Fetch(p) == program[p + 1]
Arg(k) == Fetch(pc).operands[k]
Reg(k) == regs[Arg(k)]

\* run() is at an instruction of one of the given kinds
At(opcodes) == status = "running" /\ InProgram(pc) /\ Fetch(pc).op \in opcodes

Back == Len(cur)
FrameAt(distance) == Back - distance   \* &cur.back() - distance
VmcCount == 6                          \* entries of vmcall_table

FuncEnds == {p \in 0 .. Len(program) - 1 : p >= pc /\ Fetch(p).op = "FUNC_END"}

\* the registers an instruction names, its operands read as uint8_t
RegOperands ==
    CASE At(Ternary) -> {Arg(1), Arg(2), Arg(3)}
      [] At({"MOV_RR"}) -> {Arg(1), Arg(2)}
      [] At({"MOV_RI", "MOV_RC", "IF_TRUE", "IF_FALSE", "DEC", "LOCAL_GET"}) ->
            {Arg(1)}
      [] At({"LOCAL_SET"}) -> {Arg(3)}
      [] At({"FCALL"}) -> {REG_COUNT_INDEX_MAX - i : i \in 0 .. Arg(2) - 1}
      [] OTHER -> {}

SlotInFrame(distance, slot) ==
    /\ FrameAt(distance) \in 1 .. Back
    /\ slot + 1 \in 1 .. Len(cur[FrameAt(distance)].locals)

\* the C++ operations the handler performs are all defined
Defined ==
    /\ InProgram(pc)
    /\ RegOperands \subseteq Registers
    /\ At({"LOCAL_GET"}) => SlotInFrame(Arg(2), Arg(3))
    /\ At({"LOCAL_SET"}) => SlotInFrame(Arg(1), Arg(2))
    /\ At({"FCALL"}) => Arg(2) \in Nat
    /\ At({"FRET"}) => ret_addr_stack # <<>>
    /\ At({"FUNC_CREATE"}) => FuncEnds # {}
    /\ At({"VMC"}) => /\ Arg(1) \in 0 .. VmcCount - 1
                      /\ Arg(1) = 1 => /\ regs[0].type = "Str"
                                       /\ u64(regs[0]) # 0

\* x86 raises SIGFPE on these; a null char* makes std::string throw
Faults ==
    \/ /\ At({"DIV", "MOD"})
       /\ \/ i64(Reg(3)) = 0
          \/ i64(Reg(3)) = -1 /\ 2 * i64(Reg(2)) = -WORD
    \/ /\ At({"VMC"})
       /\ Arg(1) = 0
       /\ regs[REG_COUNT_INDEX_MAX].type = "Str"
       /\ u64(regs[REG_COUNT_INDEX_MAX]) = 0

Ready(opcodes) == At(opcodes) /\ Defined /\ ~Faults

-----------------------------------------------------------------------------
(* The handlers. *)

Step == pc' = pc + 1
SetReg(r, v) == regs' = [regs EXCEPT ![r] = v]
OnlyRegs == UNCHANGED <<program, build, ret_addr_stack, cur, status, out>>

MovRI == Ready({"MOV_RI"}) /\ SetReg(Arg(1), Int64(Arg(2))) /\ Step /\ OnlyRegs

MovRR == /\ Ready({"MOV_RR"})
         /\ SetReg(Arg(1), assign(Reg(1), Reg(2)))
         /\ Step /\ OnlyRegs

MovRC == /\ Ready({"MOV_RC"})
         /\ SetReg(Arg(1), CharPtr(POOL + Arg(2)))
         /\ Step /\ OnlyRegs

Dec == Ready({"DEC"}) /\ SetReg(Arg(1), dec(Reg(1))) /\ Step /\ OnlyRegs

Calc(o, a, b) ==
    CASE o = "ADD" -> a + b
      [] o = "SUB" -> a - b
      [] o = "MUL" -> a * b
      [] o = "DIV" -> TruncDiv(a, b)
      [] OTHER     -> TruncMod(a, b)

Arithmetic ==
    /\ Ready(Arith \ {"POW"})
    /\ SetReg(Arg(1), Int64(Calc(Fetch(pc).op, i64(Reg(2)), i64(Reg(3)))))
    /\ Step /\ OnlyRegs

\* std::pow on the bytes read as doubles: any double may come out
Power == /\ Ready({"POW"})
         /\ \E w \in 0 .. WORD - 1 : SetReg(Arg(1), Bits("Float", w))
         /\ Step /\ OnlyRegs

Compare(o, a, b) ==
    CASE o = "CMP_GE" -> a >= b
      [] o = "CMP_LT" -> a < b
      [] o = "CMP_LE" -> a <= b
      [] o = "CMP_GT" -> a > b
      [] o = "CMP_EQ" -> a = b
      [] OTHER        -> a # b

Comparison ==
    /\ Ready(Cmp)
    /\ SetReg(Arg(1),
              set_b(Reg(1), IF Compare(Fetch(pc).op, i64(Reg(2)), i64(Reg(3)))
                            THEN 1 ELSE 0))
    /\ Step /\ OnlyRegs

\* Reading a bool whose byte is neither 0 nor 1 is undefined.  A compiler
\* that optimises tests the byte against 0 and passes it on as it is; one
\* that does not (-O0) stores && and || as 0 or 1, and negates by flipping
\* the lowest bit.
Passed(b) == IF build = "plain" /\ b # 0 THEN 1 ELSE b
Negation(b) == IF build = "plain" THEN b # 1 ELSE b = 0

Connective ==
    /\ Ready(Logic)
    /\ LET x == Reg(2).lo
           y == Reg(3).lo
           b == CASE Fetch(pc).op = "AND" -> IF x = 0 THEN 0 ELSE y
                  [] OTHER -> IF x # 0 THEN x ELSE y
       IN  SetReg(Arg(1), set_b(Reg(1), Passed(b)))
    /\ Step /\ OnlyRegs

\* FRAME_SLOTS values are constructed before resize(args_count + 1) shrinks
\* the vector, so their storage stays readable and holds default values.
NewFrame(args_count) ==
    [locals |-> [k \in 1 .. (IF args_count + 1 > FRAME_SLOTS
                             THEN args_count + 1 ELSE FRAME_SLOTS) |->
                    IF k <= args_count
                    THEN assign(DefaultValue, regs[REG_COUNT_INDEX_MAX - (k - 1)])
                    ELSE DefaultValue],
     save_regs |-> [r \in Saved |-> assign(DefaultValue, regs[r])]]

\* mutant: the call itself is where the callee returns to
FCall_again ==
    /\ Ready({"FCALL"})
    /\ ret_addr_stack' = Append(ret_addr_stack, pc)
    /\ pc' = Arg(1)
    /\ cur' = Append(cur, NewFrame(Arg(2)))
    /\ UNCHANGED <<program, build, regs, status, out>>

FCall ==
    /\ Ready({"FCALL"})
    /\ ret_addr_stack' = Append(ret_addr_stack, pc + 1)
    /\ pc' = Arg(1)
    /\ cur' = Append(cur, NewFrame(Arg(2)))
    /\ UNCHANGED <<program, build, regs, status, out>>

ButLast(s) == SubSeq(s, 1, Len(s) - 1)

\* mutant: the frame of the callee stays
FRet_kept ==
    /\ Ready({"FRET"})
    /\ pc' = ret_addr_stack[Len(ret_addr_stack)]
    /\ ret_addr_stack' = ButLast(ret_addr_stack)
    /\ regs' = [r \in Registers |-> IF r \in Saved
                                    THEN assign(regs[r], cur[Back].save_regs[r])
                                    ELSE regs[r]]
    /\ UNCHANGED <<program, build, cur, status, out>>

FRet ==
    /\ Ready({"FRET"})
    /\ pc' = ret_addr_stack[Len(ret_addr_stack)]
    /\ ret_addr_stack' = ButLast(ret_addr_stack)
    /\ regs' = [r \in Registers |-> IF r \in Saved
                                    THEN assign(regs[r], cur[Back].save_regs[r])
                                    ELSE regs[r]]
    /\ cur' = ButLast(cur)
    /\ UNCHANGED <<program, build, status, out>>

Halt == /\ Ready({"HALT"})
        /\ status' = "halted"
        /\ UNCHANGED <<program, build, pc, regs, ret_addr_stack, cur, out>>

OnlyPc == UNCHANGED <<program, build, regs, ret_addr_stack, cur, status, out>>

Jmp == Ready({"JMP"}) /\ pc' = Arg(1) /\ OnlyPc

IfTrue == /\ Ready({"IF_TRUE"})
          /\ pc' = IF Reg(1).lo # 0 THEN Arg(2) ELSE pc + 1
          /\ OnlyPc

IfFalse == /\ Ready({"IF_FALSE"})
           /\ pc' = IF Negation(Reg(1).lo) THEN Arg(2) ELSE pc + 1
           /\ OnlyPc

\* mutant: the body is not skipped
FuncCreate_entered == Ready({"FUNC_CREATE"}) /\ Step /\ OnlyPc

\* skips to behind the first FUNC_END, whichever function it belongs to
FuncCreate == /\ Ready({"FUNC_CREATE"})
              /\ \E p \in FuncEnds : /\ \A q \in FuncEnds : p <= q
                                     /\ pc' = p + 1
              /\ OnlyPc

Skip == Ready(Inert) /\ Step /\ OnlyPc

LocalGet == /\ Ready({"LOCAL_GET"})
            /\ SetReg(Arg(1), assign(Reg(1),
                                     cur[FrameAt(Arg(2))].locals[Arg(3) + 1]))
            /\ Step /\ OnlyRegs

LocalSet == /\ Ready({"LOCAL_SET"})
            /\ LET f == FrameAt(Arg(1))
                   k == Arg(2) + 1
               IN  cur' = [cur EXCEPT ![f].locals[k] = assign(@, Reg(3))]
            /\ Step
            /\ UNCHANGED <<program, build, regs, ret_addr_stack, status, out>>

\* VMC 0: prints register 254
VmcOut == /\ Ready({"VMC"}) /\ Arg(1) = 0
          /\ out' = Append(out, to_string(regs[REG_COUNT_INDEX_MAX]))
          /\ Step
          /\ UNCHANGED <<program, build, regs, ret_addr_stack, cur, status>>

\* VMC 1: fgets into the buffer of register 0, null at the end of the input
VmcIn == /\ Ready({"VMC"}) /\ Arg(1) = 1
         /\ \E w \in {0, u64(regs[0])} : SetReg(0, CharPtr(w))
         /\ Step /\ OnlyRegs

\* VMC 2: the process exits with the code in register 254
VmcExit == /\ Ready({"VMC"}) /\ Arg(1) = 2
           /\ status' = "exited"
           /\ UNCHANGED <<program, build, pc, regs, ret_addr_stack, cur, out>>

\* VMC 3 .. 5: dyn_load, dyn_set and dyn_call
VmcForeign == /\ Ready({"VMC"}) /\ Arg(1) \in 3 .. 5
              /\ status' = "foreign"
              /\ UNCHANGED <<program, build, pc, regs, ret_addr_stack, cur, out>>

Undefined == /\ status = "running"
             /\ ~Defined
             /\ status' = "ub"
             /\ UNCHANGED <<program, build, pc, regs, ret_addr_stack, cur, out>>

Fault == /\ status = "running"
         /\ Defined /\ Faults
         /\ status' = "trap"
         /\ UNCHANGED <<program, build, pc, regs, ret_addr_stack, cur, out>>

Stopped == status # "running" /\ UNCHANGED vars

Compute == \/ MovRI \/ MovRR \/ MovRC \/ Dec \/ Arithmetic \/ Power
           \/ Comparison \/ Connective \/ LocalGet \/ VmcIn
Branch == Jmp \/ IfTrue \/ IfFalse \/ FuncCreate \/ Skip
Stop == Halt \/ VmcExit \/ VmcForeign \/ Undefined \/ Fault

Run == Compute \/ Branch \/ LocalSet \/ VmcOut \/ FCall \/ FRet \/ Stop

Next == Run \/ Stopped

Spec == Init /\ [][Next]_vars

-----------------------------------------------------------------------------
TypeOK ==
    /\ build \in BUILDS
    /\ program \in Seq(Instructions)
    /\ pc \in Int
    /\ regs \in [Registers -> Values]
    /\ ret_addr_stack \in Seq(Int)
    /\ cur \in Seq(Frames)
    /\ status \in Status
    /\ out \in Seq(Tokens)

\* Every return address has the stack frame its call created on top of the
\* frame of the toplevel: FCALL and FRET keep the two vectors in step, so the
\* back() and pop_back() of FRET are applied to matching entries.
FrameDiscipline == Len(cur) = Len(ret_addr_stack) + 1

\* The pending calls and the registers they preserve, as CallStack sees them.
PendingCalls ==
    [i \in 1 .. Len(ret_addr_stack) |->
        [ret |-> ret_addr_stack[i],
         saved |-> [r \in Saved |-> View(cur[i + 1].save_regs[r])]]]

LiveContext == [r \in Saved |-> View(regs[r])]

Calls == INSTANCE CallStack WITH live <- LiveContext, stack <- PendingCalls

\* The machine implements the calling convention: the FRET that matches an
\* FCALL resumes behind it with registers 1 .. 3 meaning what they meant at
\* the call, whatever the callee, its callees and their frames did meanwhile.
ImplementsCallStack == Calls!CSSpec

-----------------------------------------------------------------------------
\* quotient and remainder of the same operands
DivisionPrograms ==
    {<<Op("MOV_RI", <<1, a>>), Op("MOV_RI", <<2, b>>), Op("DIV", <<3, 1, 2>>),
       Op("MOD", <<4, 1, 2>>), Op("HALT", <<0>>)>> :
        a \in 0 .. WORD - 1, b \in 0 .. WORD - 1}

\* DIV and MOD of the same operands fit together as C++ requires: the
\* quotient times the divisor plus the remainder is the dividend, and the
\* remainder is smaller than the divisor and never has the opposite sign.
\* Negative operands, which % on two's complement words would get wrong, and
\* the operands that trap, are among the inputs.
DivisionLaw ==
    (status = "halted" /\ program \in DivisionPrograms) =>
        LET a == i64(regs[1])
            b == i64(regs[2])
            q == i64(regs[3])
            r == i64(regs[4])
        IN  /\ q * b + r = a
            /\ Abs(r) < Abs(b)
            /\ r # 0 => (r < 0) = (a < 0)
=============================================================================
