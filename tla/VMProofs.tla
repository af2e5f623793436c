------------------------------ MODULE VMProofs ------------------------------
(***************************************************************************)
(* Theorems about VM for every word size, register count, frame size and   *)
(* every set of programs, undefined accesses included.                     *)
(***************************************************************************)
EXTENDS VM, TLAPS

-----------------------------------------------------------------------------
(* Values. *)

\* A full store of any integer is a value: the bytes are the wrapped integer.
LEMMA BitsType ==
    ASSUME NEW t \in ValueType, NEW w \in Int
    PROVE  Bits(t, w) \in Values
<1>1. w % BYTE \in 0 .. BYTE - 1
  BY ByteAssumption
<1>2. w \div BYTE \in Int
  BY ByteAssumption
<1>3. (w \div BYTE) % HIGH \in 0 .. HIGH - 1
  BY <1>2, HighAssumption
<1> QED
  BY <1>1, <1>3 DEF Bits, Values

\* The bytes of a value read as an unsigned integer stay below the word size.
LEMMA U64Type ==
    ASSUME NEW v \in Values
    PROVE  u64(v) \in 0 .. WORD - 1
<1> DEFINE lo == v.lo
           hi == v.hi
<1>1. lo \in 0 .. BYTE - 1 /\ hi \in 0 .. HIGH - 1
  BY DEF Values
<1>2. BYTE \in Nat /\ HIGH \in Nat /\ BYTE > 1
  BY ByteAssumption, HighAssumption
<1> HIDE DEF lo, hi
<1>3. BYTE * hi <= BYTE * (HIGH - 1)
  BY <1>1, <1>2
<1>4. BYTE * (HIGH - 1) = BYTE * HIGH - BYTE
  BY <1>2
<1>5. BYTE * hi \in Nat /\ BYTE * HIGH \in Nat
  BY <1>1, <1>2
<1>6. lo + BYTE * hi \in 0 .. BYTE * HIGH - 1
  BY <1>1, <1>2, <1>3, <1>4, <1>5
<1> QED
  BY <1>6 DEF u64, WORD, lo, hi

LEMMA WordType == WORD \in Nat
  BY ByteAssumption, HighAssumption DEF WORD

LEMMA I64Type ==
    ASSUME NEW v \in Values
    PROVE  i64(v) \in Int
  BY WordType, U64Type DEF i64

LEMMA DefaultType == DefaultValue \in Values
  BY BitsType DEF DefaultValue, VoidPtr, ValueType

LEMMA SetBType ==
    ASSUME NEW v \in Values, NEW b \in 0 .. BYTE - 1
    PROVE  set_b(v, b) \in Values
  BY DEF set_b, Values

LEMMA DecType ==
    ASSUME NEW v \in Values
    PROVE  dec(v) \in Values
<1>1. v.type \in ValueType /\ u64(v) - 1 \in Int
  BY U64Type DEF Values
<1> QED
  BY <1>1, BitsType DEF dec

\* Copying a value yields a value ...
LEMMA AssignType ==
    ASSUME NEW d \in Values, NEW s \in Values
    PROVE  assign(d, s) \in Values
<1>1. CASE s.type = "Bool"
  BY <1>1 DEF assign, Values, ValueType
<1>2. CASE s.type = "Null"
  BY <1>2, BitsType DEF assign, ValueType
<1>3. CASE s.type \notin {"Bool", "Null"}
  BY <1>3 DEF assign
<1> QED
  BY <1>1, <1>2, <1>3

\* ... that means what the source means, whatever the target held before: the
\* bytes a narrow copy leaves stale are never part of the meaning.
LEMMA AssignView ==
    ASSUME NEW d \in Values, NEW s \in Values
    PROVE  View(assign(d, s)) = View(s)
<1>1. CASE s.type = "Bool"
  BY <1>1 DEF assign, View, Values
<1>2. CASE s.type = "Null"
  BY <1>2 DEF assign, View, Bits
<1>3. CASE s.type \notin {"Bool", "Null"}
  BY <1>3 DEF assign
<1> QED
  BY <1>1, <1>2, <1>3

LEMMA TokenType ==
    ASSUME NEW v \in Values
    PROVE  to_string(v) \in Tokens
<1>1. u64(v) \in 0 .. WORD - 1 /\ 0 \in 0 .. WORD - 1
  BY WordType, U64Type
<1> DEFINE texts == {"int", "str", "float", "true", "false", "null", "empty"}
<1>2. ASSUME NEW t \in texts, NEW w \in 0 .. WORD - 1
      PROVE  Token(t, w) \in Tokens
  BY DEF Token, Tokens
<1>3. to_string(v) \in {Token("int", u64(v)), Token("str", u64(v)),
                        Token("float", u64(v)), Token("true", 0),
                        Token("false", 0), Token("null", 0), Token("empty", 0)}
  BY DEF to_string
<1> QED
  BY <1>1, <1>2, <1>3

LEMMA CalcType ==
    ASSUME NEW o \in Arith \ {"POW"}, NEW a \in Int, NEW b \in Int,
           o \in {"DIV", "MOD"} => b # 0
    PROVE  Calc(o, a, b) \in Int
<1>1. CASE o \in {"ADD", "SUB"}
  BY <1>1 DEF Calc
<1>2. CASE o = "MUL"
  BY <1>2 DEF Calc
<1>3. CASE o \in {"DIV", "MOD"}
  <2>1. Abs(a) \in Nat /\ Abs(b) \in Nat /\ Abs(b) > 0
    BY <1>3 DEF Abs
  <2>2. Abs(a) \div Abs(b) \in Int /\ Abs(a) % Abs(b) \in Int
    BY <2>1
  <2> QED
    BY <1>3, <2>2 DEF Calc, TruncDiv, TruncMod
<1> QED
  BY <1>1, <1>2, <1>3 DEF Arith

-----------------------------------------------------------------------------
(* Fetching. *)

\* The operands of the instruction at pc are integers.
LEMMA OperandType ==
    ASSUME TypeOK, NEW S, At(S)
    PROVE  /\ Fetch(pc).op \in S \cap Opcodes
           /\ \A k \in 1 .. Arity(Fetch(pc).op) : Arg(k) \in Int
<1>1. pc + 1 \in 1 .. Len(program)
  BY DEF TypeOK, At, InProgram
<1>2. Fetch(pc) \in Instructions
  BY <1>1 DEF TypeOK, Fetch
<1> QED
  BY <1>2 DEF At, Instructions, Arg

LEMMA Arities ==
    /\ Arity("MOV_RI") = 2 /\ Arity("MOV_RC") = 2 /\ Arity("FCALL") = 2
    /\ Arity("IF_TRUE") = 2 /\ Arity("IF_FALSE") = 2 /\ Arity("JMP") = 1
    /\ Arity("LOCAL_GET") = 3 /\ Arity("LOCAL_SET") = 3
  BY DEF Arity, Ternary, Arith, Cmp, Logic

\* A defined instruction names registers that exist.
LEMMA OperandRegs ==
    ASSUME NEW S, Ready(S)
    PROVE  /\ At(Ternary) => {Arg(1), Arg(2), Arg(3)} \subseteq Registers
           /\ At({"MOV_RR"}) => {Arg(1), Arg(2)} \subseteq Registers
           /\ At({"MOV_RI", "MOV_RC", "IF_TRUE", "IF_FALSE", "DEC", "LOCAL_GET"})
                => Arg(1) \in Registers
           /\ At({"LOCAL_SET"}) => Arg(3) \in Registers
           /\ At({"FCALL"}) => {REG_COUNT_INDEX_MAX - i : i \in 0 .. Arg(2) - 1}
                                \subseteq Registers
<1>1. RegOperands \subseteq Registers
  BY DEF Ready, Defined
<1>2. CASE At(Ternary)
  BY <1>1, <1>2 DEF RegOperands, At, Ternary, Arith, Cmp, Logic
<1>3. CASE At({"MOV_RR"})
  BY <1>1, <1>3 DEF RegOperands, At, Ternary, Arith, Cmp, Logic
<1>4. CASE At({"MOV_RI", "MOV_RC", "IF_TRUE", "IF_FALSE", "DEC", "LOCAL_GET"})
  BY <1>1, <1>4 DEF RegOperands, At, Ternary, Arith, Cmp, Logic
<1>5. CASE At({"LOCAL_SET"})
  BY <1>1, <1>5 DEF RegOperands, At, Ternary, Arith, Cmp, Logic
<1>6. CASE At({"FCALL"})
  BY <1>1, <1>6 DEF RegOperands, At, Ternary, Arith, Cmp, Logic
<1> QED
  BY <1>2, <1>3, <1>4, <1>5, <1>6

-----------------------------------------------------------------------------
(* Types. *)

\* A store into a register that exists keeps the registers well typed.
LEMMA SetRegType ==
    ASSUME regs \in [Registers -> Values], NEW r \in Registers,
           NEW v \in Values, SetReg(r, v)
    PROVE  regs' \in [Registers -> Values]
  BY DEF SetReg

LEMMA InitType == Init => TypeOK
<1> SUFFICES ASSUME Init PROVE TypeOK
  OBVIOUS
<1>1. program \in Seq(Instructions)
  BY ProgramsAssumption DEF Init, InitMachine
<1>2. regs \in [Registers -> Values]
  BY DefaultType DEF Init, InitMachine
<1>3. cur \in Seq(Frames)
  <2>1. [k \in 1 .. GLOBAL_SLOTS |-> DefaultValue] \in Seq(Values)
    BY DefaultType, SlotsAssumption
  <2>2. [r \in Saved |-> DefaultValue] \in [Saved -> Values]
    BY DefaultType
  <2> QED
    BY <2>1, <2>2 DEF Init, InitMachine, Frames
<1> QED
  BY <1>1, <1>2, <1>3 DEF Init, InitMachine, TypeOK, Status

\* The instructions that compute a value and store it in a register.
LEMMA ComputeType ==
    ASSUME TypeOK, Compute
    PROVE  TypeOK'
<1> DEFINE goal == /\ regs' \in [Registers -> Values]
                   /\ pc' \in Int
                   /\ UNCHANGED <<program, build, ret_addr_stack, cur, status, out>>
<1>0. SUFFICES goal
  BY DEF TypeOK
<1> USE DEF TypeOK, OnlyRegs, Step
<1>a. ASSUME NEW S, Ready(S)
      PROVE  /\ At(S)
             /\ Fetch(pc).op \in S \cap Opcodes
             /\ \A k \in 1 .. Arity(Fetch(pc).op) : Arg(k) \in Int
  BY <1>a, OperandType DEF Ready
<1>1. CASE MovRI
  <2>1. Arg(1) \in Registers /\ Arg(2) \in Int
    <3>1. Ready({"MOV_RI"})
      BY <1>1 DEF MovRI
    <3>2. At({"MOV_RI"}) /\ Fetch(pc).op = "MOV_RI" /\ Arg(2) \in Int
      BY <3>1, <1>a, Arities
    <3>3. Arg(1) \in Registers
      BY <3>1, <3>2, OperandRegs DEF At
    <3> QED
      BY <3>2, <3>3
  <2> QED
    BY <1>1, <2>1, BitsType, SetRegType DEF MovRI, Int64, ValueType
<1>2. CASE MovRR
  <2>1. Arg(1) \in Registers /\ Arg(2) \in Registers
    BY <1>2, <1>a, OperandRegs DEF MovRR
  <2> QED
    BY <1>2, <2>1, AssignType, SetRegType DEF MovRR, Reg
<1>3. CASE MovRC
  <2>1. Arg(1) \in Registers /\ Arg(2) \in Int
    <3>1. Ready({"MOV_RC"})
      BY <1>3 DEF MovRC
    <3>2. At({"MOV_RC"}) /\ Fetch(pc).op = "MOV_RC" /\ Arg(2) \in Int
      BY <3>1, <1>a, Arities
    <3>3. Arg(1) \in Registers
      BY <3>1, <3>2, OperandRegs DEF At
    <3> QED
      BY <3>2, <3>3
  <2>2. POOL + Arg(2) \in Int
    BY <2>1, SlotsAssumption
  <2> QED
    BY <1>3, <2>1, <2>2, BitsType, SetRegType DEF MovRC, CharPtr, ValueType
<1>4. CASE Dec
  <2>1. Arg(1) \in Registers
    BY <1>4, <1>a, OperandRegs DEF Dec, At
  <2> QED
    BY <1>4, <2>1, DecType, SetRegType DEF Dec, Reg
<1>5. CASE Arithmetic
  <2>0. Fetch(pc).op \in Arith \ {"POW"} /\ At(Ternary)
    BY <1>5, <1>a DEF Arithmetic, At, Ternary
  <2>1. Arg(1) \in Registers /\ Arg(2) \in Registers /\ Arg(3) \in Registers
    BY <1>5, <2>0, OperandRegs DEF Arithmetic
  <2>2. i64(Reg(2)) \in Int /\ i64(Reg(3)) \in Int
    BY <2>1, I64Type DEF Reg
  <2>3. Fetch(pc).op \in {"DIV", "MOD"} => i64(Reg(3)) # 0
    BY <1>5 DEF Arithmetic, Ready, Faults, At
  <2>4. Calc(Fetch(pc).op, i64(Reg(2)), i64(Reg(3))) \in Int
    BY <2>0, <2>2, <2>3, CalcType
  <2> QED
    BY <1>5, <2>1, <2>4, BitsType, SetRegType DEF Arithmetic, Int64, ValueType
<1>6. CASE Power
  <2>0. At(Ternary)
    BY <1>6, <1>a DEF Power, At, Ternary, Arith
  <2>1. Arg(1) \in Registers
    BY <1>6, <2>0, OperandRegs DEF Power
  <2>2. PICK w \in 0 .. WORD - 1 : SetReg(Arg(1), Bits("Float", w))
    BY <1>6 DEF Power
  <2> QED
    BY <1>6, <2>1, <2>2, WordType, BitsType, SetRegType DEF Power, ValueType
<1>7. CASE Comparison
  <2>0. At(Ternary)
    BY <1>7, <1>a DEF Comparison, At, Ternary
  <2>1. Arg(1) \in Registers /\ Reg(1) \in Values
    BY <1>7, <2>0, OperandRegs DEF Comparison, Reg
  <2>2. 0 \in 0 .. BYTE - 1 /\ 1 \in 0 .. BYTE - 1
    BY ByteAssumption
  <2> QED
    BY <1>7, <2>1, <2>2, SetBType, SetRegType DEF Comparison
<1>8. CASE Connective
  <2>0. At(Ternary)
    BY <1>8, <1>a DEF Connective, At, Ternary
  <2>1. Arg(1) \in Registers /\ Arg(2) \in Registers /\ Arg(3) \in Registers
    BY <1>8, <2>0, OperandRegs DEF Connective
  <2> DEFINE x == Reg(2).lo
             y == Reg(3).lo
             z == CASE Fetch(pc).op = "AND" -> IF x = 0 THEN 0 ELSE y
                    [] OTHER -> IF x # 0 THEN x ELSE y
  <2>2. x \in 0 .. BYTE - 1 /\ y \in 0 .. BYTE - 1 /\ Reg(1) \in Values
    BY <2>1 DEF Reg, Values
  <2>3. 0 \in 0 .. BYTE - 1 /\ 1 \in 0 .. BYTE - 1
    BY ByteAssumption
  <2>4. z \in 0 .. BYTE - 1
    <3> HIDE DEF x, y
    <3> QED
      BY <2>2, <2>3
  <2>5. SetReg(Arg(1), set_b(Reg(1), Passed(z)))
    BY <1>8 DEF Connective
  <2>6. Passed(z) \in 0 .. BYTE - 1
    <3> HIDE DEF z
    <3> QED
      BY <2>3, <2>4 DEF Passed
  <2> QED
    BY <1>8, <2>1, <2>2, <2>5, <2>6, SetBType, SetRegType DEF Connective
<1>9. CASE LocalGet
  <2>1. Arg(1) \in Registers
    BY <1>9, <1>a, OperandRegs DEF LocalGet, At
  <2> DEFINE f == FrameAt(Arg(2))
             k == Arg(3) + 1
  <2>2. f \in 1 .. Len(cur) /\ k \in 1 .. Len(cur[f].locals)
    BY <1>9, <1>a DEF LocalGet, Ready, Defined, SlotInFrame, Back
  <2>3. cur[f].locals[k] \in Values
    <3> HIDE DEF f, k
    <3>1. cur[f] \in Frames
      BY <2>2
    <3>2. cur[f].locals \in Seq(Values)
      BY <3>1 DEF Frames
    <3> QED
      BY <2>2, <3>2
  <2> QED
    BY <1>9, <2>1, <2>3, AssignType, SetRegType DEF LocalGet, Reg
<1>10. CASE VmcIn
  <2>1. 0 \in Registers
    BY RegsAssumption DEF Registers, REG_COUNT_INDEX_MAX
  <2>2. PICK w \in {0, u64(regs[0])} : SetReg(0, CharPtr(w))
    BY <1>10 DEF VmcIn
  <2>3. w \in Int
    BY <2>1, <2>2, WordType, U64Type
  <2> QED
    BY <1>10, <2>1, <2>2, <2>3, BitsType, SetRegType DEF VmcIn, CharPtr, ValueType
<1> QED
  BY <1>1, <1>2, <1>3, <1>4, <1>5, <1>6, <1>7, <1>8, <1>9, <1>10 DEF Compute

\* The frame FCALL pushes: the arguments are registers that exist.
LEMMA NewFrameType ==
    ASSUME regs \in [Registers -> Values], NEW n \in Nat,
           {REG_COUNT_INDEX_MAX - i : i \in 0 .. n - 1} \subseteq Registers
    PROVE  NewFrame(n) \in Frames
<1> DEFINE size == IF n + 1 > FRAME_SLOTS THEN n + 1 ELSE FRAME_SLOTS
           local(k) == IF k <= n
                       THEN assign(DefaultValue, regs[REG_COUNT_INDEX_MAX - (k - 1)])
                       ELSE DefaultValue
<1>1. size \in Nat
  BY SlotsAssumption
<1>2. ASSUME NEW k \in 1 .. size
      PROVE  local(k) \in Values
  <2>1. CASE k <= n
    <3>1. k - 1 \in 0 .. n - 1
      BY <1>1, <1>2, <2>1
    <3>2. REG_COUNT_INDEX_MAX - (k - 1) \in Registers
      BY <3>1
    <3> QED
      BY <2>1, <3>2, DefaultType, AssignType
  <2>2. CASE ~(k <= n)
    BY <2>2, DefaultType
  <2> QED
    BY <2>1, <2>2
<1>3. [k \in 1 .. size |-> local(k)] \in Seq(Values)
  <2> HIDE DEF size, local
  <2> QED
    BY <1>1, <1>2
<1>4. [r \in Saved |-> assign(DefaultValue, regs[r])] \in [Saved -> Values]
  <2>1. Saved \subseteq Registers
    BY RegsAssumption DEF Saved, Registers, REG_COUNT_INDEX_MAX
  <2> QED
    BY <2>1, DefaultType, AssignType
<1> QED
  BY <1>3, <1>4 DEF NewFrame, Frames

LEMMA ButLastType ==
    ASSUME NEW T, NEW s \in Seq(T), s # <<>>
    PROVE  /\ ButLast(s) \in Seq(T)
           /\ Len(ButLast(s)) = Len(s) - 1
           /\ \A i \in 1 .. Len(s) - 1 : ButLast(s)[i] = s[i]
           /\ s[Len(s)] \in T
<1>1. Len(s) \in Nat /\ Len(s) > 0
  OBVIOUS
<1>2. Len(s) - 1 \in 0 .. Len(s)
  BY <1>1
<1>3. ButLast(s) = [i \in 1 .. Len(s) - 1 |-> s[i]]
  BY <1>1, <1>2 DEF ButLast
<1>4. \A i \in 1 .. Len(s) : s[i] \in T
  OBVIOUS
<1> DEFINE m == Len(s) - 1
<1>5. m \in Nat /\ \A i \in 1 .. m : s[i] \in T
  BY <1>1, <1>4
<1> HIDE DEF m
<1>6. [i \in 1 .. m |-> s[i]] \in Seq(T) /\ Len([i \in 1 .. m |-> s[i]]) = m
  BY <1>5
<1> QED
  BY <1>1, <1>3, <1>4, <1>6 DEF m

LEMMA FCallType ==
    ASSUME TypeOK, FCall
    PROVE  TypeOK'
<1>1. Ready({"FCALL"})
  BY DEF FCall
<1>2. At({"FCALL"}) /\ Arg(1) \in Int /\ Arg(2) \in Nat
  <2>1. At({"FCALL"}) /\ Defined
    BY <1>1 DEF Ready
  <2> QED
    BY <2>1, OperandType, Arities DEF Defined
<1>3. NewFrame(Arg(2)) \in Frames
  BY <1>1, <1>2, OperandRegs, NewFrameType DEF TypeOK
<1> QED
  BY <1>2, <1>3 DEF FCall, TypeOK

LEMMA FRetType ==
    ASSUME TypeOK, FrameDiscipline, FRet
    PROVE  TypeOK'
<1>1. ret_addr_stack # <<>> /\ ret_addr_stack \in Seq(Int)
  BY DEF FRet, Ready, Defined, TypeOK
<1>2. cur # <<>> /\ cur \in Seq(Frames)
  BY <1>1 DEF FrameDiscipline, TypeOK
<1>3. regs' \in [Registers -> Values]
  <2>1. cur[Back] \in Frames
    BY <1>2, ButLastType DEF Back
  <2>2. ASSUME NEW r \in Registers
        PROVE  (IF r \in Saved THEN assign(regs[r], cur[Back].save_regs[r])
                                ELSE regs[r]) \in Values
    BY <2>1, AssignType DEF Frames, TypeOK
  <2> QED
    BY <2>2 DEF FRet
<1>4. pc' \in Int /\ ret_addr_stack' \in Seq(Int)
  BY <1>1, ButLastType DEF FRet
<1>5. cur' \in Seq(Frames)
  BY <1>2, ButLastType DEF FRet
<1> QED
  BY <1>3, <1>4, <1>5 DEF FRet, TypeOK

LEMMA LocalSetType ==
    ASSUME TypeOK, LocalSet
    PROVE  TypeOK' /\ Len(cur') = Len(cur)
           /\ \A i \in 1 .. Len(cur) : cur'[i].save_regs = cur[i].save_regs
<1> DEFINE f == FrameAt(Arg(1))
           k == Arg(2) + 1
           v == assign(cur[f].locals[k], Reg(3))
<1>1. Ready({"LOCAL_SET"}) /\ At({"LOCAL_SET"})
  BY DEF LocalSet, Ready
<1>2. Arg(3) \in Registers
  BY <1>1, OperandRegs
<1>3. f \in 1 .. Len(cur) /\ k \in 1 .. Len(cur[f].locals)
  BY <1>1 DEF Ready, Defined, SlotInFrame, Back
<1>4. cur' = [cur EXCEPT ![f] = [cur[f] EXCEPT !.locals = [@ EXCEPT ![k] = v]]]
  BY DEF LocalSet
<1>5. pc' \in Int /\ UNCHANGED <<program, build, regs, ret_addr_stack, status, out>>
  BY DEF LocalSet, Step, TypeOK
<1>6. Reg(3) \in Values /\ cur \in Seq(Frames)
  BY <1>2 DEF TypeOK, Reg
<1> HIDE DEF f, k
<1>7. cur[f] \in Frames
  BY <1>3, <1>6
<1>8. cur[f].locals \in Seq(Values)
  BY <1>7 DEF Frames
<1>9. v \in Values
  BY <1>3, <1>6, <1>8, AssignType
<1> HIDE DEF v
<1>10. [cur[f].locals EXCEPT ![k] = v] \in Seq(Values)
  BY <1>3, <1>8, <1>9
<1>11. [cur[f] EXCEPT !.locals = [@ EXCEPT ![k] = v]] \in Frames
  BY <1>7, <1>10 DEF Frames
<1>12. cur' \in Seq(Frames) /\ Len(cur') = Len(cur)
  BY <1>3, <1>4, <1>6, <1>11
<1>13. \A i \in 1 .. Len(cur) : cur'[i].save_regs = cur[i].save_regs
  <2> SUFFICES ASSUME NEW i \in 1 .. Len(cur)
               PROVE  cur'[i].save_regs = cur[i].save_regs
    OBVIOUS
  <2>1. cur[i] \in Frames
    BY <1>6
  <2>2. CASE i = f
    BY <1>3, <1>4, <1>6, <1>7, <2>2 DEF Frames
  <2>3. CASE i # f
    BY <1>3, <1>4, <1>6, <2>3
  <2> QED
    BY <2>2, <2>3
<1> QED
  BY <1>5, <1>12, <1>13 DEF TypeOK

LEMMA BranchType ==
    ASSUME TypeOK, Branch
    PROVE  TypeOK'
<1>1. CASE Jmp
  <2>1. At({"JMP"})
    BY <1>1 DEF Jmp, Ready
  <2>2. Arg(1) \in Int
    BY <2>1, OperandType, Arities
  <2> QED
    BY <1>1, <2>2 DEF Jmp, OnlyPc, TypeOK
<1>2. CASE IfTrue
  <2>1. At({"IF_TRUE"})
    BY <1>2 DEF IfTrue, Ready
  <2>2. Arg(2) \in Int
    BY <2>1, OperandType, Arities
  <2> QED
    BY <1>2, <2>2 DEF IfTrue, OnlyPc, TypeOK
<1>3. CASE IfFalse
  <2>1. At({"IF_FALSE"})
    BY <1>3 DEF IfFalse, Ready
  <2>2. Arg(2) \in Int
    BY <2>1, OperandType, Arities
  <2>3. pc' \in {Arg(2), pc + 1}
    BY <1>3 DEF IfFalse
  <2> QED
    BY <1>3, <2>2, <2>3 DEF IfFalse, OnlyPc, TypeOK
<1>4. CASE FuncCreate
  BY <1>4 DEF FuncCreate, FuncEnds, OnlyPc, TypeOK
<1>5. CASE Skip
  BY <1>5 DEF Skip, Step, OnlyPc, TypeOK
<1> QED
  BY <1>1, <1>2, <1>3, <1>4, <1>5 DEF Branch

LEMMA VmcOutType ==
    ASSUME TypeOK, VmcOut
    PROVE  TypeOK'
<1>1. REG_COUNT_INDEX_MAX \in Registers
  BY RegsAssumption DEF Registers, REG_COUNT_INDEX_MAX
<1>2. to_string(regs[REG_COUNT_INDEX_MAX]) \in Tokens
  BY <1>1, TokenType DEF TypeOK
<1> QED
  BY <1>2 DEF VmcOut, Step, TypeOK

LEMMA StopType ==
    ASSUME TypeOK, Stop
    PROVE  TypeOK' /\ UNCHANGED <<program, build, pc, regs, ret_addr_stack, cur, out>>
  BY DEF Stop, Halt, VmcExit, VmcForeign, Undefined, Fault, TypeOK, Status

-----------------------------------------------------------------------------
(* The invariant and the calling convention. *)

Inv == TypeOK /\ FrameDiscipline

LEMMA InitInv == Init => Inv
  BY InitType DEF Init, InitMachine, Inv, FrameDiscipline

\* Only FCALL and FRET touch the stacks, and they change both by one entry.
LEMMA StepInv == Inv /\ [Next]_vars => Inv'
<1> SUFFICES ASSUME Inv, [Next]_vars PROVE Inv'
  OBVIOUS
<1> USE DEF Inv
<1>1. CASE Compute
  <2>1. TypeOK'
    BY <1>1, ComputeType
  <2>2. UNCHANGED <<ret_addr_stack, cur>>
    BY <1>1 DEF Compute, MovRI, MovRR, MovRC, Dec, Arithmetic, Power,
                Comparison, Connective, LocalGet, VmcIn, OnlyRegs
  <2> QED
    BY <2>1, <2>2 DEF FrameDiscipline
<1>2. CASE Branch
  <2>1. UNCHANGED <<ret_addr_stack, cur>>
    BY <1>2 DEF Branch, Jmp, IfTrue, IfFalse, FuncCreate, Skip, OnlyPc
  <2> QED
    BY <1>2, <2>1, BranchType DEF FrameDiscipline
<1>3. CASE LocalSet
  <2>1. UNCHANGED ret_addr_stack
    BY <1>3 DEF LocalSet
  <2> QED
    BY <1>3, <2>1, LocalSetType DEF FrameDiscipline
<1>4. CASE VmcOut
  <2>1. UNCHANGED <<ret_addr_stack, cur>>
    BY <1>4 DEF VmcOut
  <2> QED
    BY <1>4, <2>1, VmcOutType DEF FrameDiscipline
<1>5. CASE FCall
  <2>1. TypeOK'
    BY <1>5, FCallType
  <2>2. Len(ret_addr_stack') = Len(ret_addr_stack) + 1 /\ Len(cur') = Len(cur) + 1
    BY <1>5 DEF FCall, TypeOK
  <2> QED
    BY <2>1, <2>2 DEF FrameDiscipline, TypeOK
<1>6. CASE FRet
  <2>1. TypeOK'
    BY <1>6, FRetType
  <2>2. ret_addr_stack # <<>> /\ cur # <<>>
    BY <1>6 DEF FRet, Ready, Defined, FrameDiscipline, TypeOK
  <2>3. Len(ret_addr_stack') = Len(ret_addr_stack) - 1 /\ Len(cur') = Len(cur) - 1
    BY <1>6, <2>2, ButLastType DEF FRet, TypeOK
  <2> QED
    BY <2>1, <2>3 DEF FrameDiscipline, TypeOK
<1>7. CASE Stop
  BY <1>7, StopType DEF FrameDiscipline
<1>8. CASE Stopped \/ UNCHANGED vars
  <2>1. UNCHANGED vars
    BY <1>8 DEF Stopped
  <2> QED
    BY <2>1 DEF vars, TypeOK, FrameDiscipline
<1> QED
  BY <1>1, <1>2, <1>3, <1>4, <1>5, <1>6, <1>7, <1>8 DEF Next, Run

THEOREM Invariance == Spec => []Inv
  BY InitInv, StepInv, PTL DEF Spec

\* Registers, frames and output keep their types under every program, also
\* one whose execution becomes undefined.
THEOREM TypeCorrect == Spec => []TypeOK
<1>1. Inv => TypeOK
  BY DEF Inv
<1> QED
  BY <1>1, Invariance, PTL

\* The return stack and the frame stack are always in step.
THEOREM StacksInStep == Spec => []FrameDiscipline
<1>1. Inv => FrameDiscipline
  BY DEF Inv
<1> QED
  BY <1>1, Invariance, PTL

\* Pending calls read the stacks through return addresses and saved registers.
LEMMA PendingSame ==
    ASSUME Inv, UNCHANGED ret_addr_stack,
           \A i \in 1 .. Len(cur) : cur'[i].save_regs = cur[i].save_regs
    PROVE  UNCHANGED PendingCalls
<1>1. \A i \in 1 .. Len(ret_addr_stack) : i + 1 \in 1 .. Len(cur)
  BY DEF Inv, TypeOK, FrameDiscipline
<1> QED
  BY <1>1 DEF PendingCalls

LEMMA FCallCalls == Inv /\ FCall => Calls!Call
<1> SUFFICES ASSUME Inv, FCall PROVE Calls!Call
  OBVIOUS
<1> DEFINE n == Len(ret_addr_stack)
<1>1. n \in Nat /\ Len(cur) = n + 1
  BY DEF Inv, TypeOK, FrameDiscipline
<1>2. /\ ret_addr_stack' = Append(ret_addr_stack, pc + 1)
      /\ cur' = Append(cur, NewFrame(Arg(2)))
      /\ regs' = regs
      /\ ret_addr_stack \in Seq(Int) /\ cur \in Seq(Frames)
  BY DEF FCall, Inv, TypeOK
<1> HIDE DEF n
<1>3. /\ Len(ret_addr_stack') = n + 1
      /\ ret_addr_stack'[n + 1] = pc + 1
      /\ \A i \in 1 .. n : ret_addr_stack'[i] = ret_addr_stack[i]
  BY <1>2 DEF n
<1>4. cur'[n + 2] = NewFrame(Arg(2))
  BY <1>1, <1>2
<1>5. \A i \in 1 .. n : cur'[i + 1] = cur[i + 1]
  BY <1>1, <1>2
<1>6. LiveContext' = LiveContext
  BY <1>2 DEF LiveContext
<1>7. [r \in Saved |-> View(NewFrame(Arg(2)).save_regs[r])] = LiveContext
  <2>1. Saved \subseteq Registers
    BY RegsAssumption DEF Saved, Registers, REG_COUNT_INDEX_MAX
  <2>2. ASSUME NEW r \in Saved
        PROVE  View(NewFrame(Arg(2)).save_regs[r]) = View(regs[r])
    <3>1. NewFrame(Arg(2)).save_regs[r] = assign(DefaultValue, regs[r])
      BY DEF NewFrame
    <3>2. regs[r] \in Values
      BY <2>1 DEF Inv, TypeOK
    <3> QED
      BY <3>1, <3>2, DefaultType, AssignView
  <2> QED
    BY <2>2 DEF LiveContext
<1> DEFINE new == [ret |-> pc + 1, saved |-> LiveContext]
           call(i) == [ret |-> ret_addr_stack[i],
                       saved |-> [r \in Saved |-> View(cur[i + 1].save_regs[r])]]
<1>8. PendingCalls = [i \in 1 .. n |-> call(i)]
  BY DEF PendingCalls, n
<1>9. PendingCalls' = [i \in 1 .. n + 1 |-> IF i <= n THEN call(i) ELSE new]
  <2>1. PendingCalls' =
           [i \in 1 .. n + 1 |->
              [ret |-> ret_addr_stack'[i],
               saved |-> [r \in Saved |-> View(cur'[i + 1].save_regs[r])]]]
    BY <1>3 DEF PendingCalls
  <2>2. ASSUME NEW i \in 1 .. n + 1
        PROVE  [ret |-> ret_addr_stack'[i],
                saved |-> [r \in Saved |-> View(cur'[i + 1].save_regs[r])]]
               = IF i <= n THEN call(i) ELSE new
    <3>1. CASE i <= n
      <4>1. i \in 1 .. n
        BY <1>1, <3>1
      <4> QED
        BY <4>1, <1>3, <1>5
    <3>2. CASE ~(i <= n)
      <4>1. i = n + 1 /\ i + 1 = n + 2
        BY <1>1, <3>2
      <4> QED
        BY <4>1, <3>2, <1>3, <1>4, <1>7
    <3> QED
      BY <3>1, <3>2
  <2> QED
    BY <2>1, <2>2
<1>10. PendingCalls' = Append(PendingCalls, new)
  <2> HIDE DEF new, call
  <2> QED
    BY <1>1, <1>8, <1>9
<1> QED
  BY <1>6, <1>10 DEF Calls!Call

LEMMA FRetReturns == Inv /\ FRet => Calls!Return
<1> SUFFICES ASSUME Inv, FRet PROVE Calls!Return
  OBVIOUS
<1> DEFINE n == Len(ret_addr_stack)
<1>1. n \in Nat /\ n > 0 /\ Len(cur) = n + 1 /\ ret_addr_stack # <<>>
  BY DEF Inv, TypeOK, FrameDiscipline, FRet, Ready, Defined
<1>2. ret_addr_stack \in Seq(Int) /\ cur \in Seq(Frames) /\ cur # <<>>
  BY <1>1 DEF Inv, TypeOK
<1>3. /\ Len(ret_addr_stack') = n - 1
      /\ \A i \in 1 .. n - 1 : ret_addr_stack'[i] = ret_addr_stack[i]
  BY <1>1, <1>2, ButLastType DEF FRet
<1>4. \A i \in 1 .. Len(cur) - 1 : cur'[i] = cur[i]
  BY <1>2, ButLastType DEF FRet
<1>5. \A i \in 1 .. n - 1 : cur'[i + 1] = cur[i + 1]
  BY <1>1, <1>4
<1> DEFINE call(i) == [ret |-> ret_addr_stack[i],
                       saved |-> [r \in Saved |-> View(cur[i + 1].save_regs[r])]]
<1>6. PendingCalls = [i \in 1 .. n |-> call(i)]
  BY DEF PendingCalls
<1>7. PendingCalls' = [i \in 1 .. n - 1 |-> call(i)]
  <2>1. PendingCalls' =
           [i \in 1 .. n - 1 |->
              [ret |-> ret_addr_stack'[i],
               saved |-> [r \in Saved |-> View(cur'[i + 1].save_regs[r])]]]
    BY <1>3 DEF PendingCalls
  <2> QED
    BY <2>1, <1>3, <1>5
<1>8. LiveContext' = call(n).saved
  <2>1. cur[n + 1] \in Frames /\ Back = n + 1
    BY <1>1, <1>2 DEF Back
  <2>2. Saved \subseteq Registers
    BY RegsAssumption DEF Saved, Registers, REG_COUNT_INDEX_MAX
  <2>3. ASSUME NEW r \in Saved
        PROVE  View(regs'[r]) = View(cur[n + 1].save_regs[r])
    <3>1. regs'[r] = assign(regs[r], cur[n + 1].save_regs[r])
      BY <2>1, <2>2 DEF FRet
    <3>2. regs[r] \in Values /\ cur[n + 1].save_regs[r] \in Values
      BY <2>1, <2>2 DEF Inv, TypeOK, Frames
    <3> QED
      BY <3>1, <3>2, AssignView
  <2> QED
    BY <2>3 DEF LiveContext
<1>9. pc' = call(n).ret
  BY DEF FRet
<1>10. /\ PendingCalls # <<>>
       /\ Len(PendingCalls) = n
       /\ PendingCalls[n] = call(n)
       /\ PendingCalls' = SubSeq(PendingCalls, 1, n - 1)
  <2> HIDE DEF n, call
  <2> QED
    BY <1>1, <1>6, <1>7
<1> QED
  BY <1>8, <1>9, <1>10 DEF Calls!Return

\* Every step of the machine is a call, a return or work between them.
LEMMA StepImplements == Inv /\ [Next]_vars => [Calls!CSNext]_Calls!CSvars
<1> SUFFICES ASSUME Inv, [Next]_vars
             PROVE  Calls!CSNext \/ UNCHANGED Calls!CSvars
  OBVIOUS
<1>1. CASE FCall
  BY <1>1, FCallCalls DEF Calls!CSNext
<1>2. CASE FRet
  BY <1>2, FRetReturns DEF Calls!CSNext
<1>3. CASE LocalSet
  <2>1. UNCHANGED ret_addr_stack
    BY <1>3 DEF LocalSet
  <2>2. \A i \in 1 .. Len(cur) : cur'[i].save_regs = cur[i].save_regs
    BY <1>3, LocalSetType DEF Inv
  <2> QED
    BY <2>1, <2>2, PendingSame DEF Calls!CSNext, Calls!Work
<1>4. CASE Compute \/ Branch \/ VmcOut \/ Stop \/ Stopped \/ UNCHANGED vars
  <2>1. UNCHANGED <<ret_addr_stack, cur>>
    BY <1>4 DEF Compute, MovRI, MovRR, MovRC, Dec, Arithmetic, Power,
                Comparison, Connective, LocalGet, VmcIn, OnlyRegs,
                Branch, Jmp, IfTrue, IfFalse, FuncCreate, Skip, OnlyPc, VmcOut,
                Stop, Halt, VmcExit, VmcForeign, Undefined, Fault, Stopped, vars
  <2> QED
    BY <2>1, PendingSame DEF Calls!CSNext, Calls!Work
<1> QED
  BY <1>1, <1>2, <1>3, <1>4 DEF Next, Run

\* The machine implements the calling convention, for every program.
THEOREM CallingConvention == Spec => ImplementsCallStack
<1>1. Init => Calls!CSInit
  BY DEF Init, InitMachine, Calls!CSInit, PendingCalls
<1> QED
  BY <1>1, Invariance, StepImplements, PTL
     DEF Spec, ImplementsCallStack, Calls!CSSpec

-----------------------------------------------------------------------------
(* Division on words of any size: DIV and MOD of the same operands fit     *)
(* together as C++ requires, through the wrapping of operands and results. *)

\* A dividend is the quotient times the divisor plus a remainder in range.
LEMMA Division ==
    ASSUME NEW x \in Int, NEW n \in Nat, n > 0
    PROVE  /\ x \div n \in Int /\ x % n \in 0 .. n - 1
           /\ x = n * (x \div n) + (x % n)
  OBVIOUS

\* The bytes of a stored integer are that integer, up to a multiple of the
\* number of words.
LEMMA Wraps ==
    ASSUME NEW t, NEW w \in Int
    PROVE  /\ u64(Bits(t, w)) \in 0 .. WORD - 1
           /\ \E k \in Int : w = u64(Bits(t, w)) + k * WORD
<1> DEFINE lo == w % BYTE
           q == w \div BYTE
           hi == q % HIGH
           p == q \div HIGH
<1>1. BYTE \in Nat /\ BYTE > 0 /\ HIGH \in Nat /\ HIGH > 0
  BY ByteAssumption, HighAssumption
<1>2. q \in Int /\ lo \in 0 .. BYTE - 1 /\ w = BYTE * q + lo
  BY <1>1, Division
<1> HIDE DEF lo, q
<1>3. p \in Int /\ hi \in 0 .. HIGH - 1 /\ q = HIGH * p + hi
  BY <1>1, <1>2, Division
<1> HIDE DEF hi, p
<1>4. u64(Bits(t, w)) = lo + BYTE * hi
  BY DEF u64, Bits, lo, q, hi
<1>5. lo + BYTE * hi \in 0 .. WORD - 1
  <2>1. BYTE * hi \in Nat /\ BYTE * hi <= BYTE * (HIGH - 1)
    BY <1>1, <1>3
  <2>2. BYTE * (HIGH - 1) = BYTE * HIGH - BYTE /\ BYTE * HIGH \in Nat
    BY <1>1
  <2> QED
    BY <1>1, <1>2, <2>1, <2>2 DEF WORD
<1>6. w = (lo + BYTE * hi) + p * WORD
  <2>1. BYTE * (HIGH * p + hi) = p * (BYTE * HIGH) + BYTE * hi
    BY <1>1, <1>3
  <2>2. BYTE * hi \in Int /\ p * (BYTE * HIGH) \in Int
    BY <1>1, <1>3
  <2> QED
    BY <1>2, <1>3, <2>1, <2>2 DEF WORD
<1> QED
  BY <1>3, <1>4, <1>5, <1>6

\* The integers that a word stands for.
Signed(w) == w \in Int /\ -WORD <= 2 * w /\ 2 * w < WORD

\* Two of them that differ by a multiple of the number of words are equal.
LEMMA OneWord ==
    ASSUME NEW x, NEW y, NEW W \in Nat, NEW k \in Int, x \in Int, y \in Int,
           -W <= 2 * x, 2 * x < W, -W <= 2 * y, 2 * y < W, x = y + k * W
    PROVE  x = y
<1>1. k * W \in Int /\ k * W < W /\ -W < k * W
  <2>1. k * W \in Int
    OBVIOUS
  <2> DEFINE d == k * W
  <2> HIDE DEF d
  <2>2. x = y + d /\ d \in Int
    BY <2>1 DEF d
  <2>3. d < W /\ -W < d
    BY <2>2
  <2> QED
    BY <2>2, <2>3 DEF d
<1>2. k = 0 \/ k >= 1 \/ k <= -1
  OBVIOUS
<1>3. k >= 1 => k * W >= W
  OBVIOUS
<1>4. k <= -1 => k * W <= -W
  OBVIOUS
<1>5. k = 0
  BY <1>1, <1>2, <1>3, <1>4
<1> QED
  BY <1>5

\* A word is read as an integer of that range.
LEMMA SignedWord ==
    ASSUME NEW t, NEW w \in Int
    PROVE  /\ Signed(i64(Bits(t, w)))
           /\ \E k \in Int : w = i64(Bits(t, w)) + k * WORD
<1> DEFINE u == u64(Bits(t, w))
<1>1. u \in 0 .. WORD - 1 /\ WORD \in Nat
  BY Wraps, WordType
<1>2. PICK k \in Int : w = u + k * WORD
  BY Wraps
<1>3. i64(Bits(t, w)) = IF 2 * u >= WORD THEN u - WORD ELSE u
  BY DEF i64
<1> HIDE DEF u
<1>4. Signed(i64(Bits(t, w)))
  BY <1>1, <1>3 DEF Signed
<1>5. CASE 2 * u >= WORD
  <2>1. u + k * WORD = (u - WORD) + (k + 1) * WORD /\ k + 1 \in Int
    BY <1>1
  <2> QED
    BY <1>2, <1>3, <1>4, <1>5, <2>1
<1>6. CASE ~(2 * u >= WORD)
  BY <1>2, <1>3, <1>4, <1>6
<1> QED
  BY <1>5, <1>6

\* What is in range is stored and read back unchanged.
LEMMA ReadBack ==
    ASSUME NEW w, Signed(w)
    PROVE  i64(Int64(w)) = w
<1> DEFINE r == i64(Bits("Int", w))
<1>1. w \in Int /\ Signed(r)
  BY SignedWord DEF Signed
<1>2. PICK k \in Int : w = r + k * WORD
  BY <1>1, SignedWord
<1>3. w = r
  BY <1>1, <1>2, OneWord, WordType DEF Signed
<1> QED
  BY <1>3 DEF Int64

-----------------------------------------------------------------------------
(* Division of C++. *)

\* Quotient and remainder of any integers.
LEMMA Truncated ==
    ASSUME NEW a \in Int, NEW b \in Int, b # 0
    PROVE  /\ TruncDiv(a, b) \in Int /\ TruncMod(a, b) \in Int
           /\ TruncDiv(a, b) * b + TruncMod(a, b) = a
           /\ Abs(TruncMod(a, b)) < Abs(b)
           /\ TruncMod(a, b) # 0 => (TruncMod(a, b) < 0) = (a < 0)
           /\ Abs(TruncDiv(a, b)) * Abs(b) <= Abs(a)
<1> DEFINE m == Abs(a)
           n == Abs(b)
           q == m \div n
           r == m % n
<1>1. /\ m \in Nat /\ n \in Nat /\ n > 0
      /\ (a < 0 => a = -m) /\ (~(a < 0) => a = m)
      /\ (b < 0 => b = -n) /\ (~(b < 0) => b = n)
  BY DEF Abs
<1> HIDE DEF m, n
<1>2. q \in Int /\ r \in 0 .. n - 1 /\ m = n * q + r
  BY <1>1, Division
<1>3. /\ TruncDiv(a, b) = IF (a < 0) = (b < 0) THEN q ELSE -q
      /\ TruncMod(a, b) = IF a < 0 THEN -r ELSE r
  BY DEF TruncDiv, TruncMod, m, n
<1> HIDE DEF q, r
<1>4. q >= 0
  <2>1. q <= -1 => n * q <= -n
    BY <1>1, <1>2
  <2>2. n * q \in Int
    BY <1>1, <1>2
  <2> QED
    BY <1>1, <1>2, <2>1, <2>2
<1>5. /\ q * n = n * q /\ (-q) * n = -(n * q) /\ q * (-n) = -(n * q) /\ (-q) * (-n) = n * q
      /\ n * q \in Int
  BY <1>1, <1>2
<1>6. /\ TruncDiv(a, b) \in Int /\ TruncMod(a, b) \in Int
      /\ Abs(TruncDiv(a, b)) = q /\ Abs(TruncMod(a, b)) = r
  BY <1>2, <1>3, <1>4 DEF Abs
<1>7. TruncDiv(a, b) * b + TruncMod(a, b) = a
  <2>1. CASE a < 0 /\ b < 0
    BY <1>1, <1>2, <1>3, <1>5, <2>1
  <2>2. CASE a < 0 /\ ~(b < 0)
    BY <1>1, <1>2, <1>3, <1>5, <2>2
  <2>3. CASE ~(a < 0) /\ b < 0
    BY <1>1, <1>2, <1>3, <1>5, <2>3
  <2>4. CASE ~(a < 0) /\ ~(b < 0)
    BY <1>1, <1>2, <1>3, <1>5, <2>4
  <2> QED
    BY <2>1, <2>2, <2>3, <2>4
<1>8. TruncMod(a, b) # 0 => (TruncMod(a, b) < 0) = (a < 0)
  BY <1>2, <1>3
<1>9. Abs(TruncMod(a, b)) < Abs(b) /\ Abs(TruncDiv(a, b)) * Abs(b) <= Abs(a)
  BY <1>1, <1>2, <1>5, <1>6 DEF m, n
<1> QED
  BY <1>6, <1>7, <1>8, <1>9

\* Unless the processor refuses to divide, both results are in range.
LEMMA InRange ==
    ASSUME NEW a, NEW b, Signed(a), Signed(b), b # 0, ~(b = -1 /\ 2 * a = -WORD)
    PROVE  Signed(TruncDiv(a, b)) /\ Signed(TruncMod(a, b))
<1>1. a \in Int /\ b \in Int /\ WORD \in Nat
  BY WordType DEF Signed
<1> DEFINE q == TruncDiv(a, b)
           r == TruncMod(a, b)
<1>2. /\ q \in Int /\ r \in Int /\ Abs(r) < Abs(b) /\ Abs(q) * Abs(b) <= Abs(a)
      /\ q * b + r = a
  BY <1>1, Truncated
<1> HIDE DEF q, r
<1>3. Abs(a) \in Nat /\ 2 * Abs(a) <= WORD /\ Abs(b) \in Nat /\ 2 * Abs(b) <= WORD /\ Abs(b) >= 1
  BY <1>1 DEF Abs, Signed
<1>4. Abs(q) \in Nat
  BY <1>2 DEF Abs
<1>5. Signed(r)
  BY <1>1, <1>2, <1>3 DEF Abs, Signed
<1>6. Abs(q) <= Abs(a)
  <2>1. Abs(q) <= Abs(q) * Abs(b)
    BY <1>3, <1>4
  <2>2. Abs(q) * Abs(b) \in Int
    BY <1>3, <1>4
  <2> QED
    BY <1>2, <1>3, <1>4, <2>1, <2>2
<1>7. 2 * q = WORD => FALSE
  <2> SUFFICES ASSUME 2 * q = WORD
               PROVE  FALSE
    OBVIOUS
  <2>1. Abs(q) = q /\ q > 0 /\ Abs(a) = q
    BY <1>1, <1>2, <1>3, <1>6 DEF Abs
  <2>2. Abs(b) = 1
    <3>1. Abs(b) >= 2 => q * Abs(b) >= q * 2
      BY <1>2, <1>3, <2>1
    <3>2. q * Abs(b) <= q
      BY <1>2, <2>1
    <3>3. q * Abs(b) \in Int
      BY <1>2, <1>3
    <3> QED
      BY <1>2, <1>3, <2>1, <3>1, <3>2, <3>3
  <2>3. 2 * a = -WORD /\ a = -q
    BY <1>1, <2>1 DEF Abs, Signed
  <2>4. b = 1 \/ b = -1
    BY <1>1, <2>2 DEF Abs
  <2>5. b = 1
    BY <2>3, <2>4
  <2>6. r = 0
    BY <1>2, <2>2 DEF Abs
  <2> QED
    BY <1>1, <1>2, <2>1, <2>3, <2>5, <2>6
<1>8. Signed(q)
  BY <1>1, <1>2, <1>3, <1>6, <1>7 DEF Abs, Signed
<1> QED
  BY <1>5, <1>8 DEF q, r

-----------------------------------------------------------------------------
(* The program that divides. *)

DivisionProgram(a, b) ==
    <<Op("MOV_RI", <<1, a>>), Op("MOV_RI", <<2, b>>), Op("DIV", <<3, 1, 2>>),
      Op("MOD", <<4, 1, 2>>), Op("HALT", <<0>>)>>

\* The processor divides x by y.
Divides(x, y) == y # 0 /\ ~(y = -1 /\ 2 * x = -WORD)

\* What the program has computed when it is at pc: the operands it loaded,
\* the quotient and the remainder of the integers they stand for.
Computed(a, b) ==
    LET x == i64(Int64(a))
        y == i64(Int64(b))
    IN  /\ pc \in 0 .. 4
        /\ pc > 0 => regs[1] = Int64(a)
        /\ pc > 1 => regs[2] = Int64(b)
        /\ pc > 2 => Divides(x, y) /\ regs[3] = Int64(TruncDiv(x, y))
        /\ pc > 3 => regs[4] = Int64(TruncMod(x, y))
        /\ status = "halted" => pc = 4

DivisionInv == \A a, b \in 0 .. WORD - 1 :
                   program = DivisionProgram(a, b) => Computed(a, b)

\* An instruction that does not stop the machine is run by its own handler.
LEMMA Handlers ==
    ASSUME Run, ~Undefined, ~Fault, status = "running"
    PROVE  /\ Fetch(pc).op = "MOV_RI" => MovRI
           /\ Fetch(pc).op \in {"DIV", "MOD"} => Arithmetic
           /\ Fetch(pc).op = "HALT" => Halt
  BY DEF Run, Compute, Branch, Stop, MovRI, MovRR, MovRC, Dec, Arithmetic, Power,
         Comparison, Connective, LocalGet, VmcIn, Jmp, IfTrue, IfFalse, FuncCreate,
         Skip, LocalSet, VmcOut, FCall, FRet, Halt, VmcExit, VmcForeign,
         Ready, At, Arith, Cmp, Logic, Inert

\* Every step of the machine adds one of these values or none.
LEMMA StepComputed ==
    ASSUME Inv, NEW a \in 0 .. WORD - 1, NEW b \in 0 .. WORD - 1,
           program = DivisionProgram(a, b), Computed(a, b), [Next]_vars
    PROVE  Computed(a, b)'
<1> DEFINE x == i64(Int64(a))
           y == i64(Int64(b))
<1>0. a \in Int /\ b \in Int /\ x \in Int /\ y \in Int
  BY SignedWord, WordType DEF Signed, Int64
<1>1. CASE UNCHANGED vars \/ Stopped
  BY <1>1 DEF Stopped, vars, Computed
<1>2. CASE Undefined \/ Fault
  BY <1>2 DEF Undefined, Fault, Computed
<1>3. CASE Run /\ ~Undefined /\ ~Fault /\ status = "running"
  <2>1. CASE pc = 0
    <3>1. Fetch(pc).op = "MOV_RI" /\ Arg(1) = 1 /\ Arg(2) = a
      BY <2>1 DEF Fetch, Arg, DivisionProgram, Op
    <3>2. pc' = 1 /\ regs' = [regs EXCEPT ![1] = Int64(a)] /\ status' = status
      BY <1>3, <2>1, <3>1, Handlers DEF MovRI, SetReg, Step, OnlyRegs
    <3>3. 1 \in Registers
      <4>1. Ready({"MOV_RI"})
        BY <1>3, <3>1, Handlers DEF MovRI
      <4>2. At({"MOV_RI", "MOV_RC", "IF_TRUE", "IF_FALSE", "DEC", "LOCAL_GET"})
        BY <4>1 DEF Ready, At
      <4> QED
        BY <3>1, <4>1, <4>2, OperandRegs
    <3>4. regs'[1] = Int64(a)
      BY <3>2, <3>3 DEF Inv, TypeOK
    <3> QED
      BY <1>3, <3>2, <3>4 DEF Computed
  <2>2. CASE pc = 1
    <3>1. Fetch(pc).op = "MOV_RI" /\ Arg(1) = 2 /\ Arg(2) = b
      BY <2>2 DEF Fetch, Arg, DivisionProgram, Op
    <3>2. pc' = 2 /\ regs' = [regs EXCEPT ![2] = Int64(b)] /\ status' = status
      BY <1>3, <2>2, <3>1, Handlers DEF MovRI, SetReg, Step, OnlyRegs
    <3>3. 2 \in Registers
      <4>1. Ready({"MOV_RI"})
        BY <1>3, <3>1, Handlers DEF MovRI
      <4>2. At({"MOV_RI", "MOV_RC", "IF_TRUE", "IF_FALSE", "DEC", "LOCAL_GET"})
        BY <4>1 DEF Ready, At
      <4> QED
        BY <3>1, <4>1, <4>2, OperandRegs
    <3>4. regs'[1] = Int64(a) /\ regs'[2] = Int64(b)
      BY <2>2, <3>2, <3>3 DEF Inv, TypeOK, Computed
    <3> QED
      BY <1>3, <3>2, <3>4 DEF Computed
  <2>3. CASE pc = 2
    <3>1. Fetch(pc).op = "DIV" /\ Arg(1) = 3 /\ Arg(2) = 1 /\ Arg(3) = 2
      BY <2>3 DEF Fetch, Arg, DivisionProgram, Op
    <3>2. Reg(2) = Int64(a) /\ Reg(3) = Int64(b)
      BY <2>3, <3>1 DEF Reg, Computed
    <3>3. Ready(Arith \ {"POW"}) /\ At(Ternary) /\ At({"DIV", "MOD"})
      BY <1>3, <3>1, Handlers DEF Arithmetic, Ready, At, Ternary, Arith
    <3>4. Divides(x, y)
      BY <3>2, <3>3 DEF Ready, Faults, Divides
    <3>5. /\ pc' = 3 /\ status' = status
          /\ regs' = [regs EXCEPT ![3] = Int64(TruncDiv(x, y))]
      BY <1>3, <2>3, <3>1, <3>2, Handlers
         DEF Arithmetic, SetReg, Step, OnlyRegs, Calc
    <3>6. 3 \in Registers
      BY <3>1, <3>3, OperandRegs
    <3>7. /\ regs'[1] = Int64(a) /\ regs'[2] = Int64(b)
          /\ regs'[3] = Int64(TruncDiv(x, y))
      BY <2>3, <3>5, <3>6 DEF Inv, TypeOK, Computed
    <3> QED
      BY <1>3, <3>4, <3>5, <3>7 DEF Computed
  <2>4. CASE pc = 3
    <3>1. Fetch(pc).op = "MOD" /\ Arg(1) = 4 /\ Arg(2) = 1 /\ Arg(3) = 2
      BY <2>4 DEF Fetch, Arg, DivisionProgram, Op
    <3>2. Reg(2) = Int64(a) /\ Reg(3) = Int64(b)
      BY <2>4, <3>1 DEF Reg, Computed
    <3>3. Ready(Arith \ {"POW"}) /\ At(Ternary)
      BY <1>3, <3>1, Handlers DEF Arithmetic, Ready, At, Ternary, Arith
    <3>5. /\ pc' = 4 /\ status' = status
          /\ regs' = [regs EXCEPT ![4] = Int64(TruncMod(x, y))]
      BY <1>3, <2>4, <3>1, <3>2, Handlers
         DEF Arithmetic, SetReg, Step, OnlyRegs, Calc
    <3>6. 4 \in Registers
      BY <3>1, <3>3, OperandRegs
    <3>7. /\ regs'[1] = Int64(a) /\ regs'[2] = Int64(b) /\ regs'[3] = regs[3]
          /\ regs'[4] = Int64(TruncMod(x, y))
      BY <2>4, <3>5, <3>6 DEF Inv, TypeOK, Computed
    <3> QED
      BY <1>3, <2>4, <3>5, <3>7 DEF Computed
  <2>5. CASE pc = 4
    <3>1. Fetch(pc).op = "HALT"
      BY <2>5 DEF Fetch, DivisionProgram, Op
    <3> QED
      BY <1>3, <2>5, <3>1, Handlers DEF Halt, Computed
  <2> QED
    BY <2>1, <2>2, <2>3, <2>4, <2>5 DEF Computed
<1>4. Run => status = "running"
  BY DEF Run, Compute, Branch, Stop, MovRI, MovRR, MovRC, Dec, Arithmetic, Power,
         Comparison, Connective, LocalGet, VmcIn, Jmp, IfTrue, IfFalse, FuncCreate,
         Skip, LocalSet, VmcOut, FCall, FRet, Halt, VmcExit, VmcForeign,
         Undefined, Fault, Ready, At
<1> QED
  BY <1>1, <1>2, <1>3, <1>4 DEF Next

LEMMA InitDivision == Init => DivisionInv
<1> SUFFICES ASSUME Init, NEW a \in 0 .. WORD - 1, NEW b \in 0 .. WORD - 1
             PROVE  Computed(a, b)
  BY DEF DivisionInv
<1> QED
  BY DEF Init, InitMachine, Computed

LEMMA StepDivision == Inv /\ DivisionInv /\ [Next]_vars => DivisionInv'
<1> SUFFICES ASSUME Inv, DivisionInv, [Next]_vars,
                    NEW a \in 0 .. WORD - 1, NEW b \in 0 .. WORD - 1,
                    program' = DivisionProgram(a, b)
             PROVE  Computed(a, b)'
  BY DEF DivisionInv
<1>1. program' = program
  BY DEF Next, Run, Compute, Branch, Stop, MovRI, MovRR, MovRC, Dec, Arithmetic, Power,
         Comparison, Connective, LocalGet, VmcIn, Jmp, IfTrue, IfFalse, FuncCreate,
         Skip, LocalSet, VmcOut, FCall, FRet, Halt, VmcExit, VmcForeign,
         Undefined, Fault, Stopped, OnlyRegs, OnlyPc, vars
<1> QED
  BY <1>1, StepComputed DEF DivisionInv

\* The values the program ends with are read back as the quotient and the
\* remainder that were stored: none of them wrapped.
LEMMA LawHolds == DivisionInv => DivisionLaw
<1> SUFFICES ASSUME DivisionInv, status = "halted", program \in DivisionPrograms
             PROVE  LET x == i64(regs[1])
                        y == i64(regs[2])
                        q == i64(regs[3])
                        r == i64(regs[4])
                    IN  /\ q * y + r = x
                        /\ Abs(r) < Abs(y)
                        /\ r # 0 => (r < 0) = (x < 0)
  BY DEF DivisionLaw
<1>0. PICK a \in 0 .. WORD - 1, b \in 0 .. WORD - 1 : program = DivisionProgram(a, b)
  BY DEF DivisionPrograms, DivisionProgram
<1> DEFINE x == i64(Int64(a))
           y == i64(Int64(b))
<1>1. /\ regs[1] = Int64(a) /\ regs[2] = Int64(b) /\ Divides(x, y)
      /\ regs[3] = Int64(TruncDiv(x, y)) /\ regs[4] = Int64(TruncMod(x, y))
  BY <1>0 DEF DivisionInv, Computed
<1>2. Signed(x) /\ Signed(y)
  BY SignedWord, WordType DEF Int64
<1> HIDE DEF x, y
<1>3. Signed(TruncDiv(x, y)) /\ Signed(TruncMod(x, y))
  BY <1>1, <1>2, InRange DEF Divides
<1>4. i64(regs[3]) = TruncDiv(x, y) /\ i64(regs[4]) = TruncMod(x, y)
  BY <1>1, <1>3, ReadBack
<1>5. /\ TruncDiv(x, y) * y + TruncMod(x, y) = x
      /\ Abs(TruncMod(x, y)) < Abs(y)
      /\ TruncMod(x, y) # 0 => (TruncMod(x, y) < 0) = (x < 0)
  BY <1>1, <1>2, Truncated DEF Divides, Signed
<1>6. i64(regs[1]) = x /\ i64(regs[2]) = y
  BY <1>1 DEF x, y
<1> QED
  BY <1>4, <1>5, <1>6

\* For words of every size: a program that divides two words and ends leaves
\* a quotient and a remainder that fit together as C++ requires.
THEOREM DivisionFits == Spec => []DivisionLaw
  BY Invariance, InitDivision, StepDivision, LawHolds, PTL DEF Spec
=============================================================================
