--------------------------- MODULE ForeignProofs ---------------------------
(***************************************************************************)
(* The machine as compiled programs use it: foreign functions are called   *)
(* and return, and between the lines of a session the program is replaced  *)
(* and the constant pool may move.  What VMProofs shows of the machine     *)
(* holds all the while, for every program, library and pool.               *)
(***************************************************************************)
EXTENDS Foreign, VMProofs

allvars == <<vars, fvars>>

\* Another program, or a longer one, and another pool, for the same machine.
Reload ==
    /\ status \in {"running", "halted"}
    /\ status' \in {status, "running"}
    /\ program' \in Programs
    /\ UNCHANGED <<build, pc, regs, ret_addr_stack, cur, out, libs, errs>>

ForeignInit == program \in Programs /\ InitForeign
ForeignNext == ForeignRun \/ Reload
ForeignSpec == ForeignInit /\ [][ForeignNext]_allvars

-----------------------------------------------------------------------------
(* Libraries. *)

IsSequence(s) == \E S : s \in Seq(S)

\* The functions set in a library are functions it has, each with a list of
\* parameters, and one at most is found under an address.
Sound(lib) ==
    /\ lib = [name |-> lib.name, funcs |-> lib.funcs]
    /\ lib.name \in DOMAIN Libraries
    /\ \A f \in lib.funcs : f.symbol \in Libraries[lib.name] /\ IsSequence(f.types)
    /\ \A f, g \in lib.funcs : f.key = g.key => f = g

LibsSound == IsSequence(libs) /\ \A l \in 1 .. Len(libs) : Sound(libs[l])

\* The registers of arguments.
LEMMA ArgRegs == \A i \in 1 .. REG_COUNT : ArgReg(i) \in Registers
  BY RegsAssumption DEF ArgReg, Registers, REG_COUNT_INDEX_MAX

LEMMA LoadSound == ASSUME LibsSound, DynLoad PROVE LibsSound'
<1>1. CASE libs' = libs
  BY <1>1 DEF LibsSound
<1>2. CASE libs' # libs
  <2> DEFINE name == Contents(Offset(DynArg(1)))
             lib == [name |-> name, funcs |-> {}]
  <2>1. name \in DOMAIN Libraries /\ libs' = Append(libs, lib)
    BY <1>2 DEF DynLoad
  <2>2. Sound(lib)
    BY <2>1 DEF Sound
  <2> HIDE DEF lib
  <2>3. PICK S : libs \in Seq(S)
    BY DEF LibsSound, IsSequence
  <2>4. libs \in Seq(S \cup {lib}) /\ lib \in S \cup {lib}
    BY <2>3
  <2> DEFINE T == S \cup {lib}
  <2> HIDE DEF T
  <2>5. libs \in Seq(T) /\ lib \in T
    BY <2>4 DEF T
  <2>6. /\ libs' \in Seq(T) /\ Len(libs') = Len(libs) + 1 /\ Len(libs) \in Nat
        /\ libs'[Len(libs) + 1] = lib
        /\ \A l \in 1 .. Len(libs) : libs'[l] = libs[l]
    BY <2>1, <2>5
  <2>7. \A l \in 1 .. Len(libs') : l \in 1 .. Len(libs) \/ l = Len(libs) + 1
    BY <2>6
  <2> QED
    BY <2>2, <2>6, <2>7 DEF LibsSound, IsSequence
<1> QED
  BY <1>1, <1>2

LEMMA SetSound == ASSUME Inv, LibsSound, DynSet PROVE LibsSound'
<1>1. CASE libs' = libs
  BY <1>1 DEF LibsSound
<1>2. CASE libs' # libs
  <2> DEFINE symbol == Contents(Offset(DynArg(2)))
             types == [i \in DOMAIN ArgTypes |-> Contents(ArgTypes[i])]
             func == [key |-> AddressOf(DynArg(2)), symbol |-> symbol,
                      types |-> types, ret |-> Contents(Offset(DynArg(5)))]
  <2>1. PICK l \in LibsAt(DynArg(1)) :
            /\ symbol \in Libraries[libs[l].name]
            /\ ~(\E f \in libs[l].funcs : f.key = func.key)
            /\ libs' = [libs EXCEPT ![l].funcs = @ \cup {func}]
    BY <1>2 DEF DynSet
  <2>2. l \in 1 .. Len(libs) /\ Sound(libs[l])
    BY DEF LibsAt, LibsSound
  <2>3. IsSequence(types)
    <3>1. DynArg(4) \in Values
      BY ArgRegs, RegsAssumption DEF DynArg, Inv, TypeOK
    <3>2. u64(DynArg(4)) \in Nat
      BY <3>1, U64Type, WordType
    <3> DEFINE n == u64(DynArg(4))
               value(i) == Contents(Offset(DynArg(3)) + i - 1)
    <3>3. types = [i \in 1 .. n |-> value(i)]
      BY DEF ArgTypes
    <3> HIDE DEF n, value, types
    <3>4. types \in Seq({value(i) : i \in 1 .. n})
      BY <3>2, <3>3 DEF n
    <3> QED
      BY <3>4 DEF IsSequence
  <2>4. func.symbol = symbol /\ func.types = types
    OBVIOUS
  <2> HIDE DEF func, symbol, types
  <2> DEFINE lib == [name |-> libs[l].name, funcs |-> libs[l].funcs \cup {func}]
  <2>5. libs' = [libs EXCEPT ![l] = lib]
    <3> DEFINE record == [name |-> libs[l].name, funcs |-> libs[l].funcs]
    <3>1. [record EXCEPT !.funcs = libs[l].funcs \cup {func}] = lib
      OBVIOUS
    <3>2. libs[l] = record
      BY <2>2 DEF Sound
    <3> HIDE DEF lib, record
    <3>3. [libs[l] EXCEPT !.funcs = libs[l].funcs \cup {func}] = lib
      BY <3>1, <3>2
    <3> QED
      BY <2>1, <3>3
  <2>6. Sound(lib)
    <3>1. /\ lib = [name |-> lib.name, funcs |-> lib.funcs]
          /\ lib.name = libs[l].name /\ lib.funcs = libs[l].funcs \cup {func}
      OBVIOUS
    <3> HIDE DEF lib
    <3>2. ASSUME NEW f \in lib.funcs
          PROVE  f.symbol \in Libraries[lib.name] /\ IsSequence(f.types)
      <4>1. CASE f = func
        BY <2>1, <2>3, <2>4, <3>1, <4>1
      <4>2. CASE f \in libs[l].funcs
        BY <2>2, <3>1, <4>2 DEF Sound
      <4> QED
        BY <3>1, <4>1, <4>2
    <3>3. ASSUME NEW f \in lib.funcs, NEW g \in lib.funcs, f.key = g.key
          PROVE  f = g
      BY <2>1, <2>2, <3>1, <3>3 DEF Sound
    <3> QED
      BY <2>2, <3>1, <3>2, <3>3 DEF Sound
  <2> HIDE DEF lib
  <2>7. PICK S : libs \in Seq(S)
    BY DEF LibsSound, IsSequence
  <2> DEFINE T == S \cup {lib}
  <2>8. libs \in Seq(T) /\ lib \in T
    BY <2>7
  <2> HIDE DEF T
  <2>9. /\ libs' \in Seq(T) /\ Len(libs') = Len(libs)
        /\ libs'[l] = lib
        /\ \A k \in 1 .. Len(libs) : k # l => libs'[k] = libs[k]
    BY <2>2, <2>5, <2>8
  <2>10. \A k \in 1 .. Len(libs) : Sound(libs'[k])
    BY <2>6, <2>9 DEF LibsSound
  <2> QED
    BY <2>9, <2>10 DEF LibsSound, IsSequence
<1> QED
  BY <1>1, <1>2

\* A step of the machine changes the libraries by loading one or setting a
\* function.
LEMMA StepSound == ASSUME Inv, LibsSound, [ForeignNext]_allvars PROVE LibsSound'
<1>1. DynLoad \/ DynSet \/ UNCHANGED libs
  BY DEF ForeignNext, ForeignRun, Reload, DynCall, DynUndefined, fvars, allvars
<1> QED
  BY <1>1, LoadSound, SetSound DEF LibsSound

-----------------------------------------------------------------------------
(* Types. *)

\* The result of a C function is an integer, stored in register 0.
LEMMA CallType ==
    ASSUME Inv, LibsSound, DynCall
    PROVE  regs' \in [Registers -> Values]
<1> USE DEF Inv
<1>0. regs \in [Registers -> Values] /\ 0 \in Registers /\ WORD \in Nat
  BY RegsAssumption, WordType DEF TypeOK, Registers, REG_COUNT_INDEX_MAX
<1>1. CASE UNCHANGED regs
  BY <1>0, <1>1
<1>2. CASE ~UNCHANGED regs
  <2>1. PICK l \in LibsAt(regs[0]) :
            \E f \in Named(l) : \E w \in Returned(f) : SetReg(0, CResult(f, w))
    BY <1>2 DEF DynCall
  <2>2. PICK f \in Named(l) : \E w \in Returned(f) : SetReg(0, CResult(f, w))
    BY <2>1
  <2>w. PICK w \in Returned(f) : SetReg(0, CResult(f, w))
    BY <2>2
  <2>3. /\ Sound(libs[l]) /\ f \in libs[l].funcs /\ ~TooMany(f)
        /\ f.symbol \in Libraries[libs[l].name] /\ IsSequence(f.types)
        /\ libs[l].name \in DOMAIN Libraries
    BY <2>1, <2>2 DEF DynCall, CallDefined, Named, LibsAt, LibsSound, Sound
  <2>4. Len(f.types) \in Nat /\ DOMAIN f.types = 1 .. Len(f.types)
    BY <2>3 DEF IsSequence
  <2>5. ASSUME NEW i \in 1 .. Len(f.types)
        PROVE  CArg(f.types[i], DynArg(i)) \in Int
    <3>1. i \in 1 .. REG_COUNT
      BY <2>3, <2>4, RegsAssumption DEF TooMany
    <3>2. DynArg(i) \in Values
      BY <1>0, <3>1, ArgRegs DEF DynArg
    <3>3. i64(DynArg(i)) \in Int
      BY <3>2, I64Type
    <3>4. DynArg(i).lo \in Int /\ BYTE \in Int
      BY <3>2, ByteAssumption DEF Values
    <3> HIDE DEF DynArg
    <3> QED
      BY <3>3, <3>4 DEF CArg
  <2>6. w \in Int
    <3>1. f.symbol \in {"add", "inc", "odd"}
      BY <2>3 DEF Libraries
    <3> DEFINE args == [i \in DOMAIN f.types |-> CArg(f.types[i], DynArg(i))]
    <3>2. CASE Len(f.types) >= Params[f.symbol]
      <4>1. w = C(f.symbol, args)
        BY <2>w, <3>2 DEF Returned
      <4>2. Params[f.symbol] >= 1 /\ (f.symbol = "add" => Params[f.symbol] = 2)
        BY <3>1 DEF Params
      <4>3. \A i \in 1 .. Len(f.types) : args[i] \in Int
        BY <2>4, <2>5
      <4> HIDE DEF args
      <4>4. args[1] \in Int /\ (f.symbol = "add" => args[2] \in Int)
        BY <2>4, <3>1, <3>2, <4>2, <4>3 DEF Params
      <4> QED
        BY <3>1, <4>1, <4>4 DEF C
    <3>3. CASE ~(Len(f.types) >= Params[f.symbol])
      BY <1>0, <2>w, <3>3 DEF Returned
    <3> QED
      BY <3>2, <3>3
  <2>7. CResult(f, w) \in Values
    <3>1. regs[0] \in Values /\ 0 \in 0 .. BYTE - 1 /\ 1 \in 0 .. BYTE - 1
      BY <1>0, ByteAssumption
    <3>2. [regs[0] EXCEPT !.type = "Bool", !.lo = IF w = 0 THEN 0 ELSE 1] \in Values
      BY <3>1 DEF Values, ValueType
    <3>3. Int64(w) \in Values /\ VoidPtr(w) \in Values /\ VoidPtr(0) \in Values
      BY <2>6, BitsType DEF Int64, VoidPtr, ValueType
    <3> QED
      BY <3>1, <3>2, <3>3 DEF CResult
  <2> QED
    BY <1>0, <2>w, <2>7, SetRegType
<1> QED
  BY <1>1, <1>2

LEMMA LoadType ==
    ASSUME Inv, LibsSound, DynLoad
    PROVE  regs' \in [Registers -> Values]
<1>0. regs \in [Registers -> Values] /\ 0 \in Registers /\ WORD \in Nat
  BY RegsAssumption, WordType DEF Inv, TypeOK, Registers, REG_COUNT_INDEX_MAX
<1>1. regs' = regs \/ SetReg(0, set_ptr(regs[0], LibPtr(Len(libs'))))
  BY DEF DynLoad, Exits
<1>2. Len(libs') \in Nat
  BY LoadSound DEF LibsSound, IsSequence
<1>3. LibPtr(Len(libs')) \in Int
  BY <1>0, <1>2 DEF LibPtr
<1>4. regs[0].type \in ValueType
  BY <1>0 DEF Values
<1>5. set_ptr(regs[0], LibPtr(Len(libs'))) \in Values
  BY <1>3, <1>4, BitsType DEF set_ptr
<1> QED
  BY <1>0, <1>1, <1>5, SetRegType

\* A foreign call keeps to the registers.
LEMMA CallsKeep ==
    ASSUME Inv, LibsSound, DynLoad \/ DynSet \/ DynCall \/ DynUndefined
    PROVE  Inv' /\ UNCHANGED <<ret_addr_stack, cur>>
<1>1. regs' \in [Registers -> Values]
  <2>1. CASE DynSet \/ DynUndefined
    BY <2>1 DEF DynSet, Exits, DynUndefined, Inv, TypeOK
  <2> QED
    BY <2>1, LoadType, CallType
<1>2. /\ UNCHANGED <<program, build, ret_addr_stack, cur, out>>
      /\ pc' \in {pc, pc + 1}
      /\ status' \in {"running", "exited", "ub"}
  BY DEF DynLoad, DynSet, DynCall, DynUndefined, Resumed, Exits, Step
<1> QED
  BY <1>1, <1>2 DEF Inv, TypeOK, FrameDiscipline, Status

LEMMA ReloadKeeps ==
    ASSUME Inv, Reload
    PROVE  Inv' /\ UNCHANGED <<pc, regs, ret_addr_stack, cur>>
  BY ProgramsAssumption DEF Reload, Inv, TypeOK, FrameDiscipline, Status

-----------------------------------------------------------------------------
(* Theorems. *)

ForeignInv == Inv /\ LibsSound

LEMMA InitForeignInv == ForeignInit => ForeignInv
<1> SUFFICES ASSUME ForeignInit PROVE ForeignInv
  OBVIOUS
<1>1. Inv
  BY InitInv DEF ForeignInit, InitForeign, Init
<1>2. <<>> \in Seq({}) /\ Len(<<>>) = 0
  OBVIOUS
<1> QED
  BY <1>1, <1>2 DEF ForeignInv, ForeignInit, InitForeign, LibsSound, IsSequence

LEMMA ForeignCases ==
    ASSUME [ForeignNext]_allvars
    PROVE  \/ [Next]_vars
           \/ DynLoad \/ DynSet \/ DynCall \/ DynUndefined
           \/ Reload
  BY DEF ForeignNext, ForeignRun, Next, allvars

LEMMA StepForeignInv == ForeignInv /\ [ForeignNext]_allvars => ForeignInv'
<1> SUFFICES ASSUME ForeignInv, [ForeignNext]_allvars PROVE ForeignInv'
  OBVIOUS
<1>1. Inv'
  BY ForeignCases, StepInv, CallsKeep, ReloadKeeps DEF ForeignInv
<1> QED
  BY <1>1, StepSound DEF ForeignInv

THEOREM ForeignInvariance == ForeignSpec => []ForeignInv
  BY InitForeignInv, StepForeignInv, PTL DEF ForeignSpec

\* The machine stays well typed with foreign functions, whatever libraries
\* and functions the program loads and sets, and whatever they return.
THEOREM ForeignTypeCorrect == ForeignSpec => [](TypeOK /\ FrameDiscipline)
<1>1. ForeignInv => TypeOK /\ FrameDiscipline
  BY DEF ForeignInv, Inv
<1> QED
  BY <1>1, ForeignInvariance, PTL

\* A lookup finds one function at most: two functions declared under the same
\* address would be called at random.
THEOREM LookupUnique ==
    ForeignSpec => [](\A l \in 1 .. Len(libs) : \A f, g \in Named(l) : f = g)
<1>1. ForeignInv => \A l \in 1 .. Len(libs) : \A f, g \in Named(l) : f = g
  BY DEF ForeignInv, LibsSound, Sound, Named
<1> QED
  BY <1>1, ForeignInvariance, PTL

\* The calling convention holds across foreign calls and across the lines of
\* a session.
THEOREM ForeignCallingConvention == ForeignSpec => ImplementsCallStack
<1>1. ForeignInit => Calls!CSInit
  BY DEF ForeignInit, InitForeign, InitMachine, Calls!CSInit, PendingCalls
<1>2. ForeignInv /\ [ForeignNext]_allvars => [Calls!CSNext]_Calls!CSvars
  <2> SUFFICES ASSUME ForeignInv, [ForeignNext]_allvars
               PROVE  [Calls!CSNext]_Calls!CSvars
    OBVIOUS
  <2>1. CASE [Next]_vars
    BY <2>1, StepImplements DEF ForeignInv
  <2>2. CASE DynLoad \/ DynSet \/ DynCall \/ DynUndefined \/ Reload
    <3>1. UNCHANGED <<ret_addr_stack, cur>>
      BY <2>2, CallsKeep, ReloadKeeps DEF ForeignInv
    <3> QED
      BY <3>1, PendingSame DEF ForeignInv, Calls!CSNext, Calls!Work
  <2> QED
    BY <2>1, <2>2, ForeignCases
<1> QED
  BY <1>1, <1>2, ForeignInvariance, PTL
     DEF ForeignSpec, ImplementsCallStack, Calls!CSSpec
=============================================================================
