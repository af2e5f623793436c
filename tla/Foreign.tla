------------------------------ MODULE Foreign ------------------------------
(***************************************************************************)
(* The machine with its foreign functions: the virtual calls dyn_load,     *)
(* dyn_set and dyn_call (src/runtime/vmcall.cpp) and the libraries behind  *)
(* them (src/runtime/libloader.cpp).  VM stops in status "foreign" at such *)
(* a call; here the call is made and the machine goes on.                  *)
(*                                                                         *)
(* Names of libraries and symbols, and types, are read from the constant   *)
(* pool.  The functions of a library are found by the address of their     *)
(* name, not by the name, so an address is modelled by the offset in the   *)
(* pool and the buffer the pool was in; a std::vector that grows moves to  *)
(* a new buffer, and its capacity tells the buffers apart.                 *)
(***************************************************************************)
EXTENDS VM, Library, FiniteSets

VARIABLES libs,      \* the libraries loaded, each with the functions set in it
          errs,      \* how often a function was not found
          constants  \* the constant pool: size, capacity, what is known of its cells

InitForeign == InitMachine /\ libs = <<>> /\ errs = 0

fvars == <<libs, errs, constants>>

Calling(idx) == status = "foreign" /\ Arg(1) = idx

\* mutant: arguments are taken from register 253 on
ArgReg_late(i) == REG_COUNT_INDEX_MAX - i
ArgReg(i) == REG_COUNT_INDEX_MAX - (i - 1)
DynArg(i) == regs[ArgReg(i)]

Offset(v) == u64(v) - POOL
InPool(at) == at \in 0 .. constants.size - 1

\* the string, or the byte, at an offset; a place in the middle of a string
\* names no library, symbol or type
Contents(at) == IF \E c \in constants.cells : c.at = at
                THEN (CHOOSE c \in constants.cells : c.at = at).is ELSE "?"

\* the object a library lives in, below the end of the address space
LibPtr(l) == WORD - l
LibsAt(v) == {l \in 1 .. Len(libs) : LibPtr(l) = u64(v)}

\* set_reg_ptr: the word and not the tag
set_ptr(v, w) == Bits(v.type, w)

Resumed == /\ status' = "running"
           /\ Step
           /\ UNCHANGED <<program, build, ret_addr_stack, cur, out>>

Exits == /\ status' = "exited"
         /\ UNCHANGED <<program, build, pc, regs, ret_addr_stack, cur, out>>

-----------------------------------------------------------------------------
(* The calls. *)

DynLoad ==
    /\ Calling(3) /\ InPool(Offset(DynArg(1)))
    /\ LET name == Contents(Offset(DynArg(1)))
       IN  \/ /\ name \in DOMAIN Libraries
              /\ libs' = Append(libs, [name |-> name, funcs |-> {}])
              /\ SetReg(0, set_ptr(regs[0], LibPtr(Len(libs'))))
              /\ Resumed
           \/ /\ name \notin DOMAIN Libraries
              /\ UNCHANGED libs
              /\ Exits
    /\ UNCHANGED <<errs, constants>>

\* the types dyn_set reads, as many as register 251 says
ArgTypes == [i \in 1 .. u64(DynArg(4)) |-> Offset(DynArg(3)) + i - 1]

Setting == Calling(4) /\ LibsAt(DynArg(1)) # {}
SetDefined == /\ InPool(Offset(DynArg(2)))
              /\ \A i \in DOMAIN ArgTypes : InPool(ArgTypes[i])
              /\ InPool(Offset(DynArg(5)))

AddressOf(v) == [buffer |-> constants.cap, at |-> Offset(v)]

\* set_func; the first function under an address stays
DynSet ==
    /\ Setting /\ SetDefined
    /\ \E l \in LibsAt(DynArg(1)) :
          LET symbol == Contents(Offset(DynArg(2)))
              func == [key |-> AddressOf(DynArg(2)), symbol |-> symbol,
                       types |-> [i \in DOMAIN ArgTypes |-> Contents(ArgTypes[i])],
                       ret |-> Contents(Offset(DynArg(5)))]
              known == \E f \in libs[l].funcs : f.key = func.key
          IN  \/ /\ symbol \in Libraries[libs[l].name]
                 /\ libs' = IF known THEN libs
                            ELSE [libs EXCEPT ![l].funcs = @ \cup {func}]
                 /\ UNCHANGED regs
                 /\ Resumed
              \/ /\ symbol \notin Libraries[libs[l].name]
                 /\ UNCHANGED libs
                 /\ Exits
    /\ UNCHANGED <<errs, constants>>

\* the library is the one register 0 points to, the function is looked up by
\* the address in register 1
Named(l) == {f \in libs[l].funcs : f.key = AddressOf(regs[1])}

\* DynFunc::call: an argument is read as its type says
CArg(type, v) == IF type = "bool" THEN (IF 2 * v.lo >= BYTE THEN v.lo - BYTE ELSE v.lo)
                 ELSE i64(v)

CResult(f, w) ==
    CASE f.ret = "num"  -> Int64(w)
      [] f.ret = "bool" -> [regs[0] EXCEPT !.type = "Bool",
                                           !.lo = IF w = 0 THEN 0 ELSE 1]
      [] f.ret = "text" -> VoidPtr(w)
      [] f.ret = "null" -> VoidPtr(0)
      [] OTHER          -> regs[0]

\* what the function returns; declared with fewer parameters than it has, it
\* finds anything in the others
Returned(f) ==
    IF Len(f.types) >= Params[f.symbol]
    THEN {C(f.symbol, [i \in DOMAIN f.types |-> CArg(f.types[i], DynArg(i))])}
    ELSE 0 .. WORD - 1

\* an argument is looked for below register 0
TooMany(f) == Len(f.types) > REG_COUNT
CallDefined == \A l \in LibsAt(regs[0]) : \A f \in Named(l) : ~TooMany(f)

DynCall ==
    /\ Calling(5) /\ CallDefined
    /\ \E l \in LibsAt(regs[0]) :
          \/ /\ \E f \in Named(l) : \E w \in Returned(f) : SetReg(0, CResult(f, w))
             /\ UNCHANGED errs
          \/ /\ Named(l) = {}
             /\ errs' = errs + 1
             /\ UNCHANGED regs
    /\ Resumed
    /\ UNCHANGED <<libs, constants>>

\* a name or type read beyond the pool, a register that points to no library,
\* more arguments than registers
DynUndefined ==
    /\ \/ Calling(3) /\ ~InPool(Offset(DynArg(1)))
       \/ Calling(4) /\ ~(LibsAt(DynArg(1)) # {} /\ SetDefined)
       \/ Calling(5) /\ ~(LibsAt(regs[0]) # {} /\ CallDefined)
    /\ status' = "ub"
    /\ UNCHANGED <<program, build, pc, regs, ret_addr_stack, cur, out, fvars>>

ForeignRun == \/ Run /\ UNCHANGED fvars
              \/ DynLoad \/ DynSet \/ DynCall \/ DynUndefined

-----------------------------------------------------------------------------
\* A declared function stays callable: the lookup finds it as long as the
\* pool is in the buffer it was in at the declaration, and no longer, since
\* the map is keyed by the address of the name (libloader.hpp, funcs).
FoundUnlessMoved ==
    [][DynCall => \A l \in LibsAt(regs[0]) :
          \E f \in libs[l].funcs :
              /\ f.key.at = Offset(regs[1])
              /\ (errs' = errs) = (f.key.buffer = constants.cap)]_<<vars, fvars>>
=============================================================================
