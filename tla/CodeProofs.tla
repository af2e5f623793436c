----------------------------- MODULE CodeProofs -----------------------------
(***************************************************************************)
(* What the code generator has emitted at any time: that calls enter       *)
(* functions, that jumps get their targets, and what the peephole of       *)
(* emit_mov_rr may change.                                                 *)
(***************************************************************************)
EXTENDS RegisterProofs

\* The instructions that can be the last one when ret_type is "Reg".
Retargetable == Ternary \cup {"MOV_RI", "MOV_RR", "MOV_RC", "LOCAL_GET", "DEC", "FRET", "HALT"}

RegLast(e) == e.ret_type = "Reg" => Emitted(e) > 0 /\ e.ops[Emitted(e)].op \in Retargetable

\* The last instruction of d has one of the registers R for its first operand.
Redirected(d, e, k, R) ==
    /\ k = Emitted(d) /\ d.ret_type = "Reg"
    /\ \E r \in R : e.ops[k] = [d.ops[k] EXCEPT !.operands[1] = r]

\* The instructions whose operand bytes are set.
Carrying == Ternary \cup Jumps \cup
            {"MOV_RI", "MOV_RR", "MOV_RC", "FCALL", "LOCAL_GET", "LOCAL_SET", "VMC", "DEC"}

\* An instruction that is no jump, writes only registers of W, calls only what
\* is in C, stops the machine only at the end of the program, and is zero
\* behind an opcode without operands.
Harmless(i, W, C) ==
    /\ i.op \notin Jumps /\ Writes(i) \subseteq W /\ (i.op = "FCALL" => i.operands \in C)
    /\ i.op = "HALT" => mode' = "done"
    /\ i.op \notin Carrying => i.operands = <<0>>

\* The code e is d with such instructions behind it, the last instruction of d
\* redirected at most.
Straight(d, e, R, W, C) ==
    /\ e \in Emitters /\ RegLast(e)
    /\ Emitted(d) \in Nat /\ Emitted(e) \in Nat /\ Emitted(d) <= Emitted(e)
    /\ Emitted(e) = Emitted(d) => e.ret_type = d.ret_type
    /\ \A k \in 1 .. Emitted(d) : e.ops[k] = d.ops[k] \/ Redirected(d, e, k, R)
    /\ \A k \in 1 .. Emitted(e) : k > Emitted(d) => Harmless(e.ops[k], W, C)

\* The operations of an instruction and what they are not.
LEMMA Operations ==
    /\ \A o \in Retargetable :
          /\ o \in Opcodes /\ o \notin Jumps
          /\ o \notin {"FCALL", "FUNC_CREATE", "LOCAL_SET", "VMC", "FUNC_END"}
    /\ \A o \in Ternary : o \in Retargetable /\ o \notin {"FRET", "HALT"}
    /\ Jumps \subseteq Opcodes
  BY DEF Retargetable, Ternary, Arith, Cmp, Logic, Opcodes, Jumps

\* One more such instruction.
LEMMA StraightLonger ==
    ASSUME NEW d, NEW R, NEW W, NEW C, NEW e, Straight(d, e, R, W, C),
           NEW f \in Emitters, NEW i, Longer(e, f, i), Harmless(i, W, C),
           f.ret_type = "Reg" => i.op \in Retargetable
    PROVE  Straight(d, f, R, W, C)
<1>1. /\ Emitted(f) = Emitted(e) + 1 /\ Emitted(e) \in Nat /\ f.ops[Emitted(e) + 1] = i
      /\ \A k \in 1 .. Emitted(e) : f.ops[k] = e.ops[k]
      /\ Emitted(d) \in Nat /\ Emitted(d) <= Emitted(e)
  BY DEF Longer, Straight
<1>2. RegLast(f)
  <2>1. Emitted(f) > 0 /\ f.ops[Emitted(f)] = i
    BY <1>1
  <2>2. f.ret_type = "Reg" => f.ops[Emitted(f)].op \in Retargetable
    BY <2>1
  <2> QED
    BY <2>1, <2>2 DEF RegLast
<1>3. \A k \in 1 .. Emitted(d) : f.ops[k] = d.ops[k] \/ Redirected(d, f, k, R)
  <2> TAKE k \in 1 .. Emitted(d)
  <2>1. k \in 1 .. Emitted(e)
    BY <1>1
  <2>2. f.ops[k] = e.ops[k] /\ (e.ops[k] = d.ops[k] \/ Redirected(d, e, k, R))
    BY <1>1, <2>1 DEF Straight
  <2> QED
    BY <2>2 DEF Redirected
<1>4. \A k \in 1 .. Emitted(f) : k > Emitted(d) => Harmless(f.ops[k], W, C)
  <2> TAKE k \in 1 .. Emitted(f)
  <2>1. k \in 1 .. Emitted(e) \/ k = Emitted(e) + 1
    BY <1>1
  <2> QED
    BY <1>1, <2>1 DEF Straight
<1>5. Emitted(f) \in Nat /\ Emitted(d) <= Emitted(f) /\ Emitted(f) # Emitted(d)
  BY <1>1
<1> QED
  BY <1>1, <1>2, <1>3, <1>4, <1>5 DEF Straight

\* ret_type after each emitter.
LEMMA RetTypes ==
    ASSUME NEW e
    PROVE  /\ \A x, y, r : /\ emit_local_set(e, x, y, r).ret_type = "Addr"
                           /\ emit_fcall(e, x, y).ret_type = "None"
                           /\ emit_jmp(e, x).ret_type = "None"
                           /\ emit_if_true(e, x, y).ret_type = "None"
                           /\ emit_if_false(e, x, y).ret_type = "None"
                           /\ emit_vmc(e, x).ret_type = "None"
           /\ emit_func_create(e).ret_type = "None"
           /\ emit_func_end(e).ret_type = "None"
  BY DEF emit_local_set, emit_fcall, emit_jmp, emit_if_true, emit_if_false, emit_vmc,
         emit_func_create, emit_func_end, emit

\* Every emitter but that of a jump appends such an instruction.
LEMMA StraightMore ==
    ASSUME NEW d, NEW R, NEW W, NEW C, NEW e, Straight(d, e, R, W, C)
    PROVE  /\ \A r, x \in Int : Narrow(r) \in W => Straight(d, emit_mov_ri(e, r, x), R, W, C)
           /\ \A r, x \in Int : Narrow(r) \in W => Straight(d, emit_mov_rc(e, r, x), R, W, C)
           /\ \A r, x, y \in Int :
                 Narrow(r) \in W => Straight(d, emit_local_get(e, r, x, y), R, W, C)
           /\ \A r, x, y \in Int : Straight(d, emit_local_set(e, x, y, r), R, W, C)
           /\ \A x, y \in Int : <<x, y>> \in C => Straight(d, emit_fcall(e, x, y), R, W, C)
           /\ Straight(d, emit_func_create(e), R, W, C)
           /\ Straight(d, emit_func_end(e), R, W, C)
           /\ \A x \in Int : Straight(d, emit_vmc(e, x), R, W, C)
           /\ \A o \in Ternary : \A r, q, p \in Int :
                 Narrow(r) \in W => Straight(d, emit_binary(e, o, r, q, p), R, W, C)
           /\ Straight(d, emit_fret(e), R, W, C)
<1>1. e \in Emitters
  BY DEF Straight
<1>2. ASSUME NEW f \in Emitters, NEW i, Longer(e, f, i), Harmless(i, W, C),
             f.ret_type = "Reg" => i.op \in Retargetable
      PROVE  Straight(d, f, R, W, C)
  BY <1>2, StraightLonger
<1>3. /\ \A o \in {"MOV_RI", "MOV_RC", "LOCAL_GET", "FRET"} : o \in Retargetable
      /\ \A o \in Ternary : o \in Retargetable
  BY DEF Retargetable
<1>4. \A o, a : Op(o, a).op = o /\ Op(o, a).operands = a
  BY DEF Op
<1>5. /\ \A o \in {"LOCAL_SET", "VMC"} : \A a : Harmless(Op(o, a), W, C)
      /\ \A o \in {"FUNC_CREATE", "FUNC_END", "FRET"} : Harmless(Op(o, <<0>>), W, C)
  BY <1>4 DEF Harmless, Writes, Jumps, Ternary, Arith, Cmp, Logic, Carrying
<1>6. \A o \in {"MOV_RI", "MOV_RC", "LOCAL_GET"} : \A a :
         a[1] \in W => Harmless(Op(o, a), W, C)
  BY <1>4 DEF Harmless, Writes, Jumps, Ternary, Arith, Cmp, Logic, Carrying
<1>7. \A o \in Ternary : \A a : a[1] \in W => Harmless(Op(o, a), W, C)
  BY <1>4 DEF Harmless, Writes, Jumps, Ternary, Arith, Cmp, Logic, Carrying
<1>8. \A a \in C : Harmless(Op("FCALL", a), W, C)
  BY <1>4 DEF Harmless, Writes, Jumps, Ternary, Arith, Cmp, Logic, Carrying
<1>10. ASSUME NEW r \in Int, NEW x \in Int, Narrow(r) \in W
       PROVE  /\ Straight(d, emit_mov_ri(e, r, x), R, W, C)
              /\ Straight(d, emit_mov_rc(e, r, x), R, W, C)
  <2>1. /\ emit_mov_ri(e, r, x) \in Emitters /\ emit_mov_rc(e, r, x) \in Emitters
        /\ Longer(e, emit_mov_ri(e, r, x), Op("MOV_RI", <<Narrow(r), x>>))
        /\ Longer(e, emit_mov_rc(e, r, x), Op("MOV_RC", <<Narrow(r), x>>))
    BY <1>1, Emits
  <2>2. /\ Harmless(Op("MOV_RI", <<Narrow(r), x>>), W, C)
        /\ Harmless(Op("MOV_RC", <<Narrow(r), x>>), W, C)
        /\ Op("MOV_RI", <<Narrow(r), x>>).op \in Retargetable
        /\ Op("MOV_RC", <<Narrow(r), x>>).op \in Retargetable
    BY <1>3, <1>4, <1>6, <1>10
  <2> QED
    BY <1>2, <2>1, <2>2
<1>11. ASSUME NEW r \in Int, NEW x \in Int, NEW y \in Int, Narrow(r) \in W
       PROVE  Straight(d, emit_local_get(e, r, x, y), R, W, C)
  <2>1. /\ emit_local_get(e, r, x, y) \in Emitters
        /\ Longer(e, emit_local_get(e, r, x, y), Op("LOCAL_GET", <<Narrow(r), x, y>>))
    BY <1>1, Emits
  <2>2. /\ Harmless(Op("LOCAL_GET", <<Narrow(r), x, y>>), W, C)
        /\ Op("LOCAL_GET", <<Narrow(r), x, y>>).op \in Retargetable
    BY <1>3, <1>4, <1>6, <1>11
  <2> QED
    BY <1>2, <2>1, <2>2
<1>12. ASSUME NEW r \in Int, NEW x \in Int, NEW y \in Int
       PROVE  Straight(d, emit_local_set(e, x, y, r), R, W, C)
  <2>1. /\ emit_local_set(e, x, y, r) \in Emitters
        /\ Longer(e, emit_local_set(e, x, y, r), Op("LOCAL_SET", <<x, y, Narrow(r)>>))
        /\ emit_local_set(e, x, y, r).ret_type = "Addr"
    BY <1>1, Emits, RetTypes
  <2> QED
    BY <1>2, <1>5, <2>1
<1>13. ASSUME NEW x \in Int, NEW y \in Int, <<x, y>> \in C
       PROVE  Straight(d, emit_fcall(e, x, y), R, W, C)
  <2>1. /\ emit_fcall(e, x, y) \in Emitters
        /\ Longer(e, emit_fcall(e, x, y), Op("FCALL", <<x, y>>))
        /\ emit_fcall(e, x, y).ret_type = "None"
    BY <1>1, Emits, RetTypes
  <2> QED
    BY <1>2, <1>8, <1>13, <2>1
<1>14. Straight(d, emit_func_create(e), R, W, C) /\ Straight(d, emit_func_end(e), R, W, C)
  <2>1. /\ emit_func_create(e) \in Emitters /\ emit_func_end(e) \in Emitters
        /\ Longer(e, emit_func_create(e), Op("FUNC_CREATE", <<0>>))
        /\ Longer(e, emit_func_end(e), Op("FUNC_END", <<0>>))
        /\ emit_func_create(e).ret_type = "None" /\ emit_func_end(e).ret_type = "None"
    BY <1>1, Emits, RetTypes
  <2> QED
    BY <1>2, <1>5, <2>1
<1>15. ASSUME NEW x \in Int
       PROVE  Straight(d, emit_vmc(e, x), R, W, C)
  <2>1. /\ emit_vmc(e, x) \in Emitters
        /\ Longer(e, emit_vmc(e, x), Op("VMC", <<x>>))
        /\ emit_vmc(e, x).ret_type = "None"
    BY <1>1, Emits, RetTypes
  <2> QED
    BY <1>2, <1>5, <2>1
<1>16. ASSUME NEW o \in Ternary, NEW r \in Int, NEW q \in Int, NEW p \in Int, Narrow(r) \in W
       PROVE  Straight(d, emit_binary(e, o, r, q, p), R, W, C)
  <2> DEFINE a == <<Narrow(r), Narrow(q), Narrow(p)>>
  <2>1. /\ emit_binary(e, o, r, q, p) \in Emitters
        /\ Longer(e, emit_binary(e, o, r, q, p), Op(o, a))
    BY <1>1, Emits
  <2>2. a[1] = Narrow(r)
    OBVIOUS
  <2> HIDE DEF a
  <2>3. Harmless(Op(o, a), W, C) /\ Op(o, a).op \in Retargetable
    BY <1>3, <1>4, <1>7, <1>16, <2>2
  <2> QED
    BY <1>2, <2>1, <2>3
<1>17. Straight(d, emit_fret(e), R, W, C)
  <2>1. CASE emit_fret(e) = e
    BY <2>1
  <2>2. CASE Longer(e, emit_fret(e), Op("FRET", <<0>>))
    <3>1. emit_fret(e) \in Emitters
      BY <1>1, EmitsFret
    <3>2. Op("FRET", <<0>>).op \in Retargetable
      BY <1>3, <1>4
    <3> QED
      BY <1>2, <1>5, <2>2, <3>1, <3>2
  <2> QED
    BY <1>1, <2>1, <2>2, EmitsFret
<1> QED
  BY <1>10, <1>11, <1>12, <1>13, <1>14, <1>15, <1>16, <1>17

\* An instruction with another first operand.
LEMMA Retargeted ==
    ASSUME NEW i \in Instructions, NEW r \in Int
    PROVE  /\ [i EXCEPT !.operands[1] = r].op = i.op
           /\ [i EXCEPT !.operands[1] = r].operands[1] = r
           /\ Writes([i EXCEPT !.operands[1] = r]) \subseteq {r}
           /\ \A q \in Int : [[i EXCEPT !.operands[1] = q] EXCEPT !.operands[1] = r]
                                = [i EXCEPT !.operands[1] = r]
<1>1. i \in [op : Opcodes, operands : Seq(Int)] /\ Len(i.operands) \in {1, 2, 3}
  BY Arities DEF Instructions
<1>2. 1 \in DOMAIN i.operands
  BY <1>1
<1>3. [i EXCEPT !.operands[1] = r].op = i.op /\ [i EXCEPT !.operands[1] = r].operands[1] = r
  BY <1>1, <1>2
<1>4. ASSUME NEW q \in Int
      PROVE  [[i EXCEPT !.operands[1] = q] EXCEPT !.operands[1] = r] = [i EXCEPT !.operands[1] = r]
  <2>1. [[i.operands EXCEPT ![1] = q] EXCEPT ![1] = r] = [i.operands EXCEPT ![1] = r]
    BY <1>1
  <2> QED
    BY <1>1, <2>1
<1> QED
  BY <1>3, <1>4 DEF Writes

\* The last of the new instructions, if there is one, has operands.
EndsCarrying(d, e) == Emitted(e) > Emitted(d) => e.ops[Emitted(e)].op \in Carrying

\* A move is dropped, redirects the last instruction, or appends itself.
LEMMA StraightMove ==
    ASSUME NEW d \in Emitters, NEW R \in SUBSET Int, NEW W, NEW C, NEW e, Straight(d, e, R, W, C),
           EndsCarrying(d, e),
           NEW r1 \in Int, NEW r2 \in Int, Narrow(r1) \in W, Narrow(r1) \in R
    PROVE  /\ Straight(d, emit_mov_rr(e, r1, r2), R, W, C)
           /\ EndsCarrying(d, emit_mov_rr(e, r1, r2))
<1> DEFINE f == emit_mov_rr(e, r1, r2)
           r == Narrow(r1)
           n == Emitted(e)
<1>1. /\ e \in Emitters /\ n \in Nat /\ f \in Emitters /\ r \in Int /\ RegLast(e)
      /\ Emitted(d) \in Nat /\ Emitted(d) <= n
  BY EmitsMove DEF Straight
<1>2. CASE f = e
  BY <1>2
<1>3. CASE Longer(e, f, Op("MOV_RR", <<r, Narrow(r2)>>))
  <2> DEFINE i == Op("MOV_RR", <<r, Narrow(r2)>>)
  <2>1. i.op = "MOV_RR" /\ i.operands[1] = r
    BY DEF Op
  <2> HIDE DEF i
  <2>2. Harmless(i, W, C) /\ i.op \in Retargetable
    BY <2>1 DEF Harmless, Writes, Jumps, Retargetable, Carrying
  <2>3. EndsCarrying(d, f)
    BY <1>3, <2>1 DEF Longer, EndsCarrying, Carrying, i
  <2> QED
    BY <1>1, <1>3, <2>2, <2>3, StraightLonger DEF i
<1>4. CASE /\ Retargets(e, r2) /\ n > 0
           /\ Changed(e, f, n, [e.ops[n] EXCEPT !.operands[1] = r])
  <2> DEFINE i == [e.ops[n] EXCEPT !.operands[1] = r]
  <2>1. /\ e.ret_type = "Reg" /\ e.ops[n] \in Instructions /\ e.ops[n].op \in Retargetable
        /\ n \in 1 .. n
    BY <1>1, <1>4 DEF Retargets, RegLast, Emitters, Emitted
  <2>2. /\ i.op = e.ops[n].op /\ Writes(i) \subseteq {r}
        /\ \A q \in Int : [[e.ops[n] EXCEPT !.operands[1] = q] EXCEPT !.operands[1] = r] = i
    BY <1>1, <2>1, Retargeted, ZenonT(40)
  <2>3. i.op \notin Jumps /\ i.op # "FCALL"
    BY <2>1, <2>2, Operations
  <2>4. n > Emitted(d) => Harmless(i, W, C)
    <3>1. SUFFICES ASSUME n > Emitted(d) PROVE Harmless(i, W, C)
      OBVIOUS
    <3>2. Harmless(e.ops[n], W, C)
      BY <1>1, <2>1, <3>1 DEF Straight
    <3> QED
      BY <2>2, <2>3, <3>1, <3>2 DEF Harmless, EndsCarrying
  <2>5. /\ Emitted(f) = n /\ f.ret_type = e.ret_type
        /\ \A j \in 1 .. n : f.ops[j] = IF j = n THEN i ELSE e.ops[j]
    BY <1>4 DEF Changed
  <2>6. Emitted(d) = n => /\ d.ret_type = "Reg" /\ d.ops[n] \in Instructions
                          /\ \E q \in {r} : i = [d.ops[n] EXCEPT !.operands[1] = q]
    <3>1. SUFFICES ASSUME Emitted(d) = n
                   PROVE  /\ d.ret_type = "Reg" /\ d.ops[n] \in Instructions
                          /\ i = [d.ops[n] EXCEPT !.operands[1] = r]
      OBVIOUS
    <3>2. e.ret_type = d.ret_type /\ d.ops[n] \in Instructions
      BY <1>1, <2>1, <3>1 DEF Straight, Emitters, Emitted
    <3>3. CASE e.ops[n] = d.ops[n]
      BY <2>1, <3>2, <3>3
    <3>4. CASE \E q \in R : e.ops[n] = [d.ops[n] EXCEPT !.operands[1] = q]
      <4>1. PICK q \in R : e.ops[n] = [d.ops[n] EXCEPT !.operands[1] = q]
        BY <3>4
      <4>2. q \in Int
        OBVIOUS
      <4>3. i = [[d.ops[n] EXCEPT !.operands[1] = q] EXCEPT !.operands[1] = r]
        BY <4>1
      <4>4. [[d.ops[n] EXCEPT !.operands[1] = q] EXCEPT !.operands[1] = r]
               = [d.ops[n] EXCEPT !.operands[1] = r]
        <5>1. d.ops[n] \in Instructions /\ r \in Int
          BY <1>1, <3>2
        <5> HIDE DEF r, n
        <5>2. \A p \in Int : [[d.ops[n] EXCEPT !.operands[1] = p] EXCEPT !.operands[1] = r]
                                = [d.ops[n] EXCEPT !.operands[1] = r]
          BY <5>1, Retargeted
        <5> QED
          BY <4>2, <5>2
      <4> QED
        BY <2>1, <3>2, <4>3, <4>4
    <3> QED
      BY <2>1, <3>1, <3>3, <3>4 DEF Straight, Redirected
  <2> HIDE DEF i
  <2>7. \A k \in 1 .. Emitted(d) : f.ops[k] = d.ops[k] \/ Redirected(d, f, k, R)
    <3> TAKE k \in 1 .. Emitted(d)
    <3>1. k \in 1 .. n
      BY <1>1
    <3>2. CASE k = n
      <4>1. k = Emitted(d) /\ Emitted(d) = n /\ f.ops[k] = i
        BY <1>1, <2>5, <3>1, <3>2
      <4> QED
        BY <2>6, <3>2, <4>1 DEF Redirected
    <3>3. CASE k # n
      BY <2>5, <3>1, <3>3 DEF Straight, Redirected
    <3> QED
      BY <3>2, <3>3
  <2>8. \A k \in 1 .. Emitted(f) : k > Emitted(d) => Harmless(f.ops[k], W, C)
    BY <1>1, <2>4, <2>5 DEF Straight
  <2>9. RegLast(f)
    BY <1>1, <2>1, <2>2, <2>5, <1>4 DEF RegLast
  <2>10. EndsCarrying(d, f)
    BY <2>1, <2>2, <2>5 DEF EndsCarrying
  <2> QED
    BY <1>1, <2>5, <2>7, <2>8, <2>9, <2>10 DEF Straight
<1> QED
  BY <1>1, <1>2, <1>3, <1>4, EmitsMove

-----------------------------------------------------------------------------
(* The steps that emit no jump. *)

\* Where the functions are, and how many arguments they take.
Entered == {<<funcs[f].addr, funcs[f].argc>> : f \in {g \in Funcs : funcs[g] # NoFunc}}

\* A call that waits for its arguments has looked its function up.
CallsNamed ==
    \A i \in 1 .. Len(todo) : todo[i].fn = "args" /\ todo[i].call.by = "fcall" =>
        <<todo[i].call.target, todo[i].call.argc>> \in Entered

\* The registers that calls use whoever else does: those of arguments, and
\* register 1 for the name of a foreign function.
Passing ==
    {REG_COUNT_INDEX_MAX - i : i \in 0 .. 4}
    \cup (IF Top.fn = "args" THEN {Narrow(REG_COUNT_INDEX_MAX - Top.next)} ELSE {})
    \cup (IF modules.externs # {} \/ (Top.fn = "args" /\ Top.call.by = "extern")
          THEN {1} ELSE {})

\* The registers that an expression may write: the free ones (and 255, which
\* is what is left of NoReg), the result's, those of calls, and the one that
\* the innermost operation has reserved for its left operand.
Scratch ==
    ((0 .. REG_COUNT) \ bitset) \cup {0} \cup Result \cup Passing
    \cup (IF Awaiting("left") THEN Owned(Top) ELSE {})

\* What of it redirects an instruction that is already there.
Redirecting == IF mode = "ret" /\ Top.fn \in Evaluating THEN Scratch ELSE {}

(* The registers that a step may write: the argument registers, register 0, the
   callee's, the ones just allocated and those about to be freed. *)
LEMMA ScratchRegisters ==
    ASSUME TypeOK
    PROVE  /\ Scratch \in SUBSET Int /\ Redirecting \in SUBSET Int
           /\ 0 \in Scratch /\ 0 = Narrow(0)
           /\ \A i \in 0 .. 4 : Narrow(REG_COUNT_INDEX_MAX - i) \in Scratch
           /\ Top.fn = "args" => Narrow(REG_COUNT_INDEX_MAX - Top.next) \in Scratch
           /\ modules.externs # {} \/ (Top.fn = "args" /\ Top.call.by = "extern")
                 => 1 \in Scratch
           /\ Narrow(NoReg) \in Scratch /\ Narrow(1) = 1
           /\ \A r \in MaybeRegs : r \notin bitset \/ r \in Result \cup {0, NoReg}
                 => Narrow(r) \in Scratch
           /\ Awaiting("left") => Narrow(Top.tmp) \in Scratch
<1>1. /\ bitset \subseteq 0 .. REG_COUNT - 1 /\ ret \in MaybeRegs /\ MaybeRegs \subseteq Int
      /\ REG_COUNT \in Int /\ REG_COUNT_INDEX_MAX \in Int /\ REG_COUNT \notin bitset
      /\ REG_COUNT > 1 /\ NoReg = -1
  BY RegCountAssumption DEF TypeOK, MaybeRegs, NoReg, REG_COUNT_INDEX_MAX
<1>2. \A r \in Int : Narrow(r) \in Int
  BY <1>1 DEF Narrow
<1>3. Owned(Top) \subseteq Int /\ (Awaiting("left") => Owned(Top) = {Top.tmp} \ {0, NoReg})
  <2>1. Top \in Activations /\ MaybeRegs \subseteq Int
    BY <1>1, TopType
  <2>2. /\ Top.fn = "left" => Top.tmp \in Int
        /\ Top.fn = "right" => Top.lr \in Int
        /\ Top.fn \in {"if_then", "if_else", "loop"} => Top.cond \in Int
    BY <2>1, Fields
  <2> QED
    BY <2>2, Owners DEF Awaiting
<1>4. Top.fn = "args" => Top.next \in Int
  BY TopType, Fields
<1>5. Passing \subseteq Int
  <2>1. \A i \in 0 .. 4 : REG_COUNT_INDEX_MAX - i \in Int
    BY <1>1
  <2>2. Top.fn = "args" => Narrow(REG_COUNT_INDEX_MAX - Top.next) \in Int
    BY <1>1, <1>2, <1>4
  <2> QED
    BY <2>1, <2>2 DEF Passing
<1>6. Result \subseteq Int
  BY <1>1 DEF Result
<1>7. Scratch \subseteq Int
  <2>1. 0 .. REG_COUNT \subseteq Int /\ 0 \in Int
    BY <1>1
  <2> QED
    BY <1>3, <1>5, <1>6, <2>1 DEF Scratch
<1>8. \A r \in MaybeRegs : r \notin bitset \/ r \in Result \cup {0, NoReg}
                 => Narrow(r) \in Scratch
  BY <1>1 DEF MaybeRegs, Scratch, Narrow, Result
<1>9. Awaiting("left") => Narrow(Top.tmp) \in Scratch
  <2>1. SUFFICES ASSUME Awaiting("left") PROVE Narrow(Top.tmp) \in Scratch
    OBVIOUS
  <2>2. Top.tmp \in MaybeRegs
    BY <2>1, TopType, Fields DEF Awaiting
  <2>3. CASE Top.tmp \in {0, NoReg}
    BY <1>8, <2>2, <2>3
  <2>4. CASE Top.tmp \notin {0, NoReg}
    <3>1. Top.tmp \in Scratch /\ Narrow(Top.tmp) = Top.tmp
      BY <1>3, <2>1, <2>4 DEF Scratch, Narrow
    <3> QED
      BY <3>1
  <2> QED
    BY <2>3, <2>4
<1>10. \A i \in 0 .. 4 : Narrow(REG_COUNT_INDEX_MAX - i) \in Scratch
  <2> TAKE i \in 0 .. 4
  <2>1. REG_COUNT_INDEX_MAX - i \in Scratch
    BY DEF Scratch, Passing
  <2>2. CASE REG_COUNT_INDEX_MAX - i = NoReg
    BY <1>1, <2>2 DEF Narrow, Scratch
  <2>3. CASE REG_COUNT_INDEX_MAX - i # NoReg
    BY <2>1, <2>3 DEF Narrow
  <2> QED
    BY <2>2, <2>3
<1>11. /\ 0 \in Scratch /\ 0 = Narrow(0) /\ Narrow(1) = 1 /\ Narrow(NoReg) \in Scratch
       /\ (Top.fn = "args" => Narrow(REG_COUNT_INDEX_MAX - Top.next) \in Scratch)
       /\ (modules.externs # {} \/ (Top.fn = "args" /\ Top.call.by = "extern")
              => 1 \in Scratch)
  BY <1>1 DEF Scratch, Passing, Narrow
<1> QED
  BY <1>7, <1>8, <1>9, <1>10, <1>11 DEF Redirecting

\* The call at the end of the arguments.
LEMMA StraightPass ==
    ASSUME TypeOK, NEW d, NEW R, NEW W, NEW C, NEW e, Straight(d, e, R, W, C),
           NEW frame, NEW below, frame.call \in PendingCalls, Pass(e, frame, below),
           frame.call.by = "fcall" => <<frame.call.target, frame.call.argc>> \in C,
           frame.call.by = "extern" => 0 \in W /\ 1 \in W
    PROVE  Straight(d, em', R, W, C)
<1> DEFINE call == frame.call
<1>1. call.target \in Int /\ call.argc \in Int /\ call \in PendingCalls
  BY DEF PendingCalls
<1>2. CASE call.by = "vmc"
  <2>1. Straight(d, emit_vmc(e, call.target), R, W, C)
    BY <1>1, StraightMore
  <2> QED
    BY <1>2, <2>1 DEF Emitting, Pass
<1>3. CASE call.by = "fcall"
  <2>1. Straight(d, emit_fcall(e, call.target, call.argc), R, W, C)
    BY <1>1, <1>3, StraightMore
  <2> QED
    BY <1>3, <2>1 DEF Emitting, Pass
<1>4. CASE call.by = "extern"
  <2>1. call.mod \in Vars
    BY <1>1, <1>4 DEF PendingCalls
  <2>2. Found(call.mod) => Distance(call.mod) \in Int /\ find_var(call.mod).addr \in Int
    BY <2>1, Finds
  <2>3. 0 \in W /\ 1 \in W /\ Narrow(0) = 0 /\ Narrow(1) = 1
    BY <1>4 DEF Narrow, NoReg
  <2> DEFINE got == IF Found(call.mod)
                    THEN emit_local_get(e, 0, Distance(call.mod), find_var(call.mod).addr)
                    ELSE emit_local_get(e, 0, 255, 65535)
  <2>4. Straight(d, got, R, W, C)
    BY <2>2, <2>3, StraightMore
  <2> HIDE DEF got
  <2> DEFINE named == emit_mov_rc(got, 1, call.target)
  <2>5. Straight(d, named, R, W, C)
    BY <1>1, <2>3, <2>4, StraightMore
  <2> HIDE DEF named
  <2>a. 5 \in Int
    OBVIOUS
  <2>6. Straight(d, emit_vmc(named, 5), R, W, C)
    BY <2>5, <2>a, StraightMore
  <2>7. emit_vmc(named, 5) = emit_extern(e, call)
    BY DEF emit_extern, got, named
  <2>8. Straight(d, emit_extern(e, call), R, W, C)
    BY <2>6, <2>7
  <2> QED
    BY <1>4, <2>8 DEF Emitting, Pass
<1> QED
  BY <1>1, <1>2, <1>3, <1>4 DEF PendingCalls

(* Compiling a call extends the code by instructions that fall through, write
   scratch registers and enter what a name was declared as. *)
LEMMA StraightCall ==
    ASSUME TypeOK, NEW d, NEW R, NEW e, Straight(d, e, R, Scratch, Entered),
           NEW n, n.argc \in Nat,
           NEW args_idx \in {0, 1}, NEW below, func_call(e, n, args_idx, below)
    PROVE  Straight(d, em', R, Scratch, Entered)
<1>1. CASE em' = e
  BY <1>1
<1>2. CASE \E frame \in [fn : {"args"}, next : Nat, count : Nat,
                          call : PendingCalls, pipe : BOOLEAN] :
              Pass(e, frame, below) /\ frame.call \in Callees(n.name)
  <2>1. PICK frame \in [fn : {"args"}, next : Nat, count : Nat,
                        call : PendingCalls, pipe : BOOLEAN] :
              Pass(e, frame, below) /\ frame.call \in Callees(n.name)
    BY <1>2
  <2>2. frame.call.by = "fcall" => <<frame.call.target, frame.call.argc>> \in Entered
    BY <2>1 DEF Callees, Entered
  <2>3. frame.call.by = "extern" => modules.externs # {}
    <3>1. CASE n.name \in Funcs /\ funcs[n.name] # NoFunc
      BY <2>1, <3>1 DEF Callees
    <3>2. CASE ~(n.name \in Funcs /\ funcs[n.name] # NoFunc)
      BY <2>1, <3>2 DEF Callees
    <3> QED
      BY <3>1, <3>2
  <2>4. frame.call.by = "extern" => 0 \in Scratch /\ 1 \in Scratch
    BY <2>3, ScratchRegisters
  <2> QED
    BY <2>1, <2>2, <2>4, StraightPass
<1> QED
  BY <1>1, <1>2, FuncCallPasses

\* A function stores its arguments.
LEMMA StraightParams ==
    ASSUME NEW d, NEW R, NEW W, NEW C, NEW e, Straight(d, e, R, W, C), Emitted(d) < Emitted(e),
           e.ret_type = "None", NEW n, n.params \in Seq(Vars)
    PROVE  Straight(d, emit_params(e, n), R, W, C)
<1> DEFINE f == emit_params(e, n)
           k == Len(n.params)
           m == Emitted(e)
<1>1. /\ e \in Emitters /\ m \in Nat /\ k \in Nat /\ Emitted(d) \in Nat /\ Emitted(d) < m
  BY DEF Straight
<1>2. /\ f \in Emitters /\ Emitted(f) = m + k
      /\ \A j \in 1 .. m : f.ops[j] = e.ops[j]
      /\ \A i \in 1 .. k : f.ops[m + i] =
            Op("LOCAL_SET", <<0, i - 1, REG_COUNT_INDEX_MAX - (i - 1)>>)
  BY <1>1, ParamsCode
<1>3. f.ret_type # "Reg"
  BY DEF emit_params
<1> HIDE DEF f
<1>4. \A a : Harmless(Op("LOCAL_SET", a), W, C)
  BY DEF Harmless, Op, Writes, Jumps, Ternary, Arith, Cmp, Logic, Carrying
<1>5. \A j \in 1 .. Emitted(d) : f.ops[j] = d.ops[j] \/ Redirected(d, f, j, R)
  <2> TAKE j \in 1 .. Emitted(d)
  <2>1. j \in 1 .. m
    BY <1>1
  <2>2. f.ops[j] = e.ops[j] /\ (e.ops[j] = d.ops[j] \/ Redirected(d, e, j, R))
    BY <1>2, <2>1 DEF Straight
  <2> QED
    BY <2>2 DEF Redirected
<1>6. \A j \in 1 .. Emitted(f) : j > Emitted(d) => Harmless(f.ops[j], W, C)
  <2> TAKE j \in 1 .. Emitted(f)
  <2>1. CASE j \in 1 .. m
    BY <1>2, <2>1 DEF Straight
  <2>2. CASE j \notin 1 .. m
    <3>1. PICK i \in 1 .. k : j = m + i
      <4>1. j - m \in 1 .. k /\ j = m + (j - m)
        BY <1>1, <1>2, <2>2
      <4> QED
        BY <4>1
    <3> QED
      BY <1>2, <1>4, <3>1
  <2> QED
    BY <2>1, <2>2
<1>7. Emitted(f) \in Nat /\ Emitted(d) < Emitted(f) /\ Emitted(f) # Emitted(d)
  BY <1>1, <1>2
<1>8. RegLast(f) /\ Emitted(d) <= Emitted(f)
  BY <1>1, <1>3, <1>7 DEF RegLast
<1>9. Straight(d, f, R, W, C)
  BY <1>1, <1>2, <1>5, <1>6, <1>7, <1>8 DEF Straight
<1> QED
  BY <1>9 DEF f

(* Code left alone was extended by nothing. *)
LEMMA StraightSame ==
    ASSUME TypeOK, RegLast(em), NEW R, NEW W, NEW C
    PROVE  Straight(em, em, R, W, C)
<1>1. em \in Emitters /\ Emitted(em) \in Nat
  BY DEF TypeOK, Emitters, Emitted
<1> QED
  BY <1>1 DEF Straight

\* Visits to nodes append instructions that are no jumps.
LEMMA StraightVisit ==
    ASSUME TypeOK, InStep, ModulesNamed, RegLast(em), NEW n \in Nodes, Visit(n),
           ~gen_break(n), ~gen_continue(n)
    PROVE  Straight(em, em', {}, Scratch, Entered)
<1> DEFINE S(e) == Straight(em, e, {}, Scratch, Entered)
<1>1. S(em) /\ em \in Emitters
  BY StraightSame DEF Straight
<1>2. /\ alloc(bitset) \in Int /\ Narrow(alloc(bitset)) \in Scratch /\ alloc(bitset) \in MaybeRegs
      /\ REG_COUNT_INDEX_MAX \in Int
  <2>1. alloc(bitset) \in MaybeRegs /\ alloc(bitset) \notin bitset
    BY TopType, Allocates
  <2>2. MaybeRegs \subseteq Int /\ REG_COUNT_INDEX_MAX \in Int
    BY RegCountAssumption DEF MaybeRegs, NoReg, REG_COUNT_INDEX_MAX
  <2> QED
    BY <2>1, <2>2, ScratchRegisters
<1>3. ASSUME NEW e, S(e)
      PROVE  /\ \A x \in Int : S(emit_mov_ri(e, alloc(bitset), x))
             /\ \A x \in Int : S(emit_mov_rc(e, alloc(bitset), x))
             /\ \A x, y \in Int : S(emit_local_get(e, alloc(bitset), x, y))
             /\ \A x \in Int : S(emit_vmc(e, x))
             /\ \A x, y, r \in Int : S(emit_local_set(e, x, y, r))
  BY <1>2, <1>3, StraightMore
<1>4. CASE gen_num(n) \/ gen_bool(n)
  <2>1. gen_num(n) => n.value \in Int
    BY NodeFields DEF gen_num, AtExpr
  <2> HIDE DEF S
  <2>9. S(em')
    BY <1>1, <1>3, <1>4, <2>1 DEF gen_num, gen_bool, gen_literal
  <2> QED
    BY <2>9 DEF S
<1>5. CASE gen_string(n)
  <2>1. pool.size \in Int
    BY DEF TypeOK
  <2> HIDE DEF S
  <2>9. S(em')
    BY <1>1, <1>3, <1>5, <2>1 DEF gen_string
  <2> QED
    BY <2>9 DEF S
<1>6. CASE gen_var_ref(n)
  <2>1. n.name \in Vars
    BY <1>6, NodeFields DEF gen_var_ref, AtExpr
  <2>2. Found(n.name) => Distance(n.name) \in Int /\ find_var(n.name).addr \in Int
    BY <2>1, Finds
  <2> HIDE DEF S
  <2>9. S(em')
    BY <1>1, <1>3, <1>6, <2>2 DEF gen_var_ref
  <2> QED
    BY <2>9 DEF S
<1>7. CASE gen_func_call(n)
  <2>1. n.argc \in Nat
    BY <1>7, NodeFields DEF gen_func_call, AtExpr
  <2> QED
    BY <1>1, <1>7, <2>1, StraightCall DEF gen_func_call
<1>8. CASE gen_vmc(n)
  <2>1. n.idx \in Nat /\ n.argc \in Nat
    BY <1>8, NodeFields DEF gen_vmc, AtExpr
  <2> DEFINE frame == [fn |-> "args", next |-> 0, count |-> n.argc,
                       call |-> [by |-> "vmc", target |-> n.idx, argc |-> n.argc],
                       pipe |-> FALSE]
  <2>2. frame.call \in PendingCalls /\ frame.call.by = "vmc"
    BY <2>1 DEF PendingCalls
  <2>3. Pass(em, frame, todo)
    BY <1>8 DEF gen_vmc
  <2> HIDE DEF frame
  <2> QED
    BY <1>1, <2>2, <2>3, StraightPass
<1>9. CASE gen_function(n)
  <2> DEFINE created == emit_func_create(em)
  <2>1. S(created) /\ created.ret_type = "None" /\ Emitted(em) < Emitted(created)
    <3>1. S(created)
      BY <1>1, StraightMore
    <3>2. created.ret_type = "None"
      BY RetTypes
    <3>3. Longer(em, created, Op("FUNC_CREATE", <<0>>))
      BY <1>1, Emits
    <3> HIDE DEF created
    <3>4. Emitted(em) < Emitted(created)
      BY <3>3 DEF Longer
    <3> QED
      BY <3>1, <3>2, <3>4
  <2>2. em' = emit_params(created, n) /\ n.params \in Seq(Vars)
    BY <1>9, NodeFields DEF gen_function, AtStmt
  <2> HIDE DEF created
  <2> QED
    BY <2>1, <2>2, StraightParams
<1>10. CASE gen_module(n)
  <2> DEFINE x == ModuleName(n)
             frame == module_var(x)
             r == alloc(bitset)
             named == emit_mov_rc(em, r, pool.size)
             moved == emit_mov_rc(named, REG_COUNT_INDEX_MAX, r - 1)
             loaded == emit_vmc(moved, 3)
             last == IF n.dyn THEN loaded ELSE em
  <2>1. r - 1 \in Int /\ pool.size \in Int /\ Len(cur) - 1 \in Int /\ 3 \in Int
    BY <1>2 DEF TypeOK
  <2>2. frame.local_count \in Int
    <3>1. cur[Len(cur)] \in CompilingFrames
      BY DEF TypeOK
    <3>2. cur[Len(cur)].local_count + 1 \in Int
      BY <3>1 DEF CompilingFrames, Slots, NoSlot
    <3>3. [cur[Len(cur)] EXCEPT !.local_count = @ + 1].local_count
             = cur[Len(cur)].local_count + 1
      BY <3>1 DEF CompilingFrames
    <3>4. new_var(cur[Len(cur)], x, FALSE).local_count = cur[Len(cur)].local_count + 1
      BY DEF new_var, NewSlot
    <3> QED
      BY <3>2, <3>3, <3>4 DEF module_var
  <2>3. S(named)
    <3> HIDE DEF S
    <3> QED
      BY <1>1, <1>3, <2>1
  <2> HIDE DEF named
  <2>4. S(moved)
    <3>1. Narrow(REG_COUNT_INDEX_MAX) \in Scratch
      <4>1. 0 \in 0 .. 4 /\ REG_COUNT_INDEX_MAX - 0 = REG_COUNT_INDEX_MAX
        BY <1>2
      <4> QED
        BY <4>1, ScratchRegisters
    <3> QED
      BY <1>2, <2>1, <2>3, <3>1, StraightMore
  <2> HIDE DEF moved, S
  <2>5. S(loaded)
    BY <1>3, <2>1, <2>4
  <2>6. S(last)
    BY <1>1, <2>5
  <2>7. em' = emit_local_set(last, Len(cur) - 1, frame.local_count, 0)
    BY <1>10 DEF gen_module, loaded, moved, named
  <2> HIDE DEF last, frame
  <2>8. S(em')
    <3>1. 0 \in Int
      OBVIOUS
    <3> QED
      BY <1>3, <2>1, <2>2, <2>6, <2>7, <3>1
  <2> QED
    BY <2>8 DEF S
<1>11. CASE gen_program_end(n)
  <2>1. em' = emit(em, "HALT", <<0>>, em.ret_type)
    BY <1>11 DEF gen_program_end, emit, TypeOK
  <2>2. <<0>> \in Seq(Int) /\ Len(<<0>>) = 1 /\ em.ret_type \in Ret_Type
    BY DEF TypeOK
  <2>3. em' \in Emitters /\ Longer(em, em', Op("HALT", <<0>>))
    BY <1>1, <2>1, <2>2, Arities, EmitType
  <2>4. Harmless(Op("HALT", <<0>>), Scratch, Entered) /\ Op("HALT", <<0>>).op \in Retargetable
    BY <1>11 DEF gen_program_end, Harmless, Op, Writes, Jumps, Ternary, Arith, Cmp, Logic, Retargetable,
                   Carrying
  <2> QED
    BY <1>1, <2>3, <2>4, StraightLonger
<1>12. CASE \/ gen_unary(n) \/ gen_binary(n) \/ gen_assign(n) \/ gen_return(n) \/ gen_loop(n)
            \/ gen_null(n) \/ gen_if(n) \/ gen_block_end(n) \/ gen_module_again(n)
  BY <1>1, <1>12
     DEF gen_unary, gen_binary, gen_assign, gen_return, gen_null, gen_if, gen_loop, LoopBody,
         gen_block_end, gen_module_again, Descend
<1> QED
  BY <1>4, <1>5, <1>6, <1>7, <1>8, <1>9, <1>10, <1>11, <1>12 DEF Visit

\* The continuations that get the value of an expression: they may redirect
\* the instruction that computed it.
LEMMA StraightResume ==
    ASSUME TypeOK, InStep, ModulesNamed, CallsNamed, RegLast(em), Resume,
           ~if_cond, ~if_then, ~if_else, ~loop_cond, ~loop_done
    PROVE  Straight(em, em', Redirecting, Scratch, Entered)
<1> DEFINE S(e) == Straight(em, e, Redirecting, Scratch, Entered)
<1>1. S(em) /\ em \in Emitters /\ EndsCarrying(em, em)
  BY StraightSame DEF Straight, EndsCarrying
<1>2. /\ ret \in MaybeRegs /\ ret \in Int /\ bitset \in Bitsets /\ Top \in Activations
      /\ alloc(bitset) \in Int /\ Narrow(alloc(bitset)) \in Scratch /\ alloc(bitset) \in MaybeRegs
      /\ REG_COUNT_INDEX_MAX \in Int /\ MaybeRegs \subseteq Int
      /\ Scratch \subseteq Int /\ Redirecting \in SUBSET Int
  <2>1. alloc(bitset) \in MaybeRegs /\ alloc(bitset) \notin bitset
    BY TopType, Allocates
  <2>2. MaybeRegs \subseteq Int /\ REG_COUNT_INDEX_MAX \in Int
    BY RegCountAssumption DEF MaybeRegs, NoReg, REG_COUNT_INDEX_MAX
  <2> QED
    BY <2>1, <2>2, TopType, ScratchRegisters DEF TypeOK
<1>3. ASSUME NEW e, S(e), EndsCarrying(em, e), NEW r \in Int, NEW q \in Int,
             Narrow(r) \in Scratch, mode = "ret", Top.fn \in Evaluating
      PROVE  S(emit_mov_rr(e, r, q)) /\ EndsCarrying(em, emit_mov_rr(e, r, q))
  BY <1>1, <1>2, <1>3, StraightMove DEF Redirecting
<1>4. CASE unary_done
  <2> DEFINE zero == emit_mov_ri(em, alloc(bitset), 0)
  <2>1. S(zero)
    BY <1>1, <1>2, StraightMore
  <2>2. em' = emit_binary(zero, "SUB", alloc(bitset), alloc(bitset), ret)
    BY <1>4 DEF unary_done
  <2>3. "SUB" \in Ternary
    BY DEF Ternary, Arith
  <2> HIDE DEF zero
  <2> QED
    BY <1>2, <2>1, <2>2, <2>3, StraightMore
<1>5. CASE binary_left
  <2>1. Top.tmp \in Int /\ Narrow(Top.tmp) \in Scratch /\ mode = "ret" /\ Top.fn \in Evaluating
    BY <1>2, <1>5, Fields, ScratchRegisters DEF binary_left, Awaiting, Evaluating, Operators
  <2>2. em' = emit_mov_rr(em, Top.tmp, ret)
    BY <1>5 DEF binary_left
  <2> QED
    BY <1>1, <1>2, <1>3, <2>1, <2>2
<1>6. CASE binary_right
  <2> DEFINE rr == alloc(bitset)
             moved == emit_mov_rr(em, rr, ret)
             held == Releasing(Taken(bitset), expr_release, ret)
  <2>1. mode = "ret" /\ Top.fn \in Evaluating /\ Top.op \in Ternary /\ Top.lr \in Int
    BY <1>2, <1>6, Fields DEF binary_right, Awaiting, Evaluating, Operators
  <2>2. S(moved)
    BY <1>1, <1>2, <1>3, <2>1
  <2>3. alloc(held) \in MaybeRegs /\ Narrow(alloc(held)) \in Scratch
    <3>1. Taken(bitset) \in Bitsets /\ bitset \subseteq Taken(bitset)
      BY <1>2, Allocates
    <3>2. /\ held \in {Taken(bitset), Taken(bitset) \ ({ret} \ {0, NoReg})}
          /\ held \in Bitsets
      BY <1>2, <3>1, Releases
    <3>3. alloc(held) \in MaybeRegs \ {0} /\ alloc(held) \notin held
      BY <3>2, Allocates
    <3>4. alloc(held) \notin bitset \/ alloc(held) \in Result \cup {0, NoReg}
      BY <2>1, <3>1, <3>2, <3>3 DEF Result
    <3> QED
      BY <3>3, <3>4, ScratchRegisters
  <2>4. em' = emit_binary(moved, Top.op, alloc(held), Top.lr, rr)
    BY <1>6 DEF binary_right
  <2> HIDE DEF moved, held
  <2>5. alloc(held) \in Int
    BY <1>2, <2>3
  <2> QED
    BY <1>2, <2>1, <2>2, <2>3, <2>4, <2>5, StraightMore
<1>7. CASE binary_pipe
  <2> DEFINE moved == emit_mov_rr(em, Top.tmp, ret)
             passed == emit_mov_rr(moved, REG_COUNT_INDEX_MAX, Top.tmp)
  <2>1. /\ Top.fn = "left" /\ mode = "ret" /\ Top.fn \in Evaluating
        /\ Top.tmp \in Int /\ Narrow(Top.tmp) \in Scratch /\ Top.node.argc \in Nat
    BY <1>2, <1>7, Fields, ScratchRegisters
       DEF binary_pipe, Awaiting, Evaluating, Operators, OperatorNodes
  <2>2. S(moved) /\ EndsCarrying(em, moved)
    BY <1>1, <1>2, <1>3, <2>1
  <2> HIDE DEF moved
  <2>3. S(passed)
    <3>1. Narrow(REG_COUNT_INDEX_MAX) \in Scratch
      <4>1. 0 \in 0 .. 4 /\ REG_COUNT_INDEX_MAX - 0 = REG_COUNT_INDEX_MAX
        BY <1>2
      <4> QED
        BY <4>1, ScratchRegisters
    <3> QED
      BY <1>2, <1>3, <2>1, <2>2, <3>1
  <2>4. func_call(passed, Top.node, 1, Below)
    BY <1>7 DEF binary_pipe, passed, moved
  <2> HIDE DEF passed
  <2> QED
    BY <2>1, <2>3, <2>4, StraightCall
<1>8. CASE arg_done
  <2> DEFINE moved == emit_mov_rr(em, REG_COUNT_INDEX_MAX - Top.next, ret)
             frame == [Top EXCEPT !.next = @ + 1]
  <2>1. /\ Top.fn = "args" /\ mode = "ret" /\ Top.fn \in Evaluating
        /\ Top.next \in Nat /\ Top.call \in PendingCalls /\ frame.call = Top.call
    BY <1>2, <1>8, Fields DEF arg_done, Awaiting, Evaluating, Operators
  <2>2. S(moved)
    <3>1. REG_COUNT_INDEX_MAX - Top.next \in Int
      BY <1>2, <2>1
    <3>2. Narrow(REG_COUNT_INDEX_MAX - Top.next) \in Scratch
      BY <2>1, ScratchRegisters
    <3> QED
      BY <1>1, <1>2, <1>3, <2>1, <3>1, <3>2
  <2>3. Pass(moved, frame, Below)
    BY <1>8 DEF arg_done
  <2>4. /\ Top.call.by = "fcall" => <<Top.call.target, Top.call.argc>> \in Entered
        /\ Top.call.by = "extern" => 0 \in Scratch /\ 1 \in Scratch
    <3>1. Len(todo) \in 1 .. Len(todo)
      BY TopType
    <3>2. Top.call.by = "fcall" => <<Top.call.target, Top.call.argc>> \in Entered
      BY <2>1, <3>1 DEF CallsNamed, Top
    <3> QED
      BY <2>1, <3>2, ScratchRegisters
  <2> HIDE DEF moved, frame
  <2> QED
    BY <2>1, <2>2, <2>3, <2>4, StraightPass
<1>9. CASE assign_done \/ define_done
  <2>1. assign_done => Top.fst \in Int /\ \E x \in Int : em' = emit_local_set(em, Top.fst, x, ret)
    BY AssignedVar, SMTT(20) DEF assign_done, Slots, NoSlot
  <2>2. define_done => \E x \in Int : em' = emit_local_set(em, 0, x, ret)
    <3>1. cur[Len(cur)] \in CompilingFrames
      BY DEF TypeOK
    <3>2. new_var(cur[Len(cur)], Top.name, Top.mut).local_count \in Int
      BY <3>1 DEF new_var, NewSlot, CompilingFrames, Slots, NoSlot
    <3> QED
      BY <3>2 DEF define_done
  <2>3. \E x, y \in Int : em' = emit_local_set(em, x, y, ret)
    BY <1>9, <2>1, <2>2
  <2> QED
    BY <1>1, <1>2, <2>3, StraightMore
<1>10. CASE return_done
  <2> DEFINE moved == emit_mov_rr(em, 0, ret)
  <2>1. mode = "ret" /\ Top.fn \in Evaluating
    BY <1>10 DEF return_done, Awaiting, Evaluating, Operators
  <2>2. S(moved)
    BY <1>1, <1>2, <1>3, <2>1, ScratchRegisters
  <2>3. em' = emit_fret(moved)
    BY <1>10 DEF return_done
  <2> HIDE DEF moved
  <2> QED
    BY <2>2, <2>3, StraightMore
<1>11. CASE function_done
  <2> DEFINE returned == emit_fret(em)
  <2>1. S(returned)
    BY <1>1, StraightMore
  <2>2. em' = emit_func_end(returned)
    BY <1>11 DEF function_done
  <2> HIDE DEF returned
  <2> QED
    BY <2>1, <2>2, StraightMore
<1>12. CASE module_func
  <2> DEFINE desc == Top.decls[Top.next]
             types == pool.size + Len(desc.label) + 1
             got == emit_local_get(em, REG_COUNT_INDEX_MAX, Distance(Top.mod),
                                   find_var(Top.mod).addr)
             name == emit_mov_rc(got, REG_COUNT_INDEX_MAX - 1, pool.size)
             args == emit_mov_rc(name, REG_COUNT_INDEX_MAX - 2, types)
             count == emit_mov_ri(args, REG_COUNT_INDEX_MAX - 3, desc.argc)
             result == emit_mov_rc(count, REG_COUNT_INDEX_MAX - 4, types + Len(desc.types))
  <2>1. /\ desc \in Declarations /\ Top.mod \in Vars /\ Found(Top.mod)
        /\ pool.size \in Nat
    <3>1. Top.fn = "module" /\ Top.next <= Len(Top.decls) /\ Len(todo) \in 1 .. Len(todo)
      BY <1>12, TopType DEF module_func, Awaiting
    <3>2. /\ Top \in [fn : {"module"}, mod : Vars, decls : Seq(Declarations), next : Nat \ {0}]
          /\ Found(Top.mod)
      BY <1>2, <3>1, Fields DEF ModulesNamed, Top
    <3>3. Top.next \in 1 .. Len(Top.decls)
      BY <3>1, <3>2
    <3> QED
      BY <3>2, <3>3 DEF TypeOK
  <2>2. desc.argc \in Int /\ Len(desc.types) \in Nat /\ Len(desc.label) \in Nat
    <3>1. ASSUME NEW x \in Declarations
          PROVE  x.argc \in Int /\ Len(x.types) \in Nat /\ Len(x.label) \in Nat
      BY DEF Declarations, Texts
    <3> QED
      BY <2>1, <3>1
  <2>3. Distance(Top.mod) \in Int /\ find_var(Top.mod).addr \in Int
    BY <2>1, Finds
  <2>4. types \in Int /\ types + Len(desc.types) \in Int
    <3>1. \A x, y \in Nat : x + y + 1 \in Nat
      OBVIOUS
    <3>2. types \in Nat
      BY <2>1, <2>2, <3>1
    <3>3. \A x, y \in Nat : x \in Int /\ x + y \in Int
      OBVIOUS
    <3> HIDE DEF types
    <3> QED
      BY <2>2, <3>2, <3>3
  <2>5. /\ \A i \in {1, 2, 3, 4} : REG_COUNT_INDEX_MAX - i \in Int
        /\ \A i \in {1, 2, 3, 4} : Narrow(REG_COUNT_INDEX_MAX - i) \in Scratch
        /\ Narrow(REG_COUNT_INDEX_MAX) \in Scratch
    <3>1. /\ \A i \in {1, 2, 3, 4} : i \in 0 .. 4
          /\ 0 \in 0 .. 4 /\ REG_COUNT_INDEX_MAX - 0 = REG_COUNT_INDEX_MAX
      BY <1>2
    <3> QED
      BY <1>2, <3>1, ScratchRegisters
  <2>6. S(got)
    BY <1>1, <1>2, <2>3, <2>5, StraightMore
  <2> HIDE DEF got
  <2>7. S(name)
    BY <2>1, <2>5, <2>6, StraightMore
  <2> HIDE DEF name, types
  <2>8. S(args)
    BY <2>4, <2>5, <2>7, StraightMore
  <2> HIDE DEF args
  <2>9. S(count)
    BY <2>2, <2>5, <2>8, StraightMore
  <2> HIDE DEF count
  <2>10. S(result)
    BY <2>4, <2>5, <2>9, StraightMore
  <2>11. em' = emit_vmc(result, 4)
    BY <1>12 DEF module_func, Announced, result, count, args, name, got, types
  <2> HIDE DEF result
  <2>12. 4 \in Int
    OBVIOUS
  <2> QED
    BY <2>10, <2>11, <2>12, StraightMore
<1>13. CASE child_done \/ module_func_null \/ module_done
  BY <1>1, <1>13 DEF child_done, module_func_null, module_done
<1> QED
  BY <1>4, <1>5, <1>6, <1>7, <1>8, <1>9, <1>10, <1>11, <1>12, <1>13 DEF Resume

-----------------------------------------------------------------------------
(* The steps that emit jumps and patch them. *)

Goal(i) == i.operands[Arity(i.op)]

\* The code e is d with the jumps at the addresses F aimed forward, and behind
\* it jumps of which those at N have no target yet, those to B close it, and
\* the others are aimed forward; it may count the register in D down.
Jumping(d, e, F, N, B, D) ==
    /\ e \in Emitters /\ RegLast(e)
    /\ Emitted(d) \in Nat /\ Emitted(e) \in Nat /\ Emitted(d) <= Emitted(e)
    /\ \A p \in N : p \in Emitted(d) .. Emitted(e) - 1
    /\ \A k \in 1 .. Emitted(d) :
          \/ e.ops[k] = d.ops[k] /\ k - 1 \notin F
          \/ /\ k - 1 \in F /\ d.ops[k].op \in Jumps /\ e.ops[k].op = d.ops[k].op
             /\ Goal(e.ops[k]) \in k .. Emitted(e)
    /\ \A k \in 1 .. Emitted(e) : k > Emitted(d) =>
          \/ /\ e.ops[k].op \in Jumps
             /\ \/ k - 1 \in N /\ Goal(e.ops[k]) = 0
                \/ Goal(e.ops[k]) \in k .. Emitted(e)
                \/ k = Emitted(e) /\ e.ops[k].op = "JMP" /\ Goal(e.ops[k]) \in B
          \/ e.ops[k].op = "DEC" /\ Writes(e.ops[k]) \subseteq D

\* An instruction with another target.
LEMMA Aimed ==
    ASSUME NEW i \in Instructions, NEW x \in Int
    PROVE  /\ [i EXCEPT !.operands[Arity(i.op)] = x].op = i.op
           /\ Goal([i EXCEPT !.operands[Arity(i.op)] = x]) = x
<1>1. /\ i \in [op : Opcodes, operands : Seq(Int)] /\ Len(i.operands) = Arity(i.op)
      /\ Arity(i.op) \in {1, 2, 3}
  BY Arities DEF Instructions
<1>2. Arity(i.op) \in DOMAIN i.operands
  BY <1>1
<1> QED
  BY <1>1, <1>2 DEF Goal

\* The targets of new jumps.
LEMMA Goals ==
    /\ \A x : Op("JMP", <<x>>).op = "JMP" /\ Goal(Op("JMP", <<x>>)) = x
    /\ \A r, x : /\ Op("IF_TRUE", <<r, x>>).op = "IF_TRUE" /\ Goal(Op("IF_TRUE", <<r, x>>)) = x
                 /\ Op("IF_FALSE", <<r, x>>).op = "IF_FALSE" /\ Goal(Op("IF_FALSE", <<r, x>>)) = x
    /\ \A r : Op("DEC", <<r>>).op = "DEC" /\ Writes(Op("DEC", <<r>>)) = {r}
    /\ {"JMP", "IF_TRUE", "IF_FALSE"} = Jumps /\ "DEC" \notin Jumps
<1>1. Arity("JMP") = 1 /\ Arity("IF_TRUE") = 2 /\ Arity("IF_FALSE") = 2
  BY Arities
<1>2. \A o, a : Op(o, a).op = o /\ Op(o, a).operands = a
  BY DEF Op
<1>3. \A x, y : <<x>>[1] = x /\ <<x, y>>[2] = y
  OBVIOUS
<1> QED
  BY <1>1, <1>2, <1>3 DEF Goal, Writes, Jumps

(* Code left alone has no new jump and no patched one. *)
LEMMA JumpingSame ==
    ASSUME NEW d \in Emitters, RegLast(d), NEW B, NEW D
    PROVE  Jumping(d, d, {}, {}, B, D)
  BY DEF Jumping, Emitters, Emitted

\* One jump more, without a target.
LEMMA JumpingOne ==
    ASSUME NEW d \in Emitters, NEW e \in Emitters, NEW i, Longer(d, e, i), i.op \in Jumps,
           Goal(i) = 0, e.ret_type = "None", NEW B, NEW D
    PROVE  Jumping(d, e, {}, {Emitted(d)}, B, D)
<1>1. /\ Emitted(d) \in Nat /\ Emitted(e) = Emitted(d) + 1 /\ e.ops[Emitted(d) + 1] = i
      /\ \A k \in 1 .. Emitted(d) : e.ops[k] = d.ops[k]
  BY DEF Longer
<1>2. RegLast(e) /\ Emitted(e) \in Nat /\ Emitted(d) <= Emitted(e)
  BY <1>1 DEF RegLast
<1>3. \A k \in 1 .. Emitted(e) : k > Emitted(d) => k = Emitted(d) + 1 /\ k - 1 = Emitted(d)
  BY <1>1
<1> QED
  BY <1>1, <1>2, <1>3 DEF Jumping

\* What waits for the address of a jump's target: the jump over the then-block,
\* the one over the else-block, and the test of a counted loop.
Forks == {"if_then", "if_else", "loop"}
Pends(a) == IF a.fn = "if_then" THEN {a.els}
            ELSE IF a.fn = "if_else" THEN {a.then_end}
            ELSE IF a.fn = "loop" /\ a.cond # NoReg THEN {a.start}
            ELSE {}
Elements(s) == {s[i] : i \in 1 .. Len(s)}
Waits(s) == UNION {Pends(a) : a \in Elements(s)}
Pending == break_points \cup continue_points \cup Waits(todo)

\* All these are jumps in the code.
PendingJumps ==
    /\ \A p \in Pending : p \in 0 .. Emitted(em) - 1 /\ em.ops[p + 1].op \in Jumps
    /\ \A p \in break_points \cup continue_points : em.ops[p + 1].op = "JMP"

\* The two steps that record a jump for the end of the loop.
LEMMA BreakCode ==
    ASSUME TypeOK, NEW n, gen_break(n) \/ gen_continue(n)
    PROVE  Jumping(em, em', {}, {Emitted(em)}, {}, {}) /\ em'.ops[Emitted(em) + 1].op = "JMP"
<1>1. em' = emit_jmp(em, 0) /\ em \in Emitters
  BY DEF gen_break, gen_continue, TypeOK, Emitters
<1>2. em' \in Emitters /\ Longer(em, em', Op("JMP", <<0>>))
  BY <1>1, Emits
<1>3. em'.ret_type = "None"
  BY <1>1, RetTypes
<1>4. Op("JMP", <<0>>).op \in Jumps /\ Goal(Op("JMP", <<0>>)) = 0 /\ Op("JMP", <<0>>).op = "JMP"
  BY Goals
<1> QED
  BY <1>1, <1>2, <1>3, <1>4, JumpingOne DEF Longer

(* The test of an if is a jump that waits for its target. *)
LEMMA IfCondCode ==
    ASSUME TypeOK, if_cond
    PROVE  Jumping(em, em', {}, {Emitted(em) + 1}, {}, {})
<1> DEFINE T == Emitted(em)
           tested == emit_if_true(em, ret, 0)
           jumped == emit_jmp(tested, 0)
<1>1. em \in Emitters /\ T \in Nat /\ ret \in Int /\ Narrow(ret) \in Int
  BY RegCountAssumption DEF TypeOK, Emitters, Emitted, MaybeRegs, NoReg, Narrow
<1>2. em' = patch(jumped, T, T + 2)
  BY <1>1 DEF if_cond, tagging
<1>3. tested \in Emitters /\ Longer(em, tested, Op("IF_TRUE", <<Narrow(ret), 0>>))
  BY <1>1, Emits
<1> HIDE DEF tested
<1>4. /\ jumped \in Emitters /\ Longer(tested, jumped, Op("JMP", <<0>>))
      /\ jumped.ret_type = "None"
  BY <1>3, Emits, RetTypes
<1> HIDE DEF jumped
<1>5. /\ em' \in Emitters
      /\ Changed(jumped, em', T + 1,
            [jumped.ops[T + 1] EXCEPT !.operands[Arity(jumped.ops[T + 1].op)] = T + 2])
  BY <1>1, <1>2, <1>4, Patches
<1>6. /\ Emitted(jumped) = T + 2 /\ jumped.ops[T + 1].op = "IF_TRUE"
      /\ jumped.ops[T + 2] = Op("JMP", <<0>>)
      /\ \A k \in 1 .. T : jumped.ops[k] = em.ops[k]
  BY <1>1, <1>3, <1>4, Goals DEF Longer
<1>7. jumped.ops[T + 1] \in Instructions /\ T + 2 \in Int
  BY <1>1, <1>4, <1>6 DEF Emitters, Emitted
<1>8. /\ Emitted(em') = T + 2 /\ em'.ret_type = "None"
      /\ em'.ops[T + 1].op = "IF_TRUE" /\ Goal(em'.ops[T + 1]) = T + 2
      /\ em'.ops[T + 2] = Op("JMP", <<0>>)
      /\ \A k \in 1 .. T : em'.ops[k] = em.ops[k]
  BY <1>1, <1>4, <1>5, <1>6, <1>7, Aimed DEF Changed
<1>9. \A k \in 1 .. Emitted(em') : k > T => k = T + 1 \/ (k = T + 2 /\ k - 1 = T + 1)
  BY <1>1, <1>8
<1>10. /\ em'.ops[T + 2].op = "JMP" /\ Goal(em'.ops[T + 2]) = 0
       /\ {"JMP", "IF_TRUE"} \subseteq Jumps
       /\ T + 2 \in T + 1 .. Emitted(em')
  BY <1>1, <1>8, Goals
<1>11. RegLast(em') /\ T <= Emitted(em') /\ Emitted(em') \in Nat
  BY <1>1, <1>8 DEF RegLast
<1> QED
  BY <1>1, <1>5, <1>8, <1>9, <1>10, <1>11 DEF Jumping

(* The jumps that the innermost activation waits with are jumps of the code without
   a target yet. *)
LEMMA TopPends ==
    ASSUME TypeOK, PendingJumps
    PROVE  \A p \in Pends(Top) :
              p \in Pending /\ p \in 0 .. Emitted(em) - 1 /\ p + 1 \in 1 .. Emitted(em)
              /\ em.ops[p + 1].op \in Jumps
<1>1. Len(todo) \in 1 .. Len(todo) /\ Emitted(em) \in Nat
  BY TopType DEF TypeOK, Emitted
<1>2. Top \in Elements(todo)
  BY <1>1 DEF Elements, Top
<1>3. \A p \in Pends(Top) : p \in Pending
  BY <1>2 DEF Pending, Waits
<1> QED
  BY <1>1, <1>3 DEF PendingJumps

(* The end of a then branch gives the test its target and, before an else, leaves a
   jump that waits. *)
LEMMA IfThenCode ==
    ASSUME TypeOK, PendingJumps, if_then
    PROVE  Jumping(em, em', Pends(Top), IF Top.has_else THEN {Emitted(em)} ELSE {}, {}, {})
<1> DEFINE T == Emitted(em)
           q == Top.els
           jump == emit_jmp(em, 0)
           jumped == patch(jump, q, T + 1)
<1>1. em \in Emitters /\ T \in Nat /\ Top.fn = "if_then" /\ Top.has_else \in BOOLEAN
  BY TopType, Fields DEF TypeOK, Emitters, Emitted, if_then, Awaiting
<1>2. /\ q \in 0 .. T - 1 /\ q + 1 \in 1 .. T /\ em.ops[q + 1].op \in Jumps
      /\ Pends(Top) = {q}
  BY <1>1, TopPends DEF Pends
<1>3. em' = IF Top.has_else THEN jumped ELSE patch(jumped, T, T + 1)
  BY DEF if_then, tagging
<1>4. jump \in Emitters /\ Longer(em, jump, Op("JMP", <<0>>)) /\ jump.ret_type = "None"
  BY <1>1, Emits, RetTypes
<1> HIDE DEF jump
<1>5. /\ jumped \in Emitters
      /\ Changed(jump, jumped, q + 1,
            [jump.ops[q + 1] EXCEPT !.operands[Arity(jump.ops[q + 1].op)] = T + 1])
  BY <1>1, <1>2, <1>4, Patches
<1>6. /\ Emitted(jump) = T + 1 /\ jump.ops[T + 1] = Op("JMP", <<0>>)
      /\ \A k \in 1 .. T : jump.ops[k] = em.ops[k]
  BY <1>1, <1>4 DEF Longer
<1>7. jump.ops[q + 1] \in Instructions /\ T + 1 \in Int /\ q + 1 \in 1 .. Emitted(jump)
  BY <1>1, <1>2, <1>4, <1>6 DEF Emitters, Emitted
<1> HIDE DEF jumped
<1>8. /\ Emitted(jumped) = T + 1 /\ jumped.ret_type = "None"
      /\ jumped.ops[q + 1].op = em.ops[q + 1].op /\ Goal(jumped.ops[q + 1]) = T + 1
      /\ jumped.ops[T + 1] = Op("JMP", <<0>>)
      /\ \A k \in 1 .. T : k # q + 1 => jumped.ops[k] = em.ops[k]
  <2>1. T + 1 # q + 1 /\ T + 1 \in 1 .. T + 1 /\ \A k \in 1 .. T : k \in 1 .. T + 1
    BY <1>1, <1>2
  <2> QED
    BY <1>2, <1>4, <1>5, <1>6, <1>7, <2>1, Aimed DEF Changed
<1>9. T + 1 \in q + 1 .. T + 1
  BY <1>1, <1>2
<1>10. CASE Top.has_else
  <2>1. RegLast(em') /\ Emitted(em') = T + 1 /\ em' = jumped
    BY <1>3, <1>8, <1>10 DEF RegLast
  <2>2. \A k \in 1 .. T : \/ em'.ops[k] = em.ops[k] /\ k - 1 # q
                          \/ /\ k - 1 = q /\ em.ops[k].op \in Jumps
                             /\ em'.ops[k].op = em.ops[k].op
                             /\ Goal(em'.ops[k]) \in k .. T + 1
    BY <1>1, <1>2, <1>8, <1>9, <2>1
  <2>3. \A k \in 1 .. T + 1 : k > T => k = T + 1 /\ k - 1 = T
    BY <1>1
  <2>4. em'.ops[T + 1].op \in Jumps /\ Goal(em'.ops[T + 1]) = 0
    BY <1>8, <2>1, Goals
  <2>5. T + 1 \in Nat /\ T <= T + 1
    BY <1>1
  <2> QED
    BY <1>1, <1>2, <1>5, <1>10, <2>1, <2>2, <2>3, <2>4, <2>5 DEF Jumping
<1>11. CASE ~Top.has_else
  <2>1. /\ em' \in Emitters
        /\ Changed(jumped, em', T + 1,
             [jumped.ops[T + 1] EXCEPT !.operands[Arity(jumped.ops[T + 1].op)] = T + 1])
    BY <1>1, <1>3, <1>5, <1>11, Patches
  <2>2. jumped.ops[T + 1] \in Instructions /\ T + 1 \in 1 .. Emitted(jumped)
    BY <1>1, <1>5, <1>8 DEF Emitters, Emitted
  <2>3. /\ Emitted(em') = T + 1 /\ em'.ret_type = "None"
        /\ em'.ops[T + 1].op = "JMP" /\ Goal(em'.ops[T + 1]) = T + 1
        /\ \A k \in 1 .. T : em'.ops[k] = jumped.ops[k]
    <3>1. \A k \in 1 .. T : k # T + 1 /\ k \in 1 .. Emitted(jumped)
      BY <1>1, <1>8
    <3> QED
      BY <1>7, <1>8, <2>1, <2>2, <3>1, Aimed, Goals DEF Changed
  <2>4. \A k \in 1 .. T : \/ em'.ops[k] = em.ops[k] /\ k - 1 # q
                          \/ /\ k - 1 = q /\ em.ops[k].op \in Jumps
                             /\ em'.ops[k].op = em.ops[k].op
                             /\ Goal(em'.ops[k]) \in k .. T + 1
    BY <1>1, <1>2, <1>8, <1>9, <2>3
  <2>5. \A k \in 1 .. T + 1 : k > T => k = T + 1 /\ k - 1 = T
    BY <1>1
  <2>6. /\ "JMP" \in Jumps /\ T + 1 \in T + 1 .. T + 1 /\ T + 1 \in Nat /\ T <= T + 1
        /\ RegLast(em')
    BY <1>1, <2>3 DEF Jumps, RegLast
  <2> QED
    BY <1>1, <1>2, <1>11, <2>1, <2>3, <2>4, <2>5, <2>6 DEF Jumping
<1> QED
  BY <1>1, <1>10, <1>11

(* The end of an else branch gives the jump over it its target. *)
LEMMA IfElseCode ==
    ASSUME TypeOK, PendingJumps, RegLast(em), if_else
    PROVE  Jumping(em, em', Pends(Top), {}, {}, {})
<1> DEFINE T == Emitted(em)
           q == Top.then_end
<1>1. em \in Emitters /\ T \in Nat /\ Top.fn = "if_else"
  BY DEF TypeOK, Emitters, Emitted, if_else, Awaiting
<1>2. /\ q \in 0 .. T - 1 /\ q + 1 \in 1 .. T /\ em.ops[q + 1].op \in Jumps
      /\ Pends(Top) = {q}
  BY <1>1, TopPends DEF Pends
<1>3. em' = patch(em, q, T)
  BY DEF if_else, tagging
<1>4. /\ em' \in Emitters
      /\ Changed(em, em', q + 1,
            [em.ops[q + 1] EXCEPT !.operands[Arity(em.ops[q + 1].op)] = T])
  BY <1>1, <1>2, <1>3, Patches
<1>5. em.ops[q + 1] \in Instructions
  BY <1>1, <1>2 DEF Emitters, Emitted
<1>6. /\ Emitted(em') = T /\ em'.ret_type = em.ret_type
      /\ em'.ops[q + 1].op = em.ops[q + 1].op /\ Goal(em'.ops[q + 1]) = T
      /\ \A k \in 1 .. T : k # q + 1 => em'.ops[k] = em.ops[k]
  BY <1>1, <1>2, <1>4, <1>5, Aimed DEF Changed
<1>7. T \in q + 1 .. T
  BY <1>1, <1>2
<1>8. \A k \in 1 .. T : \/ em'.ops[k] = em.ops[k] /\ k - 1 # q
                        \/ /\ k - 1 = q /\ em.ops[k].op \in Jumps
                           /\ em'.ops[k].op = em.ops[k].op
                           /\ Goal(em'.ops[k]) \in k .. T
  BY <1>1, <1>2, <1>6, <1>7
<1>9. RegLast(em')
  <2>1. SUFFICES ASSUME em.ret_type = "Reg"
                 PROVE  T > 0 /\ em'.ops[T].op \in Retargetable
    BY <1>6 DEF RegLast
  <2>2. T > 0 /\ em.ops[T].op \in Retargetable
    BY <2>1 DEF RegLast
  <2>3. em'.ops[T].op = em.ops[T].op
    BY <1>1, <1>8, <2>2
  <2> QED
    BY <2>2, <2>3
<1>10. \A k \in 1 .. T : ~(k > T)
  BY <1>1
<1> QED
  BY <1>1, <1>2, <1>4, <1>6, <1>8, <1>9, <1>10 DEF Jumping

(* A loop without a condition emits nothing that waits; a counted one waits with its
   test. *)
LEMMA LoopCode ==
    ASSUME TypeOK, RegLast(em), NEW c \in MaybeRegs, NEW below, LoopBody(c, below)
    PROVE  Jumping(em, em', {}, IF c # NoReg THEN {Emitted(em)} ELSE {}, {}, {})
<1>1. em \in Emitters /\ c \in Int /\ Narrow(c) \in Int
  BY RegCountAssumption DEF TypeOK, Emitters, MaybeRegs, NoReg, Narrow
<1>2. CASE c # NoReg
  <2>1. em' = emit_if_false(em, c, 0)
    BY <1>2 DEF LoopBody
  <2>2. /\ em' \in Emitters /\ Longer(em, em', Op("IF_FALSE", <<Narrow(c), 0>>))
        /\ em'.ret_type = "None"
    BY <1>1, <2>1, Emits, RetTypes
  <2>3. /\ Op("IF_FALSE", <<Narrow(c), 0>>).op \in Jumps
        /\ Goal(Op("IF_FALSE", <<Narrow(c), 0>>)) = 0
    BY Goals
  <2> QED
    BY <1>1, <1>2, <2>2, <2>3, JumpingOne
<1>3. CASE c = NoReg
  BY <1>1, <1>3, JumpingSame DEF LoopBody
<1> QED
  BY <1>2, <1>3

\* The end of a loop gives every jump recorded so far its target.
LEMMA LoopDoneCode ==
    ASSUME TypeOK, PendingJumps, loop_done
    PROVE  /\ Jumping(em, em', Pends(Top) \cup break_points \cup continue_points, {},
                      {Top.start}, {Narrow(Top.cond)})
           /\ Emitted(em) < Emitted(em')
<1> DEFINE T == Emitted(em)
           counted == Top.cond # NoReg
           body == IF counted THEN emit_dec(em, Top.cond) ELSE em
           b == Emitted(body)
           closed == emit_jmp(body, Top.start)
           broken == patch_all(closed, break_points, b + 1)
           patched == patch_all(broken, continue_points, T)
           Points2 == break_points \cup continue_points
           F == Pends(Top) \cup Points2
<1>1. /\ em \in Emitters /\ T \in Nat /\ Top.fn = "loop" /\ Top.start \in Nat
      /\ Top.cond \in MaybeRegs /\ Top.cond \in Int
  BY TopType, Fields, RegCountAssumption
     DEF TypeOK, Emitters, Emitted, loop_done, Awaiting, MaybeRegs, NoReg
<1>2. /\ Points2 \subseteq 0 .. T - 1
      /\ \A p \in Points2 : em.ops[p + 1].op = "JMP"
      /\ counted => Top.start \in 0 .. T - 1 /\ em.ops[Top.start + 1].op \in Jumps
      /\ Pends(Top) = IF counted THEN {Top.start} ELSE {}
  BY <1>1, TopPends DEF PendingJumps, Pending, Pends
<1>3. /\ body \in Emitters /\ b \in {T, T + 1} /\ b \in Nat
      /\ \A k \in 1 .. T : body.ops[k] = em.ops[k]
      /\ b = T + 1 => body.ops[T + 1] = Op("DEC", <<Narrow(Top.cond)>>)
  <2>1. emit_dec(em, Top.cond) \in Emitters /\ Longer(em, emit_dec(em, Top.cond), Op("DEC", <<Narrow(Top.cond)>>))
    BY <1>1, Emits
  <2> QED
    BY <1>1, <2>1 DEF Longer
<1> HIDE DEF body
<1>4. /\ closed \in Emitters /\ Longer(body, closed, Op("JMP", <<Top.start>>))
      /\ closed.ret_type = "None"
  <2>1. closed.ret_type = "None"
    BY RetTypes
  <2>2. body \in Emitters /\ Top.start \in Int
    BY <1>1, <1>3
  <2>3. closed \in Emitters /\ Longer(body, closed, Op("JMP", <<Top.start>>))
    BY <2>2, Emits
  <2> QED
    BY <2>1, <2>3
<1> HIDE DEF closed
<1>5. /\ Emitted(closed) = b + 1 /\ closed.ops[b + 1] = Op("JMP", <<Top.start>>)
      /\ \A k \in 1 .. b : closed.ops[k] = body.ops[k]
      /\ b + 1 \in Nat /\ b + 1 \in Int /\ T \in Int
  BY <1>1, <1>3, <1>4 DEF Longer
<1>6. /\ patched \in Emitters /\ Emitted(patched) = b + 1 /\ patched.ret_type = "None"
      /\ \A k \in 1 .. b + 1 : patched.ops[k] =
            IF k - 1 \in continue_points THEN Op("JMP", <<T>>)
            ELSE IF k - 1 \in break_points THEN Op("JMP", <<b + 1>>) ELSE closed.ops[k]
  <2>1. /\ broken \in Emitters /\ Emitted(broken) = b + 1
        /\ \A k \in 1 .. b + 1 : broken.ops[k] =
              IF k - 1 \in break_points THEN Op("JMP", <<b + 1>>) ELSE closed.ops[k]
    BY <1>4, <1>5, PatchesAll
  <2>2. broken.ret_type = "None"
    BY <1>4 DEF patch_all, Emitters
  <2> HIDE DEF broken
  <2>3. /\ patched \in Emitters /\ Emitted(patched) = b + 1
        /\ \A k \in 1 .. b + 1 : patched.ops[k] =
              IF k - 1 \in continue_points THEN Op("JMP", <<T>>) ELSE broken.ops[k]
    BY <1>5, <2>1, PatchesAll
  <2>4. patched.ret_type = "None"
    BY <2>1, <2>2 DEF patch_all, Emitters
  <2> QED
    BY <2>1, <2>3, <2>4
<1>7. em' = IF counted THEN patch(patched, Top.start, b + 1) ELSE patched
  BY <1>5 DEF loop_done, tagging, patched, broken, closed, body
<1> HIDE DEF patched
<1>8. \A k \in 1 .. T :
         /\ k \in 1 .. b /\ k \in 1 .. b + 1 /\ closed.ops[k] = em.ops[k]
         /\ T \in k .. b + 1 /\ b + 1 \in k .. b + 1
  BY <1>1, <1>3, <1>5
<1>9. /\ \A k \in 1 .. T : k - 1 \notin Points2 => patched.ops[k] = em.ops[k]
      /\ \A k \in 1 .. T : k - 1 \in Points2 =>
            /\ patched.ops[k].op = "JMP" /\ em.ops[k].op = "JMP"
            /\ Goal(patched.ops[k]) \in k .. b + 1
      /\ patched.ops[b + 1] = Op("JMP", <<Top.start>>)
      /\ b = T + 1 => patched.ops[T + 1] = Op("DEC", <<Narrow(Top.cond)>>)
  <2>1. \A k \in 1 .. T : k - 1 \notin Points2 => patched.ops[k] = em.ops[k]
    BY <1>6, <1>8
  <2>2. ASSUME NEW k \in 1 .. T, k - 1 \in Points2
        PROVE  /\ patched.ops[k].op = "JMP" /\ em.ops[k].op = "JMP"
               /\ Goal(patched.ops[k]) \in k .. b + 1
    <3>1. (k - 1) + 1 = k
      BY <1>1
    <3>2. em.ops[k].op = "JMP"
      BY <1>2, <2>2, <3>1
    <3>3. patched.ops[k] = Op("JMP", <<T>>) \/ patched.ops[k] = Op("JMP", <<b + 1>>)
      BY <1>6, <1>8, <2>2
    <3> QED
      BY <1>8, <3>2, <3>3, Goals
  <2>3. (b + 1) - 1 \notin Points2 /\ b + 1 \in 1 .. b + 1
    BY <1>1, <1>2, <1>3
  <2>4. b = T + 1 => (T + 1) - 1 \notin Points2 /\ T + 1 \in 1 .. b + 1 /\ T + 1 \in 1 .. b
    BY <1>1, <1>2, <1>3
  <2>5. patched.ops[b + 1] = Op("JMP", <<Top.start>>)
    BY <1>5, <1>6, <2>3
  <2>6. b = T + 1 => patched.ops[T + 1] = Op("DEC", <<Narrow(Top.cond)>>)
    BY <1>3, <1>5, <1>6, <2>4
  <2> QED
    BY <2>1, <2>2, <2>5, <2>6
<1>10. /\ em' \in Emitters /\ Emitted(em') = b + 1 /\ em'.ret_type = "None"
       /\ counted => /\ em'.ops[Top.start + 1].op = em.ops[Top.start + 1].op
                     /\ Goal(em'.ops[Top.start + 1]) = b + 1
       /\ \A k \in 1 .. b + 1 :
             ~counted \/ k # Top.start + 1 => em'.ops[k] = patched.ops[k]
  <2>1. CASE counted
    <3>1. /\ em' \in Emitters
          /\ Changed(patched, em', Top.start + 1,
               [patched.ops[Top.start + 1]
                  EXCEPT !.operands[Arity(patched.ops[Top.start + 1].op)] = b + 1])
      BY <1>1, <1>5, <1>6, <1>7, <2>1, Patches
    <3>2. Top.start + 1 \in 1 .. T /\ Top.start + 1 \in 1 .. b + 1 /\ (Top.start + 1) - 1 = Top.start
      BY <1>1, <1>2, <1>3, <2>1
    <3>3. patched.ops[Top.start + 1] \in Instructions
      BY <1>6, <3>2 DEF Emitters, Emitted
    <3>4. patched.ops[Top.start + 1].op = em.ops[Top.start + 1].op
      BY <1>9, <3>2
    <3> QED
      BY <1>5, <1>6, <2>1, <3>1, <3>2, <3>3, <3>4, Aimed, SMTT(20) DEF Changed
  <2>2. CASE ~counted
    BY <1>6, <1>7, <2>2
  <2> QED
    BY <2>1, <2>2
<1>11. \A k \in 1 .. T : \/ em'.ops[k] = em.ops[k] /\ k - 1 \notin F
                         \/ /\ k - 1 \in F /\ em.ops[k].op \in Jumps
                            /\ em'.ops[k].op = em.ops[k].op
                            /\ Goal(em'.ops[k]) \in k .. b + 1
  <2> TAKE k \in 1 .. T
  <2>1. "JMP" \in Jumps
    BY DEF Jumps
  <2>2. CASE counted /\ k = Top.start + 1
    <3>1. k - 1 \in F
      BY <1>1, <1>2, <2>2
    <3> QED
      BY <1>2, <1>8, <1>10, <2>2, <3>1
  <2>3. CASE ~counted \/ k # Top.start + 1
    <3>1. em'.ops[k] = patched.ops[k]
      BY <1>8, <1>10, <2>3
    <3>2. k - 1 \in F <=> k - 1 \in Points2
      BY <1>1, <1>2, <2>3
    <3> QED
      BY <1>9, <2>1, <3>1, <3>2
  <2> QED
    BY <2>2, <2>3
<1>12. \A k \in 1 .. b + 1 : k > T =>
          \/ k = b + 1 /\ em'.ops[k] = Op("JMP", <<Top.start>>)
          \/ em'.ops[k] = Op("DEC", <<Narrow(Top.cond)>>)
  <2> TAKE k \in 1 .. b + 1
  <2>1. SUFFICES ASSUME k > T
                 PROVE  \/ k = b + 1 /\ em'.ops[k] = Op("JMP", <<Top.start>>)
                        \/ em'.ops[k] = Op("DEC", <<Narrow(Top.cond)>>)
    OBVIOUS
  <2>2. ~counted \/ k # Top.start + 1
    BY <1>1, <1>2, <2>1
  <2>3. em'.ops[k] = patched.ops[k]
    BY <1>10, <2>2
  <2>4. k = b + 1 \/ (b = T + 1 /\ k = T + 1)
    BY <1>1, <1>3, <2>1
  <2> QED
    BY <1>9, <2>3, <2>4
<1>13. /\ \A k \in 1 .. b + 1 : k > T =>
             \/ /\ em'.ops[k].op \in Jumps /\ k = b + 1 /\ em'.ops[k].op = "JMP"
                /\ Goal(em'.ops[k]) \in {Top.start}
             \/ em'.ops[k].op = "DEC" /\ Writes(em'.ops[k]) \subseteq {Narrow(Top.cond)}
  BY <1>12, Goals
<1>14. RegLast(em') /\ T <= b + 1 /\ T < b + 1
  BY <1>1, <1>3, <1>10 DEF RegLast
<1> HIDE DEF F
<1>15. Jumping(em, em', F, {}, {Top.start}, {Narrow(Top.cond)})
  BY <1>1, <1>5, <1>10, <1>11, <1>13, <1>14 DEF Jumping
<1>16. F = Pends(Top) \cup break_points \cup continue_points
  BY DEF F
<1> QED
  BY <1>10, <1>14, <1>15, <1>16

-----------------------------------------------------------------------------
(* What waits on the C++ stack. *)

(* The activations of a longer stack. *)
LEMMA ElementsMore ==
    ASSUME NEW s \in Seq(Activations), NEW a
    PROVE  /\ Elements(Append(s, a)) = Elements(s) \cup {a}
           /\ \A b : Elements(s \o <<a, b>>) = Elements(s) \cup {a, b}
<1>1. Len(s) \in Nat
  OBVIOUS
<1>2. Elements(Append(s, a)) = Elements(s) \cup {a}
  <2>1. /\ Len(Append(s, a)) = Len(s) + 1 /\ Append(s, a)[Len(s) + 1] = a
        /\ \A i \in 1 .. Len(s) : Append(s, a)[i] = s[i]
    OBVIOUS
  <2>2. \A i \in 1 .. Len(s) + 1 : i \in 1 .. Len(s) \/ i = Len(s) + 1
    BY <1>1
  <2>3. Len(s) + 1 \in 1 .. Len(s) + 1 /\ \A i \in 1 .. Len(s) : i \in 1 .. Len(s) + 1
    BY <1>1
  <2>4. PICK t : t = Append(s, a)
    OBVIOUS
  <2>5. Elements(t) = Elements(s) \cup {a}
    BY <2>1, <2>2, <2>3, <2>4 DEF Elements
  <2> QED
    BY <2>4, <2>5
<1>3. ASSUME NEW b
      PROVE  Elements(s \o <<a, b>>) = Elements(s) \cup {a, b}
  <2> DEFINE S == Activations \cup {a, b}
  <2>1. s \in Seq(S) /\ a \in S /\ b \in S
    OBVIOUS
  <2>2. /\ Len(s \o <<a, b>>) = Len(s) + 2
        /\ (s \o <<a, b>>)[Len(s) + 1] = a /\ (s \o <<a, b>>)[Len(s) + 2] = b
        /\ \A i \in 1 .. Len(s) : (s \o <<a, b>>)[i] = s[i]
    <3> HIDE DEF S
    <3> QED
      BY <2>1, TwoMore
  <2>3. PICK t : t = s \o <<a, b>>
    OBVIOUS
  <2>4. /\ \A i \in 1 .. Len(t) : i \in 1 .. Len(s) \/ i = Len(s) + 1 \/ i = Len(s) + 2
        /\ \A i \in 1 .. Len(s) : i \in 1 .. Len(t)
        /\ Len(s) + 1 \in 1 .. Len(t) /\ Len(s) + 2 \in 1 .. Len(t)
    BY <1>1, <2>2, <2>3
  <2>5. Elements(t) = Elements(s) \cup {a, b}
    BY <2>2, <2>3, <2>4 DEF Elements
  <2> QED
    BY <2>3, <2>5
<1> QED
  BY <1>2, <1>3

(* The waiting jumps of a longer stack. *)
LEMMA WaitsMore ==
    ASSUME NEW s \in Seq(Activations), NEW a
    PROVE  /\ Waits(Append(s, a)) = Waits(s) \cup Pends(a)
           /\ \A b : Waits(s \o <<a, b>>) = Waits(s) \cup Pends(a) \cup Pends(b)
<1>1. Elements(Append(s, a)) = Elements(s) \cup {a}
  BY ElementsMore
<1>2. \A b : Elements(s \o <<a, b>>) = Elements(s) \cup {a, b}
  BY ElementsMore
<1> QED
  BY <1>1, <1>2 DEF Waits

\* The stack is its innermost activation and the rest.
LEMMA Innermost ==
    ASSUME TypeOK
    PROVE  /\ Elements(todo) = Elements(Below) \cup {Top}
           /\ Waits(todo) = Waits(Below) \cup Pends(Top)
<1>1. /\ Len(todo) \in Nat \ {0} /\ Len(Below) = Len(todo) - 1
      /\ \A i \in 1 .. Len(todo) - 1 : Below[i] = todo[i]
  BY TopType
<1>2. /\ \A i \in 1 .. Len(todo) : i \in 1 .. Len(todo) - 1 \/ i = Len(todo)
      /\ \A i \in 1 .. Len(todo) - 1 : i \in 1 .. Len(todo)
      /\ Len(todo) \in 1 .. Len(todo)
  BY <1>1
<1>3. Elements(todo) = Elements(Below) \cup {Top}
  BY <1>1, <1>2 DEF Elements, Top
<1> QED
  BY <1>3 DEF Waits

JumpStep ==
    \/ \E n \in Nodes : gen_break(n) \/ gen_continue(n)
    \/ if_cond \/ if_then \/ if_else \/ loop_cond \/ loop_done

\* The jumps a step emits and patches are those that the C++ stack and the
\* recorded points begin and cease to wait for.
LEMMA JumpStepCode ==
    ASSUME TypeOK, RegLast(em), PendingJumps, JumpStep
    PROVE  \E F, N, B, D :
              /\ F \in SUBSET Pending
              /\ Jumping(em, em', F, N, B, D)
              /\ Pending \ F \subseteq Pending' /\ N \subseteq Pending'
              /\ Pending' \subseteq Pending \cup N
              /\ \A p \in break_points' \cup continue_points' :
                    \/ p \in break_points \cup continue_points
                    \/ p = Emitted(em) /\ p + 1 <= Emitted(em') /\ em'.ops[p + 1].op = "JMP"
              /\ B = {} \/ (loop_done /\ B = {Top.start})
              /\ D = {} \/ (loop_done /\ D = {Narrow(Top.cond)} /\ N = {})
<1> DEFINE T == Emitted(em)
<1>1. /\ todo \in Seq(Activations) /\ Below \in Seq(Activations) /\ Top \in Activations
      /\ Waits(todo) = Waits(Below) \cup Pends(Top) /\ ret \in MaybeRegs
      /\ T \in Nat
  BY TopType, Innermost DEF TypeOK, Emitted
<1>2. Block.fn = "block" /\ Pends(Block) = {}
  BY DEF Block, Pends
<1> DEFINE Good(F, N, B, D) ==
              /\ Jumping(em, em', F, N, B, D)
              /\ Pending \ F \subseteq Pending' /\ N \subseteq Pending'
              /\ Pending' \subseteq Pending \cup N
              /\ \A p \in break_points' \cup continue_points' :
                    \/ p \in break_points \cup continue_points
                    \/ p = Emitted(em) /\ p + 1 <= Emitted(em') /\ em'.ops[p + 1].op = "JMP"
              /\ B = {} \/ (loop_done /\ B = {Top.start})
              /\ D = {} \/ (loop_done /\ D = {Narrow(Top.cond)} /\ N = {})
<1>3. ASSUME NEW a, todo' = Below \o <<a, Block>>, UNCHANGED Points
      PROVE  /\ Pending' = break_points \cup continue_points \cup Waits(Below) \cup Pends(a)
             /\ break_points' = break_points /\ continue_points' = continue_points
  BY <1>1, <1>2, <1>3, WaitsMore DEF Pending, Points
<1>4. ASSUME NEW n \in Nodes, gen_break(n) \/ gen_continue(n)
      PROVE  Good({}, {T}, {}, {})
  <2>1. Jumping(em, em', {}, {T}, {}, {}) /\ em'.ops[T + 1].op = "JMP"
    BY <1>4, BreakCode
  <2>2. todo' = todo /\ break_points' \cup continue_points' = break_points \cup continue_points \cup {T}
    BY <1>4 DEF gen_break, gen_continue, Leaf, tagging
  <2>3. T + 1 <= Emitted(em')
    <3>1. em' = emit_jmp(em, 0) /\ em \in Emitters
      BY <1>4 DEF gen_break, gen_continue, TypeOK, Emitters
    <3>2. Longer(em, em', Op("JMP", <<0>>))
      BY <3>1, Emits
    <3> QED
      BY <1>1, <3>2 DEF Longer
  <2>4. Pending' = Pending \cup {T}
    BY <2>2 DEF Pending
  <2> QED
    BY <2>1, <2>2, <2>3, <2>4
<1>5. CASE if_cond
  <2> DEFINE a == [fn |-> "if_then", cond |-> ret, els |-> T + 1, has_else |-> Top.has_else]
  <2>1. /\ todo' = Below \o <<a, Block>> /\ UNCHANGED Points /\ Top.fn = "if_cond"
        /\ Pends(a) = {T + 1}
    BY <1>5 DEF if_cond, Awaiting, Pends, tagging
  <2> HIDE DEF a
  <2>2. Pends(Top) = {}
    BY <2>1 DEF Pends
  <2>3. Good({}, {T + 1}, {}, {})
    BY <1>1, <1>3, <1>5, <2>1, <2>2, IfCondCode DEF Pending
  <2> QED
    BY <2>3
<1>6. CASE if_then /\ Top.has_else
  <2> DEFINE a == [fn |-> "if_else", cond |-> Top.cond, then_end |-> T]
  <2>1. /\ todo' = Below \o <<a, Block>> /\ UNCHANGED Points /\ Pends(a) = {T}
    BY <1>6 DEF if_then, Pends, tagging
  <2> HIDE DEF a
  <2>2. Good(Pends(Top), {T}, {}, {})
    BY <1>1, <1>3, <1>6, <2>1, IfThenCode DEF Pending
  <2>3. Pends(Top) \subseteq Pending
    BY TopPends
  <2> QED
    BY <2>2, <2>3
<1>7. CASE (if_then /\ ~Top.has_else) \/ if_else
  <2>1. todo' = Below /\ UNCHANGED Points
    BY <1>7 DEF if_then, if_else, Leave
  <2>2. Good(Pends(Top), {}, {}, {})
    BY <1>1, <1>7, <2>1, IfThenCode, IfElseCode DEF Pending, Points
  <2>3. Pends(Top) \subseteq Pending
    BY TopPends
  <2> QED
    BY <2>2, <2>3
<1>8. CASE loop_cond
  <2> DEFINE a == [fn |-> "loop", cond |-> ret, start |-> T]
             N == IF ret # NoReg THEN {T} ELSE {}
  <2>1. /\ todo' = Below \o <<a, Block>> /\ UNCHANGED Points /\ Top.fn = "loop_cond"
        /\ Pends(a) = N /\ LoopBody(ret, Below)
    BY <1>8 DEF loop_cond, LoopBody, Awaiting, Pends, tagging
  <2> HIDE DEF a
  <2>2. Pends(Top) = {}
    BY <2>1 DEF Pends
  <2>3. Jumping(em, em', {}, N, {}, {})
    BY <1>1, <2>1, LoopCode
  <2> HIDE DEF N
  <2>4. Good({}, N, {}, {})
    BY <1>1, <1>3, <2>1, <2>2, <2>3 DEF Pending
  <2> QED
    BY <2>4
<1>9. CASE loop_done
  <2> DEFINE F == Pends(Top) \cup break_points \cup continue_points
  <2>1. todo' = Below /\ break_points' = {} /\ continue_points' = {}
    BY <1>9 DEF loop_done, Leave
  <2>2. F \subseteq Pending /\ Pending \ F \subseteq Pending' /\ Pending' \subseteq Pending
    BY <1>1, <2>1 DEF Pending
  <2>3. Jumping(em, em', F, {}, {Top.start}, {Narrow(Top.cond)})
    BY <1>9, LoopDoneCode
  <2> HIDE DEF F
  <2>4. Good(F, {}, {Top.start}, {Narrow(Top.cond)})
    BY <1>9, <2>1, <2>2, <2>3
  <2> QED
    BY <2>2, <2>4
<1> QED
  BY <1>4, <1>5, <1>6, <1>7, <1>8, <1>9 DEF JumpStep

\* A new activation: a loop starts behind the last instruction, and a call of
\* a function has looked it up.
New(a) ==
    /\ a.fn = "loop" => a.start = Emitted(em)
    /\ a.fn = "args" /\ a.call.by = "fcall" => <<a.call.target, a.call.argc>> \in Entered

\* How the C++ stack goes on: only the end of a loop ends its activation, and
\* only steps that emit or patch jumps change what waits for a target.
Evolves ==
    \E k \in {Len(todo) - 1, Len(todo)} :
        /\ Len(todo') \in Nat /\ k <= Len(todo')
        /\ \A i \in 1 .. k : todo'[i] = todo[i]
        /\ \A i \in 1 .. Len(todo') : i > k =>
              /\ New(todo'[i]) /\ (todo'[i].fn = "loop" => i = k + 1)
              /\ ~JumpStep => Pends(todo'[i]) = {}
        /\ k < Len(todo) =>
              (Top.fn = "loop" => loop_done) /\ (~JumpStep => Pends(Top) = {})

(* How a step may change what waits: it calls, goes on or returns, and only a jump
   step touches a waiting jump. *)
LEMMA EvolvesFrom ==
    ASSUME TypeOK, NEW base \in {todo, Below},
           \/ todo' = base
           \/ \E a : New(a) /\ a.fn \notin Forks /\ todo' = Append(base, a)
           \/ \E a, b : /\ New(a) /\ (~JumpStep => Pends(a) = {}) /\ b.fn = "block"
                        /\ todo' = base \o <<a, b>>,
           base = Below =>
              (Top.fn = "loop" => loop_done) /\ (~JumpStep => Pends(Top) = {})
    PROVE  Evolves
<1>1. PICK n \in Nat : n = Len(todo) /\ n > 0
  BY TopType
<1>2. /\ base \in Seq(Activations)
      /\ \E k \in {n - 1, n} : /\ Len(base) = k
                               /\ \A i \in 1 .. k : base[i] = todo[i]
                               /\ k < n => base = Below
  BY <1>1, TopType DEF TypeOK
<1>3. PICK k \in {n - 1, n} : /\ Len(base) = k /\ \A i \in 1 .. k : base[i] = todo[i]
                              /\ k < n => base = Below
  BY <1>2
<1>4. k \in Nat
  BY <1>1
<1>5. CASE todo' = base
  <2>1. Len(todo') = k /\ \A i \in 1 .. Len(todo') : ~(i > k)
    BY <1>3, <1>4, <1>5
  <2> QED
    BY <1>1, <1>3, <1>4, <1>5, <2>1 DEF Evolves
<1>6. CASE \E a : New(a) /\ a.fn \notin Forks /\ todo' = Append(base, a)
  <2>1. PICK a : New(a) /\ a.fn \notin Forks /\ todo' = Append(base, a)
    BY <1>6
  <2>2. /\ Len(todo') = k + 1 /\ todo'[k + 1] = a
        /\ \A i \in 1 .. k : todo'[i] = base[i]
    BY <1>2, <1>3, <2>1
  <2>3. \A i \in 1 .. k + 1 : i > k => i = k + 1
    BY <1>4
  <2>4. a.fn # "loop" /\ Pends(a) = {}
    BY <2>1 DEF Forks, Pends
  <2>5. k <= k + 1 /\ k + 1 \in Nat
    BY <1>4
  <2> QED
    BY <1>1, <1>3, <2>1, <2>2, <2>3, <2>4, <2>5 DEF Evolves
<1>7. CASE \E a, b : /\ New(a) /\ (~JumpStep => Pends(a) = {}) /\ b.fn = "block"
                     /\ todo' = base \o <<a, b>>
  <2>1. PICK a, b : /\ New(a) /\ (~JumpStep => Pends(a) = {}) /\ b.fn = "block"
                    /\ todo' = base \o <<a, b>>
    BY <1>7
  <2>2. /\ Len(todo') = k + 2 /\ todo'[k + 1] = a /\ todo'[k + 2] = b
        /\ \A i \in 1 .. k : todo'[i] = base[i]
    <3> DEFINE S == Activations \cup {a, b}
    <3>1. base \in Seq(S) /\ a \in S /\ b \in S
      BY <1>2
    <3> HIDE DEF S
    <3>2. /\ Len(base \o <<a, b>>) = Len(base) + 2
          /\ (base \o <<a, b>>)[Len(base) + 1] = a /\ (base \o <<a, b>>)[Len(base) + 2] = b
          /\ \A i \in 1 .. Len(base) : (base \o <<a, b>>)[i] = base[i]
      BY <3>1, TwoMore
    <3>3. Len(base) = k /\ todo' = base \o <<a, b>>
      BY <1>3, <2>1
    <3> QED
      BY <3>2, <3>3
  <2>3. \A i \in 1 .. k + 2 : i > k => i = k + 1 \/ i = k + 2
    BY <1>4
  <2>4. New(b) /\ Pends(b) = {} /\ b.fn # "loop"
    BY <2>1 DEF New, Pends
  <2>5. k <= k + 2 /\ k + 2 \in Nat
    BY <1>4
  <2> QED
    BY <1>1, <1>3, <2>1, <2>2, <2>3, <2>4, <2>5, ZenonT(40) DEF Evolves
<1> QED
  BY <1>5, <1>6, <1>7

\* The arguments of a call.
LEMMA EvolvesCalling ==
    ASSUME TypeOK, NEW base \in {todo, Below}, NEW e, NEW frame, Pass(e, frame, base),
           frame.fn = "args", New(frame),
           base = Below => Top.fn \notin Forks
    PROVE  Evolves
<1>1. todo' = base \/ todo' = Append(base, frame)
  BY DEF Pass
<1>2. frame.fn \notin Forks
  BY DEF Forks
<1>3. base = Below => (Top.fn = "loop" => loop_done) /\ (~JumpStep => Pends(Top) = {})
  BY DEF Forks, Pends
<1> QED
  BY <1>1, <1>2, <1>3, EvolvesFrom

(* Compiling a call changes what waits in one of these ways. *)
LEMMA EvolvesCall ==
    ASSUME TypeOK, NEW n, n.argc \in Nat, NEW args_idx \in {0, 1}, NEW e,
           NEW base \in {todo, Below}, func_call(e, n, args_idx, base),
           base = Below => Top.fn \notin Forks
    PROVE  Evolves
<1>1. CASE todo' = base
  <2>1. base = Below => (Top.fn = "loop" => loop_done) /\ (~JumpStep => Pends(Top) = {})
    BY DEF Forks, Pends
  <2> QED
    BY <1>1, <2>1, EvolvesFrom
<1>2. CASE \E frame \in [fn : {"args"}, next : Nat, count : Nat,
                          call : PendingCalls, pipe : BOOLEAN] :
              Pass(e, frame, base) /\ frame.call \in Callees(n.name)
  <2>1. PICK frame \in [fn : {"args"}, next : Nat, count : Nat,
                        call : PendingCalls, pipe : BOOLEAN] :
              Pass(e, frame, base) /\ frame.call \in Callees(n.name)
    BY <1>2
  <2>2. frame.call.by = "fcall" => <<frame.call.target, frame.call.argc>> \in Entered
    BY <2>1 DEF Callees, Entered
  <2>3. frame.fn = "args" /\ New(frame)
    BY <2>2 DEF New
  <2> QED
    BY <2>1, <2>3, EvolvesCalling
<1> QED
  BY <1>1, <1>2, FuncCallPasses

(* So does visiting any node, *)
LEMMA EvolvesVisit ==
    ASSUME TypeOK, NEW n \in Nodes, Visit(n)
    PROVE  Evolves
<1>1. CASE \/ gen_num(n) \/ gen_bool(n) \/ gen_string(n) \/ gen_var_ref(n)
           \/ gen_break(n) \/ gen_continue(n) \/ gen_module_again(n)
           \/ gen_null(n) \/ gen_program_end(n) \/ (gen_assign(n) /\ todo' = todo)
  <2>1. todo' = todo
    BY <1>1
       DEF gen_num, gen_bool, gen_literal, gen_string, gen_var_ref, Leaf, gen_break,
           gen_continue, gen_module_again, gen_null, gen_program_end
  <2>2. todo # Below
    BY TopType
  <2> QED
    BY <2>1, <2>2, EvolvesFrom
<1>2. todo # Below
  BY TopType
<1>3. CASE gen_unary(n) \/ gen_binary(n) \/ (gen_assign(n) /\ todo' # todo) \/ gen_return(n)
           \/ gen_if(n) \/ gen_module(n) \/ (gen_loop(n) /\ n.counted)
  <2>1. \E a : a.fn \in {"unary", "left", "assign", "define", "return", "if_cond", "module",
                         "loop_cond"} /\ todo' = Append(todo, a)
    <3>1. CASE gen_unary(n) \/ gen_return(n) \/ gen_if(n) \/ (gen_loop(n) /\ n.counted)
      BY <3>1 DEF gen_unary, gen_return, gen_if, gen_loop, Descend, Push
    <3>2. CASE gen_binary(n)
      <4> DEFINE a == [fn |-> "left", node |-> n, tmp |-> alloc(bitset)]
      <4>1. a.fn = "left" /\ todo' = Append(todo, a)
        BY <3>2 DEF gen_binary, Descend, Push
      <4> HIDE DEF a
      <4> QED
        BY <4>1
    <3>4. CASE gen_module(n)
      <4> DEFINE a == [fn |-> "module", mod |-> ModuleName(n), decls |-> n.decls, next |-> 1]
      <4>1. a.fn = "module" /\ todo' = Append(todo, a)
        BY <3>4 DEF gen_module, Push
      <4> HIDE DEF a
      <4> QED
        BY <4>1
    <3>3. CASE gen_assign(n) /\ todo' # todo
      <4> DEFINE a == [fn |-> "assign", name |-> n.name, fst |-> Distance(n.name)]
                 b == [fn |-> "define", name |-> n.name, mut |-> n.mut]
      <4>1. a.fn = "assign" /\ b.fn = "define"
        OBVIOUS
      <4>2. todo' = Append(todo, a) \/ todo' = Append(todo, b)
        BY <3>3 DEF gen_assign, Descend, Push
      <4> HIDE DEF a, b
      <4> QED
        BY <4>1, <4>2
    <3> QED
      BY <1>3, <3>1, <3>2, <3>3, <3>4
  <2>2. \E a : New(a) /\ a.fn \notin Forks /\ todo' = Append(todo, a)
    BY <2>1 DEF New, Forks
  <2> QED
    BY <1>2, <2>2, EvolvesFrom
<1>4. CASE gen_func_call(n)
  <2>1. n.argc \in Nat
    BY <1>4, NodeFields DEF gen_func_call, AtExpr
  <2> QED
    BY <1>2, <1>4, <2>1, EvolvesCall DEF gen_func_call
<1>5. CASE gen_vmc(n)
  <2> DEFINE frame == [fn |-> "args", next |-> 0, count |-> n.argc,
                       call |-> [by |-> "vmc", target |-> n.idx, argc |-> n.argc],
                       pipe |-> FALSE]
  <2>1. Pass(em, frame, todo) /\ frame.fn = "args" /\ New(frame)
    BY <1>5 DEF gen_vmc, New
  <2> HIDE DEF frame
  <2> QED
    BY <1>2, <2>1, EvolvesCalling
<1>6. CASE gen_loop(n) /\ ~n.counted
  <2> DEFINE a == [fn |-> "loop", cond |-> NoReg, start |-> tagging]
  <2>1. todo' = todo \o <<a, Block>>
    BY <1>6 DEF gen_loop, LoopBody
  <2>2. New(a) /\ Pends(a) = {} /\ Block.fn = "block"
    BY DEF New, Pends, Block, tagging
  <2> HIDE DEF a
  <2> QED
    BY <1>2, <2>1, <2>2, EvolvesFrom
<1>7. CASE gen_function(n)
  <2> DEFINE a == [fn |-> "function"]
             b == [Block EXCEPT !.scoped = FALSE]
  <2>1. todo' = todo \o <<a, b>>
    BY <1>7 DEF gen_function
  <2>2. New(a) /\ Pends(a) = {} /\ b.fn = "block"
    BY DEF New, Pends, Block
  <2> HIDE DEF a, b
  <2> QED
    BY <1>2, <2>1, <2>2, EvolvesFrom
<1>8. CASE gen_block_end(n)
  <2>1. todo' = Below /\ Top.fn = "block"
    BY <1>8 DEF gen_block_end, Leave
  <2>2. Pends(Top) = {} /\ Top.fn # "loop"
    BY <2>1 DEF Pends
  <2> QED
    BY <2>1, <2>2, EvolvesFrom
<1> QED
  BY <1>1, <1>3, <1>4, <1>5, <1>6, <1>7, <1>8 DEF Visit

(* and so does resuming any activation. *)
LEMMA EvolvesResume ==
    ASSUME TypeOK, CallsNamed, Resume
    PROVE  Evolves
<1>1. CASE child_done \/ module_func_null
  <2>1. todo' = todo /\ todo # Below
    BY <1>1, TopType DEF child_done, module_func_null
  <2> QED
    BY <2>1, EvolvesFrom
<1>2. CASE \/ unary_done \/ binary_right \/ assign_done \/ define_done
           \/ return_done \/ function_done \/ module_done
  <2>1. todo' = Below /\ Top.fn \notin Forks
    BY <1>2
       DEF unary_done, binary_right, assign_done, define_done, return_done,
           function_done, module_done, Leave, Awaiting, Forks
  <2>2. Pends(Top) = {} /\ Top.fn # "loop"
    BY <2>1 DEF Pends, Forks
  <2> QED
    BY <2>1, <2>2, EvolvesFrom
<1>3. CASE if_else \/ loop_done \/ (if_then /\ ~Top.has_else)
  <2>1. todo' = Below /\ JumpStep /\ (Top.fn = "loop" => loop_done)
    BY <1>3 DEF if_else, loop_done, if_then, Leave, Awaiting, JumpStep
  <2> QED
    BY <2>1, EvolvesFrom
<1>4. CASE binary_left \/ module_func
  <2>1. /\ \E a : a.fn \in {"right", "module"} /\ todo' = Append(Below, a)
        /\ Top.fn \in {"left", "module"}
    <3>1. CASE binary_left
      BY <3>1 DEF binary_left, Awaiting
    <3>2. CASE module_func
      <4> DEFINE a == [Top EXCEPT !.next = @ + 1]
      <4>1. Top.fn = "module"
        BY <3>2 DEF module_func, Awaiting
      <4>2. Top \in [fn : {"module"}, mod : Vars, decls : Seq(Declarations), next : Nat \ {0}]
        BY <4>1, TopType, Fields
      <4>3. a.fn = "module"
        BY <4>2
      <4>4. todo' = Append(Below, a)
        BY <3>2 DEF module_func
      <4> HIDE DEF a
      <4> QED
        BY <4>1, <4>3, <4>4
    <3> QED
      BY <1>4, <3>1, <3>2
  <2>2. \E a : New(a) /\ a.fn \notin Forks /\ todo' = Append(Below, a)
    BY <2>1 DEF New, Forks
  <2>3. Pends(Top) = {} /\ Top.fn # "loop"
    BY <2>1 DEF Pends
  <2> QED
    BY <2>2, <2>3, EvolvesFrom
<1>5. CASE binary_pipe
  <2>1. Top.node.argc \in Nat /\ Top.fn = "left"
    BY <1>5, TopType, Fields DEF binary_pipe, Awaiting, OperatorNodes
  <2>2. Top.fn \notin Forks
    BY <2>1 DEF Forks
  <2> QED
    BY <1>5, <2>1, <2>2, EvolvesCall DEF binary_pipe
<1>6. CASE arg_done
  <2> DEFINE frame == [Top EXCEPT !.next = @ + 1]
  <2>1. Top.fn = "args" /\ frame.fn = "args" /\ frame.call = Top.call
    BY <1>6, TopType, Fields DEF arg_done, Awaiting
  <2>2. Len(todo) \in 1 .. Len(todo)
    BY TopType
  <2>3. New(frame)
    BY <2>1, <2>2 DEF New, CallsNamed, Top
  <2>4. Pass(emit_mov_rr(em, REG_COUNT_INDEX_MAX - Top.next, ret), frame, Below)
    BY <1>6 DEF arg_done
  <2>5. Top.fn \notin Forks
    BY <2>1 DEF Forks
  <2> HIDE DEF frame
  <2> QED
    BY <2>1, <2>3, <2>4, <2>5, EvolvesCalling
<1>7. CASE if_cond \/ loop_cond \/ (if_then /\ Top.has_else)
  <2>1. /\ \E a : New(a) /\ todo' = Below \o <<a, Block>>
        /\ JumpStep /\ Top.fn # "loop"
    <3>1. CASE if_cond
      <4> DEFINE a == [fn |-> "if_then", cond |-> ret, els |-> tagging + 1,
                       has_else |-> Top.has_else]
      <4>1. New(a) /\ todo' = Below \o <<a, Block>>
        BY <3>1 DEF if_cond, New
      <4> QED
        BY <3>1, <4>1 DEF if_cond, Awaiting, JumpStep
    <3>2. CASE loop_cond
      <4> DEFINE a == [fn |-> "loop", cond |-> ret, start |-> tagging]
      <4>1. New(a) /\ todo' = Below \o <<a, Block>>
        BY <3>2 DEF loop_cond, LoopBody, New, tagging
      <4> QED
        BY <3>2, <4>1 DEF loop_cond, Awaiting, JumpStep
    <3>3. CASE if_then /\ Top.has_else
      <4> DEFINE a == [fn |-> "if_else", cond |-> Top.cond, then_end |-> tagging]
      <4>1. New(a) /\ todo' = Below \o <<a, Block>>
        BY <3>3 DEF if_then, New
      <4> QED
        BY <3>3, <4>1 DEF if_then, Awaiting, JumpStep
    <3> QED
      BY <1>7, <3>1, <3>2, <3>3
  <2>2. Block.fn = "block"
    BY DEF Block
  <2> QED
    BY <2>1, <2>2, EvolvesFrom
<1> QED
  BY <1>1, <1>2, <1>3, <1>4, <1>5, <1>6, <1>7 DEF Resume

-----------------------------------------------------------------------------
(* What a step leaves of the code that is already there.                   *)

\* Instructions keep their kind, and change only where the peephole redirects
\* a result or a jump gets its target; a new call enters an entry of C.
Preserved(d, e, C) ==
    /\ e \in Emitters /\ RegLast(e)
    /\ Emitted(d) \in Nat /\ Emitted(e) \in Nat /\ Emitted(d) <= Emitted(e)
    /\ \A k \in 1 .. Emitted(d) :
          /\ e.ops[k].op = d.ops[k].op
          /\ d.ops[k].op \notin Retargetable \cup Jumps => e.ops[k] = d.ops[k]
    /\ \A k \in 1 .. Emitted(e) :
          k > Emitted(d) /\ e.ops[k].op = "FCALL" => e.ops[k].operands \in C

\* Code without jumps keeps what was there.
LEMMA StraightKeeps ==
    ASSUME NEW d \in Emitters, RegLast(d), NEW R \in SUBSET Int, NEW W, NEW C, NEW e,
           Straight(d, e, R, W, C)
    PROVE  Preserved(d, e, C)
<1>1. Emitted(d) \in Nat /\ \A k \in 1 .. Emitted(d) : d.ops[k] \in Instructions
  BY DEF Emitters, Emitted
<1>2. ASSUME NEW k \in 1 .. Emitted(d), Redirected(d, e, k, R)
      PROVE  e.ops[k].op = d.ops[k].op /\ d.ops[k].op \in Retargetable
  <2>1. d.ops[k].op \in Retargetable
    BY <1>2 DEF Redirected, RegLast
  <2>2. PICK r \in R : e.ops[k] = [d.ops[k] EXCEPT !.operands[1] = r]
    BY <1>2 DEF Redirected
  <2>3. r \in Int /\ d.ops[k] \in Instructions
    BY <1>1
  <2>4. [d.ops[k] EXCEPT !.operands[1] = r].op = d.ops[k].op
    BY <2>3, Retargeted
  <2> QED
    BY <2>1, <2>2, <2>4, Zenon
<1>3. \A k \in 1 .. Emitted(d) :
          /\ e.ops[k].op = d.ops[k].op
          /\ d.ops[k].op \notin Retargetable \cup Jumps => e.ops[k] = d.ops[k]
  BY <1>2 DEF Straight
<1>4. \A k \in 1 .. Emitted(e) :
          k > Emitted(d) /\ e.ops[k].op = "FCALL" => e.ops[k].operands \in C
  BY DEF Straight, Harmless
<1> QED
  BY <1>3, <1>4 DEF Straight, Preserved

\* So does code with jumps.
LEMMA JumpingKeeps ==
    ASSUME NEW d \in Emitters, NEW F, NEW N, NEW B, NEW D, NEW C, NEW e,
           Jumping(d, e, F, N, B, D)
    PROVE  Preserved(d, e, C)
<1>1. \A k \in 1 .. Emitted(e) : k > Emitted(d) => e.ops[k].op # "FCALL"
  BY DEF Jumping, Jumps
<1> QED
  BY <1>1 DEF Jumping, Preserved

\* Every step keeps the code it finds.
LEMMA CodeKept ==
    ASSUME TypeOK, InStep, ModulesNamed, CallsNamed, RegLast(em), PendingJumps,
           GeneratorStep
    PROVE  Preserved(em, em', Entered)
<1>1. em \in Emitters
  BY DEF TypeOK, Emitters
<1>2. CASE JumpStep
  <2>1. PICK F, N, B, D : F \in SUBSET Pending /\ Jumping(em, em', F, N, B, D)
    BY <1>2, JumpStepCode
  <2> QED
    BY <1>1, <2>1, JumpingKeeps
<1>3. CASE ~JumpStep
  <2>1. ASSUME NEW n \in Nodes, Visit(n)
        PROVE  Straight(em, em', {}, Scratch, Entered)
    BY <1>3, <2>1, StraightVisit DEF JumpStep
  <2>2. ASSUME Resume
        PROVE  Straight(em, em', Redirecting, Scratch, Entered)
    BY <1>3, <2>2, StraightResume DEF JumpStep
  <2>3. Redirecting \in SUBSET Int /\ {} \in SUBSET Int
    BY ScratchRegisters
  <2> QED
    BY <1>1, <2>1, <2>2, <2>3, StraightKeeps DEF GeneratorStep
<1> QED
  BY <1>2, <1>3

-----------------------------------------------------------------------------
(* The table of functions.                                                 *)

\* A function is declared once, and only by gen_function.
LEMMA DeclaresOnce ==
    ASSUME TypeOK, GeneratorStep
    PROVE  \/ funcs' = funcs
           \/ \E n \in Nodes : /\ gen_function(n) /\ funcs[n.name] = NoFunc
                               /\ funcs' = [funcs EXCEPT ![n.name] =
                                     [argc |-> Len(n.params), addr |-> Emitted(em) + 1]]
<1>1. ASSUME NEW n \in Nodes, gen_function(n), funcs' # funcs
      PROVE  /\ funcs[n.name] = NoFunc
             /\ funcs' = [funcs EXCEPT ![n.name] =
                             [argc |-> Len(n.params), addr |-> Emitted(em) + 1]]
  <2>1. Emitted(emit_func_create(em)) = Emitted(em) + 1
    <3>1. em \in Emitters
      BY DEF TypeOK, Emitters
    <3> QED
      BY <3>1, Emits DEF Longer
  <2> QED
    BY <1>1, <2>1 DEF gen_function
<1>2. ASSUME NEW n \in Nodes, Visit(n), ~gen_function(n)
      PROVE  funcs' = funcs
  BY <1>2
     DEF Visit, gen_num, gen_bool, gen_literal, gen_string, gen_var_ref, gen_unary,
         gen_binary, gen_func_call, gen_vmc, gen_assign, gen_return, gen_null, gen_if,
         gen_loop, gen_break, gen_continue, gen_block_end, gen_program_end, gen_module,
         gen_module_again, Descend, Names
<1>3. ASSUME Resume
      PROVE  funcs' = funcs
  BY <1>3
     DEF Resume, unary_done, binary_left, binary_right, binary_pipe, arg_done,
         child_done, assign_done, define_done, return_done, if_cond, if_then, if_else,
         loop_cond, loop_done, function_done, module_func,
         module_func_null, module_done, Names
<1> QED
  BY <1>1, <1>2, <1>3 DEF GeneratorStep

\* Entries stay where they are.
LEMMA EntriesStay ==
    ASSUME TypeOK, GeneratorStep
    PROVE  /\ \A f \in Funcs : funcs[f] # NoFunc => funcs'[f] = funcs[f]
           /\ Entered \subseteq Entered'
<1>1. \A f \in Funcs : funcs[f] # NoFunc => funcs'[f] = funcs[f]
  BY DeclaresOnce DEF TypeOK
<1> QED
  BY <1>1 DEF Entered

\* At entry a function stores argc arguments out of their registers.
Stores(e, entry, argc) ==
    /\ entry \in 1 .. Emitted(e) /\ argc \in Nat /\ entry + argc <= Emitted(e)
    /\ e.ops[entry].op = "FUNC_CREATE"
    /\ \A i \in 1 .. argc : e.ops[entry + i] =
          Op("LOCAL_SET", <<0, i - 1, REG_COUNT_INDEX_MAX - (i - 1)>>)

\* So does the function that gen_function announces.
LEMMA StoresNew ==
    ASSUME TypeOK, NEW n \in Nodes, gen_function(n)
    PROVE  Stores(em', Emitted(em) + 1, Len(n.params))
<1> DEFINE c == emit_func_create(em)
<1>1. em \in Emitters /\ n.params \in Seq(Vars) /\ Emitted(em) \in Nat
  BY NodeFields DEF gen_function, AtStmt, TypeOK, Emitters, Emitted
<1>2. /\ c \in Emitters /\ Emitted(c) = Emitted(em) + 1
      /\ c.ops[Emitted(em) + 1] = Op("FUNC_CREATE", <<0>>)
  BY <1>1, Emits DEF Longer
<1>3. em' = emit_params(c, n)
  BY DEF gen_function
<1> HIDE DEF c
<1>6. Emitted(c) \in 1 .. Emitted(c) /\ Len(n.params) \in Nat
  BY <1>1, <1>2
<1>7. /\ Emitted(emit_params(c, n)) = Emitted(c) + Len(n.params)
      /\ \A k \in 1 .. Emitted(c) : emit_params(c, n).ops[k] = c.ops[k]
      /\ \A i \in 1 .. Len(n.params) : emit_params(c, n).ops[Emitted(c) + i] =
                 Op("LOCAL_SET", <<0, i - 1, REG_COUNT_INDEX_MAX - (i - 1)>>)
  BY <1>1, <1>2, ParamsCode
<1>4. /\ Emitted(em') = Emitted(c) + Len(n.params) /\ Len(n.params) \in Nat
      /\ em'.ops[Emitted(c)] = c.ops[Emitted(c)]
      /\ \A i \in 1 .. Len(n.params) : em'.ops[Emitted(c) + i] =
                 Op("LOCAL_SET", <<0, i - 1, REG_COUNT_INDEX_MAX - (i - 1)>>)
  BY <1>3, <1>6, <1>7
<1>5. Op("FUNC_CREATE", <<0>>).op = "FUNC_CREATE"
  BY DEF Op
<1> QED
  BY <1>1, <1>2, <1>4, <1>5 DEF Stores

\* The instructions at an entry are none that change.
LEMMA StoresStay ==
    ASSUME NEW d, NEW e, NEW C, Preserved(d, e, C), NEW entry, NEW argc,
           Stores(d, entry, argc)
    PROVE  Stores(e, entry, argc)
<1>1. {"FUNC_CREATE", "LOCAL_SET"} \cap (Retargetable \cup Jumps) = {}
  BY Operations DEF Jumps
<1>2. \A x : Op("LOCAL_SET", x).op = "LOCAL_SET"
  BY DEF Op
<1>3. /\ entry \in 1 .. Emitted(d) /\ argc \in Nat /\ entry + argc <= Emitted(d)
      /\ Emitted(d) \in Nat /\ Emitted(e) \in Nat /\ Emitted(d) <= Emitted(e)
  BY DEF Stores, Preserved
<1>4. e.ops[entry].op = "FUNC_CREATE"
  BY <1>3 DEF Stores, Preserved
<1>5. ASSUME NEW i \in 1 .. argc
      PROVE  e.ops[entry + i] =
                Op("LOCAL_SET", <<0, i - 1, REG_COUNT_INDEX_MAX - (i - 1)>>)
  <2>1. entry + i \in 1 .. Emitted(d)
    BY <1>3
  <2>2. d.ops[entry + i] =
           Op("LOCAL_SET", <<0, i - 1, REG_COUNT_INDEX_MAX - (i - 1)>>)
    BY DEF Stores
  <2>3. d.ops[entry + i].op = "LOCAL_SET"
    BY <1>2, <2>2
  <2>4. e.ops[entry + i] = d.ops[entry + i]
    BY <1>1, <2>1, <2>3 DEF Preserved
  <2> QED
    BY <2>2, <2>4
<1> QED
  BY <1>3, <1>4, <1>5 DEF Stores

-----------------------------------------------------------------------------
(* Calls.                                                                  *)

\* The table names entries, and every call in the code enters one of them.
FunctionsEntered ==
    \A f \in Funcs : funcs[f] # NoFunc => Stores(em, funcs[f].addr, funcs[f].argc)
CallsRefer ==
    \A k \in 1 .. Emitted(em) : em.ops[k].op = "FCALL" => em.ops[k].operands \in Entered

\* The inductive invariant of the code.
CallInv ==
    /\ RegLast(em) /\ PendingJumps /\ CallsNamed
    /\ FunctionsEntered /\ CallsRefer

\* Steps that neither emit nor patch a jump leave the waiting jumps as they are.
LEMMA PendingKept ==
    ASSUME TypeOK, Evolves, GeneratorStep, ~JumpStep
    PROVE  Pending' = Pending /\ UNCHANGED Points
<1>1. UNCHANGED Points
  <2>1. ASSUME NEW n \in Nodes, Visit(n)
        PROVE  UNCHANGED Points
    BY <2>1
       DEF Visit, JumpStep, gen_num, gen_bool, gen_literal, gen_string, gen_var_ref, gen_unary,
           gen_binary, gen_func_call, gen_vmc, gen_assign, gen_return, gen_null, gen_if,
           gen_loop, gen_function, gen_block_end, gen_program_end, gen_module,
           gen_module_again, Descend
  <2>2. ASSUME Resume
        PROVE  UNCHANGED Points
    BY <2>2
       DEF Resume, JumpStep, unary_done, binary_left, binary_right, binary_pipe, arg_done,
           child_done, assign_done, define_done, return_done, function_done, module_func,
           module_func_null, module_done
  <2> QED
    BY <2>1, <2>2 DEF GeneratorStep
<1>2. PICK k \in {Len(todo) - 1, Len(todo)} :
        /\ Len(todo') \in Nat /\ k <= Len(todo')
        /\ \A i \in 1 .. k : todo'[i] = todo[i]
        /\ \A i \in 1 .. Len(todo') : i > k => Pends(todo'[i]) = {}
        /\ k < Len(todo) => Pends(Top) = {}
  BY DEF Evolves
<1>3. Len(todo) \in Nat \ {0} /\ k \in Nat
  BY TopType
<1>4. \A p : p \in Waits(todo) <=> \E i \in 1 .. Len(todo) : p \in Pends(todo[i])
  BY DEF Waits, Elements
<1>5. \A p : p \in Waits(todo)' <=> \E i \in 1 .. Len(todo') : p \in Pends(todo'[i])
  BY DEF Waits, Elements
<1>6. ASSUME NEW p, NEW i \in 1 .. Len(todo'), p \in Pends(todo'[i])
      PROVE  \E j \in 1 .. Len(todo) : p \in Pends(todo[j])
  <2>1. i <= k
    <3>1. SUFFICES ASSUME ~(i <= k) PROVE FALSE
      OBVIOUS
    <3>2. i > k
      BY <1>2, <1>3, <3>1
    <3> QED
      BY <1>2, <1>6, <3>2
  <2>2. i \in 1 .. k /\ i \in 1 .. Len(todo)
    BY <1>2, <1>3, <2>1
  <2> QED
    BY <1>2, <1>6, <2>2
<1>7. ASSUME NEW p, NEW i \in 1 .. Len(todo), p \in Pends(todo[i])
      PROVE  \E j \in 1 .. Len(todo') : p \in Pends(todo'[j])
  <2>1. i <= k
    <3>1. SUFFICES ASSUME ~(i <= k) PROVE FALSE
      OBVIOUS
    <3>2. i = Len(todo) /\ k < Len(todo)
      BY <1>3, <3>1
    <3> QED
      BY <1>2, <1>7, <3>2 DEF Top
  <2>2. i \in 1 .. k /\ i \in 1 .. Len(todo')
    BY <1>2, <1>3, <2>1
  <2> QED
    BY <1>2, <1>7, <2>2
<1>8. \A p : p \in Waits(todo)' <=> p \in Waits(todo)
  BY <1>4, <1>5, <1>6, <1>7
<1>9. Waits(todo)' = Waits(todo)
  BY <1>8
<1> QED
  BY <1>1, <1>9 DEF Pending, Points

\* Waiting jumps stay jumps.
LEMMA PendingStep ==
    ASSUME TypeOK, Evolves, GeneratorStep, RegLast(em), PendingJumps,
           Preserved(em, em', Entered)
    PROVE  PendingJumps'
<1>1. /\ Emitted(em) \in Nat /\ Emitted(em') \in Nat /\ Emitted(em) <= Emitted(em')
      /\ \A k \in 1 .. Emitted(em) : em'.ops[k].op = em.ops[k].op
  BY DEF Preserved
<1>2. ASSUME NEW p \in Pending
      PROVE  /\ p \in 0 .. Emitted(em') - 1 /\ em'.ops[p + 1].op \in Jumps
             /\ p \in break_points \cup continue_points => em'.ops[p + 1].op = "JMP"
  <2>1. p \in 0 .. Emitted(em) - 1 /\ p + 1 \in 1 .. Emitted(em)
    BY <1>1 DEF PendingJumps
  <2> QED
    BY <1>1, <2>1 DEF PendingJumps
<1>3. CASE ~JumpStep
  <2>1. Pending' = Pending /\ UNCHANGED Points
    BY <1>3, PendingKept
  <2> QED
    BY <1>2, <2>1 DEF PendingJumps, Points, Pending, Emitted
<1>4. CASE JumpStep
  <2>1. PICK F, N, B, D :
              /\ F \in SUBSET Pending
              /\ Jumping(em, em', F, N, B, D)
              /\ Pending' \subseteq Pending \cup N
              /\ \A p \in break_points' \cup continue_points' :
                    \/ p \in break_points \cup continue_points
                    \/ p = Emitted(em) /\ p + 1 <= Emitted(em') /\ em'.ops[p + 1].op = "JMP"
              /\ D = {} \/ N = {}
    BY <1>4, JumpStepCode
  <2>2. ASSUME NEW p \in N
        PROVE  p \in 0 .. Emitted(em') - 1 /\ em'.ops[p + 1].op \in Jumps
    <3>1. /\ p \in Emitted(em) .. Emitted(em') - 1 /\ D = {}
          /\ p + 1 \in 1 .. Emitted(em') /\ p + 1 > Emitted(em)
      BY <1>1, <2>1 DEF Jumping
    <3>2. em'.ops[p + 1].op = "DEC" => Writes(em'.ops[p + 1]) # {}
      BY DEF Writes
    <3> QED
      BY <1>1, <2>1, <3>1, <3>2 DEF Jumping
  <2>3. \A p \in Pending' : p \in 0 .. Emitted(em') - 1 /\ em'.ops[p + 1].op \in Jumps
    BY <1>2, <2>1, <2>2
  <2>4. \A p \in break_points' \cup continue_points' : em'.ops[p + 1].op = "JMP"
    BY <1>2, <2>1 DEF Pending
  <2> QED
    BY <2>3, <2>4 DEF PendingJumps, Emitted
<1> QED
  BY <1>3, <1>4

(* Every step preserves the invariant of the code and of what waits. *)
LEMMA CallInvStep ==
    ASSUME TypeInv, CallInv, [Next]_gvars
    PROVE  CallInv'
<1>1. /\ TypeOK /\ Nested /\ InStep /\ ModulesNamed
      /\ RegLast(em) /\ PendingJumps /\ CallsNamed /\ FunctionsEntered /\ CallsRefer
  BY DEF TypeInv, CallInv
<1>2. CASE GeneratorStep
  <2>1. Preserved(em, em', Entered)
    BY <1>1, <1>2, CodeKept
  <2>2. Evolves
    BY <1>1, <1>2, EvolvesVisit, EvolvesResume DEF GeneratorStep
  <2>3. Entered \subseteq Entered' /\ \A f \in Funcs : funcs[f] # NoFunc => funcs'[f] = funcs[f]
    BY <1>1, <1>2, EntriesStay
  <2>4. RegLast(em)'
    BY <2>1 DEF Preserved, RegLast, Emitted
  <2>5. PendingJumps'
    BY <1>1, <1>2, <2>1, <2>2, PendingStep
  <2>6. CallsNamed'
    <3>1. PICK k \in {Len(todo) - 1, Len(todo)} :
            /\ \A i \in 1 .. k : todo'[i] = todo[i]
            /\ \A i \in 1 .. Len(todo') : i > k => New(todo'[i])
      BY <2>2 DEF Evolves
    <3>2. Len(todo) \in Nat \ {0}
      BY <1>1, TopType
    <3>3. ASSUME NEW i \in 1 .. Len(todo'), todo'[i].fn = "args", todo'[i].call.by = "fcall"
          PROVE  <<todo'[i].call.target, todo'[i].call.argc>> \in Entered
      <4>1. CASE i > k
        BY <3>1, <3>3, <4>1 DEF New
      <4>2. CASE ~(i > k)
        <5>1. i \in 1 .. k /\ i \in 1 .. Len(todo)
          BY <3>2, <4>2
        <5> QED
          BY <1>1, <3>1, <3>3, <5>1 DEF CallsNamed
      <4> QED
        BY <4>1, <4>2
    <3> QED
      BY <2>3, <3>3 DEF CallsNamed
  <2>7. FunctionsEntered'
    <3>1. ASSUME NEW f \in Funcs, funcs'[f] # NoFunc
          PROVE  Stores(em', funcs'[f].addr, funcs'[f].argc)
      <4>1. CASE funcs[f] # NoFunc
        BY <1>1, <2>1, <2>3, <4>1, StoresStay DEF FunctionsEntered
      <4>2. CASE funcs[f] = NoFunc
        <5>1. PICK n \in Nodes :
                 /\ gen_function(n)
                 /\ funcs' = [funcs EXCEPT ![n.name] =
                                 [argc |-> Len(n.params), addr |-> Emitted(em) + 1]]
          BY <1>1, <1>2, <3>1, <4>2, DeclaresOnce
        <5>2. funcs'[f].argc = Len(n.params) /\ funcs'[f].addr = Emitted(em) + 1
          BY <1>1, <3>1, <4>2, <5>1 DEF TypeOK
        <5> QED
          BY <1>1, <5>1, <5>2, StoresNew
      <4> QED
        BY <4>1, <4>2
    <3> QED
      BY <3>1 DEF FunctionsEntered
  <2>8. CallsRefer'
    <3>1. ASSUME NEW k \in 1 .. Emitted(em'), em'.ops[k].op = "FCALL"
          PROVE  em'.ops[k].operands \in Entered
      <4>1. CASE k > Emitted(em)
        BY <2>1, <3>1, <4>1 DEF Preserved
      <4>2. CASE ~(k > Emitted(em))
        <5>1. k \in 1 .. Emitted(em)
          BY <2>1, <4>2 DEF Preserved
        <5>2. em.ops[k].op = "FCALL" /\ "FCALL" \notin Retargetable \cup Jumps
          BY <2>1, <3>1, <5>1, Operations DEF Preserved, Jumps
        <5>3. em'.ops[k] = em.ops[k]
          BY <2>1, <5>1, <5>2 DEF Preserved
        <5> QED
          BY <1>1, <5>1, <5>2, <5>3 DEF CallsRefer
      <4> QED
        BY <4>1, <4>2
    <3> QED
      BY <2>3, <3>1 DEF CallsRefer, Emitted
  <2> QED
    BY <2>4, <2>5, <2>6, <2>7, <2>8 DEF CallInv
<1>3. CASE UNCHANGED gvars
  <2>1. Entered' = Entered /\ Pending' = Pending
    BY <1>3 DEF gvars, Entered, Pending, Waits, Elements
  <2> QED
    BY <1>1, <1>3, <2>1
       DEF gvars, CallInv, RegLast, Emitted, PendingJumps, CallsNamed, FunctionsEntered,
           Stores, CallsRefer
<1>4. CASE Finished
  BY <1>3, <1>4 DEF Finished
<1> QED
  BY <1>2, <1>3, <1>4 DEF Next, GeneratorStep

(* Without code the invariant holds. *)
LEMMA CallInvInit ==
    ASSUME Init
    PROVE  CallInv
<1>1. /\ todo = <<[fn |-> "program"]>> /\ em = [ops |-> <<>>, ret_type |-> "None"]
      /\ funcs = [f \in Funcs |-> NoFunc] /\ break_points = {} /\ continue_points = {}
  BY DEF Init
<1>2. \A i \in 1 .. Len(todo) : todo[i].fn = "program"
  BY <1>1
<1>3. Emitted(em) = 0 /\ em.ret_type = "None"
  BY <1>1 DEF Emitted
<1>4. Waits(todo) = {}
  <2>1. \A i \in 1 .. Len(todo) : Pends(todo[i]) = {}
    BY <1>2 DEF Pends
  <2> QED
    BY <2>1 DEF Waits, Elements
<1>5. RegLast(em) /\ FunctionsEntered /\ CallsRefer /\ CallsNamed
  <2>1. \A k \in 1 .. Emitted(em) : FALSE
    BY <1>3
  <2>2. \A i \in 1 .. Len(todo) : todo[i].fn # "args"
    BY <1>2
  <2>3. \A f \in Funcs : funcs[f] = NoFunc
    BY <1>1
  <2> QED
    BY <1>3, <2>1, <2>2, <2>3 DEF RegLast, FunctionsEntered, CallsRefer, CallsNamed
<1>6. PendingJumps
  BY <1>1, <1>4 DEF PendingJumps, Pending
<1> QED
  BY <1>5, <1>6 DEF CallInv

(* The invariant says that every call enters a declared function. *)
LEMMA CallsEnter ==
    ASSUME TypeOK, CallInv
    PROVE  CallsEnterFunctions
<1>1. ASSUME NEW k \in 1 .. Emitted(em), em.ops[k].op = "FCALL"
      PROVE  LET entry == em.ops[k].operands[1]
                 argc == em.ops[k].operands[2]
             IN  /\ \E f \in Funcs : funcs[f] = [argc |-> argc, addr |-> entry]
                 /\ em.ops[entry].op = "FUNC_CREATE"
                 /\ \A i \in 1 .. argc :
                       em.ops[entry + i] =
                           Op("LOCAL_SET", <<0, i - 1, REG_COUNT_INDEX_MAX - (i - 1)>>)
  <2>1. em.ops[k].operands \in Entered
    BY <1>1 DEF CallInv, CallsRefer
  <2>2. PICK f \in Funcs : /\ funcs[f] # NoFunc
                           /\ em.ops[k].operands = <<funcs[f].addr, funcs[f].argc>>
    BY <2>1 DEF Entered
  <2>3. em.ops[k].operands[1] = funcs[f].addr /\ em.ops[k].operands[2] = funcs[f].argc
    BY <2>2
  <2>4. Stores(em, funcs[f].addr, funcs[f].argc)
    BY <2>2 DEF CallInv, FunctionsEntered
  <2>5. funcs[f] = [argc |-> funcs[f].argc, addr |-> funcs[f].addr]
    BY DEF TypeOK
  <2> QED
    BY <2>3, <2>4, <2>5 DEF Stores
<1> QED
  BY <1>1 DEF CallsEnterFunctions

\* Every call that any program compiles to enters a declared function behind
\* its FUNC_CREATE and passes as many arguments as the function stores.
\* gen_function records the entry before the code behind it exists, the
\* peephole and the patches of jumps change code later on, and the call is
\* emitted long after the name was looked up, when its arguments are done.
THEOREM CallsEnterDeclared == Spec => []CallsEnterFunctions
<1>1. Init => TypeInv /\ CallInv
  BY TypeInvInit, CallInvInit
<1>2. TypeInv /\ CallInv /\ [Next]_gvars => TypeInv' /\ CallInv'
  BY TypeInvStep, CallInvStep
<1>3. TypeInv /\ CallInv => CallsEnterFunctions
  BY CallsEnter DEF TypeInv
<1> QED
  BY <1>1, <1>2, <1>3, PTL DEF Spec

-----------------------------------------------------------------------------
(* Where control can come to: the jumps of gen_if and gen_loop, of break   *)
(* and continue, get targets inside the code, those that go back are       *)
(* nested, and the peephole changes no instruction that one comes to.      *)

\* A resolved jump waits for no target any more.
Resolved == {k \in JumpsAt : k - 1 \notin Pending}

\* Jumps stay inside the code, and resolved conditional ones skip forward.
Targets ==
    /\ \A k \in JumpsAt : Target(k) \in 0 .. Emitted(em)
    /\ \A k \in Resolved : em.ops[k].op # "JMP" => Target(k) >= k

\* The jumps that repeat code, and the loops whose jump is still to come.
Back == {k \in Resolved : Target(k) < k}
Loops == {i \in 1 .. Len(todo) : todo[i].fn = "loop"}

\* An inner loop starts behind the start of an outer one.
LoopsOrdered ==
    /\ \A i \in Loops : todo[i].start \in 0 .. Emitted(em)
    /\ \A i, j \in Loops : i < j => todo[i].start <= todo[j].start

\* What is repeated is nested: neither a jump back nor the start of a loop
\* cuts across the stretch that an earlier jump repeats.
BackNested ==
    /\ \A j, k \in Back : j < k => Target(k) \notin Target(j) + 1 .. j - 1
    /\ \A j \in Back, i \in Loops : todo[i].start \notin Target(j) + 1 .. j - 1

\* Where break and continue are accepted, or wait for a target, is a loop.
LoopOpen == lex.in_loop \/ break_points # {} \/ continue_points # {} => Loops # {}

\* The inductive invariant of the jumps.
JumpInv == Targets /\ LoopsOrdered /\ BackNested /\ LoopOpen /\ JumpsResolved

-----------------------------------------------------------------------------
\* Most steps leave all jumps as they are.
LEMMA JumpsKept ==
    ASSUME TypeInv, CallInv, GeneratorStep, ~JumpStep
    PROVE  /\ Pending' = Pending
           /\ \A k \in JumpsAt' : k \in JumpsAt /\ em'.ops[k] = em.ops[k]
<1>1. /\ TypeOK /\ InStep /\ ModulesNamed
      /\ RegLast(em) /\ PendingJumps /\ CallsNamed
  BY DEF TypeInv, CallInv
<1>2. Pending' = Pending
  BY <1>1, EvolvesVisit, EvolvesResume, PendingKept DEF GeneratorStep
<1>3. \E R : Straight(em, em', R, Scratch, Entered)
  BY <1>1, StraightVisit, StraightResume DEF GeneratorStep, JumpStep
<1>4. Preserved(em, em', Entered)
  BY <1>1, CodeKept
<1>5. ASSUME NEW k \in JumpsAt'
      PROVE  k \in JumpsAt /\ em'.ops[k] = em.ops[k]
  <2>1. k \in 1 .. Emitted(em') /\ em'.ops[k].op \in Jumps
    BY DEF JumpsAt, Emitted
  <2>2. ~(k > Emitted(em))
    BY <1>3, <2>1 DEF Straight, Harmless
  <2>3. k \in 1 .. Emitted(em) /\ em.ops[k].op \in Jumps
    BY <1>4, <2>1, <2>2 DEF Preserved
  <2>4. em'.ops[k] # em.ops[k] => k = Emitted(em) /\ em.ret_type = "Reg"
    BY <1>3, <2>3 DEF Straight, Redirected
  <2> QED
    BY <1>1, <2>3, <2>4, Operations DEF RegLast, JumpsAt
<1> QED
  BY <1>2, <1>5

\* What a step can do to a jump: leave it, aim it forward, emit it without a
\* target, or close a loop with it.
LEMMA JumpsStep ==
    ASSUME TypeInv, CallInv, GeneratorStep
    PROVE  /\ Emitted(em) \in Nat /\ Emitted(em') \in Nat /\ Emitted(em) <= Emitted(em')
           /\ \A k \in JumpsAt' :
                 \/ /\ k \in JumpsAt /\ em'.ops[k] = em.ops[k]
                    /\ k - 1 \in Pending => k - 1 \in Pending'
                 \/ Target(k)' \in k .. Emitted(em')
                 \/ k - 1 \in Pending' /\ Target(k)' = 0
                 \/ /\ k = Emitted(em') /\ loop_done
                    /\ Target(k)' = Top.start /\ em'.ops[k].op = "JMP"
<1>1. /\ TypeOK /\ InStep /\ ModulesNamed
      /\ RegLast(em) /\ PendingJumps /\ CallsNamed
  BY DEF TypeInv, CallInv
<1>2. Evolves
  BY <1>1, EvolvesVisit, EvolvesResume DEF GeneratorStep
<1>3. Preserved(em, em', Entered)
  BY <1>1, CodeKept
<1>4. /\ Emitted(em) \in Nat /\ Emitted(em') \in Nat /\ Emitted(em) <= Emitted(em')
      /\ \A k \in 1 .. Emitted(em) : em'.ops[k].op = em.ops[k].op
  BY <1>3 DEF Preserved
<1>5. \A k : Target(k)' = Goal(em'.ops[k])
  BY DEF Target, Goal
<1>6. ASSUME NEW k \in JumpsAt'
      PROVE  k \in 1 .. Emitted(em') /\ em'.ops[k].op \in Jumps
             /\ (k \in 1 .. Emitted(em) => k \in JumpsAt)
  BY <1>4, <1>6 DEF JumpsAt, Emitted
<1>7. CASE ~JumpStep
  BY <1>4, <1>7, JumpsKept
<1>8. CASE JumpStep
  <2>1. PICK F, N, B, D :
              /\ F \in SUBSET Pending
              /\ Jumping(em, em', F, N, B, D)
              /\ Pending \ F \subseteq Pending' /\ N \subseteq Pending'
              /\ B = {} \/ (loop_done /\ B = {Top.start})
    BY <1>1, <1>8, JumpStepCode
  <2>2. ASSUME NEW k \in JumpsAt', k \in 1 .. Emitted(em)
        PROVE  \/ /\ k \in JumpsAt /\ em'.ops[k] = em.ops[k]
                  /\ k - 1 \in Pending => k - 1 \in Pending'
               \/ Target(k)' \in k .. Emitted(em')
    BY <1>5, <1>6, <2>1, <2>2 DEF Jumping
  <2>3. ASSUME NEW k \in JumpsAt', k > Emitted(em)
        PROVE  \/ Target(k)' \in k .. Emitted(em')
               \/ k - 1 \in Pending' /\ Target(k)' = 0
               \/ /\ k = Emitted(em') /\ loop_done
                  /\ Target(k)' = Top.start /\ em'.ops[k].op = "JMP"
    BY <1>5, <1>6, <2>1, <2>3, Goals DEF Jumping
  <2>4. \A k \in JumpsAt' : k \in 1 .. Emitted(em) \/ k > Emitted(em)
    BY <1>4, <1>6
  <2> QED
    BY <1>4, <2>2, <2>3, <2>4
<1> QED
  BY <1>7, <1>8

\* The jumps of the next state that go back are those of this one, and the one
\* that closes a loop.
LEMMA TargetsStep ==
    ASSUME TypeInv, CallInv, GeneratorStep, Targets, LoopsOrdered
    PROVE  /\ Targets'
           /\ \A k \in Back' :
                 \/ k \in Back /\ Target(k)' = Target(k)
                 \/ k = Emitted(em') /\ loop_done /\ Target(k)' = Top.start
<1>1. /\ Emitted(em) \in Nat /\ Emitted(em') \in Nat /\ Emitted(em) <= Emitted(em')
      /\ \A k \in JumpsAt' :
            \/ /\ k \in JumpsAt /\ em'.ops[k] = em.ops[k]
               /\ k - 1 \in Pending => k - 1 \in Pending'
            \/ Target(k)' \in k .. Emitted(em')
            \/ k - 1 \in Pending' /\ Target(k)' = 0
            \/ /\ k = Emitted(em') /\ loop_done
               /\ Target(k)' = Top.start /\ em'.ops[k].op = "JMP"
  BY JumpsStep
<1>2. \A k : em'.ops[k] = em.ops[k] => Target(k)' = Target(k)
  BY DEF Target
<1>3. loop_done => Top.start \in 0 .. Emitted(em)
  <2>1. Len(todo) \in 1 .. Len(todo)
    BY TopType DEF TypeInv
  <2> QED
    BY <2>1 DEF loop_done, Awaiting, Top, LoopsOrdered, Loops
<1>4. ASSUME NEW k \in JumpsAt'
      PROVE  /\ k \in Nat \ {0} /\ Target(k)' \in 0 .. Emitted(em')
             /\ k \in Resolved' =>
                   \/ k \in Resolved /\ em'.ops[k] = em.ops[k]
                   \/ Target(k)' >= k
                   \/ /\ k = Emitted(em') /\ loop_done
                      /\ Target(k)' = Top.start /\ em'.ops[k].op = "JMP"
  <2>1. k \in Nat \ {0} /\ k \in 1 .. Emitted(em')
    BY <1>1, <1>4 DEF JumpsAt, Emitted
  <2>2. CASE /\ k \in JumpsAt /\ em'.ops[k] = em.ops[k]
             /\ k - 1 \in Pending => k - 1 \in Pending'
    <3>1. Target(k)' \in 0 .. Emitted(em)
      BY <1>2, <2>2 DEF Targets
    <3>2. k \in Resolved' => k \in Resolved
      BY <2>2 DEF Resolved
    <3> QED
      BY <1>1, <2>1, <2>2, <3>1, <3>2
  <2>3. CASE Target(k)' \in k .. Emitted(em')
    BY <1>1, <2>1, <2>3
  <2>4. CASE k - 1 \in Pending' /\ Target(k)' = 0
    BY <1>1, <2>1, <2>4 DEF Resolved
  <2>5. CASE /\ k = Emitted(em') /\ loop_done
             /\ Target(k)' = Top.start /\ em'.ops[k].op = "JMP"
    BY <1>1, <1>3, <2>1, <2>5
  <2> QED
    BY <1>1, <2>2, <2>3, <2>4, <2>5
<1>5. \A k \in Resolved' : k \in JumpsAt'
  BY DEF Resolved
<1>6. ASSUME NEW k \in Resolved', em'.ops[k].op # "JMP"
      PROVE  Target(k)' >= k
  <2>1. k \in JumpsAt'
    BY <1>5
  <2>2. CASE k \in Resolved /\ em'.ops[k] = em.ops[k]
    BY <1>2, <1>6, <2>2 DEF Targets
  <2> QED
    BY <1>4, <1>6, <2>1, <2>2
<1>7. Targets'
  BY <1>4, <1>6 DEF Targets, Emitted
<1>8. ASSUME NEW k \in Back'
      PROVE  \/ k \in Back /\ Target(k)' = Target(k)
             \/ k = Emitted(em') /\ loop_done /\ Target(k)' = Top.start
  <2>1. k \in Resolved' /\ k \in JumpsAt' /\ Target(k)' < k
    BY <1>5 DEF Back
  <2>2. k \in Nat /\ Target(k)' \in Nat
    BY <1>1, <1>4, <2>1
  <2>3. CASE k \in Resolved /\ em'.ops[k] = em.ops[k]
    BY <1>2, <2>1, <2>3 DEF Back
  <2> QED
    BY <1>4, <2>1, <2>2, <2>3
<1> QED
  BY <1>7, <1>8

-----------------------------------------------------------------------------
(* Loops.                                                                  *)

\* The loops of the next state: those that go on, and one that starts here.
LEMMA LoopsStep ==
    ASSUME TypeInv, CallInv, GeneratorStep
    PROVE  /\ \A i \in Loops' :
                 \/ i \in Loops /\ todo'[i] = todo[i] /\ (i = Len(todo) => ~loop_done)
                 \/ todo'[i].start = Emitted(em) /\ \A j \in Loops' : j <= i
           /\ Loops = {} \/ loop_done \/ Loops' # {}
<1>1. TypeOK /\ CallsNamed /\ Len(todo) \in Nat \ {0}
  BY TopType DEF TypeInv, CallInv
<1>2. PICK k \in {Len(todo) - 1, Len(todo)} :
        /\ Len(todo') \in Nat /\ k <= Len(todo')
        /\ \A i \in 1 .. k : todo'[i] = todo[i]
        /\ \A i \in 1 .. Len(todo') : i > k =>
              New(todo'[i]) /\ (todo'[i].fn = "loop" => i = k + 1)
        /\ k < Len(todo) => (Top.fn = "loop" => loop_done)
  BY <1>1, EvolvesVisit, EvolvesResume DEF GeneratorStep, Evolves
<1>3. loop_done => todo' = Below /\ Len(todo') = Len(todo) - 1
  BY <1>1, TopType DEF loop_done, Leave
<1>4. ASSUME NEW i \in Loops'
      PROVE  \/ i \in Loops /\ todo'[i] = todo[i] /\ (i = Len(todo) => ~loop_done)
             \/ todo'[i].start = Emitted(em) /\ \A j \in Loops' : j <= i
  <2>1. i \in 1 .. Len(todo') /\ todo'[i].fn = "loop"
    BY DEF Loops
  <2>2. CASE i <= k
    <3>1. i \in 1 .. k /\ i \in 1 .. Len(todo)
      BY <1>1, <1>2, <2>1, <2>2
    <3>2. todo'[i] = todo[i]
      BY <1>2, <3>1
    <3>3. i = Len(todo) => ~loop_done
      BY <1>1, <1>3, <2>1
    <3> QED
      BY <2>1, <3>1, <3>2, <3>3 DEF Loops
  <2>3. CASE ~(i <= k)
    <3>1. i > k
      BY <1>1, <1>2, <2>1, <2>3
    <3>2. New(todo'[i]) /\ i = k + 1
      BY <1>2, <2>1, <3>1
    <3>3. ASSUME NEW j \in Loops'
          PROVE  j <= i
      <4>1. j \in 1 .. Len(todo') /\ todo'[j].fn = "loop"
        BY DEF Loops
      <4>2. j > k => j = k + 1
        BY <1>2, <4>1
      <4> QED
        BY <1>1, <1>2, <3>2, <4>1, <4>2
    <3> QED
      BY <2>1, <3>2, <3>3 DEF New
  <2> QED
    BY <2>2, <2>3
<1>5. ASSUME NEW i \in Loops, ~loop_done
      PROVE  i \in Loops'
  <2>1. i \in 1 .. Len(todo) /\ todo[i].fn = "loop"
    BY DEF Loops
  <2>2. i <= k
    <3>1. SUFFICES ASSUME ~(i <= k) PROVE FALSE
      OBVIOUS
    <3>2. i = Len(todo) /\ k < Len(todo)
      BY <1>1, <2>1, <3>1
    <3> QED
      BY <1>2, <1>5, <2>1, <3>2 DEF Top
  <2>3. i \in 1 .. k /\ i \in 1 .. Len(todo')
    BY <1>1, <1>2, <2>1, <2>2
  <2> QED
    BY <1>2, <2>1, <2>3 DEF Loops
<1> QED
  BY <1>4, <1>5

\* Loops stay in order, and nested in what is repeated.
LEMMA NestedLoops ==
    ASSUME TypeInv, CallInv, GeneratorStep, Targets, LoopsOrdered, BackNested
    PROVE  LoopsOrdered' /\ BackNested'
<1>1. /\ Emitted(em) \in Nat /\ Emitted(em') \in Nat /\ Emitted(em) <= Emitted(em')
  BY JumpsStep
<1>2. \A i \in Loops' :
                 \/ i \in Loops /\ todo'[i] = todo[i] /\ (i = Len(todo) => ~loop_done)
                 \/ todo'[i].start = Emitted(em) /\ \A j \in Loops' : j <= i
  BY LoopsStep
<1>3. \A k \in Back' :
                 \/ k \in Back /\ Target(k)' = Target(k)
                 \/ k = Emitted(em') /\ loop_done /\ Target(k)' = Top.start
  BY TargetsStep
<1>4. \A i \in Loops : i \in 1 .. Len(todo) /\ todo[i].start \in 0 .. Emitted(em)
  BY DEF LoopsOrdered, Loops
<1>5. /\ \A k \in Back : k \in 1 .. Emitted(em) /\ Target(k) \in 0 .. Emitted(em)
      /\ \A k \in Back' : k \in 1 .. Emitted(em')
  BY DEF Back, Resolved, JumpsAt, Targets, Emitted
<1>6. loop_done => /\ Len(todo) \in Loops /\ Top = todo[Len(todo)]
                   /\ \A i \in Loops' : i \in Loops /\ todo'[i] = todo[i] /\ i <= Len(todo) - 1
  <2>1. SUFFICES ASSUME loop_done
                 PROVE  /\ Len(todo) \in Loops
                        /\ \A i \in Loops' :
                              i \in Loops /\ todo'[i] = todo[i] /\ i <= Len(todo) - 1
    BY DEF Top
  <2>2. /\ Len(todo) \in Nat \ {0} /\ todo' = Below /\ Top.fn = "loop"
        /\ Len(Below) = Len(todo) - 1
        /\ \A i \in 1 .. Len(todo) - 1 : Below[i] = todo[i]
    BY <2>1, TopType DEF TypeInv, loop_done, Leave, Awaiting
  <2> QED
    BY <2>2 DEF Loops, Top
<1>7. LoopsOrdered'
  <2>1. ASSUME NEW i \in Loops'
        PROVE  todo'[i].start \in 0 .. Emitted(em)
    BY <1>1, <1>2, <1>4, <2>1
  <2>2. ASSUME NEW i \in Loops', NEW j \in Loops', i < j
        PROVE  todo'[i].start <= todo'[j].start
    <3>1. i \in Int /\ j \in Int
      BY DEF Loops
    <3>2. CASE j \in Loops /\ todo'[j] = todo[j]
      <4>1. ~(j <= i)
        BY <2>2, <3>1
      <4>2. i \in Loops /\ todo'[i] = todo[i]
        BY <1>2, <4>1
      <4> QED
        BY <2>2, <3>2, <4>2 DEF LoopsOrdered
    <3>3. CASE todo'[j].start = Emitted(em)
      BY <1>1, <2>1, <3>3
    <3> QED
      BY <1>2, <3>2, <3>3
  <2>3. \A i \in Loops' : todo'[i].start \in 0 .. Emitted(em')
    BY <1>1, <2>1
  <2> QED
    BY <2>2, <2>3 DEF LoopsOrdered, Emitted
<1>8. ASSUME NEW j \in Back', NEW k \in Back', j < k
      PROVE  Target(k)' \notin Target(j)' + 1 .. j - 1
  <2>1. j \in Back /\ Target(j)' = Target(j)
    BY <1>1, <1>3, <1>5, <1>8
  <2>2. CASE k \in Back /\ Target(k)' = Target(k)
    BY <1>8, <2>1, <2>2 DEF BackNested
  <2>3. CASE loop_done /\ Target(k)' = Top.start
    BY <1>6, <2>1, <2>3 DEF BackNested
  <2> QED
    BY <1>3, <2>2, <2>3
<1>9. ASSUME NEW j \in Back', NEW i \in Loops'
      PROVE  todo'[i].start \notin Target(j)' + 1 .. j - 1
  <2>1. CASE j \in Back /\ Target(j)' = Target(j)
    <3>1. CASE i \in Loops /\ todo'[i] = todo[i]
      BY <2>1, <3>1 DEF BackNested
    <3>2. CASE todo'[i].start = Emitted(em)
      <4>1. j \in 1 .. Emitted(em) /\ Target(j) \in 0 .. Emitted(em)
        BY <1>5, <2>1
      <4> QED
        BY <1>1, <2>1, <3>2, <4>1
    <3> QED
      BY <1>2, <3>1, <3>2
  <2>2. CASE loop_done /\ Target(j)' = Top.start
    <3>1. /\ i \in Loops /\ todo'[i] = todo[i] /\ i < Len(todo)
          /\ Len(todo) \in Loops /\ Top = todo[Len(todo)]
      <4>1. i \in Loops /\ todo'[i] = todo[i] /\ i <= Len(todo) - 1 /\ Len(todo) \in Loops
            /\ Top = todo[Len(todo)]
        BY <1>6, <2>2
      <4>2. i \in Int /\ Len(todo) \in Int
        BY <1>4, <4>1
      <4> QED
        BY <4>1, <4>2
    <3>2. todo[i].start <= Top.start
      BY <3>1 DEF LoopsOrdered
    <3>3. todo[i].start \in Int /\ Top.start \in Int /\ j \in Int
      BY <1>4, <1>5, <3>1
    <3> QED
      BY <2>2, <3>1, <3>2, <3>3
  <2> QED
    BY <1>3, <2>1, <2>2
<1>10. BackNested'
  BY <1>8, <1>9 DEF BackNested
<1> QED
  BY <1>7, <1>10

\* The parser's flag is set by a loop, and breaks are recorded under the flag.
LEMMA LoopOpenStep ==
    ASSUME TypeInv, CallInv, GeneratorStep, LoopOpen
    PROVE  LoopOpen'
<1>1. TypeOK /\ Len(todo) \in Nat \ {0}
  BY TopType DEF TypeInv
<1>2. Loops = {} \/ loop_done \/ Loops' # {}
  BY LoopsStep
<1>3. CASE loop_done
  <2>1. break_points' = {} /\ continue_points' = {} /\ lex'.in_loop = FALSE
    BY <1>1, <1>3 DEF loop_done, TypeOK
  <2> QED
    BY <2>1 DEF LoopOpen
<1>4. ASSUME NEW c, NEW base \in {todo, Below}, LoopBody(c, base)
      PROVE  Loops' # {}
  <2> DEFINE a == [fn |-> "loop", cond |-> c, start |-> tagging]
             b == Block
  <2>1. todo' = base \o <<a, b>> /\ a.fn = "loop"
    BY <1>4 DEF LoopBody
  <2>2. base \in Seq(Activations)
    BY <1>1, TopType DEF TypeOK
  <2> HIDE DEF a, b
  <2>3. Len(todo') = Len(base) + 2 /\ todo'[Len(base) + 1] = a /\ Len(base) \in Nat
    <3> DEFINE S == Activations \cup {a, b}
    <3>1. base \in Seq(S) /\ a \in S /\ b \in S
      BY <2>2
    <3> HIDE DEF S
    <3> QED
      BY <2>1, <3>1, TwoMore
  <2>4. Len(base) + 1 \in 1 .. Len(todo')
    BY <2>3
  <2> QED
    BY <2>1, <2>3, <2>4 DEF Loops
<1>5. CASE \E n \in Nodes : gen_break(n) \/ gen_continue(n)
  <2>1. lex.in_loop /\ todo' = todo
    BY <1>5 DEF gen_break, gen_continue, Leaf
  <2> QED
    BY <2>1 DEF LoopOpen, Loops
<1>6. CASE \/ \E n \in Nodes : gen_loop(n) /\ ~n.counted
           \/ loop_cond
  <2>1. \E c : LoopBody(c, todo) \/ LoopBody(c, Below)
    BY <1>6 DEF gen_loop, loop_cond
  <2> QED
    BY <1>4, <2>1 DEF LoopOpen
<1>7. CASE /\ ~loop_done /\ ~loop_cond
           /\ \A n \in Nodes : ~gen_break(n) /\ ~gen_continue(n) /\ (gen_loop(n) => n.counted)
  <2>1. UNCHANGED Points /\ (lex'.in_loop => lex.in_loop)
    <3>1. ASSUME NEW n \in Nodes, Visit(n)
          PROVE  UNCHANGED Points /\ (lex'.in_loop => lex.in_loop)
      BY <1>1, <1>7, <3>1
         DEF Visit, gen_num, gen_bool, gen_literal, gen_string, gen_var_ref, gen_unary,
             gen_binary, gen_func_call, gen_vmc, gen_assign, gen_return, gen_null, gen_if,
             gen_loop, gen_function, gen_block_end, gen_program_end, gen_module,
             gen_module_again, Descend, Names, TypeOK
    <3>2. ASSUME Resume
          PROVE  UNCHANGED Points /\ (lex'.in_loop => lex.in_loop)
      BY <1>1, <1>7, <3>2
         DEF Resume, unary_done, binary_left, binary_right, binary_pipe, arg_done,
             child_done, assign_done, define_done, return_done, if_cond, if_then, if_else,
             function_done, module_func, module_func_null, module_done, Names, TypeOK
    <3> QED
      BY <3>1, <3>2 DEF GeneratorStep
  <2> QED
    BY <1>2, <1>7, <2>1 DEF LoopOpen, Points
<1> QED
  BY <1>3, <1>5, <1>6, <1>7

-----------------------------------------------------------------------------
(* The complete program.                                                   *)

\* Only the end of the program ends the generator's work.
LEMMA DoneVisit ==
    ASSUME NEW n, Visit(n), mode' = "done"
    PROVE  gen_program_end(n)
  BY DEF Visit, gen_num, gen_bool, gen_literal, gen_string, gen_var_ref, gen_unary,
         gen_binary, gen_func_call, gen_vmc, func_call, Pass, gen_assign, gen_return, gen_null,
         gen_if, gen_loop, LoopBody, gen_break, gen_continue, gen_function, gen_block_end,
         gen_module, gen_module_again, Descend, Leaf, Leave

LEMMA DoneResume ==
    ASSUME Resume
    PROVE  mode' # "done"
  BY DEF Resume, unary_done, binary_left, binary_right, binary_pipe, func_call, Pass, arg_done,
         child_done, assign_done, define_done, return_done, if_cond, if_then, if_else,
         loop_cond, LoopBody, loop_done, function_done, module_func,
         module_func_null, module_done, Leave, Awaiting

LEMMA DoneStep ==
    ASSUME GeneratorStep, mode' = "done"
    PROVE  \E n \in Nodes : gen_program_end(n)
  BY DoneVisit, DoneResume DEF GeneratorStep

\* The generator stops at the end of the program, and remembers every error.
LEMMA GoesOn ==
    ASSUME GeneratorStep
    PROVE  mode # "done" /\ (node_has_error => node_has_error')
<1>1. ASSUME NEW n \in Nodes, Visit(n)
      PROVE  mode # "done" /\ (NoError \/ \E e : Error(e))
  <2>1. mode # "done"
    BY <1>1
       DEF Visit, gen_num, gen_bool, gen_literal, gen_string, gen_var_ref, gen_unary,
           gen_binary, gen_func_call, gen_vmc, gen_assign, gen_return, gen_null,
           gen_if, gen_loop, gen_break, gen_continue, gen_function, gen_block_end,
           gen_program_end, gen_module, gen_module_again, AtExpr, AtStmt
  <2>2. NoError \/ \E e : Error(e)
    BY <1>1
       DEF Visit, gen_num, gen_bool, gen_literal, gen_string, gen_var_ref, gen_unary,
           gen_binary, gen_func_call, gen_vmc, func_call, Pass, gen_assign, gen_return, gen_null,
           gen_if, gen_loop, LoopBody, gen_break, gen_continue, gen_function, gen_block_end,
           gen_program_end, gen_module, gen_module_again, gen_literal, Descend
  <2> QED
    BY <2>1, <2>2
<1>2. ASSUME Resume
      PROVE  mode # "done" /\ (NoError \/ \E e : Error(e))
  <2>1. mode # "done"
    BY <1>2
       DEF Resume, unary_done, binary_left, binary_right, binary_pipe, arg_done,
           child_done, assign_done, define_done, return_done, if_cond, if_then, if_else,
           loop_cond, loop_done, function_done, module_func,
           module_func_null, module_done, Awaiting
  <2>2. NoError \/ \E e : Error(e)
    BY <1>2
       DEF Resume, unary_done, binary_left, binary_right, binary_pipe, func_call, Pass, arg_done,
           child_done, assign_done, define_done, return_done, if_cond, if_then, if_else,
           loop_cond, LoopBody, loop_done, function_done, module_func,
           module_func_null, module_done, NoError
  <2> QED
    BY <2>1, <2>2
<1>3. ASSUME NEW e, Error(e), node_has_error
      PROVE  node_has_error'
  BY <1>3, Zenon DEF Error
<1>4. ASSUME NoError, node_has_error
      PROVE  node_has_error'
  BY <1>4, Zenon DEF NoError
<1> QED
  BY <1>1, <1>2, <1>3, <1>4 DEF GeneratorStep

\* At the end of the program no activation is left that a jump waits for.
LEMMA NothingPending ==
    ASSUME TypeInv, LoopOpen, NEW n, gen_program_end(n)
    PROVE  Pending = {} /\ Pending' = {}
<1>1. TypeOK /\ Nested /\ Len(todo) \in Nat \ {0} /\ Top.fn = "program"
  BY TopType DEF TypeInv, gen_program_end
<1>2. Len(todo) = 1
  <2>1. Len(todo) \in 1 .. Len(todo) /\ todo[Len(todo)].fn = "program"
    BY <1>1 DEF Top
  <2> QED
    BY <1>1, <2>1 DEF Nested
<1>3. \A i \in 1 .. Len(todo) : todo[i].fn = "program"
  <2>1. \A i \in 1 .. Len(todo) : i = Len(todo)
    BY <1>2
  <2> QED
    BY <1>1, <2>1 DEF Top
<1>4. Loops = {}
  BY <1>3 DEF Loops
<1>5. break_points = {} /\ continue_points = {}
  BY <1>4 DEF LoopOpen
<1>6. Waits(todo) = {}
  <2>1. \A i \in 1 .. Len(todo) : Pends(todo[i]) = {}
    BY <1>3 DEF Pends
  <2> QED
    BY <2>1 DEF Waits, Elements
<1>7. UNCHANGED <<todo, Points>>
  BY DEF gen_program_end
<1> QED
  BY <1>5, <1>6, <1>7 DEF Pending, Points, Waits, Elements

\* So all jumps are resolved then, and HALT is behind them.
LEMMA ResolvedStep ==
    ASSUME TypeInv, CallInv, GeneratorStep, Targets, LoopOpen, Targets', BackNested'
    PROVE  JumpsResolved'
<1> SUFFICES ASSUME mode' = "done"
             PROVE  JumpsResolved'
  BY DEF JumpsResolved
<1>1. PICK n \in Nodes : gen_program_end(n)
  BY DoneStep
<1>2. Pending' = {} /\ break_points' = {} /\ continue_points' = {}
  BY <1>1, NothingPending DEF Pending
<1>3. Resolved' = JumpsAt' /\ Back' = {k \in JumpsAt' : Target(k)' < k}
  BY <1>2 DEF Resolved, Back
<1>4. /\ em.ops \in Seq(Instructions) /\ em \in [ops : Seq(Instructions), ret_type : Ret_Type]
      /\ Emitted(em) \in Nat
  BY DEF TypeInv, TypeOK, Emitted
<1>5. em'.ops = Append(em.ops, Op("HALT", <<0>>))
  BY <1>1, <1>4 DEF gen_program_end
<1>6. /\ Emitted(em') = Emitted(em) + 1
      /\ \A k \in 1 .. Emitted(em) : em'.ops[k] = em.ops[k]
      /\ em'.ops[Emitted(em) + 1].op = "HALT"
  BY <1>4, <1>5 DEF Emitted, Op
<1>7. ASSUME NEW k \in JumpsAt'
      PROVE  Target(k)' \in 0 .. Emitted(em') - 1 /\ (em'.ops[k].op # "JMP" => Target(k)' >= k)
  <2>1. k \in 1 .. Emitted(em') /\ em'.ops[k].op \in Jumps /\ k \in Resolved'
    BY <1>3 DEF JumpsAt, Emitted
  <2>2. k # Emitted(em) + 1
    BY <1>6, <2>1 DEF Jumps
  <2>3. k \in 1 .. Emitted(em) /\ em'.ops[k] = em.ops[k]
    BY <1>4, <1>6, <2>1, <2>2
  <2>4. k \in JumpsAt /\ Target(k)' = Target(k)
    BY <2>1, <2>3 DEF JumpsAt, Target
  <2>5. Target(k) \in 0 .. Emitted(em)
    BY <2>4 DEF Targets
  <2>6. em'.ops[k].op # "JMP" => Target(k)' >= k
    BY <2>1 DEF Targets
  <2> QED
    BY <1>4, <1>6, <2>4, <2>5, <2>6
<1>8. ASSUME NEW j, NEW k, j \in JumpsAt', k \in JumpsAt', Target(j)' < j, Target(k)' < k, j < k
      PROVE  Target(k)' \notin Target(j)' + 1 .. j - 1
  BY <1>3, <1>8 DEF BackNested
<1> QED
  BY <1>2, <1>7, <1>8 DEF JumpsResolved, Emitted

(* Every step preserves the invariant of targets and loops. *)
LEMMA JumpInvStep ==
    ASSUME TypeInv, CallInv, JumpInv, [Next]_gvars
    PROVE  JumpInv'
<1>1. /\ Targets /\ LoopsOrdered /\ BackNested /\ LoopOpen /\ JumpsResolved
  BY DEF JumpInv
<1>2. CASE GeneratorStep
  <2>1. Targets'
    BY <1>1, <1>2, TargetsStep
  <2>2. LoopsOrdered' /\ BackNested'
    BY <1>1, <1>2, NestedLoops
  <2>3. LoopOpen'
    BY <1>1, <1>2, LoopOpenStep
  <2>4. JumpsResolved'
    BY <1>1, <1>2, <2>1, <2>2, ResolvedStep
  <2> QED
    BY <2>1, <2>2, <2>3, <2>4 DEF JumpInv
<1>3. CASE UNCHANGED gvars
  <2>1. /\ Pending' = Pending /\ JumpsAt' = JumpsAt /\ Loops' = Loops
        /\ \A k : Target(k)' = Target(k)
    BY <1>3 DEF gvars, Pending, Waits, Elements, JumpsAt, Loops, Target, Emitted
  <2>2. Resolved' = Resolved /\ Back' = Back
    BY <2>1 DEF Resolved, Back
  <2>3. em' = em /\ todo' = todo /\ mode' = mode /\ UNCHANGED <<lex, Points>>
    BY <1>3 DEF gvars, Points
  <2>4. Targets' /\ LoopsOrdered' /\ BackNested' /\ LoopOpen'
    BY <1>1, <2>1, <2>2, <2>3 DEF Targets, LoopsOrdered, BackNested, LoopOpen, Points, Emitted
  <2>5. JumpsResolved'
    BY <1>1, <2>1, <2>3 DEF JumpsResolved, Points, Emitted
  <2> QED
    BY <2>4, <2>5 DEF JumpInv
<1>4. CASE Finished
  BY <1>3, <1>4 DEF Finished
<1> QED
  BY <1>2, <1>3, <1>4 DEF Next, GeneratorStep

(* Without code there is no jump. *)
LEMMA JumpInvInit ==
    ASSUME Init
    PROVE  JumpInv
<1>1. /\ todo = <<[fn |-> "program"]>> /\ em = [ops |-> <<>>, ret_type |-> "None"]
      /\ break_points = {} /\ continue_points = {} /\ mode = "stmt"
      /\ lex = [in_func |-> FALSE, in_loop |-> FALSE]
  BY DEF Init
<1>2. Loops = {}
  <2>1. \A i \in 1 .. Len(todo) : todo[i].fn = "program"
    BY <1>1
  <2> QED
    BY <2>1 DEF Loops
<1>3. JumpsAt = {}
  BY <1>1 DEF JumpsAt, Emitted
<1>4. Resolved = {} /\ Back = {} /\ lex.in_loop = FALSE
  BY <1>1, <1>3 DEF Resolved, Back
<1> QED
  BY <1>1, <1>2, <1>3, <1>4
     DEF JumpInv, Targets, LoopsOrdered, BackNested, LoopOpen, JumpsResolved

\* In the code of every complete program each jump has its target: breaks and
\* continues do, conditional jumps skip forward, and loops are nested, though
\* the recorded jumps of all loops are patched by whichever loop ends first.
THEOREM JumpsGetTargets == Spec => []JumpsResolved
<1>1. Init => TypeInv /\ CallInv /\ JumpInv
  BY TypeInvInit, CallInvInit, JumpInvInit
<1>2. TypeInv /\ CallInv /\ JumpInv /\ [Next]_gvars => TypeInv' /\ CallInv' /\ JumpInv'
  BY TypeInvStep, CallInvStep, JumpInvStep
<1>3. JumpInv => JumpsResolved
  BY DEF JumpInv
<1> QED
  BY <1>1, <1>2, <1>3, PTL DEF Spec

-----------------------------------------------------------------------------
(* The peephole.                                                           *)

\* The value that an evaluation waits for comes from the last instruction, if
\* ret_type says that it is in a register, and nothing jumps behind it.
Fresh ==
    mode = "ret" /\ Top.fn \in Evaluating /\ ~node_has_error /\ em.ret_type = "Reg" =>
        Writes(Last(em)) # {} /\ Emitted(em) \notin Labels

(* A label is a position of the code or the one behind its end. *)
LEMMA LabelsInside ==
    ASSUME TypeInv, CallInv, JumpInv
    PROVE  Labels \subseteq 0 .. Emitted(em)
<1>1. \A k \in JumpsAt : Target(k) \in 0 .. Emitted(em)
  BY DEF JumpInv, Targets
<1>2. \A i \in 1 .. Len(todo) : todo[i].fn = "loop" => todo[i].start \in 0 .. Emitted(em)
  BY DEF JumpInv, LoopsOrdered, Loops
<1>3. \A f \in Funcs : funcs[f].addr \in 0 .. Emitted(em)
  <2> TAKE f \in Funcs
  <2>1. Emitted(em) \in Nat
    BY DEF TypeInv, TypeOK, Emitted
  <2>2. funcs[f] = NoFunc => funcs[f].addr = 0
    BY DEF NoFunc
  <2>3. funcs[f] # NoFunc => funcs[f].addr \in 1 .. Emitted(em)
    BY DEF CallInv, FunctionsEntered, Stores
  <2> QED
    BY <2>1, <2>2, <2>3
<1> QED
  BY <1>1, <1>2, <1>3 DEF Labels

\* Below a statement no evaluation waits.
LEMMA StatementBelow ==
    ASSUME TypeInv, todo' = Below, Top.fn \notin Operators, Top.fn # "program"
    PROVE  Top'.fn \notin Evaluating
<1>1. TypeOK /\ Nested
  BY DEF TypeInv
<1>2. /\ Len(todo) \in Nat \ {0} /\ Len(todo) > 1 /\ Len(todo') = Len(todo) - 1
      /\ todo'[Len(todo) - 1] = todo[Len(todo) - 1]
  BY <1>1, TopType
<1>3. Top' = todo[Len(todo) - 1]
  BY <1>2 DEF Top
<1>4. todo[Len(todo) - 1].fn \in Evaluating => todo[Len(todo)].fn \in Operators
  BY <1>1, <1>2 DEF Nested
<1> QED
  BY <1>3, <1>4 DEF Top

\* The step to state s' leaves the value of an evaluation in a register.
Evaluates ==
    /\ mode' = "ret" /\ Top'.fn \in Evaluating
    /\ ~node_has_error' /\ em'.ret_type = "Reg"

\* A call leaves none.
LEMMA PassLeavesNone ==
    ASSUME NEW e, NEW frame, NEW below, frame.call \in PendingCalls, Pass(e, frame, below)
    PROVE  ~Evaluates
<1>1. \A d : Emitting(d, frame.call).ret_type = "None"
  BY DEF Emitting, PendingCalls, emit_extern, emit_vmc, emit_fcall, emit
<1> QED
  BY <1>1 DEF Pass, Error, Evaluates

(* Nor does the compilation of a whole call: its value is in register 0, and ret_type
   says that the last instruction did not compute it into a register of its own. *)
LEMMA CallLeavesNone ==
    ASSUME TypeOK, NEW n, n.argc \in Nat, NEW args_idx \in {0, 1}, NEW e, NEW below,
           func_call(e, n, args_idx, below)
    PROVE  ~Evaluates
<1>1. ASSUME NEW call \in Callees(n.name), call.argc = n.argc + args_idx,
             Pass(e, [fn |-> "args", next |-> args_idx, count |-> n.argc,
                      call |-> call, pipe |-> args_idx = 1], below)
      PROVE  ~Evaluates
  <2> DEFINE frame == [fn |-> "args", next |-> args_idx, count |-> n.argc,
                       call |-> call, pipe |-> args_idx = 1]
  <2>1. frame.call \in PendingCalls
    <3>1. call.argc \in Nat
      BY <1>1
    <3> QED
      BY <3>1, CalleeType
  <2>2. Pass(e, frame, below)
    BY <1>1
  <2> HIDE DEF frame
  <2> QED
    BY <2>1, <2>2, PassLeavesNone
<1>2. CASE Error(TRUE)
  BY <1>2 DEF Error, Evaluates
<1> QED
  BY <1>1, <1>2 DEF func_call

\* A new last instruction that computes a register.
Computed ==
    /\ Emitted(em') > Emitted(em)
    /\ Writes(em'.ops[Emitted(em')]) # {}

(* A node whose value is at hand after its visit left it by the last instruction, in
   this very step. *)
LEMMA VisitComputes ==
    ASSUME TypeInv, NEW n \in Nodes, Visit(n), Evaluates
    PROVE  Computed /\ funcs' = funcs /\ ~JumpStep
<1>1. /\ TypeOK /\ Nested /\ em \in Emitters /\ Emitted(em) \in Nat
      /\ Top.fn \in Evaluating => Top.fn \notin {"program", "block"}
  BY DEF TypeInv, TypeOK, Emitters, Emitted, Evaluating, Operators
<1>2. \A d, i : Longer(em, d, i) /\ Writes(i) # {} /\ d = em' => Computed
  BY <1>1 DEF Longer, Computed
<1>4. CASE \/ gen_unary(n) \/ gen_binary(n) \/ gen_return(n) \/ gen_if(n) \/ gen_loop(n)
           \/ gen_null(n) \/ gen_function(n) \/ gen_program_end(n)
  BY <1>4
     DEF Evaluates, gen_unary, gen_binary, gen_return, gen_if, gen_loop, LoopBody, gen_null,
         gen_function, gen_program_end, Descend
<1>5. CASE gen_assign(n)
  BY <1>5 DEF Evaluates, gen_assign, Descend, Error
<1>6. CASE gen_break(n) \/ gen_continue(n) \/ gen_module_again(n)
  <2>1. todo' = todo /\ mode = "stmt"
    BY <1>6 DEF gen_break, gen_continue, gen_module_again, Leaf, AtStmt
  <2> QED
    BY <1>1, <2>1 DEF Evaluates, Nested, Top
<1>7. CASE gen_block_end(n)
  <2>1. todo' = Below /\ Top.fn = "block"
    BY <1>7 DEF gen_block_end, Leave
  <2> QED
    BY <2>1, StatementBelow DEF Evaluates, Operators
<1>8. CASE gen_module(n)
  <2> DEFINE a == [fn |-> "module", mod |-> ModuleName(n), decls |-> n.decls, next |-> 1]
  <2>1. a.fn = "module" /\ todo' = Append(todo, a)
    BY <1>8 DEF gen_module, Push
  <2> HIDE DEF a
  <2>2. Top' = a
    BY <1>1, <2>1 DEF Top, TypeOK
  <2> QED
    BY <2>1, <2>2 DEF Evaluates, Evaluating, Operators
<1>9. CASE gen_func_call(n) \/ gen_vmc(n)
  <2>1. n.argc \in Nat
    BY <1>9, NodeFields DEF gen_func_call, gen_vmc, AtExpr
  <2>2. CASE gen_func_call(n)
    BY <1>1, <2>1, <2>2, CallLeavesNone DEF gen_func_call
  <2>3. CASE gen_vmc(n)
    <3> DEFINE frame == [fn |-> "args", next |-> 0, count |-> n.argc,
                         call |-> [by |-> "vmc", target |-> n.idx, argc |-> n.argc],
                         pipe |-> FALSE]
    <3>1. Pass(em, frame, todo)
      BY <2>3 DEF gen_vmc
    <3>2. frame.call \in PendingCalls
      BY <2>1, <2>3, NodeFields DEF gen_vmc, AtExpr, PendingCalls
    <3> HIDE DEF frame
    <3> QED
      BY <3>1, <3>2, PassLeavesNone
  <2> QED
    BY <1>9, <2>2, <2>3
<1>10. CASE gen_num(n) \/ gen_bool(n) \/ gen_string(n) \/ gen_var_ref(n)
  <2>1. /\ alloc(bitset) \in Int /\ pool.size \in Int
        /\ n.kind = "Num" => n.value \in Int
        /\ n.kind = "Var" => n.name \in Vars
    <3>1. alloc(bitset) \in MaybeRegs /\ MaybeRegs \subseteq Int
      BY <1>1, FreshRegister, RegCountAssumption DEF MaybeRegs, NoReg
    <3>2. pool.size \in Nat
      BY <1>1 DEF TypeOK
    <3>3. (n.kind = "Num" => n.value \in Int) /\ (n.kind = "Var" => n.name \in Vars)
      BY NodeFields
    <3>4. alloc(bitset) \in Int
      BY <3>1
    <3>5. pool.size \in Int
      BY <3>2
    <3> QED
      BY <3>3, <3>4, <3>5, Zenon
  <2>2. /\ \A x : Writes(Op("MOV_RI", <<Narrow(alloc(bitset)), x>>)) # {}
        /\ \A x : Writes(Op("MOV_RC", <<Narrow(alloc(bitset)), x>>)) # {}
        /\ \A x, y : Writes(Op("LOCAL_GET", <<Narrow(alloc(bitset)), x, y>>)) # {}
    BY DEF Writes, Op
  <2>3. \/ \E x \in Int : em' = emit_mov_ri(em, alloc(bitset), x)
        \/ em' = emit_mov_rc(em, alloc(bitset), pool.size)
        \/ \E x, y \in Int : em' = emit_local_get(em, alloc(bitset), x, y)
    <3>1. CASE gen_num(n)
      BY <2>1, <3>1 DEF gen_num, gen_literal, AtExpr
    <3>2. CASE gen_bool(n)
      BY <2>1, <3>2 DEF gen_bool, gen_literal, AtExpr
    <3>3. CASE gen_string(n)
      BY <3>3 DEF gen_string
    <3>4. CASE gen_var_ref(n)
      <4>1. n.name \in Vars
        BY <2>1, <3>4 DEF gen_var_ref, AtExpr
      <4>2. Found(n.name) /\ em' = emit_local_get(em, alloc(bitset), Distance(n.name),
                                                  find_var(n.name).addr)
        BY <3>4 DEF gen_var_ref, Evaluates, Error
      <4>3. Distance(n.name) \in Int /\ find_var(n.name).addr \in Int
        BY <1>1, <4>1, <4>2, Finds DEF TypeOK
      <4> QED
        BY <4>2, <4>3
    <3> QED
      BY <1>10, <3>1, <3>2, <3>3, <3>4
  <2>4. \E i : Longer(em, em', i) /\ Writes(i) # {}
    <3> DEFINE r == alloc(bitset)
    <3>1. r \in Int
      BY <2>1
    <3> HIDE DEF r
    <3>2. ASSUME NEW x \in Int, em' = emit_mov_ri(em, r, x)
          PROVE  \E i : Longer(em, em', i) /\ Writes(i) # {}
      <4>1. Longer(em, em', Op("MOV_RI", <<Narrow(r), x>>))
        BY <1>1, <3>1, <3>2, Emits
      <4> QED
        BY <2>2, <4>1 DEF r
    <3>3. ASSUME em' = emit_mov_rc(em, r, pool.size)
          PROVE  \E i : Longer(em, em', i) /\ Writes(i) # {}
      <4>1. pool.size \in Int
        BY <2>1
      <4>2. Longer(em, em', Op("MOV_RC", <<Narrow(r), pool.size>>))
        BY <1>1, <3>1, <3>3, <4>1, Emits
      <4> QED
        BY <2>2, <4>2 DEF r
    <3>4. ASSUME NEW x \in Int, NEW y \in Int, em' = emit_local_get(em, r, x, y)
          PROVE  \E i : Longer(em, em', i) /\ Writes(i) # {}
      <4>1. Longer(em, em', Op("LOCAL_GET", <<Narrow(r), x, y>>))
        BY <1>1, <3>1, <3>4, Emits
      <4> QED
        BY <2>2, <4>1 DEF r
    <3> QED
      BY <2>3, <3>2, <3>3, <3>4 DEF r
  <2>5. Computed
    BY <1>2, <2>4
  <2>6. funcs' = funcs /\ mode # "ret"
    BY <1>10 DEF gen_num, gen_bool, gen_literal, gen_string, gen_var_ref, Names, AtExpr
  <2>7. \A m \in Nodes : ~gen_break(m) /\ ~gen_continue(m)
    <3>1. em'.ret_type # "None"
      BY DEF Evaluates
    <3> QED
      BY <3>1, RetTypes DEF gen_break, gen_continue
  <2>8. ~JumpStep
    BY <2>6, <2>7 DEF JumpStep, if_cond, if_then, if_else, loop_cond, loop_done, Awaiting
  <2> QED
    BY <2>5, <2>6, <2>8
<1> QED
  BY <1>4, <1>5, <1>6, <1>7, <1>8, <1>9, <1>10 DEF Visit

(* An operator whose value is at hand left it by the last instruction, in this very
   step. *)
LEMMA ResumeComputes ==
    ASSUME TypeInv, Resume, Evaluates
    PROVE  Computed /\ funcs' = funcs /\ ~JumpStep
<1>1. /\ TypeOK /\ Nested /\ em \in Emitters /\ Emitted(em) \in Nat /\ Top \in Activations
      /\ mode = "ret"
  <2>1. mode = "ret"
    BY DEF Resume, unary_done, binary_left, binary_right, binary_pipe, arg_done,
           child_done, assign_done, define_done, return_done, if_cond, if_then, if_else,
           loop_cond, loop_done, function_done, module_func,
           module_func_null, module_done, Awaiting
  <2> QED
    BY <2>1, TopType DEF TypeInv, TypeOK, Emitters, Emitted
<1>2. /\ alloc(bitset) \in Int /\ ret \in Int /\ MaybeRegs \subseteq Int
      /\ \A bits \in Bitsets : alloc(bits) \in Int
  <2>1. MaybeRegs \subseteq Int
    BY RegCountAssumption DEF MaybeRegs, NoReg
  <2>2. \A bits \in Bitsets : alloc(bits) \in MaybeRegs
    BY Allocates
  <2>3. bitset \in Bitsets /\ ret \in MaybeRegs
    BY <1>1, TopType DEF TypeOK
  <2> QED
    BY <2>1, <2>2, <2>3
<1>3. \A o \in Ternary : \A x, y, z : Writes(Op(o, <<x, y, z>>)) # {}
  BY DEF Writes, Op
<1>4. ASSUME NEW e \in Emitters, Emitted(e) >= Emitted(em),
             NEW o \in Ternary, NEW x \in Int, NEW y \in Int, NEW z \in Int,
             em' = emit_binary(e, o, x, y, z)
      PROVE  Computed
  <2>1. Longer(e, em', Op(o, <<Narrow(x), Narrow(y), Narrow(z)>>))
    BY <1>4, Emits
  <2> QED
    BY <1>1, <1>3, <1>4, <2>1 DEF Longer, Computed
<1>5. CASE unary_done
  <2> DEFINE zero == emit_mov_ri(em, alloc(bitset), 0)
  <2>1. zero \in Emitters /\ Emitted(zero) >= Emitted(em)
    <3>1. zero \in Emitters /\ Longer(em, zero, Op("MOV_RI", <<Narrow(alloc(bitset)), 0>>))
      BY <1>1, <1>2, Emits
    <3> QED
      BY <1>1, <3>1 DEF Longer
  <2>2. em' = emit_binary(zero, "SUB", alloc(bitset), alloc(bitset), ret)
    BY <1>5 DEF unary_done
  <2>3. "SUB" \in Ternary
    BY DEF Ternary, Arith
  <2> HIDE DEF zero
  <2>4. Computed
    BY <1>2, <1>4, <2>1, <2>2, <2>3
  <2>5. funcs' = funcs /\ Top.fn = "unary" /\ mode = "ret"
    BY <1>5 DEF unary_done, Names, Awaiting
  <2>6. ~JumpStep
    BY <2>5
       DEF JumpStep, gen_break, gen_continue, AtStmt, if_cond, if_then, if_else, loop_cond,
           loop_done, Awaiting
  <2> QED
    BY <2>4, <2>5, <2>6
<1>6. CASE binary_right
  <2> DEFINE rr == alloc(bitset)
             moved == emit_mov_rr(em, rr, ret)
             result == alloc(Releasing(Taken(bitset), expr_release, ret))
  <2>1. em' = emit_binary(moved, Top.op, result, Top.lr, rr)
    BY <1>6 DEF binary_right
  <2>2. moved \in Emitters /\ Emitted(moved) >= Emitted(em)
    <3>1. rr \in Int /\ ret \in Int
      BY <1>2
    <3>2. /\ moved \in Emitters
          /\ \/ moved = em
             \/ \E i : Changed(em, moved, Emitted(em), i)
             \/ \E i : Longer(em, moved, i)
      BY <1>1, <3>1, EmitsMove
    <3> HIDE DEF moved, rr
    <3>3. (\E i : Changed(em, moved, Emitted(em), i)) => Emitted(moved) = Emitted(em)
      BY DEF Changed
    <3>4. (\E i : Longer(em, moved, i)) => Emitted(moved) = Emitted(em) + 1
      BY DEF Longer
    <3> QED
      BY <1>1, <3>2, <3>3, <3>4
  <2>3. rr \in Int /\ result \in Int
    <3>1. Releasing(Taken(bitset), expr_release, ret) \in Bitsets
      BY <1>1, TopType, Allocates, Releases DEF TypeOK
    <3> QED
      BY <1>2, <3>1
  <2>4. Top.op \in Ternary /\ Top.lr \in Int
    BY <1>1, <1>2, <1>6, Fields DEF binary_right, Awaiting
  <2> HIDE DEF rr, moved, result
  <2>5. Computed
    BY <1>4, <2>1, <2>2, <2>3, <2>4
  <2>6. funcs' = funcs /\ Top.fn = "right" /\ mode = "ret"
    BY <1>6 DEF binary_right, Names, Awaiting
  <2>7. ~JumpStep
    BY <2>6
       DEF JumpStep, gen_break, gen_continue, AtStmt, if_cond, if_then, if_else, loop_cond,
           loop_done, Awaiting
  <2> QED
    BY <2>5, <2>6, <2>7
<1>7. CASE binary_left \/ child_done \/ if_cond \/ loop_cond \/ module_func_null
  BY <1>7 DEF Evaluates, binary_left, child_done, if_cond, loop_cond, LoopBody, module_func_null
<1>8. CASE binary_pipe
  <2>1. Top.node.argc \in Nat
    BY <1>1, <1>8, Fields DEF binary_pipe, Awaiting, OperatorNodes
  <2> QED
    BY <1>1, <1>8, <2>1, CallLeavesNone DEF binary_pipe
<1>9. CASE arg_done
  <2> DEFINE frame == [Top EXCEPT !.next = @ + 1]
  <2>1. Top \in [fn : {"args"}, next : Nat, count : Nat, call : PendingCalls, pipe : BOOLEAN]
    BY <1>1, <1>9, Fields DEF arg_done, Awaiting
  <2>2. frame.call \in PendingCalls
    BY <2>1
  <2>3. \E e : Pass(e, frame, Below)
    BY <1>9 DEF arg_done
  <2> HIDE DEF frame
  <2> QED
    BY <2>2, <2>3, PassLeavesNone
<1>10. CASE \/ assign_done \/ define_done \/ return_done \/ if_then \/ if_else \/ loop_done
            \/ function_done \/ module_done
  <2>1. /\ Top.fn \in {"assign", "define", "return", "if_then", "if_else", "loop", "function",
                       "module"}
        /\ mode' = "ret" => todo' = Below
    BY <1>10
       DEF assign_done, define_done, return_done, if_then, if_else, loop_done,
           function_done, module_done, Leave, Awaiting
  <2> QED
    BY <2>1, StatementBelow DEF Evaluates, Operators
<1>11. CASE module_func
  <2> DEFINE a == [Top EXCEPT !.next = @ + 1]
  <2>1. Top \in [fn : {"module"}, mod : Vars, decls : Seq(Declarations), next : Nat \ {0}]
    BY <1>1, <1>11, Fields DEF module_func, Awaiting
  <2>2. a.fn = "module"
    BY <2>1
  <2>3. todo' = Append(Below, a)
    BY <1>11 DEF module_func
  <2> HIDE DEF a
  <2>4. Top' = a
    BY <1>1, <2>3, TopType DEF Top
  <2> QED
    BY <2>2, <2>4 DEF Evaluates, Evaluating, Operators
<1> QED
  BY <1>5, <1>6, <1>7, <1>8, <1>9, <1>10, <1>11 DEF Resume

\* The code that computes a value is new, and no label is behind it.
LEMMA FreshStep ==
    ASSUME TypeInv, CallInv, JumpInv, GeneratorStep
    PROVE  Fresh'
<1> SUFFICES ASSUME Evaluates
             PROVE  Writes(Last(em))' # {} /\ Emitted(em') \notin Labels'
  BY DEF Fresh, Evaluates, Emitted
<1>1. Computed /\ funcs' = funcs /\ ~JumpStep
  BY VisitComputes, ResumeComputes DEF GeneratorStep
<1>2. Emitted(em) \in Nat /\ Emitted(em') \in Nat
  BY JumpsStep
<1>3. \A k \in JumpsAt' : Target(k)' \in 0 .. Emitted(em)
  <2>1. \A k \in JumpsAt' : k \in JumpsAt /\ em'.ops[k] = em.ops[k]
    BY <1>1, JumpsKept
  <2> QED
    BY <2>1 DEF JumpInv, Targets, Target
<1>4. \A i \in 1 .. Len(todo') : todo'[i].fn = "loop" => todo'[i].start \in 0 .. Emitted(em)
  <2>1. ASSUME NEW i \in 1 .. Len(todo'), todo'[i].fn = "loop"
        PROVE  todo'[i].start \in 0 .. Emitted(em)
    <3>1. i \in Loops'
      BY <2>1 DEF Loops
    <3>2. (i \in Loops /\ todo'[i] = todo[i]) \/ todo'[i].start = Emitted(em)
      BY <3>1, LoopsStep
    <3> QED
      BY <1>2, <3>2 DEF JumpInv, LoopsOrdered
  <2> QED
    BY <2>1
<1>5. \A f \in Funcs : funcs'[f].addr \in 0 .. Emitted(em)
  BY <1>1, LabelsInside DEF Labels
<1>6. Labels' \subseteq 0 .. Emitted(em)
  BY <1>3, <1>4, <1>5 DEF Labels
<1> QED
  BY <1>1, <1>2, <1>6 DEF Computed, Last, Emitted

\* The inductive invariant of the code with its jumps.
CodeInv == TypeInv /\ CallInv /\ JumpInv /\ Fresh

(* The invariants of types, calls and jumps and the freshness of labels hold
   together. *)
LEMMA CodeInvInit ==
    ASSUME Init
    PROVE  CodeInv
BY TypeInvInit, CallInvInit, JumpInvInit DEF CodeInv, Init, Fresh

LEMMA CodeInvStep ==
    ASSUME CodeInv, [Next]_gvars
    PROVE  CodeInv'
<1>1. TypeInv /\ CallInv /\ JumpInv /\ Fresh
  BY DEF CodeInv
<1>2. TypeInv' /\ CallInv' /\ JumpInv'
  BY <1>1, TypeInvStep, CallInvStep, JumpInvStep
<1>3. CASE GeneratorStep
  BY <1>1, <1>2, <1>3, FreshStep DEF CodeInv
<1>4. CASE UNCHANGED gvars
  <2>1. Fresh'
    BY <1>1, <1>4 DEF gvars, Fresh, Top, Last, Emitted, Labels, JumpsAt, Target
  <2> QED
    BY <1>2, <2>1 DEF CodeInv
<1> QED
  BY <1>3, <1>4 DEF Next, GeneratorStep, Finished

LEMMA CodeInvariant == Spec => []CodeInv
<1> QED
  BY CodeInvInit, CodeInvStep, PTL DEF Spec

(* What a step changes of the code it found is a jump that was waiting, or the
   target register of the last instruction, to which nothing jumps. *)
LEMMA PeepholeStep ==
    ASSUME CodeInv, GeneratorStep, ~node_has_error, NEW k \in Rewritten
    PROVE  \/ k \in JumpsAt /\ em'.ops[k].op = em.ops[k].op
           \/ /\ k = Emitted(em) /\ k \notin Labels
              /\ Writes(em.ops[k]) # {}
              /\ em'.ops[k] = [em.ops[k] EXCEPT !.operands[1] =
                                                 em'.ops[k].operands[1]]
<1>1. /\ TypeOK /\ InStep /\ ModulesNamed /\ RegLast(em) /\ PendingJumps /\ CallsNamed /\ Fresh
  BY DEF CodeInv, TypeInv, CallInv
<1>2. k \in 1 .. Emitted(em) /\ em'.ops[k] # em.ops[k] /\ em.ops[k] \in Instructions
  BY <1>1 DEF Rewritten, TypeOK, Emitted
<1>3. CASE JumpStep
  <2>1. PICK F, N, B, D : F \in SUBSET Pending /\ Jumping(em, em', F, N, B, D)
    BY <1>1, <1>3, JumpStepCode
  <2> QED
    BY <1>2, <2>1 DEF Jumping, JumpsAt
<1>4. CASE ~JumpStep
  <2>1. ASSUME NEW n \in Nodes, Visit(n)
        PROVE  FALSE
    <3>1. Straight(em, em', {}, Scratch, Entered)
      BY <1>1, <1>4, <2>1, StraightVisit DEF JumpStep
    <3> QED
      BY <1>2, <3>1 DEF Straight, Redirected
  <2>2. Straight(em, em', Redirecting, Scratch, Entered)
    BY <1>1, <1>4, <2>1, StraightResume DEF GeneratorStep, JumpStep
  <2>3. /\ k = Emitted(em) /\ em.ret_type = "Reg"
        /\ \E r \in Redirecting : em'.ops[k] = [em.ops[k] EXCEPT !.operands[1] = r]
    BY <1>2, <2>2 DEF Straight, Redirected
  <2>4. PICK r \in Redirecting : em'.ops[k] = [em.ops[k] EXCEPT !.operands[1] = r]
    BY <2>3
  <2>5. r \in Int
    BY <1>1, ScratchRegisters
  <2>6. em'.ops[k].operands[1] = r
    <3>1. [em.ops[k] EXCEPT !.operands[1] = r].operands[1] = r
      BY <1>2, <2>5, Retargeted
    <3> QED
      BY <2>4, <3>1, Zenon
  <2>7. mode = "ret" /\ Top.fn \in Evaluating
    BY <2>4 DEF Redirecting
  <2>8. Writes(em.ops[k]) # {} /\ k \notin Labels
    BY <1>1, <2>3, <2>7 DEF Fresh, Last
  <2> QED
    BY <2>3, <2>4, <2>6, <2>8
<1> QED
  BY <1>3, <1>4

\* In every program without an error the peephole of emit_mov_rr only changes
\* where the last instruction leaves its result, and no jump, no loop and no
\* call comes in between that instruction and the move: that ret_type is "Reg"
\* when an operand has been computed always means this operand.
THEOREM PeepholeSound == Spec => PeepholeSafe
<1>1. CodeInv /\ [Next]_gvars =>
         [~node_has_error => \A k \in Rewritten :
             \/ k \in JumpsAt /\ em'.ops[k].op = em.ops[k].op
             \/ /\ k = Emitted(em) /\ k \notin Labels
                /\ Writes(em.ops[k]) # {}
                /\ em'.ops[k] = [em.ops[k] EXCEPT !.operands[1] =
                                                   em'.ops[k].operands[1]]]_gvars
  BY PeepholeStep DEF Next, GeneratorStep, Finished
<1> QED
  BY <1>1, CodeInvariant, PTL DEF Spec, PeepholeSafe

-----------------------------------------------------------------------------
(* What can be read back from the code alone.                              *)

\* No instruction stops the machine.
Unstopped(e) == \A k \in 1 .. Emitted(e) : e.ops[k].op # "HALT"

\* Only the end of a program puts a HALT into the code.
LEMMA UnstoppedStep ==
    ASSUME TypeInv, CallInv, GeneratorStep, mode' # "done", Unstopped(em)
    PROVE  Unstopped(em')
<1>1. /\ TypeOK /\ InStep /\ ModulesNamed /\ CallsNamed /\ RegLast(em) /\ PendingJumps
  BY DEF TypeInv, CallInv
<1>2. Preserved(em, em', Entered)
  BY <1>1, CodeKept
<1>3. \A k \in 1 .. Emitted(em') : k > Emitted(em) => em'.ops[k].op # "HALT"
  <2>1. CASE JumpStep
    <3>1. PICK F, N, B, D : Jumping(em, em', F, N, B, D)
      BY <1>1, <2>1, JumpStepCode
    <3>2. "HALT" \notin Jumps
      BY DEF Jumps
    <3> QED
      BY <3>1, <3>2 DEF Jumping
  <2>2. CASE ~JumpStep
    <3>1. \E R : Straight(em, em', R, Scratch, Entered)
      BY <1>1, <2>2, StraightVisit, StraightResume DEF GeneratorStep, JumpStep
    <3> QED
      BY <3>1 DEF Straight, Harmless
  <2> QED
    BY <2>1, <2>2
<1> QED
  BY <1>2, <1>3 DEF Preserved, Unstopped

\* The operand bytes that no emitter sets are zero.
Zeroed(e) ==
    \A k \in 1 .. Emitted(e) : e.ops[k].op \notin Carrying => e.ops[k].operands = <<0>>

\* The peephole redirects no instruction without operands.
LEMMA ZeroedStep ==
    ASSUME CodeInv, GeneratorStep, ~node_has_error, Zeroed(em)
    PROVE  Zeroed(em')
<1>1. /\ TypeInv /\ CallInv /\ TypeOK /\ InStep /\ ModulesNamed /\ CallsNamed
      /\ RegLast(em) /\ PendingJumps
  BY DEF CodeInv, TypeInv, CallInv
<1>2. Jumps \subseteq Carrying /\ "DEC" \in Carrying
  BY DEF Carrying
<1>3. \A k \in 1 .. Emitted(em') : k > Emitted(em) /\ em'.ops[k].op \notin Carrying
                                    => em'.ops[k].operands = <<0>>
  <2>1. CASE JumpStep
    <3>1. PICK F, N, B, D : Jumping(em, em', F, N, B, D)
      BY <1>1, <2>1, JumpStepCode
    <3> QED
      BY <1>2, <3>1 DEF Jumping
  <2>2. CASE ~JumpStep
    <3>1. \E R : Straight(em, em', R, Scratch, Entered)
      BY <1>1, <2>2, StraightVisit, StraightResume DEF GeneratorStep, JumpStep
    <3> QED
      BY <3>1 DEF Straight, Harmless
  <2> QED
    BY <2>1, <2>2
<1>4. /\ Preserved(em, em', Entered)
      /\ Emitted(em) \in Nat /\ Emitted(em') \in Nat
  BY <1>1, CodeKept, JumpsStep
<1>5. ASSUME NEW k \in 1 .. Emitted(em), em'.ops[k].op \notin Carrying
      PROVE  em'.ops[k].operands = <<0>>
  <2>1. em'.ops[k].op = em.ops[k].op
    BY <1>4 DEF Preserved
  <2>2. k \notin Rewritten
    <3> SUFFICES ASSUME k \in Rewritten
                 PROVE  FALSE
      OBVIOUS
    <3>1. k \in JumpsAt \/ Writes(em.ops[k]) # {}
      BY PeepholeStep
    <3>2. em.ops[k].op \in Carrying
      BY <3>1, <1>2 DEF JumpsAt, Writes, Carrying
    <3> QED
      BY <1>5, <2>1, <3>2
  <2> QED
    BY <1>5, <2>1, <2>2 DEF Rewritten, Zeroed
<1> QED
  BY <1>3, <1>4, <1>5 DEF Zeroed

-----------------------------------------------------------------------------
(* Registers that are still needed.                                        *)

\* No temporary is in a register that arguments are passed in: the highest
\* ones, and 1 once a module has announced functions.  alloc knows nothing of
\* them, so that this holds as long as an expression is not too deep.
Apart == \A i \in 1 .. Len(todo) : Owned(todo[i]) \cap Passing = {}

\* The left operand is given up when the right one is begun.
LEMMA LeftGoesOn ==
    ASSUME TypeInv, GeneratorStep, Awaiting("left"), Len(todo) <= Len(todo')
    PROVE  todo'[Len(todo)] # todo[Len(todo)]
<1>1. /\ TypeOK /\ Len(todo) \in Nat \ {0} /\ Below \in Seq(Activations)
      /\ Len(Below) = Len(todo) - 1 /\ todo[Len(todo)].fn = "left" /\ mode = "ret"
  BY TopType DEF TypeInv, Awaiting, Top
<1>2. \/ todo' = Below
      \/ \E a : a.fn # "left" /\ todo' = Append(Below, a)
  <2>1. ASSUME NEW n \in Nodes, Visit(n)
        PROVE  FALSE
    BY <1>1, <2>1
       DEF Visit, gen_num, gen_bool, gen_literal, gen_string, gen_var_ref, gen_unary,
           gen_binary, gen_func_call, gen_vmc, gen_assign, gen_return, gen_null, gen_if,
           gen_loop, gen_break, gen_continue, gen_function, gen_block_end,
           gen_program_end, gen_module, gen_module_again, AtExpr, AtStmt
  <2>2. binary_left \/ binary_pipe
    BY <1>1, <2>1
       DEF GeneratorStep, Resume, unary_done, binary_right, arg_done,
           child_done, assign_done, define_done, return_done, if_cond, if_then, if_else,
           loop_cond, loop_done, function_done, module_func,
           module_func_null, module_done, Awaiting, Top
  <2>3. CASE binary_left
    <3> DEFINE a == [fn |-> "right", op |-> Top.node.op, lr |-> Top.tmp]
    <3>1. a.fn # "left" /\ todo' = Append(Below, a)
      BY <2>3 DEF binary_left
    <3> HIDE DEF a
    <3> QED
      BY <3>1
  <2>4. CASE binary_pipe
    <3>1. Top.node.argc \in Nat
      BY <1>1, <2>4, TopType, Fields DEF binary_pipe, Awaiting, OperatorNodes
    <3>2. PassesOrReturns(Below)
      BY <1>1, <2>4, <3>1, FuncCallStep DEF binary_pipe
    <3> QED
      BY <3>2 DEF PassesOrReturns
  <2> QED
    BY <2>2, <2>3, <2>4
<1>3. CASE todo' = Below
  BY <1>1, <1>3
<1>4. ASSUME NEW a, a.fn # "left", todo' = Append(Below, a)
      PROVE  todo'[Len(todo)] = a
  BY <1>1, <1>4
<1> QED
  BY <1>1, <1>2, <1>3, <1>4

\* What a step may write is nothing that a suspended activation owns.
LEMMA ScratchFree ==
    ASSUME TypeInv, LiveRegisters, Apart, GeneratorStep, NEW i \in Suspended
    PROVE  Owned(todo[i]) \cap Scratch = {}
<1>1. i \in 1 .. Len(todo) /\ i <= Len(todo') /\ todo'[i] = todo[i]
  BY DEF Suspended
<1>2. /\ Owned(todo[i]) \subseteq bitset /\ Owned(todo[i]) \cap Result = {}
      /\ Owned(todo[i]) \cap Passing = {}
  BY <1>1 DEF LiveRegisters, Apart
<1>3. 0 \notin Owned(todo[i])
  BY DEF Owned
<1>4. Awaiting("left") => Owned(todo[i]) \cap Owned(Top) = {}
  <2>1. SUFFICES ASSUME Awaiting("left")
                 PROVE  Owned(todo[i]) \cap Owned(Top) = {}
    OBVIOUS
  <2>2. i # Len(todo)
    BY <1>1, <2>1, LeftGoesOn
  <2>3. Len(todo) \in 1 .. Len(todo)
    BY <1>1
  <2> QED
    BY <1>1, <2>2, <2>3 DEF LiveRegisters, Top
<1> QED
  BY <1>2, <1>3, <1>4 DEF Scratch

(* Giving a jump its target writes no register. *)
LEMMA JumpsWriteNothing ==
    ASSUME NEW i, i.op \in Jumps
    PROVE  Writes(i) = {}
  BY Operations DEF Writes, Retargetable

(* No instruction that a step emits or changes writes a register of a suspended
   activation. *)
LEMMA HeldStep ==
    ASSUME CodeInv, LiveRegisters, Apart, GeneratorStep,
           NEW k \in Rewritten \cup Appended, NEW i \in Suspended
    PROVE  Writes(em'.ops[k]) \cap Owned(todo[i]) = {}
<1>1. /\ TypeInv /\ TypeOK /\ InStep /\ ModulesNamed
      /\ RegLast(em) /\ PendingJumps /\ CallsNamed
  BY DEF CodeInv, TypeInv, CallInv
<1>2. Emitted(em) \in Nat /\ Emitted(em') \in Nat /\ Emitted(em) <= Emitted(em')
  BY JumpsStep DEF CodeInv
<1>3. \/ k \in 1 .. Emitted(em) /\ em'.ops[k] # em.ops[k]
      \/ k \in 1 .. Emitted(em') /\ k > Emitted(em)
  BY <1>2 DEF Rewritten, Appended, Emitted
<1>4. Owned(todo[i]) \cap Scratch = {}
  BY <1>1, ScratchFree
<1>5. CASE JumpStep
  <2>1. PICK F, N, B, D :
              /\ F \in SUBSET Pending
              /\ Jumping(em, em', F, N, B, D)
              /\ D = {} \/ (loop_done /\ D = {Narrow(Top.cond)})
    BY <1>1, <1>5, JumpStepCode
  <2>2. em'.ops[k].op \in Jumps \/ Writes(em'.ops[k]) \subseteq D
    BY <1>3, <2>1 DEF Jumping
  <2>3. D \cap Owned(todo[i]) = {}
    <3>1. SUFFICES ASSUME loop_done
                   PROVE  Narrow(Top.cond) \notin Owned(todo[i])
      BY <2>1
    <3>2. /\ Len(todo) \in Nat \ {0} /\ todo' = Below /\ Len(Below) = Len(todo) - 1
          /\ Top.fn = "loop" /\ Top.cond \in MaybeRegs
      BY <1>1, <3>1, TopType, Fields DEF loop_done, Leave, Awaiting
    <3>3. i \in 1 .. Len(todo) /\ i # Len(todo) /\ Len(todo) \in 1 .. Len(todo)
      BY <3>2 DEF Suspended
    <3>4. Owned(todo[i]) \subseteq bitset /\ Owned(todo[i]) \cap Owned(Top) = {}
      BY <3>3 DEF LiveRegisters, Top
    <3>5. Owned(Top) = {Top.cond} \ {0, NoReg} /\ 0 \notin Owned(todo[i])
      BY <3>2, Owners DEF Owned
    <3>6. REG_COUNT \notin bitset
      BY <1>1, RegCountAssumption DEF TypeOK
    <3> QED
      BY <3>4, <3>5, <3>6 DEF Narrow, NoReg
  <2> QED
    BY <2>2, <2>3, JumpsWriteNothing
<1>6. CASE ~JumpStep
  <2>1. \E R \in SUBSET Scratch : Straight(em, em', R, Scratch, Entered)
    <3>1. {} \in SUBSET Scratch /\ Redirecting \in SUBSET Scratch
      BY DEF Redirecting
    <3> QED
      BY <1>1, <1>6, <3>1, StraightVisit, StraightResume DEF GeneratorStep, JumpStep
  <2>2. PICK R \in SUBSET Scratch : Straight(em, em', R, Scratch, Entered)
    BY <2>1
  <2>3. Writes(em'.ops[k]) \subseteq Scratch
    <3>1. CASE k \in 1 .. Emitted(em') /\ k > Emitted(em)
      BY <2>2, <3>1 DEF Straight, Harmless
    <3>2. CASE k \in 1 .. Emitted(em) /\ em'.ops[k] # em.ops[k]
      <4>1. PICK r \in R : em'.ops[k] = [em.ops[k] EXCEPT !.operands[1] = r]
        BY <2>2, <3>2 DEF Straight, Redirected
      <4>2. r \in Int /\ r \in Scratch /\ em.ops[k] \in Instructions
        BY <1>1, <3>2, ScratchRegisters DEF TypeOK, Emitted
      <4>3. Writes([em.ops[k] EXCEPT !.operands[1] = r]) \subseteq {r}
        BY <4>2, Retargeted
      <4> QED
        BY <4>1, <4>2, <4>3
    <3> QED
      BY <1>3, <3>1, <3>2
  <2> QED
    BY <1>4, <2>3
<1> QED
  BY <1>5, <1>6

\* As long as no temporary is in a register that arguments are passed in, no
\* instruction, new or redirected, writes what a suspended operator, condition
\* or loop still needs: the early releases of expr_release, the leaks and the
\* peephole, which writes into a register that was chosen for another value,
\* never meet.
THEOREM HeldValues == Spec /\ []Apart => HeldNotOverwritten
<1>1. CodeInv /\ LiveRegisters /\ Apart /\ [Next]_gvars =>
         [\A k \in Rewritten \cup Appended, i \in Suspended :
             Writes(em'.ops[k]) \cap Owned(todo[i]) = {}]_gvars
  BY HeldStep DEF Next, GeneratorStep, Finished
<1> QED
  BY <1>1, CodeInvariant, RegistersApart, PTL DEF Spec, HeldNotOverwritten
=============================================================================
