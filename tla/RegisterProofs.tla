--------------------------- MODULE RegisterProofs ---------------------------
(***************************************************************************)
(* Where the values of a program live: the code generator never hands out  *)
(* a temporary twice, and the variables it can see never share a slot but  *)
(* by an assignment that takes one frame for another.                      *)
(***************************************************************************)
EXTENDS GeneratorProofs

\* The registers that a step may free or hand on: the value just computed and,
\* if the innermost activation ends or continues as another, what it owned.
Loose(base) == Result \cup (IF base = Below THEN Owned(Top) ELSE {})

\* What a step does to the registers: the base of the stack is kept, at most
\* the first activation on it owns registers, those in H; these and the new
\* result were loose or free, and are marked now; no other bit is cleared.
HandsOver(base, H) ==
    /\ \/ todo' = base
       \/ \E a : todo' = Append(base, a) /\ Owned(a) \subseteq H
       \/ \E a, b : todo' = base \o <<a, b>> /\ Owned(a) \subseteq H /\ Owned(b) = {}
    /\ H \cup Result' \subseteq bitset'
    /\ \A r \in H \cup Result' : r \in bitset => r \in Loose(base)
    /\ H \cap Result' = {}
    /\ \A r \in bitset : r \notin bitset' => r \in Loose(base)

\* The kept part of the stack owns registers that are marked and not loose.
LEMMA KeptRegisters ==
    ASSUME TypeOK, LiveRegisters, NEW base \in {todo, Below}
    PROVE  /\ base \in Seq(Activations) /\ Len(base) \in Nat
           /\ \A i \in 1 .. Len(base) :
                 Owned(base[i]) \subseteq bitset /\ Owned(base[i]) \cap Loose(base) = {}
           /\ \A i, j \in 1 .. Len(base) :
                 i # j => Owned(base[i]) \cap Owned(base[j]) = {}
<1>1. /\ Len(todo) \in Nat \ {0} /\ Len(todo) \in 1 .. Len(todo)
      /\ Below \in Seq(Activations) /\ Len(Below) = Len(todo) - 1
      /\ \A i \in 1 .. Len(todo) - 1 : Below[i] = todo[i]
      /\ todo \in Seq(Activations) /\ Below # todo
  BY TopType DEF TypeOK
<1>2. /\ \A i \in 1 .. Len(todo) :
            Owned(todo[i]) \subseteq bitset /\ Owned(todo[i]) \cap Result = {}
      /\ \A i, j \in 1 .. Len(todo) :
            i # j => Owned(todo[i]) \cap Owned(todo[j]) = {}
  BY DEF LiveRegisters
<1>3. CASE base = todo
  BY <1>1, <1>2, <1>3 DEF Loose
<1>4. CASE base = Below
  <2>1. \A i \in 1 .. Len(base) : i \in 1 .. Len(todo) /\ base[i] = todo[i] /\ i # Len(todo)
    BY <1>1, <1>4
  <2>2. \A i \in 1 .. Len(base) : Owned(todo[i]) \cap Owned(Top) = {}
    BY <1>1, <1>2, <2>1 DEF Top
  <2>3. \A i \in 1 .. Len(base) :
           Owned(base[i]) \subseteq bitset /\ Owned(base[i]) \cap Loose(base) = {}
    BY <1>2, <1>4, <2>1, <2>2 DEF Loose
  <2>4. \A i, j \in 1 .. Len(base) :
           i # j => Owned(base[i]) \cap Owned(base[j]) = {}
    BY <1>2, <2>1
  <2>5. base \in Seq(Activations) /\ Len(base) \in Nat
    BY <1>1, <1>4
  <2> QED
    BY <2>3, <2>4, <2>5
<1> QED
  BY <1>3, <1>4

\* The registers stay apart.
LEMMA Handover ==
    ASSUME TypeOK, LiveRegisters, NEW base \in {todo, Below}, NEW H, HandsOver(base, H)
    PROVE  LiveRegisters'
<1> DEFINE n == Len(base)
<1>1. /\ base \in Seq(Activations) /\ n \in Nat
      /\ \A i \in 1 .. n :
            Owned(base[i]) \subseteq bitset /\ Owned(base[i]) \cap Loose(base) = {}
      /\ \A i, j \in 1 .. n : i # j => Owned(base[i]) \cap Owned(base[j]) = {}
  BY KeptRegisters
<1>2. /\ Len(todo') \in Nat /\ n <= Len(todo')
      /\ \A i \in 1 .. n : todo'[i] = base[i]
      /\ \A i \in 1 .. Len(todo') : i > n =>
            Owned(todo'[i]) \subseteq H /\ (i # n + 1 => Owned(todo'[i]) = {})
  <2>1. CASE todo' = base
    BY <1>1, <2>1
  <2>2. ASSUME NEW a, todo' = Append(base, a), Owned(a) \subseteq H
        PROVE  <1>2
    <3>1. /\ Len(todo') = n + 1 /\ todo'[n + 1] = a
          /\ \A i \in 1 .. n : todo'[i] = base[i]
      BY <1>1, <2>2
    <3> QED
      BY <1>1, <2>2, <3>1
  <2>3. ASSUME NEW a, NEW b, todo' = base \o <<a, b>>, Owned(a) \subseteq H, Owned(b) = {}
        PROVE  <1>2
    <3> DEFINE S == Activations \cup {a, b}
    <3>1. base \in Seq(S) /\ a \in S /\ b \in S
      BY <1>1
    <3> HIDE DEF S
    <3>2. /\ Len(todo') = n + 2 /\ todo'[n + 1] = a /\ todo'[n + 2] = b
          /\ \A i \in 1 .. n : todo'[i] = base[i]
      BY <2>3, <3>1, TwoMore
    <3>3. \A i \in 1 .. Len(todo') : i > n => i = n + 1 \/ i = n + 2
      BY <1>1, <3>2
    <3> QED
      BY <1>1, <2>3, <3>2, <3>3
  <2> QED
    BY <2>1, <2>2, <2>3 DEF HandsOver
<1>3. /\ H \cup Result' \subseteq bitset'
      /\ \A r \in H \cup Result' : r \in bitset => r \in Loose(base)
      /\ H \cap Result' = {}
      /\ \A r \in bitset : r \notin bitset' => r \in Loose(base)
  BY DEF HandsOver
<1> DEFINE m == Len(todo')
<1>4. \A i \in 1 .. n : Owned(base[i]) \cap (H \cup Result') = {}
  BY <1>1, <1>3
<1>5. \A i \in 1 .. n : Owned(base[i]) \subseteq bitset'
  BY <1>1, <1>3
<1>6. \A i \in 1 .. m : i \in 1 .. n \/ i > n
  BY <1>1, <1>2
<1>7. ASSUME NEW i \in 1 .. m
      PROVE  Owned(todo'[i]) \cup Result' \subseteq bitset' /\ Owned(todo'[i]) \cap Result' = {}
  BY <1>2, <1>3, <1>4, <1>5, <1>6
<1>8. ASSUME NEW i \in 1 .. m, NEW j \in 1 .. m, i < j
      PROVE  Owned(todo'[i]) \cap Owned(todo'[j]) = {}
  <2>1. CASE j <= n
    <3>1. i \in 1 .. n /\ j \in 1 .. n /\ i # j
      BY <1>1, <1>8, <2>1
    <3> QED
      BY <1>1, <1>2, <3>1
  <2>2. CASE j > n
    <3>1. CASE i <= n
      <4>1. i \in 1 .. n /\ todo'[i] = base[i]
        BY <1>2, <3>1
      <4>2. Owned(todo'[j]) \subseteq H
        BY <1>2, <2>2
      <4> QED
        BY <1>4, <4>1, <4>2
    <3>2. CASE i > n
      <4>1. j \in 1 .. Len(todo') /\ j > n /\ j # n + 1
        BY <1>1, <1>2, <1>8, <3>2
      <4>2. Owned(todo'[j]) = {}
        BY <1>2, <4>1
      <4> QED
        BY <4>2
    <3> QED
      BY <1>1, <3>1, <3>2
  <2> QED
    BY <1>1, <2>1, <2>2
<1>9. \A i, j \in 1 .. m : i # j => Owned(todo'[i]) \cap Owned(todo'[j]) = {}
  <2> TAKE i, j \in 1 .. m
  <2>1. i < j \/ j < i \/ i = j
    BY <1>2
  <2> QED
    BY <1>8, <2>1
<1> QED
  BY <1>7, <1>9 DEF LiveRegisters

\* The register handed out by alloc is free until then, and is not 0.
LEMMA FreshRegister ==
    ASSUME TypeOK
    PROVE  /\ alloc(bitset) \in MaybeRegs /\ bitset \subseteq Taken(bitset)
           /\ {alloc(bitset)} \ {0, NoReg} \subseteq Taken(bitset)
           /\ alloc(bitset) \notin bitset
  BY TopType, Allocates DEF Bitsets, MaybeRegs

\* Which activations own a register.
LEMMA Owners ==
    ASSUME NEW a
    PROVE  /\ a.fn \notin {"left", "right", "if_then", "if_else", "loop"} => Owned(a) = {}
           /\ a.fn = "left" => Owned(a) = {a.tmp} \ {0, NoReg}
           /\ a.fn = "right" => Owned(a) = {a.lr} \ {0, NoReg}
           /\ a.fn \in {"if_then", "if_else", "loop"} => Owned(a) = {a.cond} \ {0, NoReg}
  BY DEF Owned

(* Passing an argument hands no register back and its activation owns none. *)
LEMMA PassRegisters ==
    ASSUME NEW e, NEW frame, NEW below, Pass(e, frame, below), frame.fn = "args"
    PROVE  /\ Result' = {}
           /\ todo' = below \/ \E a : todo' = Append(below, a) /\ Owned(a) = {}
  BY Owners DEF Pass, Result

\* The innermost activation's registers are marked, and not the result's.
LEMMA TopRegisters ==
    ASSUME TypeOK, LiveRegisters
    PROVE  Owned(Top) \subseteq bitset /\ Owned(Top) \cap Result = {}
<1>1. Len(todo) \in 1 .. Len(todo)
  BY TopType
<1> QED
  BY <1>1 DEF LiveRegisters, Top

\* Every step that visits a node.
LEMMA VisitRegisters ==
    ASSUME TypeOK, LiveRegisters, NEW n \in Nodes, Visit(n)
    PROVE  LiveRegisters'
<1> DEFINE r == alloc(bitset)
<1>1. /\ r \in MaybeRegs /\ bitset \subseteq Taken(bitset)
      /\ {r} \ {0, NoReg} \subseteq Taken(bitset) /\ r \notin bitset
      /\ bitset' \subseteq bitset' \cup bitset
  BY FreshRegister
<1>2. ASSUME NEW H, HandsOver(todo, H)
      PROVE  LiveRegisters'
  BY <1>2, Handover
<1>3. ASSUME NEW H, HandsOver(Below, H)
      PROVE  LiveRegisters'
  BY <1>3, Handover
<1>4. Block.fn = "block" /\ [Block EXCEPT !.scoped = FALSE].fn = "block"
  BY DEF Block
<1> HIDE DEF r
<1>5. CASE gen_num(n) \/ gen_bool(n) \/ gen_string(n) \/ gen_var_ref(n)
  <2>1. /\ todo' = todo /\ mode' = "ret"
        /\ \/ bitset' = Taken(bitset) /\ ret' = r
           \/ bitset' = bitset /\ ret' = NoReg
    BY <1>5 DEF gen_num, gen_bool, gen_literal, gen_string, gen_var_ref, Leaf, r
  <2>2. HandsOver(todo, {})
    BY <1>1, <2>1 DEF HandsOver, Result
  <2> QED
    BY <1>2, <2>2
<1>6. CASE \/ gen_break(n) \/ gen_continue(n) \/ gen_module_again(n)
           \/ gen_null(n) \/ gen_program_end(n)
  <2>1. todo' = todo /\ bitset' = bitset /\ (mode' = "ret" => ret' = NoReg)
    BY <1>6 DEF gen_break, gen_continue, gen_module_again, gen_null, gen_program_end,
                Leaf, Regs
  <2>2. HandsOver(todo, {})
    BY <2>1 DEF HandsOver, Result
  <2> QED
    BY <1>2, <2>2
<1>7. CASE gen_block_end(n)
  <2>1. todo' = Below /\ bitset' = bitset /\ ret' = 0
    BY <1>7 DEF gen_block_end, Leave, Regs
  <2>2. HandsOver(Below, {})
    BY <2>1 DEF HandsOver, Result
  <2> QED
    BY <1>3, <2>2
<1>8. CASE gen_binary(n)
  <2> DEFINE a == [fn |-> "left", node |-> n, tmp |-> r]
             H == {r} \ {0, NoReg}
  <2>1. todo' = Append(todo, a) /\ bitset' = Taken(bitset) /\ mode' = "expr"
    BY <1>8 DEF gen_binary, Descend, Push, r
  <2>2. Owned(a) = H
    BY Owners
  <2> HIDE DEF a
  <2>3. HandsOver(todo, H)
    BY <1>1, <2>1, <2>2 DEF HandsOver, Result
  <2> QED
    BY <1>2, <2>3
<1>9. CASE gen_unary(n) \/ gen_assign(n) \/ gen_return(n) \/ gen_if(n)
  <2>1. /\ bitset' = bitset /\ (mode' = "ret" => ret' = NoReg)
        /\ \/ todo' = todo
           \/ \E a : todo' = Append(todo, a) /\ Owned(a) = {}
    BY <1>9, Owners
       DEF gen_unary, gen_assign, gen_return, gen_if, Descend, Push
  <2>2. HandsOver(todo, {})
    BY <2>1 DEF HandsOver, Result
  <2> QED
    BY <1>2, <2>2
<1>10. CASE gen_func_call(n) \/ gen_vmc(n)
  <2>1. bitset' = bitset
    BY <1>10 DEF gen_func_call, gen_vmc
  <2>2. /\ Result' = {}
        /\ todo' = todo \/ \E a : todo' = Append(todo, a) /\ Owned(a) = {}
    <3>1. CASE gen_func_call(n)
      <4>1. n.argc \in Nat /\ func_call(em, n, 0, todo)
        BY <3>1, NodeFields DEF gen_func_call, AtExpr
      <4>2. CASE \E frame : Pass(em, frame, todo) /\ frame.fn = "args"
        BY <4>2, PassRegisters
      <4>3. CASE mode' = "ret" /\ ret' \in {0, NoReg} /\ todo' = todo
        BY <4>3 DEF Result
      <4> QED
        BY <4>1, <4>2, <4>3, FuncCallPasses
    <3>2. CASE gen_vmc(n)
      BY <3>2, PassRegisters DEF gen_vmc
    <3> QED
      BY <1>10, <3>1, <3>2
  <2>3. HandsOver(todo, {})
    BY <2>1, <2>2 DEF HandsOver
  <2> QED
    BY <1>2, <2>3
<1>11. CASE gen_loop(n)
  <2>1. /\ bitset' = bitset /\ mode' \in {"expr", "stmt"}
        /\ \/ todo' = Append(todo, [fn |-> "loop_cond"])
           \/ todo' = todo \o <<[fn |-> "loop", cond |-> NoReg, start |-> tagging], Block>>
    BY <1>11 DEF gen_loop, Descend, Push, LoopBody
  <2>2. /\ Owned([fn |-> "loop_cond"]) = {} /\ Owned(Block) = {}
        /\ Owned([fn |-> "loop", cond |-> NoReg, start |-> tagging]) = {}
    BY <1>4, Owners
  <2>3. HandsOver(todo, {})
    BY <2>1, <2>2 DEF HandsOver, Result
  <2> QED
    BY <1>2, <2>3
<1>12. CASE gen_function(n)
  <2> DEFINE b == [Block EXCEPT !.scoped = FALSE]
  <2>1. /\ bitset' = bitset /\ mode' = "stmt"
        /\ todo' = todo \o <<[fn |-> "function"], b>>
    BY <1>12 DEF gen_function, Regs
  <2>2. Owned([fn |-> "function"]) = {} /\ Owned(b) = {}
    BY <1>4, Owners
  <2> HIDE DEF b
  <2>3. HandsOver(todo, {})
    BY <2>1, <2>2 DEF HandsOver, Result
  <2> QED
    BY <1>2, <2>3
<1>13. CASE gen_module(n)
  <2>1. /\ bitset' \in {bitset, Taken(bitset)} /\ mode' = "ret" /\ ret' = NoReg
        /\ \E a : todo' = Append(todo, a) /\ Owned(a) = {}
    BY <1>13, Owners DEF gen_module, Named, Push
  <2>2. HandsOver(todo, {})
    BY <1>1, <2>1 DEF HandsOver, Result
  <2> QED
    BY <1>2, <2>2
<1> QED
  BY <1>5, <1>6, <1>7, <1>8, <1>9, <1>10, <1>11, <1>12, <1>13 DEF Visit

\* Every step that resumes an activation.
LEMMA ResumeRegisters ==
    ASSUME TypeOK, LiveRegisters, Resume
    PROVE  LiveRegisters'
<1>1. /\ Top \in Activations /\ bitset \in Bitsets /\ ret \in MaybeRegs
      /\ alloc(bitset) \notin bitset /\ Taken(bitset) \in Bitsets
      /\ Taken(bitset) = bitset \cup ({alloc(bitset)} \ {NoReg})
  BY TopType, Allocates DEF TypeOK
<1>2. ASSUME NEW base \in {todo, Below}, NEW H, HandsOver(base, H)
      PROVE  LiveRegisters'
  BY <1>2, Handover
<1>3. mode = "ret" /\ Result = {ret} \ {0, NoReg} /\ Result \subseteq bitset
  <2>1. mode = "ret"
    BY DEF Resume, unary_done, binary_left, binary_right, binary_pipe, arg_done,
           child_done, assign_done, define_done, return_done, if_cond, if_then,
           if_else, loop_cond, loop_done, function_done, module_func,
           module_func_null, module_done, Awaiting
  <2>2. Len(todo) \in 1 .. Len(todo)
    BY TopType
  <2> QED
    BY <2>1, <2>2 DEF Result, LiveRegisters
<1>4. \A bits \in Bitsets : \A flag :
         Releasing(bits, flag, ret) \subseteq bits
         /\ \A r \in bits : r \notin Releasing(bits, flag, ret) => r \in Result
  BY <1>1, <1>3, Releases
<1>5. Freed(bitset, ret) = bitset \ Result
  BY <1>1, <1>3, Frees
<1>6. CASE unary_done
  <2>1. /\ todo' = Below /\ bitset' = Releasing(Taken(bitset), expr_release, ret)
        /\ ret' = alloc(bitset)
    BY <1>6 DEF unary_done, Leave
  <2>2. HandsOver(Below, {})
    <3>1. Result' \subseteq {alloc(bitset)} \ {0, NoReg}
      BY <2>1 DEF Result
    <3>2. \A r \in Taken(bitset) : r \notin bitset' => r \in Result
      BY <1>1, <1>4, <2>1
    <3>3. Result \subseteq bitset /\ Result \subseteq Loose(Below)
      BY <1>3 DEF Loose
    <3>4. Result' \subseteq bitset'
      BY <1>1, <3>1, <3>2, <3>3
    <3> QED
      BY <1>1, <2>1, <3>1, <3>2, <3>3, <3>4 DEF HandsOver
  <2> QED
    BY <1>2, <2>2
<1>7. CASE binary_left
  <2> DEFINE a == [fn |-> "right", op |-> Top.node.op, lr |-> Top.tmp]
  <2>1. /\ todo' = Append(Below, a) /\ bitset' = Releasing(bitset, expr_release, ret)
        /\ mode' = "expr" /\ Top.fn = "left"
    BY <1>7 DEF binary_left, Awaiting
  <2>2. Owned(a) = Owned(Top)
    BY <2>1, Owners
  <2> HIDE DEF a
  <2>3. HandsOver(Below, Owned(Top))
    <3>1. Owned(Top) \subseteq bitset /\ Owned(Top) \cap Result = {}
      BY TopRegisters
    <3>2. \A r \in bitset : r \notin bitset' => r \in Result
      BY <1>1, <1>4, <2>1
    <3>3. Owned(Top) \subseteq bitset'
      BY <3>1, <3>2
    <3>4. Result' = {}
      BY <2>1 DEF Result
    <3> QED
      BY <2>1, <2>2, <3>2, <3>3, <3>4 DEF HandsOver, Loose
  <2> QED
    BY <1>2, <2>3
<1>8. CASE binary_right
  <2>1. PICK rr, held, result :
           /\ rr = alloc(bitset) /\ held = Releasing(Taken(bitset), expr_release, ret)
           /\ result = alloc(held) /\ ret' = result /\ mode' = "ret" /\ todo' = Below
           /\ bitset' = Freed(Freed(Taken(held), Top.lr), rr)
    BY <1>8 DEF binary_right, Leave
  <2>2. /\ Top.lr \in MaybeRegs /\ Owned(Top) = {Top.lr} \ {0, NoReg}
        /\ Owned(Top) \subseteq bitset /\ Owned(Top) \cap Result = {}
    BY <1>1, <1>8, Fields, Owners, TopRegisters DEF binary_right, Awaiting
  <2>3. held \in Bitsets
    BY <1>1, <2>1, Releases
  <2>4. /\ result \notin held /\ Taken(held) = held \cup ({result} \ {NoReg})
        /\ Taken(held) \in Bitsets /\ rr \in MaybeRegs
    BY <1>1, <2>1, <2>3, Allocates
  <2>5. /\ held \subseteq Taken(bitset)
        /\ \A r \in Taken(bitset) : r \notin held => r \in Result
    BY <1>1, <1>4, <2>1
  <2>6. bitset' = (Taken(held) \ Owned(Top)) \ ({rr} \ {0, NoReg})
    BY <2>1, <2>2, <2>4, Frees
  <2>7. rr \notin bitset /\ (rr \in held \/ rr = NoReg)
    BY <1>1, <1>3, <2>1, <2>5
  <2>8. Owned(Top) \subseteq held
    BY <1>1, <2>2, <2>5
  <2>9. Result' = {result} \ {0, NoReg}
    BY <2>1 DEF Result
  <2>10. Result' \subseteq bitset'
    BY <2>4, <2>6, <2>7, <2>8, <2>9
  <2>11. \A r \in bitset : r \notin held => r \in Result
    BY <1>1, <2>5
  <2>12. \A r \in Result' : r \in bitset => r \in Result
    BY <2>4, <2>9, <2>11
  <2>13. \A r \in bitset : r \notin bitset' => r \in Result \cup Owned(Top)
    BY <2>4, <2>6, <2>7, <2>11
  <2>14. HandsOver(Below, {})
    BY <2>1, <2>10, <2>12, <2>13 DEF HandsOver, Loose
  <2> QED
    BY <1>2, <2>14
<1>9. CASE binary_pipe \/ arg_done
  <2>1. bitset' = Releasing(bitset, expr_release, ret)
    BY <1>9 DEF binary_pipe, arg_done
  <2>2. /\ Result' = {}
        /\ todo' = Below \/ \E a : todo' = Append(Below, a) /\ Owned(a) = {}
    <3>1. CASE binary_pipe
      <4>1. PICK e : func_call(e, Top.node, 1, Below)
        BY <3>1 DEF binary_pipe
      <4>2. Top.node.argc \in Nat
        BY <1>1, <3>1, Fields DEF binary_pipe, Awaiting, OperatorNodes
      <4>3. CASE \E frame : Pass(e, frame, Below) /\ frame.fn = "args"
        BY <4>3, PassRegisters
      <4>4. CASE mode' = "ret" /\ ret' \in {0, NoReg} /\ todo' = Below
        BY <4>4 DEF Result
      <4> QED
        BY <4>1, <4>2, <4>3, <4>4, FuncCallPasses
    <3>2. CASE arg_done
      <4>1. [Top EXCEPT !.next = @ + 1].fn = "args"
        BY <1>1, <3>2, Fields DEF arg_done, Awaiting
      <4> QED
        BY <3>2, <4>1, PassRegisters DEF arg_done
    <3> QED
      BY <1>9, <3>1, <3>2
  <2>3. bitset' \subseteq bitset /\ \A r \in bitset : r \notin bitset' => r \in Result
    BY <1>1, <1>4, <2>1
  <2>4. HandsOver(Below, {})
    BY <2>2, <2>3 DEF HandsOver, Loose
  <2> QED
    BY <1>2, <2>4
<1>10. CASE child_done \/ module_func_null
  <2>1. todo' = todo /\ bitset' = bitset /\ mode' \in {"stmt", "crash"}
    BY <1>10 DEF child_done, module_func_null, Regs
  <2>2. HandsOver(todo, {})
    BY <2>1 DEF HandsOver, Result
  <2> QED
    BY <1>2, <2>2
<1>11. CASE assign_done \/ define_done \/ return_done
  <2>1. todo' = Below /\ ret' \in {0, NoReg}
    BY <1>11 DEF assign_done, define_done, return_done, Leave
  <2>2. bitset' \subseteq bitset /\ \A r \in bitset : r \notin bitset' => r \in Result
    BY <1>1, <1>4, <1>5, <1>11 DEF assign_done, define_done, return_done
  <2>3. Result' = {}
    BY <2>1 DEF Result
  <2>4. HandsOver(Below, {})
    BY <2>1, <2>2, <2>3 DEF HandsOver, Loose
  <2> QED
    BY <1>2, <2>4
<1>12. CASE if_cond \/ loop_cond
  <2>1. PICK a : /\ todo' = Below \o <<a, Block>> /\ Owned(a) = Result
                 /\ bitset' = bitset /\ mode' = "stmt"
    <3>1. CASE if_cond
      <4> DEFINE a == [fn |-> "if_then", cond |-> ret, els |-> tagging + 1,
                       has_else |-> Top.has_else]
      <4>1. todo' = Below \o <<a, Block>> /\ bitset' = bitset /\ mode' = "stmt"
        BY <3>1 DEF if_cond, Regs
      <4>2. Owned(a) = Result
        BY <1>3, Owners
      <4> HIDE DEF a
      <4> QED
        BY <4>1, <4>2
    <3>2. CASE loop_cond
      <4> DEFINE a == [fn |-> "loop", cond |-> ret, start |-> tagging]
      <4>1. todo' = Below \o <<a, Block>> /\ bitset' = bitset /\ mode' = "stmt"
        BY <3>2 DEF loop_cond, LoopBody, Regs
      <4>2. Owned(a) = Result
        BY <1>3, Owners
      <4> HIDE DEF a
      <4> QED
        BY <4>1, <4>2
    <3> QED
      BY <1>12, <3>1, <3>2
  <2>2. Owned(Block) = {}
    BY Owners DEF Block
  <2>3. Result' = {}
    BY <2>1 DEF Result
  <2>4. HandsOver(Below, Result)
    BY <1>3, <2>1, <2>2, <2>3 DEF HandsOver, Loose
  <2> QED
    BY <1>2, <2>4
<1>13. CASE if_then /\ Top.has_else
  <2>1. PICK a : /\ todo' = Below \o <<a, Block>> /\ Owned(a) = Owned(Top)
                 /\ bitset' = bitset /\ mode' = "stmt"
    <3> DEFINE a == [fn |-> "if_else", cond |-> Top.cond, then_end |-> tagging]
    <3>1. todo' = Below \o <<a, Block>> /\ bitset' = bitset /\ mode' = "stmt"
      BY <1>13 DEF if_then
    <3>2. Owned(a) = Owned(Top)
      BY <1>13, Owners DEF if_then, Awaiting
    <3> HIDE DEF a
    <3> QED
      BY <3>1, <3>2
  <2>2. Owned(Block) = {}
    BY Owners DEF Block
  <2>3. Result' = {}
    BY <2>1 DEF Result
  <2>4. HandsOver(Below, Owned(Top))
    BY <2>1, <2>2, <2>3, TopRegisters DEF HandsOver, Loose
  <2> QED
    BY <1>2, <2>4
<1>14. CASE (if_then /\ ~Top.has_else) \/ if_else \/ loop_done
  <2>1. /\ todo' = Below /\ ret' = NoReg /\ bitset' = Freed(bitset, Top.cond)
        /\ Top.fn \in {"if_then", "if_else", "loop"}
    BY <1>14 DEF if_then, if_else, loop_done, Leave, Awaiting
  <2>2. Top.cond \in MaybeRegs /\ Owned(Top) = {Top.cond} \ {0, NoReg}
    BY <1>1, <2>1, Fields, Owners
  <2>3. bitset' = bitset \ Owned(Top)
    BY <1>1, <2>1, <2>2, Frees
  <2>4. Result' = {}
    BY <2>1 DEF Result
  <2>5. HandsOver(Below, {})
    BY <2>1, <2>3, <2>4 DEF HandsOver, Loose
  <2> QED
    BY <1>2, <2>5
<1>15. CASE function_done \/ module_done
  <2>1. todo' = Below /\ ret' = NoReg /\ bitset' = bitset
    BY <1>15 DEF function_done, module_done, Leave, Regs
  <2>2. HandsOver(Below, {})
    BY <2>1 DEF HandsOver, Result
  <2> QED
    BY <1>2, <2>2
<1>16. CASE module_func
  <2> DEFINE a == [Top EXCEPT !.next = @ + 1]
  <2>1. /\ todo' = Append(Below, a) /\ mode' = "ret" /\ ret' = ret /\ bitset' = bitset
        /\ Top.fn = "module"
    BY <1>16 DEF module_func, Regs, Awaiting
  <2>2. a.fn = "module"
    BY <1>1, <2>1, Fields
  <2>3. Owned(a) = {}
    BY <2>2, Owners
  <2> HIDE DEF a
  <2>4. Result' = Result
    BY <1>3, <2>1 DEF Result
  <2>5. HandsOver(Below, {})
    BY <1>3, <2>1, <2>3, <2>4 DEF HandsOver, Loose
  <2> QED
    BY <1>2, <2>5
<1> QED
  BY <1>6, <1>7, <1>8, <1>9, <1>10, <1>11, <1>12, <1>13, <1>14, <1>15, <1>16 DEF Resume

(* Nothing is live before the first node. *)
LEMMA LiveInit ==
    ASSUME Init
    PROVE  LiveRegisters
<1>1. todo = <<[fn |-> "program"]>> /\ mode = "stmt"
  BY DEF Init
<1>2. \A i \in 1 .. Len(todo) : i = 1 /\ todo[i].fn = "program"
  BY <1>1
<1>3. \A i \in 1 .. Len(todo) : Owned(todo[i]) = {}
  BY <1>2, Owners
<1>4. Result = {}
  BY <1>1 DEF Result
<1> QED
  BY <1>2, <1>3, <1>4 DEF LiveRegisters

\* A temporary is never handed out twice, in any program: the register of an
\* operand, a condition or a loop counter stays marked, and its owner's alone,
\* until gen_binary, gen_if or gen_loop is done with it.
THEOREM RegistersApart == Spec => []LiveRegisters
<1>1. Init => LiveRegisters
  BY LiveInit
<1>2. TypeOK /\ LiveRegisters /\ [Next]_gvars => LiveRegisters'
  <2> SUFFICES ASSUME TypeOK, LiveRegisters, [Next]_gvars
               PROVE  LiveRegisters'
    OBVIOUS
  <2>1. CASE UNCHANGED gvars
    BY <2>1 DEF gvars, LiveRegisters, Result
  <2>2. CASE Next
    BY <2>1, <2>2, VisitRegisters, ResumeRegisters DEF Next, Finished
  <2> QED
    BY <2>1, <2>2
<1> QED
  BY <1>1, <1>2, TypeCorrect, PTL DEF Spec

-----------------------------------------------------------------------------
(* The slots of variables. *)

\* gen_block gives the frame back the names that it had.
Scoped(a) == a.fn = "block" /\ a.scoped

\* The variables of the first are in the same slots of the second.
Includes(some, all) ==
    \A x \in Vars : some[x].addr # NoSlot => all[x].addr = some[x].addr

\* What a block will give back is what its frame had when it began: no name
\* that was there has gone since, or has moved to another slot.
NamesKept ==
    /\ \A i \in 1 .. Len(todo) :
          Scoped(todo[i]) => Includes(todo[i].save, cur[Depth(todo, i)].locals)
    /\ \A i, j \in 1 .. Len(todo) :
          i < j /\ Scoped(todo[i]) /\ Scoped(todo[j]) /\ Depth(todo, i) = Depth(todo, j)
             => Includes(todo[i].save, todo[j].save)

\* What gen_assign found still holds when the value has been computed: a new
\* name is new, and the distance is that of the variable.
Meant(a) ==
    /\ a.fn = "assign" => Found(a.name) /\ a.fst = Distance(a.name)
    /\ a.fn = "define" => ~Found(a.name)

NamesMeant == \A i \in 1 .. Len(todo) : Meant(todo[i])

\* The inductive invariant of the slots.
SlotInv == TypeInv /\ NamesKept /\ NamesMeant

(* Functions that begin further up are compiled at a greater depth. *)
LEMMA DepthGrows ==
    ASSUME NEW s, NEW j \in Nat, NEW i \in 0 .. j
    PROVE  Depth(s, i) \in Nat \ {0} /\ Depth(s, j) \in Nat /\ Depth(s, i) <= Depth(s, j)
<1>1. IsFiniteSet(FunctionsIn(s, j))
  <2>1. IsFiniteSet(1 .. j) /\ FunctionsIn(s, j) \in SUBSET (1 .. j)
    <3>1. IsFiniteSet(1 .. j)
      BY FS_Interval
    <3>2. FunctionsIn(s, j) \in SUBSET (1 .. j)
      BY DEF FunctionsIn
    <3> QED
      BY <3>1, <3>2
  <2> QED
    BY <2>1, FS_Subset
<1>2. FunctionsIn(s, i) \subseteq FunctionsIn(s, j)
  <2>1. \A k \in 1 .. i : k \in 1 .. j
    OBVIOUS
  <2> QED
    BY <2>1 DEF FunctionsIn
<1>3. Cardinality(FunctionsIn(s, i)) <= Cardinality(FunctionsIn(s, j))
  BY <1>1, <1>2, FS_Subset
<1>4. Depth(s, i) \in Nat \ {0} /\ Depth(s, j) \in Nat \ {0}
  BY DepthNext
<1> QED
  BY <1>1, <1>2, <1>3, <1>4, FS_Subset, FS_CardinalityType DEF Depth

(* Every activation is compiled in a frame that exists. *)
LEMMA FramesExist ==
    ASSUME TypeOK, InStep, NEW i \in 1 .. Len(todo)
    PROVE  /\ Depth(todo, i) \in 1 .. Len(cur)
           /\ Depth(todo, Len(todo)) = Len(cur)
<1>1. Len(todo) \in Nat /\ i \in 0 .. Len(todo) /\ Len(cur) \in Nat
  BY DEF TypeOK
<1> QED
  BY <1>1, DepthGrows DEF InStep

(* Nothing waits for an expression below a construct that is not one. *)
LEMMA NoneWaits ==
    ASSUME TypeOK, Nested, Top.fn \notin Operators, NEW i \in 1 .. Len(todo) - 1
    PROVE  todo[i].fn \notin Evaluating
<1>1. Len(todo) \in Nat /\ i \in 1 .. Len(todo) /\ Len(todo) \in 1 .. Len(todo) /\ i < Len(todo)
  BY DEF TypeOK
<1> QED
  BY <1>1 DEF Nested, Top

\* A new activation names what it means, in frames that stay as they are.
Knows(a) == a.fn \in {"assign", "define"} => cur' = cur /\ Meant(a)

\* How a step changes the C++ stack: the first k activations stay, all or all
\* but the last; the last of the new ones may be a block, in frames that stay
\* as they are.
Stacked(k) ==
    /\ k \in {Len(todo) - 1, Len(todo)} /\ Len(todo') \in Nat /\ k <= Len(todo')
    /\ \A i \in 1 .. k : todo'[i] = todo[i]
    /\ \A i \in 1 .. Len(todo') : i > k =>
          /\ Knows(todo'[i])
          /\ Scoped(todo'[i]) => /\ i = Len(todo') /\ cur' = cur
                                 /\ todo'[i].save = cur[Len(cur)].locals

\* The saved names stay, if the frames keep what is saved of them.
LEMMA NamesStay ==
    ASSUME TypeOK, InStep, InStep', NamesKept, NEW k, Stacked(k),
           \A i \in 1 .. k :
              Scoped(todo[i]) => Includes(todo[i].save, cur'[Depth(todo, i)].locals)
    PROVE  NamesKept'
<1> DEFINE m == Len(todo')
<1>1. /\ Len(todo) \in Nat \ {0} /\ k \in Nat /\ m \in Nat /\ k <= m
      /\ \A i \in 1 .. k : i \in 1 .. Len(todo) /\ todo'[i] = todo[i]
  BY DEF TypeOK, Stacked
<1>2. \A i \in 1 .. k : Depth(todo', i) = Depth(todo, i)
  <2> TAKE i \in 1 .. k
  <2>1. i \in 0 .. k /\ \A j \in 1 .. k : todo'[j] = todo[j]
    BY <1>1
  <2> QED
    BY <1>1, <2>1, DepthKept
<1>3. \A i \in 1 .. m : i \in 1 .. k \/ i > k
  BY <1>1
<1>4. ASSUME NEW i \in 1 .. m, i > k, Scoped(todo'[i])
      PROVE  /\ i = m /\ Depth(todo', i) = Len(cur) /\ cur' = cur
             /\ todo'[i].save = cur[Len(cur)].locals
  BY <1>4 DEF Stacked, InStep
<1>5. ASSUME NEW i \in 1 .. m, Scoped(todo'[i])
      PROVE  Includes(todo'[i].save, cur'[Depth(todo', i)].locals)
  <2>1. CASE i \in 1 .. k
    BY <1>1, <1>2, <1>5, <2>1
  <2>2. CASE i > k
    BY <1>4, <1>5, <2>2 DEF Includes
  <2> QED
    BY <1>3, <2>1, <2>2
<1>6. ASSUME NEW i \in 1 .. m, NEW j \in 1 .. m, i < j, Scoped(todo'[i]), Scoped(todo'[j]),
             Depth(todo', i) = Depth(todo', j)
      PROVE  Includes(todo'[i].save, todo'[j].save)
  <2>1. CASE j \in 1 .. k
    <3>1. i \in 1 .. k
      BY <1>1, <1>6, <2>1
    <3>2. i \in 1 .. Len(todo) /\ j \in 1 .. Len(todo)
      BY <1>1, <2>1, <3>1
    <3> QED
      BY <1>1, <1>2, <1>6, <2>1, <3>1, <3>2 DEF NamesKept
  <2>2. CASE j > k
    <3>1. i \in 1 .. k
      BY <1>3, <1>4, <1>6, <2>2
    <3>2. /\ Depth(todo, i) = Len(cur) /\ todo'[j].save = cur[Len(cur)].locals
          /\ todo'[i] = todo[i] /\ i \in 1 .. Len(todo)
      BY <1>1, <1>2, <1>4, <1>6, <2>2, <3>1
    <3> QED
      BY <1>6, <3>2 DEF NamesKept
  <2> QED
    BY <1>3, <2>1, <2>2
<1> QED
  BY <1>5, <1>6 DEF NamesKept

\* A stack on which one or two activations are put.
OnTop(base) ==
    \/ todo' = base
    \/ \E a : todo' = Append(base, a) /\ ~Scoped(a) /\ Knows(a)
    \/ \E a, b : /\ todo' = base \o <<a, b>> /\ ~Scoped(a) /\ Knows(a) /\ Knows(b)
                 /\ Scoped(b) => cur' = cur /\ b.save = cur[Len(cur)].locals

(* Such a step keeps the base and saves the names of the frame. *)
LEMMA OnTopStacked ==
    ASSUME TypeOK, NEW base \in {todo, Below}, OnTop(base)
    PROVE  Stacked(Len(base))
<1> DEFINE n == Len(base)
<1>1. /\ base \in Seq(Activations) /\ n \in Nat /\ n \in {Len(todo) - 1, Len(todo)}
      /\ \A i \in 1 .. n : base[i] = todo[i]
  <2>1. todo \in Seq(Activations) /\ Len(todo) \in Nat \ {0}
    BY TopType DEF TypeOK
  <2>2. CASE base = todo
    BY <2>1, <2>2
  <2>3. CASE base = Below
    BY <2>1, <2>3, TopType
  <2> QED
    BY <2>2, <2>3
<1>2. CASE todo' = base
  BY <1>1, <1>2 DEF Stacked
<1>3. ASSUME NEW a, todo' = Append(base, a), ~Scoped(a), Knows(a)
      PROVE  Stacked(n)
  <2>1. /\ Len(todo') = n + 1 /\ todo'[n + 1] = a
        /\ \A i \in 1 .. n : todo'[i] = base[i]
    BY <1>1, <1>3
  <2>2. \A i \in 1 .. Len(todo') : i > n => i = n + 1
    BY <1>1, <2>1
  <2> QED
    BY <1>1, <1>3, <2>1, <2>2 DEF Stacked
<1>4. ASSUME NEW a, NEW b, todo' = base \o <<a, b>>, ~Scoped(a), Knows(a), Knows(b),
             Scoped(b) => cur' = cur /\ b.save = cur[Len(cur)].locals
      PROVE  Stacked(n)
  <2> DEFINE S == Activations \cup {a, b}
  <2>1. base \in Seq(S) /\ a \in S /\ b \in S
    BY <1>1
  <2> HIDE DEF S
  <2>2. /\ Len(todo') = n + 2 /\ todo'[n + 1] = a /\ todo'[n + 2] = b
        /\ \A i \in 1 .. n : todo'[i] = base[i]
    BY <1>4, <2>1, TwoMore
  <2>3. \A i \in 1 .. Len(todo') : i > n => i = n + 1 \/ i = n + 2
    BY <1>1, <2>2
  <2>4. /\ Knows(todo'[n + 1]) /\ Knows(todo'[n + 2])
        /\ ~Scoped(todo'[n + 1]) /\ (Scoped(todo'[n + 2]) =>
            cur' = cur /\ todo'[n + 2].save = cur[Len(cur)].locals)
    BY <1>4, <2>2
  <2>5. \A i \in 1 .. Len(todo') : i > n =>
           /\ Knows(todo'[i])
           /\ Scoped(todo'[i]) => /\ i = Len(todo') /\ cur' = cur
                                  /\ todo'[i].save = cur[Len(cur)].locals
    BY <1>1, <2>2, <2>3, <2>4
  <2> QED
    BY <1>1, <2>2, <2>5 DEF Stacked
<1> QED
  BY <1>2, <1>3, <1>4 DEF OnTop

(* What activations mean stays true while the frames stay, or where none of them
   names a variable. *)
LEMMA MeaningStays ==
    ASSUME TypeOK, NamesMeant, NEW k, Stacked(k),
           cur' = cur \/ \A i \in 1 .. k : todo[i].fn \notin {"assign", "define"}
    PROVE  NamesMeant'
<1> DEFINE m == Len(todo')
<1>1. /\ Len(todo) \in Nat \ {0} /\ k \in Nat /\ m \in Nat /\ k <= m
      /\ \A i \in 1 .. k : i \in 1 .. Len(todo) /\ todo'[i] = todo[i]
  BY DEF TypeOK, Stacked
<1>2. \A i \in 1 .. m : i \in 1 .. k \/ i > k
  BY <1>1
<1>3. ASSUME NEW a, a.fn \notin {"assign", "define"} \/ (cur' = cur /\ Meant(a)), NEW i, a = todo'[i]
      PROVE  Meant(todo[i])'
  BY <1>3 DEF Meant, Found, Defining, Distance, FrameOf
<1>4. ASSUME NEW i \in 1 .. m
      PROVE  Meant(todo[i])'
  <2>1. CASE i \in 1 .. k
    <3>1. Meant(todo[i]) /\ todo'[i] = todo[i]
      BY <1>1, <2>1 DEF NamesMeant
    <3> QED
      BY <1>3, <2>1, <3>1
  <2>2. CASE i > k
    <3>1. Knows(todo'[i])
      BY <2>2 DEF Stacked
    <3> QED
      BY <1>3, <3>1 DEF Knows
  <2> QED
    BY <1>2, <2>1, <2>2
<1> QED
  BY <1>4 DEF NamesMeant

(* Activations that name nothing, with the block of a construct or without. *)
LEMMA PutOnTop ==
    ASSUME NEW base, NEW a, a.fn \notin {"block", "assign", "define"}
    PROVE  /\ todo' = Append(base, a) => OnTop(base)
           /\ todo' = base \o <<a, Block>> /\ cur' = cur => OnTop(base)
           /\ todo' = base \o <<a, [Block EXCEPT !.scoped = FALSE]>> => OnTop(base)
<1>1. ~Scoped(a) /\ Knows(a)
  BY DEF Scoped, Knows
<1>2. Knows(Block) /\ Block.save = cur[Len(cur)].locals
  BY DEF Block, Knows
<1>3. PICK b : b = [Block EXCEPT !.scoped = FALSE]
  OBVIOUS
<1>4. Knows(b) /\ ~Scoped(b)
  BY <1>3 DEF Block, Knows, Scoped
<1> QED
  BY <1>1, <1>2, <1>3, <1>4 DEF OnTop

(* Passing an argument names nothing. *)
LEMMA PassOnTop ==
    ASSUME NEW e, NEW frame, NEW below, Pass(e, frame, below), frame.fn = "args"
    PROVE  OnTop(below)
<1>1. ~Scoped(frame) /\ Knows(frame)
  BY DEF Scoped, Knows
<1> QED
  BY <1>1 DEF Pass, OnTop

(* A visit goes on in the innermost construct or is the end of a block. *)
LEMMA VisitOnTop ==
    ASSUME TypeOK, NEW n \in Nodes, Visit(n)
    PROVE  OnTop(todo) \/ OnTop(Below)
<1>1. CASE \/ gen_num(n) \/ gen_bool(n) \/ gen_string(n) \/ gen_var_ref(n) \/ gen_break(n)
           \/ gen_continue(n) \/ gen_module_again(n) \/ gen_null(n) \/ gen_program_end(n)
           \/ gen_block_end(n)
  BY <1>1 DEF gen_num, gen_bool, gen_literal, gen_string, gen_var_ref, gen_break,
              gen_continue, gen_module_again, gen_null, gen_program_end, gen_block_end,
              Leaf, Leave, OnTop
<1>2. CASE gen_unary(n) \/ gen_binary(n) \/ gen_return(n) \/ gen_if(n) \/ gen_module(n)
  <2>1. \E a : todo' = Append(todo, a) /\ a.fn \notin {"block", "assign", "define"}
    BY <1>2 DEF gen_unary, gen_binary, gen_return, gen_if, gen_module, Descend, Push
  <2> QED
    BY <2>1, PutOnTop
<1>3. CASE gen_assign(n)
  <2>1. cur' = cur
    BY <1>3 DEF gen_assign, Descend, Names
  <2>2. CASE todo' = todo
    BY <2>2 DEF OnTop
  <2>3. ASSUME NEW a, todo' = Append(todo, a), a.fn \in {"assign", "define"}, Meant(a)
        PROVE  OnTop(todo)
    BY <2>1, <2>3 DEF OnTop, Scoped, Knows
  <2>4. \A d : Found(n.name) /\ d = Distance(n.name) =>
           Meant([fn |-> "assign", name |-> n.name, fst |-> d])
    BY DEF Meant
  <2>5. ~Found(n.name) => Meant([fn |-> "define", name |-> n.name, mut |-> n.mut])
    BY DEF Meant
  <2>6. \/ todo' = todo
        \/ Found(n.name) /\ todo' = Append(todo, [fn |-> "assign", name |-> n.name,
                                                  fst |-> Distance(n.name)])
        \/ ~Found(n.name) /\ todo' = Append(todo, [fn |-> "define", name |-> n.name,
                                                   mut |-> n.mut])
    BY <1>3 DEF gen_assign, Descend, Push
  <2> QED
    BY <2>2, <2>3, <2>4, <2>5, <2>6
<1>4. CASE gen_func_call(n)
  <2>1. n.argc \in Nat /\ func_call(em, n, 0, todo)
    BY <1>4, NodeFields DEF gen_func_call, AtExpr
  <2>2. \/ todo' = todo
        \/ \E frame : Pass(em, frame, todo) /\ frame.fn = "args"
    BY <2>1, FuncCallPasses
  <2> QED
    BY <2>2, PassOnTop DEF OnTop
<1>5. CASE gen_vmc(n)
  BY <1>5, PassOnTop DEF gen_vmc
<1>6. CASE gen_loop(n)
  <2>1. CASE todo' = Append(todo, [fn |-> "loop_cond"])
    BY <2>1, PutOnTop
  <2>2. CASE /\ cur' = cur
             /\ todo' = todo \o <<[fn |-> "loop", cond |-> NoReg, start |-> tagging], Block>>
    BY <2>2, PutOnTop
  <2> QED
    BY <1>6, <2>1, <2>2 DEF gen_loop, Descend, Push, LoopBody
<1>7. CASE gen_function(n)
  <2>1. \E a : /\ a.fn = "function"
                /\ todo' = todo \o <<a, [Block EXCEPT !.scoped = FALSE]>>
    BY <1>7 DEF gen_function
  <2> QED
    BY <2>1, PutOnTop
<1> QED
  BY <1>1, <1>2, <1>3, <1>4, <1>5, <1>6, <1>7 DEF Visit

(* A resumed activation goes on, ends, or enters its next part. *)
LEMMA ResumeOnTop ==
    ASSUME TypeOK, Resume
    PROVE  OnTop(todo) \/ OnTop(Below)
<1>1. Top \in Activations
  BY TopType
<1>2. CASE \/ unary_done \/ binary_right \/ child_done \/ assign_done \/ define_done
           \/ return_done \/ if_else \/ loop_done \/ function_done \/ module_done
           \/ module_func_null
  BY <1>2 DEF unary_done, binary_right, child_done, assign_done, define_done,
              return_done, if_else, loop_done, function_done, module_done,
              module_func_null, Leave, OnTop
<1>3. CASE binary_left
  <2>1. \E a : a.fn = "right" /\ todo' = Append(Below, a)
    BY <1>3 DEF binary_left
  <2> QED
    BY <2>1, PutOnTop
<1>4. CASE binary_pipe
  <2>1. PICK e : func_call(e, Top.node, 1, Below)
    BY <1>4 DEF binary_pipe
  <2>2. Top.node.argc \in Nat
    BY <1>1, <1>4, Fields DEF binary_pipe, Awaiting, OperatorNodes
  <2>3. \/ todo' = Below
        \/ \E frame : Pass(e, frame, Below) /\ frame.fn = "args"
    BY <2>1, <2>2, FuncCallPasses
  <2> QED
    BY <2>3, PassOnTop DEF OnTop
<1>5. CASE arg_done
  <2>1. [Top EXCEPT !.next = @ + 1].fn = "args"
    BY <1>1, <1>5, Fields DEF arg_done, Awaiting
  <2> QED
    BY <1>5, <2>1, PassOnTop DEF arg_done
<1>6. CASE if_cond \/ loop_cond \/ if_then
  <2>1. cur' = cur
    BY <1>6 DEF if_cond, loop_cond, if_then, Names
  <2>2. CASE if_cond
    <3>1. todo' = Below \o <<[fn |-> "if_then", cond |-> ret, els |-> tagging + 1,
                              has_else |-> Top.has_else], Block>>
      BY <2>2 DEF if_cond
    <3> QED
      BY <2>1, <3>1, PutOnTop
  <2>3. CASE loop_cond
    <3>1. todo' = Below \o <<[fn |-> "loop", cond |-> ret, start |-> tagging], Block>>
      BY <2>3 DEF loop_cond, LoopBody
    <3> QED
      BY <2>1, <3>1, PutOnTop
  <2>4. CASE if_then /\ Top.has_else
    <3>1. todo' = Below \o <<[fn |-> "if_else", cond |-> Top.cond,
                              then_end |-> tagging], Block>>
      BY <2>4 DEF if_then
    <3> QED
      BY <2>1, <3>1, PutOnTop
  <2>5. CASE if_then /\ ~Top.has_else
    BY <2>5 DEF if_then, Leave, OnTop
  <2> QED
    BY <1>6, <2>2, <2>3, <2>4, <2>5
<1>8. CASE module_func
  <2>1. todo' = Append(Below, [Top EXCEPT !.next = @ + 1])
    BY <1>8 DEF module_func
  <2>2. [Top EXCEPT !.next = @ + 1].fn = "module"
    BY <1>1, <1>8, Fields DEF module_func, Awaiting
  <2> QED
    BY <2>1, <2>2, PutOnTop
<1> QED
  BY <1>2, <1>3, <1>4, <1>5, <1>6, <1>8 DEF Resume

-----------------------------------------------------------------------------
(* The frames. *)

\* The variables of a frame live in slots of their own that were handed out.
OwnSlots(frame) ==
    \A x, y \in Vars :
        LET a == frame.locals[x].addr
            b == frame.locals[y].addr
        IN  a # NoSlot => a <= frame.local_count /\ (a = b => x = y)

(* What a step can do to the frames. *)
LEMMA FramesChange ==
    ASSUME GeneratorStep
    PROVE  \/ cur' = cur
           \/ assign_done \/ define_done \/ function_done
           \/ \E n \in Nodes : gen_function(n) \/ gen_block_end(n) \/ gen_module(n)
<1>1. ASSUME NEW n \in Nodes, Visit(n), ~gen_function(n), ~gen_block_end(n), ~gen_module(n)
      PROVE  cur' = cur
  BY <1>1
     DEF Visit, gen_num, gen_bool, gen_literal, gen_string, gen_var_ref, gen_unary,
         gen_binary, gen_func_call, gen_vmc, gen_assign, gen_return, gen_null,
         gen_if, gen_loop, gen_break, gen_continue, gen_program_end,
         gen_module_again, Descend, Names
<1>2. ASSUME Resume, ~assign_done, ~define_done, ~function_done
      PROVE  cur' = cur
  BY <1>2
     DEF Resume, unary_done, binary_left, binary_right, binary_pipe, arg_done,
         child_done, return_done, if_cond, if_then, if_else, loop_cond, loop_done,
         module_func, module_func_null, module_done, Names
<1> QED
  BY <1>1, <1>2 DEF GeneratorStep

(* A new variable takes a slot of its own. *)
LEMMA NewVarApart ==
    ASSUME NEW frame \in CompilingFrames, NEW x \in Vars, NEW m \in BOOLEAN,
           frame.locals[x].addr = NoSlot
    PROVE  /\ Includes(frame.locals, new_var(frame, x, m).locals)
           /\ OwnSlots(frame) => OwnSlots(new_var(frame, x, m))
<1> DEFINE new == new_var(frame, x, m)
<1>1. /\ frame.local_count \in Slots /\ NewSlot(frame) = frame.local_count + 1
      /\ frame.locals \in Locals
      /\ \A y \in Vars : frame.locals[y].addr \in Slots
  BY DEF CompilingFrames, Locals, NewSlot
<1>2. /\ new.local_count = frame.local_count + 1
      /\ \A y \in Vars : new.locals[y].addr = IF y = x THEN frame.local_count + 1
                                                      ELSE frame.locals[y].addr
  <2>1. frame.locals \in [Vars -> [mut : BOOLEAN, addr : Slots]]
    BY <1>1 DEF Locals
  <2> QED
    BY <1>1, <2>1 DEF new_var
<1> HIDE DEF new
<1>3. Includes(frame.locals, new.locals)
  BY <1>2 DEF Includes
<1>4. ASSUME OwnSlots(frame)
      PROVE  OwnSlots(new)
  <2>1. \A y \in Vars : frame.locals[y].addr = NoSlot \/ frame.locals[y].addr <= frame.local_count
    BY <1>4 DEF OwnSlots
  <2>2. \A y, z \in Vars : frame.locals[y].addr # NoSlot
           /\ frame.locals[y].addr = frame.locals[z].addr => y = z
    BY <1>4 DEF OwnSlots
  <2>3. NoSlot < frame.local_count + 1 /\ frame.local_count \in Int
    BY <1>1 DEF Slots, NoSlot
  <2>4. \A y \in Vars : frame.locals[y].addr \in Int
    BY <1>1 DEF Slots, NoSlot
  <2>5. ASSUME NEW y \in Vars, new.locals[y].addr # NoSlot
        PROVE  new.locals[y].addr <= new.local_count
    BY <1>2, <2>1, <2>3, <2>4, <2>5
  <2>6. ASSUME NEW y \in Vars, NEW z \in Vars, new.locals[y].addr # NoSlot,
               new.locals[y].addr = new.locals[z].addr
        PROVE  y = z
    <3>1. \A w \in Vars : w # x => new.locals[w].addr # frame.local_count + 1
      BY <1>2, <2>1, <2>3, <2>4
    <3> QED
      BY <1>2, <2>2, <2>6, <3>1
  <2> QED
    BY <2>5, <2>6 DEF OwnSlots
<1> QED
  BY <1>3, <1>4 DEF new

(* Every parameter has a slot of its own, and the count ends at the last. *)
LEMMA ParamsApart ==
    ASSUME NEW n, n.params \in Seq(Vars)
    PROVE  OwnSlots(ParamFrame(n))
<1> DEFINE k == Len(n.params)
           first(x) == First(Param(n, x))
           firsts == {first(n.params[i]) : i \in 1 .. k}
           frame == ParamFrame(n)
<1>1. k \in Nat
  OBVIOUS
<1>2. ASSUME NEW x, Param(n, x) # {}
      PROVE  first(x) \in 1 .. k /\ n.params[first(x)] = x
  <2>1. IsFiniteSet(1 .. k) /\ Param(n, x) \in SUBSET (1 .. k)
    BY <1>1, FS_Interval DEF Param
  <2>2. IsFiniteSet(Param(n, x)) /\ Param(n, x) \in SUBSET Int
    BY <2>1, FS_Subset
  <2>3. \E i \in Param(n, x) : \A j \in Param(n, x) : i <= j
    BY <1>2, <2>2, LeastElement
  <2>4. first(x) \in Param(n, x)
    BY <2>3 DEF First
  <2> QED
    BY <2>4 DEF Param
<1>3. \A i \in 1 .. k : i \in Param(n, n.params[i])
  BY DEF Param
<1>4. firsts \in SUBSET (1 .. k)
  BY <1>2, <1>3
<1>5. \A x \in Vars : frame.locals[x].addr =
         IF Param(n, x) = {} THEN NoSlot ELSE first(x) - 1
  BY DEF ParamFrame, NoVar
<1> HIDE DEF first
<1>6. ASSUME NEW x \in Vars, Param(n, x) # {}
      PROVE  frame.locals[x].addr <= frame.local_count
  <2>1. first(x) \in firsts
    <3>1. first(x) = first(n.params[first(x)]) /\ first(x) \in 1 .. k
      BY <1>2, <1>6
    <3> QED
      BY <3>1
  <2> HIDE DEF firsts
  <2>2. \E i \in firsts : \A j \in firsts : j <= i
    BY <1>1, <1>4, <2>1, GreatestElement
  <2>3. Final(firsts) \in 1 .. k /\ first(x) <= Final(firsts) /\ first(x) \in 1 .. k
    BY <1>4, <2>1, <2>2 DEF Final
  <2>4. n.params # <<>>
    BY <1>2, <1>6
  <2>5. frame.local_count = Final(firsts) - 1
    BY <2>4 DEF ParamFrame, firsts, first
  <2> HIDE DEF frame
  <2> QED
    BY <1>5, <1>6, <2>3, <2>5
<1> HIDE DEF frame, firsts
<1>7. ASSUME NEW x \in Vars, NEW y \in Vars, frame.locals[x].addr # NoSlot,
             frame.locals[x].addr = frame.locals[y].addr
      PROVE  x = y
  <2>1. Param(n, x) # {} /\ Param(n, y) # {}
    BY <1>5, <1>7
  <2>2. first(x) \in 1 .. k /\ first(y) \in 1 .. k /\ first(x) - 1 = first(y) - 1
    BY <1>2, <1>5, <1>7, <2>1
  <2>3. first(x) = first(y)
    BY <2>2
  <2> QED
    BY <1>2, <2>1, <2>3
<1>8. \A x \in Vars : frame.locals[x].addr # NoSlot => Param(n, x) # {}
  BY <1>5
<1> QED
  BY <1>6, <1>7, <1>8 DEF OwnSlots, frame

(* An assignment, a declaration or a module only adds to the frames: names that were there
   stay in their slots. *)
LEMMA FramesGrow ==
    ASSUME SlotInv, \/ assign_done \/ define_done
                    \/ \E n \in Nodes : gen_module(n)
    PROVE  /\ Len(cur') = Len(cur)
           /\ \A f \in 1 .. Len(cur) : Includes(cur[f].locals, cur'[f].locals)
           /\ \/ DistinctSlots => DistinctSlots'
              \/ Awaiting("assign") /\ FrameOf(Top.name) # Top.fst + 1
<1>1. /\ TypeOK /\ InStep /\ ModulesNamed /\ NamesMeant
      /\ Len(cur) \in Nat \ {0} /\ cur \in Seq(CompilingFrames)
      /\ cur[Len(cur)] \in CompilingFrames /\ Top \in Activations
      /\ Len(todo) \in 1 .. Len(todo)
  BY TopType DEF SlotInv, TypeInv, TypeOK
<1>2. DistinctSlots <=> \A f \in 1 .. Len(cur) : OwnSlots(cur[f])
  BY DEF DistinctSlots, OwnSlots
<1>3. DistinctSlots' <=> \A f \in 1 .. Len(cur') : OwnSlots(cur'[f])
  BY DEF DistinctSlots, OwnSlots
<1>4. ASSUME NEW frame \in CompilingFrames, cur' = SetBack(frame),
             Includes(cur[Len(cur)].locals, frame.locals),
             OwnSlots(cur[Len(cur)]) => OwnSlots(frame)
      PROVE  /\ Len(cur') = Len(cur)
             /\ \A f \in 1 .. Len(cur) : Includes(cur[f].locals, cur'[f].locals)
             /\ DistinctSlots => DistinctSlots'
  <2>1. /\ Len(cur') = Len(cur) /\ cur'[Len(cur)] = frame
        /\ \A f \in 1 .. Len(cur) : f # Len(cur) => cur'[f] = cur[f]
    BY <1>1, <1>4 DEF SetBack
  <2>2. Len(cur) \in 1 .. Len(cur)
    BY <1>1
  <2>3. \A f \in 1 .. Len(cur) : Includes(cur[f].locals, cur'[f].locals)
    BY <1>4, <2>1 DEF Includes
  <2> QED
    BY <1>2, <1>3, <1>4, <2>1, <2>2, <2>3
<1>5. CASE define_done
  <2>1. Top.fn = "define" /\ Top.name \in Vars /\ Top.mut \in BOOLEAN
    BY <1>1, <1>5, Fields DEF define_done, Awaiting
  <2>2. ~Found(Top.name)
    BY <1>1, <2>1 DEF NamesMeant, Meant, Top
  <2>3. cur[Len(cur)].locals[Top.name].addr = NoSlot
    BY <1>1, <2>2 DEF Found, Defining
  <2>4. new_var(cur[Len(cur)], Top.name, Top.mut) \in CompilingFrames
    BY <1>1, <2>1, NewVarType
  <2>5. cur' = SetBack(new_var(cur[Len(cur)], Top.name, Top.mut))
    BY <1>5 DEF define_done
  <2> QED
    BY <1>1, <1>4, <2>1, <2>3, <2>4, <2>5, NewVarApart
<1>6. ASSUME NEW n \in Nodes, gen_module(n)
      PROVE  /\ Len(cur') = Len(cur)
             /\ \A f \in 1 .. Len(cur) : Includes(cur[f].locals, cur'[f].locals)
             /\ DistinctSlots => DistinctSlots'
  <2> DEFINE x == ModuleName(n)
             frame == cur[Len(cur)]
  <2>1. x \in Vars
    BY <1>1, <1>6, ModuleNameType DEF gen_module, AtStmt
  <2>2. cur' = SetBack(module_var(x))
    BY <1>6 DEF gen_module
  <2> HIDE DEF x
  <2>3. CASE Redefined(x)
    <3> DEFINE more == [frame EXCEPT !.local_count = @ + 1]
    <3>1. frame \in [locals : Locals, local_count : Slots]
      BY <1>1 DEF CompilingFrames
    <3>2. more.locals = frame.locals /\ more.local_count = frame.local_count + 1
      BY <3>1
    <3>3. more \in CompilingFrames
      BY <3>1 DEF CompilingFrames, Slots, NoSlot
    <3>4. module_var(x) = more
      BY <2>3 DEF module_var
    <3>5. /\ frame.local_count \in Int
          /\ \A y \in Vars : frame.locals[y].addr \in Int
      BY <3>1 DEF Locals, Slots, NoSlot
    <3> HIDE DEF more, frame
    <3>6. Includes(frame.locals, more.locals)
      BY <3>2 DEF Includes
    <3>7. OwnSlots(frame) => OwnSlots(more)
      BY <3>2, <3>5 DEF OwnSlots
    <3> QED
      BY <1>4, <2>2, <3>3, <3>4, <3>6, <3>7 DEF frame
  <2>4. CASE ~Redefined(x)
    <3>1. module_var(x) = new_var(frame, x, FALSE) /\ frame.locals[x].addr = NoSlot
      BY <2>4 DEF module_var, Redefined
    <3>2. new_var(frame, x, FALSE) \in CompilingFrames
      BY <1>1, <2>1, NewVarType
    <3> QED
      BY <1>1, <1>4, <2>1, <2>2, <3>1, <3>2, NewVarApart
  <2> QED
    BY <2>3, <2>4
<1>7. CASE assign_done
  <2> DEFINE g == Top.fst + 1
             old == cur[g].locals[Top.name]
             var == IF old = NoVar THEN [mut |-> FALSE, addr |-> 0] ELSE old
             changed == [cur[g] EXCEPT !.locals[Top.name] = var]
  <2>1. /\ Awaiting("assign") /\ Top.fn = "assign"
        /\ Top.name \in Vars /\ Top.fst \in Nat /\ g \in 1 .. Len(cur)
        /\ cur[g] \in CompilingFrames /\ old \in [mut : BOOLEAN, addr : Slots]
    BY <1>1, <1>7, AssignedVar DEF assign_done, Awaiting
  <2>2. cur' = [cur EXCEPT ![g].locals[Top.name] = var]
    BY <1>7 DEF assign_done
  <2>3. Found(Top.name)
    BY <1>1, <2>1 DEF NamesMeant, Meant, Top
  <2>4. /\ old.addr # NoSlot => var = old
        /\ cur[g].locals \in [Vars -> [mut : BOOLEAN, addr : Slots]]
        /\ cur[g] \in [locals : Locals, local_count : Slots]
    BY <2>1 DEF NoVar, NoSlot, CompilingFrames, Locals
  <2> HIDE DEF old, var, g
  <2>5. /\ Len(cur') = Len(cur) /\ cur'[g] = changed
        /\ \A f \in 1 .. Len(cur) : f # g => cur'[f] = cur[f]
    BY <1>1, <2>1, <2>2
  <2>6. changed.locals = [cur[g].locals EXCEPT ![Top.name] = var]
    BY <2>4
  <2>7. Includes(cur[g].locals, changed.locals)
    <3>1. ASSUME NEW x \in Vars, cur[g].locals[x].addr # NoSlot
          PROVE  changed.locals[x].addr = cur[g].locals[x].addr
      BY <2>4, <2>6, <3>1 DEF old
    <3> HIDE DEF changed
    <3> QED
      BY <3>1 DEF Includes
  <2>8. \A f \in 1 .. Len(cur) : Includes(cur[f].locals, cur'[f].locals)
    <3> HIDE DEF changed
    <3> QED
      BY <2>5, <2>7 DEF Includes
  <2>9. ASSUME FrameOf(Top.name) = Top.fst + 1
        PROVE  cur' = cur
    <3>1. FrameOf(Top.name) \in Defining(Top.name)
      <4>1. Defining(Top.name) \in SUBSET (1 .. Len(cur)) /\ Defining(Top.name) # {}
        BY <2>3 DEF Defining, Found
      <4>2. \E f \in Defining(Top.name) : \A h \in Defining(Top.name) : h <= f
        BY <1>1, <4>1, GreatestElement
      <4> QED
        BY <4>2 DEF FrameOf
    <3>2. old.addr # NoSlot
      BY <2>9, <3>1 DEF Defining, old, g
    <3>3. [cur[g].locals EXCEPT ![Top.name] = old] = cur[g].locals
      BY <2>4 DEF old
    <3>4. changed = cur[g]
      BY <2>4, <2>6, <3>2, <3>3
    <3> HIDE DEF changed
    <3>5. cur' \in Seq(CompilingFrames)
      BY <1>1, <2>1, <2>2, <2>5, <3>4
    <3> QED
      BY <1>1, <2>5, <3>4, <3>5
  <2>10. cur' = cur => (DistinctSlots => DistinctSlots')
    BY <1>2, <1>3
  <2> QED
    BY <2>1, <2>5, <2>8, <2>9, <2>10
<1> QED
  BY <1>5, <1>6, <1>7

(* The end of a block gives the frame back the names it had, and the end of a
   function gives back the frames there were. *)
LEMMA FramesRestored ==
    ASSUME SlotInv, function_done \/ \E n \in Nodes : gen_block_end(n)
    PROVE  /\ \A i \in 1 .. Len(todo) - 1 :
                 Scoped(todo[i]) => Includes(todo[i].save, cur'[Depth(todo, i)].locals)
           /\ DistinctSlots => DistinctSlots'
<1> DEFINE n == Len(todo)
           d == Len(cur)
<1>1. /\ TypeOK /\ InStep /\ NamesKept /\ d \in Nat \ {0} /\ cur \in Seq(CompilingFrames)
      /\ cur[d] \in CompilingFrames /\ Top \in Activations /\ n \in Nat \ {0}
      /\ Depth(todo, n) = d
  <2>1. TypeOK /\ InStep /\ NamesKept
    BY DEF SlotInv, TypeInv
  <2> QED
    BY <2>1, TopType DEF TypeOK, InStep
<1>2. DistinctSlots <=> \A f \in 1 .. d : OwnSlots(cur[f])
  BY DEF DistinctSlots, OwnSlots
<1>3. DistinctSlots' <=> \A f \in 1 .. Len(cur') : OwnSlots(cur'[f])
  BY DEF DistinctSlots, OwnSlots
<1>4. ASSUME NEW i \in 1 .. n - 1, Scoped(todo[i])
      PROVE  /\ i \in 1 .. n /\ n \in 1 .. n /\ i < n
             /\ Depth(todo, i) \in 1 .. d
             /\ Includes(todo[i].save, cur[Depth(todo, i)].locals)
  <2>1. i \in 1 .. n /\ n \in 1 .. n /\ i < n
    BY <1>1
  <2>2. Depth(todo, i) \in 1 .. d
    BY <1>1, <2>1, FramesExist
  <2>3. Includes(todo[i].save, cur[Depth(todo, i)].locals)
    BY <1>1, <1>4, <2>1 DEF NamesKept
  <2> QED
    BY <2>1, <2>2, <2>3
<1>5. CASE cur' = cur
  BY <1>2, <1>3, <1>4, <1>5
<1>6. CASE function_done
  <2>1. cur' = SubSeq(cur, 1, d - 1) /\ Top.fn = "function"
    BY <1>6 DEF function_done, Awaiting
  <2>2. Len(cur') = d - 1 /\ \A f \in 1 .. d - 1 : cur'[f] = cur[f]
    BY <1>1, <2>1, AllButLast
  <2>3. DistinctSlots => DistinctSlots'
    BY <1>1, <1>2, <1>3, <2>2
  <2>4. PICK m \in Nat : n = m + 1 /\ m = n - 1
    BY <1>1
  <2>5. Depth(todo, m) = d - 1
    <3>1. /\ Depth(todo, m) \in Nat
          /\ Depth(todo, m + 1) =
                Depth(todo, m) + (IF todo[m + 1].fn = "function" THEN 1 ELSE 0)
      BY DepthNext
    <3> QED
      BY <1>1, <2>1, <2>4, <3>1 DEF Top
  <2>6. \A i \in 1 .. n - 1 : Depth(todo, i) \in Nat \ {0} /\ Depth(todo, i) <= d - 1
    <3> TAKE i \in 1 .. n - 1
    <3>1. i \in 0 .. m
      BY <1>1, <2>4
    <3> QED
      BY <2>5, <3>1, DepthGrows
  <2>7. ASSUME NEW i \in 1 .. n - 1, Scoped(todo[i])
        PROVE  Includes(todo[i].save, cur'[Depth(todo, i)].locals)
    <3>1. Depth(todo, i) \in 1 .. d - 1
      BY <1>1, <2>6
    <3> QED
      BY <1>4, <2>2, <2>7, <3>1
  <2> QED
    BY <2>3, <2>7
<1>7. ASSUME NEW k \in Nodes, gen_block_end(k), cur' # cur
      PROVE  /\ \A i \in 1 .. n - 1 :
                   Scoped(todo[i]) => Includes(todo[i].save, cur'[Depth(todo, i)].locals)
             /\ DistinctSlots => DistinctSlots'
  <2> DEFINE frame == [cur[d] EXCEPT !.locals = Top.save]
  <2>1. Scoped(Top) /\ Top.save \in Locals /\ cur' = SetBack(frame)
    BY <1>1, <1>7, Fields DEF gen_block_end, Scoped
  <2>2. frame.locals = Top.save /\ frame.local_count = cur[d].local_count
    BY <1>1 DEF CompilingFrames
  <2> HIDE DEF frame
  <2>3. /\ Len(cur') = d /\ cur'[d] = frame
        /\ \A f \in 1 .. d : f # d => cur'[f] = cur[f]
    BY <1>1, <2>1 DEF SetBack
  <2>4. Includes(Top.save, cur[d].locals)
    BY <1>1, <2>1 DEF NamesKept, Top
  <2>5. OwnSlots(cur[d]) => OwnSlots(frame)
    BY <2>2, <2>4 DEF OwnSlots, Includes
  <2>6. DistinctSlots => DistinctSlots'
    <3>1. d \in 1 .. d
      BY <1>1
    <3> QED
      BY <1>2, <1>3, <2>3, <2>5, <3>1
  <2>7. ASSUME NEW i \in 1 .. n - 1, Scoped(todo[i])
        PROVE  Includes(todo[i].save, cur'[Depth(todo, i)].locals)
    <3>1. CASE Depth(todo, i) # d
      BY <1>4, <2>3, <2>7, <3>1
    <3>2. CASE Depth(todo, i) = d
      <4>1. /\ i \in 1 .. n /\ n \in 1 .. n /\ i < n
            /\ Scoped(todo[n]) /\ Depth(todo, i) = Depth(todo, n)
        BY <1>1, <1>4, <2>1, <2>7, <3>2 DEF Top
      <4>2. Includes(todo[i].save, todo[n].save)
        BY <1>1, <2>7, <4>1 DEF NamesKept
      <4> QED
        BY <2>2, <2>3, <3>2, <4>2 DEF Top
    <3> QED
      BY <3>1, <3>2
  <2> QED
    BY <2>6, <2>7
<1> QED
  BY <1>5, <1>6, <1>7

(* The frame of a function comes on top of the others. *)
LEMMA FrameEntered ==
    ASSUME SlotInv, NEW n \in Nodes, gen_function(n)
    PROVE  /\ Len(cur') = Len(cur) + 1 /\ \A f \in 1 .. Len(cur) : cur'[f] = cur[f]
           /\ DistinctSlots => DistinctSlots'
<1>1. Len(cur) \in Nat /\ cur \in Seq(CompilingFrames)
  BY DEF SlotInv, TypeInv, TypeOK
<1>2. ParamFrame(n) \in CompilingFrames /\ OwnSlots(ParamFrame(n))
  BY NodeFields, ParamFrameType, ParamsApart DEF gen_function, AtStmt
<1>3. cur' = Append(cur, ParamFrame(n))
  BY DEF gen_function
<1>4. /\ Len(cur') = Len(cur) + 1 /\ cur'[Len(cur) + 1] = ParamFrame(n)
      /\ \A f \in 1 .. Len(cur) : cur'[f] = cur[f]
  BY <1>1, <1>2, <1>3
<1>5. \A f \in 1 .. Len(cur') : f \in 1 .. Len(cur) \/ f = Len(cur) + 1
  BY <1>1, <1>4
<1>6. DistinctSlots <=> \A f \in 1 .. Len(cur) : OwnSlots(cur[f])
  BY DEF DistinctSlots, OwnSlots
<1>7. DistinctSlots' <=> \A f \in 1 .. Len(cur') : OwnSlots(cur'[f])
  BY DEF DistinctSlots, OwnSlots
<1> QED
  BY <1>2, <1>4, <1>5, <1>6, <1>7

(* The generator starts with empty frames. *)
LEMMA SlotInvInit ==
    ASSUME Init
    PROVE  SlotInv /\ DistinctSlots
<1>1. /\ todo = <<[fn |-> "program"]>> /\ cur = <<CompilingFrame>>
      /\ CompilingFrame.locals = [x \in Vars |-> NoVar]
  BY DEF Init, CompilingFrame
<1>2. \A i \in 1 .. Len(todo) : todo[i].fn = "program"
  BY <1>1
<1>3. NamesKept /\ NamesMeant
  BY <1>2 DEF NamesKept, NamesMeant, Scoped, Meant
<1>4. \A f \in 1 .. Len(cur) : \A x \in Vars : cur[f].locals[x].addr = NoSlot
  BY <1>1 DEF NoVar
<1>5. DistinctSlots
  BY <1>4 DEF DistinctSlots
<1> QED
  BY <1>3, <1>5, TypeInvInit DEF SlotInv

(* Every step keeps the names that blocks give back, and separates the variables
   unless it takes one frame for another. *)
LEMMA SlotInvStep ==
    ASSUME SlotInv, [Next]_gvars
    PROVE  /\ SlotInv'
           /\ \/ DistinctSlots => DistinctSlots'
              \/ Awaiting("assign") /\ FrameOf(Top.name) # Top.fst + 1
<1>1. /\ TypeInv /\ TypeInv' /\ TypeOK /\ InStep /\ InStep' /\ Nested
      /\ NamesKept /\ NamesMeant /\ Len(todo) \in Nat \ {0}
  <2>1. TypeInv'
    BY TypeInvStep DEF SlotInv
  <2> QED
    BY <2>1, TopType DEF SlotInv, TypeInv
<1>2. \A k : Stacked(k) => k \in Nat /\ k <= Len(todo)
  BY <1>1 DEF Stacked
<1> DEFINE Good == \/ DistinctSlots => DistinctSlots'
                   \/ Awaiting("assign") /\ FrameOf(Top.name) # Top.fst + 1
<1>3. CASE (GeneratorStep \/ UNCHANGED gvars) /\ cur' = cur
  <2>1. PICK base \in {todo, Below} : OnTop(base)
    <3>1. CASE GeneratorStep
      BY <1>1, <3>1, VisitOnTop, ResumeOnTop DEF GeneratorStep
    <3>2. CASE UNCHANGED gvars
      BY <3>2 DEF gvars, OnTop
    <3> QED
      BY <1>3, <3>1, <3>2
  <2>2. Stacked(Len(base))
    BY <1>1, <2>1, OnTopStacked
  <2>3. NamesMeant'
    BY <1>1, <1>3, <2>2, MeaningStays
  <2>4. \A i \in 1 .. Len(base) :
           Scoped(todo[i]) => Includes(todo[i].save, cur'[Depth(todo, i)].locals)
    <3>1. \A i \in 1 .. Len(base) : i \in 1 .. Len(todo)
      BY <1>1, <1>2, <2>2
    <3> QED
      BY <1>1, <1>3, <3>1 DEF NamesKept
  <2>5. NamesKept'
    BY <1>1, <2>2, <2>4, NamesStay
  <2>6. DistinctSlots => DistinctSlots'
    BY <1>3 DEF DistinctSlots
  <2> QED
    BY <1>1, <2>3, <2>5, <2>6 DEF SlotInv
<1>4. ASSUME NEW base \in {todo, Below}, OnTop(base), Top.fn \notin Operators,
             base = todo => Top.fn \notin {"assign", "define"},
             \A i \in 1 .. Len(base) :
                Scoped(todo[i]) => Includes(todo[i].save, cur'[Depth(todo, i)].locals)
      PROVE  SlotInv'
  <2>1. Stacked(Len(base))
    BY <1>1, <1>4, OnTopStacked
  <2>2. NamesKept'
    BY <1>1, <1>4, <2>1, NamesStay
  <2>3. Len(Below) = Len(todo) - 1
    BY <1>1, TopType
  <2>4. \A i \in 1 .. Len(todo) - 1 : todo[i].fn \notin {"assign", "define"}
    BY <1>1, <1>4, NoneWaits DEF Evaluating
  <2>5. \A i \in 1 .. Len(base) : todo[i].fn \notin {"assign", "define"}
    BY <1>1, <1>4, <2>3, <2>4 DEF Top
  <2>6. NamesMeant'
    BY <1>1, <2>1, <2>5, MeaningStays
  <2> QED
    BY <1>1, <2>2, <2>6 DEF SlotInv
<1>5. ASSUME \A f \in 1 .. Len(cur) : Includes(cur[f].locals, cur'[f].locals),
             NEW i \in 1 .. Len(todo), Scoped(todo[i])
      PROVE  Includes(todo[i].save, cur'[Depth(todo, i)].locals)
  <2>1. Depth(todo, i) \in 1 .. Len(cur)
    BY <1>1, FramesExist
  <2>2. Includes(todo[i].save, cur[Depth(todo, i)].locals)
    BY <1>1, <1>5 DEF NamesKept
  <2> QED
    BY <1>5, <2>1, <2>2 DEF Includes
<1>6. /\ Len(Below) = Len(todo) - 1
      /\ \A i \in 1 .. Len(todo) - 1 : i \in 1 .. Len(todo)
  BY <1>1, TopType
<1>7. CASE assign_done \/ define_done
  <2>1. todo' = Below /\ Top.fn \in {"assign", "define"}
    BY <1>7 DEF assign_done, define_done, Leave, Awaiting
  <2>2. OnTop(Below) /\ Top.fn \notin Operators /\ Below # todo
    BY <1>1, <1>6, <2>1 DEF OnTop, Operators
  <2>3. \A f \in 1 .. Len(cur) : Includes(cur[f].locals, cur'[f].locals)
    BY <1>7, FramesGrow
  <2>4. Good
    BY <1>7, FramesGrow
  <2> QED
    BY <1>4, <1>5, <1>6, <2>2, <2>3, <2>4
<1>8. CASE function_done \/ \E n \in Nodes : gen_block_end(n)
  <2>1. todo' = Below /\ Top.fn \in {"function", "block"}
    BY <1>8 DEF function_done, gen_block_end, Leave, Awaiting
  <2>2. OnTop(Below) /\ Top.fn \notin Operators /\ Below # todo
    BY <1>1, <1>6, <2>1 DEF OnTop, Operators
  <2> QED
    BY <1>4, <1>6, <1>8, <2>2, FramesRestored
<1>9. ASSUME NEW n \in Nodes, gen_module(n) \/ gen_function(n)
       PROVE  SlotInv' /\ Good
  <2>1. mode = "stmt"
    BY <1>9 DEF gen_module, gen_function, AtStmt
  <2>2. Top.fn \notin Operators \cup {"assign", "define"}
    BY <1>1, <2>1 DEF Nested, Operators
  <2>3. OnTop(todo)
    <3>1. CASE gen_module(n)
      <4>1. \E a : todo' = Append(todo, a) /\ a.fn \notin {"block", "assign", "define"}
        BY <3>1 DEF gen_module, Push
      <4> QED
        BY <4>1, PutOnTop
    <3>2. CASE gen_function(n)
      <4>1. \E a : /\ a.fn = "function"
                    /\ todo' = todo \o <<a, [Block EXCEPT !.scoped = FALSE]>>
        BY <3>2 DEF gen_function
      <4> QED
        BY <4>1, PutOnTop
    <3> QED
      BY <1>9, <3>1, <3>2
  <2>4. /\ \A f \in 1 .. Len(cur) : Includes(cur[f].locals, cur'[f].locals)
        /\ Good
    <3>1. CASE gen_module(n)
      BY <3>1, FramesGrow
    <3>2. CASE gen_function(n)
      BY <3>2, FrameEntered DEF Includes
    <3> QED
      BY <1>9, <3>1, <3>2
  <2> QED
    BY <1>4, <1>5, <2>2, <2>3, <2>4
<1>10. CASE GeneratorStep
  BY <1>3, <1>7, <1>8, <1>9, <1>10, FramesChange
<1>11. CASE UNCHANGED gvars
  BY <1>3, <1>11 DEF gvars
<1> QED
  BY <1>3, <1>10, <1>11 DEF Next, GeneratorStep, Finished

\* In every program, however its blocks and functions nest, names that come
\* and go with the blocks (gen_block gives back the names of the frame and
\* never its slots) leave each visible variable in a slot of its own.  The one
\* step that can break this is the end of a gen_assign that stores into
\* another frame than the one where find_var found the variable.
THEOREM SlotsApart == Spec => SlotsStayApart
<1>1. Init => SlotInv
  BY SlotInvInit
<1>2. SlotInv /\ [Next]_gvars => SlotInv'
  BY SlotInvStep
<1>3. SlotInv /\ [Next]_gvars =>
         [DistinctSlots =>
             \/ DistinctSlots'
             \/ Awaiting("assign") /\ FrameOf(Top.name) # Top.fst + 1]_gvars
  BY SlotInvStep
<1> QED
  BY <1>1, <1>2, <1>3, PTL DEF Spec, SlotsStayApart

\* So two visible variables of a frame never share a slot in a program whose
\* functions assign to no variable that exists already: at the toplevel there
\* is one frame, and gen_assign counts frames from it in either direction.
THEOREM ToplevelAssignments ==
    Spec /\ [](Awaiting("assign") => Len(cur) = 1) => []DistinctSlots
<1>1. Init => SlotInv /\ DistinctSlots
  BY SlotInvInit
<1>2. SlotInv /\ [Next]_gvars => SlotInv'
  BY SlotInvStep
<1>3. SlotInv /\ DistinctSlots /\ (Awaiting("assign") => Len(cur) = 1) /\ [Next]_gvars
         => DistinctSlots'
  <2> SUFFICES ASSUME SlotInv, DistinctSlots, Awaiting("assign") => Len(cur) = 1,
                      [Next]_gvars, Awaiting("assign"), FrameOf(Top.name) # Top.fst + 1
               PROVE  FALSE
    BY SlotInvStep
  <2>1. /\ TypeOK /\ NamesMeant /\ Len(todo) \in 1 .. Len(todo) /\ Top.fn = "assign"
        /\ Top.name \in Vars /\ Len(cur) = 1
    BY TopType, Fields DEF SlotInv, TypeInv, Awaiting
  <2>2. Found(Top.name) /\ Top.fst = Distance(Top.name)
    BY <2>1 DEF NamesMeant, Meant, Top
  <2>3. FrameOf(Top.name) \in 1 .. 1 /\ Top.fst = 1 - FrameOf(Top.name)
    BY <2>1, <2>2, Finds
  <2> QED
    BY <2>3
<1> QED
  BY <1>1, <1>2, <1>3, PTL DEF Spec
=============================================================================
