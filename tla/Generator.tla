----------------------------- MODULE Generator -----------------------------
(***************************************************************************)
(* The code generator (src/compiler/generator): the recursive descent of   *)
(* sub_gen over the syntax tree.  The tree is not given in advance: each   *)
(* step that visits a node takes any node the parser can put there, so the *)
(* behaviours are the compilations of all source programs.  The C++ call   *)
(* stack is todo, the activations of gen_* functions that wait for the     *)
(* result of a sub_gen; the result of the last one is ret.                 *)
(***************************************************************************)
EXTENDS Emit, FiniteSets

CONSTANTS Vars,       \* names of variables and parameters
          Funcs,      \* names of functions
          Nodes       \* the nodes a source program may contain

\* What the nodes of the syntax tree carry.  Only the length of a text counts.
Texts == {t \in STRING : Len(t) \in Nat}
Declarations == [name : STRING, label : Texts, argc : Nat, types : Seq(STRING),
                 ret : STRING]
OperatorNodes == [kind : {"Bin"}, op : Ternary]
                 \cup [kind : {"Pipe"}, name : STRING, argc : Nat]
NodeForms ==
    OperatorNodes
    \cup [kind : {"Num"}, value : Int]
    \cup [kind : {"Bool"}, b : BOOLEAN]
    \cup [kind : {"Str"}, length : Nat]
    \cup [kind : {"Var"}, name : Vars]
    \cup [kind : {"Call"}, name : STRING, argc : Nat]
    \cup [kind : {"VMC"}, idx : Nat, argc : Nat]
    \cup [kind : {"Assign"}, name : Vars, mut : BOOLEAN]
    \cup [kind : {"If"}, has_else : BOOLEAN]
    \cup [kind : {"Loop"}, counted : BOOLEAN]
    \cup [kind : {"Func"}, name : Funcs, params : Seq(Vars)]
    \cup [kind : {"Module"}, name : Vars, dyn : BOOLEAN, lib : Texts,
          decls : Seq(Declarations)]
    \cup [kind : {"Neg", "Return", "ReturnVoid", "Break", "Continue", "Declare", "End"}]

\* A module is a variable, and so is a module taken for a part of another.
ASSUME NodesAssumption ==
    /\ Nodes \subseteq NodeForms
    /\ \A m, n \in {k \in Nodes : k.kind = "Module"} :
          m.name # n.name => m.name \o "." \o n.name \in Vars

VARIABLES mode,           \* what sub_gen does next
          todo,           \* suspended activations, the innermost last
          ret,            \* result register of the last activation
          em,             \* ops and ret_type of the emitter
          bitset,         \* registers in use (Allocator)
          expr_release,   \* the generator's flag of that name
          cur,            \* compiling frames, the toplevel first
          funcs,          \* function table: arity and entry point
          break_points, continue_points,   \* jumps waiting for their target
          pool,           \* constant_pool: size, capacity, known cells
          modules,        \* modules, cur_module and extern_funcs
          node_has_error,
          lex             \* the parser's static flags in_func and in_loop

gvars == <<mode, todo, ret, em, bitset, expr_release, cur, funcs,
           break_points, continue_points, pool, modules, node_has_error, lex>>

REG_COUNT_INDEX_MAX == REG_COUNT - 1

\* A variable of a frame; addr = NoSlot (UINT16_MAX) when there is none.
NoSlot == -1
NoVar == [mut |-> FALSE, addr |-> NoSlot]
NoFunc == [argc |-> -1, addr |-> 0]

CompilingFrame == [locals |-> [x \in Vars |-> NoVar], local_count |-> -1]

-----------------------------------------------------------------------------
(* Scopes. *)

tagging == Emitted(em)

Defining(x) == {f \in 1 .. Len(cur) : cur[f].locals[x].addr # NoSlot}

\* find_var: the distance from the innermost frame and the variable there
Found(x) == Defining(x) # {}
FrameOf(x) == CHOOSE f \in Defining(x) : \A g \in Defining(x) : g <= f
Distance(x) == Len(cur) - FrameOf(x)
find_var(x) == cur[FrameOf(x)].locals[x]

\* new_var in the innermost frame, at the slot after the last one handed out
NewSlot(frame) == frame.local_count + 1
new_var(frame, x, is_mut) ==
    [locals |-> [frame.locals EXCEPT ![x] = [mut |-> is_mut,
                                             addr |-> NewSlot(frame)]],
     local_count |-> NewSlot(frame)]

\* the innermost frame replaced
SetBack(frame) == [cur EXCEPT ![Len(cur)] = frame]

-----------------------------------------------------------------------------
(* Control. *)

Push(frame) == todo' = Append(todo, frame)
Top == todo[Len(todo)]
Below == SubSeq(todo, 1, Len(todo) - 1)

\* an activation of fn awaits the result of the sub_gen just finished
Awaiting(fn) == mode = "ret" /\ Top.fn = fn

\* return from the innermost activation with register r
Leave(r) == mode' = "ret" /\ ret' = r /\ todo' = Below

\* the node is visited in expression position: as an operand, an argument, a
\* condition or a value, or as an expression statement
AtExpr(n, kind) == mode \in {"expr", "stmt"} /\ n.kind = kind
AtStmt(n, kind) == mode = "stmt" /\ n.kind = kind

Error(e) == node_has_error' = (node_has_error \/ e)
NoError == UNCHANGED node_has_error

Names == <<cur, funcs, lex>>
Points == <<break_points, continue_points>>
Consts == <<pool, modules>>
Regs == <<bitset, expr_release>>

-----------------------------------------------------------------------------
Init ==
    /\ mode = "stmt"
    /\ todo = <<[fn |-> "program"]>>
    /\ ret = 0
    /\ em = [ops |-> <<>>, ret_type |-> "None"]
    /\ bitset = {0}
    /\ expr_release = FALSE
    /\ cur = <<CompilingFrame>>
    /\ funcs = [f \in Funcs |-> NoFunc]
    /\ break_points = {} /\ continue_points = {}
    /\ pool = [size |-> 0, cap |-> 0, cells |-> {}]
    /\ modules = [names |-> {}, current |-> "", externs |-> {}]
    /\ node_has_error = FALSE
    /\ lex = [in_func |-> FALSE, in_loop |-> FALSE]

-----------------------------------------------------------------------------
(* Expressions. *)

\* a leaf leaves its value in a fresh register
Leaf(r) == mode' = "ret" /\ ret' = r /\ UNCHANGED todo

gen_literal(value) ==
    /\ em' = emit_mov_ri(em, alloc(bitset), value)
    /\ bitset' = Taken(bitset)
    /\ expr_release' = TRUE
    /\ Leaf(alloc(bitset))
    /\ NoError /\ UNCHANGED <<Names, Points, Consts>>

gen_num(n) == AtExpr(n, "Num") /\ gen_literal(n.value)
gen_bool(n) == AtExpr(n, "Bool") /\ gen_literal(IF n.b THEN 1 ELSE 0)

Larger(a, b) == IF a > b THEN a ELSE b

\* constant_pool.insert of n chars at the end, with what is known of them
Inserted(p, n, cells) ==
    [size |-> p.size + n,
     cap |-> IF p.size + n <= p.cap THEN p.cap ELSE p.size + Larger(p.size, n),
     cells |-> p.cells \cup cells]

\* the characters and the terminating zero go to the pool; expr_release is
\* not set
gen_string(n) ==
    /\ AtExpr(n, "Str")
    /\ em' = emit_mov_rc(em, alloc(bitset), pool.size)
    /\ pool' = Inserted(pool, n.length + 1, {})
    /\ bitset' = Taken(bitset)
    /\ Leaf(alloc(bitset))
    /\ NoError /\ UNCHANGED <<Names, Points, expr_release, modules>>

gen_var_ref(n) ==
    /\ AtExpr(n, "Var")
    /\ \/ /\ Found(n.name)
          /\ em' = emit_local_get(em, alloc(bitset), Distance(n.name),
                                  find_var(n.name).addr)
          /\ bitset' = Taken(bitset)
          /\ Leaf(alloc(bitset))
          /\ NoError
       \/ /\ ~Found(n.name)
          /\ Leaf(NoReg)
          /\ Error(TRUE)
          /\ UNCHANGED <<em, bitset>>
    /\ expr_release' = TRUE
    /\ UNCHANGED <<Names, Points, Consts>>

Descend(frame) ==
    /\ mode' = "expr"
    /\ Push(frame)
    /\ NoError
    /\ UNCHANGED <<ret, em, expr_release, Names, Points, Consts>>

gen_unary(n) == AtExpr(n, "Neg") /\ Descend([fn |-> "unary"]) /\ UNCHANGED bitset

\* the register holding zero is freed before the result is allocated: both
\* are the same register
unary_done ==
    /\ Awaiting("unary")
    /\ LET r == alloc(bitset)
           zero == emit_mov_ri(em, r, 0)
       IN  /\ em' = emit_binary(zero, "SUB", r, r, ret)
           /\ bitset' = Releasing(Taken(bitset), expr_release, ret)
           /\ Leave(r)
    /\ expr_release' = TRUE
    /\ NoError /\ UNCHANGED <<Names, Points, Consts>>

\* mutant: tmp is not marked as used
gen_binary_unreserved(n) ==
    /\ n.kind \in {"Bin", "Pipe"}
    /\ AtExpr(n, n.kind)
    /\ Descend([fn |-> "left", node |-> n, tmp |-> alloc(bitset)])
    /\ UNCHANGED bitset

gen_binary(n) ==
    /\ n.kind \in {"Bin", "Pipe"}
    /\ AtExpr(n, n.kind)
    /\ Descend([fn |-> "left", node |-> n, tmp |-> alloc(bitset)])
    /\ bitset' = Taken(bitset)

binary_left ==
    /\ Awaiting("left") /\ Top.node.kind = "Bin"
    /\ em' = emit_mov_rr(em, Top.tmp, ret)
    /\ bitset' = Releasing(bitset, expr_release, ret)
    /\ mode' = "expr"
    /\ todo' = Append(Below, [fn |-> "right", op |-> Top.node.op, lr |-> Top.tmp])
    /\ NoError /\ UNCHANGED <<ret, expr_release, Names, Points, Consts>>

binary_right ==
    /\ Awaiting("right")
    /\ LET rr == alloc(bitset)
           moved == emit_mov_rr(em, rr, ret)
           held == Releasing(Taken(bitset), expr_release, ret)
           result == alloc(held)
       IN  /\ em' = emit_binary(moved, Top.op, result, Top.lr, rr)
           /\ bitset' = Freed(Freed(Taken(held), Top.lr), rr)
           /\ Leave(result)
    /\ expr_release' = TRUE
    /\ NoError /\ UNCHANGED <<Names, Points, Consts>>

-----------------------------------------------------------------------------
(* Calls.  An "args" activation passes the arguments next .. count - 1 and *)
(* then emits call; pipe says whether gen_binary awaits it.                *)

VMCALL_INDEX_MAX == 65535

\* the call of a foreign function: its library in register 0, the address of
\* its name in register 1, whoever uses that register; SIZE_MAX and
\* UINT16_MAX when the library's variable is not in scope
emit_extern(e, call) ==
    LET got == IF Found(call.mod)
               THEN emit_local_get(e, 0, Distance(call.mod), find_var(call.mod).addr)
               ELSE emit_local_get(e, 0, 255, 65535)
    IN  emit_vmc(emit_mov_rc(got, 1, call.target), 5)

\* all arguments are in place: emit the call, result in register 0
Emitting(e, call) ==
    CASE call.by = "vmc"    -> emit_vmc(e, call.target)
      [] call.by = "fcall"  -> emit_fcall(e, call.target, call.argc)
      [] call.by = "extern" -> emit_extern(e, call)

\* gen_vmc looks at the index when the arguments are in place
Callable(call) == call.by = "vmc" => call.target <= VMCALL_INDEX_MAX

\* basic_gen_pass_args and what follows it in the caller
Pass(e, frame, below) ==
    \/ /\ frame.next < frame.count
       /\ mode' = "expr"
       /\ todo' = Append(below, frame)
       /\ em' = e
       /\ NoError /\ UNCHANGED <<ret, expr_release>>
    \/ /\ frame.next >= frame.count /\ Callable(frame.call)
       /\ mode' = "ret" /\ ret' = 0
       /\ todo' = below
       /\ em' = Emitting(e, frame.call)
       /\ expr_release' = (expr_release \/ frame.pipe)
       /\ NoError
    \/ /\ frame.next >= frame.count /\ ~Callable(frame.call)
       /\ mode' = "ret" /\ ret' = NoReg
       /\ todo' = below
       /\ em' = e
       /\ Error(TRUE) /\ UNCHANGED expr_release

\* the functions a call of this name may mean, extern ones after the others
Callees(name) ==
    IF name \in Funcs /\ funcs[name] # NoFunc
    THEN {[by |-> "fcall", target |-> funcs[name].addr, argc |-> funcs[name].argc]}
    ELSE {[by |-> "extern", target |-> e.addr, argc |-> e.argc, mod |-> e.mod] :
            e \in {d \in modules.externs : d.name = name}}

\* basic_gen_func_call(n, args_idx) with the emitter already at e
func_call(e, n, args_idx, below) ==
    \/ \E call \in Callees(n.name) :
          /\ call.argc = n.argc + args_idx
          /\ Pass(e, [fn |-> "args", next |-> args_idx, count |-> n.argc,
                      call |-> call, pipe |-> args_idx = 1], below)
    \/ /\ \A call \in Callees(n.name) : call.argc # n.argc + args_idx
       /\ mode' = "ret"
       /\ ret' = IF Callees(n.name) = {} THEN 0 ELSE NoReg
       /\ todo' = below
       /\ em' = e
       /\ expr_release' = (expr_release \/ args_idx = 1)
       /\ Error(TRUE)

gen_func_call(n) ==
    /\ AtExpr(n, "Call")
    /\ func_call(em, n, 0, todo)
    /\ UNCHANGED <<bitset, Names, Points, Consts>>

\* x |> f(..): x goes to register 254 and the call starts at argument 1
binary_pipe ==
    /\ Awaiting("left") /\ Top.node.kind = "Pipe"
    /\ LET moved == emit_mov_rr(em, Top.tmp, ret)
       IN  func_call(emit_mov_rr(moved, REG_COUNT_INDEX_MAX, Top.tmp),
                     Top.node, 1, Below)
    /\ bitset' = Releasing(bitset, expr_release, ret)
    /\ UNCHANGED <<Names, Points, Consts>>

gen_vmc(n) ==
    /\ AtExpr(n, "VMC")
    /\ Pass(em,
            [fn |-> "args", next |-> 0, count |-> n.argc,
             call |-> [by |-> "vmc", target |-> n.idx, argc |-> n.argc],
             pipe |-> FALSE], todo)
    /\ UNCHANGED <<bitset, Names, Points, Consts>>

\* argument i goes to register 254 - i as soon as it is computed
arg_done ==
    /\ Awaiting("args")
    /\ Pass(emit_mov_rr(em, REG_COUNT_INDEX_MAX - Top.next, ret),
            [Top EXCEPT !.next = @ + 1], Below)
    /\ bitset' = Releasing(bitset, expr_release, ret)
    /\ UNCHANGED <<Names, Points, Consts>>

-----------------------------------------------------------------------------
(* Blocks: gen_block restores the variables of the frame (not its          *)
(* local_count) at the end, the body of a function does not.               *)

Block == [fn |-> "block", scoped |-> TRUE, save |-> cur[Len(cur)].locals]

\* a child of the program or of a block is done; its register stays in use
child_done ==
    /\ mode = "ret"
    /\ Top.fn \in {"program", "block"}
    /\ mode' = "stmt"
    /\ UNCHANGED <<todo, ret, em, Consts, node_has_error>>
    /\ UNCHANGED <<Regs, Names, Points>>

\* mutant: the slots of the block are given back and its names stay
gen_block_end_named(n) ==
    /\ AtStmt(n, "End") /\ Top.fn = "block"
    /\ cur' = IF Top.scoped
              THEN LET kept == {x \in Vars : Top.save[x].addr # NoSlot}
                   IN  SetBack([cur[Len(cur)] EXCEPT !.local_count = Cardinality(kept) - 1])
              ELSE cur
    /\ Leave(0)
    /\ NoError /\ UNCHANGED <<em, Regs, funcs, lex, Points, Consts>>

gen_block_end(n) ==
    /\ AtStmt(n, "End") /\ Top.fn = "block"
    /\ cur' = IF Top.scoped THEN SetBack([cur[Len(cur)] EXCEPT !.locals = Top.save])
                            ELSE cur
    /\ Leave(0)
    /\ NoError /\ UNCHANGED <<em, Regs, funcs, lex, Points, Consts>>

\* gen(): HALT behind the program, and the register of its last child
gen_program_end(n) ==
    /\ AtStmt(n, "End") /\ Top.fn = "program"
    /\ mode' = "done"
    /\ em' = [em EXCEPT !.ops = Append(@, Op("HALT", <<0>>))]
    /\ NoError /\ UNCHANGED <<todo, ret, Regs, Names, Points, Consts>>

-----------------------------------------------------------------------------
(* Statements. *)

gen_assign(n) ==
    /\ AtStmt(n, "Assign")
    /\ \/ /\ Found(n.name) /\ find_var(n.name).mut
          /\ Descend([fn |-> "assign", name |-> n.name,
                      fst |-> Distance(n.name)])
       \/ /\ Found(n.name) /\ ~find_var(n.name).mut
          /\ mode' = "ret" /\ ret' = NoReg
          /\ Error(TRUE)
          /\ UNCHANGED <<todo, em, expr_release, Names, Points, Consts>>
       \/ /\ ~Found(n.name)
          /\ Descend([fn |-> "define", name |-> n.name, mut |-> n.mut])
    /\ UNCHANGED bitset

\* cur[fst] counts frames from the toplevel, fst counted them from the
\* innermost; operator[] inserts (false, 0) where the name is missing
assign_done ==
    /\ Awaiting("assign")
    /\ LET f == Top.fst + 1
           old == cur[f].locals[Top.name]
           var == IF old = NoVar THEN [mut |-> FALSE, addr |-> 0] ELSE old
       IN  /\ em' = emit_local_set(em, Top.fst, var.addr, ret)
           /\ cur' = [cur EXCEPT ![f].locals[Top.name] = var]
    /\ bitset' = Freed(bitset, ret)
    /\ Leave(NoReg)
    /\ NoError /\ UNCHANGED <<expr_release, funcs, lex, Points, Consts>>

define_done ==
    /\ Awaiting("define")
    /\ LET frame == new_var(cur[Len(cur)], Top.name, Top.mut)
       IN  /\ em' = emit_local_set(em, 0, frame.local_count, ret)
           /\ cur' = SetBack(frame)
    /\ bitset' = Freed(bitset, ret)
    /\ Leave(NoReg)
    /\ NoError /\ UNCHANGED <<expr_release, funcs, lex, Points, Consts>>

gen_return(n) ==
    /\ AtStmt(n, "Return") /\ lex.in_func
    /\ Descend([fn |-> "return"]) /\ UNCHANGED bitset

return_done ==
    /\ Awaiting("return")
    /\ em' = emit_fret(emit_mov_rr(em, 0, ret))
    /\ bitset' = Releasing(bitset, expr_release, ret)
    /\ Leave(0)
    /\ NoError /\ UNCHANGED <<expr_release, Names, Points, Consts>>

\* `return` without a value, and a function without a body, are null nodes
gen_null(n) ==
    /\ \/ AtStmt(n, "ReturnVoid") /\ lex.in_func
       \/ AtStmt(n, "Declare")
    /\ mode' = "crash"
    /\ NoError /\ UNCHANGED <<todo, ret, em, Regs, Names, Points, Consts>>

gen_if(n) ==
    /\ AtStmt(n, "If")
    /\ Descend([fn |-> "if_cond", has_else |-> n.has_else]) /\ UNCHANGED bitset

\* IF_TRUE over the jump to the else branch, then the then-block
if_cond ==
    /\ Awaiting("if_cond")
    /\ LET the == tagging
           els == tagging + 1
       IN  /\ em' = patch(emit_jmp(emit_if_true(em, ret, 0), 0), the, els + 1)
           /\ todo' = Below \o <<[fn |-> "if_then", cond |-> ret, els |-> els,
                                  has_else |-> Top.has_else], Block>>
    /\ mode' = "stmt"
    /\ NoError /\ UNCHANGED <<ret, Regs, Names, Points, Consts>>

if_then ==
    /\ Awaiting("if_then")
    /\ LET then_end == tagging
           jumped == patch(emit_jmp(em, 0), Top.els, then_end + 1)
       IN  IF Top.has_else
           THEN /\ em' = jumped
                /\ todo' = Below \o <<[fn |-> "if_else", cond |-> Top.cond,
                                       then_end |-> then_end], Block>>
                /\ mode' = "stmt"
                /\ UNCHANGED <<ret, bitset>>
           ELSE /\ em' = patch(jumped, then_end, then_end + 1)
                /\ bitset' = Freed(bitset, Top.cond)
                /\ Leave(NoReg)
    /\ NoError /\ UNCHANGED <<expr_release, Names, Points, Consts>>

if_else ==
    /\ Awaiting("if_else")
    /\ em' = patch(em, Top.then_end, tagging)
    /\ bitset' = Freed(bitset, Top.cond)
    /\ Leave(NoReg)
    /\ NoError /\ UNCHANGED <<expr_release, Names, Points, Consts>>

\* the counter of a loop stays in its register until the loop is closed
LoopBody(cond, below) ==
    /\ em' = IF cond # NoReg THEN emit_if_false(em, cond, 0) ELSE em
    /\ todo' = below \o <<[fn |-> "loop", cond |-> cond, start |-> tagging], Block>>
    /\ mode' = "stmt"
    /\ lex' = [lex EXCEPT !.in_loop = TRUE]

gen_loop(n) ==
    /\ AtStmt(n, "Loop")
    /\ \/ n.counted /\ Descend([fn |-> "loop_cond"])
       \/ /\ ~n.counted
          /\ LoopBody(NoReg, todo)
          /\ NoError /\ UNCHANGED <<ret, expr_release, cur, funcs, Points, Consts>>
    /\ UNCHANGED bitset

\* mutant: the counter is given back before the body
loop_cond_released ==
    /\ Awaiting("loop_cond")
    /\ LoopBody(ret, Below)
    /\ bitset' = Freed(bitset, ret)
    /\ NoError /\ UNCHANGED <<ret, expr_release, cur, funcs, Points, Consts>>

loop_cond ==
    /\ Awaiting("loop_cond")
    /\ LoopBody(ret, Below)
    /\ NoError /\ UNCHANGED <<ret, Regs, cur, funcs, Points, Consts>>

patch_all(e, points, target) ==
    [e EXCEPT !.ops = [i \in 1 .. Len(@) |->
        IF i - 1 \in points THEN Op("JMP", <<target>>) ELSE @[i]]]

\* mutant: the jumps of this loop stay recorded
loop_done_uncleared ==
    /\ Awaiting("loop")
    /\ LET counted == Top.cond # NoReg
           continue_point == tagging
           closed == emit_jmp(IF counted THEN emit_dec(em, Top.cond) ELSE em, Top.start)
           break_point == Emitted(closed)
           patched == patch_all(patch_all(closed, break_points, break_point),
                                continue_points, continue_point)
       IN  em' = IF counted THEN patch(patched, Top.start, break_point) ELSE patched
    /\ bitset' = Freed(bitset, Top.cond)
    /\ lex' = [lex EXCEPT !.in_loop = FALSE]
    /\ Leave(NoReg)
    /\ NoError /\ UNCHANGED <<expr_release, cur, funcs, Points, Consts>>

\* every jump recorded so far is taken for one of this loop
loop_done ==
    /\ Awaiting("loop")
    /\ LET counted == Top.cond # NoReg
           continue_point == tagging
           closed == emit_jmp(IF counted THEN emit_dec(em, Top.cond) ELSE em, Top.start)
           break_point == Emitted(closed)
           patched == patch_all(patch_all(closed, break_points, break_point),
                                continue_points, continue_point)
       IN  em' = IF counted THEN patch(patched, Top.start, break_point) ELSE patched
    /\ break_points' = {} /\ continue_points' = {}
    /\ bitset' = Freed(bitset, Top.cond)
    /\ lex' = [lex EXCEPT !.in_loop = FALSE]
    /\ Leave(NoReg)
    /\ NoError /\ UNCHANGED <<expr_release, cur, funcs, Consts>>

\* mutant: the jump is not recorded
gen_break_unrecorded(n) ==
    /\ AtStmt(n, "Break") /\ lex.in_loop
    /\ em' = emit_jmp(em, 0)
    /\ Leaf(NoReg)
    /\ NoError /\ UNCHANGED <<Points, Regs, Names, Consts>>

gen_break(n) ==
    /\ AtStmt(n, "Break") /\ lex.in_loop
    /\ break_points' = break_points \cup {tagging}
    /\ em' = emit_jmp(em, 0)
    /\ Leaf(NoReg)
    /\ NoError /\ UNCHANGED <<continue_points, Regs, Names, Consts>>

gen_continue(n) ==
    /\ AtStmt(n, "Continue") /\ lex.in_loop
    /\ continue_points' = continue_points \cup {tagging}
    /\ em' = emit_jmp(em, 0)
    /\ Leaf(NoReg)
    /\ NoError /\ UNCHANGED <<break_points, Regs, Names, Consts>>

-----------------------------------------------------------------------------
(* Functions. *)

Param(n, x) == {i \in 1 .. Len(n.params) : n.params[i] = x}
First(S) == CHOOSE i \in S : \A j \in S : i <= j
Final(S) == CHOOSE i \in S : \A j \in S : j <= i

\* mutant: parameters are not mutable
ParamFrame_const(n) ==
    [locals |-> [x \in Vars |-> IF Param(n, x) = {} THEN NoVar
                                ELSE [mut |-> FALSE, addr |-> First(Param(n, x)) - 1]],
     local_count |-> IF n.params = <<>> THEN -1
                     ELSE Final({First(Param(n, n.params[i])) :
                                    i \in 1 .. Len(n.params)}) - 1]

\* the frame of a function, its parameters mutable in the first slots; a
\* repeated name is an error and keeps its first slot
ParamFrame(n) ==
    [locals |-> [x \in Vars |-> IF Param(n, x) = {} THEN NoVar
                                ELSE [mut |-> TRUE, addr |-> First(Param(n, x)) - 1]],
     local_count |-> IF n.params = <<>> THEN -1
                     ELSE Final({First(Param(n, n.params[i])) :
                                    i \in 1 .. Len(n.params)}) - 1]

\* mutant: the registers of the arguments are counted from 1
emit_params_late(e, n) ==
    [ops |-> e.ops \o [i \in 1 .. Len(n.params) |->
                Op("LOCAL_SET", <<0, i - 1, REG_COUNT_INDEX_MAX - i>>)],
     ret_type |-> IF n.params = <<>> THEN e.ret_type ELSE "Addr"]

\* every argument is stored from its register into its slot
emit_params(e, n) ==
    [ops |-> e.ops \o [i \in 1 .. Len(n.params) |->
                Op("LOCAL_SET", <<0, i - 1, REG_COUNT_INDEX_MAX - (i - 1)>>)],
     ret_type |-> IF n.params = <<>> THEN e.ret_type ELSE "Addr"]

gen_function(n) ==
    /\ AtStmt(n, "Func")
    /\ LET created == emit_func_create(em)
       IN  /\ em' = emit_params(created, n)
           /\ funcs' = IF funcs[n.name] = NoFunc
                       THEN [funcs EXCEPT ![n.name] = [argc |-> Len(n.params),
                                                       addr |-> Emitted(created)]]
                       ELSE funcs
    /\ cur' = Append(cur, ParamFrame(n))
    /\ Error(\/ funcs[n.name] # NoFunc
             \/ \E i \in 1 .. Len(n.params) :
                    \/ Found(n.params[i])
                    \/ Param(n, n.params[i]) # {i})
    /\ todo' = todo \o <<[fn |-> "function"],
                         [Block EXCEPT !.scoped = FALSE]>>
    /\ mode' = "stmt"
    /\ lex' = [lex EXCEPT !.in_func = TRUE]
    /\ UNCHANGED <<ret, Regs, Points, Consts>>

function_done ==
    /\ Awaiting("function")
    /\ em' = emit_func_end(emit_fret(em))
    /\ cur' = SubSeq(cur, 1, Len(cur) - 1)
    /\ lex' = [lex EXCEPT !.in_func = FALSE]
    /\ Leave(NoReg)
    /\ NoError /\ UNCHANGED <<Regs, funcs, Points, Consts>>

-----------------------------------------------------------------------------
(* Modules: a library is loaded into a variable named like the module, its *)
(* functions are announced one by one.                                     *)

\* cur_module is read once, at its end, and takes no more text after that:
\* every later module is taken for a part of the first
ModuleName(n) == IF modules.current = "" THEN n.name
                 ELSE modules.current \o "." \o n.name

\* new_var(name, false) when the name may exist: a slot is used up anyway
Redefined(x) == cur[Len(cur)].locals[x].addr # NoSlot
module_var(x) ==
    IF Redefined(x) THEN [cur[Len(cur)] EXCEPT !.local_count = @ + 1]
                    ELSE new_var(cur[Len(cur)], x, FALSE)

\* mutant: the register of the library's name is given back
Named_released(bits) == Freed(Taken(bits), alloc(bits))
\* the register of the library's name stays in use
Named(bits) == Taken(bits)

\* the register that gen_string returns, less one, is taken for the place of
\* the name in the pool
gen_module(n) ==
    /\ AtStmt(n, "Module") /\ n.name \notin modules.names
    /\ LET tmp == ModuleName(n)
           frame == module_var(tmp)
           r == alloc(bitset)
           named == emit_mov_rc(em, r, pool.size)
           loaded == emit_vmc(emit_mov_rc(named, REG_COUNT_INDEX_MAX, r - 1), 3)
           name == [at |-> pool.size, is |-> n.lib]
       IN  /\ em' = emit_local_set(IF n.dyn THEN loaded ELSE em,
                                   Len(cur) - 1, frame.local_count, 0)
           /\ pool' = IF n.dyn THEN Inserted(pool, Len(n.lib) + 1, {name}) ELSE pool
           /\ bitset' = IF n.dyn THEN Named(bitset) ELSE bitset
           /\ cur' = SetBack(frame)
           /\ modules' = [modules EXCEPT !.names = @ \cup {tmp},
                            !.current = IF @ = "" THEN tmp ELSE @]
           /\ Push([fn |-> "module", mod |-> tmp, decls |-> n.decls, next |-> 1])
           /\ mode' = "ret" /\ ret' = NoReg
           /\ Error(Redefined(tmp))
    /\ UNCHANGED <<expr_release, funcs, lex, Points>>

\* a module of this name was generated already
gen_module_again(n) ==
    /\ AtStmt(n, "Module") /\ n.name \in modules.names
    /\ Leaf(NoReg)
    /\ NoError /\ UNCHANGED <<em, Regs, Names, Points, Consts>>

\* the arguments of dyn_set, for the next function of the module
Announced(e, mod, d) ==
    LET label == pool.size
        types == label + Len(d.label) + 1
        got == emit_local_get(e, REG_COUNT_INDEX_MAX, Distance(mod), find_var(mod).addr)
        name == emit_mov_rc(got, REG_COUNT_INDEX_MAX - 1, label)
        args == emit_mov_rc(name, REG_COUNT_INDEX_MAX - 2, types)
        count == emit_mov_ri(args, REG_COUNT_INDEX_MAX - 3, d.argc)
        result == emit_mov_rc(count, REG_COUNT_INDEX_MAX - 4, types + Len(d.types))
    IN  emit_vmc(result, 4)

\* push_back, one type after the other: the capacity doubles when it is used up
Pushed(p, cells) ==
    LET size == p.size + Cardinality(cells)
        caps == {p.cap * 2 ^ i : i \in 0 .. Cardinality(cells)}
    IN  [size |-> size,
         cap |-> CHOOSE c \in caps : c >= size /\ \A d \in caps : d >= size => c <= d,
         cells |-> p.cells \cup cells]

\* mutant: the place of the types for the place of the name
Entry_types(mod, d) == [name |-> mod \o "." \o d.name, mod |-> mod,
                        argc |-> Len(d.types), addr |-> pool.size + Len(d.label) + 1]

\* what the table of extern functions gets for a function of the module
Entry(mod, d) == [name |-> mod \o "." \o d.name, mod |-> mod, argc |-> Len(d.types),
                  addr |-> pool.size]

module_func ==
    /\ Awaiting("module") /\ Top.next <= Len(Top.decls)
    /\ Top.decls[Top.next].ret # "none"
    /\ LET d == Top.decls[Top.next]
           label == [at |-> pool.size, is |-> d.label]
           types == pool.size + Len(d.label) + 1
           kinds == {[at |-> types + i - 1, is |-> Append(d.types, d.ret)[i]] :
                        i \in 1 .. Len(d.types) + 1}
           entry == Entry(Top.mod, d)
       IN  /\ em' = Announced(em, Top.mod, d)
           /\ pool' = Pushed(Inserted(pool, Len(d.label) + 1, {label}), kinds)
           /\ modules' = [modules EXCEPT !.externs =
                             {x \in @ : x.name # entry.name} \cup {entry}]
    /\ todo' = Append(Below, [Top EXCEPT !.next = @ + 1])
    /\ NoError /\ UNCHANGED <<mode, ret, Regs, Names, Points>>

\* without a type of the result the node of that type is null
module_func_null ==
    /\ Awaiting("module") /\ Top.next <= Len(Top.decls)
    /\ Top.decls[Top.next].ret = "none"
    /\ mode' = "crash"
    /\ NoError /\ UNCHANGED <<todo, ret, em, Regs, Names, Points, Consts>>

module_done ==
    /\ Awaiting("module") /\ Top.next > Len(Top.decls)
    /\ Leave(NoReg)
    /\ NoError /\ UNCHANGED <<em, Regs, Names, Points, Consts>>

-----------------------------------------------------------------------------
\* sub_gen(n)
Visit(n) ==
    \/ gen_num(n) \/ gen_bool(n) \/ gen_string(n) \/ gen_var_ref(n)
    \/ gen_unary(n) \/ gen_binary(n) \/ gen_func_call(n) \/ gen_vmc(n)
    \/ gen_assign(n) \/ gen_return(n) \/ gen_null(n) \/ gen_if(n) \/ gen_loop(n)
    \/ gen_break(n) \/ gen_continue(n) \/ gen_function(n)
    \/ gen_block_end(n) \/ gen_program_end(n)
    \/ gen_module(n) \/ gen_module_again(n)

\* an activation continues with the result of its sub_gen
Resume ==
    \/ unary_done \/ binary_left \/ binary_right \/ binary_pipe \/ arg_done
    \/ child_done \/ assign_done \/ define_done \/ return_done
    \/ if_cond \/ if_then \/ if_else \/ loop_cond \/ loop_done \/ function_done
    \/ module_func \/ module_func_null \/ module_done

Finished == mode \in {"done", "crash"} /\ UNCHANGED gvars

Next == (\E n \in Nodes : Visit(n)) \/ Resume \/ Finished

Spec == Init /\ [][Next]_gvars

-----------------------------------------------------------------------------
Slots == Nat \cup {NoSlot}
Locals == [Vars -> [mut : BOOLEAN, addr : Slots]]
CompilingFrames == [locals : Locals, local_count : Slots]
MaybeRegs == 0 .. REG_COUNT - 1 \cup {NoReg}

PendingCalls == [by : {"vmc", "fcall"}, target : Nat, argc : Nat]
                \cup [by : {"extern"}, target : Nat, argc : Nat, mod : Vars]

\* The activations by what they will do with the value they wait for: operate
\* on it, use it up in a statement, or nothing (it is the end of a body).
Operating ==
    [fn : {"unary"}]
    \cup [fn : {"left"}, node : OperatorNodes, tmp : MaybeRegs]
    \cup [fn : {"right"}, op : Ternary, lr : MaybeRegs]
    \cup [fn : {"args"}, next : Nat, count : Nat, call : PendingCalls, pipe : BOOLEAN]
Using ==
    [fn : {"return", "loop_cond"}]
    \cup [fn : {"assign"}, name : Vars, fst : Nat]
    \cup [fn : {"define"}, name : Vars, mut : BOOLEAN]
    \cup [fn : {"if_cond"}, has_else : BOOLEAN]
Holding ==
    [fn : {"program", "function"}]
    \cup [fn : {"block"}, scoped : BOOLEAN, save : Locals]
    \cup [fn : {"if_then"}, cond : MaybeRegs, els : Nat, has_else : BOOLEAN]
    \cup [fn : {"if_else"}, cond : MaybeRegs, then_end : Nat]
    \cup [fn : {"loop"}, cond : MaybeRegs, start : Nat]
    \cup [fn : {"module"}, mod : Vars, decls : Seq(Declarations), next : Nat \ {0}]
Activations == Operating \cup Using \cup Holding

TypeOK ==
    /\ mode \in {"expr", "stmt", "ret", "done", "crash"}
    /\ todo \in Seq(Activations) /\ todo # <<>> /\ todo[1].fn = "program"
    /\ ret \in MaybeRegs
    /\ em \in [ops : Seq(Instructions), ret_type : Ret_Type]
    /\ bitset \subseteq 0 .. REG_COUNT - 1 /\ 0 \in bitset
    /\ expr_release \in BOOLEAN /\ node_has_error \in BOOLEAN
    /\ cur \in Seq(CompilingFrames) /\ cur # <<>>
    /\ funcs \in [Funcs -> [argc : Nat \cup {-1}, addr : Nat]]
    /\ break_points \cup continue_points \subseteq 0 .. Emitted(em) - 1
    /\ pool.size \in Nat /\ pool.cap \in Nat /\ pool.size <= pool.cap
    /\ DOMAIN modules = {"names", "current", "externs"} /\ modules.names \subseteq Vars
    /\ \A e \in modules.externs :
          e.mod \in modules.names /\ e.argc \in Nat /\ e.addr \in 0 .. pool.size - 1
    /\ lex \in [in_func : BOOLEAN, in_loop : BOOLEAN]

\* The registers that an activation reads, or gives back, when it resumes;
\* register 0 holds results and is never owned.
Owned(a) ==
    (CASE a.fn = "left" -> {a.tmp}
       [] a.fn = "right" -> {a.lr}
       [] a.fn \in {"if_then", "if_else", "loop"} -> {a.cond}
       [] OTHER -> {}) \ {0, NoReg}

Result == IF mode = "ret" THEN {ret} \ {0, NoReg} ELSE {}

\* A temporary is never handed out twice: what suspended activations and the
\* value just computed live in is marked in the bitset, each in a register of
\* its own, whatever was released early (expr_release is a flag of the whole
\* generator, left over from any earlier expression) or leaked.
LiveRegisters ==
    /\ \A i \in 1 .. Len(todo) : Owned(todo[i]) \cup Result \subseteq bitset
    /\ \A i \in 1 .. Len(todo) : Owned(todo[i]) \cap Result = {}
    /\ \A i, j \in 1 .. Len(todo) :
            i # j => Owned(todo[i]) \cap Owned(todo[j]) = {}

\* the register an instruction writes
Writes(i) == IF i.op \in Ternary \cup {"MOV_RI", "MOV_RR", "MOV_RC",
                                       "LOCAL_GET", "DEC"}
             THEN {i.operands[1]} ELSE {}

Rewritten == {k \in 1 .. Emitted(em) : em'.ops[k] # em.ops[k]}
Appended == Emitted(em) + 1 .. Len(em'.ops)
Suspended == {i \in 1 .. Len(todo) : i <= Len(todo') /\ todo'[i] = todo[i]}

\* Code emitted for a subexpression, a body or an argument, and code that the
\* peephole redirects, never writes a register that an enclosing operation,
\* condition or loop still needs.
HeldNotOverwritten ==
    [][\A k \in Rewritten \cup Appended, i \in Suspended :
            Writes(em'.ops[k]) \cap Owned(todo[i]) = {}]_gvars

Jumps == {"JMP", "IF_TRUE", "IF_FALSE"}
JumpsAt == {k \in 1 .. Emitted(em) : em.ops[k].op \in Jumps}
Target(k) == em.ops[k].operands[Arity(em.ops[k].op)]

\* the addresses control can come to from elsewhere
Labels == {Target(k) : k \in JumpsAt}
          \cup {todo[i].start : i \in {j \in 1 .. Len(todo) : todo[j].fn = "loop"}}
          \cup {funcs[f].addr : f \in Funcs}

\* emit_mov_rr may change an instruction that is already there only if that
\* instruction is the last one, computes a register, and nothing jumps in
\* between it and the move it stands for; all other changes are jumps that
\* get their target.  (After an error the code is never run; a call of an
\* undeclared function emits nothing, and the return before it is changed.)
PeepholeSafe ==
    [][~node_has_error => \A k \in Rewritten :
          \/ k \in JumpsAt /\ em'.ops[k].op = em.ops[k].op
          \/ /\ k = Emitted(em) /\ k \notin Labels
             /\ Writes(em.ops[k]) # {}
             /\ em'.ops[k] = [em.ops[k] EXCEPT !.operands[1] =
                                                em'.ops[k].operands[1]]]_gvars

\* Every call in the code, at any time, enters a declared function right
\* behind its FUNC_CREATE with as many arguments as it stores into its frame.
CallsEnterFunctions ==
    \A k \in 1 .. Emitted(em) : em.ops[k].op = "FCALL" =>
        LET entry == em.ops[k].operands[1]
            argc == em.ops[k].operands[2]
        IN  /\ \E f \in Funcs : funcs[f] = [argc |-> argc, addr |-> entry]
            /\ em.ops[entry].op = "FUNC_CREATE"
            /\ \A i \in 1 .. argc :
                  em.ops[entry + i] =
                      Op("LOCAL_SET", <<0, i - 1, REG_COUNT_INDEX_MAX - (i - 1)>>)

\* When the program is complete, no break or continue waits for its target,
\* every jump stays inside the code, conditional jumps skip forward, and the
\* stretches that the jumps back repeat are nested: a jump left without its
\* target goes back to 0 and cuts across a loop.
JumpsResolved ==
    mode = "done" =>
        /\ break_points = {} /\ continue_points = {}
        /\ \A k \in JumpsAt :
              /\ Target(k) \in 0 .. Emitted(em) - 1
              /\ em.ops[k].op # "JMP" => Target(k) >= k
        /\ \A j, k \in {i \in JumpsAt : Target(i) < i} :
              j < k => Target(k) \notin Target(j) + 1 .. j - 1

\* The visible variables of a function live in slots of their own, all of
\* them handed out already.
DistinctSlots ==
    \A f \in 1 .. Len(cur) : \A x, y \in Vars :
        LET a == cur[f].locals[x].addr
            b == cur[f].locals[y].addr
        IN  a # NoSlot => a <= cur[f].local_count /\ (a = b => x = y)

\* They go on living apart, in spite of the names that come and go with the
\* blocks of all the functions under way while local_count only grows.  Only
\* an assignment that takes another frame for the variable's can give the
\* slot of one variable to a second one.
SlotsStayApart ==
    [][DistinctSlots =>
          \/ DistinctSlots'
          \/ Awaiting("assign") /\ FrameOf(Top.name) # Top.fst + 1]_gvars

\* What find_var promises its callers: the pair it returns tells where the
\* variable is.  An assignment then stores into the slot of the variable that
\* the name refers to.
AssignsFoundVariable ==
    [][Awaiting("assign") /\ Len(todo') < Len(todo) =>
          em'.ops[Len(em'.ops)] =
             Op("LOCAL_SET", <<Top.fst, find_var(Top.name).addr, Narrow(ret)>>)]_gvars
=============================================================================
