---------------------------- MODULE SessionProofs ----------------------------
(***************************************************************************)
(* An interactive session: what the proofs about the generator show of one *)
(* compilation holds of one that never ends, whose code is run, stripped   *)
(* of its HALT and added to, line after line; every line is executed, and  *)
(* the code that the machine is past stays what it was.                    *)
(***************************************************************************)
EXTENDS Session, CodeProofs

\* e is d with a HALT behind it.
Closes(d, e) ==
    /\ d \in Emitters /\ e \in Emitters /\ e.ret_type = d.ret_type
    /\ \E i \in Instructions : i.op = "HALT" /\ Longer(d, e, i)

\* Between the lines nothing is suspended; a line that runs ends with its HALT.
Phases ==
    /\ phase \in {"prompt", "gen", "run"}
    /\ phase # "gen" => Len(todo) = 1
    /\ phase = "run" => RegLast(HaltOff(em)) /\ Closes(HaltOff(em), em)

\* Where the machine waits while a line is read and compiled, and where it is
\* when it stopped.
Placed ==
    /\ phase # "run" => pc \in 0 .. Emitted(em)
    /\ phase = "run" /\ status = "halted" =>
          pc \in 0 .. Emitted(em) - 1 /\ em.ops[pc + 1].op = "HALT"

\* The inductive invariant of sessions.
SessionInv == TypeInv /\ CallInv /\ Phases /\ Placed

-----------------------------------------------------------------------------
(* The HALT of a line.                                                     *)

\* gen appends it,
LEMMA HaltAppended ==
    ASSUME NEW e \in Emitters
    PROVE  Closes(e, [e EXCEPT !.ops = Append(@, Op("HALT", <<0>>))])
<1> DEFINE f == emit(e, "HALT", <<0>>, e.ret_type)
<1>1. f = [e EXCEPT !.ops = Append(@, Op("HALT", <<0>>))] /\ f.ret_type = e.ret_type
  <2>1. e = [ops |-> e.ops, ret_type |-> e.ret_type]
    BY DEF Emitters
  <2>2. \A x : [e EXCEPT !.ops = x] = [ops |-> x, ret_type |-> e.ret_type]
    BY <2>1
  <2> QED
    BY <2>2 DEF emit
<1>2. <<0>> \in Seq(Int) /\ Len(<<0>>) = 1 /\ e.ret_type \in Ret_Type
  BY DEF Emitters
<1>3. f \in Emitters /\ Longer(e, f, Op("HALT", <<0>>))
  BY <1>2, Arities, EmitType
<1>4. Op("HALT", <<0>>) \in Instructions /\ Op("HALT", <<0>>).op = "HALT"
  BY <1>2, Arities DEF Instructions, Op
<1> HIDE DEF f
<1> QED
  BY <1>1, <1>3, <1>4 DEF Closes

\* and run_repl takes it off again.
LEMMA HaltTaken ==
    ASSUME NEW d, NEW e, Closes(d, e)
    PROVE  HaltOff(e) = d
<1>1. /\ d.ops \in Seq(Instructions) /\ e.ops \in Seq(Instructions)
      /\ d = [ops |-> d.ops, ret_type |-> d.ret_type]
      /\ e = [ops |-> e.ops, ret_type |-> e.ret_type]
      /\ e.ret_type = d.ret_type /\ Len(e.ops) = Len(d.ops) + 1 /\ Len(d.ops) \in Nat
      /\ e.ops[Len(e.ops)].op = "HALT"
      /\ \A k \in 1 .. Len(d.ops) : e.ops[k] = d.ops[k]
  BY DEF Closes, Emitters, Longer, Emitted
<1>2. SubSeq(e.ops, 1, Len(e.ops) - 1) = d.ops
  <2>1. Len(e.ops) - 1 = Len(d.ops)
    BY <1>1
  <2>2. /\ SubSeq(e.ops, 1, Len(d.ops)) \in Seq(Instructions)
        /\ Len(SubSeq(e.ops, 1, Len(d.ops))) = Len(d.ops)
        /\ \A k \in 1 .. Len(d.ops) : SubSeq(e.ops, 1, Len(d.ops))[k] = e.ops[k]
    BY <1>1
  <2> QED
    BY <1>1, <2>1, <2>2
<1>3. [e EXCEPT !.ops = SubSeq(@, 1, Len(@) - 1)] = [ops |-> d.ops, ret_type |-> e.ret_type]
  BY <1>1, <1>2
<1> QED
  BY <1>1, <1>3 DEF HaltOff, Last, Emitted

\* With a HALT behind it code keeps what the generator's proofs say of it,
LEMMA CallInvCloses ==
    ASSUME CallInv, Closes(em, em'), UNCHANGED <<todo, funcs, Points>>
    PROVE  CallInv' /\ Preserved(em, em', {})
<1>1. PICK i \in Instructions : i.op = "HALT" /\ Longer(em, em', i)
  BY DEF Closes
<1>2. /\ Emitted(em) \in Nat /\ Emitted(em') = Emitted(em) + 1 /\ em'.ops[Emitted(em')] = i
      /\ \A k \in 1 .. Emitted(em) : em'.ops[k] = em.ops[k]
      /\ \A k \in 1 .. Emitted(em') : k > Emitted(em) => k = Emitted(em')
  BY <1>1 DEF Longer
<1>3. RegLast(em)' /\ RegLast(em')
  BY <1>1, <1>2 DEF RegLast, Retargetable, Emitted
<1>4. Preserved(em, em', {})
  BY <1>1, <1>2, <1>3 DEF Preserved, Closes
<1>5. Pending' = Pending /\ Entered' = Entered
  BY DEF Pending, Points, Waits, Elements, Entered
<1>6. PendingJumps'
  <2>1. ASSUME NEW p \in Pending
        PROVE  /\ p \in 0 .. Emitted(em') - 1
               /\ em'.ops[p + 1] = em.ops[p + 1]
    BY <1>2, <2>1 DEF CallInv, PendingJumps
  <2>2. break_points' \cup continue_points' = break_points \cup continue_points
        /\ break_points \cup continue_points \subseteq Pending
    BY DEF Points, Pending
  <2> QED
    BY <1>5, <2>1, <2>2 DEF CallInv, PendingJumps, Emitted
<1>7. CallsNamed'
  BY <1>5 DEF CallInv, CallsNamed
<1>8. FunctionsEntered'
  BY <1>4, StoresStay DEF CallInv, FunctionsEntered
<1>9. CallsRefer'
  <2>1. ASSUME NEW k \in 1 .. Emitted(em'), em'.ops[k].op = "FCALL"
        PROVE  em'.ops[k].operands \in Entered
    <3>1. k # Emitted(em')
      BY <1>1, <1>2, <2>1
    <3>2. k \in 1 .. Emitted(em) /\ em'.ops[k] = em.ops[k]
      BY <1>2, <2>1, <3>1
    <3> QED
      BY <2>1, <3>2 DEF CallInv, CallsRefer
  <2> QED
    BY <1>5, <2>1 DEF CallsRefer, Emitted
<1> QED
  BY <1>3, <1>4, <1>6, <1>7, <1>8, <1>9 DEF CallInv

\* and without it: no jump waits there, and no function ends there.
LEMMA CallInvOpens ==
    ASSUME CallInv, Closes(em', em), RegLast(em'), UNCHANGED <<todo, funcs, Points>>
    PROVE  CallInv'
<1>1. PICK i \in Instructions : i.op = "HALT" /\ Longer(em', em, i)
  BY DEF Closes
<1>2. /\ Emitted(em') \in Nat /\ Emitted(em) = Emitted(em') + 1 /\ em.ops[Emitted(em)] = i
      /\ \A k \in 1 .. Emitted(em') : em'.ops[k] = em.ops[k]
      /\ \A k \in 1 .. Emitted(em) : em.ops[k].op # "HALT" => k \in 1 .. Emitted(em')
  BY <1>1 DEF Longer
<1>3. RegLast(em)'
  BY DEF RegLast, Emitted
<1>5. Pending' = Pending /\ Entered' = Entered
  BY DEF Pending, Points, Waits, Elements, Entered
<1>6. PendingJumps'
  <2>1. ASSUME NEW p \in Pending
        PROVE  /\ p \in 0 .. Emitted(em') - 1
               /\ em'.ops[p + 1] = em.ops[p + 1]
    <3>1. p \in 0 .. Emitted(em) - 1 /\ em.ops[p + 1].op \in Jumps
      BY DEF CallInv, PendingJumps
    <3>2. p + 1 \in 1 .. Emitted(em) /\ em.ops[p + 1].op # "HALT"
      BY <1>2, <3>1 DEF Jumps
    <3>3. p + 1 \in 1 .. Emitted(em')
      BY <1>2, <3>2
    <3> QED
      BY <1>2, <3>1, <3>3
  <2>2. break_points' \cup continue_points' = break_points \cup continue_points
        /\ break_points \cup continue_points \subseteq Pending
    BY DEF Points, Pending
  <2> QED
    BY <1>5, <2>1, <2>2 DEF CallInv, PendingJumps, Emitted
<1>7. CallsNamed'
  BY <1>5 DEF CallInv, CallsNamed
<1>8. FunctionsEntered'
  <2>1. ASSUME NEW entry, NEW argc, Stores(em, entry, argc)
        PROVE  Stores(em', entry, argc)
    <3>1. /\ entry \in 1 .. Emitted(em) /\ argc \in Nat /\ entry + argc <= Emitted(em)
          /\ em.ops[entry].op = "FUNC_CREATE"
          /\ \A j \in 1 .. argc : em.ops[entry + j] =
                Op("LOCAL_SET", <<0, j - 1, REG_COUNT_INDEX_MAX - (j - 1)>>)
      BY <2>1 DEF Stores
    <3>2. ASSUME NEW j \in 1 .. argc
          PROVE  entry + j \in 1 .. Emitted(em') /\ em'.ops[entry + j] = em.ops[entry + j]
      <4>1. entry + j \in 1 .. Emitted(em)
        BY <1>2, <3>1
      <4>2. \A a : Op("LOCAL_SET", a).op # "HALT"
        BY DEF Op
      <4>3. em.ops[entry + j].op # "HALT"
        BY <3>1, <4>2
      <4> QED
        BY <1>2, <4>1, <4>3
    <3>3. entry \in 1 .. Emitted(em') /\ em'.ops[entry] = em.ops[entry]
      BY <1>2, <3>1
    <3>4. entry + argc <= Emitted(em')
      <4>1. CASE argc = 0
        BY <3>1, <3>3, <4>1
      <4>2. CASE argc # 0
        BY <3>1, <3>2, <4>2
      <4> QED
        BY <4>1, <4>2
    <3> QED
      BY <3>1, <3>2, <3>3, <3>4 DEF Stores
  <2> QED
    BY <2>1 DEF CallInv, FunctionsEntered
<1>9. CallsRefer'
  BY <1>2, <1>5 DEF CallInv, CallsRefer, Emitted
<1> QED
  BY <1>3, <1>6, <1>7, <1>8, <1>9 DEF CallInv

-----------------------------------------------------------------------------
(* The steps of a session.                                                 *)

\* The generator's variables but those that a line read or refused changes.
LEMMA PromptTypes ==
    ASSUME TypeInv, Len(todo) = 1, UNCHANGED <<todo, ret, em, bitset, expr_release, cur, funcs>>,
           UNCHANGED <<Points, Consts>>,
           mode' \in {mode, "stmt"}, node_has_error' \in BOOLEAN,
           lex' \in [in_func : BOOLEAN, in_loop : BOOLEAN]
    PROVE  TypeInv'
<1>1. TypeOK /\ Nested /\ InStep /\ ModulesNamed
  BY DEF TypeInv
<1>2. todo[1].fn = "program" /\ Top.fn = "program" /\ Top' = Top
  BY <1>1 DEF TypeOK, Top
<1>3. TypeOK'
  BY <1>1 DEF TypeOK, Points, Consts, Emitted
<1>4. Nested'
  BY <1>1, <1>2 DEF Nested
<1>5. InStep'
  BY <1>1 DEF InStep, Depth, FunctionsIn
<1>6. ModulesNamed'
  BY <1>1, <1>2 DEF ModulesNamed, Consts
<1> QED
  BY <1>3, <1>4, <1>5, <1>6 DEF TypeInv

\* Other code and fewer registers in use.
LEMMA CodeTypes ==
    ASSUME TypeInv, PendingJumps', em' \in Emitters, bitset' \in Bitsets,
           UNCHANGED <<mode, todo, ret, expr_release, node_has_error>>,
           UNCHANGED <<Names, Points, Consts>>
    PROVE  TypeInv'
<1>1. TypeOK /\ Nested /\ InStep /\ ModulesNamed
  BY DEF TypeInv
<1>2. break_points' \cup continue_points' \subseteq 0 .. Emitted(em') - 1
  BY DEF PendingJumps, Pending, Emitted
<1>3. TypeOK'
  BY <1>1, <1>2 DEF TypeOK, Names, Points, Consts, Emitters, Bitsets, Emitted
<1>4. Nested'
  BY <1>1 DEF Nested, Top
<1>5. InStep'
  BY <1>1 DEF InStep, Depth, FunctionsIn, Names
<1>6. ModulesNamed'
  <2>1. /\ modules' = modules /\ todo' = todo /\ mode' = mode
        /\ \A x : Found(x)' <=> Found(x)
    BY DEF Names, Consts, Found, Defining
  <2> QED
    BY <1>1, <2>1 DEF ModulesNamed
<1> QED
  BY <1>3, <1>4, <1>5, <1>6 DEF TypeInv

\* The machine stops in status "halted" only at a HALT.
LEMMA Stops ==
    ASSUME Machine!ForeignRun, status' = "halted"
    PROVE  pc' = pc /\ pc \in 0 .. Emitted(em) - 1 /\ em.ops[pc + 1].op = "HALT"
<1>1. ASSUME Machine!Run
      PROVE  Machine!Halt
  <2>1. ASSUME NEW o, Machine!Ready(o)
        PROVE  status = "running"
    BY <2>1 DEF Machine!Ready, Machine!At
  <2>2. ASSUME UNCHANGED status
        PROVE  ~Machine!Compute /\ ~Machine!Branch /\ ~Machine!LocalSet /\ ~Machine!VmcOut
               /\ ~Machine!FCall /\ ~Machine!FRet
    BY <2>1, <2>2
       DEF Machine!Compute, Machine!Branch, Machine!LocalSet, Machine!VmcOut, Machine!FCall,
           Machine!FRet, Machine!MovRI, Machine!MovRR, Machine!MovRC, Machine!Dec,
           Machine!Arithmetic, Machine!Power, Machine!Comparison, Machine!Connective,
           Machine!LocalGet, Machine!VmcIn, Machine!Jmp, Machine!IfTrue, Machine!IfFalse,
           Machine!FuncCreate, Machine!Skip
  <2>3. UNCHANGED status \/ Machine!Stop
    BY <1>1
       DEF Machine!Run, Machine!Compute, Machine!Branch, Machine!LocalSet, Machine!VmcOut,
           Machine!FCall,
           Machine!FRet, Machine!MovRI, Machine!MovRR, Machine!MovRC, Machine!Dec,
           Machine!Arithmetic, Machine!Power, Machine!Comparison, Machine!Connective,
           Machine!LocalGet, Machine!VmcIn, Machine!Jmp, Machine!IfTrue, Machine!IfFalse,
           Machine!FuncCreate, Machine!Skip, Machine!OnlyRegs, Machine!OnlyPc
  <2>4. Machine!Stop
    BY <1>1, <2>2, <2>3 DEF Machine!Run
  <2> QED
    BY <2>4 DEF Machine!Stop, Machine!VmcExit, Machine!VmcForeign, Machine!Undefined,
                Machine!Fault
<1>2. Machine!Run
  BY DEF Machine!ForeignRun, Machine!DynLoad, Machine!DynSet, Machine!DynCall,
         Machine!DynUndefined, Machine!Resumed, Machine!Exits
<1>3. Machine!Halt
  BY <1>1, <1>2
<1> QED
  BY <1>3 DEF Machine!Halt, Machine!Ready, Machine!At, Machine!InProgram, Machine!Fetch, Emitted

\* The steps that compile are steps of the generator; none ends the program.
LEMMA Compiling ==
    ASSUME (\E n \in Nodes : CompileNode(n)) \/ CompileResume
    PROVE  /\ GeneratorStep /\ mode' # "done"
           /\ phase = "gen" /\ UNCHANGED <<read, phase, shown, mvars>>
<1>1. ASSUME NEW n \in Nodes, CompileNode(n)
      PROVE  Visit(n) /\ mode' # "done"
  <2>1. Visit(n) /\ (Top.fn = "program" => n.kind # "End")
    BY <1>1 DEF CompileNode
  <2>2. ~gen_program_end(n)
    BY <2>1 DEF gen_program_end, AtStmt
  <2> QED
    BY <2>1, <2>2, DoneVisit
<1>2. ASSUME CompileResume
      PROVE  Resume /\ mode' # "done"
  BY <1>2, DoneResume DEF CompileResume
<1>3. phase = "gen" /\ UNCHANGED <<read, phase, shown, mvars>>
  BY DEF CompileNode, CompileResume
<1> QED
  BY <1>1, <1>2, <1>3 DEF GeneratorStep

\* What the proofs about the code speak of stays.
LEMMA CallInvSame ==
    ASSUME CallInv, UNCHANGED <<em, todo, funcs, Points>>
    PROVE  CallInv'
<1>1. Entered' = Entered /\ Pending' = Pending
  BY DEF Entered, Pending, Waits, Elements, Points
<1> QED
  BY <1>1 DEF CallInv, RegLast, Emitted, PendingJumps, CallsNamed, FunctionsEntered, CallsRefer,
              Points

(* Every step of a session preserves its invariant. *)
LEMMA SessionStep ==
    ASSUME SessionInv, [SNext]_svars
    PROVE  SessionInv'
<1>1. /\ TypeInv /\ TypeOK /\ CallInv /\ Phases /\ Placed
      /\ em \in Emitters /\ Emitted(em) \in Nat /\ ret \in MaybeRegs /\ bitset \in Bitsets
      /\ lex \in [in_func : BOOLEAN, in_loop : BOOLEAN] /\ node_has_error \in BOOLEAN
  <2>1. TypeInv /\ TypeOK /\ CallInv /\ Phases /\ Placed
    BY DEF SessionInv, TypeInv
  <2>2. em \in Emitters /\ ret \in MaybeRegs /\ bitset \in Bitsets
    BY <2>1, TopType DEF TypeOK, Emitters
  <2>3. lex \in [in_func : BOOLEAN, in_loop : BOOLEAN] /\ node_has_error \in BOOLEAN
    BY <2>1 DEF TypeOK
  <2> QED
    BY <2>1, <2>2, <2>3 DEF Emitters, Emitted
<1>2. CASE ReadLine \/ AskLine \/ \E in_func, in_loop \in BOOLEAN : RefuseLine(in_func, in_loop)
  <2>1. phase = "prompt" /\ Len(todo) = 1 /\ lex \in [in_func : BOOLEAN, in_loop : BOOLEAN]
    BY <1>1, <1>2 DEF ReadLine, AskLine, RefuseLine, Phases, TypeOK
  <2>2. /\ UNCHANGED <<todo, ret, em, bitset, expr_release, cur, funcs, Points, Consts, mvars>>
        /\ mode' \in {mode, "stmt"} /\ node_has_error' \in BOOLEAN
        /\ lex' \in [in_func : BOOLEAN, in_loop : BOOLEAN]
        /\ phase' \in {"prompt", "gen"}
    <3>1. CASE ReadLine
      <4>1. /\ mode' = "stmt" /\ phase' = "gen" /\ node_has_error' = FALSE
            /\ UNCHANGED <<todo, ret, em, Regs, Names, Points, Consts, shown, mvars>>
        BY <3>1 DEF ReadLine
      <4>2. /\ UNCHANGED <<todo, ret, em, bitset, expr_release, cur, funcs, Points, Consts, mvars>>
            /\ UNCHANGED lex
        BY <4>1 DEF Regs, Names
      <4> QED
        BY <1>1, <4>1, <4>2
    <3>2. CASE AskLine
      <4>1. UNCHANGED <<gvars, phase, mvars>>
        BY <3>2 DEF AskLine
      <4>2. /\ UNCHANGED <<todo, ret, em, bitset, expr_release, cur, funcs, Points, Consts, mvars>>
            /\ UNCHANGED <<mode, node_has_error, lex, phase>>
        BY <4>1 DEF gvars, Points, Consts
      <4> QED
        BY <1>1, <2>1, <4>2
    <3>3. ASSUME NEW in_func \in BOOLEAN, NEW in_loop \in BOOLEAN, RefuseLine(in_func, in_loop)
          PROVE  /\ UNCHANGED <<todo, ret, em, bitset, expr_release, cur, funcs, Points, Consts>>
                 /\ UNCHANGED <<mode, node_has_error, phase, mvars>>
                 /\ lex' \in [in_func : BOOLEAN, in_loop : BOOLEAN]
      <4>1. (lex.in_func \/ in_func) \in BOOLEAN /\ (lex.in_loop \/ in_loop) \in BOOLEAN
        BY <1>1
      <4> QED
        BY <1>1, <2>1, <3>3, <4>1 DEF RefuseLine, Regs
    <3> QED
      BY <1>1, <1>2, <2>1, <3>1, <3>2, <3>3
  <2>3. TypeInv'
    BY <1>1, <2>1, <2>2, PromptTypes
  <2>4. CallInv'
    BY <1>1, <2>2, CallInvSame
  <2>5. Phases' /\ Placed'
    BY <1>1, <2>1, <2>2 DEF Phases, Placed, mvars, Emitted
  <2> QED
    BY <2>3, <2>4, <2>5 DEF SessionInv
<1>3. CASE (\E n \in Nodes : CompileNode(n)) \/ CompileResume
  <2>1. GeneratorStep /\ phase = "gen" /\ UNCHANGED <<phase, mvars>>
    BY <1>3, Compiling
  <2>2. TypeInv' /\ CallInv'
    BY <1>1, <2>1, TypeInvStep, CallInvStep DEF Next, GeneratorStep
  <2>3. Emitted(em') \in Nat /\ Emitted(em) <= Emitted(em')
    BY <1>1, <2>1, JumpsStep
  <2>4. Phases' /\ Placed'
    BY <1>1, <2>1, <2>3 DEF Phases, Placed, mvars, Emitted
  <2> QED
    BY <2>2, <2>4 DEF SessionInv
<1>4. CASE StartLine
  <2>1. /\ phase = "gen" /\ Len(todo) = 1 /\ phase' \in {"prompt", "run"}
        /\ em' = [em EXCEPT !.ops = Append(@, Op("HALT", <<0>>))]
        /\ UNCHANGED <<mode, todo, ret, bitset, expr_release, node_has_error, pc>>
        /\ UNCHANGED <<Names, Points, Consts>>
        /\ phase' = "run" => status' = "running"
    BY <1>4 DEF StartLine, LineDone, Regs
  <2>2. Closes(em, em')
    BY <1>1, <2>1, HaltAppended
  <2>3. HaltOff(em)' = em /\ em' \in Emitters
    BY <2>2, HaltTaken DEF Closes
  <2>4. CallInv' /\ Preserved(em, em', {})
    BY <1>1, <2>1, <2>2, CallInvCloses DEF Names
  <2>5. TypeInv'
    BY <1>1, <2>1, <2>3, <2>4, CodeTypes DEF CallInv
  <2>6. Phases'
    BY <1>1, <2>1, <2>2, <2>3 DEF Phases, CallInv
  <2>7. Placed'
    BY <1>1, <2>1, <2>4 DEF Placed, Preserved, Emitted
  <2> QED
    BY <2>4, <2>5, <2>6, <2>7 DEF SessionInv
<1>5. CASE Execute
  <2>1. phase = "run" /\ UNCHANGED <<gvars, phase>> /\ Machine!ForeignRun
    BY <1>5 DEF Execute
  <2>2. TypeInv' /\ CallInv'
    BY <1>1, <2>1, TypeInvStep, CallInvStep
  <2>3. UNCHANGED <<em, todo, phase>>
    BY <2>1 DEF gvars
  <2>4. Phases'
    BY <1>1, <2>3 DEF Phases, HaltOff, Last, Emitted
  <2>5. Placed'
    BY <2>1, <2>3, Stops DEF Placed, Emitted
  <2> QED
    BY <2>2, <2>4, <2>5 DEF SessionInv
<1>6. CASE ShowLine
  <2>1. /\ phase = "run" /\ status = "halted" /\ phase' = "prompt"
        /\ bitset' = Freed(bitset, ret) /\ em' = HaltOff(em)
        /\ UNCHANGED <<mode, todo, ret, expr_release, node_has_error, pc>>
        /\ UNCHANGED <<Names, Points, Consts>>
    BY <1>6 DEF ShowLine, mvars
  <2>2. Closes(em', em) /\ RegLast(em') /\ Len(todo) = 1
    BY <1>1, <2>1 DEF Phases
  <2>3. em' \in Emitters /\ Emitted(em') = Emitted(em) - 1
    BY <1>1, <2>2 DEF Closes, Longer
  <2>4. CallInv'
    BY <1>1, <2>1, <2>2, CallInvOpens DEF Names
  <2>5. bitset' \in Bitsets
    BY <1>1, <2>1, Frees
  <2>6. TypeInv'
    BY <1>1, <2>1, <2>3, <2>4, <2>5, CodeTypes DEF CallInv
  <2>7. Phases' /\ Placed'
    BY <1>1, <2>1, <2>2, <2>3 DEF Phases, Placed, Emitted
  <2> QED
    BY <2>4, <2>6, <2>7 DEF SessionInv
<1>7. CASE UNCHANGED svars
  <2>1. UNCHANGED <<gvars, phase, pc, status, em, todo>>
    BY <1>7 DEF svars, hvars, mvars, gvars
  <2>2. TypeInv' /\ CallInv'
    BY <1>1, <2>1, TypeInvStep, CallInvStep
  <2>3. Phases' /\ Placed'
    BY <1>1, <2>1 DEF Phases, Placed, HaltOff, Last, Emitted
  <2> QED
    BY <2>2, <2>3 DEF SessionInv
<1> QED
  BY <1>2, <1>3, <1>4, <1>5, <1>6, <1>7 DEF SNext

LEMMA SessionStart == SInit => SessionInv
<1> SUFFICES ASSUME SInit
             PROVE  SessionInv
  OBVIOUS
<1>1. Init /\ phase = "prompt" /\ pc = 0
  BY DEF SInit, HostInit, Machine!InitForeign, Machine!InitMachine
<1>2. TypeInv /\ CallInv
  BY <1>1, TypeInvInit, CallInvInit
<1>3. todo = <<[fn |-> "program"]>> /\ em.ops = <<>>
  BY <1>1 DEF Init
<1>4. Phases /\ Placed
  BY <1>1, <1>3 DEF Phases, Placed, Emitted
<1> QED
  BY <1>2, <1>4 DEF SessionInv

LEMMA SessionInvariant == SessionSpec => []SessionInv
<1> QED
  BY SessionStart, SessionStep, PTL DEF SessionSpec

\* The generator's variables keep their types through any session.
THEOREM SessionTypes == SessionSpec => []TypeOK
<1>1. SessionInv => TypeOK
  BY DEF SessionInv, TypeInv
<1> QED
  BY <1>1, SessionInvariant, PTL

\* On every line every call enters the function it names, also one of an earlier
\* line, and passes as many arguments as the function takes.
THEOREM SessionCalls == SessionSpec => []CallsEnterFunctions
<1>1. SessionInv => CallsEnterFunctions
  BY CallsEnter DEF SessionInv, TypeInv
<1> QED
  BY <1>1, SessionInvariant, PTL

-----------------------------------------------------------------------------
(* Every line is executed.                                                 *)

\* The only HALT is the one behind the line that runs.
HaltLast == IF phase = "run" THEN Unstopped(HaltOff(em)) ELSE Unstopped(em)

LEMMA HaltLastStep ==
    ASSUME SessionInv, HaltLast, NoErrors', [SNext]_svars
    PROVE  HaltLast'
<1>1. TypeInv /\ CallInv /\ Phases /\ em \in Emitters
  BY DEF SessionInv, TypeInv, TypeOK, Emitters
<1>2. CASE ReadLine \/ AskLine \/ \E in_func, in_loop \in BOOLEAN : RefuseLine(in_func, in_loop)
  <2>1. em' = em /\ phase = "prompt" /\ phase' # "run"
    BY <1>2 DEF ReadLine, AskLine, RefuseLine, gvars
  <2> QED
    BY <2>1 DEF HaltLast
<1>3. CASE (\E n \in Nodes : CompileNode(n)) \/ CompileResume
  <2>1. GeneratorStep /\ mode' # "done" /\ phase = "gen" /\ phase' = "gen"
    BY <1>3, Compiling
  <2> QED
    BY <1>1, <2>1, UnstoppedStep DEF HaltLast
<1>4. CASE StartLine
  <2>1. /\ phase = "gen" /\ phase' = IF node_has_error THEN "prompt" ELSE "run"
        /\ em' = [em EXCEPT !.ops = Append(@, Op("HALT", <<0>>))]
        /\ node_has_error' = node_has_error
    BY <1>4 DEF StartLine, LineDone
  <2>2. phase' = "run"
    BY <2>1 DEF NoErrors
  <2>3. HaltOff(em)' = em
    BY <1>1, <2>1, HaltAppended, HaltTaken DEF HaltOff, Last, Emitted
  <2> QED
    BY <2>1, <2>2, <2>3 DEF HaltLast
<1>5. CASE Execute
  <2>1. em' = em /\ phase' = phase
    BY <1>5 DEF Execute, gvars
  <2> QED
    BY <2>1 DEF HaltLast, HaltOff, Last, Emitted
<1>6. CASE ShowLine
  <2>1. phase = "run" /\ phase' = "prompt" /\ em' = HaltOff(em)
    BY <1>6 DEF ShowLine
  <2> QED
    BY <2>1 DEF HaltLast
<1>7. CASE UNCHANGED svars
  <2>1. em' = em /\ phase' = phase
    BY <1>7 DEF svars, hvars, gvars
  <2> QED
    BY <2>1 DEF HaltLast, HaltOff, Last, Emitted
<1> QED
  BY <1>2, <1>3, <1>4, <1>5, <1>6, <1>7 DEF SNext

\* In a session without erroneous lines run() returns for a line at the HALT of
\* that line: the line was executed.
THEOREM LinesExecuted == SessionSpec => ExecutedWithoutErrors
<1>1. SInit => HaltLast
  <2> SUFFICES ASSUME SInit
               PROVE  HaltLast
    OBVIOUS
  <2>1. phase = "prompt" /\ em.ops = <<>>
    BY DEF SInit, HostInit, Init
  <2>2. Emitted(em) = 0
    BY <2>1 DEF Emitted
  <2> QED
    BY <2>1, <2>2 DEF HaltLast, Unstopped
<1>2. SessionInv /\ HaltLast => LineExecuted
  <2> SUFFICES ASSUME SessionInv, HaltLast, phase = "run", status = "halted"
               PROVE  pc = Emitted(em) - 1
    BY DEF LineExecuted
  <2>1. Closes(HaltOff(em), em) /\ pc \in 0 .. Emitted(em) - 1 /\ em.ops[pc + 1].op = "HALT"
    BY DEF SessionInv, Phases, Placed
  <2>2. /\ Emitted(HaltOff(em)) \in Nat /\ Emitted(em) = Emitted(HaltOff(em)) + 1
        /\ \A k \in 1 .. Emitted(HaltOff(em)) : em.ops[k].op # "HALT"
    BY <2>1 DEF Closes, Longer, HaltLast, Unstopped
  <2> QED
    BY <2>1, <2>2
<1> QED
  BY <1>1, <1>2, HaltLastStep, SessionInvariant, PTL DEF SessionSpec, ExecutedWithoutErrors

-----------------------------------------------------------------------------
(* Code that the machine is past stays.                                    *)

\* The lexer is in a loop only while it reads one, and not when it refused a
\* line that ended inside of one.
LoopsClosed == phase = "prompt" => ~lex.in_loop

\* While a line is compiled, what may still change is of that line: the jumps
\* that wait, and the last instruction when the value of an operand is at hand.
Ahead ==
    /\ LoopOpen
    /\ phase = "gen" => \A p \in Pending : pc <= p
    /\ phase = "gen" /\ mode = "ret" /\ Top.fn \in Evaluating /\ ~node_has_error
          /\ em.ret_type = "Reg" => pc < Emitted(em)

\* Nothing waits when a line is begun.
LEMMA NothingWaits ==
    ASSUME TypeInv, LoopOpen, Len(todo) = 1
    PROVE  \A p : p \notin Pending
<1>1. todo[1].fn = "program" /\ todo \in Seq(Activations)
  BY DEF TypeInv, TypeOK
<1>2. Loops = {}
  BY <1>1 DEF Loops
<1>3. Elements(todo) = {todo[1]} /\ Pends(todo[1]) = {}
  BY <1>1 DEF Elements, Pends
<1>4. Waits(todo) = {}
  BY <1>3 DEF Waits
<1>5. break_points = {} /\ continue_points = {}
  BY <1>2 DEF LoopOpen
<1> QED
  BY <1>4, <1>5 DEF Pending

\* A step of the generator adds to what may change only behind the code.
LEMMA AheadCode ==
    ASSUME TypeInv, CallInv, GeneratorStep, pc \in 0 .. Emitted(em), \A p \in Pending : pc <= p
    PROVE  (\A p \in Pending' : pc <= p) /\ (Evaluates => pc < Emitted(em'))
<1>1. TypeOK /\ RegLast(em) /\ PendingJumps
  BY DEF TypeInv, CallInv
<1>2. Emitted(em) \in Nat /\ Emitted(em') \in Nat
  BY JumpsStep
<1>3. \A p \in Pending' : pc <= p
  <2>1. CASE JumpStep
    <3>1. PICK F, N, B, D : Jumping(em, em', F, N, B, D) /\ Pending' \subseteq Pending \cup N
      BY <1>1, <2>1, JumpStepCode
    <3>2. \A p \in N : p \in Emitted(em) .. Emitted(em') - 1
      BY <3>1 DEF Jumping
    <3> QED
      BY <1>2, <3>1, <3>2
  <2>2. CASE ~JumpStep
    BY <2>2, JumpsKept
  <2> QED
    BY <2>1, <2>2
<1>4. Evaluates => Emitted(em') > Emitted(em)
  BY VisitComputes, ResumeComputes DEF GeneratorStep, Computed
<1> QED
  BY <1>2, <1>3, <1>4

LEMMA AheadStep ==
    ASSUME SessionInv, Ahead, LoopsClosed', [SNext]_svars
    PROVE  Ahead'
<1>1. TypeInv /\ CallInv /\ Phases /\ Placed /\ LoopOpen
  BY DEF SessionInv, Ahead
<1>2. CASE ReadLine \/ AskLine \/ \E in_func, in_loop \in BOOLEAN : RefuseLine(in_func, in_loop)
  <2>1. /\ phase = "prompt" /\ Len(todo) = 1 /\ UNCHANGED <<todo, Points>>
        /\ \/ phase' = "prompt"
           \/ phase' = "gen" /\ mode' = "stmt" /\ UNCHANGED lex
    BY <1>1, <1>2 DEF ReadLine, AskLine, RefuseLine, gvars, Names, Points, Phases
  <2>2. \A p : p \notin Pending
    BY <1>1, <2>1, NothingWaits
  <2>3. UNCHANGED <<Loops, Pending, break_points, continue_points>>
    BY <2>1 DEF Loops, Pending, Waits, Elements, Points
  <2>4. LoopOpen'
    BY <1>1, <2>1, <2>3 DEF LoopOpen, LoopsClosed
  <2> QED
    BY <2>1, <2>2, <2>3, <2>4 DEF Ahead
<1>3. CASE (\E n \in Nodes : CompileNode(n)) \/ CompileResume
  <2>1. GeneratorStep /\ phase = "gen" /\ UNCHANGED <<phase, mvars>>
    BY <1>3, Compiling
  <2>2. LoopOpen' /\ pc' = pc
    BY <1>1, <2>1, LoopOpenStep DEF mvars
  <2>3. (\A p \in Pending' : pc <= p) /\ (Evaluates => pc < Emitted(em'))
    BY <1>1, <2>1, AheadCode DEF Placed, Ahead
  <2> QED
    BY <2>1, <2>2, <2>3 DEF Ahead, Evaluates, Emitted
<1>4. CASE StartLine \/ Execute \/ ShowLine
  <2>1. phase' # "gen" /\ UNCHANGED <<todo, lex, Points>>
    BY <1>4 DEF StartLine, Execute, ShowLine, gvars, Names, Points
  <2>2. LoopOpen'
    BY <1>1, <2>1 DEF LoopOpen, Loops, Points
  <2> QED
    BY <2>1, <2>2 DEF Ahead
<1>5. CASE UNCHANGED svars
  <2>1. UNCHANGED <<phase, pc, mode, todo, em, node_has_error, lex, break_points, continue_points>>
    BY <1>5 DEF svars, hvars, mvars, gvars
  <2> QED
    BY <2>1 DEF Ahead, LoopOpen, Loops, Pending, Waits, Elements, Top, Emitted
<1> QED
  BY <1>2, <1>3, <1>4, <1>5 DEF SNext

\* The generator changes no code that the machine is past.
LEMMA PastStep ==
    ASSUME TypeInv, CallInv, Placed, Ahead, phase = "gen", GeneratorStep, ~node_has_error,
           NEW k \in 1 .. pc
    PROVE  em'.ops[k] = em.ops[k]
<1>1. /\ TypeOK /\ InStep /\ ModulesNamed /\ RegLast(em) /\ PendingJumps /\ CallsNamed
      /\ Emitted(em) \in Nat /\ pc \in 0 .. Emitted(em)
  BY DEF TypeInv, CallInv, Placed, TypeOK, Emitted
<1>2. k \in 1 .. Emitted(em) /\ k - 1 < pc
  BY <1>1
<1>3. CASE JumpStep
  <2>1. PICK F, N, B, D : F \in SUBSET Pending /\ Jumping(em, em', F, N, B, D)
    BY <1>1, <1>3, JumpStepCode
  <2>2. k - 1 \notin F
    BY <1>1, <1>2, <2>1 DEF Ahead, PendingJumps
  <2> QED
    BY <1>2, <2>1, <2>2 DEF Jumping
<1>4. CASE ~JumpStep
  <2>1. ASSUME NEW n \in Nodes, Visit(n)
        PROVE  em'.ops[k] = em.ops[k]
    <3>1. Straight(em, em', {}, Scratch, Entered)
      BY <1>1, <1>4, <2>1, StraightVisit DEF JumpStep
    <3> QED
      BY <1>2, <3>1 DEF Straight, Redirected
  <2>2. ASSUME Resume
        PROVE  em'.ops[k] = em.ops[k]
    <3>1. Straight(em, em', Redirecting, Scratch, Entered)
      BY <1>1, <1>4, <2>2, StraightResume DEF JumpStep
    <3>2. ~Redirected(em, em', k, Redirecting)
      <4> SUFFICES ASSUME k = Emitted(em), em.ret_type = "Reg", Redirecting # {}
                   PROVE  FALSE
        BY DEF Redirected
      <4>1. mode = "ret" /\ Top.fn \in Evaluating
        BY DEF Redirecting
      <4> QED
        BY <1>1, <1>2, <4>1 DEF Ahead
    <3> QED
      BY <1>2, <3>1, <3>2 DEF Straight
  <2> QED
    BY <2>1, <2>2 DEF GeneratorStep
<1> QED
  BY <1>3, <1>4

\* Nor does anything else.
LEMMA PastStays ==
    ASSUME SessionInv, Ahead, ~node_has_error, SNext
    PROVE  \A k \in 1 .. pc : em'.ops[k] = em.ops[k]
<1>1. TypeInv /\ CallInv /\ Phases /\ Placed /\ em \in Emitters /\ Emitted(em) \in Nat
  BY DEF SessionInv, TypeInv, TypeOK, Emitters, Emitted
<1>2. CASE (\E n \in Nodes : CompileNode(n)) \/ CompileResume
  BY <1>1, <1>2, Compiling, PastStep
<1>3. CASE StartLine
  <2>1. phase = "gen" /\ em' = [em EXCEPT !.ops = Append(@, Op("HALT", <<0>>))]
    BY <1>3 DEF StartLine, LineDone
  <2>2. Closes(em, em') /\ pc \in 0 .. Emitted(em)
    BY <1>1, <2>1, HaltAppended DEF Placed
  <2> QED
    BY <1>1, <2>2 DEF Closes, Longer
<1>4. CASE ShowLine
  <2>1. phase = "run" /\ status = "halted" /\ em' = HaltOff(em)
    BY <1>4 DEF ShowLine
  <2>2. Closes(em', em) /\ pc \in 0 .. Emitted(em) - 1
    BY <1>1, <2>1 DEF Phases, Placed
  <2> QED
    BY <1>1, <2>2 DEF Closes, Longer
<1>5. CASE em' = em
  BY <1>5
<1> QED
  BY <1>2, <1>3, <1>4, <1>5
     DEF SNext, ReadLine, AskLine, RefuseLine, Execute, Gone, gvars, svars, hvars

\* Compiling a line changes no code that the machine is past, as long as no line
\* has an error, after which the peephole may take the end of an earlier line
\* for that of an operand, and no refused line leaves the lexer in a loop, whose
\* break or continue would then be patched by the loop of a later line.
THEOREM PastKept == SessionSpec /\ []LoopsClosed /\ []~node_has_error => PastCodeKept
<1>1. SInit => Ahead
  <2> SUFFICES ASSUME SInit
               PROVE  Ahead
    OBVIOUS
  <2>1. Init /\ phase = "prompt"
    BY DEF SInit, HostInit
  <2>2. LoopOpen
    BY <2>1, JumpInvInit DEF JumpInv
  <2> QED
    BY <2>1, <2>2 DEF Ahead
<1>2. SessionInv /\ Ahead /\ ~node_has_error /\ [SNext]_svars
         => [\A k \in 1 .. pc : em'.ops[k] = em.ops[k]]_svars
  BY PastStays
<1> QED
  BY <1>1, <1>2, AheadStep, SessionInvariant, PTL DEF SessionSpec, PastCodeKept
=============================================================================
