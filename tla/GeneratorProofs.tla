-------------------------- MODULE GeneratorProofs --------------------------
(***************************************************************************)
(* Theorems about Generator for every number of registers and every source *)
(* program: its types, and the registers its activations live in.          *)
(***************************************************************************)
EXTENDS Generator, FiniteSetTheorems, SequenceTheorems, TLAPS

-----------------------------------------------------------------------------
(* Numbers. *)

\* A finite set of integers has a least element.
LEMMA LeastElement ==
    ASSUME NEW S \in SUBSET Int, IsFiniteSet(S), S # {}
    PROVE  \E x \in S : \A y \in S : x <= y
<1> DEFINE upto(s) == {t \in S : t <= s}
           T == {upto(s) : s \in S}
<1>1. PICK m \in T : \A y \in T : ~ (<<y, m>> \in StrictSubsetOrdering(S))
  <2>1. IsWellFoundedOn(StrictSubsetOrdering(S), FiniteSubsetsOf(S))
    BY FS_StrictSubsetOrderingWellFounded
  <2>2. T \subseteq FiniteSubsetsOf(S)
    BY FS_Subset DEF FiniteSubsetsOf
  <2>3. T # {}
    OBVIOUS
  <2> HIDE DEF T
  <2> QED
    BY <2>1, <2>2, <2>3, WFMin
<1>2. PICK x \in S : m = upto(x)
  BY <1>1
<1>3. ASSUME NEW y \in S, y < x
      PROVE  FALSE
  <2>1. upto(y) \in T
    OBVIOUS
  <2>2. \A t \in S : t <= y => t <= x
    BY <1>3
  <2>3. upto(y) \subseteq m
    BY <1>2, <2>2
  <2>4. x \in m /\ x \notin upto(y)
    BY <1>2, <1>3
  <2>5. <<upto(y), m>> \in StrictSubsetOrdering(S)
    BY <1>2, <2>3, <2>4 DEF StrictSubsetOrdering
  <2> QED
    BY <1>1, <2>1, <2>5
<1> QED
  BY <1>3

\* So a bounded one has a greatest: the least upper bound.
LEMMA GreatestElement ==
    ASSUME NEW N \in Nat, NEW S \in SUBSET (1 .. N), S # {}
    PROVE  \E x \in S : \A y \in S : y <= x
<1> DEFINE U == {u \in 1 .. N : \A y \in S : y <= u}
<1>0. S \subseteq 1 .. N /\ N >= 1 /\ \A y \in S : y \in Int /\ 1 <= y /\ y <= N
  <2>1. \A y \in S : y \in Int /\ 1 <= y /\ y <= N
    OBVIOUS
  <2>2. PICK y \in S : TRUE
    OBVIOUS
  <2>3. N >= 1
    BY <2>1, <2>2
  <2> QED
    BY <2>3, <2>1
<1>1. U \subseteq 1 .. N /\ N \in U
  <2>1. N \in 1 .. N
    BY <1>0
  <2> QED
    BY <1>0, <2>1
<1> HIDE DEF U
<1>2. IsFiniteSet(U)
  <2>1. IsFiniteSet(1 .. N) /\ U \in SUBSET (1 .. N)
    BY <1>1, FS_Interval
  <2> QED
    BY <2>1, FS_Subset
<1>3. PICK u \in U : \A v \in U : u <= v
  <2>1. U \in SUBSET Int /\ U # {}
    BY <1>1
  <2> QED
    BY <1>2, <2>1, LeastElement
<1>4. u \in Int /\ u <= N /\ \A y \in S : y <= u
  BY <1>1, <1>3 DEF U
<1>5. u \in S
  <2> SUFFICES ASSUME u \notin S PROVE FALSE
    OBVIOUS
  <2>1. \A y \in S : y <= u - 1
    BY <1>0, <1>4
  <2>2. PICK y \in S : TRUE
    OBVIOUS
  <2>3. u - 1 \in 1 .. N
    BY <1>0, <1>4, <2>1, <2>2
  <2>4. u - 1 \in U
    BY <2>1, <2>3 DEF U
  <2> QED
    BY <1>3, <1>4, <2>4
<1> QED
  BY <1>4, <1>5

(* A set of numbers that is not empty has a least one, which is what alloc() hands
   out. *)
LEMMA LeastNumber ==
    ASSUME NEW S \in SUBSET Nat, S # {}
    PROVE  \E x \in S : \A y \in S : x <= y
<1>1. PICK m \in S : TRUE
  OBVIOUS
<1>2. m \in Nat /\ \A s \in S : s \in Nat
  OBVIOUS
<1> DEFINE T == {s \in S : s <= m}
<1>3. m \in T /\ (\A s \in T : s \in S /\ s <= m) /\ \A s \in S : s <= m => s \in T
  BY <1>2
<1> HIDE DEF T
<1>4. T \subseteq 0 .. m
  BY <1>2, <1>3
<1>5. IsFiniteSet(T)
  <2>1. m \in Int /\ 0 \in Int
    BY <1>2
  <2>2. IsFiniteSet(0 .. m)
    BY <2>1, FS_Interval
  <2> QED
    BY <1>4, <2>2, FS_Subset
<1>6. T \in SUBSET Int /\ T # {}
  BY <1>3, <1>4
<1>7. PICK x \in T : \A y \in T : x <= y
  BY <1>5, <1>6, LeastElement
<1> QED
  BY <1>2, <1>3, <1>7

\* Powers of two grow: there is one above every number.
LEMMA Powers ==
    ASSUME NEW k \in Nat
    PROVE  2 ^ k \in Nat /\ 2 ^ k >= k + 1
<1> DEFINE S == 1 .. k
<1>1. IsFiniteSet(S) /\ Cardinality(S) = k
  BY FS_Interval
<1>2. IsFiniteSet(SUBSET S) /\ Cardinality(SUBSET S) = 2 ^ k
  BY <1>1, FS_SUBSET
<1>3. 2 ^ k \in Nat
  BY <1>2, FS_CardinalityType
<1> DEFINE f == [i \in 0 .. k |-> 1 .. i]
<1>4. f \in Injection(0 .. k, SUBSET S)
  <2>1. f \in [0 .. k -> SUBSET S]
    OBVIOUS
  <2>2. ASSUME NEW a \in 0 .. k, NEW b \in 0 .. k, f[a] = f[b]
        PROVE  a = b
    <3>1. 1 .. a = 1 .. b
      BY <2>2
    <3>2. a > b => a \in 1 .. a /\ a \notin 1 .. b
      OBVIOUS
    <3>3. b > a => b \in 1 .. b /\ b \notin 1 .. a
      OBVIOUS
    <3> QED
      BY <3>1, <3>2, <3>3
  <2> QED
    BY <2>1, <2>2 DEF Injection, IsInjective
<1>5. Cardinality(0 .. k) <= Cardinality(SUBSET S)
  BY <1>2, <1>4, FS_Injection
<1>6. Cardinality(0 .. k) = k + 1
  BY FS_Interval
<1> QED
  BY <1>2, <1>3, <1>5, <1>6

\* A sequence without its last element.
LEMMA AllButLast ==
    ASSUME NEW S, NEW s \in Seq(S), s # <<>>
    PROVE  /\ SubSeq(s, 1, Len(s) - 1) \in Seq(S)
           /\ Len(SubSeq(s, 1, Len(s) - 1)) = Len(s) - 1
           /\ \A i \in 1 .. Len(s) - 1 : SubSeq(s, 1, Len(s) - 1)[i] = s[i]
<1> DEFINE m == Len(s) - 1
<1>1. m \in Nat /\ 1 \in Int /\ m \in Int /\ \A i \in 1 .. m : s[i] \in S
  OBVIOUS
<1> HIDE DEF m
<1>2. /\ SubSeq(s, 1, m) \in Seq(S)
      /\ Len(SubSeq(s, 1, m)) = IF 1 <= m THEN m - 1 + 1 ELSE 0
      /\ \A i \in 1 .. m - 1 + 1 : SubSeq(s, 1, m)[i] = s[1 + i - 1]
  BY <1>1, SubSeqProperties
<1>3. Len(SubSeq(s, 1, m)) = m
  BY <1>1, <1>2
<1>4. ASSUME NEW i \in 1 .. m
      PROVE  SubSeq(s, 1, m)[i] = s[i]
  <2>1. i \in 1 .. m - 1 + 1 /\ 1 + i - 1 = i
    BY <1>1
  <2>2. SubSeq(s, 1, m)[i] = s[1 + i - 1]
    BY <1>2, <2>1
  <2> QED
    BY <2>1, <2>2
<1> QED
  BY <1>2, <1>3, <1>4 DEF m

-----------------------------------------------------------------------------
(* The allocator. *)

Bitsets == {bits \in SUBSET (0 .. REG_COUNT - 1) : 0 \in bits}

\* alloc hands out a register that is not in use and never register 0, or
\* NoReg, and marks what it hands out.
LEMMA Allocates ==
    ASSUME NEW bits \in Bitsets
    PROVE  /\ alloc(bits) \in MaybeRegs \ {0} /\ alloc(bits) \notin bits
           /\ Taken(bits) = bits \cup ({alloc(bits)} \ {NoReg})
           /\ Taken(bits) \in Bitsets
<1>1. CASE Unused(bits) = {}
  BY <1>1, RegCountAssumption DEF alloc, Taken, MaybeRegs, NoReg, Bitsets
<1>2. CASE Unused(bits) # {}
  <2>1. IsFiniteSet(Unused(bits))
    <3>1. IsFiniteSet(0 .. REG_COUNT - 1)
      BY FS_Interval, RegCountAssumption
    <3>2. Unused(bits) \in SUBSET (0 .. REG_COUNT - 1)
      BY DEF Unused
    <3> QED
      BY <3>1, <3>2, FS_Subset
  <2>2. Unused(bits) \subseteq Int
    BY RegCountAssumption DEF Unused
  <2>3. \E r \in Unused(bits) : \A q \in Unused(bits) : r <= q
    BY <1>2, <2>1, <2>2, LeastElement
  <2>4. alloc(bits) \in Unused(bits)
    BY <1>2, <2>3 DEF alloc
  <2>5. Taken(bits) = bits \cup {alloc(bits)}
    BY <1>2 DEF Taken
  <2>6. alloc(bits) \in 0 .. REG_COUNT - 1 /\ alloc(bits) \notin bits
    BY <2>4 DEF Unused
  <2>7. alloc(bits) # 0 /\ alloc(bits) # NoReg
    BY <2>6, RegCountAssumption DEF NoReg, Bitsets
  <2> QED
    BY <2>5, <2>6, <2>7 DEF MaybeRegs, Bitsets
<1> QED
  BY <1>1, <1>2

\* free clears the bit of a register, and never that of register 0.
LEMMA Frees ==
    ASSUME NEW bits \in Bitsets, NEW r \in MaybeRegs
    PROVE  /\ Freed(bits, r) = bits \ ({r} \ {0, NoReg})
           /\ Freed(bits, r) \in Bitsets
  BY RegCountAssumption DEF Freed, MaybeRegs, NoReg, Bitsets

(* What the release at the end of an expression statement frees is one register or
   nothing. *)
LEMMA Releases ==
    ASSUME NEW bits \in Bitsets, NEW r \in MaybeRegs, NEW flag
    PROVE  /\ Releasing(bits, flag, r) \in {bits, bits \ ({r} \ {0, NoReg})}
           /\ Releasing(bits, flag, r) \in Bitsets
  BY Frees DEF Releasing

-----------------------------------------------------------------------------
(* Activations. *)

\* What an activation carries, by the function it is an activation of.
LEMMA Fields ==
    ASSUME NEW a \in Activations
    PROVE  /\ a.fn = "left" => a.node \in OperatorNodes /\ a.tmp \in MaybeRegs
           /\ a.fn = "right" => a.op \in Ternary /\ a.lr \in MaybeRegs
           /\ a.fn = "args" => a \in [fn : {"args"}, next : Nat, count : Nat,
                                      call : PendingCalls, pipe : BOOLEAN]
           /\ a.fn = "assign" => a.name \in Vars /\ a.fst \in Nat
           /\ a.fn = "define" => a.name \in Vars /\ a.mut \in BOOLEAN
           /\ a.fn = "if_cond" => a.has_else \in BOOLEAN
           /\ a.fn = "block" => a.scoped \in BOOLEAN /\ a.save \in Locals
           /\ a.fn = "if_then" =>
                 a.cond \in MaybeRegs /\ a.els \in Nat /\ a.has_else \in BOOLEAN
           /\ a.fn = "if_else" => a.cond \in MaybeRegs /\ a.then_end \in Nat
           /\ a.fn = "loop" => a.cond \in MaybeRegs /\ a.start \in Nat
           /\ a.fn = "module" => a \in [fn : {"module"}, mod : Vars,
                                        decls : Seq(Declarations), next : Nat \ {0}]
<1> HIDE DEF MaybeRegs, Locals, PendingCalls, OperatorNodes, Ternary, Declarations
<1>1. CASE a \in Operating
  BY <1>1 DEF Operating
<1>2. CASE a \in Using
  BY <1>2 DEF Using
<1>3. CASE a \in Holding
  BY <1>3 DEF Holding
<1> QED
  BY <1>1, <1>2, <1>3 DEF Activations

\* The activations that wait for the value of an expression, and those among
\* them that are themselves expressions.
Operators == {"unary", "left", "right", "args"}
Evaluating == Operators \cup {"return", "loop_cond", "assign", "define", "if_cond"}

\* The C++ stack: the program at the bottom, and above a function that waits
\* for an expression nothing but expressions.
Nested ==
    /\ \A i \in 1 .. Len(todo) : todo[i].fn = "program" => i = 1
    /\ \A i, j \in 1 .. Len(todo) :
          i < j /\ todo[i].fn \in Evaluating => todo[j].fn \in Operators
    /\ mode = "stmt" => Top.fn \in {"program", "block"}
    /\ mode = "expr" => Top.fn \in Evaluating

\* How a step changes the C++ stack: it keeps the first k activations, all or
\* all but the last, and starts at most two others.
Grows(k) ==
    /\ todo' \in Seq(Activations)
    /\ Len(todo') \in k .. k + 2
    /\ \A i \in 1 .. k : todo'[i] = todo[i]
    /\ \A i \in k + 1 .. Len(todo') : todo'[i].fn # "program"

\* Nothing that stays waits for an expression.
Clear(k) == Top.fn \notin Operators /\ (k = Len(todo) => Top.fn \notin Evaluating)

(* Activations above the ones that a step touches keep their order, so Nested
   follows from what the step puts on top. *)
LEMMA NestedStep ==
    ASSUME TypeOK, Nested, NEW k \in 1 .. Len(todo), Grows(k),
           k \in {Len(todo) - 1, Len(todo)},
           \A i \in k + 1 .. Len(todo') : todo'[i].fn \in Operators \/ Clear(k),
           Len(todo') = k + 2 => todo'[k + 1].fn \notin Evaluating,
           mode' = "stmt" => Top'.fn \in {"program", "block"},
           mode' = "expr" => Top'.fn \in Evaluating
    PROVE  Nested'
<1> USE DEF Grows
<1> DEFINE n == Len(todo)
           m == Len(todo')
<1>1. n \in Nat /\ m \in Nat /\ n >= 1 /\ todo \in Seq(Activations)
  BY DEF TypeOK
<1>2. \A i \in 1 .. m : todo'[i].fn = "program" => i = 1
  <2> TAKE i \in 1 .. m
  <2>1. CASE i <= k
    BY <1>1, <2>1 DEF Nested
  <2>2. CASE i > k
    BY <1>1, <2>2
  <2> QED
    BY <1>1, <2>1, <2>2
<1>a. \A i, j \in 1 .. n :
          i < j /\ todo[i].fn \in Evaluating => todo[j].fn \in Operators
  BY DEF Nested
<1>3. ASSUME NEW i \in 1 .. m, NEW j \in 1 .. m, i < j, todo'[i].fn \in Evaluating
      PROVE  todo'[j].fn \in Operators
  <2>1. CASE j <= k
    <3>1. i \in 1 .. n /\ j \in 1 .. n /\ todo'[i] = todo[i] /\ todo'[j] = todo[j]
      BY <1>1, <1>3, <2>1
    <3> QED
      BY <1>a, <1>3, <3>1
  <2>2. CASE i <= k /\ j > k
    <3>a. i \in 1 .. n /\ todo'[i] = todo[i] /\ n \in 1 .. n
      BY <1>1, <2>2
    <3>1. i < n => Top.fn \in Operators
      BY <1>a, <1>3, <3>a DEF Top
    <3>2. i = n => k = n /\ Top.fn \in Evaluating
      BY <1>1, <1>3, <2>2, <3>a DEF Top
    <3>3. ~Clear(k)
      BY <1>1, <2>2, <3>a, <3>1, <3>2 DEF Clear
    <3> QED
      BY <1>1, <2>2, <3>3
  <2>3. CASE i > k
    BY <1>1, <1>3, <2>3
  <2> QED
    BY <1>1, <2>1, <2>2, <2>3
<1> QED
  BY <1>2, <1>3 DEF Nested

\* The compiling frames: one for the toplevel and one for every function that
\* is being compiled among the first i activations of s.
FunctionsIn(s, i) == {j \in 1 .. i : s[j].fn = "function"}
Depth(s, i) == 1 + Cardinality(FunctionsIn(s, i))

(* The number of frames that compiling activations need grows by one at a function
   and nowhere else. *)
LEMMA DepthNext ==
    ASSUME NEW s, NEW i \in Nat
    PROVE  /\ Depth(s, i) \in Nat \ {0}
           /\ Depth(s, 0) = 1
           /\ Depth(s, i + 1) =
                 Depth(s, i) + (IF s[i + 1].fn = "function" THEN 1 ELSE 0)
<1> DEFINE F(k) == FunctionsIn(s, k)
<1>1. IsFiniteSet(F(i))
  <2>1. IsFiniteSet(1 .. i) /\ F(i) \in SUBSET (1 .. i)
    BY FS_Interval DEF FunctionsIn
  <2> QED
    BY <2>1, FS_Subset
<1>2. Cardinality(F(i)) \in Nat
  BY <1>1, FS_CardinalityType
<1>3. Cardinality(F(0)) = 0
  BY FS_EmptySet DEF FunctionsIn
<1>4. CASE s[i + 1].fn = "function"
  <2>1. F(i + 1) = F(i) \cup {i + 1} /\ i + 1 \notin F(i)
    BY <1>4 DEF FunctionsIn
  <2>2. Cardinality(F(i + 1)) = Cardinality(F(i)) + 1
    BY <1>1, <2>1, FS_AddElement
  <2> QED
    BY <1>2, <1>3, <1>4, <2>2 DEF Depth
<1>5. CASE s[i + 1].fn # "function"
  <2>1. F(i + 1) = F(i)
    BY <1>5 DEF FunctionsIn
  <2> QED
    BY <1>2, <1>3, <1>5, <2>1 DEF Depth
<1> QED
  BY <1>4, <1>5

\* The depth of an activation is a matter of the activations below it.
LEMMA DepthKept ==
    ASSUME NEW s, NEW t, NEW k \in Nat, \A i \in 1 .. k : s[i] = t[i],
           NEW i \in 0 .. k
    PROVE  Depth(s, i) = Depth(t, i)
<1>1. FunctionsIn(s, i) = FunctionsIn(t, i)
  BY DEF FunctionsIn
<1> QED
  BY <1>1 DEF Depth

\* The compiler is in the frame of the innermost function, and a waiting
\* assignment names a frame that exists.
InStep ==
    /\ Len(cur) = Depth(todo, Len(todo))
    /\ \A i \in 1 .. Len(todo) : todo[i].fn = "assign" => todo[i].fst < Len(cur)

\* Where no function begins or ends, the frames stay as many as they are.
LEMMA InStepKept ==
    ASSUME TypeOK, InStep, NEW k \in 1 .. Len(todo), Grows(k),
           k \in {Len(todo) - 1, Len(todo)},
           k < Len(todo) => Top.fn # "function",
           \A i \in k + 1 .. Len(todo') :
              /\ todo'[i].fn # "function"
              /\ todo'[i].fn = "assign" => todo'[i].fst < Len(cur),
           Len(cur') = Len(cur)
    PROVE  InStep'
<1> DEFINE n == Len(todo)
           m == Len(todo')
<1>1. n \in Nat \ {0} /\ m \in k .. k + 2 /\ k \in Nat /\ n \in {k, k + 1}
  BY DEF TypeOK, Grows
<1>2. Depth(todo, n) = Depth(todo, k)
  <2>1. CASE n = k + 1
    <3>1. Depth(todo, k + 1) =
             Depth(todo, k) + (IF todo[k + 1].fn = "function" THEN 1 ELSE 0)
      BY <1>1, DepthNext
    <3>2. todo[k + 1].fn # "function" /\ Depth(todo, k) \in Nat
      BY <1>1, <2>1, DepthNext DEF Top
    <3> QED
      BY <2>1, <3>1, <3>2
  <2> QED
    BY <1>1, <2>1
<1>3. Depth(todo, k) = Depth(todo', k)
  <2>1. k \in 0 .. k /\ \A i \in 1 .. k : todo[i] = todo'[i]
    BY <1>1 DEF Grows
  <2> QED
    BY <1>1, <2>1, DepthKept
<1>a. ASSUME NEW i \in k .. m - 1
      PROVE  Depth(todo', i + 1) = Depth(todo', i)
  <2>1. i \in Nat /\ i + 1 \in k + 1 .. m
    BY <1>1
  <2>2. todo'[i + 1].fn # "function"
    BY <2>1
  <2>3. /\ Depth(todo', i) \in Nat
        /\ Depth(todo', i + 1) =
              Depth(todo', i) + (IF todo'[i + 1].fn = "function" THEN 1 ELSE 0)
    BY <2>1, DepthNext
  <2> QED
    BY <2>2, <2>3
<1>4. Depth(todo', m) = Depth(todo', k)
  <2>1. CASE m = k
    BY <2>1
  <2>2. CASE m = k + 1
    BY <1>1, <1>a, <2>2
  <2>3. CASE m = k + 2
    <3>1. k \in k .. m - 1 /\ k + 1 \in k .. m - 1 /\ (k + 1) + 1 = m
      BY <1>1, <2>3
    <3> QED
      BY <1>a, <3>1
  <2> QED
    BY <1>1, <2>1, <2>2, <2>3
<1>5. \A i \in 1 .. m : todo'[i].fn = "assign" => todo'[i].fst < Len(cur')
  BY <1>1 DEF InStep, Grows
<1> QED
  BY <1>2, <1>3, <1>4, <1>5 DEF InStep

-----------------------------------------------------------------------------
(* Types. *)

\* What a node carries, by its kind.
LEMMA NodeFields ==
    ASSUME NEW n \in Nodes
    PROVE  /\ n.kind \in {"Bin", "Pipe"} => n \in OperatorNodes
           /\ n.kind = "Num" => n.value \in Int
           /\ n.kind = "Str" => n.length \in Nat
           /\ n.kind = "Var" => n.name \in Vars
           /\ n.kind = "Call" => n.argc \in Nat
           /\ n.kind = "VMC" => n.idx \in Nat /\ n.argc \in Nat
           /\ n.kind = "Assign" => n.name \in Vars /\ n.mut \in BOOLEAN
           /\ n.kind = "If" => n.has_else \in BOOLEAN
           /\ n.kind = "Loop" => n.counted \in BOOLEAN
           /\ n.kind = "Func" => n.name \in Funcs /\ n.params \in Seq(Vars)
           /\ n.kind = "Module" => /\ n.name \in Vars /\ n.dyn \in BOOLEAN
                                   /\ n.lib \in Texts /\ n.decls \in Seq(Declarations)
<1> HIDE DEF Ternary, Texts, Declarations
<1>1. n \in NodeForms
  BY NodesAssumption
<1> QED
  BY <1>1 DEF NodeForms, OperatorNodes

\* One step of the generator: it visits a node or resumes an activation.
GeneratorStep == (\E n \in Nodes : Visit(n)) \/ Resume

\* The innermost activation is one, and it is not the program's if it waits
\* for a value.
LEMMA TopType ==
    ASSUME TypeOK
    PROVE  /\ Len(todo) \in Nat \ {0} /\ Top \in Activations
           /\ bitset \in Bitsets
           /\ Below \in Seq(Activations) /\ Len(Below) = Len(todo) - 1
           /\ \A i \in 1 .. Len(todo) - 1 : Below[i] = todo[i]
           /\ Top.fn # "program" => Len(todo) > 1 /\ Below[1].fn = "program"
<1>1. todo \in Seq(Activations) /\ todo # <<>> /\ todo[1].fn = "program"
  BY DEF TypeOK
<1>2. Len(todo) \in Nat \ {0} /\ todo[Len(todo)] \in Activations
  BY <1>1
<1>4. /\ Below \in Seq(Activations) /\ Len(Below) = Len(todo) - 1
      /\ \A i \in 1 .. Len(todo) - 1 : Below[i] = todo[i]
  BY <1>1, AllButLast DEF Below
<1>5. bitset \in Bitsets
  BY DEF TypeOK, Bitsets
<1>6. todo[Len(todo)].fn # "program" => Len(todo) > 1
  BY <1>1, <1>2
<1> QED
  BY <1>1, <1>2, <1>4, <1>5, <1>6 DEF Top

(* Every step keeps the types of the allocator's set, of the returned register and
   of the flags. *)
LEMMA RegsType ==
    ASSUME TypeOK, GeneratorStep
    PROVE  /\ ret' \in MaybeRegs /\ bitset' \in Bitsets
           /\ expr_release' \in BOOLEAN /\ node_has_error' \in BOOLEAN
<1>1. /\ ret \in MaybeRegs /\ bitset \in Bitsets /\ Top \in Activations
      /\ expr_release \in BOOLEAN /\ node_has_error \in BOOLEAN
      /\ 0 \in MaybeRegs /\ NoReg \in MaybeRegs
  BY TopType, RegCountAssumption DEF TypeOK, MaybeRegs
<1>2. alloc(bitset) \in MaybeRegs /\ Taken(bitset) \in Bitsets
  BY <1>1, Allocates
<1>3. ASSUME NEW n \in Nodes, Visit(n)
      PROVE  /\ ret' \in MaybeRegs /\ bitset' \in Bitsets
             /\ expr_release' \in BOOLEAN /\ node_has_error' \in BOOLEAN
  BY <1>1, <1>2, <1>3
     DEF Visit, gen_num, gen_bool, gen_literal, gen_string, gen_var_ref, gen_unary,
         gen_binary, gen_func_call, func_call, Pass, gen_vmc, gen_assign,
         gen_return, gen_null, gen_if, gen_loop, LoopBody, gen_break,
         gen_continue, gen_function, gen_block_end, gen_program_end, gen_module,
         gen_module_again, Named, Leaf, Leave, Descend, Error, NoError, Regs
<1>4. \A b \in Bitsets : \A r \in MaybeRegs, flag \in BOOLEAN :
         Freed(b, r) \in Bitsets /\ Releasing(b, flag, r) \in Bitsets
  BY Frees, Releases
<1>5. ASSUME Resume
      PROVE  /\ ret' \in MaybeRegs /\ bitset' \in Bitsets
             /\ expr_release' \in BOOLEAN /\ node_has_error' \in BOOLEAN
  <2>1. CASE unary_done \/ binary_left \/ assign_done \/ define_done \/ return_done
    BY <1>1, <1>2, <1>4, <2>1
       DEF unary_done, binary_left, assign_done, define_done, return_done,
           Leave, NoError
  <2>2. CASE binary_right
    <3>1. Top.lr \in MaybeRegs
      BY <1>1, <2>2, Fields DEF binary_right, Awaiting
    <3> DEFINE held == Releasing(Taken(bitset), expr_release, ret)
    <3>2. held \in Bitsets
      BY <1>1, <1>2, <1>4
    <3>3. alloc(held) \in MaybeRegs /\ Taken(held) \in Bitsets
      BY <3>2, Allocates
    <3> QED
      BY <1>1, <1>2, <1>4, <2>2, <3>1, <3>3 DEF binary_right, Leave, NoError
  <2>3. CASE binary_pipe \/ arg_done
    BY <1>1, <1>4, <2>3
       DEF binary_pipe, arg_done, func_call, Pass, Error, NoError
  <2>4. CASE if_then \/ if_else \/ loop_done
    <3>1. Top.cond \in MaybeRegs
      BY <1>1, <2>4, Fields DEF if_then, if_else, loop_done, Awaiting
    <3> QED
      BY <1>1, <1>4, <2>4, <3>1 DEF if_then, if_else, loop_done, Leave, NoError
  <2>5. CASE \/ child_done \/ if_cond \/ loop_cond \/ function_done
             \/ module_func \/ module_func_null \/ module_done
    BY <1>1, <2>5
       DEF child_done, if_cond, loop_cond, LoopBody, function_done, module_func,
           module_func_null, module_done, Leave, NoError, Regs
  <2> QED
    BY <1>5, <2>1, <2>2, <2>3, <2>4, <2>5 DEF Resume
<1> QED
  BY <1>3, <1>5 DEF GeneratorStep

\* find_var finds a variable in one of the frames, in a slot of it.
LEMMA Finds ==
    ASSUME TypeOK, NEW x \in Vars, Found(x)
    PROVE  /\ FrameOf(x) \in 1 .. Len(cur) /\ Distance(x) \in 0 .. Len(cur) - 1
           /\ find_var(x).addr \in Nat /\ find_var(x).mut \in BOOLEAN
           /\ Distance(x) = Len(cur) - FrameOf(x)
<1>1. Len(cur) \in Nat /\ cur \in Seq(CompilingFrames)
  BY DEF TypeOK
<1>2. Defining(x) \in SUBSET (1 .. Len(cur)) /\ Defining(x) # {}
  BY DEF Defining, Found
<1>3. \E f \in Defining(x) : \A g \in Defining(x) : g <= f
  BY <1>1, <1>2, GreatestElement
<1>4. FrameOf(x) \in Defining(x)
  BY <1>3 DEF FrameOf
<1>5. /\ FrameOf(x) \in 1 .. Len(cur)
      /\ cur[FrameOf(x)].locals[x].addr # NoSlot
  BY <1>4 DEF Defining
<1>6. cur[FrameOf(x)].locals[x] \in [mut : BOOLEAN, addr : Slots]
  <2>1. cur[FrameOf(x)] \in CompilingFrames
    BY <1>1, <1>5
  <2> QED
    BY <2>1 DEF CompilingFrames, Locals
<1> QED
  BY <1>1, <1>5, <1>6 DEF find_var, Distance, Slots

\* A variable takes the next slot.
LEMMA NewVarType ==
    ASSUME NEW frame \in CompilingFrames, NEW x \in Vars, NEW m \in BOOLEAN
    PROVE  /\ new_var(frame, x, m) \in CompilingFrames
           /\ new_var(frame, x, m).local_count \in Nat
<1>1. NewSlot(frame) \in Nat
  BY DEF NewSlot, CompilingFrames, Slots, NoSlot
<1> QED
  BY <1>1 DEF new_var, CompilingFrames, Locals, Slots

\* The parameters of a function take slots.
LEMMA ParamFrameType ==
    ASSUME NEW n, n.params \in Seq(Vars)
    PROVE  ParamFrame(n) \in CompilingFrames
<1> DEFINE k == Len(n.params)
           firsts == {First(Param(n, n.params[i])) : i \in 1 .. k}
<1>1. k \in Nat
  OBVIOUS
<1>2. ASSUME NEW x, Param(n, x) # {}
      PROVE  First(Param(n, x)) \in Param(n, x) /\ First(Param(n, x)) \in 1 .. k
  <2>1. IsFiniteSet(1 .. k) /\ Param(n, x) \in SUBSET (1 .. k)
    BY <1>1, FS_Interval DEF Param
  <2>2. IsFiniteSet(Param(n, x)) /\ Param(n, x) \in SUBSET Int
    BY <2>1, FS_Subset
  <2>3. \E i \in Param(n, x) : \A j \in Param(n, x) : i <= j
    BY <1>2, <2>2, LeastElement
  <2> QED
    BY <2>1, <2>3 DEF First
<1>3. \A i \in 1 .. k : i \in Param(n, n.params[i])
  BY DEF Param
<1>4. firsts \in SUBSET (1 .. k)
  BY <1>2, <1>3
<1>5. CASE k = 0
  <2>1. n.params = <<>>
    BY <1>5
  <2> QED
    BY <2>1, <1>2 DEF ParamFrame, CompilingFrames, Locals, Slots, NoVar, NoSlot
<1>6. CASE k # 0
  <2>1. n.params # <<>> /\ 1 \in 1 .. k
    BY <1>1, <1>6
  <2>2. firsts # {}
    BY <2>1
  <2> HIDE DEF firsts
  <2>3. \E i \in firsts : \A j \in firsts : j <= i
    BY <1>1, <1>4, <2>2, GreatestElement
  <2>4. Final(firsts) \in 1 .. k
    BY <1>4, <2>3 DEF Final
  <2>5. ParamFrame(n).local_count = Final(firsts) - 1
    BY <2>1 DEF ParamFrame, firsts
  <2>6. ParamFrame(n).local_count \in Slots
    BY <2>4, <2>5 DEF Slots
  <2>7. ParamFrame(n).locals \in Locals
    BY <1>2 DEF ParamFrame, Locals, Slots, NoVar, NoSlot
  <2> QED
    BY <2>6, <2>7 DEF ParamFrame, CompilingFrames
<1> QED
  BY <1>5, <1>6

\* The first module gave its name to modules.current; a module that is being
\* announced has its variable, and nothing else happens until it is done.
ModulesNamed ==
    /\ modules.current # "" =>
          /\ modules.current \in modules.names
          /\ \E m \in Nodes : m.kind = "Module" /\ m.name = modules.current
    /\ \A i \in 1 .. Len(todo) : todo[i].fn = "module" =>
          /\ i = Len(todo) /\ mode \in {"ret", "crash"}
          /\ todo[i].mod \in modules.names /\ Found(todo[i].mod)

(* gen_module names a module by the stream that keeps the first one's name; the name
   stays one of the source's. *)
LEMMA ModuleNameType ==
    ASSUME ModulesNamed, NEW n \in Nodes, n.kind = "Module", n.name \notin modules.names
    PROVE  ModuleName(n) \in Vars
<1>1. CASE modules.current = ""
  BY <1>1, NodeFields DEF ModuleName
<1>2. CASE modules.current # ""
  <2>1. PICK m \in Nodes : m.kind = "Module" /\ m.name = modules.current /\ m.name # n.name
    BY <1>2 DEF ModulesNamed
  <2>2. m \in {k \in Nodes : k.kind = "Module"} /\ n \in {k \in Nodes : k.kind = "Module"}
    BY <2>1
  <2> QED
    BY <1>2, <2>1, <2>2, NodesAssumption DEF ModuleName
<1> QED
  BY <1>1, <1>2

\* The frame an assignment stores into, and what that frame has for the name.
LEMMA AssignedVar ==
    ASSUME TypeOK, InStep, Awaiting("assign")
    PROVE  /\ Top.name \in Vars /\ Top.fst \in Nat /\ Top.fst + 1 \in 1 .. Len(cur)
           /\ cur[Top.fst + 1] \in CompilingFrames
           /\ cur[Top.fst + 1].locals[Top.name] \in [mut : BOOLEAN, addr : Slots]
<1>1. Top.fn = "assign" /\ Len(todo) \in 1 .. Len(todo)
  BY TopType DEF Awaiting
<1>2. Top.name \in Vars /\ Top.fst \in Nat /\ Len(cur) \in Nat
  BY <1>1, TopType, Fields DEF TypeOK
<1>3. Top.fst < Len(cur)
  BY <1>1 DEF InStep, Top
<1>4. Top.fst + 1 \in 1 .. Len(cur)
  BY <1>2, <1>3
<1>5. cur[Top.fst + 1] \in CompilingFrames
  BY <1>4 DEF TypeOK
<1>6. cur[Top.fst + 1].locals[Top.name] \in [mut : BOOLEAN, addr : Slots]
  BY <1>2, <1>5 DEF CompilingFrames, Locals
<1> QED
  BY <1>2, <1>4, <1>5, <1>6

\* The compiling frames stay frames; only a function adds one, and only its
\* end takes it away.
LEMMA CurType ==
    ASSUME TypeOK, InStep, ModulesNamed, GeneratorStep
    PROVE  /\ cur' \in Seq(CompilingFrames) /\ cur' # <<>>
           /\ \A n \in Nodes : Visit(n) =>
                 Len(cur') = IF gen_function(n) THEN Len(cur) + 1 ELSE Len(cur)
           /\ Resume =>
                 Len(cur') = IF function_done THEN Len(cur) - 1 ELSE Len(cur)
<1>1. /\ Len(cur) \in Nat \ {0} /\ cur \in Seq(CompilingFrames)
      /\ cur[Len(cur)] \in CompilingFrames /\ Top \in Activations
  BY TopType DEF TypeOK
<1>2. ASSUME NEW f \in CompilingFrames, cur' = SetBack(f)
      PROVE  cur' \in Seq(CompilingFrames) /\ Len(cur') = Len(cur)
  BY <1>1, <1>2 DEF SetBack
<1>3. ASSUME NEW n \in Nodes, gen_function(n)
      PROVE  cur' \in Seq(CompilingFrames) /\ Len(cur') = Len(cur) + 1
  <2>1. ParamFrame(n) \in CompilingFrames
    BY <1>3, NodeFields, ParamFrameType DEF gen_function, AtStmt
  <2> QED
    BY <1>1, <1>3, <2>1 DEF gen_function
<1>4. ASSUME NEW n \in Nodes, gen_block_end(n)
      PROVE  cur' \in Seq(CompilingFrames) /\ Len(cur') = Len(cur)
  <2>1. Top.save \in Locals
    BY <1>1, <1>4, Fields DEF gen_block_end
  <2>2. [cur[Len(cur)] EXCEPT !.locals = Top.save] \in CompilingFrames
    BY <1>1, <2>1 DEF CompilingFrames
  <2> QED
    BY <1>1, <1>2, <1>4, <2>2 DEF gen_block_end
<1>5. ASSUME NEW n \in Nodes, gen_module(n)
      PROVE  cur' \in Seq(CompilingFrames) /\ Len(cur') = Len(cur)
  <2> DEFINE x == ModuleName(n)
             frame == cur[Len(cur)]
  <2>1. x \in Vars
    BY <1>5, ModuleNameType DEF gen_module, AtStmt
  <2>2. new_var(frame, x, FALSE) \in CompilingFrames
    BY <1>1, <2>1, NewVarType
  <2>3. [frame EXCEPT !.local_count = @ + 1] \in CompilingFrames
    <3>1. frame \in [locals : Locals, local_count : Slots]
      BY <1>1 DEF CompilingFrames
    <3>2. frame.local_count + 1 \in Slots
      BY <3>1 DEF Slots, NoSlot
    <3> QED
      BY <3>1, <3>2 DEF CompilingFrames
  <2>4. module_var(x) \in CompilingFrames
    BY <2>2, <2>3 DEF module_var
  <2>5. cur' = SetBack(module_var(x))
    BY <1>5 DEF gen_module
  <2> QED
    BY <1>2, <2>4, <2>5
<1>6. ASSUME assign_done
      PROVE  cur' \in Seq(CompilingFrames) /\ Len(cur') = Len(cur)
  <2> DEFINE old == cur[Top.fst + 1].locals[Top.name]
             var == IF old = NoVar THEN [mut |-> FALSE, addr |-> 0] ELSE old
  <2>1. /\ Top.name \in Vars /\ Top.fst + 1 \in 1 .. Len(cur)
        /\ cur[Top.fst + 1] \in CompilingFrames /\ old \in [mut : BOOLEAN, addr : Slots]
    BY <1>6, AssignedVar DEF assign_done
  <2>2. var \in [mut : BOOLEAN, addr : Slots]
    BY <2>1 DEF Slots
  <2>3. cur' = [cur EXCEPT ![Top.fst + 1].locals[Top.name] = var]
    BY <1>6 DEF assign_done
  <2> HIDE DEF old, var
  <2>4. [cur[Top.fst + 1] EXCEPT !.locals[Top.name] = var] \in CompilingFrames
    BY <2>1, <2>2 DEF CompilingFrames, Locals
  <2> QED
    BY <1>1, <2>1, <2>3, <2>4
<1>7. ASSUME define_done
      PROVE  cur' \in Seq(CompilingFrames) /\ Len(cur') = Len(cur)
  <2>1. Top.name \in Vars /\ Top.mut \in BOOLEAN
    BY <1>1, <1>7, Fields DEF define_done, Awaiting
  <2>2. new_var(cur[Len(cur)], Top.name, Top.mut) \in CompilingFrames
    BY <1>1, <2>1, NewVarType
  <2> QED
    BY <1>2, <1>7, <2>2 DEF define_done
<1>8. ASSUME function_done
      PROVE  cur' \in Seq(CompilingFrames) /\ Len(cur') = Len(cur) - 1 /\ cur' # <<>>
  <2>1. /\ Len(cur) = Depth(todo, Len(todo))
        /\ Len(todo) \in Nat \ {0} /\ todo[Len(todo)].fn = "function"
    BY <1>8, TopType DEF InStep, function_done, Awaiting, Top
  <2>2. /\ Depth(todo, Len(todo) - 1) \in Nat \ {0}
        /\ Depth(todo, Len(todo)) = Depth(todo, Len(todo) - 1) + 1
    <3>1. PICK k \in Nat : k = Len(todo) - 1 /\ k + 1 = Len(todo)
      BY <2>1
    <3>2. /\ Depth(todo, k) \in Nat \ {0}
          /\ Depth(todo, k + 1) =
                Depth(todo, k) + (IF todo[k + 1].fn = "function" THEN 1 ELSE 0)
      BY DepthNext
    <3> QED
      BY <2>1, <3>1, <3>2
  <2>3. Len(cur) > 1
    BY <2>1, <2>2
  <2>4. /\ cur' \in Seq(CompilingFrames)
        /\ Len(cur') = Len(cur) - 1
    <3>1. cur' = SubSeq(cur, 1, Len(cur) - 1) /\ cur # <<>>
      BY <1>1, <1>8 DEF function_done
    <3> QED
      BY <1>1, <3>1, AllButLast
  <2> QED
    BY <1>1, <2>3, <2>4
<1>9. ASSUME NEW n \in Nodes, Visit(n), ~gen_function(n), ~gen_block_end(n), ~gen_module(n)
      PROVE  cur' = cur
  BY <1>9
     DEF Visit, gen_num, gen_bool, gen_literal, gen_string, gen_var_ref, gen_unary,
         gen_binary, gen_func_call, gen_vmc, gen_assign, gen_return, gen_null,
         gen_if, gen_loop, gen_break, gen_continue, gen_program_end,
         gen_module_again, Descend, Names
<1>10. ASSUME Resume, ~assign_done, ~define_done, ~function_done
       PROVE  cur' = cur
  BY <1>10
     DEF Resume, unary_done, binary_left, binary_right, binary_pipe, arg_done,
         child_done, return_done, if_cond, if_then, if_else, loop_cond, loop_done,
         module_func, module_func_null, module_done, Names
<1> QED
  BY <1>1, <1>3, <1>4, <1>5, <1>6, <1>7, <1>8, <1>9, <1>10 DEF GeneratorStep

-----------------------------------------------------------------------------
(* The C++ stack.  A step leaves it alone, calls, returns, goes on with the *)
(* next part of a function, or enters a construct and its block.            *)

StackOK ==
    /\ todo \in Seq(Activations) /\ todo # <<>> /\ todo[1].fn = "program"
    /\ Nested /\ InStep

(* A step that leaves the stack of activations alone keeps its shape. *)
LEMMA Stays ==
    ASSUME TypeOK, Nested, InStep, todo' = todo, Len(cur') = Len(cur),
           mode' = "stmt" => Top.fn \in {"program", "block"},
           mode' # "expr"
    PROVE  StackOK'
<1>1. todo \in Seq(Activations) /\ todo # <<>> /\ todo[1].fn = "program" /\ Top' = Top
  BY DEF TypeOK, Top
<1>2. Nested'
  BY <1>1 DEF Nested
<1>3. InStep'
  BY DEF InStep, Depth, FunctionsIn
<1> QED
  BY <1>1, <1>2, <1>3 DEF StackOK

(* A step that calls another function of the generator keeps the shape of the stack.
   *)
LEMMA Calls ==
    ASSUME TypeOK, Nested, InStep, NEW a \in Activations, todo' = Append(todo, a),
           a.fn \notin {"program", "function"},
           a.fn \in Operators \/ Clear(Len(todo)),
           a.fn = "assign" => a.fst < Len(cur),
           Len(cur') = Len(cur),
           mode' # "stmt", mode' = "expr" => a.fn \in Evaluating
    PROVE  StackOK'
<1> DEFINE n == Len(todo)
<1>1. /\ n \in Nat \ {0} /\ todo \in Seq(Activations) /\ todo[1].fn = "program"
  BY DEF TypeOK
<1>2. /\ todo' \in Seq(Activations) /\ Len(todo') = n + 1 /\ todo'[n + 1] = a
      /\ \A i \in 1 .. n : todo'[i] = todo[i]
  BY <1>1
<1>3. Grows(n) /\ n \in 1 .. n /\ n \in {n - 1, n} /\ Top' = a
  BY <1>1, <1>2 DEF Grows, Top
<1>4. \A i \in n + 1 .. Len(todo') : todo'[i] = a
  BY <1>1, <1>2
<1>5. Nested'
  BY <1>1, <1>2, <1>3, <1>4, NestedStep
<1>6. InStep'
  BY <1>1, <1>2, <1>3, <1>4, InStepKept
<1>7. todo' # <<>> /\ todo'[1] = todo[1]
  BY <1>1, <1>2
<1> QED
  BY <1>1, <1>2, <1>5, <1>6, <1>7 DEF StackOK

(* A step that returns from a function of the generator keeps the shape of the
   stack. *)
LEMMA Returns ==
    ASSUME TypeOK, Nested, InStep, todo' = Below,
           Top.fn \notin {"program", "function"},
           Len(cur') = Len(cur), mode' = "ret"
    PROVE  StackOK'
<1> DEFINE n == Len(todo)
           k == n - 1
<1>1. /\ n \in Nat \ {0, 1} /\ todo' \in Seq(Activations) /\ Len(todo') = n - 1
      /\ \A i \in 1 .. n - 1 : todo'[i] = todo[i]
      /\ todo'[1].fn = "program"
  BY TopType
<1>2. Grows(k) /\ k \in 1 .. n /\ k \in {n - 1, n} /\ k + 1 .. Len(todo') = {}
  BY <1>1 DEF Grows
<1>3. Nested'
  BY <1>1, <1>2, NestedStep
<1>4. InStep'
  BY <1>1, <1>2, InStepKept
<1> QED
  BY <1>1, <1>3, <1>4 DEF StackOK

(* A step that goes on in the innermost function keeps the shape of the stack. *)
LEMMA Continues ==
    ASSUME TypeOK, Nested, InStep, NEW a \in Activations, todo' = Append(Below, a),
           Top.fn \notin {"program", "function"},
           a.fn \notin {"program", "function", "assign"},
           a.fn \in Operators \/ Top.fn \notin Operators,
           Len(cur') = Len(cur),
           mode' # "stmt", mode' = "expr" => a.fn \in Evaluating
    PROVE  StackOK'
<1> DEFINE n == Len(todo)
           k == n - 1
<1>1. /\ n \in Nat \ {0, 1} /\ Below \in Seq(Activations) /\ Len(Below) = n - 1
      /\ \A i \in 1 .. n - 1 : Below[i] = todo[i]
      /\ Below[1].fn = "program"
  BY TopType
<1>2. /\ todo' \in Seq(Activations) /\ Len(todo') = n /\ todo'[n] = a
      /\ \A i \in 1 .. n - 1 : todo'[i] = todo[i]
  BY <1>1
<1>3. Grows(k) /\ k \in 1 .. n /\ k \in {n - 1, n} /\ Top' = a /\ k # n
  BY <1>1, <1>2 DEF Grows, Top
<1>4. \A i \in k + 1 .. Len(todo') : todo'[i] = a
  BY <1>1, <1>2
<1>a. Len(todo') = k + 1 /\ Len(todo') # k + 2 /\ (Clear(k) \/ a.fn \in Operators)
  BY <1>1, <1>2, <1>3 DEF Clear
<1> HIDE DEF k
<1>5. Nested'
  BY <1>1, <1>2, <1>3, <1>4, <1>a, NestedStep
<1>6. InStep'
  BY <1>1, <1>2, <1>3, <1>4, InStepKept
<1>7. todo' # <<>> /\ todo'[1] = Below[1]
  BY <1>1, <1>2
<1> QED
  BY <1>1, <1>2, <1>5, <1>6, <1>7 DEF StackOK

\* Two activations on top of a stack.
LEMMA TwoMore ==
    ASSUME NEW S, NEW s \in Seq(S), NEW a \in S, NEW b \in S
    PROVE  /\ s \o <<a, b>> \in Seq(S) /\ Len(s \o <<a, b>>) = Len(s) + 2
           /\ (s \o <<a, b>>)[Len(s) + 1] = a /\ (s \o <<a, b>>)[Len(s) + 2] = b
           /\ \A i \in 1 .. Len(s) : (s \o <<a, b>>)[i] = s[i]
<1> DEFINE t == <<a, b>>
<1>1. t \in Seq(S) /\ Len(t) = 2 /\ t[1] = a /\ t[2] = b
  OBVIOUS
<1> HIDE DEF t
<1>2. /\ s \o t \in Seq(S) /\ Len(s \o t) = Len(s) + 2
      /\ (s \o t)[Len(s) + 1] = a /\ (s \o t)[Len(s) + 2] = b
      /\ \A i \in 1 .. Len(s) : (s \o t)[i] = s[i]
  <2>1. /\ s \o t \in Seq(S) /\ Len(s \o t) = Len(s) + 2 /\ Len(s) \in Nat
        /\ \A i \in 1 .. Len(s) + 2 :
              (s \o t)[i] = IF i <= Len(s) THEN s[i] ELSE t[i - Len(s)]
    <3>1. /\ s \o t \in Seq(S) /\ Len(s \o t) = Len(s) + Len(t)
          /\ \A i \in 1 .. Len(s) + Len(t) :
                (s \o t)[i] = IF i <= Len(s) THEN s[i] ELSE t[i - Len(s)]
      BY <1>1, ConcatProperties
    <3> QED
      BY <1>1, <3>1
  <2>2. /\ Len(s) + 1 \in 1 .. Len(s) + 2 /\ (Len(s) + 1) - Len(s) = 1
        /\ Len(s) + 2 \in 1 .. Len(s) + 2 /\ (Len(s) + 2) - Len(s) = 2
    BY <2>1
  <2>3. (s \o t)[Len(s) + 1] = a
    BY <1>1, <2>1, <2>2
  <2>4. (s \o t)[Len(s) + 2] = b
    BY <1>1, <2>1, <2>2
  <2> QED
    BY <2>1, <2>3, <2>4
<1> QED
  BY <1>2 DEF t

\* A construct and its block; the construct takes the place of the condition
\* it waited for, or is new.
LEMMA Enters ==
    ASSUME TypeOK, Nested, InStep, NEW a \in Activations, NEW b \in Activations,
           NEW k \in 1 .. Len(todo), k \in {Len(todo) - 1, Len(todo)}, Clear(k),
           todo' \in Seq(Activations), Len(todo') = k + 2,
           todo'[k + 1] = a, todo'[k + 2] = b, \A i \in 1 .. k : todo'[i] = todo[i],
           a.fn \notin Evaluating \cup {"program"}, b.fn = "block", mode' = "stmt"
    PROVE  /\ todo' # <<>> /\ todo'[1].fn = "program" /\ Nested' /\ Grows(k)
           /\ (/\ k < Len(todo) => Top.fn # "function"
               /\ a.fn # "function" /\ Len(cur') = Len(cur)) => StackOK'
<1> DEFINE n == Len(todo)
<1>1. /\ n \in Nat \ {0} /\ todo \in Seq(Activations) /\ todo[1].fn = "program"
  BY DEF TypeOK
<1>2. k \in Nat \ {0}
  BY <1>1
<1>4. Grows(k) /\ Top' = b
  <2>1. \A i \in k + 1 .. Len(todo') : i = k + 1 \/ i = k + 2
    BY <1>2
  <2>2. \A i \in k + 1 .. Len(todo') : todo'[i].fn # "program"
    BY <2>1
  <2>3. Len(todo') \in k .. k + 2
    BY <1>2
  <2> QED
    BY <2>2, <2>3 DEF Grows, Top
<1>5. \A i \in k + 1 .. Len(todo') : todo'[i] \in {a, b}
  BY <1>2
<1>6. Nested'
  BY <1>4, <1>5, NestedStep
<1>7. (/\ k < Len(todo) => Top.fn # "function"
       /\ a.fn # "function" /\ Len(cur') = Len(cur)) => InStep'
  <2>1. a.fn # "assign" /\ b.fn # "assign" /\ b.fn # "function"
    BY DEF Evaluating
  <2> QED
    BY <1>4, <1>5, <2>1, InStepKept
<1>8. todo' # <<>> /\ todo'[1] = todo[1]
  BY <1>1, <1>2
<1> QED
  BY <1>1, <1>4, <1>6, <1>7, <1>8 DEF StackOK

\* A call passes its next argument, or it is over.
PassesOrReturns(below) ==
    \/ mode' = "ret" /\ todo' = below
    \/ mode' = "expr" /\ \E a \in Activations : a.fn = "args" /\ todo' = Append(below, a)

(* Passing an argument asks for the next one or returns. *)
LEMMA PassStep ==
    ASSUME NEW e, NEW frame, NEW below, Pass(e, frame, below),
           frame \in [fn : {"args"}, next : Nat, count : Nat,
                     call : PendingCalls, pipe : BOOLEAN]
    PROVE  PassesOrReturns(below)
<1>1. frame \in Activations /\ frame.fn = "args"
  BY DEF Activations, Operating
<1> QED
  BY <1>1 DEF Pass, PassesOrReturns

(* What a name resolves to is a pending call with as many arguments as were counted.
   *)
LEMMA CalleeType ==
    ASSUME TypeOK, NEW name, NEW call \in Callees(name), call.argc \in Nat
    PROVE  call \in PendingCalls
<1>1. CASE name \in Funcs /\ funcs[name] # NoFunc
  <2>1. funcs[name].addr \in Nat
    BY <1>1 DEF TypeOK
  <2>2. call = [by |-> "fcall", target |-> funcs[name].addr, argc |-> funcs[name].argc]
    BY <1>1 DEF Callees
  <2> QED
    BY <2>1, <2>2 DEF PendingCalls
<1>2. CASE ~(name \in Funcs /\ funcs[name] # NoFunc)
  <2>1. PICK x \in modules.externs :
           call = [by |-> "extern", target |-> x.addr, argc |-> x.argc, mod |-> x.mod]
    BY <1>2 DEF Callees
  <2>2. x.addr \in 0 .. pool.size - 1 /\ x.mod \in modules.names
    BY DEF TypeOK
  <2>3. x.addr \in Nat /\ x.mod \in Vars
    BY <2>2 DEF TypeOK
  <2> QED
    BY <2>1, <2>3 DEF PendingCalls
<1> QED
  BY <1>1, <1>2

\* A call that goes through passes on an activation for its arguments.
LEMMA FuncCallPasses ==
    ASSUME TypeOK, NEW n, n.argc \in Nat, NEW args_idx \in {0, 1}, NEW e, NEW below,
           func_call(e, n, args_idx, below)
    PROVE  \/ /\ mode' = "ret" /\ todo' = below /\ em' = e /\ ret' \in {0, NoReg}
              /\ \A call \in Callees(n.name) : call.argc # n.argc + args_idx
           \/ \E frame \in [fn : {"args"}, next : Nat, count : Nat,
                             call : PendingCalls, pipe : BOOLEAN] :
                 /\ Pass(e, frame, below)
                 /\ frame.call \in Callees(n.name) /\ frame.count = n.argc
                 /\ frame.next = args_idx /\ frame.call.argc = n.argc + args_idx
<1>1. CASE \A call \in Callees(n.name) : call.argc # n.argc + args_idx
  BY <1>1 DEF func_call
<1>2. ASSUME NEW call \in Callees(n.name), call.argc = n.argc + args_idx,
             Pass(e, [fn |-> "args", next |-> args_idx, count |-> n.argc,
                      call |-> call, pipe |-> args_idx = 1], below)
      PROVE  \E frame \in [fn : {"args"}, next : Nat, count : Nat,
                            call : PendingCalls, pipe : BOOLEAN] :
                 /\ Pass(e, frame, below)
                 /\ frame.call \in Callees(n.name) /\ frame.count = n.argc
                 /\ frame.next = args_idx /\ frame.call.argc = n.argc + args_idx
  <2>1. call \in PendingCalls
    <3>1. call.argc \in Nat
      BY <1>2
    <3> QED
      BY <3>1, CalleeType
  <2> DEFINE frame == [fn |-> "args", next |-> args_idx, count |-> n.argc,
                       call |-> call, pipe |-> args_idx = 1]
  <2>2. frame \in [fn : {"args"}, next : Nat, count : Nat,
                   call : PendingCalls, pipe : BOOLEAN]
    BY <2>1
  <2>3. /\ frame.call = call /\ frame.count = n.argc /\ frame.next = args_idx
        /\ Pass(e, frame, below)
    BY <1>2
  <2> HIDE DEF frame
  <2> QED
    BY <1>2, <2>2, <2>3
<1> QED
  BY <1>1, <1>2 DEF func_call

(* A call starts to pass its arguments or returns at once. *)
LEMMA FuncCallStep ==
    ASSUME TypeOK, NEW n, n.argc \in Nat, NEW args_idx \in {0, 1}, NEW e, NEW below,
           func_call(e, n, args_idx, below)
    PROVE  PassesOrReturns(below)
  BY FuncCallPasses, PassStep DEF PassesOrReturns

\* The block of a construct keeps the variables of the innermost frame.
LEMMA BlockType ==
    ASSUME TypeOK
    PROVE  /\ Block \in Activations /\ Block.fn = "block"
           /\ [Block EXCEPT !.scoped = FALSE] \in Activations
           /\ [Block EXCEPT !.scoped = FALSE].fn = "block"
<1>1. cur[Len(cur)].locals \in Locals
  <2>1. cur[Len(cur)] \in CompilingFrames
    BY DEF TypeOK
  <2> QED
    BY <2>1 DEF CompilingFrames
<1> HIDE DEF Locals
<1> QED
  BY <1>1 DEF Block, Activations, Holding

Modes == {"expr", "stmt", "ret", "done", "crash"}

(* Visiting any node keeps the shape of the stack. *)
LEMMA VisitStack ==
    ASSUME TypeOK, Nested, InStep, ModulesNamed, NEW n \in Nodes, Visit(n)
    PROVE  StackOK' /\ mode' \in Modes
<1>1. Len(cur') = IF gen_function(n) THEN Len(cur) + 1 ELSE Len(cur)
  BY CurType DEF GeneratorStep
<1>2. /\ mode = "stmt" => Clear(Len(todo))
      /\ Len(todo) \in Nat \ {0} /\ alloc(bitset) \in MaybeRegs
  BY TopType, Allocates DEF Clear, Nested, Evaluating, Operators
<1>3. CASE \/ gen_num(n) \/ gen_bool(n) \/ gen_string(n) \/ gen_var_ref(n)
           \/ gen_break(n) \/ gen_continue(n) \/ gen_module_again(n)
           \/ gen_null(n) \/ gen_program_end(n)
  <2>1. todo' = todo /\ mode' \in {"ret", "done", "crash"} /\ ~gen_function(n)
    BY <1>3
       DEF gen_num, gen_bool, gen_literal, gen_string, gen_var_ref, Leaf, gen_break,
           gen_continue, gen_module_again, gen_null, gen_program_end, AtExpr, AtStmt,
           gen_function
  <2> QED
    BY <1>1, <2>1, Stays DEF Modes
<1>4. CASE gen_unary(n) \/ gen_binary(n)
  <2>1. PICK a \in Activations : /\ a.fn \in {"unary", "left"} /\ todo' = Append(todo, a)
                                /\ mode' = "expr" /\ ~gen_function(n)
    <3>1. [fn |-> "unary"] \in Activations
      BY DEF Activations, Operating
    <3>2. CASE gen_unary(n)
      BY <3>1, <3>2 DEF gen_unary, Descend, Push, AtExpr, AtStmt, gen_function
    <3>3. CASE gen_binary(n)
      <4> DEFINE a == [fn |-> "left", node |-> n, tmp |-> alloc(bitset)]
      <4>1. n \in OperatorNodes
        BY <3>3, NodeFields DEF gen_binary
      <4>2. a \in Activations
        BY <1>2, <4>1 DEF Activations, Operating
      <4> QED
        BY <3>3, <4>2 DEF gen_binary, Descend, Push, AtStmt, gen_function
    <3> QED
      BY <1>4, <3>2, <3>3
  <2> QED
    BY <1>1, <2>1, Calls DEF Modes, Operators, Evaluating
<1>5. CASE gen_func_call(n) \/ gen_vmc(n)
  <2>1. PassesOrReturns(todo) /\ ~gen_function(n)
    <3>1. CASE gen_func_call(n)
      BY <3>1, FuncCallStep, NodeFields
         DEF gen_func_call, AtExpr, AtStmt, gen_function
    <3>2. CASE gen_vmc(n)
      <4> DEFINE call == [by |-> "vmc", target |-> n.idx, argc |-> n.argc]
      <4>1. n.idx \in Nat /\ n.argc \in Nat
        BY <3>2, NodeFields DEF gen_vmc, AtExpr
      <4>2. call \in PendingCalls
        BY <4>1 DEF PendingCalls
      <4> HIDE DEF call
      <4>3. [fn |-> "args", next |-> 0, count |-> n.argc, call |-> call, pipe |-> FALSE]
               \in [fn : {"args"}, next : Nat, count : Nat, call : PendingCalls, pipe : BOOLEAN]
        BY <4>1, <4>2
      <4> QED
        BY <3>2, <4>3, PassStep DEF gen_vmc, call, AtExpr, AtStmt, gen_function
    <3> QED
      BY <1>5, <3>1, <3>2
  <2>2. CASE mode' = "ret" /\ todo' = todo
    BY <1>1, <2>1, <2>2, Stays DEF Modes
  <2>3. CASE mode' = "expr" /\ \E a \in Activations : a.fn = "args" /\ todo' = Append(todo, a)
    BY <1>1, <2>1, <2>3, Calls DEF Modes, Operators, Evaluating
  <2> QED
    BY <2>1, <2>2, <2>3 DEF PassesOrReturns
<1>6. CASE gen_assign(n) \/ gen_return(n) \/ gen_if(n) \/ (gen_loop(n) /\ n.counted)
  <2>0. mode = "stmt" /\ ~gen_function(n)
    BY <1>6 DEF gen_assign, gen_return, gen_if, gen_loop, AtStmt, gen_function
  <2>1. CASE todo' = todo /\ mode' = "ret"
    BY <1>1, <2>0, <2>1, Stays DEF Modes
  <2>2. CASE \E a \in Activations :
                /\ a.fn \in {"assign", "define", "return", "if_cond", "loop_cond"}
                /\ a.fn = "assign" => a.fst < Len(cur)
                /\ todo' = Append(todo, a) /\ mode' = "expr"
    BY <1>1, <1>2, <2>0, <2>2, Calls DEF Modes, Operators, Evaluating
  <2>3. CASE gen_assign(n)
    <3>1. n.name \in Vars /\ n.mut \in BOOLEAN
      BY <2>3, NodeFields DEF gen_assign, AtStmt
    <3>2. Found(n.name) => Distance(n.name) \in Nat /\ Distance(n.name) < Len(cur)
      BY <3>1, Finds
    <3>3. /\ Found(n.name) =>
                [fn |-> "assign", name |-> n.name, fst |-> Distance(n.name)] \in Activations
          /\ [fn |-> "define", name |-> n.name, mut |-> n.mut] \in Activations
      BY <3>1, <3>2 DEF Activations, Using
    <3> QED
      BY <2>1, <2>2, <2>3, <3>2, <3>3 DEF gen_assign, Descend, Push
  <2>4. CASE gen_return(n) \/ gen_if(n) \/ (gen_loop(n) /\ n.counted)
    <3>1. /\ [fn |-> "return"] \in Activations /\ [fn |-> "loop_cond"] \in Activations
          /\ gen_if(n) => [fn |-> "if_cond", has_else |-> n.has_else] \in Activations
      BY NodeFields DEF Activations, Using, gen_if, AtStmt
    <3> QED
      BY <2>2, <2>4, <3>1 DEF gen_return, gen_if, gen_loop, Descend, Push
  <2> QED
    BY <1>6, <2>3, <2>4
<1>7. CASE gen_loop(n) /\ ~n.counted
  <2>1. ~gen_function(n) /\ LoopBody(NoReg, todo) /\ mode = "stmt"
    BY <1>7 DEF gen_loop, AtStmt, gen_function
  <2> DEFINE a == [fn |-> "loop", cond |-> NoReg, start |-> tagging]
  <2>2. a \in Activations
    BY DEF Activations, Holding, MaybeRegs, tagging, Emitted, TypeOK
  <2>3. todo' = todo \o <<a, Block>> /\ mode' = "stmt"
    BY <2>1 DEF LoopBody
  <2>4. a.fn = "loop"
    OBVIOUS
  <2> HIDE DEF a
  <2>5. PICK k \in 1 .. Len(todo), x \in Activations, b \in Activations :
           k = Len(todo) /\ x = a /\ b = Block
    <3>1. Len(todo) \in 1 .. Len(todo)
      BY <1>2
    <3> QED
      BY <2>2, <3>1, BlockType
  <2>6. /\ Clear(k) /\ x.fn \notin Evaluating \cup {"program", "function"} /\ b.fn = "block"
        /\ todo' = todo \o <<x, b>> /\ Len(cur') = Len(cur) /\ k \in {Len(todo) - 1, Len(todo)}
    BY <1>1, <1>2, <2>1, <2>3, <2>4, <2>5, BlockType DEF Operators, Evaluating
  <2>7. /\ todo' \in Seq(Activations) /\ Len(todo') = k + 2
        /\ todo'[k + 1] = x /\ todo'[k + 2] = b /\ \A i \in 1 .. k : todo'[i] = todo[i]
    BY <2>5, <2>6, TwoMore DEF TypeOK
  <2>8. StackOK'
    BY <2>3, <2>5, <2>6, <2>7, Enters, SMTT(20)
  <2> QED
    BY <2>3, <2>8 DEF Modes
<1>8. CASE gen_function(n)
  <2>1. PICK k \in 1 .. Len(todo), a \in Activations, b \in Activations :
           /\ k = Len(todo) /\ a = [fn |-> "function"]
           /\ b = [Block EXCEPT !.scoped = FALSE] /\ b.fn = "block"
    <3>1. Len(todo) \in 1 .. Len(todo) /\ [fn |-> "function"] \in Activations
      BY <1>2 DEF Activations, Holding
    <3> QED
      BY <3>1, BlockType
  <2>2. todo' = todo \o <<a, b>> /\ mode' = "stmt" /\ mode = "stmt"
    BY <1>8, <2>1 DEF gen_function, AtStmt
  <2>3. /\ todo' \in Seq(Activations) /\ todo' # <<>> /\ todo'[1].fn = "program"
        /\ Nested' /\ Grows(k) /\ Len(todo') = k + 2
        /\ todo'[k + 1] = a /\ todo'[k + 2] = b
    <3>1. Clear(k) /\ a.fn \notin Evaluating \cup {"program"}
      BY <1>2, <2>1, <2>2 DEF Operators, Evaluating
    <3>2. /\ todo' \in Seq(Activations) /\ Len(todo') = k + 2
          /\ todo'[k + 1] = a /\ todo'[k + 2] = b /\ \A i \in 1 .. k : todo'[i] = todo[i]
      BY <2>1, <2>2, TwoMore DEF TypeOK
    <3> QED
      BY <2>1, <2>2, <3>1, <3>2, Enters
  <2>4. InStep'
    <3>1. k \in Nat \ {0} /\ Len(cur) = Depth(todo, k) /\ Len(cur) \in Nat
      BY <1>2, <2>1 DEF InStep, TypeOK
    <3>2. Depth(todo', k) = Depth(todo, k)
      <4>1. k \in 0 .. k /\ \A i \in 1 .. k : todo[i] = todo'[i]
        BY <2>3, <3>1 DEF Grows
      <4> QED
        BY <3>1, <4>1, DepthKept
    <3>3. Depth(todo', k + 1) = Depth(todo', k) + 1
      BY <2>1, <2>3, <3>1, DepthNext
    <3>4. Depth(todo', (k + 1) + 1) = Depth(todo', k + 1)
      <4>1. k + 1 \in Nat /\ (k + 1) + 1 = k + 2
        BY <3>1
      <4>2. todo'[(k + 1) + 1].fn # "function"
        BY <2>1, <2>3, <4>1
      <4>3. /\ Depth(todo', k + 1) \in Nat
            /\ Depth(todo', (k + 1) + 1) = Depth(todo', k + 1)
                  + (IF todo'[(k + 1) + 1].fn = "function" THEN 1 ELSE 0)
        BY <4>1, DepthNext
      <4> QED
        BY <4>2, <4>3
    <3>5. Len(cur') = Depth(todo', Len(todo'))
      BY <1>1, <1>8, <2>3, <3>1, <3>2, <3>3, <3>4
    <3>6. ASSUME NEW i \in 1 .. Len(todo'), todo'[i].fn = "assign"
          PROVE  todo'[i].fst < Len(cur')
      <4>a. todo'[k + 1].fn = "function" /\ todo'[k + 2].fn = "block"
        BY <2>1, <2>3
      <4>0. i # k + 1 /\ i # k + 2
        BY <3>6, <4>a
      <4>1. i \in 1 .. k /\ i \in 1 .. Len(todo)
        BY <2>1, <2>3, <3>1, <4>0
      <4>2. todo'[i] = todo[i]
        BY <2>3, <4>1 DEF Grows
      <4>3. todo[i] \in Activations
        BY <4>1 DEF TypeOK
      <4>4. todo[i].fst \in Nat /\ todo[i].fst < Len(cur)
        BY <3>6, <4>1, <4>2, <4>3, Fields DEF InStep
      <4> QED
        BY <1>1, <1>8, <3>1, <4>2, <4>4
    <3> QED
      BY <3>5, <3>6 DEF InStep
  <2> QED
    BY <2>2, <2>3, <2>4 DEF StackOK, Modes
<1>9. CASE gen_block_end(n)
  <2>1. /\ Top.fn = "block" /\ todo' = Below /\ mode' = "ret" /\ ~gen_function(n)
    BY <1>9 DEF gen_block_end, Leave, AtStmt, gen_function
  <2> QED
    BY <1>1, <2>1, Returns DEF Modes
<1>10. CASE gen_module(n)
  <2> DEFINE a == [fn |-> "module", mod |-> ModuleName(n), decls |-> n.decls, next |-> 1]
  <2>1. /\ todo' = Append(todo, a) /\ mode' = "ret" /\ mode = "stmt" /\ ~gen_function(n)
        /\ n.kind = "Module" /\ n.name \notin modules.names
    BY <1>10 DEF gen_module, Push, AtStmt, gen_function
  <2>2. a \in Activations /\ a.fn = "module"
    BY <2>1, NodeFields, ModuleNameType DEF Activations, Holding
  <2> HIDE DEF a
  <2> QED
    BY <1>1, <1>2, <2>1, <2>2, Calls DEF Modes
<1> QED
  BY <1>3, <1>4, <1>5, <1>6, <1>7, <1>8, <1>9, <1>10 DEF Visit

(* Resuming any activation keeps the shape of the stack. *)
LEMMA ResumeStack ==
    ASSUME TypeOK, Nested, InStep, ModulesNamed, Resume
    PROVE  StackOK' /\ mode' \in Modes
<1>1. Len(cur') = IF function_done THEN Len(cur) - 1 ELSE Len(cur)
  BY CurType DEF GeneratorStep
<1>2. /\ Top \in Activations /\ Len(todo) \in Nat \ {0} /\ ret \in MaybeRegs
      /\ mode \in Modes
  BY TopType DEF TypeOK, Modes
<1>3. CASE unary_done \/ binary_right \/ assign_done \/ define_done \/ return_done
           \/ if_else \/ loop_done \/ module_done
  <2>1. /\ todo' = Below /\ mode' = "ret" /\ Top.fn \notin {"program", "function"}
    BY <1>3
       DEF unary_done, binary_right, assign_done, define_done, return_done, if_else,
           loop_done, module_done, Awaiting, Leave
  <2>2. ~function_done
    BY <2>1 DEF function_done, Awaiting
  <2> QED
    BY <1>1, <2>1, <2>2, Returns DEF Modes
<1>4. CASE binary_pipe \/ arg_done
  <2>1. PassesOrReturns(Below)
    <3>1. CASE binary_pipe
      <4>1. Top.node.argc \in Nat
        BY <1>2, <3>1, Fields DEF binary_pipe, Awaiting, OperatorNodes
      <4> QED
        BY <3>1, <4>1, FuncCallStep DEF binary_pipe
    <3>2. CASE arg_done
      <4>1. [Top EXCEPT !.next = @ + 1] \in [fn : {"args"}, next : Nat, count : Nat,
                                              call : PendingCalls, pipe : BOOLEAN]
        BY <1>2, <3>2, Fields DEF arg_done, Awaiting
      <4> QED
        BY <3>2, <4>1, PassStep DEF arg_done
    <3> QED
      BY <1>4, <3>1, <3>2
  <2>2. Top.fn \in Operators /\ Top.fn \notin {"program", "function"} /\ ~function_done
    BY <1>4 DEF binary_pipe, arg_done, function_done, Awaiting, Operators
  <2>3. CASE mode' = "ret" /\ todo' = Below
    BY <1>1, <2>2, <2>3, Returns DEF Modes
  <2>4. CASE mode' = "expr" /\ \E a \in Activations : a.fn = "args" /\ todo' = Append(Below, a)
    BY <1>1, <2>2, <2>4, Continues DEF Modes, Operators, Evaluating
  <2> QED
    BY <2>1, <2>3, <2>4 DEF PassesOrReturns
<1>5. CASE binary_left
  <2> DEFINE a == [fn |-> "right", op |-> Top.node.op, lr |-> Top.tmp]
  <2>1. /\ todo' = Append(Below, a) /\ mode' = "expr" /\ Top.fn = "left"
        /\ Top.node.kind = "Bin" /\ ~function_done
    BY <1>5 DEF binary_left, Awaiting, function_done
  <2>2. a \in Activations /\ a.fn = "right"
    <3>1. Top.node.op \in Ternary /\ Top.tmp \in MaybeRegs
      BY <1>2, <2>1, Fields DEF OperatorNodes
    <3> QED
      BY <3>1 DEF Activations, Operating
  <2> HIDE DEF a
  <2> QED
    BY <1>1, <2>1, <2>2, Continues DEF Modes, Operators, Evaluating
<1>6. CASE module_func
  <2> DEFINE a == [Top EXCEPT !.next = @ + 1]
  <2>1. todo' = Append(Below, a) /\ mode' = "ret" /\ Top.fn = "module" /\ ~function_done
    BY <1>6 DEF module_func, Awaiting, function_done
  <2>2. a \in Activations /\ a.fn = "module"
    <3>1. a \in [fn : {"module"}, mod : Vars, decls : Seq(Declarations), next : Nat \ {0}]
      BY <1>2, <2>1, Fields, SMTT(20)
    <3> QED
      BY <3>1 DEF Activations, Holding
  <2> HIDE DEF a
  <2> QED
    BY <1>1, <2>1, <2>2, Continues DEF Modes, Operators, Evaluating
<1>7. CASE child_done \/ module_func_null
  <2>1. /\ todo' = todo /\ mode' \in {"stmt", "crash"}
        /\ mode' = "stmt" => Top.fn \in {"program", "block"}
        /\ Top.fn # "function"
    BY <1>7 DEF child_done, module_func_null, Awaiting
  <2>2. ~function_done
    BY <2>1 DEF function_done, Awaiting
  <2> QED
    BY <1>1, <2>1, <2>2, Stays DEF Modes
<1>8. CASE if_cond \/ loop_cond \/ (if_then /\ Top.has_else)
  <2>1. PICK a \in Activations :
           /\ a.fn \in {"if_then", "if_else", "loop"} /\ todo' = Below \o <<a, Block>>
           /\ mode' = "stmt" /\ Top.fn \in {"if_cond", "loop_cond", "if_then"}
    <3>1. tagging \in Nat
      BY DEF tagging, Emitted, TypeOK
    <3>2. CASE if_cond
      <4> DEFINE a == [fn |-> "if_then", cond |-> ret, els |-> tagging + 1,
                       has_else |-> Top.has_else]
      <4>1. Top.has_else \in BOOLEAN
        BY <1>2, <3>2, Fields DEF if_cond, Awaiting
      <4>2. a \in Activations
        BY <1>2, <3>1, <4>1 DEF Activations, Holding
      <4> QED
        BY <3>2, <4>2 DEF if_cond, Awaiting
    <3>3. CASE loop_cond
      <4> DEFINE a == [fn |-> "loop", cond |-> ret, start |-> tagging]
      <4>1. a \in Activations
        BY <1>2, <3>1 DEF Activations, Holding
      <4> QED
        BY <3>3, <4>1 DEF loop_cond, LoopBody, Awaiting
    <3>4. CASE if_then /\ Top.has_else
      <4> DEFINE a == [fn |-> "if_else", cond |-> Top.cond, then_end |-> tagging]
      <4>1. Top.cond \in MaybeRegs
        BY <1>2, <3>4, Fields DEF if_then, Awaiting
      <4>2. a \in Activations
        BY <3>1, <4>1 DEF Activations, Holding
      <4> QED
        BY <3>4, <4>2 DEF if_then, Awaiting
    <3> QED
      BY <1>8, <3>2, <3>3, <3>4
  <2>2. ~function_done /\ Top.fn # "program" /\ Top.fn # "function" /\ Top.fn \notin Operators
    BY <2>1 DEF function_done, Awaiting, Operators
  <2>3. PICK k \in 1 .. Len(todo), b \in Activations : k = Len(todo) - 1 /\ b = Block
    BY <1>2, <2>2, TopType, BlockType
  <2>4. /\ Below \in Seq(Activations) /\ Len(Below) = k
        /\ \A i \in 1 .. k : Below[i] = todo[i]
    BY <1>2, <2>3, TopType
  <2>5. /\ todo' \in Seq(Activations) /\ Len(todo') = k + 2
        /\ todo'[k + 1] = a /\ todo'[k + 2] = b /\ \A i \in 1 .. k : todo'[i] = todo[i]
    BY <2>1, <2>3, <2>4, TwoMore
  <2>6. /\ Clear(k) /\ k \in {Len(todo) - 1, Len(todo)} /\ Len(cur') = Len(cur)
        /\ a.fn \notin Evaluating \cup {"program", "function"} /\ b.fn = "block"
    BY <1>1, <1>2, <2>1, <2>2, <2>3, BlockType DEF Clear, Operators, Evaluating
  <2>7. StackOK'
    BY <2>1, <2>2, <2>3, <2>5, <2>6, Enters
  <2> QED
    BY <2>1, <2>7 DEF Modes
<1>9. CASE if_then /\ ~Top.has_else
  <2>1. /\ todo' = Below /\ mode' = "ret" /\ Top.fn = "if_then"
    BY <1>9 DEF if_then, Awaiting, Leave
  <2>2. ~function_done
    BY <2>1 DEF function_done, Awaiting
  <2> QED
    BY <1>1, <2>1, <2>2, Returns DEF Modes
<1>10. CASE function_done
  <2>1. todo' = Below /\ mode' = "ret" /\ Top.fn = "function"
    BY <1>10 DEF function_done, Awaiting, Leave
  <2>2. PICK k \in 1 .. Len(todo) : k = Len(todo) - 1
    BY <1>2, <2>1, TopType
  <2>3. /\ todo' \in Seq(Activations) /\ Len(todo') = k /\ todo'[1].fn = "program"
        /\ \A i \in 1 .. k : todo'[i] = todo[i]
    BY <1>2, <2>1, <2>2, TopType
  <2>4. Nested'
    <3>1. Grows(k) /\ k \in {Len(todo) - 1, Len(todo)}
      BY <2>2, <2>3 DEF Grows
    <3>2. k + 1 .. Len(todo') = {}
      BY <2>2, <2>3
    <3> QED
      BY <2>1, <2>2, <2>3, <3>1, <3>2, NestedStep
  <2>5. Len(cur') = Depth(todo', Len(todo'))
    <3>a. k \in Nat /\ k \in 0 .. k /\ \A i \in 1 .. k : todo[i] = todo'[i]
      BY <1>2, <2>2, <2>3
    <3>1. Depth(todo', k) = Depth(todo, k)
      BY <3>a, DepthKept
    <3>2. /\ Depth(todo, k) \in Nat
          /\ Depth(todo, k + 1) =
                Depth(todo, k) + (IF todo[k + 1].fn = "function" THEN 1 ELSE 0)
      BY <3>a, DepthNext
    <3>3. k + 1 = Len(todo) /\ todo[k + 1].fn = "function"
      BY <1>2, <2>1, <2>2 DEF Top
    <3>4. Len(cur) = Depth(todo, k) + 1
      BY <3>2, <3>3 DEF InStep
    <3> QED
      BY <1>1, <1>10, <2>3, <3>1, <3>2, <3>4
  <2>6. \A i \in 1 .. Len(todo') : todo'[i].fn # "assign"
    <3> TAKE i \in 1 .. Len(todo')
    <3>1. i \in 1 .. Len(todo) /\ i < Len(todo) /\ todo'[i] = todo[i]
          /\ Len(todo) \in 1 .. Len(todo)
      BY <1>2, <2>2, <2>3
    <3> QED
      BY <2>1, <3>1 DEF Nested, Evaluating, Operators, Top
  <2> QED
    BY <2>1, <2>2, <2>3, <2>4, <2>5, <2>6 DEF StackOK, InStep, Modes
<1> QED
  BY <1>3, <1>4, <1>5, <1>6, <1>7, <1>8, <1>9, <1>10 DEF Resume

-----------------------------------------------------------------------------
(* The emitter. *)

Emitters == [ops : Seq(Instructions), ret_type : Ret_Type]

\* e is d with one instruction more.
Longer(d, e, i) ==
    /\ Emitted(e) = Emitted(d) + 1 /\ Emitted(d) \in Nat
    /\ e.ops[Emitted(d) + 1] = i
    /\ \A k \in 1 .. Emitted(d) : e.ops[k] = d.ops[k]

(* Every emitter function appends one well-formed instruction. *)
LEMMA EmitType ==
    ASSUME NEW e \in Emitters, NEW o \in Opcodes, NEW a \in Seq(Int),
           Len(a) = Arity(o), NEW t \in Ret_Type
    PROVE  /\ emit(e, o, a, t) \in Emitters
           /\ Longer(e, emit(e, o, a, t), Op(o, a))
<1>1. Op(o, a) \in Instructions
  BY DEF Op, Instructions
<1>2. e.ops \in Seq(Instructions) /\ e \in [ops : Seq(Instructions), ret_type : Ret_Type]
  BY DEF Emitters
<1>3. /\ Append(e.ops, Op(o, a)) \in Seq(Instructions)
      /\ Len(Append(e.ops, Op(o, a))) = Len(e.ops) + 1 /\ Len(e.ops) \in Nat
      /\ Append(e.ops, Op(o, a))[Len(e.ops) + 1] = Op(o, a)
      /\ \A k \in 1 .. Len(e.ops) : Append(e.ops, Op(o, a))[k] = e.ops[k]
  BY <1>1, <1>2
<1> QED
  BY <1>3 DEF emit, Emitters, Longer, Emitted

(* The operands that the emitter functions write are as many as opcode_len says. *)
LEMMA Arities ==
    /\ \A o \in Ternary \cup {"LOCAL_GET", "LOCAL_SET"} : o \in Opcodes /\ Arity(o) = 3
    /\ \A o \in {"MOV_RI", "MOV_RR", "MOV_RC", "FCALL", "IF_TRUE", "IF_FALSE"} :
          o \in Opcodes /\ Arity(o) = 2
    /\ \A o \in {"JMP", "DEC", "VMC", "FUNC_CREATE", "FUNC_END", "FRET", "HALT"} :
          o \in Opcodes /\ Arity(o) = 1
    /\ \A o \in Opcodes : Arity(o) \in {1, 2, 3}
<1>1. \A o \in Ternary \cup {"LOCAL_GET", "LOCAL_SET"} : o \in Opcodes /\ Arity(o) = 3
  <2>1. \A o \in Ternary \cup {"LOCAL_GET", "LOCAL_SET"} : o \in Opcodes
    BY DEF Opcodes
  <2>2. \A o \in Ternary \cup {"LOCAL_GET", "LOCAL_SET"} : Arity(o) = 3
    BY DEF Arity, Ternary, Arith, Cmp, Logic
  <2> QED
    BY <2>1, <2>2
<1>2. \A o \in {"MOV_RI", "MOV_RR", "MOV_RC", "FCALL", "IF_TRUE", "IF_FALSE"} :
          o \in Opcodes /\ Arity(o) = 2
  BY DEF Opcodes, Arity, Ternary, Arith, Cmp, Logic
<1>3. \A o \in {"JMP", "DEC", "VMC", "FUNC_CREATE", "FUNC_END", "FRET", "HALT"} :
          o \in Opcodes /\ Arity(o) = 1
  <2>1. "FUNC_END" \in Opcodes
    BY DEF Opcodes, Inert
  <2>2. \A o \in {"JMP", "DEC", "VMC", "FUNC_CREATE", "FRET", "HALT"} : o \in Opcodes
    BY DEF Opcodes
  <2> DEFINE S == {"JMP", "DEC", "VMC", "FUNC_CREATE", "FUNC_END", "FRET", "HALT"}
  <2>3. \A o \in S : /\ o \notin Ternary \cup {"LOCAL_GET", "LOCAL_SET"}
                    /\ o \notin {"MOV_RI", "MOV_RR", "MOV_RC", "FCALL", "IF_TRUE", "IF_FALSE"}
    BY DEF Ternary, Arith, Cmp, Logic
  <2>4. \A o \in S : Arity(o) = 1
    BY <2>3 DEF Arity
  <2> QED
    BY <2>1, <2>2, <2>4
<1>4. \A o \in Opcodes : Arity(o) \in {1, 2, 3}
  BY DEF Arity
<1> QED
  BY <1>1, <1>2, <1>3, <1>4

\* What each emitter of one instruction appends.
LEMMA Emits ==
    ASSUME NEW e \in Emitters
    PROVE  /\ \A r, x \in Int :
                 /\ emit_mov_ri(e, r, x) \in Emitters
                 /\ Longer(e, emit_mov_ri(e, r, x), Op("MOV_RI", <<Narrow(r), x>>))
           /\ \A r, x \in Int :
                 /\ emit_mov_rc(e, r, x) \in Emitters
                 /\ Longer(e, emit_mov_rc(e, r, x), Op("MOV_RC", <<Narrow(r), x>>))
           /\ \A r \in Int :
                 /\ emit_dec(e, r) \in Emitters
                 /\ Longer(e, emit_dec(e, r), Op("DEC", <<Narrow(r)>>))
           /\ \A r, x, y \in Int :
                 /\ emit_local_get(e, r, x, y) \in Emitters
                 /\ Longer(e, emit_local_get(e, r, x, y), Op("LOCAL_GET", <<Narrow(r), x, y>>))
           /\ \A r, x, y \in Int :
                 /\ emit_local_set(e, x, y, r) \in Emitters
                 /\ Longer(e, emit_local_set(e, x, y, r), Op("LOCAL_SET", <<x, y, Narrow(r)>>))
           /\ \A x, y \in Int :
                 /\ emit_fcall(e, x, y) \in Emitters
                 /\ Longer(e, emit_fcall(e, x, y), Op("FCALL", <<x, y>>))
           /\ \A x \in Int :
                 /\ emit_jmp(e, x) \in Emitters
                 /\ Longer(e, emit_jmp(e, x), Op("JMP", <<x>>))
           /\ \A r, x \in Int :
                 /\ emit_if_true(e, r, x) \in Emitters
                 /\ Longer(e, emit_if_true(e, r, x), Op("IF_TRUE", <<Narrow(r), x>>))
           /\ \A r, x \in Int :
                 /\ emit_if_false(e, r, x) \in Emitters
                 /\ Longer(e, emit_if_false(e, r, x), Op("IF_FALSE", <<Narrow(r), x>>))
           /\ emit_func_create(e) \in Emitters
           /\ Longer(e, emit_func_create(e), Op("FUNC_CREATE", <<0>>))
           /\ emit_func_end(e) \in Emitters
           /\ Longer(e, emit_func_end(e), Op("FUNC_END", <<0>>))
           /\ \A x \in Int :
                 /\ emit_vmc(e, x) \in Emitters
                 /\ Longer(e, emit_vmc(e, x), Op("VMC", <<x>>))
           /\ \A o \in Ternary : \A r, q, p \in Int :
                 /\ emit_binary(e, o, r, q, p) \in Emitters
                 /\ Longer(e, emit_binary(e, o, r, q, p),
                           Op(o, <<Narrow(r), Narrow(q), Narrow(p)>>))
<1>1. /\ \A r \in Int : Narrow(r) \in Int
      /\ "None" \in Ret_Type /\ "Reg" \in Ret_Type /\ "Addr" \in Ret_Type
      /\ e.ret_type \in Ret_Type
  BY RegCountAssumption DEF Narrow, Ret_Type, Emitters
<1>2. /\ <<0>> \in Seq(Int) /\ Len(<<0>>) = 1
      /\ \A x \in Int : <<x>> \in Seq(Int) /\ Len(<<x>>) = 1
      /\ \A x, y \in Int : <<x, y>> \in Seq(Int) /\ Len(<<x, y>>) = 2
      /\ \A x, y, z \in Int : <<x, y, z>> \in Seq(Int) /\ Len(<<x, y, z>>) = 3
  OBVIOUS
<1>3. ASSUME NEW r \in Int, NEW x \in Int
      PROVE  emit_mov_ri(e, r, x) \in Emitters /\ Longer(e, emit_mov_ri(e, r, x), Op("MOV_RI", <<Narrow(r), x>>))
  BY <1>1, <1>2, Arities, EmitType DEF emit_mov_ri
<1>4. ASSUME NEW r \in Int, NEW x \in Int
      PROVE  emit_mov_rc(e, r, x) \in Emitters /\ Longer(e, emit_mov_rc(e, r, x), Op("MOV_RC", <<Narrow(r), x>>))
  BY <1>1, <1>2, Arities, EmitType DEF emit_mov_rc
<1>5. ASSUME NEW r \in Int
      PROVE  emit_dec(e, r) \in Emitters /\ Longer(e, emit_dec(e, r), Op("DEC", <<Narrow(r)>>))
  BY <1>1, <1>2, Arities, EmitType DEF emit_dec
<1>6. ASSUME NEW r \in Int, NEW x \in Int, NEW y \in Int
      PROVE  emit_local_get(e, r, x, y) \in Emitters /\ Longer(e, emit_local_get(e, r, x, y), Op("LOCAL_GET", <<Narrow(r), x, y>>))
  BY <1>1, <1>2, Arities, EmitType DEF emit_local_get
<1>7. ASSUME NEW r \in Int, NEW x \in Int, NEW y \in Int
      PROVE  emit_local_set(e, x, y, r) \in Emitters /\ Longer(e, emit_local_set(e, x, y, r), Op("LOCAL_SET", <<x, y, Narrow(r)>>))
  BY <1>1, <1>2, Arities, EmitType DEF emit_local_set
<1>8. ASSUME NEW x \in Int, NEW y \in Int
      PROVE  emit_fcall(e, x, y) \in Emitters /\ Longer(e, emit_fcall(e, x, y), Op("FCALL", <<x, y>>))
  BY <1>1, <1>2, Arities, EmitType DEF emit_fcall
<1>9. ASSUME NEW x \in Int
      PROVE  emit_jmp(e, x) \in Emitters /\ Longer(e, emit_jmp(e, x), Op("JMP", <<x>>))
  BY <1>1, <1>2, Arities, EmitType DEF emit_jmp
<1>10. ASSUME NEW r \in Int, NEW x \in Int
      PROVE  emit_if_true(e, r, x) \in Emitters /\ Longer(e, emit_if_true(e, r, x), Op("IF_TRUE", <<Narrow(r), x>>))
  BY <1>1, <1>2, Arities, EmitType DEF emit_if_true
<1>11. ASSUME NEW r \in Int, NEW x \in Int
      PROVE  emit_if_false(e, r, x) \in Emitters /\ Longer(e, emit_if_false(e, r, x), Op("IF_FALSE", <<Narrow(r), x>>))
  BY <1>1, <1>2, Arities, EmitType DEF emit_if_false
<1>12. emit_func_create(e) \in Emitters /\ Longer(e, emit_func_create(e), Op("FUNC_CREATE", <<0>>))
  BY <1>1, <1>2, Arities, EmitType DEF emit_func_create
<1>13. emit_func_end(e) \in Emitters /\ Longer(e, emit_func_end(e), Op("FUNC_END", <<0>>))
  BY <1>1, <1>2, Arities, EmitType DEF emit_func_end
<1>14. ASSUME NEW x \in Int
      PROVE  emit_vmc(e, x) \in Emitters /\ Longer(e, emit_vmc(e, x), Op("VMC", <<x>>))
  BY <1>1, <1>2, Arities, EmitType DEF emit_vmc
<1>15. ASSUME NEW o \in Ternary, NEW r \in Int, NEW q \in Int, NEW p \in Int
       PROVE  /\ emit_binary(e, o, r, q, p) \in Emitters
              /\ Longer(e, emit_binary(e, o, r, q, p),
                        Op(o, <<Narrow(r), Narrow(q), Narrow(p)>>))
  BY <1>1, <1>2, Arities, EmitType DEF emit_binary
<1> QED
  BY <1>3, <1>4, <1>5, <1>6, <1>7, <1>8, <1>9, <1>10, <1>11, <1>12, <1>13, <1>14, <1>15

\* A FRET is appended unless there is one.
LEMMA EmitsFret ==
    ASSUME NEW e \in Emitters
    PROVE  /\ emit_fret(e) \in Emitters
           /\ \/ /\ emit_fret(e) = e /\ Emitted(e) > 0 /\ e.ops[Emitted(e)].op = "FRET"
              \/ Longer(e, emit_fret(e), Op("FRET", <<0>>))
<1>1. /\ emit(e, "FRET", <<0>>, "Reg") \in Emitters
      /\ Longer(e, emit(e, "FRET", <<0>>, "Reg"), Op("FRET", <<0>>))
  <2>1. <<0>> \in Seq(Int) /\ Len(<<0>>) = 1 /\ "Reg" \in Ret_Type
    BY DEF Ret_Type
  <2> QED
    BY <2>1, Arities, EmitType
<1>2. CASE e.ops # <<>> /\ Last(e).op = "FRET"
  <2>1. Emitted(e) > 0
    BY <1>2 DEF Emitted, Emitters
  <2> QED
    BY <1>2, <2>1 DEF emit_fret, Last
<1>3. CASE ~(e.ops # <<>> /\ Last(e).op = "FRET")
  BY <1>1, <1>3 DEF emit_fret
<1> QED
  BY <1>2, <1>3

\* A sequence with one element replaced, or none where there is none.
LEMMA Replaces ==
    ASSUME NEW S, NEW s \in Seq(S), NEW k \in Int, NEW x, k \in 1 .. Len(s) => x \in S
    PROVE  /\ [s EXCEPT ![k] = x] \in Seq(S) /\ Len([s EXCEPT ![k] = x]) = Len(s)
           /\ \A j \in 1 .. Len(s) : [s EXCEPT ![k] = x][j] = IF j = k THEN x ELSE s[j]
<1> DEFINE t == [s EXCEPT ![k] = x]
<1>1. /\ Len(s) \in Nat /\ DOMAIN s = 1 .. Len(s) /\ \A j \in 1 .. Len(s) : s[j] \in S
  OBVIOUS
<1>2. /\ DOMAIN t = 1 .. Len(s)
      /\ \A j \in 1 .. Len(s) : t[j] = IF j = k THEN x ELSE s[j]
  BY <1>1
<1>3. t = [j \in 1 .. Len(s) |-> t[j]] /\ \A j \in 1 .. Len(s) : t[j] \in S
  BY <1>1, <1>2
<1> HIDE DEF t
<1>4. t \in Seq(S) /\ Len(t) = Len(s)
  BY <1>1, <1>3, IsASeq, LenProperties
<1> QED
  BY <1>2, <1>4 DEF t

\* An instruction keeps its operands' number when one of them is replaced.
LEMMA OperandType ==
    ASSUME NEW i \in Instructions, NEW k \in Int, NEW x \in Int
    PROVE  [i EXCEPT !.operands[k] = x] \in Instructions
<1>1. i \in [op : Opcodes, operands : Seq(Int)] /\ Len(i.operands) = Arity(i.op)
  BY DEF Instructions
<1>2. /\ [i.operands EXCEPT ![k] = x] \in Seq(Int)
      /\ Len([i.operands EXCEPT ![k] = x]) = Len(i.operands)
  BY <1>1, Replaces
<1> QED
  BY <1>1, <1>2 DEF Instructions

\* e is d with the instruction k replaced.
Changed(d, e, k, i) ==
    /\ e.ops = [d.ops EXCEPT ![k] = i] /\ e.ret_type = d.ret_type
    /\ Emitted(e) = Emitted(d)
    /\ \A j \in 1 .. Emitted(d) : e.ops[j] = IF j = k THEN i ELSE d.ops[j]

(* Writing over one instruction, as a patch and the peephole do, changes that one
   only. *)
LEMMA ChangeType ==
    ASSUME NEW e \in Emitters, NEW k \in Int, NEW i,
           k \in 1 .. Emitted(e) => i \in Instructions
    PROVE  /\ [e EXCEPT !.ops[k] = i] \in Emitters
           /\ Changed(e, [e EXCEPT !.ops[k] = i], k, i)
<1>1. e.ops \in Seq(Instructions) /\ e \in [ops : Seq(Instructions), ret_type : Ret_Type]
  BY DEF Emitters
<1>2. /\ [e.ops EXCEPT ![k] = i] \in Seq(Instructions)
      /\ Len([e.ops EXCEPT ![k] = i]) = Len(e.ops)
      /\ \A j \in 1 .. Len(e.ops) :
            [e.ops EXCEPT ![k] = i][j] = IF j = k THEN i ELSE e.ops[j]
  BY <1>1, Replaces DEF Emitted
<1> QED
  BY <1>1, <1>2 DEF Emitters, Emitted, Changed

\* A move changes nothing, the last instruction, or appends itself.
LEMMA EmitsMove ==
    ASSUME NEW e \in Emitters, NEW r1 \in Int, NEW r2 \in Int
    PROVE  /\ emit_mov_rr(e, r1, r2) \in Emitters
           /\ \/ emit_mov_rr(e, r1, r2) = e /\ Narrow(r1) = Narrow(r2)
              \/ /\ Retargets(e, r2) /\ Emitted(e) > 0
                 /\ Changed(e, emit_mov_rr(e, r1, r2), Emitted(e),
                            [e.ops[Emitted(e)] EXCEPT !.operands[1] = Narrow(r1)])
              \/ /\ Longer(e, emit_mov_rr(e, r1, r2),
                           Op("MOV_RR", <<Narrow(r1), Narrow(r2)>>))
                 /\ ~Retargets(e, r2)
<1> DEFINE n1 == Narrow(r1)
           n2 == Narrow(r2)
<1>1. n1 \in Int /\ n2 \in Int /\ Emitted(e) \in Nat /\ e.ops \in Seq(Instructions)
  BY RegCountAssumption DEF Narrow, Emitted, Emitters
<1> HIDE DEF n1, n2
<1>2. CASE n1 = n2
  BY <1>2 DEF emit_mov_rr, n1, n2
<1>3. CASE n1 # n2 /\ Retargets(e, r2)
  <2>1. Emitted(e) > 0 /\ e.ops[Emitted(e)] \in Instructions
    BY <1>1, <1>3 DEF Retargets, Emitted
  <2>2. [e.ops[Emitted(e)] EXCEPT !.operands[1] = n1] \in Instructions
    BY <1>1, <2>1, OperandType
  <2>3. emit_mov_rr(e, r1, r2) =
           [e EXCEPT !.ops[Emitted(e)] = [e.ops[Emitted(e)] EXCEPT !.operands[1] = n1]]
    BY <1>3 DEF emit_mov_rr, n1, n2
  <2> DEFINE i == [e.ops[Emitted(e)] EXCEPT !.operands[1] = n1]
  <2> HIDE DEF i
  <2>4. /\ [e EXCEPT !.ops[Emitted(e)] = i] \in Emitters
        /\ Changed(e, [e EXCEPT !.ops[Emitted(e)] = i], Emitted(e), i)
    <3>1. i \in Instructions /\ Emitted(e) \in Int
      BY <1>1, <2>2 DEF i
    <3> QED
      BY <3>1, ChangeType
  <2> QED
    BY <1>3, <2>1, <2>3, <2>4 DEF n1, i
<1>4. CASE n1 # n2 /\ ~Retargets(e, r2)
  <2>1. <<n1, n2>> \in Seq(Int) /\ Len(<<n1, n2>>) = 2
    BY <1>1
  <2>2. emit_mov_rr(e, r1, r2) = emit(e, "MOV_RR", <<n1, n2>>, "Reg")
    BY <1>4 DEF emit_mov_rr, n1, n2
  <2>3. /\ emit(e, "MOV_RR", <<n1, n2>>, "Reg") \in Emitters
        /\ Longer(e, emit(e, "MOV_RR", <<n1, n2>>, "Reg"), Op("MOV_RR", <<n1, n2>>))
    BY <2>1, Arities, EmitType DEF Ret_Type
  <2> QED
    BY <1>4, <2>2, <2>3 DEF n1, n2
<1> QED
  BY <1>2, <1>3, <1>4

\* A jump gets its target.
LEMMA Patches ==
    ASSUME NEW e \in Emitters, NEW at \in Int, NEW x \in Int
    PROVE  /\ patch(e, at, x) \in Emitters
           /\ Changed(e, patch(e, at, x), at + 1,
                 [e.ops[at + 1] EXCEPT !.operands[Arity(e.ops[at + 1].op)] = x])
<1> DEFINE i == [e.ops[at + 1] EXCEPT !.operands[Arity(e.ops[at + 1].op)] = x]
<1>1. patch(e, at, x) = [e EXCEPT !.ops[at + 1] = i]
  BY DEF patch
<1>2. at + 1 \in 1 .. Emitted(e) => i \in Instructions
  <2>1. SUFFICES ASSUME at + 1 \in 1 .. Emitted(e)
                 PROVE  i \in Instructions
    OBVIOUS
  <2>2. e.ops[at + 1] \in Instructions
    BY <2>1 DEF Emitters, Emitted
  <2>3. Arity(e.ops[at + 1].op) \in Int
    BY <2>2, Arities DEF Instructions
  <2> QED
    BY <2>2, <2>3, OperandType
<1> HIDE DEF i
<1>3. at + 1 \in Int
  OBVIOUS
<1>4. /\ [e EXCEPT !.ops[at + 1] = i] \in Emitters
      /\ Changed(e, [e EXCEPT !.ops[at + 1] = i], at + 1, i)
  BY <1>2, <1>3, ChangeType
<1> QED
  BY <1>1, <1>4 DEF i

\* The jumps of a loop get theirs.
LEMMA PatchesAll ==
    ASSUME NEW e \in Emitters, NEW points, NEW x \in Int
    PROVE  /\ patch_all(e, points, x) \in Emitters
           /\ Emitted(patch_all(e, points, x)) = Emitted(e)
           /\ \A k \in 1 .. Emitted(e) : patch_all(e, points, x).ops[k] =
                 IF k - 1 \in points THEN Op("JMP", <<x>>) ELSE e.ops[k]
<1>1. /\ e.ops \in Seq(Instructions) /\ Len(e.ops) \in Nat
      /\ e \in [ops : Seq(Instructions), ret_type : Ret_Type]
  BY DEF Emitters
<1>2. Op("JMP", <<x>>) \in Instructions
  <2>1. <<x>> \in Seq(Int) /\ Len(<<x>>) = 1
    OBVIOUS
  <2> QED
    BY <2>1, Arities DEF Op, Instructions
<1> DEFINE j == Op("JMP", <<x>>)
           t == [i \in 1 .. Len(e.ops) |-> IF i - 1 \in points THEN j ELSE e.ops[i]]
<1> HIDE DEF j
<1>3. t \in Seq(Instructions) /\ Len(t) = Len(e.ops)
  <2>1. \A i \in 1 .. Len(e.ops) : (IF i - 1 \in points THEN j ELSE e.ops[i]) \in Instructions
    BY <1>1, <1>2 DEF j
  <2> QED
    BY <1>1, <2>1
<1>4. \A k \in 1 .. Len(e.ops) : t[k] = IF k - 1 \in points THEN j ELSE e.ops[k]
  OBVIOUS
<1>5. patch_all(e, points, x) = [e EXCEPT !.ops = t]
  BY DEF patch_all, j
<1> HIDE DEF t
<1> QED
  BY <1>1, <1>3, <1>4, <1>5 DEF Emitters, Emitted, j

\* The code is typed and has grown from what it was in d.
Grown(d, e) == e \in Emitters /\ Emitted(e) \in Nat /\ Emitted(d) <= Emitted(e)

(* No emitter function shortens the code or leaves an ill-formed instruction. *)
LEMMA GrownMore ==
    ASSUME NEW d, Emitted(d) \in Nat, NEW e, Grown(d, e)
    PROVE  /\ \A r, x \in Int : Grown(d, emit_mov_ri(e, r, x))
           /\ \A r, x \in Int : Grown(d, emit_mov_rc(e, r, x))
           /\ \A r \in Int : Grown(d, emit_dec(e, r))
           /\ \A r, x, y \in Int : Grown(d, emit_local_get(e, r, x, y))
           /\ \A r, x, y \in Int : Grown(d, emit_local_set(e, x, y, r))
           /\ \A x, y \in Int : Grown(d, emit_fcall(e, x, y))
           /\ \A x \in Int : Grown(d, emit_jmp(e, x))
           /\ \A r, x \in Int : Grown(d, emit_if_true(e, r, x))
           /\ \A r, x \in Int : Grown(d, emit_if_false(e, r, x))
           /\ Grown(d, emit_func_create(e))
           /\ Grown(d, emit_func_end(e))
           /\ \A x \in Int : Grown(d, emit_vmc(e, x))
           /\ \A o \in Ternary : \A r, q, p \in Int : Grown(d, emit_binary(e, o, r, q, p))
           /\ Grown(d, emit_fret(e))
           /\ \A r, q \in Int : Grown(d, emit_mov_rr(e, r, q))
           /\ \A at, x \in Int : Grown(d, patch(e, at, x))
           /\ \A points : \A x \in Int : Grown(d, patch_all(e, points, x))
<1>1. e \in Emitters /\ Emitted(e) \in Nat /\ Emitted(d) <= Emitted(e)
  BY DEF Grown
<1>2. \A f \in Emitters : \A i : Longer(e, f, i) => Grown(d, f)
  BY <1>1 DEF Grown, Longer
<1>3. \A f \in Emitters : \A k, i : Changed(e, f, k, i) => Grown(d, f)
  BY <1>1 DEF Grown, Changed
<1>4. \A r, x \in Int : Grown(d, emit_mov_ri(e, r, x))
  BY <1>1, <1>2, Emits
<1>5. \A r, x \in Int : Grown(d, emit_mov_rc(e, r, x))
  BY <1>1, <1>2, Emits
<1>6. \A r \in Int : Grown(d, emit_dec(e, r))
  BY <1>1, <1>2, Emits
<1>7. ASSUME NEW r \in Int, NEW x \in Int, NEW y \in Int
      PROVE  Grown(d, emit_local_get(e, r, x, y)) /\ Grown(d, emit_local_set(e, x, y, r))
  <2>1. emit_local_get(e, r, x, y) \in Emitters /\ emit_local_set(e, x, y, r) \in Emitters
    BY <1>1, Emits
  <2>2. /\ Longer(e, emit_local_get(e, r, x, y), Op("LOCAL_GET", <<Narrow(r), x, y>>))
        /\ Longer(e, emit_local_set(e, x, y, r), Op("LOCAL_SET", <<x, y, Narrow(r)>>))
    BY <1>1, Emits
  <2> QED
    BY <1>2, <2>1, <2>2
<1>9. \A x, y \in Int : Grown(d, emit_fcall(e, x, y))
  BY <1>1, <1>2, Emits
<1>10. \A x \in Int : Grown(d, emit_jmp(e, x))
  BY <1>1, <1>2, Emits
<1>11. \A r, x \in Int : Grown(d, emit_if_true(e, r, x))
  BY <1>1, <1>2, Emits
<1>12. \A r, x \in Int : Grown(d, emit_if_false(e, r, x))
  BY <1>1, <1>2, Emits
<1>13. Grown(d, emit_func_create(e))
  BY <1>1, <1>2, Emits
<1>14. Grown(d, emit_func_end(e))
  BY <1>1, <1>2, Emits
<1>15. \A x \in Int : Grown(d, emit_vmc(e, x))
  BY <1>1, <1>2, Emits
<1>16. ASSUME NEW o \in Ternary, NEW r \in Int, NEW q \in Int, NEW p \in Int
       PROVE  Grown(d, emit_binary(e, o, r, q, p))
  <2>1. emit_binary(e, o, r, q, p) \in Emitters
    BY <1>1, Emits
  <2>2. Longer(e, emit_binary(e, o, r, q, p), Op(o, <<Narrow(r), Narrow(q), Narrow(p)>>))
    BY <1>1, Emits
  <2> QED
    BY <1>2, <2>1, <2>2
<1>17. Grown(d, emit_fret(e))
  BY <1>1, <1>2, EmitsFret
<1>18. \A r, q \in Int : Grown(d, emit_mov_rr(e, r, q))
  BY <1>1, <1>2, <1>3, EmitsMove
<1>19. \A at, x \in Int : Grown(d, patch(e, at, x))
  BY <1>1, <1>3, Patches
<1>20. \A points : \A x \in Int : Grown(d, patch_all(e, points, x))
  BY <1>1, PatchesAll DEF Grown
<1> QED
  BY <1>4, <1>5, <1>6, <1>7, <1>9, <1>10, <1>11, <1>12, <1>13, <1>14, <1>15, <1>16, <1>17, <1>18, <1>19, <1>20

(* GrownMore for the instructions of one operand. *)
LEMMA GrownCalls ==
    ASSUME NEW d, Emitted(d) \in Nat, NEW e, Grown(d, e), NEW x \in Int
    PROVE  /\ Grown(d, emit_vmc(e, x)) /\ Grown(d, emit_jmp(e, x))
           /\ Grown(d, emit_dec(e, x)) /\ Grown(d, emit_func_create(e))
           /\ Grown(d, emit_func_end(e)) /\ Grown(d, emit_fret(e))
  BY GrownMore

(* GrownMore for jumps that are emitted or patched, and for calls. *)
LEMMA GrownTests ==
    ASSUME NEW d, Emitted(d) \in Nat, NEW e, Grown(d, e), NEW r \in Int, NEW x \in Int
    PROVE  /\ Grown(d, emit_if_true(e, r, x)) /\ Grown(d, emit_if_false(e, r, x))
           /\ Grown(d, patch(e, r, x)) /\ Grown(d, emit_fcall(e, r, x))
           /\ \A points : Grown(d, patch_all(e, points, x))
  BY GrownMore

(* GrownMore for reads and writes of slots. *)
LEMMA GrownLocals ==
    ASSUME NEW d, Emitted(d) \in Nat, NEW e, Grown(d, e),
           NEW r \in Int, NEW x \in Int, NEW y \in Int
    PROVE  Grown(d, emit_local_get(e, r, x, y)) /\ Grown(d, emit_local_set(e, x, y, r))
  BY GrownMore

(* Passing an argument only extends the code. *)
LEMMA PassCode ==
    ASSUME TypeOK, NEW d, Emitted(d) \in Nat, NEW e, Grown(d, e), NEW frame, NEW below,
           frame.call \in PendingCalls, Pass(e, frame, below)
    PROVE  Grown(d, em')
<1>1. ASSUME NEW call \in PendingCalls
      PROVE  Grown(d, Emitting(e, call))
  <2>1. call.target \in Int /\ call.argc \in Int
    BY DEF PendingCalls
  <2>2. CASE call.by = "vmc"
    BY <2>1, <2>2, GrownMore DEF Emitting
  <2>3. CASE call.by = "fcall"
    BY <2>1, <2>3, GrownMore DEF Emitting
  <2>4. CASE call.by = "extern"
    <3>1. call.mod \in Vars
      BY <2>4 DEF PendingCalls
    <3>2. Found(call.mod) => Distance(call.mod) \in Int /\ find_var(call.mod).addr \in Int
      BY <3>1, Finds
    <3> DEFINE got == IF Found(call.mod)
                      THEN emit_local_get(e, 0, Distance(call.mod), find_var(call.mod).addr)
                      ELSE emit_local_get(e, 0, 255, 65535)
    <3>4. Grown(d, got)
      BY <3>2, GrownMore
    <3> HIDE DEF got
    <3>5. Grown(d, emit_mov_rc(got, 1, call.target))
      BY <2>1, <3>4, GrownMore
    <3> DEFINE named == emit_mov_rc(got, 1, call.target)
    <3> HIDE DEF named
    <3>6. Grown(d, emit_vmc(named, 5))
      <4>1. Grown(d, named)
        BY <3>5 DEF named
      <4> QED
        BY <4>1, GrownMore
    <3>3. Grown(d, emit_extern(e, call))
      BY <3>6 DEF emit_extern, got, named
    <3> QED
      BY <2>4, <3>3 DEF Emitting
  <2> QED
    BY <2>2, <2>3, <2>4 DEF PendingCalls
<1> QED
  BY <1>1 DEF Pass

(* Compiling a call only extends the code. *)
LEMMA FuncCallCode ==
    ASSUME TypeOK, NEW d, Emitted(d) \in Nat, NEW e, Grown(d, e), NEW n, n.argc \in Nat,
           NEW args_idx \in {0, 1}, NEW below, func_call(e, n, args_idx, below)
    PROVE  Grown(d, em')
<1>1. CASE em' = e
  BY <1>1
<1>2. CASE \E frame \in [fn : {"args"}, next : Nat, count : Nat,
                          call : PendingCalls, pipe : BOOLEAN] : Pass(e, frame, below)
  BY <1>2, PassCode
<1> QED
  BY <1>1, <1>2, FuncCallPasses

\* A function stores its arguments, one instruction for each.
LEMMA ParamsCode ==
    ASSUME NEW e \in Emitters, NEW n, n.params \in Seq(Vars)
    PROVE  /\ emit_params(e, n) \in Emitters
           /\ Emitted(emit_params(e, n)) = Emitted(e) + Len(n.params) /\ Emitted(e) \in Nat
           /\ \A k \in 1 .. Emitted(e) : emit_params(e, n).ops[k] = e.ops[k]
           /\ \A i \in 1 .. Len(n.params) : emit_params(e, n).ops[Emitted(e) + i] =
                 Op("LOCAL_SET", <<0, i - 1, REG_COUNT_INDEX_MAX - (i - 1)>>)
<1> DEFINE store(i) == Op("LOCAL_SET", <<0, i - 1, REG_COUNT_INDEX_MAX - (i - 1)>>)
           k == Len(n.params)
           t == [i \in 1 .. k |-> store(i)]
<1>1. e.ops \in Seq(Instructions) /\ k \in Nat /\ e.ret_type \in Ret_Type
  BY DEF Emitters
<1>a. Len(e.ops) \in Nat /\ k \in Nat
  BY <1>1
<1>2. ASSUME NEW i \in 1 .. k
      PROVE  store(i) \in Instructions
  <2>1. 0 \in Int /\ i - 1 \in Int /\ REG_COUNT_INDEX_MAX - (i - 1) \in Int
    BY <1>1, RegCountAssumption DEF REG_COUNT_INDEX_MAX
  <2>2. /\ <<0, i - 1, REG_COUNT_INDEX_MAX - (i - 1)>> \in Seq(Int)
        /\ Len(<<0, i - 1, REG_COUNT_INDEX_MAX - (i - 1)>>) = 3
    BY <2>1
  <2> QED
    BY <2>2, Arities DEF Op, Instructions
<1> HIDE DEF store
<1>3. t \in Seq(Instructions) /\ Len(t) = k /\ \A i \in 1 .. k : t[i] = store(i)
  BY <1>1, <1>2
<1> HIDE DEF t
<1>4. /\ e.ops \o t \in Seq(Instructions) /\ Len(e.ops \o t) = Len(e.ops) + k
      /\ \A i \in 1 .. Len(e.ops) + k :
            (e.ops \o t)[i] = IF i <= Len(e.ops) THEN e.ops[i] ELSE t[i - Len(e.ops)]
      /\ Len(e.ops) \in Nat
  <2>1. /\ e.ops \o t \in Seq(Instructions) /\ Len(e.ops \o t) = Len(e.ops) + Len(t)
        /\ \A i \in 1 .. Len(e.ops) + Len(t) :
              (e.ops \o t)[i] = IF i <= Len(e.ops) THEN e.ops[i] ELSE t[i - Len(e.ops)]
    BY <1>1, <1>3, ConcatProperties
  <2>2. Len(t) = k
    BY <1>3
  <2> HIDE DEF k
  <2> QED
    BY <1>a, <2>2, <2>1
<1>5. \A i \in 1 .. k : (e.ops \o t)[Len(e.ops) + i] = store(i)
  <2> TAKE i \in 1 .. k
  <2>1. /\ Len(e.ops) + i \in 1 .. Len(e.ops) + k /\ ~(Len(e.ops) + i <= Len(e.ops))
        /\ (Len(e.ops) + i) - Len(e.ops) = i
    <3>1. PICK m \in Nat : m = Len(e.ops)
      BY <1>a
    <3>2. i \in Int /\ 1 <= i /\ i <= k
      BY <1>a
    <3>3. m + i \in 1 .. m + k /\ ~(m + i <= m) /\ (m + i) - m = i
      BY <1>a, <3>2
    <3> QED
      BY <3>1, <3>3
  <2> QED
    BY <1>3, <1>4, <2>1
<1>6. emit_params(e, n) =
         [ops |-> e.ops \o t, ret_type |-> IF n.params = <<>> THEN e.ret_type ELSE "Addr"]
  BY DEF emit_params, t, store
<1>7. \A i \in 1 .. Len(e.ops) : (e.ops \o t)[i] = e.ops[i]
  BY <1>1, <1>4
<1> DEFINE u == e.ops \o t
<1> HIDE DEF u
<1>8. /\ emit_params(e, n).ops = u /\ u \in Seq(Instructions)
      /\ emit_params(e, n) \in Emitters
  BY <1>1, <1>4, <1>6 DEF u, Emitters, Ret_Type
<1> QED
  BY <1>4, <1>5, <1>7, <1>8 DEF Emitted, u, store

(* Every step leaves well-formed code that is no shorter. *)
LEMMA CodeType ==
    ASSUME TypeOK, InStep, ModulesNamed, GeneratorStep
    PROVE  Grown(em, em')
<1> DEFINE d == em
<1>1. /\ Grown(em, em) /\ Emitted(em) \in Nat
      /\ ret \in Int /\ Top \in Activations /\ bitset \in Bitsets
      /\ alloc(bitset) \in Int /\ tagging \in Nat /\ MaybeRegs \subseteq Int
      /\ REG_COUNT_INDEX_MAX \in Int /\ NoReg \in Int
  <2>1. MaybeRegs \subseteq Int /\ REG_COUNT_INDEX_MAX \in Int /\ NoReg \in Int
    BY RegCountAssumption DEF MaybeRegs, NoReg, REG_COUNT_INDEX_MAX
  <2>2. Grown(em, em) /\ Emitted(em) \in Nat /\ tagging \in Nat
    BY DEF Grown, Emitters, Emitted, TypeOK, tagging
  <2> QED
    BY <2>1, <2>2, TopType, Allocates DEF TypeOK
<1> HIDE DEF d
<1>2. ASSUME NEW n \in Nodes, Visit(n)
      PROVE  Grown(em, em')
  <2>1. CASE gen_num(n) \/ gen_bool(n)
    <3>1. gen_num(n) => n.value \in Int
      BY NodeFields DEF gen_num, AtExpr
    <3> QED
      BY <1>1, <2>1, <3>1, GrownMore DEF gen_num, gen_bool, gen_literal
  <2>2. CASE gen_string(n)
    <3>1. pool.size \in Int
      BY DEF TypeOK
    <3> QED
      BY <1>1, <2>2, <3>1, GrownMore DEF gen_string
  <2>3. CASE gen_var_ref(n)
    <3>1. n.name \in Vars
      BY <2>3, NodeFields DEF gen_var_ref, AtExpr
    <3>2. Found(n.name) => Distance(n.name) \in Int /\ find_var(n.name).addr \in Int
      BY <3>1, Finds
    <3> QED
      BY <1>1, <2>3, <3>2, GrownMore DEF gen_var_ref
  <2>4. CASE gen_func_call(n)
    <3>1. n.argc \in Nat
      BY <2>4, NodeFields DEF gen_func_call, AtExpr
    <3> QED
      BY <1>1, <2>4, <3>1, FuncCallCode DEF gen_func_call
  <2>5. CASE gen_vmc(n)
    <3>1. n.idx \in Nat /\ n.argc \in Nat
      BY <2>5, NodeFields DEF gen_vmc, AtExpr
    <3> DEFINE frame == [fn |-> "args", next |-> 0, count |-> n.argc,
                         call |-> [by |-> "vmc", target |-> n.idx, argc |-> n.argc],
                         pipe |-> FALSE]
    <3>2. frame.call \in PendingCalls
      BY <3>1 DEF PendingCalls
    <3>3. Pass(em, frame, todo)
      BY <2>5 DEF gen_vmc
    <3> QED
      BY <1>1, <3>2, <3>3, PassCode
  <2>6. CASE gen_function(n)
    <3> DEFINE created == emit_func_create(em)
    <3>1. Grown(em, created)
      BY <1>1, GrownMore
    <3>2. em' = emit_params(created, n) /\ n.params \in Seq(Vars)
      BY <2>6, NodeFields DEF gen_function, AtStmt
    <3> HIDE DEF created
    <3>3. created \in Emitters /\ Len(n.params) \in Nat
      BY <3>1, <3>2 DEF Grown
    <3>4. /\ emit_params(created, n) \in Emitters
          /\ Emitted(emit_params(created, n)) = Emitted(created) + Len(n.params)
      BY <3>2, <3>3, ParamsCode
    <3> QED
      BY <1>1, <3>1, <3>2, <3>3, <3>4 DEF Grown
  <2>7. CASE gen_module(n)
    <3> DEFINE x == ModuleName(n)
               frame == module_var(x)
               r == alloc(bitset)
               named == emit_mov_rc(em, r, pool.size)
               moved == emit_mov_rc(named, REG_COUNT_INDEX_MAX, r - 1)
               loaded == emit_vmc(moved, 3)
    <3>1. r - 1 \in Int /\ pool.size \in Int /\ Len(cur) - 1 \in Int
      BY <1>1 DEF TypeOK
    <3>2. frame.local_count \in Int
      <4>1. cur[Len(cur)] \in CompilingFrames
        BY DEF TypeOK
      <4>2. cur[Len(cur)].local_count + 1 \in Int
        BY <4>1 DEF CompilingFrames, Slots, NoSlot
      <4>3. [cur[Len(cur)] EXCEPT !.local_count = @ + 1].local_count
               = cur[Len(cur)].local_count + 1
        BY <4>1 DEF CompilingFrames
      <4>4. new_var(cur[Len(cur)], x, FALSE).local_count = cur[Len(cur)].local_count + 1
        BY DEF new_var, NewSlot
      <4> QED
        BY <4>2, <4>3, <4>4 DEF module_var
    <3>3. Grown(em, named)
      BY <1>1, <3>1, GrownMore
    <3> HIDE DEF named
    <3>4. Grown(em, moved)
      BY <1>1, <3>1, <3>3, GrownMore
    <3> HIDE DEF moved
    <3>5. Grown(em, loaded)
      BY <1>1, <3>4, GrownMore
    <3> HIDE DEF loaded
    <3> DEFINE last == IF n.dyn THEN loaded ELSE em
    <3>6. Grown(em, last)
      BY <1>1, <3>5
    <3>7. em' = emit_local_set(last, Len(cur) - 1, frame.local_count, 0)
      BY <2>7 DEF gen_module, loaded, moved, named
    <3> HIDE DEF last, frame
    <3>8. 0 \in Int
      OBVIOUS
    <3> QED
      BY <1>1, <3>1, <3>2, <3>6, <3>7, <3>8, GrownLocals
  <2>8. CASE gen_break(n) \/ gen_continue(n)
    BY <1>1, <2>8, GrownMore DEF gen_break, gen_continue
  <2>9. CASE gen_program_end(n)
    <3>1. em' = emit(em, "HALT", <<0>>, em.ret_type)
      BY <2>9 DEF gen_program_end, emit, TypeOK
    <3>2. <<0>> \in Seq(Int) /\ Len(<<0>>) = 1 /\ em \in Emitters /\ em.ret_type \in Ret_Type
      BY DEF TypeOK, Emitters
    <3>3. em' \in Emitters /\ Longer(em, em', Op("HALT", <<0>>))
      BY <3>1, <3>2, Arities, EmitType
    <3> QED
      BY <3>3 DEF Grown, Longer
  <2>10. CASE gen_loop(n)
    BY <1>1, <2>10, GrownMore DEF gen_loop, LoopBody, Descend
  <2>11. CASE \/ gen_unary(n) \/ gen_binary(n) \/ gen_assign(n) \/ gen_return(n)
              \/ gen_null(n) \/ gen_if(n) \/ gen_block_end(n) \/ gen_module_again(n)
    BY <1>1, <2>11
       DEF gen_unary, gen_binary, gen_assign, gen_return, gen_null, gen_if,
           gen_block_end, gen_module_again, Descend
  <2> QED
    BY <1>2, <2>1, <2>2, <2>3, <2>4, <2>5, <2>6, <2>7, <2>8, <2>9, <2>10, <2>11 DEF Visit
<1>3. ASSUME Resume
      PROVE  Grown(em, em')
  <2>1. CASE unary_done
    <3> DEFINE zero == emit_mov_ri(em, alloc(bitset), 0)
    <3>1. Grown(em, zero)
      BY <1>1, GrownMore
    <3>2. em' = emit_binary(zero, "SUB", alloc(bitset), alloc(bitset), ret)
      BY <2>1 DEF unary_done
    <3>3. "SUB" \in Ternary
      BY DEF Ternary, Arith
    <3> HIDE DEF zero
    <3> QED
      BY <1>1, <3>1, <3>2, <3>3, GrownMore
  <2>2. CASE binary_left
    <3>1. Top.tmp \in Int
      BY <1>1, <2>2, Fields DEF binary_left, Awaiting
    <3> QED
      BY <1>1, <2>2, <3>1, GrownMore DEF binary_left
  <2>3. CASE binary_right
    <3> DEFINE rr == alloc(bitset)
               moved == emit_mov_rr(em, rr, ret)
               held == Releasing(Taken(bitset), expr_release, ret)
    <3>1. Grown(em, moved)
      BY <1>1, GrownMore
    <3>2. Top.op \in Ternary /\ Top.lr \in Int
      BY <1>1, <2>3, Fields DEF binary_right, Awaiting
    <3>3. alloc(held) \in Int
      <4>1. Taken(bitset) \in Bitsets /\ ret \in MaybeRegs
        BY <1>1, Allocates DEF TypeOK
      <4>2. held \in Bitsets
        BY <4>1, Releases
      <4> QED
        BY <1>1, <4>2, Allocates
    <3>4. em' = emit_binary(moved, Top.op, alloc(held), Top.lr, rr)
      BY <2>3 DEF binary_right
    <3> HIDE DEF moved, held
    <3> QED
      BY <1>1, <3>1, <3>2, <3>3, <3>4, GrownMore
  <2>4. CASE binary_pipe
    <3> DEFINE moved == emit_mov_rr(em, Top.tmp, ret)
               passed == emit_mov_rr(moved, REG_COUNT_INDEX_MAX, Top.tmp)
    <3>1. Top.tmp \in Int /\ Top.node.argc \in Nat
      BY <1>1, <2>4, Fields DEF binary_pipe, Awaiting, OperatorNodes
    <3>2. Grown(em, moved)
      BY <1>1, <3>1, GrownMore
    <3> HIDE DEF moved
    <3>3. Grown(em, passed)
      BY <1>1, <3>1, <3>2, GrownMore
    <3>4. func_call(passed, Top.node, 1, Below)
      BY <2>4 DEF binary_pipe, passed, moved
    <3> HIDE DEF passed
    <3> QED
      BY <1>1, <3>1, <3>3, <3>4, FuncCallCode
  <2>5. CASE arg_done
    <3> DEFINE moved == emit_mov_rr(em, REG_COUNT_INDEX_MAX - Top.next, ret)
               frame == [Top EXCEPT !.next = @ + 1]
    <3>1. Top.next \in Nat /\ frame.call \in PendingCalls
      BY <1>1, <2>5, Fields DEF arg_done, Awaiting
    <3>2. Grown(em, moved)
      <4>1. REG_COUNT_INDEX_MAX - Top.next \in Int
        BY <1>1, <3>1
      <4> QED
        BY <1>1, <4>1, GrownMore
    <3>3. Pass(moved, frame, Below)
      BY <2>5 DEF arg_done
    <3> HIDE DEF moved, frame
    <3> QED
      BY <1>1, <3>1, <3>2, <3>3, PassCode
  <2>6. CASE assign_done \/ define_done
    <3>1. assign_done => Top.fst \in Int /\ \E x \in Int : em' = emit_local_set(em, Top.fst, x, ret)
      BY AssignedVar, SMTT(20) DEF assign_done, Slots, NoSlot
    <3>2. define_done => \E x \in Int : em' = emit_local_set(em, 0, x, ret)
      <4>1. cur[Len(cur)] \in CompilingFrames
        BY DEF TypeOK
      <4>2. new_var(cur[Len(cur)], Top.name, Top.mut).local_count \in Int
        BY <4>1 DEF new_var, NewSlot, CompilingFrames, Slots, NoSlot
      <4> QED
        BY <4>2 DEF define_done
    <3> QED
      BY <1>1, <2>6, <3>1, <3>2, GrownMore
  <2>7. CASE return_done
    <3> DEFINE moved == emit_mov_rr(em, 0, ret)
    <3>1. Grown(em, moved)
      BY <1>1, GrownMore
    <3>2. em' = emit_fret(moved)
      BY <2>7 DEF return_done
    <3> HIDE DEF moved
    <3> QED
      BY <1>1, <3>1, <3>2, GrownMore
  <2>8. CASE if_cond
    <3> DEFINE tested == emit_if_true(em, ret, 0)
               jumped == emit_jmp(tested, 0)
    <3>1. Grown(em, tested)
      BY <1>1, GrownMore
    <3> HIDE DEF tested
    <3>2. Grown(em, jumped)
      BY <1>1, <3>1, GrownCalls
    <3>3. em' = patch(jumped, tagging, tagging + 1 + 1)
      BY <2>8 DEF if_cond, jumped, tested
    <3> HIDE DEF jumped
    <3>4. tagging + 1 + 1 \in Int
      BY <1>1
    <3> QED
      BY <1>1, <3>2, <3>3, <3>4, GrownTests
  <2>9. CASE if_then
    <3> DEFINE jump == emit_jmp(em, 0)
               jumped == patch(jump, Top.els, tagging + 1)
    <3>1. Top.els \in Int
      BY <1>1, <2>9, Fields DEF if_then, Awaiting
    <3>2. Grown(em, jump)
      BY <1>1, GrownMore
    <3> HIDE DEF jump
    <3>3. Grown(em, jumped)
      BY <1>1, <3>1, <3>2, GrownMore
    <3>4. em' = jumped \/ em' = patch(jumped, tagging, tagging + 1)
      BY <2>9 DEF if_then, jumped, jump
    <3> HIDE DEF jumped
    <3>5. tagging + 1 \in Int
      BY <1>1
    <3> QED
      BY <1>1, <3>3, <3>4, <3>5, GrownTests
  <2>10. CASE if_else
    <3>1. Top.then_end \in Int
      BY <1>1, <2>10, Fields DEF if_else, Awaiting
    <3> QED
      BY <1>1, <2>10, <3>1, GrownMore DEF if_else
  <2>11. CASE loop_cond
    BY <1>1, <2>11, GrownMore, SMTT(20) DEF loop_cond, LoopBody
  <2>12. CASE loop_done
    <3> DEFINE counted == Top.cond # NoReg
               body == IF counted THEN emit_dec(em, Top.cond) ELSE em
               closed == emit_jmp(body, Top.start)
               broken == patch_all(closed, break_points, Emitted(closed))
               patched == patch_all(broken, continue_points, tagging)
    <3>1. Top.start \in Int /\ Top.cond \in Int
      BY <1>1, <2>12, Fields DEF loop_done, Awaiting
    <3>2. Grown(em, body)
      BY <1>1, <3>1, GrownMore
    <3> HIDE DEF body
    <3>3. Grown(em, closed) /\ Emitted(closed) \in Int
      BY <1>1, <3>1, <3>2, GrownMore DEF Grown
    <3> HIDE DEF closed
    <3>4. Grown(em, broken)
      BY <1>1, <3>3, GrownMore
    <3> HIDE DEF broken
    <3>5. Grown(em, patched)
      BY <1>1, <3>4, GrownMore
    <3>6. em' = IF counted THEN patch(patched, Top.start, Emitted(closed)) ELSE patched
      BY <2>12 DEF loop_done, patched, broken, closed, body
    <3> HIDE DEF patched
    <3> QED
      BY <1>1, <3>1, <3>3, <3>5, <3>6, GrownMore
  <2>13. CASE function_done
    <3> DEFINE returned == emit_fret(em)
    <3>1. Grown(em, returned)
      BY <1>1, GrownMore
    <3>2. em' = emit_func_end(returned)
      BY <2>13 DEF function_done
    <3> HIDE DEF returned
    <3> QED
      BY <1>1, <3>1, <3>2, GrownMore
  <2>14. CASE module_func
    <3> DEFINE desc == Top.decls[Top.next]
               types == pool.size + Len(desc.label) + 1
               got == emit_local_get(em, REG_COUNT_INDEX_MAX, Distance(Top.mod),
                                     find_var(Top.mod).addr)
               name == emit_mov_rc(got, REG_COUNT_INDEX_MAX - 1, pool.size)
               args == emit_mov_rc(name, REG_COUNT_INDEX_MAX - 2, types)
               count == emit_mov_ri(args, REG_COUNT_INDEX_MAX - 3, desc.argc)
               result == emit_mov_rc(count, REG_COUNT_INDEX_MAX - 4, types + Len(desc.types))
    <3>1. /\ desc \in Declarations /\ Top.mod \in Vars /\ Found(Top.mod)
          /\ pool.size \in Nat
      <4>1. Top.fn = "module" /\ Top.next <= Len(Top.decls) /\ Len(todo) \in 1 .. Len(todo)
        BY <2>14, TopType DEF module_func, Awaiting
      <4>2. /\ Top \in [fn : {"module"}, mod : Vars, decls : Seq(Declarations), next : Nat \ {0}]
            /\ Found(Top.mod)
        BY <1>1, <4>1, Fields DEF ModulesNamed, Top
      <4>3. Top.next \in 1 .. Len(Top.decls)
        BY <4>1, <4>2
      <4> QED
        BY <4>2, <4>3 DEF TypeOK
    <3>2. desc.argc \in Int /\ Len(desc.types) \in Nat /\ Len(desc.label) \in Nat
      BY <3>1, SMTT(20) DEF Declarations, Texts
    <3>3. /\ Distance(Top.mod) \in Int /\ find_var(Top.mod).addr \in Int
      BY <3>1, Finds
    <3>4. /\ types \in Int /\ types + Len(desc.types) \in Int
          /\ REG_COUNT_INDEX_MAX - 1 \in Int /\ REG_COUNT_INDEX_MAX - 2 \in Int
          /\ REG_COUNT_INDEX_MAX - 3 \in Int /\ REG_COUNT_INDEX_MAX - 4 \in Int
      <4>1. types \in Int
        <5>1. \A x, y \in Nat : x + y + 1 \in Int
          OBVIOUS
        <5>2. pool.size \in Nat /\ Len(desc.label) \in Nat
          BY <3>1, <3>2
        <5> QED
          BY <5>1, <5>2
      <4>2. types + Len(desc.types) \in Int
        BY <3>2, <4>1
      <4> QED
        BY <1>1, <4>1, <4>2
    <3>5. Grown(em, got)
      BY <1>1, <3>3, GrownMore
    <3> HIDE DEF got
    <3>6. Grown(em, name)
      BY <1>1, <3>1, <3>4, <3>5, GrownMore, SMTT(20)
    <3> HIDE DEF name, types
    <3>7. Grown(em, args)
      BY <1>1, <3>4, <3>6, GrownMore
    <3> HIDE DEF args
    <3>8. Grown(em, count)
      BY <1>1, <3>2, <3>4, <3>7, GrownMore
    <3> HIDE DEF count
    <3>9. Grown(em, result)
      BY <1>1, <3>4, <3>8, GrownMore
    <3>10. em' = emit_vmc(result, 4)
      BY <2>14 DEF module_func, Announced, result, count, args, name, got, types
    <3> HIDE DEF result
    <3>11. 4 \in Int
      OBVIOUS
    <3> QED
      BY <1>1, <3>9, <3>10, <3>11, GrownCalls
  <2>15. CASE child_done \/ module_func_null \/ module_done
    BY <1>1, <2>15 DEF child_done, module_func_null, module_done
  <2> QED
    BY <1>3, <2>1, <2>2, <2>3, <2>4, <2>5, <2>6, <2>7, <2>8, <2>9, <2>10, <2>11,
       <2>12, <2>13, <2>14, <2>15 DEF Resume
<1> QED
  BY <1>2, <1>3 DEF GeneratorStep

-----------------------------------------------------------------------------
(* The tables. *)

(* A pool that grows keeps its size within its capacity. *)
LEMMA InsertedType ==
    ASSUME NEW p, p.size \in Nat, p.cap \in Nat, p.size <= p.cap, NEW n \in Nat, NEW cells
    PROVE  /\ Inserted(p, n, cells).size = p.size + n
           /\ Inserted(p, n, cells).cap \in Nat
           /\ Inserted(p, n, cells).size <= Inserted(p, n, cells).cap
  BY DEF Inserted, Larger

\* Doubling the capacity makes room for any number of cells.
LEMMA PushedType ==
    ASSUME NEW p, p.size \in Nat \ {0}, p.cap \in Nat, p.size <= p.cap,
           NEW cells, IsFiniteSet(cells)
    PROVE  /\ Pushed(p, cells).size \in Nat /\ Pushed(p, cells).size >= p.size
           /\ Pushed(p, cells).cap \in Nat
           /\ Pushed(p, cells).size <= Pushed(p, cells).cap
<1> DEFINE k == Cardinality(cells)
           size == p.size + k
           caps == {p.cap * 2 ^ i : i \in 0 .. k}
           room == {c \in caps : c >= size}
<1>1. k \in Nat
  BY FS_CardinalityType
<1>2. caps \in SUBSET Nat
  <2>1. \A i \in 0 .. k : p.cap * 2 ^ i \in Nat
    <3> TAKE i \in 0 .. k
    <3>1. 2 ^ i \in Nat
      BY <1>1, Powers
    <3> QED
      BY <3>1
  <2> QED
    BY <2>1
<1>3. p.cap * 2 ^ k >= size
  <2>1. PICK b \in Nat : b = 2 ^ k /\ b >= k + 1
    BY <1>1, Powers
  <2>2. PICK c \in Nat : c = p.cap /\ c >= 1 /\ c >= p.size
    OBVIOUS
  <2>3. c * b >= c * (k + 1)
    BY <1>1, <2>1, <2>2
  <2>4. c * (k + 1) = c * k + c /\ c * k >= k
    BY <1>1, <2>2
  <2> QED
    BY <1>1, <2>1, <2>2, <2>3, <2>4
<1>4. room # {} /\ room \in SUBSET Nat
  <2>1. p.cap * 2 ^ k \in caps
    BY <1>1
  <2> QED
    BY <1>2, <1>3, <2>1
<1>5. Pushed(p, cells) =
         [size |-> size,
          cap |-> CHOOSE c \in caps : c >= size /\ \A d \in caps : d >= size => c <= d,
          cells |-> p.cells \cup cells]
  BY DEF Pushed
<1>6. PICK x \in room : \A y \in room : x <= y
  <2> HIDE DEF room
  <2> QED
    BY <1>4, LeastNumber
<1>7. x \in caps /\ x >= size /\ \A d \in caps : d >= size => x <= d
  BY <1>6
<1> HIDE DEF caps, size, room
<1> DEFINE cap == CHOOSE c \in caps : c >= size /\ \A d \in caps : d >= size => c <= d
<1>8. cap \in caps /\ cap >= size
  BY <1>7
<1>9. Pushed(p, cells).size = size /\ Pushed(p, cells).cap = cap
  BY <1>5
<1> HIDE DEF cap
<1> QED
  BY <1>1, <1>2, <1>8, <1>9 DEF size

(* The recorded breaks and continues are positions in the code. *)
LEMMA PointsType ==
    ASSUME TypeOK, InStep, ModulesNamed, GeneratorStep
    PROVE  break_points' \cup continue_points' \subseteq 0 .. Emitted(em') - 1
<1>1. /\ Emitted(em) \in Nat /\ Emitted(em') \in Nat /\ Emitted(em) <= Emitted(em')
      /\ break_points \cup continue_points \subseteq 0 .. Emitted(em) - 1
      /\ em \in Emitters
  BY CodeType DEF Grown, TypeOK, Emitters, Emitted
<1>2. CASE UNCHANGED Points
  BY <1>1, <1>2 DEF Points
<1>3. CASE \E n \in Nodes : gen_break(n) \/ gen_continue(n)
  <2>1. Emitted(em') = Emitted(em) + 1
    <3>1. em' = emit_jmp(em, 0)
      BY <1>3 DEF gen_break, gen_continue
    <3> QED
      BY <1>1, <3>1, Emits DEF Longer
  <2> QED
    BY <1>1, <1>3, <2>1 DEF gen_break, gen_continue, tagging
<1>4. CASE loop_done
  BY <1>4 DEF loop_done
<1>5. ASSUME NEW n \in Nodes, Visit(n), ~gen_break(n), ~gen_continue(n)
      PROVE  UNCHANGED Points
  BY <1>5
     DEF Visit, gen_num, gen_bool, gen_literal, gen_string, gen_var_ref, gen_unary,
         gen_binary, gen_func_call, gen_vmc, gen_assign, gen_return, gen_null, gen_if,
         gen_loop, gen_function, gen_block_end, gen_program_end, gen_module,
         gen_module_again, Descend
<1>6. ASSUME Resume, ~loop_done
      PROVE  UNCHANGED Points
  BY <1>6
     DEF Resume, unary_done, binary_left, binary_right, binary_pipe, arg_done,
         child_done, assign_done, define_done, return_done, if_cond, if_then, if_else,
         loop_cond, function_done, module_func, module_func_null, module_done
<1> QED
  BY <1>2, <1>3, <1>4, <1>5, <1>6 DEF GeneratorStep

\* A function enters the table once; the entry is the address of the
\* instruction behind its FUNC_CREATE.
LEMMA FuncsType ==
    ASSUME TypeOK, GeneratorStep
    PROVE  /\ funcs' \in [Funcs -> [argc : Nat \cup {-1}, addr : Nat]]
           /\ lex' \in [in_func : BOOLEAN, in_loop : BOOLEAN]
<1>1. /\ funcs \in [Funcs -> [argc : Nat \cup {-1}, addr : Nat]]
      /\ lex \in [in_func : BOOLEAN, in_loop : BOOLEAN]
  BY DEF TypeOK
<1>2. ASSUME NEW n \in Nodes, gen_function(n)
      PROVE  funcs' \in [Funcs -> [argc : Nat \cup {-1}, addr : Nat]]
  <2>1. n.name \in Funcs /\ n.params \in Seq(Vars)
    BY <1>2, NodeFields DEF gen_function, AtStmt
  <2>2. Emitted(emit_func_create(em)) \in Nat
    <3>1. em \in Emitters
      BY DEF TypeOK, Emitters
    <3> QED
      BY <3>1 DEF emit_func_create, emit, Emitted, Emitters
  <2>3. Len(n.params) \in Nat
    BY <2>1
  <2>4. [argc |-> Len(n.params), addr |-> Emitted(emit_func_create(em))]
           \in [argc : Nat \cup {-1}, addr : Nat]
    BY <2>2, <2>3
  <2> QED
    BY <1>1, <1>2, <2>1, <2>4 DEF gen_function
<1>3. ASSUME NEW n \in Nodes, Visit(n), ~gen_function(n)
      PROVE  funcs' = funcs
  BY <1>3
     DEF Visit, gen_num, gen_bool, gen_literal, gen_string, gen_var_ref, gen_unary,
         gen_binary, gen_func_call, gen_vmc, gen_assign, gen_return, gen_null, gen_if,
         gen_loop, gen_break, gen_continue, gen_block_end, gen_program_end, gen_module,
         gen_module_again, Descend, Names
<1>4. ASSUME NEW n \in Nodes, Visit(n)
      PROVE  lex' \in [in_func : BOOLEAN, in_loop : BOOLEAN]
  BY <1>1, <1>4
     DEF Visit, gen_num, gen_bool, gen_literal, gen_string, gen_var_ref, gen_unary,
         gen_binary, gen_func_call, gen_vmc, gen_assign, gen_return, gen_null, gen_if,
         gen_loop, LoopBody, gen_break, gen_continue, gen_function, gen_block_end,
         gen_program_end, gen_module, gen_module_again, Descend, Names
<1>5. ASSUME Resume
      PROVE  funcs' = funcs /\ lex' \in [in_func : BOOLEAN, in_loop : BOOLEAN]
  BY <1>1, <1>5
     DEF Resume, unary_done, binary_left, binary_right, binary_pipe, arg_done,
         child_done, assign_done, define_done, return_done, if_cond, if_then, if_else,
         loop_cond, LoopBody, loop_done, function_done, module_func,
         module_func_null, module_done, Names
<1> QED
  BY <1>1, <1>2, <1>3, <1>4, <1>5 DEF GeneratorStep

\* The steps that change the constant pool or the tables of modules.
LEMMA ConstsKept ==
    ASSUME GeneratorStep, ~module_func,
           \A n \in Nodes : ~gen_string(n) /\ ~gen_module(n)
    PROVE  UNCHANGED Consts
<1>1. ASSUME NEW n \in Nodes, Visit(n)
      PROVE  UNCHANGED Consts
  BY <1>1
     DEF Visit, gen_num, gen_bool, gen_literal, gen_var_ref, gen_unary,
         gen_binary, gen_func_call, gen_vmc, gen_assign, gen_return, gen_null, gen_if,
         gen_loop, gen_break, gen_continue, gen_function, gen_block_end,
         gen_program_end, gen_module_again, Descend
<1>2. ASSUME Resume
      PROVE  UNCHANGED Consts
  BY <1>2
     DEF Resume, unary_done, binary_left, binary_right, binary_pipe, arg_done,
         child_done, assign_done, define_done, return_done, if_cond, if_then, if_else,
         loop_cond, loop_done, function_done, module_func_null, module_done
<1> QED
  BY <1>1, <1>2 DEF GeneratorStep

PoolOK == pool.size \in Nat /\ pool.cap \in Nat /\ pool.size <= pool.cap

ModulesOK ==
    /\ DOMAIN modules = {"names", "current", "externs"} /\ modules.names \subseteq Vars
    /\ \A e \in modules.externs :
          e.mod \in modules.names /\ e.argc \in Nat /\ e.addr \in 0 .. pool.size - 1

\* What gen_module_function puts into the pool, and into the table of extern
\* functions: the address of a text that is in the pool.
LEMMA ModuleFuncTables ==
    ASSUME TypeOK, ModulesNamed, module_func
    PROVE  PoolOK' /\ ModulesOK' /\ modules'.names = modules.names
                   /\ modules'.current = modules.current
<1> DEFINE desc == Top.decls[Top.next]
           label == [at |-> pool.size, is |-> desc.label]
           types == pool.size + Len(desc.label) + 1
           k == Len(desc.types) + 1
           kind(i) == [at |-> types + i - 1, is |-> Append(desc.types, desc.ret)[i]]
           kinds == {kind(i) : i \in 1 .. k}
           entry == Entry(Top.mod, desc)
           labelled == Inserted(pool, Len(desc.label) + 1, {label})
<1>1. Top.fn = "module" /\ Top.next <= Len(Top.decls) /\ Len(todo) \in 1 .. Len(todo)
  BY TopType DEF module_func, Awaiting
<1>2. /\ Top \in [fn : {"module"}, mod : Vars, decls : Seq(Declarations), next : Nat \ {0}]
      /\ Top.mod \in modules.names
  BY <1>1, TopType, Fields DEF ModulesNamed, Top
<1>3. Top.next \in 1 .. Len(Top.decls)
  BY <1>1, <1>2
<1>4. desc \in Declarations
  BY <1>2, <1>3
<1>5. Len(desc.types) \in Nat /\ Len(desc.label) \in Nat
  BY <1>4, SMTT(20) DEF Declarations, Texts
<1>6. PoolOK /\ ModulesOK
  BY DEF TypeOK, PoolOK, ModulesOK
<1>7. /\ pool' = Pushed(labelled, kinds)
      /\ modules' = [modules EXCEPT !.externs = {x \in @ : x.name # entry.name} \cup {entry}]
  BY DEF module_func
<1>8. /\ entry.mod = Top.mod /\ entry.argc = Len(desc.types) /\ entry.addr = pool.size
  BY DEF Entry
<1>9. IsFiniteSet(kinds)
  <2> DEFINE g == [i \in 1 .. k |-> kind(i)]
  <2>1. g \in Surjection(1 .. k, kinds)
    <3> HIDE DEF kind
    <3>1. g \in [1 .. k -> kinds]
      OBVIOUS
    <3>2. \A t \in kinds : \E i \in 1 .. k : g[i] = t
      OBVIOUS
    <3> QED
      BY <3>1, <3>2 DEF Surjection
  <2>2. IsFiniteSet(1 .. k)
    <3>1. 1 \in Int /\ k \in Int
      BY <1>5
    <3> HIDE DEF k
    <3> QED
      BY <3>1, FS_Interval
  <2> HIDE DEF g, kinds, k
  <2> QED
    BY <2>1, <2>2, FS_Surjection
<1>10. labelled.size = pool.size + Len(desc.label) + 1
  BY <1>5, <1>6, InsertedType DEF PoolOK
<1>11. /\ labelled.size \in Nat \ {0} /\ labelled.cap \in Nat
       /\ labelled.size <= labelled.cap /\ labelled.size > pool.size
  <2>1. Len(desc.label) + 1 \in Nat
    BY <1>5
  <2>2. labelled.cap \in Nat /\ labelled.size <= labelled.cap
    BY <1>6, <2>1, InsertedType DEF PoolOK
  <2>3. pool.size \in Nat
    BY <1>6 DEF PoolOK
  <2> HIDE DEF labelled, desc
  <2> QED
    BY <1>5, <1>10, <2>2, <2>3
<1> HIDE DEF labelled, kinds, entry, desc
<1>12. PoolOK' /\ pool'.size > pool.size
  BY <1>6, <1>7, <1>9, <1>11, PushedType DEF PoolOK
<1>13. ModulesOK' /\ modules'.names = modules.names /\ modules'.current = modules.current
  BY <1>2, <1>5, <1>6, <1>7, <1>8, <1>12 DEF ModulesOK, PoolOK
<1> QED
  BY <1>12, <1>13

\* The constant pool and the tables of modules; the pool never shrinks, so
\* that the addresses of names in it stay good.
LEMMA TablesType ==
    ASSUME TypeOK, ModulesNamed, GeneratorStep
    PROVE  PoolOK' /\ ModulesOK'
<1>1. PoolOK /\ ModulesOK
  BY DEF TypeOK, PoolOK, ModulesOK
<1>2. CASE UNCHANGED Consts
  BY <1>1, <1>2 DEF Consts, PoolOK, ModulesOK
<1>3. CASE module_func
  BY <1>3, ModuleFuncTables
<1>4. ASSUME NEW n \in Nodes, gen_string(n)
      PROVE  PoolOK' /\ ModulesOK'
  <2>1. n.length + 1 \in Nat
    BY <1>4, NodeFields DEF gen_string, AtExpr
  <2>2. pool' = Inserted(pool, n.length + 1, {}) /\ modules' = modules
    BY <1>4 DEF gen_string
  <2> QED
    BY <1>1, <2>1, <2>2, InsertedType DEF PoolOK, ModulesOK
<1>5. ASSUME NEW n \in Nodes, gen_module(n)
      PROVE  PoolOK' /\ ModulesOK'
  <2> DEFINE x == ModuleName(n)
  <2>1. x \in Vars
    BY <1>5, ModuleNameType DEF gen_module, AtStmt
  <2>2. modules' = [modules EXCEPT !.names = @ \cup {x},
                                   !.current = IF @ = "" THEN x ELSE @]
    BY <1>5 DEF gen_module
  <2>3. PoolOK' /\ pool'.size >= pool.size
    <3>1. Len(n.lib) + 1 \in Nat
      BY <1>5, NodeFields DEF gen_module, AtStmt, Texts
    <3>2. \/ pool' = pool
          \/ pool' = Inserted(pool, Len(n.lib) + 1, {[at |-> pool.size, is |-> n.lib]})
      BY <1>5 DEF gen_module
    <3> QED
      BY <1>1, <3>1, <3>2, InsertedType DEF PoolOK
  <2> HIDE DEF x
  <2> QED
    BY <1>1, <2>1, <2>2, <2>3 DEF ModulesOK, PoolOK
<1> QED
  BY <1>2, <1>3, <1>4, <1>5, ConstsKept

-----------------------------------------------------------------------------
(* Type correctness. *)

\* No activation of the stack s is a module's.
NoModule(s) == \A i \in 1 .. Len(s) : s[i].fn # "module"

(* Only a module's own activation is one. *)
LEMMA NoModuleMore ==
    ASSUME NEW s \in Seq(Activations), NoModule(s), NEW a, a.fn # "module"
    PROVE  /\ NoModule(Append(s, a))
           /\ \A b : b.fn # "module" => NoModule(s \o <<a, b>>)
<1>1. NoModule(Append(s, a))
  BY DEF NoModule
<1>2. ASSUME NEW b, b.fn # "module"
      PROVE  NoModule(s \o <<a, b>>)
  <2> DEFINE S == Activations \cup {a, b}
  <2>1. s \in Seq(S) /\ a \in S /\ b \in S
    OBVIOUS
  <2>2. /\ s \o <<a, b>> \in Seq(S) /\ Len(s \o <<a, b>>) = Len(s) + 2
        /\ (s \o <<a, b>>)[Len(s) + 1] = a /\ (s \o <<a, b>>)[Len(s) + 2] = b
        /\ \A i \in 1 .. Len(s) : (s \o <<a, b>>)[i] = s[i]
    <3> HIDE DEF S
    <3> QED
      BY <2>1, TwoMore
  <2>3. Len(s) \in Nat
    OBVIOUS
  <2>4. PICK t : t = s \o <<a, b>>
    OBVIOUS
  <2>5. \A i \in 1 .. Len(t) : i \in 1 .. Len(s) \/ i = Len(s) + 1 \/ i = Len(s) + 2
    BY <2>2, <2>3, <2>4
  <2>6. \A i \in 1 .. Len(t) : t[i].fn # "module"
    BY <1>2, <2>2, <2>4, <2>5 DEF NoModule
  <2> QED
    BY <2>4, <2>6 DEF NoModule
<1> QED
  BY <1>1, <1>2

\* Nothing but a module starts the activation of one.
LEMMA NoModuleStep ==
    ASSUME TypeOK, GeneratorStep, NoModule(todo), \A n \in Nodes : ~gen_module(n)
    PROVE  NoModule(todo')
<1>1. todo \in Seq(Activations) /\ Below \in Seq(Activations) /\ NoModule(Below)
  <2>1. /\ Len(todo) \in Nat \ {0} /\ Below \in Seq(Activations)
        /\ Len(Below) = Len(todo) - 1
        /\ \A i \in 1 .. Len(todo) - 1 : Below[i] = todo[i]
    BY TopType
  <2> QED
    BY <2>1 DEF TypeOK, NoModule
<1>2. ASSUME NEW s \in {todo, Below}, NEW a, a.fn # "module"
      PROVE  /\ NoModule(Append(s, a))
             /\ \A b : b.fn # "module" => NoModule(s \o <<a, b>>)
  BY <1>1, <1>2, NoModuleMore
<1>3. Block.fn = "block" /\ [Block EXCEPT !.scoped = FALSE].fn = "block"
  BY DEF Block
<1>4. ASSUME NEW s \in {todo, Below}, PassesOrReturns(s)
      PROVE  NoModule(todo')
  BY <1>1, <1>2, <1>4 DEF PassesOrReturns
<1>5. Top.fn # "module"
  <2>1. Len(todo) \in 1 .. Len(todo)
    BY TopType
  <2> QED
    BY <2>1 DEF NoModule, Top
<1>6. ASSUME NEW n \in Nodes, Visit(n)
      PROVE  NoModule(todo')
  <2>1. CASE \/ gen_num(n) \/ gen_bool(n) \/ gen_string(n) \/ gen_var_ref(n)
             \/ gen_break(n) \/ gen_continue(n) \/ gen_module_again(n)
             \/ gen_null(n) \/ gen_program_end(n) \/ gen_block_end(n)
    BY <1>1, <2>1
       DEF gen_num, gen_bool, gen_literal, gen_string, gen_var_ref, Leaf, gen_break,
           gen_continue, gen_module_again, gen_null, gen_program_end, gen_block_end, Leave
  <2>2. CASE gen_unary(n) \/ gen_binary(n) \/ gen_assign(n) \/ gen_return(n) \/ gen_if(n)
    BY <1>1, <1>2, <2>2
       DEF gen_unary, gen_binary, gen_assign, gen_return, gen_if, Descend, Push
  <2>3. CASE gen_func_call(n) \/ gen_vmc(n)
    <3>1. CASE gen_func_call(n)
      <4>1. n.argc \in Nat
        BY <3>1, NodeFields DEF gen_func_call, AtExpr
      <4> QED
        BY <1>4, <3>1, <4>1, FuncCallStep DEF gen_func_call
    <3>2. CASE gen_vmc(n)
      BY <1>1, <1>2, <3>2 DEF gen_vmc, Pass
    <3> QED
      BY <2>3, <3>1, <3>2
  <2>4. CASE gen_loop(n)
    <3>1. \/ todo' = Append(todo, [fn |-> "loop_cond"])
          \/ todo' = todo \o <<[fn |-> "loop", cond |-> NoReg, start |-> tagging], Block>>
      BY <2>4 DEF gen_loop, Descend, Push, LoopBody
    <3> QED
      BY <1>2, <1>3, <3>1
  <2>5. CASE gen_function(n)
    <3> DEFINE b == [Block EXCEPT !.scoped = FALSE]
    <3>1. b.fn # "module" /\ todo' = todo \o <<[fn |-> "function"], b>>
      BY <1>3, <2>5 DEF gen_function
    <3> HIDE DEF b
    <3> QED
      BY <1>2, <3>1
  <2> QED
    BY <1>6, <2>1, <2>2, <2>3, <2>4, <2>5 DEF Visit
<1>7. ASSUME Resume
      PROVE  NoModule(todo')
  <2>1. CASE \/ unary_done \/ binary_right \/ assign_done \/ define_done
             \/ return_done \/ if_else \/ loop_done \/ function_done \/ child_done
    BY <1>1, <2>1
       DEF unary_done, binary_right, assign_done, define_done, return_done, if_else,
           loop_done, function_done, child_done, Leave
  <2>2. CASE binary_left
    BY <1>2, <2>2 DEF binary_left
  <2>3. CASE binary_pipe
    <3>1. Top.node.argc \in Nat
      BY <2>3, TopType, Fields DEF binary_pipe, Awaiting, OperatorNodes
    <3>2. PassesOrReturns(Below)
      BY <2>3, <3>1, FuncCallStep DEF binary_pipe
    <3> QED
      BY <1>4, <3>2
  <2>4. CASE arg_done
    <3>1. [Top EXCEPT !.next = @ + 1].fn = "args"
      BY <2>4, TopType, Fields DEF arg_done, Awaiting
    <3> QED
      BY <1>1, <1>2, <2>4, <3>1 DEF arg_done, Pass
  <2>5. CASE if_cond \/ if_then \/ loop_cond
    <3>1. \/ todo' = Below
          \/ \E a : a.fn # "module" /\ todo' = Below \o <<a, Block>>
      <4>1. CASE if_cond
        BY <4>1 DEF if_cond
      <4>2. CASE if_then
        BY <4>2 DEF if_then, Leave
      <4>3. CASE loop_cond
        BY <4>3 DEF loop_cond, LoopBody
      <4> QED
        BY <2>5, <4>1, <4>2, <4>3
    <3> QED
      BY <1>1, <1>2, <1>3, <3>1
  <2>6. ~module_func /\ ~module_func_null /\ ~module_done
    BY <1>5 DEF module_func, module_func_null, module_done, Awaiting
  <2> QED
    BY <1>7, <2>1, <2>2, <2>3, <2>4, <2>5, <2>6 DEF Resume
<1> QED
  BY <1>6, <1>7 DEF GeneratorStep

\* A module's activation is the innermost one from its first step to its last.
LEMMA ModulesNamedStep ==
    ASSUME TypeOK, Nested, InStep, ModulesNamed, GeneratorStep
    PROVE  ModulesNamed'
<1>1. /\ Len(todo) \in Nat \ {0} /\ todo \in Seq(Activations)
      /\ Len(todo) \in 1 .. Len(todo)
      /\ Below \in Seq(Activations) /\ Len(Below) = Len(todo) - 1
      /\ \A i \in 1 .. Len(todo) - 1 : Below[i] = todo[i]
  BY TopType DEF TypeOK
<1>2. \A i \in 1 .. Len(todo) - 1 : todo[i].fn # "module"
  <2> TAKE i \in 1 .. Len(todo) - 1
  <2>1. i \in 1 .. Len(todo) /\ i # Len(todo)
    BY <1>1
  <2> QED
    BY <2>1 DEF ModulesNamed
<1> DEFINE NamesOK == modules.current # "" =>
                         /\ modules.current \in modules.names
                         /\ \E m \in Nodes : m.kind = "Module" /\ m.name = modules.current
<1>3. NamesOK
  BY DEF ModulesNamed
<1>4. CASE \E n \in Nodes : gen_module(n)
  <2>1. PICK n \in Nodes : gen_module(n)
    BY <1>4
  <2>2. PICK x \in Vars : x = ModuleName(n)
    BY <2>1, ModuleNameType DEF gen_module, AtStmt
  <2> DEFINE a == [fn |-> "module", mod |-> x, decls |-> n.decls, next |-> 1]
             frame == module_var(x)
  <2>3. /\ modules' = [modules EXCEPT !.names = @ \cup {x},
                                      !.current = IF @ = "" THEN x ELSE @]
        /\ mode' = "ret" /\ todo' = Append(todo, a) /\ cur' = SetBack(frame)
    BY <2>1, <2>2 DEF gen_module, Push
  <2>4. DOMAIN modules = {"names", "current", "externs"}
    BY DEF TypeOK
  <2>5. NamesOK'
    <3>1. CASE modules.current = ""
      <4>1. x = n.name /\ n.kind = "Module"
        BY <2>1, <2>2, <3>1 DEF ModuleName, gen_module, AtStmt
      <4> QED
        BY <2>3, <2>4, <3>1, <4>1
    <3>2. CASE modules.current # ""
      BY <1>3, <2>3, <2>4, <3>2
    <3> QED
      BY <3>1, <3>2
  <2>6. x \in modules'.names
    BY <2>3, <2>4
  <2>7. mode = "stmt"
    BY <2>1 DEF gen_module, AtStmt
  <2>8. \A i \in 1 .. Len(todo) : todo[i].fn # "module"
    BY <2>7 DEF ModulesNamed
  <2>9. Len(todo') = Len(todo) + 1 /\ \A i \in 1 .. Len(todo) : todo'[i] = todo[i]
    BY <1>1, <2>3
  <2>10. todo'[Len(todo')] = a
    BY <1>1, <2>3
  <2>11. Found(x)'
    <3>1. cur \in Seq(CompilingFrames) /\ Len(cur) \in Nat \ {0} /\ Len(cur) \in 1 .. Len(cur)
      BY DEF TypeOK
    <3>2. cur[Len(cur)] \in CompilingFrames
      BY <3>1
    <3>3. frame.locals[x].addr # NoSlot
      <4>1. CASE Redefined(x)
        BY <3>2, <4>1 DEF module_var, Redefined, CompilingFrames
      <4>2. CASE ~Redefined(x)
        <5>1. frame = new_var(cur[Len(cur)], x, FALSE)
          BY <4>2 DEF module_var
        <5>2. NewSlot(cur[Len(cur)]) \in Nat
          BY <3>2 DEF NewSlot, CompilingFrames, Slots, NoSlot
        <5>3. cur[Len(cur)].locals \in Locals
          BY <3>2 DEF CompilingFrames
        <5> HIDE DEF frame
        <5>4. frame.locals[x] = [mut |-> FALSE, addr |-> NewSlot(cur[Len(cur)])]
          BY <2>2, <5>1, <5>3 DEF new_var, Locals
        <5> QED
          BY <5>2, <5>4 DEF NoSlot
      <4> QED
        BY <4>1, <4>2
    <3> HIDE DEF frame
    <3>4. Len(cur') = Len(cur) /\ cur'[Len(cur)] = frame
      BY <2>3, <3>1 DEF SetBack
    <3>5. \E f \in 1 .. Len(cur') : cur'[f].locals[x].addr # NoSlot
      BY <3>1, <3>3, <3>4
    <3> QED
      BY <3>5 DEF Found, Defining
  <2>12. ASSUME NEW i \in 1 .. Len(todo'), todo'[i].fn = "module"
         PROVE  i = Len(todo') /\ todo'[i].mod = x
    <3>1. i = Len(todo')
      BY <1>1, <2>8, <2>9, <2>12
    <3> QED
      BY <2>10, <3>1
  <2>13. (\A i \in 1 .. Len(todo) : todo[i].fn = "module" =>
            /\ i = Len(todo) /\ mode \in {"ret", "crash"}
            /\ todo[i].mod \in modules.names /\ Found(todo[i].mod))'
    BY <2>3, <2>6, <2>11, <2>12 DEF Found, Defining
  <2> QED
    BY <2>5, <2>13 DEF ModulesNamed
<1>5. CASE Top.fn = "module"
  <2>1. mode \in {"ret", "crash"} /\ Top.mod \in modules.names /\ Found(Top.mod)
    BY <1>1, <1>5 DEF ModulesNamed, Top
  <2>2. module_func \/ module_func_null \/ module_done
    BY <1>5, <2>1, ZenonT(40)
       DEF GeneratorStep, Visit, gen_num, gen_bool, gen_string, gen_var_ref, gen_unary,
           gen_binary, gen_func_call, gen_vmc, gen_assign, gen_return, gen_null, gen_if,
           gen_loop, gen_break, gen_continue, gen_function, gen_block_end,
           gen_program_end, gen_module, gen_module_again, AtExpr, AtStmt, Resume,
           unary_done, binary_left, binary_right, binary_pipe, arg_done,
           child_done, assign_done, define_done, return_done, if_cond, if_then, if_else,
           loop_cond, loop_done, function_done, Awaiting
  <2>3. CASE module_func
    <3> DEFINE a == [Top EXCEPT !.next = @ + 1]
    <3>1. /\ modules'.names = modules.names /\ modules'.current = modules.current
      BY <2>3, ModuleFuncTables
    <3>2. mode' = mode /\ cur' = cur /\ todo' = Append(Below, a)
      BY <2>3 DEF module_func, Names
    <3>3. a.fn = "module" /\ a.mod = Top.mod
      BY <1>5, TopType, Fields
    <3> HIDE DEF a
    <3>4. /\ Len(todo') = Len(todo) /\ todo'[Len(todo)] = a
          /\ \A i \in 1 .. Len(todo) - 1 : todo'[i] = todo[i]
      BY <1>1, <3>2
    <3>6. ASSUME NEW i \in 1 .. Len(todo'), todo'[i].fn = "module"
          PROVE  i = Len(todo') /\ todo'[i].mod = a.mod
      BY <1>1, <1>2, <3>4, <3>6
    <3>5. \A x : Found(x)' <=> Found(x)
      BY <3>2 DEF Found, Defining
    <3> QED
      BY <1>3, <2>1, <3>1, <3>2, <3>3, <3>5, <3>6 DEF ModulesNamed
  <2>4. CASE module_func_null
    <3>1. todo' = todo /\ mode' = "crash" /\ cur' = cur /\ modules' = modules
      BY <2>4 DEF module_func_null, Names, Consts
    <3> QED
      BY <3>1 DEF ModulesNamed, Found, Defining
  <2>5. CASE module_done
    <3>1. todo' = Below /\ modules' = modules
      BY <2>5 DEF module_done, Leave, Consts
    <3>2. \A i \in 1 .. Len(todo') : todo'[i].fn # "module"
      BY <1>1, <1>2, <3>1
    <3> QED
      BY <1>3, <3>1, <3>2 DEF ModulesNamed
  <2> QED
    BY <2>2, <2>3, <2>4, <2>5
<1>6. CASE Top.fn # "module" /\ \A n \in Nodes : ~gen_module(n)
  <2>1. NoModule(todo)
    <3>1. todo[Len(todo)].fn # "module"
      BY <1>6 DEF Top
    <3> QED
      BY <1>1, <1>2, <3>1 DEF NoModule
  <2>2. NoModule(todo')
    BY <1>6, <2>1, NoModuleStep
  <2>3. modules' = modules
    <3>1. ~module_func
      BY <1>6 DEF module_func, Awaiting
    <3>2. CASE \E n \in Nodes : gen_string(n)
      BY <3>2 DEF gen_string
    <3>3. CASE \A n \in Nodes : ~gen_string(n)
      BY <1>6, <3>1, <3>3, ConstsKept DEF Consts
    <3> QED
      BY <3>2, <3>3
  <2> QED
    BY <1>3, <2>2, <2>3 DEF NoModule, ModulesNamed
<1> QED
  BY <1>4, <1>5, <1>6

\* The inductive invariant of type correctness.
TypeInv == TypeOK /\ Nested /\ InStep /\ ModulesNamed

(* The generator starts in the inductive invariant. *)
LEMMA TypeInvInit ==
    ASSUME Init
    PROVE  TypeInv
<1>1. [fn |-> "program"] \in Activations
  BY DEF Activations, Holding
<1>2. /\ todo = <<[fn |-> "program"]>> /\ cur = <<CompilingFrame>>
      /\ em = [ops |-> <<>>, ret_type |-> "None"] /\ mode = "stmt"
      /\ funcs = [f \in Funcs |-> NoFunc] /\ ret = 0 /\ bitset = {0}
  BY DEF Init
<1>3. todo \in Seq(Activations) /\ todo # <<>> /\ todo[1].fn = "program" /\ Len(todo) = 1
  BY <1>1, <1>2
<1>4. CompilingFrame \in CompilingFrames
  BY DEF CompilingFrame, CompilingFrames, Locals, Slots, NoVar, NoSlot
<1>5. cur \in Seq(CompilingFrames) /\ cur # <<>> /\ Len(cur) = 1
  BY <1>2, <1>4
<1>6. em \in [ops : Seq(Instructions), ret_type : Ret_Type] /\ Emitted(em) = 0
  BY <1>2 DEF Ret_Type, Emitted
<1>7. ret \in MaybeRegs /\ bitset \subseteq 0 .. REG_COUNT - 1 /\ 0 \in bitset
  BY <1>2, RegCountAssumption DEF MaybeRegs
<1>8. funcs \in [Funcs -> [argc : Nat \cup {-1}, addr : Nat]]
  BY <1>2 DEF NoFunc
<1>9. /\ expr_release \in BOOLEAN /\ node_has_error \in BOOLEAN
      /\ break_points \cup continue_points = {}
      /\ pool.size \in Nat /\ pool.cap \in Nat /\ pool.size <= pool.cap
      /\ DOMAIN modules = {"names", "current", "externs"} /\ modules.names = {}
      /\ modules.externs = {} /\ modules.current = ""
      /\ lex \in [in_func : BOOLEAN, in_loop : BOOLEAN]
  <2>1. /\ expr_release \in BOOLEAN /\ node_has_error \in BOOLEAN
        /\ break_points \cup continue_points = {}
    BY DEF Init
  <2>2. pool.size = 0 /\ pool.cap = 0
    <3>1. pool = [size |-> 0, cap |-> 0, cells |-> {}]
      BY DEF Init
    <3> QED
      BY <3>1
  <2>3. modules = [names |-> {}, current |-> "", externs |-> {}]
    BY DEF Init
  <2>4. lex = [in_func |-> FALSE, in_loop |-> FALSE]
    BY DEF Init
  <2>5. /\ DOMAIN modules = {"names", "current", "externs"} /\ modules.names = {}
        /\ modules.externs = {} /\ modules.current = ""
    BY <2>3
  <2>6. lex \in [in_func : BOOLEAN, in_loop : BOOLEAN]
    BY <2>4
  <2>7. pool.size \in Nat /\ pool.cap \in Nat /\ pool.size <= pool.cap
    BY <2>2
  <2> QED
    BY <2>1, <2>5, <2>6, <2>7, Zenon
<1>10. TypeOK
  BY <1>2, <1>3, <1>5, <1>6, <1>7, <1>8, <1>9 DEF TypeOK
<1>11. \A i \in 1 .. Len(todo) : i = 1 /\ todo[i] = [fn |-> "program"]
  BY <1>2, <1>3
<1>12. Nested
  BY <1>2, <1>3, <1>11 DEF Nested, Top, Evaluating, Operators
<1>13. InStep
  <2>1. FunctionsIn(todo, Len(todo)) = {}
    BY <1>11 DEF FunctionsIn
  <2>2. Depth(todo, Len(todo)) = 1
    BY <2>1, FS_EmptySet DEF Depth
  <2> QED
    BY <1>5, <1>11, <2>2 DEF InStep
<1>14. ModulesNamed
  <2>1. \A i \in 1 .. Len(todo) : todo[i].fn # "module"
    BY <1>11
  <2> QED
    BY <1>9, <2>1 DEF ModulesNamed
<1> QED
  BY <1>10, <1>12, <1>13, <1>14 DEF TypeInv

(* Every step of the generator preserves the inductive invariant. *)
LEMMA TypeInvStep ==
    ASSUME TypeInv, [Next]_gvars
    PROVE  TypeInv'
<1>1. TypeOK /\ Nested /\ InStep /\ ModulesNamed
  BY DEF TypeInv
<1>2. CASE GeneratorStep
  <2>1. StackOK' /\ mode' \in Modes
    BY <1>1, <1>2, VisitStack, ResumeStack DEF GeneratorStep
  <2>2. /\ ret' \in MaybeRegs /\ bitset' \in Bitsets
        /\ expr_release' \in BOOLEAN /\ node_has_error' \in BOOLEAN
    BY <1>1, <1>2, RegsType
  <2>3. cur' \in Seq(CompilingFrames) /\ cur' # <<>>
    BY <1>1, <1>2, CurType
  <2>4. em' \in Emitters
    BY <1>1, <1>2, CodeType DEF Grown
  <2>5. break_points' \cup continue_points' \subseteq 0 .. Emitted(em') - 1
    BY <1>1, <1>2, PointsType
  <2>6. /\ funcs' \in [Funcs -> [argc : Nat \cup {-1}, addr : Nat]]
        /\ lex' \in [in_func : BOOLEAN, in_loop : BOOLEAN]
    BY <1>1, <1>2, FuncsType
  <2>7. PoolOK' /\ ModulesOK'
    BY <1>1, <1>2, TablesType
  <2>8. ModulesNamed'
    BY <1>1, <1>2, ModulesNamedStep
  <2>9. TypeOK'
    BY <2>1, <2>2, <2>3, <2>4, <2>5, <2>6, <2>7
       DEF TypeOK, StackOK, Modes, Bitsets, Emitters, PoolOK, ModulesOK
  <2> QED
    BY <2>1, <2>8, <2>9 DEF TypeInv, StackOK
<1>3. CASE UNCHANGED gvars
  <2>1. TypeOK'
    BY <1>1, <1>3 DEF gvars, TypeOK, Emitted
  <2>2. Nested' /\ InStep'
    BY <1>1, <1>3 DEF gvars, Nested, InStep, Top, Depth, FunctionsIn
  <2>3. ModulesNamed'
    BY <1>1, <1>3 DEF gvars, ModulesNamed, Found, Defining
  <2> QED
    BY <2>1, <2>2, <2>3 DEF TypeInv
<1>4. CASE Finished
  BY <1>3, <1>4 DEF Finished
<1> QED
  BY <1>2, <1>3, <1>4 DEF Next, GeneratorStep

\* The state of the generator is what the types of generator.hpp say, on every
\* path through every program: activations carry what their functions need,
\* addresses of names are in the pool, pending jumps are in the code.
THEOREM TypeCorrect == Spec => []TypeOK
<1>1. Init => TypeInv
  BY TypeInvInit
<1>2. TypeInv /\ [Next]_gvars => TypeInv'
  BY TypeInvStep
<1>3. TypeInv => TypeOK
  BY DEF TypeInv
<1> QED
  BY <1>1, <1>2, <1>3, PTL DEF Spec
=============================================================================
