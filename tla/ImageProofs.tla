----------------------------- MODULE ImageProofs -----------------------------
(***************************************************************************)
(* The .lmc file, byte by byte: whatever is left of it, the loader either  *)
(* gives back the program that was saved or starts no machine on it.       *)
(***************************************************************************)
EXTENDS Image, CodeProofs

\* The code of a program that is compiled: only its end stops the machine, and
\* file_run adds a second HALT before it saves the code.
Compiled ==
    /\ em \in Emitters /\ pool.size \in Nat
    /\ ~node_has_error => Zeroed(em)
    /\ mode # "done" => CodeInv /\ Unstopped(em)
    /\ mode = "done" => /\ \A k \in 1 .. Emitted(em) - 2 : em.ops[k].op # "HALT"
                        /\ Emitted(em) > 0 /\ em.ops[Emitted(em)].op = "HALT"
                        /\ Launched => ~node_has_error

\* The program that is saved: the first of its two HALTs ends it.
Program ==
    /\ em \in Emitters /\ pool.size \in Nat
    /\ Zeroed(em) /\ Emitted(em) \in Nat \ {0, 1}
    /\ em.ops[Emitted(em) - 1].op = "HALT"
    /\ \A k \in 1 .. Emitted(em) - 2 : em.ops[k].op # "HALT"

Bytes == [magic : 1 .. 4] \cup [number : 0 .. 1] \cup [opcode : Opcodes]
         \cup [operands : Seq(Int)] \cup [pool : Nat]
OpForms == [op : Opcodes \cup {"255"}, operands : Seq(Int)]

\* s has the places in the file where the first m instructions begin, and the
\* place behind them.
Places(s, m) ==
    /\ s \in [1 .. m + 1 -> Nat] /\ s[1] = 8
    /\ \A k \in 1 .. m : s[k + 1] = s[k] + 1 + opcode_len(em.ops[k].op)
    /\ \A j, k \in 1 .. m + 1 : j < k => s[j] < s[k]

\* The file has the instruction i at the place p, as far as it goes.
Spelt(i, p) ==
    /\ p < Len(disk) => disk[p + 1] = [opcode |-> i.op]
    /\ p + 1 < Len(disk) /\ opcode_len(i.op) > 0 => disk[p + 2] = [operands |-> i.operands]

Spells(s, m) == Places(s, m) /\ \A k \in 1 .. m : Spelt(em.ops[k], s[k])

\* All that a file has, or the code of all of it.
Prefix(s, m) ==
    /\ m \in 0 .. Emitted(em) /\ Spells(s, m)
    /\ Len(disk) <= s[m + 1] \/ m = Emitted(em)

\* What was read is what was saved, or the loader is behind the end of the file.
Reads(s, m) ==
    \/ Len(disk) <= at
    \/ /\ Len(ops) \in 0 .. m /\ at = s[Len(ops) + 1]
       /\ \A k \in 1 .. Len(ops) : ops[k] = em.ops[k]

Saves ==
    /\ proc = "compiler" => saved = 0
    /\ proc = "saving" =>
          /\ saved \in 0 .. Emitted(em)
          /\ \E s : Spells(s, saved) /\ Len(disk) = s[saved + 1]
    /\ proc = "saved" =>
          \E s : Spells(s, Emitted(em)) /\ s[Emitted(em) + 1] <= Len(disk)
    /\ proc = "down" => \E s, m : Prefix(s, m)

Loads ==
    /\ proc \in {"compiler", "saving", "saved", "down"} => ops = <<>>
    /\ proc = "load" =>
          /\ at \in Nat
          /\ \A k \in 1 .. Len(ops) : ops[k].op # "HALT"
          /\ \E s, m : Prefix(s, m) /\ Reads(s, m)

\* The inductive invariant of images.
ImageInv ==
    /\ proc = "compiler" => Compiled
    /\ proc # "compiler" => Program
    /\ disk \in Seq(Bytes) /\ ops \in Seq(OpForms)
    /\ Saves /\ Loads /\ LoadedIsSaved

-----------------------------------------------------------------------------
(* The format.                                                             *)

\* The instructions that carry operand bytes are those whose bytes are kept.
LEMMA Lengths ==
    /\ \A o : opcode_len(o) \in Nat
    /\ \A o \in Opcodes : opcode_len(o) = 0 <=> o \notin Carrying
    /\ opcode_len("HALT") = 0
<1>1. \A o : opcode_len(o) \in Nat
  BY DEF opcode_len
<1>2. ASSUME NEW o \in Opcodes
      PROVE  opcode_len(o) = 0 <=> o \notin Carrying
  BY DEF opcode_len, Carrying, Opcodes, Ternary, Arith, Cmp, Logic, Inert, Jumps
<1>3. opcode_len("HALT") = 0
  BY DEF opcode_len, Arith, Cmp, Logic
<1> QED
  BY <1>1, <1>2, <1>3

\* The bytes that are kept are all the bytes of the operands.
LEMMA Layouts ==
    ASSUME NEW o \in Opcodes, o \in Carrying
    PROVE  \A j \in 1 .. Arity(o) :
              j \in DOMAIN Layout(o) /\ Before(o, j) \in Nat /\ Before(o, j) < opcode_len(o)
<1>1. CASE o \in Arith
  <2>1. Layout(o) = <<1, 1, 1>> /\ opcode_len(o) = 4 /\ Arity(o) = 3
    BY <1>1, Arities DEF Layout, opcode_len, Ternary, Arith, Cmp, Logic
  <2> QED
    BY <2>1 DEF Before
<1>2. CASE o \in Cmp \cup Logic
  <2>1. Layout(o) = <<1, 1, 1>> /\ opcode_len(o) = 3 /\ Arity(o) = 3
    BY <1>2, Arities DEF Layout, opcode_len, Ternary, Arith, Cmp, Logic
  <2> QED
    BY <2>1 DEF Before
<1>3. CASE o \in {"MOV_RI", "MOV_RC", "IF_TRUE", "IF_FALSE"}
  <2>1. Layout(o) = <<1, 8>> /\ opcode_len(o) = 9 /\ Arity(o) = 2
    BY <1>3, Arities DEF Layout, opcode_len, Ternary, Arith, Cmp, Logic
  <2> QED
    BY <2>1 DEF Before
<1>4. CASE o = "MOV_RR"
  <2>1. Layout(o) = <<1, 1>> /\ opcode_len(o) = 2 /\ Arity(o) = 2
    BY <1>4, Arities DEF Layout, opcode_len, Ternary, Arith, Cmp, Logic
  <2> QED
    BY <2>1 DEF Before
<1>5. CASE o = "FCALL"
  <2>1. Layout(o) = <<8, 1>> /\ opcode_len(o) = 9 /\ Arity(o) = 2
    BY <1>5, Arities DEF Layout, opcode_len, Ternary, Arith, Cmp, Logic
  <2> QED
    BY <2>1 DEF Before
<1>6. CASE o = "LOCAL_GET"
  <2>1. Layout(o) = <<1, 1, 2>> /\ opcode_len(o) = 4 /\ Arity(o) = 3
    BY <1>6, Arities DEF Layout, opcode_len, Ternary, Arith, Cmp, Logic
  <2> QED
    BY <2>1 DEF Before
<1>7. CASE o = "LOCAL_SET"
  <2>1. Layout(o) = <<1, 2, 1>> /\ opcode_len(o) = 4 /\ Arity(o) = 3
    BY <1>7, Arities DEF Layout, opcode_len, Ternary, Arith, Cmp, Logic
  <2> QED
    BY <2>1 DEF Before
<1>8. CASE o = "JMP" \/ o = "VMC" \/ o = "DEC"
  <2>1. Len(Layout(o)) = 1 /\ opcode_len(o) \in Nat \ {0} /\ Arity(o) = 1
    BY <1>8, Arities DEF Layout, opcode_len, Ternary, Arith, Cmp, Logic
  <2>2. Layout(o) \in Seq(Int)
    BY <1>8 DEF Layout, Ternary, Arith, Cmp, Logic
  <2> QED
    BY <2>1, <2>2 DEF Before
<1> QED
  BY <1>1, <1>2, <1>3, <1>4, <1>5, <1>6, <1>7, <1>8 DEF Carrying, Ternary, Jumps

\* An instruction whose bytes are all there is read as it was written.
LEMMA SpelledOut ==
    ASSUME NEW i \in Instructions, i.op \in Carrying, NEW n \in Nat
    PROVE  /\ Spelled(i.op, i.operands, n) \in Seq(Int)
           /\ opcode_len(i.op) <= n => Spelled(i.op, i.operands, n) = i.operands
<1>1. /\ i.op \in Opcodes /\ i.operands \in Seq(Int) /\ Len(i.operands) = Arity(i.op)
      /\ DOMAIN i.operands = 1 .. Arity(i.op) /\ Arity(i.op) \in Nat
  BY Arities DEF Instructions
<1> DEFINE t == Spelled(i.op, i.operands, n)
<1>2. t = [j \in 1 .. Arity(i.op) |->
              IF j \in DOMAIN Layout(i.op) /\ Before(i.op, j) < n THEN i.operands[j] ELSE 0]
  BY <1>1 DEF Spelled
<1>3. t \in [1 .. Arity(i.op) -> Int]
  BY <1>1, <1>2
<1>4. t \in Seq(Int)
  BY <1>1, <1>3
<1>5. ASSUME opcode_len(i.op) <= n
      PROVE  t = i.operands
  <2>1. \A j \in 1 .. Arity(i.op) :
           /\ j \in DOMAIN Layout(i.op) /\ Before(i.op, j) \in Nat
           /\ Before(i.op, j) < opcode_len(i.op)
    BY <1>1, Layouts
  <2>2. \A j \in 1 .. Arity(i.op) : t[j] = i.operands[j]
    <3> TAKE j \in 1 .. Arity(i.op)
    <3>1. Before(i.op, j) < n
      BY <1>5, <2>1, Lengths, <1>1
    <3> QED
      BY <1>2, <2>1, <3>1
  <2> QED
    BY <1>1, <1>3, <2>2
<1> QED
  BY <1>4, <1>5

\* What write_binary_file writes are bytes.
LEMMA TupleSeq ==
    ASSUME NEW S, NEW n \in Nat, NEW f \in [1 .. n -> S]
    PROVE  f \in Seq(S) /\ Len(f) = n
OBVIOUS

LEMMA Joined ==
    ASSUME NEW S, NEW a \in Seq(S), NEW b \in Seq(S), NEW c, c = a \o b
    PROVE  /\ c \in Seq(S) /\ Len(c) = Len(a) + Len(b)
           /\ \A k \in 1 .. Len(a) : c[k] = a[k]
           /\ \A k \in 1 .. Len(b) : c[Len(a) + k] = b[k]
<1>1. c \in Seq(S) /\ Len(c) = Len(a) + Len(b)
  OBVIOUS
<1>2. \A k \in 1 .. Len(a) : c[k] = a[k]
  OBVIOUS
<1>3. \A k \in 1 .. Len(b) : c[Len(a) + k] = b[k]
  OBVIOUS
<1> QED
  BY <1>1, <1>2, <1>3

LEMMA HeadBytes ==
    /\ Magic \in Seq(Bytes) /\ Len(Magic) = 4
    /\ Magic \o Version \in Seq(Bytes) /\ Len(Magic \o Version) = 8
<1> DEFINE c == Magic \o Version
<1>1. Magic \in Seq(Bytes) /\ Len(Magic) = 4
  <2>1. \A k \in 1 .. 4 : [magic |-> k] \in Bytes
    BY DEF Bytes
  <2>2. Magic \in [1 .. 4 -> Bytes]
    BY <2>1 DEF Magic
  <2> QED
    BY <2>2, TupleSeq
<1>2. Version \in Seq(Bytes) /\ Len(Version) = 4
  <2>1. [number |-> 0] \in Bytes /\ [number |-> 1] \in Bytes
    BY DEF Bytes
  <2> QED
    BY <2>1 DEF Version
<1>5. Magic \in Seq(Bytes) /\ Version \in Seq(Bytes) /\ c = Magic \o Version
  BY <1>1, <1>2
<1> HIDE DEF c
<1>3. c \in Seq(Bytes) /\ Len(c) = Len(Magic) + Len(Version)
  BY <1>5, Joined
<1>4. Len(c) = 8
  BY <1>1, <1>2, <1>3
<1> QED
  BY <1>1, <1>3, <1>4, Zenon DEF c

LEMMA OpBytesAre ==
    ASSUME NEW i \in Instructions
    PROVE  /\ OpBytes(i) \in Seq(Bytes) /\ Len(OpBytes(i)) = 1 + opcode_len(i.op)
           /\ OpBytes(i)[1] = [opcode |-> i.op]
           /\ opcode_len(i.op) > 0 => OpBytes(i)[2] = [operands |-> i.operands]
<1> DEFINE n == opcode_len(i.op)
           t == [k \in 1 .. n |-> [operands |-> i.operands]]
           h == <<[opcode |-> i.op]>>
<1>1. n \in Nat
  BY Lengths
<1>2. [operands |-> i.operands] \in Bytes /\ [opcode |-> i.op] \in Bytes
  BY DEF Bytes, Instructions
<1>3. t \in [1 .. n -> Bytes] /\ \A k \in 1 .. n : t[k] = [operands |-> i.operands]
  BY <1>2
<1>4. h \in Seq(Bytes) /\ Len(h) = 1 /\ h[1] = [opcode |-> i.op]
  BY <1>2
<1>5. OpBytes(i) = h \o t
  BY DEF OpBytes
<1> HIDE DEF n, t, h
<1>6. t \in Seq(Bytes) /\ Len(t) = n
  BY <1>1, <1>3, TupleSeq
<1>7. /\ OpBytes(i) \in Seq(Bytes) /\ Len(OpBytes(i)) = Len(h) + Len(t)
      /\ \A k \in 1 .. Len(h) : OpBytes(i)[k] = h[k]
      /\ \A k \in 1 .. Len(t) : OpBytes(i)[Len(h) + k] = t[k]
  <2>1. h \in Seq(Bytes) /\ t \in Seq(Bytes)
    BY <1>4, <1>6
  <2> QED
    BY <1>5, <2>1, Joined
<1>8. /\ Len(OpBytes(i)) = 1 + n
      /\ OpBytes(i)[1] = h[1] /\ (n > 0 => OpBytes(i)[2] = t[1])
  BY <1>1, <1>4, <1>6, <1>7
<1>9. n > 0 => t[1] = [operands |-> i.operands]
  BY <1>1, <1>3
<1> QED
  BY <1>4, <1>7, <1>8, <1>9, Zenon DEF n

LEMMA PoolBytesAre ==
    ASSUME pool.size \in Nat
    PROVE  PoolBytes \in Seq(Bytes)
<1>1. \A k \in 1 .. pool.size : PoolByte(k - 1) \in Bytes
  BY DEF PoolByte, Bytes
<1>2. PoolBytes \in [1 .. pool.size -> Bytes]
  BY <1>1 DEF PoolBytes
<1> QED
  BY <1>2, TupleSeq

-----------------------------------------------------------------------------
(* The file.                                                               *)

\* Every instruction but the last ends before the end of the code.
LEMMA PlaceOf ==
    ASSUME NEW s, NEW m \in Nat, Places(s, m), NEW k \in 1 .. m
    PROVE  /\ s[k] \in Nat /\ s[k + 1] \in Nat /\ s[m + 1] \in Nat
           /\ s[k + 1] = s[k] + 1 + opcode_len(em.ops[k].op)
           /\ s[k + 1] <= s[m + 1]
<1>1. k \in 1 .. m + 1 /\ k + 1 \in 1 .. m + 1 /\ m + 1 \in 1 .. m + 1
  OBVIOUS
<1>2. s \in [1 .. m + 1 -> Nat]
  BY DEF Places
<1>3. s[k] \in Nat /\ s[k + 1] \in Nat /\ s[m + 1] \in Nat
  BY <1>1, <1>2
<1>4. s[k + 1] = s[k] + 1 + opcode_len(em.ops[k].op)
  BY DEF Places
<1>5. CASE k = m
  BY <1>3, <1>4, <1>5
<1>6. CASE k # m
  <2>1. k + 1 < m + 1
    BY <1>6
  <2>2. \A i, j \in 1 .. m + 1 : i < j => s[i] < s[j]
    BY DEF Places
  <2>3. s[k + 1] < s[m + 1]
    BY <1>1, <2>1, <2>2
  <2> QED
    BY <1>3, <1>4, <2>3
<1> QED
  BY <1>5, <1>6

\* A file that grows keeps what is in it,
LEMMA SpellsOn ==
    ASSUME NEW s, NEW m \in Nat, Spells(s, m), s[m + 1] <= Len(disk), em' = em,
           disk \in Seq(Bytes), disk' \in Seq(Bytes), Len(disk) <= Len(disk'),
           \A k \in 1 .. Len(disk) : disk'[k] = disk[k]
    PROVE  Spells(s, m)'
<1>1. Places(s, m) /\ Places(s, m)' /\ Len(disk) \in Nat /\ Len(disk') \in Nat
  BY DEF Spells, Places
<1>2. ASSUME NEW k \in 1 .. m
      PROVE  Spelt(em.ops[k], s[k])'
  <2> DEFINE i == em.ops[k]
             n == opcode_len(i.op)
             p == s[k]
  <2>1. p \in Nat /\ n \in Nat /\ p + 1 + n <= Len(disk)
    <3>1. p \in Nat /\ s[k + 1] = p + 1 + n /\ s[k + 1] <= s[m + 1] /\ s[m + 1] \in Nat
      BY <1>1, PlaceOf
    <3>2. n \in Nat
      BY Lengths
    <3> HIDE DEF n, p
    <3> QED
      BY <1>1, <3>1, <3>2
  <2>2. Spelt(i, p)
    BY DEF Spells
  <2> HIDE DEF n, p, i
  <2>3. p + 1 \in 1 .. Len(disk) /\ (n > 0 => p + 2 \in 1 .. Len(disk))
    BY <1>1, <2>1
  <2>4. disk'[p + 1] = disk[p + 1] /\ (n > 0 => disk'[p + 2] = disk[p + 2])
    BY <2>3
  <2>5. disk[p + 1] = [opcode |-> i.op] /\ (n > 0 => disk[p + 2] = [operands |-> i.operands])
    BY <1>1, <2>1, <2>2 DEF Spelt, n
  <2>6. em'.ops[k] = i
    BY DEF i
  <2> QED
    BY <2>4, <2>5, <2>6 DEF Spelt, n, p
<1> QED
  BY <1>1, <1>2 DEF Spells

\* and so does one that is cut off.
LEMMA SpellsStill ==
    ASSUME NEW s, NEW m \in Nat, Spells(s, m), em' = em,
           disk \in Seq(Bytes), disk' \in Seq(Bytes), Len(disk') <= Len(disk),
           \A k \in 1 .. Len(disk') : disk'[k] = disk[k]
    PROVE  Spells(s, m)'
<1>1. Places(s, m) /\ Places(s, m)' /\ Len(disk) \in Nat /\ Len(disk') \in Nat
  BY DEF Spells, Places
<1>2. ASSUME NEW k \in 1 .. m
      PROVE  Spelt(em.ops[k], s[k])'
  <2> DEFINE i == em.ops[k]
             p == s[k]
  <2>1. p \in Nat /\ Spelt(i, p) /\ em'.ops[k] = i
    BY <1>1 DEF Places, Spells
  <2> HIDE DEF p, i
  <2>2. /\ p < Len(disk') => disk'[p + 1] = disk[p + 1] /\ p < Len(disk)
        /\ p + 1 < Len(disk') => disk'[p + 2] = disk[p + 2] /\ p + 1 < Len(disk)
    <3>1. /\ p < Len(disk') => p + 1 \in 1 .. Len(disk') /\ p < Len(disk)
          /\ p + 1 < Len(disk') => p + 2 \in 1 .. Len(disk') /\ p + 1 < Len(disk)
      BY <1>1, <2>1
    <3> QED
      BY <3>1
  <2> QED
    BY <2>1, <2>2 DEF Spelt, p
<1> QED
  BY <1>1, <1>2 DEF Spells

\* The bytes of one instruction more,
Added(d, i, e) ==
    /\ e \in Seq(Bytes) /\ Len(e) = Len(d) + 1 + opcode_len(i.op)
    /\ \A k \in 1 .. Len(d) : e[k] = d[k]
    /\ e[Len(d) + 1] = [opcode |-> i.op]
    /\ opcode_len(i.op) > 0 => e[Len(d) + 2] = [operands |-> i.operands]

LEMMA OpAdded ==
    ASSUME NEW d \in Seq(Bytes), NEW i \in Instructions, NEW e, e = d \o OpBytes(i)
    PROVE  Added(d, i, e)
<1> DEFINE n == opcode_len(i.op)
           b == OpBytes(i)
<1>1. /\ b \in Seq(Bytes) /\ Len(b) = 1 + n /\ b[1] = [opcode |-> i.op]
      /\ n > 0 => b[2] = [operands |-> i.operands]
  BY OpBytesAre
<1>2. n \in Nat /\ Len(d) \in Nat
  BY Lengths
<1>3. e = d \o b
  OBVIOUS
<1> HIDE DEF n, b
<1>4. /\ e \in Seq(Bytes) /\ Len(e) = Len(d) + Len(b)
      /\ \A k \in 1 .. Len(d) : e[k] = d[k]
      /\ \A k \in 1 .. Len(b) : e[Len(d) + k] = b[k]
  <2>1. b \in Seq(Bytes)
    BY <1>1
  <2> QED
    BY <1>3, <2>1, Joined
<1> HIDE <1>3
<1>5. 1 \in 1 .. Len(b) /\ (n > 0 => 2 \in 1 .. Len(b))
  BY <1>1, <1>2
<1>6. e[Len(d) + 1] = b[1] /\ (n > 0 => e[Len(d) + 2] = b[2])
  BY <1>4, <1>5
<1>7. Len(e) = Len(d) + 1 + n
  BY <1>1, <1>2, <1>4
<1> QED
  BY <1>1, <1>4, <1>6, <1>7 DEF Added, n

\* the place of one instruction more,
LEMMA PlaceAdded ==
    ASSUME NEW s, NEW m \in Nat, Places(s, m)
    PROVE  \E t : /\ Places(t, m + 1)
                  /\ \A j \in 1 .. m + 1 : t[j] = s[j]
                  /\ t[m + 2] = s[m + 1] + 1 + opcode_len(em.ops[m + 1].op)
<1> DEFINE n == opcode_len(em.ops[m + 1].op)
           t == [j \in 1 .. m + 2 |-> IF j <= m + 1 THEN s[j] ELSE s[m + 1] + 1 + n]
<1>1. n \in Nat
  BY Lengths
<1>5. /\ s \in [1 .. m + 1 -> Nat] /\ s[1] = 8
      /\ \A k \in 1 .. m : s[k + 1] = s[k] + 1 + opcode_len(em.ops[k].op)
      /\ \A j, k \in 1 .. m + 1 : j < k => s[j] < s[k]
  BY DEF Places
<1> HIDE DEF n
<1>6. /\ t \in [1 .. m + 2 -> Nat]
      /\ \A j \in 1 .. m + 1 : t[j] = s[j] /\ s[j] \in Nat
      /\ t[m + 2] = s[m + 1] + 1 + n
  BY <1>1, <1>5
<1> HIDE DEF t
<1>7. t[1] = 8
  BY <1>5, <1>6
<1>8. ASSUME NEW k \in 1 .. m + 1
      PROVE  t[k + 1] = t[k] + 1 + opcode_len(em.ops[k].op)
  <2>1. CASE k = m + 1
    <3>1. t[k + 1] = s[k] + 1 + n /\ t[k] = s[k]
      BY <1>6, <2>1
    <3> QED
      BY <2>1, <3>1 DEF n
  <2>2. CASE k \in 1 .. m
    <3>1. t[k + 1] = s[k + 1] /\ t[k] = s[k]
      BY <1>6, <2>2
    <3> QED
      BY <1>5, <2>2, <3>1
  <2> QED
    BY <2>1, <2>2
<1>9. ASSUME NEW j \in 1 .. m + 2, NEW k \in 1 .. m + 2, j < k
      PROVE  t[j] < t[k]
  <2>1. j \in 1 .. m + 1 /\ t[j] = s[j] /\ s[j] \in Nat /\ s[m + 1] \in Nat
    BY <1>6, <1>9
  <2>2. CASE k = m + 2
    <3>1. s[j] <= s[m + 1]
      <4>1. CASE j = m + 1
        BY <2>1, <4>1
      <4>2. CASE j # m + 1
        <5>1. j < m + 1 /\ m + 1 \in 1 .. m + 1
          BY <2>1, <4>2
        <5>2. s[j] < s[m + 1]
          BY <1>5, <2>1, <5>1
        <5> QED
          BY <2>1, <5>2
      <4> QED
        BY <4>1, <4>2
    <3> QED
      BY <1>1, <1>6, <2>1, <2>2, <3>1
  <2>3. CASE k \in 1 .. m + 1
    <3>1. t[k] = s[k] /\ s[j] < s[k]
      BY <1>5, <1>6, <1>9, <2>1, <2>3
    <3> QED
      BY <2>1, <3>1
  <2> QED
    BY <2>2, <2>3
<1>10. Places(t, m + 1)
  <2>1. t \in [1 .. (m + 1) + 1 -> Nat]
    BY <1>6
  <2>2. \A j, k \in 1 .. (m + 1) + 1 : j < k => t[j] < t[k]
    BY <1>9
  <2> QED
    BY <1>7, <1>8, <2>1, <2>2 DEF Places
<1> QED
  BY <1>6, <1>10 DEF n

\* and the instruction at it.
LEMMA OpWritten ==
    ASSUME Program, disk \in Seq(Bytes), NEW s, NEW m \in 0 .. Emitted(em) - 1, Spells(s, m),
           Len(disk) = s[m + 1], disk' = disk \o OpBytes(em.ops[m + 1]), em' = em
    PROVE  /\ disk' \in Seq(Bytes)
           /\ \E t : Spells(t, m + 1)' /\ Len(disk') = t[m + 2]
<1> DEFINE i == em.ops[m + 1]
           n == opcode_len(i.op)
<1>1. i \in Instructions /\ m \in Nat /\ n \in Nat
  <2>1. em.ops \in Seq(Instructions) /\ Emitted(em) = Len(em.ops)
    BY DEF Program, Emitters, Emitted
  <2>2. m + 1 \in 1 .. Len(em.ops) /\ m \in Nat
    BY <2>1
  <2> QED
    BY <2>1, <2>2, Lengths
<1>2. Places(s, m)
  BY DEF Spells
<1>3. PICK t : /\ Places(t, m + 1)
               /\ \A j \in 1 .. m + 1 : t[j] = s[j]
               /\ t[m + 2] = s[m + 1] + 1 + n
  BY <1>1, <1>2, PlaceAdded
<1>4. /\ disk' \in Seq(Bytes) /\ Len(disk') = Len(disk) + 1 + n
      /\ \A k \in 1 .. Len(disk) : disk'[k] = disk[k]
      /\ disk'[Len(disk) + 1] = [opcode |-> i.op]
      /\ n > 0 => disk'[Len(disk) + 2] = [operands |-> i.operands]
  <2>1. disk' = disk \o OpBytes(i) /\ disk \in Seq(Bytes)
    OBVIOUS
  <2> HIDE DEF i, n
  <2>2. Added(disk, i, disk')
    BY ONLY <1>1, <2>1, OpAdded, Zenon
  <2> QED
    BY ONLY <2>2 DEF Added, n
<1>5. Len(disk) \in Nat /\ Len(disk) = s[m + 1] /\ em' = em /\ em'.ops[m + 1] = i
  OBVIOUS
<1>6. Spells(s, m)'
  <2>1. Len(disk) <= Len(disk') /\ s[m + 1] <= Len(disk)
    BY ONLY <1>1, <1>4, <1>5
  <2> QED
    BY <1>1, <1>4, <2>1, SpellsOn, Zenon
<1>7. ASSUME NEW k \in 1 .. m + 1
      PROVE  Spelt(em.ops[k], t[k])'
  <2>1. CASE k = m + 1
    <3>1. t[k] = Len(disk) /\ em'.ops[k] = i
      BY ONLY <1>1, <1>3, <1>5, <2>1
    <3> QED
      BY ONLY <1>1, <1>4, <3>1 DEF Spelt, n
  <2>2. CASE k \in 1 .. m
    <3>1. t[k] = s[k]
      BY ONLY <1>1, <1>3, <2>2
    <3>2. Spelt(em.ops[k], s[k])'
      BY <1>6, <2>2, Zenon DEF Spells
    <3> QED
      BY ONLY <3>1, <3>2 DEF Spelt
  <2> QED
    BY ONLY <1>1, <2>1, <2>2, <1>7
<1>8. Places(t, m + 1)'
  BY ONLY <1>3, <1>5 DEF Places
<1>9. Spells(t, m + 1)'
  BY ONLY <1>7, <1>8 DEF Spells
<1>10. Len(disk') = t[m + 2]
  BY ONLY <1>1, <1>3, <1>4, <1>5
<1> QED
  BY <1>4, <1>9, <1>10, Zenon

\* At the place of an instruction the loader reads that instruction, or its
\* kind, when the file ends inside of it.
LEMMA NextSaved ==
    ASSUME Program, disk \in Seq(Bytes), NEW s, NEW m \in 0 .. Emitted(em), Spells(s, m),
           NEW k \in 1 .. m, at = s[k], InFile
    PROVE  /\ NextOp \in OpForms /\ NextOp.op = em.ops[k].op
           /\ at + opcode_len(NextOp.op) < Len(disk) => NextOp = em.ops[k]
<1> DEFINE i == em.ops[k]
           n == opcode_len(i.op)
           left == Len(disk) - at - 1
           w == IF n < left THEN n ELSE left
<1>1. /\ i \in Instructions /\ i.op \in Opcodes
      /\ i = [op |-> i.op, operands |-> i.operands]
      /\ Len(disk) \in Nat /\ at \in Nat /\ at < Len(disk) /\ n \in Nat /\ left \in Nat
  <2>1. em.ops \in Seq(Instructions) /\ m <= Len(em.ops) /\ Len(em.ops) \in Nat
    BY DEF Program, Emitters, Emitted
  <2>2. k \in 1 .. Len(em.ops)
    BY <2>1
  <2>3. i \in Instructions
    BY <2>1, <2>2
  <2>4. at \in Nat
    BY PlaceOf DEF Spells
  <2>5. i \in Instructions /\ Len(disk) \in Nat /\ at \in Nat /\ at < Len(disk) /\ n \in Nat
    BY <2>3, <2>4, Lengths DEF InFile
  <2>6. i.op \in Opcodes /\ i = [op |-> i.op, operands |-> i.operands]
    BY <2>5 DEF Instructions
  <2> QED
    BY <2>5, <2>6
<1>2. /\ disk[at + 1] = [opcode |-> i.op]
      /\ left > 0 /\ n > 0 => disk[at + 2] = [operands |-> i.operands]
  <2>1. Spelt(i, at)
    BY DEF Spells
  <2> HIDE DEF i, n
  <2> QED
    BY <1>1, <2>1 DEF Spelt, n
<1>3. NextOp = IF n = 0 THEN Op(i.op, <<0>>)
               ELSE IF left = 0 THEN Op(i.op, [j \in 1 .. Arity(i.op) |-> 0])
               ELSE Op(i.op, Spelled(i.op, disk[at + 2].operands, w))
  BY <1>2 DEF NextOp
<1> HIDE DEF i, n, left, w
<1>4. CASE n = 0
  <2>1. NextOp = [op |-> i.op, operands |-> <<0>>]
    BY <1>3, <1>4 DEF Op
  <2>2. i.operands = <<0>>
    BY <1>1, <1>4, Lengths DEF Program, Zeroed, i, n
  <2>3. <<0>> \in Seq(Int)
    OBVIOUS
  <2> QED
    BY <1>1, <2>1, <2>2, <2>3 DEF OpForms, i
<1>5. CASE n # 0 /\ left = 0
  <2>1. NextOp = [op |-> i.op, operands |-> [j \in 1 .. Arity(i.op) |-> 0]]
    BY <1>3, <1>5 DEF Op
  <2>2. [j \in 1 .. Arity(i.op) |-> 0] \in Seq(Int)
    <3>1. [j \in 1 .. Arity(i.op) |-> 0] \in [1 .. Arity(i.op) -> Int] /\ Arity(i.op) \in Nat
      BY <1>1, Arities
    <3> QED
      BY <3>1
  <2>3. ~(at + n < Len(disk))
    BY <1>1, <1>5 DEF left
  <2> QED
    BY <1>1, <2>1, <2>2, <2>3 DEF OpForms, i, n
<1>6. CASE n # 0 /\ left # 0
  <2>1. disk[at + 2].operands = i.operands
    BY <1>1, <1>2, <1>6
  <2>2. NextOp = [op |-> i.op, operands |-> Spelled(i.op, i.operands, w)]
    BY <1>3, <1>6, <2>1 DEF Op
  <2>3. i.op \in Carrying /\ w \in Nat /\ (at + n < Len(disk) => n <= w)
    BY <1>1, <1>6, Lengths DEF w, left, n
  <2>4. /\ Spelled(i.op, i.operands, w) \in Seq(Int)
        /\ n <= w => Spelled(i.op, i.operands, w) = i.operands
    BY <1>1, <2>3, SpelledOut DEF n
  <2> QED
    BY <1>1, <2>2, <2>3, <2>4 DEF OpForms, i, n
<1> QED
  BY <1>4, <1>5, <1>6

-----------------------------------------------------------------------------
(* The program.                                                            *)

\* A HALT behind the code.
LEMMA Halted ==
    ASSUME NEW e \in Emitters, NEW f, f = [e EXCEPT !.ops = Append(@, Op("HALT", << 0 >>))]
    PROVE  /\ f \in Emitters /\ Emitted(e) \in Nat /\ Emitted(f) = Emitted(e) + 1
           /\ \A k \in 1 .. Emitted(e) : f.ops[k] = e.ops[k]
           /\ f.ops[Emitted(f)] = Op("HALT", <<0>>)
<1>1. f = emit(e, "HALT", <<0>>, e.ret_type)
  BY DEF emit, Emitters
<1>2. <<0>> \in Seq(Int) /\ Len(<<0>>) = 1 /\ e.ret_type \in Ret_Type
  BY DEF Emitters
<1>3. f \in Emitters /\ Longer(e, f, Op("HALT", <<0>>))
  <2>1. /\ emit(e, "HALT", <<0>>, e.ret_type) \in Emitters
        /\ Longer(e, emit(e, "HALT", <<0>>, e.ret_type), Op("HALT", <<0>>))
    BY <1>2, Arities, EmitType
  <2> QED
    BY <1>1, <2>1
<1>4. Emitted(e) \in Nat
  BY DEF Emitted, Emitters
<1> QED
  BY <1>3, <1>4 DEF Longer

\* Compiling goes on, or ends with a HALT.
LEMMA CompiledStep ==
    ASSUME Compiled, GeneratorStep
    PROVE  Compiled'
<1>1. mode # "done" /\ (node_has_error => node_has_error')
  BY GoesOn
<1>2. CodeInv /\ Unstopped(em) /\ em \in Emitters
  BY <1>1 DEF Compiled
<1>3. CodeInv'
  BY <1>2, CodeInvStep DEF Next, GeneratorStep
<1>4. em' \in Emitters /\ pool'.size \in Nat
  BY <1>3 DEF CodeInv, TypeInv, TypeOK, Emitters
<1>5. ~node_has_error' => Zeroed(em')
  BY <1>1, <1>2, ZeroedStep DEF Compiled
<1>6. CASE mode' # "done"
  <2>1. Unstopped(em')
    BY <1>2, <1>6, UnstoppedStep DEF CodeInv
  <2> QED
    BY <1>3, <1>4, <1>5, <1>6, <2>1 DEF Compiled, Unstopped, Zeroed, Emitted
<1>7. CASE mode' = "done"
  <2>1. em' = [em EXCEPT !.ops = Append(@, Op("HALT", <<0>>))]
    BY <1>7, DoneStep DEF gen_program_end
  <2>2. /\ Emitted(em) \in Nat /\ Emitted(em') = Emitted(em) + 1
        /\ \A k \in 1 .. Emitted(em) : em'.ops[k] = em.ops[k]
        /\ em'.ops[Emitted(em')] = Op("HALT", <<0>>)
    BY <1>2, <2>1, Halted, Zenon
  <2>3. \A k \in 1 .. Emitted(em) : em'.ops[k].op # "HALT"
    BY <1>2, <2>2 DEF Unstopped
  <2>4. em'.ops[Emitted(em')].op = "HALT"
    BY <2>2 DEF Op
  <2>5. ~Launched'
    BY <2>2, <2>3 DEF Launched, Emitted
  <2> QED
    BY <1>4, <1>5, <1>7, <2>2, <2>3, <2>4, <2>5 DEF Compiled, Zeroed, Emitted
<1> QED
  BY <1>6, <1>7

\* file_run adds the second one.
LEMMA LaunchStep ==
    ASSUME Compiled, Launch
    PROVE  Compiled'
<1>1. /\ mode = "done" /\ mode' = "done" /\ ~node_has_error /\ ~node_has_error' /\ ~Launched
      /\ em' = [em EXCEPT !.ops = Append(@, Op("HALT", <<0>>))] /\ pool' = pool
  BY DEF Launch, Consts
<1>2. /\ em \in Emitters /\ Zeroed(em) /\ Emitted(em) > 0 /\ em.ops[Emitted(em)].op = "HALT"
      /\ \A k \in 1 .. Emitted(em) - 2 : em.ops[k].op # "HALT"
  BY <1>1 DEF Compiled
<1>3. /\ em' \in Emitters /\ Emitted(em) \in Nat /\ Emitted(em') = Emitted(em) + 1
      /\ \A k \in 1 .. Emitted(em) : em'.ops[k] = em.ops[k]
      /\ em'.ops[Emitted(em')] = Op("HALT", <<0>>)
  BY <1>1, <1>2, Halted, Zenon
<1>4. em'.ops[Emitted(em')].op = "HALT" /\ em'.ops[Emitted(em')].operands = <<0>>
  BY <1>3 DEF Op
<1>5. Zeroed(em')
  BY <1>2, <1>3, <1>4 DEF Zeroed
<1>6. \A k \in 1 .. Emitted(em') - 2 : em'.ops[k].op # "HALT"
  <2>1. Emitted(em) > 1 => em.ops[Emitted(em) - 1].op # "HALT"
    BY <1>1 DEF Launched, Emitted
  <2>2. \A k \in 1 .. Emitted(em) - 1 : em.ops[k].op # "HALT"
    BY <1>2, <1>3, <2>1
  <2> QED
    BY <1>3, <2>2
<1> QED
  BY <1>1, <1>3, <1>4, <1>5, <1>6 DEF Compiled, Zeroed, Emitted

LEMMA CompiledSaved ==
    ASSUME Compiled, mode = "done", Launched
    PROVE  Program
<1>1. Emitted(em) \in Nat
  BY DEF Compiled, Emitters, Emitted
<1> QED
  BY <1>1 DEF Compiled, Program, Launched, Emitted

-----------------------------------------------------------------------------
(* The steps.                                                              *)

LEMMA ImageInit ==
    ASSUME ImInit
    PROVE  ImageInv
<1>1. /\ Init /\ disk = <<>> /\ proc = "compiler" /\ saved = 0 /\ ops = <<>>
  BY DEF ImInit, HostInit
<1>2. CodeInv
  BY <1>1, CodeInvInit
<1>3. em \in Emitters /\ pool.size \in Nat
  BY <1>2 DEF CodeInv, TypeInv, TypeOK, Emitters
<1>4. em.ops = <<>> /\ mode = "stmt" /\ Len(<<>>) = 0
  BY <1>1 DEF Init
<1>5. Unstopped(em) /\ Zeroed(em)
  BY <1>4 DEF Unstopped, Zeroed, Emitted
<1>6. Compiled
  BY <1>2, <1>3, <1>4, <1>5 DEF Compiled
<1>7. disk \in Seq(Bytes) /\ ops \in Seq(OpForms)
  BY <1>1
<1> QED
  BY <1>1, <1>6, <1>7 DEF ImageInv, Saves, Loads, LoadedIsSaved

\* The head: the program begins at byte 8.
LEMMA SaveHeadStep ==
    ASSUME ImageInv, SaveHead
    PROVE  ImageInv'
<1>1. /\ proc = "compiler" /\ proc' = "saving" /\ UNCHANGED <<em, pool, saved, ops>>
      /\ disk' = Magic \o Version /\ mode = "done" /\ Launched
  BY DEF SaveHead, hvars, gvars, Consts, loader
<1>2. Program /\ saved = 0 /\ ops \in Seq(OpForms) /\ ops = <<>>
  BY <1>1, CompiledSaved DEF ImageInv, Saves, Loads
<1>3. disk' \in Seq(Bytes) /\ Len(disk') = 8
  BY <1>1, HeadBytes
<1> DEFINE s == [k \in 1 .. 1 |-> 8]
<1>4. s \in [1 .. 0 + 1 -> Nat] /\ s[1] = 8 /\ s[0 + 1] = 8
  OBVIOUS
<1> HIDE DEF s
<1>5. Spells(s, 0)'
  BY <1>4 DEF Spells, Places
<1>6. 0 \in 0 .. Emitted(em) /\ saved' = 0 /\ Len(disk') = s[0 + 1]
  BY <1>1, <1>2, <1>3, <1>4 DEF Program
<1>7. Program'
  BY <1>1, <1>2 DEF Program
<1>8. Saves'
  BY <1>1, <1>5, <1>6 DEF Saves
<1>9. Loads'
  BY <1>1, <1>2 DEF Loads
<1> QED
  BY <1>1, <1>2, <1>3, <1>7, <1>8, <1>9 DEF ImageInv, LoadedIsSaved

LEMMA SaveOpStep ==
    ASSUME ImageInv, SaveOp
    PROVE  ImageInv'
<1>1. /\ proc = "saving" /\ proc' = "saving" /\ UNCHANGED <<em, pool, ops>>
      /\ saved < Emitted(em) /\ saved' = saved + 1
      /\ disk' = disk \o OpBytes(em.ops[saved + 1])
  BY DEF SaveOp, hvars, gvars, Consts, loader
<1>2. /\ Program /\ disk \in Seq(Bytes) /\ ops \in Seq(OpForms) /\ ops = <<>>
      /\ saved \in 0 .. Emitted(em) /\ Emitted(em) \in Nat
  BY <1>1 DEF ImageInv, Saves, Loads, Program
<1>3. PICK m, s : m = saved /\ Spells(s, m) /\ Len(disk) = s[m + 1]
  BY <1>1 DEF ImageInv, Saves
<1>4. m \in 0 .. Emitted(em) - 1 /\ m \in Nat
  BY <1>1, <1>2, <1>3
<1>5. disk' = disk \o OpBytes(em.ops[m + 1]) /\ em' = em
  BY ONLY <1>1, <1>3
<1>6. /\ disk' \in Seq(Bytes)
      /\ \E t : Spells(t, m + 1)' /\ Len(disk') = t[m + 2]
  BY ONLY <1>2, <1>3, <1>4, <1>5, OpWritten
<1>7. PICK t : Spells(t, m + 1)' /\ Len(disk') = t[m + 2]
  BY <1>6
<1>8. saved' = m + 1 /\ saved' + 1 = m + 2 /\ saved' \in 0 .. Emitted(em')
  BY ONLY <1>1, <1>2, <1>3, <1>4
<1>9. Program'
  BY <1>1, <1>2 DEF Program
<1>10. Saves'
  BY ONLY <1>1, <1>7, <1>8 DEF Saves
<1>11. Loads'
  BY ONLY <1>1, <1>2 DEF Loads
<1> QED
  BY ONLY <1>1, <1>2, <1>6, <1>9, <1>10, <1>11 DEF ImageInv, LoadedIsSaved

LEMMA SavePoolStep ==
    ASSUME ImageInv, SavePool
    PROVE  ImageInv'
<1>1. /\ proc = "saving" /\ proc' = "saved" /\ UNCHANGED <<em, pool, ops>>
      /\ saved = Emitted(em) /\ disk' = disk \o PoolBytes
  BY DEF SavePool, hvars, gvars, Consts, loader
<1>2. /\ Program /\ disk \in Seq(Bytes) /\ ops \in Seq(OpForms) /\ ops = <<>>
      /\ Emitted(em) \in Nat /\ pool.size \in Nat
  BY <1>1 DEF ImageInv, Loads, Program
<1>3. PICK s : Spells(s, Emitted(em)) /\ Len(disk) = s[Emitted(em) + 1]
  BY <1>1 DEF ImageInv, Saves
<1>4. PICK b : b = PoolBytes /\ b \in Seq(Bytes)
  BY <1>2, PoolBytesAre
<1>5. /\ disk' \in Seq(Bytes) /\ Len(disk') = Len(disk) + Len(b)
      /\ \A k \in 1 .. Len(disk) : disk'[k] = disk[k]
  <2>1. disk' = disk \o b
    BY ONLY <1>1, <1>4
  <2>2. disk \in Seq(Bytes) /\ b \in Seq(Bytes)
    BY ONLY <1>2, <1>4
  <2> QED
    BY ONLY <2>1, <2>2, Joined
<1>6. Len(disk) <= Len(disk') /\ s[Emitted(em) + 1] <= Len(disk)
  BY ONLY <1>2, <1>3, <1>4, <1>5
<1>7. Spells(s, Emitted(em))'
  <2>1. PICK m \in Nat : m = Emitted(em)
    BY <1>2
  <2>2. Spells(s, m)'
    BY ONLY <1>1, <1>2, <1>3, <1>5, <1>6, <2>1, SpellsOn
  <2>3. Emitted(em') = m
    BY ONLY <1>1, <2>1
  <2> QED
    BY ONLY <2>2, <2>3
<1>8. s[Emitted(em') + 1] <= Len(disk')
  BY ONLY <1>1, <1>2, <1>3, <1>5, <1>6
<1>9. Program'
  BY <1>1, <1>2 DEF Program
<1>10. Saves'
  BY ONLY <1>1, <1>7, <1>8 DEF Saves
<1>11. Loads'
  BY ONLY <1>1, <1>2 DEF Loads
<1> QED
  BY ONLY <1>1, <1>2, <1>5, <1>9, <1>10, <1>11 DEF ImageInv, LoadedIsSaved

\* Whatever is lost.
LEMMA GoDownStep ==
    ASSUME ImageInv, GoDown
    PROVE  ImageInv'
<1>1. /\ proc \in {"saving", "saved"} /\ proc' = "down" /\ UNCHANGED <<em, pool, ops>>
      /\ disk' \in Written(disk)
  BY DEF GoDown, hvars, gvars, Consts, loader
<1>2. /\ Program /\ disk \in Seq(Bytes) /\ ops \in Seq(OpForms) /\ ops = <<>>
      /\ Emitted(em) \in Nat
  BY <1>1 DEF ImageInv, Loads, Program
<1>3. /\ disk' \in Seq(Bytes) /\ Len(disk') <= Len(disk)
      /\ \A k \in 1 .. Len(disk') : disk'[k] = disk[k]
  <2>1. PICK n \in 0 .. Len(disk) : disk' = SubSeq(disk, 1, n)
    BY <1>1 DEF Written
  <2> QED
    BY <1>2, <2>1
<1>4. PICK s, m : /\ m \in 0 .. Emitted(em) /\ Spells(s, m)
                  /\ Len(disk) <= s[m + 1] \/ m = Emitted(em)
  <2>1. CASE proc = "saving"
    <3>1. PICK s, m : m = saved /\ Spells(s, m) /\ Len(disk) = s[m + 1]
      BY <2>1 DEF ImageInv, Saves
    <3>2. m \in 0 .. Emitted(em) /\ Len(disk) \in Nat
      BY <1>2, <2>1, <3>1 DEF ImageInv, Saves
    <3>3. Len(disk) <= s[m + 1]
      BY ONLY <3>1, <3>2
    <3> QED
      BY <3>1, <3>2, <3>3
  <2>2. CASE proc = "saved"
    <3>1. PICK s, m : m = Emitted(em) /\ Spells(s, m)
      BY <2>2 DEF ImageInv, Saves
    <3>2. m \in 0 .. Emitted(em)
      BY ONLY <1>2, <3>1
    <3> QED
      BY <3>1, <3>2
  <2> QED
    BY <1>1, <2>1, <2>2
<1>5. Spells(s, m)'
  <2>1. m \in Nat
    BY <1>2, <1>4
  <2> QED
    BY ONLY <1>1, <1>2, <1>3, <1>4, <2>1, SpellsStill
<1>6. Len(disk') <= s[m + 1] \/ m = Emitted(em')
  <2>1. Len(disk) \in Nat /\ Len(disk') \in Nat /\ s[m + 1] \in Nat
    <3>1. s \in [1 .. m + 1 -> Nat] /\ m \in Nat
      BY <1>2, <1>4 DEF Spells, Places
    <3> QED
      BY <1>2, <1>3, <3>1
  <2> QED
    BY ONLY <1>1, <1>3, <1>4, <2>1
<1>7. Prefix(s, m)'
  BY ONLY <1>1, <1>4, <1>5, <1>6 DEF Prefix
<1>8. Program'
  BY <1>1, <1>2 DEF Program
<1>9. Saves'
  BY ONLY <1>1, <1>7 DEF Saves
<1>10. Loads'
  BY ONLY <1>1, <1>2 DEF Loads
<1> QED
  BY ONLY <1>1, <1>2, <1>3, <1>8, <1>9, <1>10 DEF ImageInv, LoadedIsSaved

\* What is too short for an image is another file.
LEMMA ReadAsTextStep ==
    ASSUME ImageInv, ReadAsText
    PROVE  ImageInv'
<1> DEFINE h == Op("HALT", <<0>>)
<1>1. /\ proc = "down" /\ proc' = "text" /\ UNCHANGED <<em, pool>>
      /\ ops' = <<h, h>>
      /\ disk' \in Written(Magic \o Version \o OpBytes(ops'[1]) \o OpBytes(ops'[2]))
  BY DEF ReadAsText, hvars, gvars, Consts
<1>2. h \in Instructions /\ h \in OpForms
  <2>1. "HALT" \in Opcodes /\ Arity("HALT") = 1 /\ <<0>> \in Seq(Int) /\ Len(<<0>>) = 1
    BY Arities
  <2> QED
    BY <2>1 DEF Op, Instructions, OpForms
<1> HIDE DEF h
<1>3. ops' \in Seq(OpForms) /\ ops'[1] = h /\ ops'[2] = h
  BY ONLY <1>1, <1>2
<1>4. PICK a, b : /\ a = Magic \o Version /\ b = OpBytes(h)
                  /\ a \in Seq(Bytes) /\ b \in Seq(Bytes)
  BY <1>2, HeadBytes, OpBytesAre
<1>5. PICK d : d = Magic \o Version \o OpBytes(h) \o OpBytes(h) /\ d \in Seq(Bytes)
  <2>1. PICK c : c = a \o b
    OBVIOUS
  <2>2. c \in Seq(Bytes)
    BY ONLY <1>4, <2>1, Joined, Zenon
  <2>3. PICK d : d = c \o b
    OBVIOUS
  <2>4. d \in Seq(Bytes)
    BY ONLY <1>4, <2>2, <2>3, Joined, Zenon
  <2>5. d = Magic \o Version \o OpBytes(h) \o OpBytes(h)
    BY ONLY <1>4, <2>1, <2>3, Zenon
  <2> QED
    BY <2>4, <2>5
<1>6. disk' \in Seq(Bytes)
  <2>1. disk' \in Written(d)
    BY ONLY <1>1, <1>3, <1>5, Zenon
  <2>2. d \in Seq(Bytes)
    BY <1>5
  <2>3. PICK n \in 0 .. Len(d) : disk' = SubSeq(d, 1, n)
    BY ONLY <2>1 DEF Written
  <2> QED
    BY ONLY <2>2, <2>3
<1>7. Program'
  BY <1>1 DEF ImageInv, Program
<1>8. Saves' /\ Loads'
  BY ONLY <1>1 DEF Saves, Loads
<1> QED
  BY ONLY <1>1, <1>3, <1>6, <1>7, <1>8 DEF ImageInv, LoadedIsSaved

\* The loader begins where the program does.
LEMMA OpenImageStep ==
    ASSUME ImageInv, OpenImage
    PROVE  ImageInv'
<1>1. /\ proc = "down" /\ proc' \in {"load", "refused"} /\ at' = 8
      /\ UNCHANGED <<em, pool, ops, disk>>
  BY DEF OpenImage, hvars, gvars, Consts
<1>2. Program /\ disk \in Seq(Bytes) /\ ops \in Seq(OpForms) /\ ops = <<>>
  BY <1>1 DEF ImageInv, Loads
<1>3. PICK s, m : Prefix(s, m)
  BY <1>1 DEF ImageInv, Saves
<1>4. Prefix(s, m)'
  BY <1>1, <1>3 DEF Prefix, Spells, Places, Spelt
<1>5. Reads(s, m)'
  <2>1. m \in Nat /\ s[1] = 8
    BY <1>2, <1>3 DEF Prefix, Spells, Places, Program
  <2>2. ops' = <<>> /\ Len(ops') = 0
    BY <1>1, <1>2
  <2> QED
    BY <1>1, <2>1, <2>2 DEF Reads
<1>6. Program'
  BY <1>1, <1>2 DEF Program
<1>7. Saves'
  BY ONLY <1>1 DEF Saves
<1>8. Loads'
  <2>1. at' \in Nat /\ ops' = <<>> /\ Len(ops') = 0
    BY <1>1, <1>2
  <2> QED
    BY <1>1, <1>4, <1>5, <2>1 DEF Loads
<1> QED
  BY ONLY <1>1, <1>2, <1>6, <1>7, <1>8 DEF ImageInv, LoadedIsSaved

\* What is left when the last instruction of a file has been read: nothing.
LEMMA InsideSaved ==
    ASSUME ImageInv, proc = "load", InFile
    PROVE  \E s, m : /\ Prefix(s, m) /\ Len(ops) + 1 \in 1 .. m /\ at = s[Len(ops) + 1]
                     /\ \A k \in 1 .. Len(ops) : ops[k] = em.ops[k]
<1>1. /\ Program /\ disk \in Seq(Bytes) /\ ops \in Seq(OpForms) /\ Loads
      /\ at \in Nat /\ Len(disk) \in Nat /\ Len(ops) \in Nat /\ at < Len(disk)
      /\ \A k \in 1 .. Len(ops) : ops[k].op # "HALT"
  BY DEF ImageInv, Loads, InFile
<1>2. PICK s, m : Prefix(s, m) /\ Reads(s, m)
  BY DEF ImageInv, Loads
<1>3. /\ Len(ops) \in 0 .. m /\ at = s[Len(ops) + 1]
      /\ \A k \in 1 .. Len(ops) : ops[k] = em.ops[k]
  BY <1>1, <1>2 DEF Reads
<1>4. Len(ops) # m
  <2>1. SUFFICES ASSUME Len(ops) = m
                 PROVE  FALSE
    OBVIOUS
  <2>2. m = Emitted(em) /\ Emitted(em) \in Nat \ {0, 1}
    <3>1. Len(disk) <= s[m + 1] \/ m = Emitted(em)
      BY <1>2 DEF Prefix
    <3>2. ~(Len(disk) <= s[m + 1])
      BY ONLY <1>1, <1>3, <2>1
    <3> QED
      BY <1>1, <3>1, <3>2 DEF Program
  <2>3. Emitted(em) - 1 \in 1 .. Len(ops)
    BY ONLY <2>1, <2>2
  <2>4. ops[Emitted(em) - 1].op = "HALT"
    BY <1>1, <1>3, <2>3 DEF Program
  <2> QED
    BY <1>1, <2>3, <2>4
<1>5. m \in Nat
  BY <1>1, <1>2 DEF Program, Prefix
<1> QED
  BY <1>1, <1>2, <1>3, <1>4, <1>5

\* An instruction is read.
LEMMA ReadOpStep ==
    ASSUME ImageInv, ReadOp
    PROVE  ImageInv'
<1> DEFINE i == IF InFile THEN NextOp ELSE EofOp
<1>1. /\ proc = "load" /\ proc' = "load" /\ UNCHANGED <<em, pool, disk>>
      /\ ops' = Append(ops, i) /\ ops'[Len(ops')].op # "HALT"
      /\ at' = at + 1 + opcode_len(ops'[Len(ops')].op)
  BY DEF ReadOp, hvars, gvars, Consts
<1>2. /\ Program /\ disk \in Seq(Bytes) /\ ops \in Seq(OpForms)
      /\ at \in Nat /\ Len(disk) \in Nat /\ Len(ops) \in Nat
      /\ \A k \in 1 .. Len(ops) : ops[k].op # "HALT"
  BY <1>1 DEF ImageInv, Loads
<1>3. ASSUME ~InFile
      PROVE  i \in OpForms /\ (at' = at + 1 + opcode_len(i.op) => \E s, m : Prefix(s, m) /\ Reads(s, m)')
  <2>1. i = EofOp /\ EofOp \in OpForms
    <3>1. <<0>> \in Seq(Int)
      OBVIOUS
    <3> QED
      BY <1>3, <3>1 DEF EofOp, Op, OpForms
  <2>2. PICK s, m : Prefix(s, m)
    BY <1>1 DEF ImageInv, Loads
  <2>3. ASSUME at' = at + 1 + opcode_len(i.op)
        PROVE  Len(disk') <= at'
    <3>1. opcode_len(i.op) \in Nat
      BY Lengths
    <3> HIDE DEF i
    <3> QED
      BY <1>1, <1>2, <1>3, <2>3, <3>1 DEF InFile
  <2> QED
    BY <2>1, <2>2, <2>3 DEF Reads
<1>4. ASSUME InFile
      PROVE  i \in OpForms /\ (at' = at + 1 + opcode_len(i.op) => \E s, m : Prefix(s, m) /\ Reads(s, m)')
  <2>1. PICK s, m : /\ Prefix(s, m) /\ Len(ops) + 1 \in 1 .. m /\ at = s[Len(ops) + 1]
                    /\ \A k \in 1 .. Len(ops) : ops[k] = em.ops[k]
    BY <1>1, <1>4, InsideSaved
  <2>2. PICK k : k = Len(ops) + 1 /\ k \in 1 .. m /\ at = s[k]
    BY <2>1
  <2>3. m \in 0 .. Emitted(em) /\ Spells(s, m) /\ m \in Nat
    BY <1>2, <2>1 DEF Prefix, Program
  <2>4. /\ i \in OpForms /\ i.op = em.ops[k].op
        /\ at + opcode_len(i.op) < Len(disk) => i = em.ops[k]
    BY <1>2, <1>4, <2>2, <2>3, NextSaved
  <2>5. ASSUME at' = at + 1 + opcode_len(i.op)
        PROVE  Reads(s, m)'
    <3>1. opcode_len(i.op) \in Nat
      BY Lengths
    <3>2. s[k + 1] = s[k] + 1 + opcode_len(em.ops[k].op)
      BY <2>2, <2>3 DEF Spells, Places
    <3> HIDE DEF i
    <3>3. CASE at + opcode_len(i.op) < Len(disk)
      <4>1. Len(ops') \in 0 .. m /\ Len(ops') = k
        BY <1>1, <1>2, <2>2, <2>3, <2>4
      <4>2. at' = s[Len(ops') + 1]
        BY <2>2, <2>4, <2>5, <3>2, <4>1
      <4>3. ASSUME NEW j \in 1 .. Len(ops')
            PROVE  ops'[j] = em'.ops[j]
        <5>1. CASE j = k
          BY <1>1, <1>2, <2>2, <2>4, <3>3, <4>1, <5>1
        <5>2. CASE j \in 1 .. Len(ops)
          BY <1>1, <1>2, <2>1, <2>4, <5>2
        <5> QED
          BY <1>2, <2>2, <4>1, <5>1, <5>2
      <4> QED
        BY <4>1, <4>2, <4>3 DEF Reads
    <3>4. CASE ~(at + opcode_len(i.op) < Len(disk))
      <4>1. Len(disk') <= at'
        BY <1>1, <1>2, <2>5, <3>1, <3>4
      <4> QED
        BY <4>1 DEF Reads
    <3> QED
      BY <3>3, <3>4
  <2> QED
    BY <2>1, <2>4, <2>5
<1>5. i \in OpForms /\ (at' = at + 1 + opcode_len(i.op) => \E s, m : Prefix(s, m) /\ Reads(s, m)')
  BY <1>3, <1>4
<1> HIDE DEF i
<1>6. /\ ops' \in Seq(OpForms) /\ Len(ops') = Len(ops) + 1 /\ ops'[Len(ops')] = i
      /\ \A k \in 1 .. Len(ops) : ops'[k] = ops[k]
  BY <1>1, <1>2, <1>5
<1>7. i.op # "HALT" /\ at' = at + 1 + opcode_len(i.op)
  BY <1>1, <1>6
<1>8. PICK s, m : Prefix(s, m) /\ Reads(s, m)'
  BY <1>5, <1>7
<1>9. Prefix(s, m)'
  BY <1>1, <1>8 DEF Prefix, Spells, Places, Spelt
<1>10. at' \in Nat
  BY <1>2, <1>7, Lengths
<1>11. ASSUME NEW k \in 1 .. Len(ops')
       PROVE  ops'[k].op # "HALT"
  <2>1. CASE k = Len(ops')
    BY <1>6, <1>7, <2>1
  <2>2. CASE k # Len(ops')
    <3>1. k \in 1 .. Len(ops)
      BY <1>2, <1>6, <2>2
    <3> QED
      BY <1>2, <1>6, <3>1
  <2> QED
    BY <2>1, <2>2
<1>12. Loads'
  BY <1>1, <1>8, <1>9, <1>10, <1>11 DEF Loads
<1>13. Program'
  BY <1>1, <1>2 DEF Program
<1>14. Saves'
  BY ONLY <1>1 DEF Saves
<1> QED
  BY ONLY <1>1, <1>2, <1>6, <1>12, <1>13, <1>14 DEF ImageInv, LoadedIsSaved

\* The first HALT is the one that the program was closed with.
LEMMA ReadHaltStep ==
    ASSUME ImageInv, ReadHalt
    PROVE  ImageInv'
<1>1. /\ proc = "load" /\ proc' = "image" /\ UNCHANGED <<em, pool, disk>>
      /\ InFile /\ NextOp.op = "HALT" /\ ops' = Append(ops, NextOp)
  BY DEF ReadHalt, hvars, gvars, Consts
<1>2. /\ Program /\ disk \in Seq(Bytes) /\ ops \in Seq(OpForms)
      /\ at \in Nat /\ Len(disk) \in Nat /\ Len(ops) \in Nat
      /\ \A k \in 1 .. Len(ops) : ops[k].op # "HALT"
  BY <1>1 DEF ImageInv, Loads
<1>3. PICK s, m : /\ Prefix(s, m) /\ Len(ops) + 1 \in 1 .. m /\ at = s[Len(ops) + 1]
                  /\ \A k \in 1 .. Len(ops) : ops[k] = em.ops[k]
  BY <1>1, InsideSaved
<1>4. PICK k : k = Len(ops) + 1 /\ k \in 1 .. m /\ at = s[k]
  BY <1>3
<1>5. m \in 0 .. Emitted(em) /\ Spells(s, m) /\ m \in Nat
  BY <1>2, <1>3 DEF Prefix, Program
<1>6. NextOp \in OpForms /\ em.ops[k].op = "HALT" /\ NextOp = em.ops[k]
  <2>1. /\ NextOp \in OpForms /\ NextOp.op = em.ops[k].op
        /\ at + opcode_len(NextOp.op) < Len(disk) => NextOp = em.ops[k]
    BY <1>1, <1>2, <1>4, <1>5, NextSaved
  <2>2. at + opcode_len(NextOp.op) < Len(disk)
    BY <1>1, <1>2, Lengths DEF InFile
  <2> QED
    BY <1>1, <2>1, <2>2
<1>7. k = Emitted(em) - 1
  <2>1. /\ Emitted(em) \in Nat \ {0, 1} /\ em.ops[Emitted(em) - 1].op = "HALT"
        /\ \A j \in 1 .. Emitted(em) - 2 : em.ops[j].op # "HALT"
    BY <1>2 DEF Program
  <2>2. ~(k \in 1 .. Emitted(em) - 2)
    BY <1>6, <2>1
  <2>3. ~(Emitted(em) - 1 \in 1 .. Len(ops))
    BY <1>2, <1>3, <2>1
  <2> QED
    BY ONLY <1>2, <1>4, <1>5, <2>1, <2>2, <2>3
<1>8. /\ ops' \in Seq(OpForms) /\ Len(ops') = k
      /\ \A j \in 1 .. k : ops'[j] = em.ops[j]
  <2>1. /\ ops' \in Seq(OpForms) /\ Len(ops') = Len(ops) + 1 /\ ops'[Len(ops) + 1] = NextOp
        /\ \A j \in 1 .. Len(ops) : ops'[j] = ops[j]
    BY <1>1, <1>2, <1>6
  <2>2. \A j \in 1 .. k : j = k \/ j \in 1 .. Len(ops)
    BY <1>2, <1>4
  <2> QED
    BY <1>3, <1>4, <1>6, <2>1, <2>2
<1>9. LoadedIsSaved'
  <2>1. em.ops \in Seq(Instructions) /\ Emitted(em) = Len(em.ops)
    BY <1>2 DEF Program, Emitters, Emitted
  <2> DEFINE c == SubSeq(em.ops, 1, Len(em.ops) - 1)
  <2>2. /\ c \in Seq(Instructions) /\ Len(c) = k
        /\ \A j \in 1 .. k : c[j] = em.ops[j]
    <3>1. Len(em.ops) - 1 = k /\ k \in 1 .. Len(em.ops)
      BY <1>2, <1>7, <2>1, <1>4, <1>5
    <3> QED
      BY <2>1, <3>1
  <2> HIDE DEF c
  <2>3. ops' = c
    BY <1>8, <2>2
  <2> QED
    BY <1>1, <2>3 DEF LoadedIsSaved, c
<1>10. Program'
  BY <1>1, <1>2 DEF Program
<1>11. Saves' /\ Loads'
  BY ONLY <1>1 DEF Saves, Loads
<1> QED
  BY ONLY <1>1, <1>2, <1>8, <1>9, <1>10, <1>11 DEF ImageInv

\* The other steps change neither the file nor what was read of it.
LEMMA OtherSteps ==
    ASSUME ImageInv, UNCHANGED <<disk, saved, at, ops>>,
           \/ proc = "compiler" /\ proc' = "compiler" /\ Compiled'
           \/ UNCHANGED <<em, pool, mode, node_has_error>> /\ proc = "load" /\ proc' = "exhausted"
    PROVE  ImageInv'
<1>1. disk \in Seq(Bytes) /\ ops \in Seq(OpForms)
  BY DEF ImageInv
<1>2. CASE proc = "compiler" /\ proc' = "compiler" /\ Compiled'
  BY <1>1, <1>2 DEF ImageInv, Saves, Loads, LoadedIsSaved
<1>3. CASE UNCHANGED <<em, pool>> /\ proc = "load" /\ proc' = "exhausted"
  BY <1>1, <1>3 DEF ImageInv, Saves, Loads, LoadedIsSaved, Program
<1> QED
  BY <1>2, <1>3

LEMMA NoStep ==
    ASSUME ImageInv, UNCHANGED <<disk, proc, saved, at, ops>>, UNCHANGED gvars
    PROVE  ImageInv'
<1>1. UNCHANGED <<em, pool, mode, node_has_error>>
  BY DEF gvars, Consts
<1>2. proc = "compiler" => Compiled'
  <2>1. SUFFICES ASSUME Compiled
                 PROVE  Compiled'
    BY DEF ImageInv
  <2>2. ASSUME mode # "done"
        PROVE  CodeInv'
    <3>1. CodeInv
      BY <2>1, <2>2 DEF Compiled
    <3>2. [Next]_gvars
      OBVIOUS
    <3> QED
      BY ONLY <3>1, <3>2, CodeInvStep
  <2>3. /\ mode # "done" => CodeInv'
        /\ Unstopped(em') <=> Unstopped(em)
        /\ Zeroed(em') <=> Zeroed(em)
        /\ Launched' <=> Launched
    BY <1>1, <2>2 DEF Launched
  <2> HIDE <2>2
  <2> QED
    BY ONLY <1>1, <2>1, <2>3 DEF Compiled, Emitted
<1>3. proc # "compiler" => Program'
  BY <1>1 DEF ImageInv, Program
<1>4. disk' \in Seq(Bytes) /\ ops' \in Seq(OpForms)
  BY Zenon DEF ImageInv
<1>5. UNCHANGED <<disk, proc, saved, at, ops>>
  OBVIOUS
<1>6. Saves'
  <2>1. Saves
    BY DEF ImageInv
  <2>2. ASSUME NEW s, NEW m
        PROVE  (Spells(s, m)' <=> Spells(s, m)) /\ (Prefix(s, m)' <=> Prefix(s, m))
    BY ONLY <1>1, <1>5 DEF Spells, Places, Spelt, Prefix
  <2> QED
    BY ONLY <1>1, <1>5, <2>1, <2>2 DEF Saves, Emitted
<1>7. Loads'
  <2>1. Loads
    BY DEF ImageInv
  <2>2. ASSUME NEW s, NEW m
        PROVE  (Reads(s, m)' <=> Reads(s, m)) /\ (Prefix(s, m)' <=> Prefix(s, m))
    BY ONLY <1>1, <1>5 DEF Spells, Places, Spelt, Prefix, Reads
  <2> QED
    BY ONLY <1>1, <1>5, <2>1, <2>2 DEF Loads
<1>8. LoadedIsSaved'
  BY <1>1 DEF ImageInv, LoadedIsSaved
<1> QED
  BY <1>2, <1>3, <1>4, <1>6, <1>7, <1>8 DEF ImageInv

LEMMA ImageStep ==
    ASSUME ImageInv, [ImNext]_ivars
    PROVE  ImageInv'
<1>1. CASE (\E n \in Nodes : Compile(n)) \/ CompileOn
  <2>1. proc = "compiler" /\ UNCHANGED <<disk, proc, saved, at, ops>> /\ Compiled
    BY <1>1 DEF Compile, CompileOn, loader, ImageInv
  <2>2. GeneratorStep \/ Launch
    BY <1>1 DEF Compile, CompileOn, GenNode, GenResume, GeneratorStep
  <2> QED
    BY <2>1, <2>2, CompiledStep, LaunchStep, OtherSteps
<1>2. CASE Exhaust
  BY <1>2, OtherSteps DEF Exhaust, loader, hvars, gvars, Consts
<1>3. CASE Replay
  BY <1>3, NoStep DEF Replay, loader
<1>4. CASE UNCHANGED ivars
  BY <1>4, NoStep DEF ivars, hvars, loader
<1> QED
  BY <1>1, <1>2, <1>3, <1>4, SaveHeadStep, SaveOpStep, SavePoolStep, GoDownStep,
     ReadAsTextStep, OpenImageStep, ReadOpStep, ReadHaltStep DEF ImNext, Later

\* Whatever program is compiled and wherever its file ends, a machine that is
\* started on the file runs the code that was saved, up to its first HALT.
THEOREM SavedOrRefused == ImSpec => []LoadedIsSaved
<1>1. ImageInv => LoadedIsSaved
  BY DEF ImageInv
<1> QED
  BY <1>1, ImageInit, ImageStep, PTL DEF ImSpec

=============================================================================
