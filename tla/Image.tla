------------------------------- MODULE Image -------------------------------
(***************************************************************************)
(* Compiled programs on disk: file_run saves the program it compiled       *)
(* (Generator::write_binary_file) before it runs it, and a later process   *)
(* given the .lmc file loads it (src/runtime/loader.cpp) and runs it on a  *)
(* fresh machine.  Nothing checks that the save succeeded: after a full    *)
(* disk or a kill the file is any prefix of what was written.  What the    *)
(* first process does after the save is FileRun and leaves the file alone. *)
(* A loaded program that calls a foreign function stops there ("foreign"). *)
(* The program is any program; Saving takes it from a given text.          *)
(***************************************************************************)
EXTENDS FileRun

CONSTANT MEMORY   \* how many Ops the loader's vector can grow to

ASSUME MemoryAssumption == MEMORY \in Nat

VARIABLES disk,   \* the bytes of the .lmc file
          proc,   \* "compiler", what it saves, "down" after it, or what the
                  \* loader is at
          saved,  \* how many Ops of the program were written
          at,     \* how many bytes of the file were read
          ops, data   \* BinaryLoader: the program and the constant pool

loader == <<at, ops, data>>
ivars == <<hvars, disk, proc, saved, loader>>

Loaded == INSTANCE VM WITH Programs <- {}, program <- ops, cur <- frames

-----------------------------------------------------------------------------
(* The format. *)

\* widths in bytes of the operands the emitters write
Layout(o) ==
    CASE o \in Ternary -> <<1, 1, 1>>
      [] o \in {"MOV_RI", "MOV_RC", "IF_TRUE", "IF_FALSE"} -> <<1, 8>>
      [] o = "MOV_RR" -> <<1, 1>>
      [] o = "FCALL" -> <<8, 1>>
      [] o = "JMP" -> <<8>>
      [] o = "LOCAL_GET" -> <<1, 1, 2>>
      [] o = "LOCAL_SET" -> <<1, 2, 1>>
      [] o = "VMC" -> <<2>>
      [] o = "DEC" -> <<1>>
      [] OTHER -> <<>>

\* mutant: LOCAL_SET is "op frame(1) slot(2)", the register forgotten
opcode_len_set(o) ==
    CASE o \in {"MOV_RI", "MOV_RC", "IF_TRUE", "IF_FALSE", "FCALL"} -> 9
      [] o \in Arith \cup {"LOCAL_GET"} -> 4
      [] o \in Cmp \cup Logic \cup {"LOCAL_SET"} -> 3
      [] o \in {"MOV_RR", "VMC"} -> 2
      [] o = "JMP" -> 8
      [] o = "DEC" -> 1
      [] OTHER -> 0

\* how many operand bytes of an instruction are kept
opcode_len(o) ==
    CASE o \in {"MOV_RI", "MOV_RC", "IF_TRUE", "IF_FALSE", "FCALL"} -> 9
      [] o \in Arith \cup {"LOCAL_GET", "LOCAL_SET"} -> 4
      [] o \in Cmp \cup Logic -> 3
      [] o \in {"MOV_RR", "VMC"} -> 2
      [] o = "JMP" -> 8
      [] o = "DEC" -> 1
      [] OTHER -> 0

\* bytes, told apart by what they were written as
Magic == [k \in 1 .. 4 |-> [magic |-> k]]
Version == <<[number |-> 1], [number |-> 0], [number |-> 0], [number |-> 0]>>
OpBytes(i) == <<[opcode |-> i.op]>>
              \o [k \in 1 .. opcode_len(i.op) |-> [operands |-> i.operands]]
PoolByte(k) == [pool |-> k]

PoolBytes == [k \in 1 .. pool.size |-> PoolByte(k - 1)]

\* how many operand bytes come before operand j
Before(o, j) == CASE j = 1 -> 0
                  [] j = 2 -> Layout(o)[1]
                  [] j = 3 -> Layout(o)[1] + Layout(o)[2]

\* the operands spelled by the first n operand bytes of an Op that is zero
\* otherwise; an operand's value is in its lowest byte
Spelled(o, operands, n) ==
    [j \in DOMAIN operands |->
        IF j \in DOMAIN Layout(o) /\ Before(o, j) < n
        THEN operands[j] ELSE 0]

\* what is left of the bytes written, whatever happens to the process
Written(bytes) == {SubSeq(bytes, 1, n) : n \in 0 .. Len(bytes)}

-----------------------------------------------------------------------------
ImInit == /\ HostInit
          /\ disk = <<>> /\ proc = "compiler" /\ saved = 0
          /\ at = 0 /\ ops = <<>> /\ data = <<>>

Compile(n) == proc = "compiler" /\ GenNode(n) /\ UNCHANGED <<disk, proc, saved, loader>>

CompileOn == /\ proc = "compiler"
             /\ GenResume \/ Launch
             /\ UNCHANGED <<disk, proc, saved, loader>>

\* write_binary_file: the head, the program and the constant pool
SaveHead == /\ proc = "compiler" /\ mode = "done" /\ Launched
            /\ disk' = Magic \o Version
            /\ proc' = "saving"
            /\ UNCHANGED <<hvars, saved, loader>>

SaveOp == /\ proc = "saving" /\ saved < Emitted(em)
          /\ disk' = disk \o OpBytes(em.ops[saved + 1])
          /\ saved' = saved + 1
          /\ UNCHANGED <<hvars, proc, loader>>

SavePool == /\ proc = "saving" /\ saved = Emitted(em)
            /\ disk' = disk \o PoolBytes
            /\ proc' = "saved"
            /\ UNCHANGED <<hvars, saved, loader>>

\* the process is gone, and what the disk has of its file stays
GoDown == /\ proc \in {"saving", "saved"}
          /\ disk' \in Written(disk)
          /\ proc' = "down" /\ saved' = 0
          /\ UNCHANGED <<hvars, loader>>

\* fewer than four bytes leave the stream failed: seekg does nothing, the
\* source text read is empty, and compiling it writes an image over the file
ReadAsText ==
    /\ proc = "down" /\ Len(disk) < Len(Magic)
    /\ ops' = <<Op("HALT", <<0>>), Op("HALT", <<0>>)>>
    /\ disk' \in Written(Magic \o Version \o OpBytes(ops'[1]) \o OpBytes(ops'[2]))
    /\ proc' = "text"
    /\ UNCHANGED <<hvars, saved, at, data>>

\* check_head; header bytes that the file lacks are zero
HeadOf(k) == IF k <= Len(disk) THEN disk[k] ELSE [number |-> 0]
\* mutant: the version is looked for in front of the magic number
check_head_swapped == /\ \A k \in 1 .. 4 : HeadOf(k) = Version[k]
                      /\ \A k \in 1 .. 4 : HeadOf(4 + k) = Magic[k]
check_head == /\ \A k \in 1 .. 4 : HeadOf(k) = Magic[k]
              /\ \A k \in 1 .. 4 : HeadOf(4 + k) = Version[k]

OpenImage ==
    /\ proc = "down" /\ Len(disk) >= Len(Magic)
    /\ proc' = IF check_head THEN "load" ELSE "refused"
    /\ at' = 8
    /\ UNCHANGED <<hvars, disk, saved, ops, data>>

\* the Op at the file position, its bytes cut off at the end of the file;
\* behind the end, get() yields EOF, 255 as an opcode
InFile == at < Len(disk)
NextOp ==
    LET o == disk[at + 1].opcode
        n == opcode_len(o)
        left == Len(disk) - at - 1
    IN  IF n = 0 THEN Op(o, <<0>>)
        ELSE IF left = 0 THEN Op(o, [j \in 1 .. Arity(o) |-> 0])
        ELSE Op(o, Spelled(o, disk[at + 2].operands, IF n < left THEN n ELSE left))
EofOp == Op("255", <<0>>)

ReadOp ==
    /\ proc = "load" /\ Len(ops) < MEMORY
    /\ ops' = Append(ops, IF InFile THEN NextOp ELSE EofOp)
    /\ ops'[Len(ops')].op # "HALT"
    /\ at' = at + 1 + opcode_len(ops'[Len(ops')].op)
    /\ UNCHANGED <<hvars, disk, proc, saved, data>>

\* mutant: the program ends at its last HALT
ReadHalt_last ==
    /\ proc = "load" /\ Len(ops) < MEMORY
    /\ InFile /\ NextOp.op = "HALT"
    /\ ops' = Append(ops, NextOp)
    /\ at' = at + 1
    /\ proc' = IF \E k \in at + 2 .. Len(disk) : disk[k] = [opcode |-> "HALT"]
               THEN "load" ELSE "image"
    /\ data' = SubSeq(disk, at + 2, Len(disk))
    /\ UNCHANGED <<hvars, disk, saved>>

\* the first HALT ends the program, the rest of the file is the pool
ReadHalt ==
    /\ proc = "load" /\ Len(ops) < MEMORY
    /\ InFile /\ NextOp.op = "HALT"
    /\ ops' = Append(ops, NextOp)
    /\ at' = at + 1
    /\ data' = SubSeq(disk, at + 2, Len(disk))
    /\ proc' = "image"
    /\ UNCHANGED <<hvars, disk, saved>>

\* push_back throws bad_alloc
Exhaust == /\ proc = "load" /\ Len(ops) = MEMORY
           /\ proc' = "exhausted"
           /\ UNCHANGED <<hvars, disk, saved, loader>>

Replay == /\ proc \in {"image", "text"}
          /\ UNCHANGED <<gvars, libs, errs, disk, proc, saved, loader>>
          /\ Loaded!Run

ImEnded == \/ proc \in {"refused", "exhausted"}
           \/ proc \in {"image", "text"} /\ status # "running"
           \/ proc = "compiler" /\ (mode = "crash" \/ (mode = "done" /\ node_has_error))

\* what follows when the program is compiled
Later == \/ SaveHead \/ SaveOp \/ SavePool \/ GoDown \/ ReadAsText \/ OpenImage
         \/ ReadOp \/ ReadHalt \/ Exhaust \/ Replay
ImNext == \/ \E n \in Nodes : Compile(n)
          \/ CompileOn \/ Later
          \/ ImEnded /\ UNCHANGED ivars

ImSpec == ImInit /\ [][ImNext]_ivars

-----------------------------------------------------------------------------
\* A machine is started on the code that was saved, up to its first HALT,
\* instruction by instruction, however much of the file was lost: an image
\* cut off inside its code is refused or never finishes loading.
LoadedIsSaved ==
    proc = "image" => ops = SubSeq(em.ops, 1, Len(em.ops) - 1)
=============================================================================
