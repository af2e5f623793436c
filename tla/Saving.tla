------------------------------- MODULE Saving -------------------------------
(***************************************************************************)
(* Image on given source programs: what a program that was saved and       *)
(* loaded again prints, and which of its constants it still finds.         *)
(***************************************************************************)
EXTENDS Image, CompileRun

SequencesExt == INSTANCE SequencesExt

svars == <<ivars, source, src>>

SvInit == CRInit /\ ImInit

SvNode == /\ src # <<>>
          /\ Compile(Head(src).node)
          /\ src' = Language!AfterVisit(src, mode' = "ret")
          /\ UNCHANGED source

SvStep == \/ SvNode
          \/ /\ CompileOn \/ Later
             /\ UNCHANGED <<source, src>>
SvNext == SvStep \/ (ImEnded /\ UNCHANGED svars)

\* each process is one thread that the system lets run
SvSpec == SvInit /\ [][SvNext]_svars /\ WF_svars(SvStep)

-----------------------------------------------------------------------------
\* the image as write_binary_file means it
Whole == Magic \o Version
         \o SequencesExt!FlattenSeq([i \in 1 .. Emitted(em) |-> OpBytes(em.ops[i])])
         \o PoolBytes

\* The program loaded from disk prints what its source means; only an image
\* of fewer than four bytes runs as a program that prints nothing.
ReplayFaithful ==
    status = "halted" =>
        LET meant == Language!Prints(source)
        IN  out = IF proc = "text" THEN <<>>
                  ELSE [i \in 1 .. Len(meant) |-> Loaded!Token("int", meant[i])]

\* An image that was written completely is loaded and runs to its HALT.
SavedRuns ==
    proc = "down" /\ disk = Whole ~> proc = "image" /\ status = "halted"

\* What opcode.hpp says of the operand of MOV_RC, an offset into the constant
\* pool: the constant is still there when the image was loaded.
ConstantsFound ==
    proc = "image" /\ disk = Whole =>
        \A i \in 1 .. Len(ops) : ops[i].op = "MOV_RC" =>
            data[ops[i].operands[2] + 1] = PoolByte(ops[i].operands[2])
=============================================================================
