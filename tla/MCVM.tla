-------------------------------- MODULE MCVM --------------------------------
(***************************************************************************)
(* Instances of VM for TLC: a small word, five registers of which 1 and 2  *)
(* are preserved by calls, frames of two slots.                            *)
(***************************************************************************)
EXTENDS VM

CONSTANTS MaxDepth,   \* bound on the pending calls
          MaxOut      \* bound on the values printed

\* Recursion and output are unbounded in the code.
Bounded == Len(ret_addr_stack) <= MaxDepth /\ Len(out) <= MaxOut

\* Arbitrary bytecode: every sequence of four of these instructions, so that
\* calls meet returns, frames of other calls, and undefined accesses.
CallAlphabet ==
    {Op("FCALL", <<0, 1>>), Op("FCALL", <<2, 0>>), Op("FRET", <<0>>),
     Op("MOV_RI", <<1, 3>>), Op("MOV_RR", <<4, 1>>), Op("CMP_LT", <<2, 0, 1>>),
     Op("LOCAL_GET", <<1, 1, 0>>), Op("LOCAL_SET", <<0, 0, 1>>),
     Op("IF_TRUE", <<2, 3>>), Op("IF_FALSE", <<1, 0>>), Op("JMP", <<3>>),
     Op("DEC", <<1>>), Op("FUNC_CREATE", <<0>>), Op("FUNC_END", <<0>>)}

CallPrograms == {p \o <<Op("HALT", <<0>>)>> : p \in [1 .. 4 -> CallAlphabet]}

\* Straight-line code over every pair of words: one instruction of each kind
\* applied to them, its result moved and printed.
DataPrograms ==
    {<<Op("MOV_RI", <<1, a>>), Op("MOV_RI", <<2, b>>), i,
       Op("MOV_RR", <<4, 3>>), Op("VMC", <<0>>), Op("HALT", <<0>>)>> :
        a \in 0 .. WORD - 1, b \in 0 .. WORD - 1,
        i \in {Op(o, <<3, 1, 2>>) : o \in Ternary} \cup
              {Op("MOV_RC", <<3, 1>>), Op("MOV_RC", <<0, 1>>),
               Op("VMC", <<1>>), Op("VMC", <<2>>), Op("VMC", <<3>>),
               Op("VMC", <<6>>), Op("MOV_RR", <<5, 1>>)}}

\* reading a line of input
InputPrograms ==
    {<<Op("MOV_RC", <<0, 1>>), Op("VMC", <<1>>), Op("MOV_RR", <<4, 0>>),
       Op("VMC", <<0>>), Op("HALT", <<0>>)>>}

MCPrograms == CallPrograms \cup DataPrograms \cup DivisionPrograms \cup InputPrograms
=============================================================================
