----------------------------- MODULE MCVmSession -----------------------------
\* Instances of the session for TLC.
EXTENDS VmSessionProperties, MCPrograms

ReadInstr == I("nop", 0, 0, 0, 1)

\* A loop that changes a register and the memory.
LoopProgram ==
    [text |-> << I("addi", 3, 3, 0, 1), I("store", 0, 0, 3, 2),
                 I("jal", 0, 0, 0, Neg(2)) >>, data |-> << >>]

\* It computes, reads a line, adds to its length and ends.
ReadProgram ==
    [text |-> << I("addi", 3, 0, 0, 1), ReadInstr, I("addi", 1, 1, 0, 1) >>,
     data |-> <<7>>]

LoopOrRead == {LoopProgram, ReadProgram}
JustRead   == {ReadProgram}
JustLoop   == {LoopProgram}
==============================================================================
