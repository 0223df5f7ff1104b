------------------------------ MODULE MCPrograms ------------------------------
(***************************************************************************)
(* The programs TLC runs the machines on: all texts up to a length over a  *)
(* small set of instructions.                                              *)
(***************************************************************************)
EXTENDS Integers

I(op, rd, rs1, rs2, imm) ==
    [op |-> op, rd |-> rd, rs1 |-> rs1, rs2 |-> rs2, imm |-> imm]

\* The configurations use words of 16 values; a small negative offset.
Neg(n) == 16 - n

TextsUpTo(len, instrs) == UNION {[1 .. n -> instrs] : n \in 1 .. len}

ProgramsOf(texts, data) == {[text |-> t, data |-> data] : t \in texts}
ProgramsOver(len, instrs, data) == ProgramsOf(TextsUpTo(len, instrs), data)

\* Producers and consumers of x1 and x2: every pair of a producer (ALU, load,
\* upper immediate) and a consumer (either ALU operand, load address, store
\* data) occurs next to each other, one apart and two apart.
DataInstrs ==
    { I("addi", 1, 0, 0, 2), I("add", 2, 1, 1, 0), I("load", 1, 2, 0, 1),
      I("store", 0, 2, 1, 1), I("auipc", 1, 0, 0, 4), I("addi", 0, 1, 0, 1),
      I("sub", 1, 2, 1, 0), I("nop", 0, 0, 0, 0) }

\* Control flow: branches forward and back, calls, returns, a jump out of the
\* program, around instructions that change the condition.
ControlInstrs ==
    { I("addi", 1, 1, 0, 1), I("beq", 0, 1, 2, 2), I("bne", 0, 1, 2, Neg(1)),
      I("blt", 0, 2, 1, Neg(2)), I("jal", 1, 3, 3, 2), I("jalr", 2, 1, 0, 1),
      I("load", 2, 1, 0, 0) }
ControlPrograms == ProgramsOver(4, ControlInstrs, <<1, 2, 1>>)
ControlAndDataPrograms ==
    ProgramsOf(TextsUpTo(4, ControlInstrs) \cup TextsUpTo(4, DataInstrs),
               <<1, 2, 9>>)
SmallPrograms   == ProgramsOver(3, ControlInstrs, <<1, 2, 1>>)

\* The same without a link register: jal and jalr write x0.
LinkFree(i) == IF i.op \in {"jal", "jalr"} THEN [i EXCEPT !.rd = 0] ELSE i
LinkFreePrograms ==
    ProgramsOf(TextsUpTo(4, {LinkFree(i) : i \in ControlInstrs})
                   \cup TextsUpTo(3, DataInstrs),
               <<1, 2, 9>>)

\* Links go to x3, which the ALU and stores read and no branch does.
LinkInstrs ==
    { I("addi", 1, 1, 0, 1), I("beq", 0, 1, 2, 2), I("bne", 0, 1, 2, Neg(1)),
      I("jal", 3, 3, 3, 2), I("jalr", 3, 1, 0, 1), I("add", 1, 3, 1, 0),
      I("store", 0, 2, 3, 1) }
LinkPrograms == ProgramsOver(3, LinkInstrs, << >>)

\* lui with bit 29 of its immediate set and bit 31 clear.
LuiProgram ==
    {[text |-> << I("lui", 1, 0, 0, 1), I("nop", 0, 0, 0, 0) >>,
      data |-> << >>]}

\* A call in a loop; the first instruction of the callee uses the link.
CallProgram ==
    {[text |-> << I("jal", 1, 0, 0, 2), I("nop", 0, 0, 0, 0),
                  I("add", 2, 1, 1, 0), I("jal", 0, 0, 0, Neg(3)) >>,
      data |-> << >>]}

\* A program with a branch where the next one has none.
TwoPrograms ==
    {[text |-> << I("jal", 0, 0, 0, 2), I("nop", 0, 0, 0, 0),
                  I("nop", 0, 0, 0, 0) >>, data |-> << >>],
     [text |-> << I("addi", 1, 0, 0, 1), I("addi", 2, 0, 0, 1),
                  I("nop", 0, 0, 0, 0) >>, data |-> << >>]}

-----------------------------------------------------------------------------
(* Configurations: hazard mode and predictor.                              *)

Mode(f, p) == [forwarding |-> f, predictor |-> p]
DataModes    == {Mode(f, "STATIC_TAKEN") : f \in BOOLEAN}

Forward1Bit  == {Mode(TRUE, "DYNAMIC_1BIT")}
StaticModes  == {Mode(FALSE, "STATIC_TAKEN"), Mode(FALSE, "STATIC_NOT_TAKEN")}

\* The predictor that always predicts a branch taken.
AlwaysTaken  == {Mode(FALSE, "STATIC_NOT_TAKEN")}

\* Each hazard mode and each predictor, without the whole product.
MixedModes == {Mode(FALSE, "STATIC_TAKEN"), Mode(TRUE, "STATIC_NOT_TAKEN"),
               Mode(FALSE, "DYNAMIC_1BIT"), Mode(TRUE, "DYNAMIC_2BIT")}
==============================================================================
