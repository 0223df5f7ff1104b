-------------------------------- MODULE RvIsa --------------------------------
(***************************************************************************)
(* What every virtual machine of the simulator shares: machine words, the  *)
(* decoded form of an instruction, the ALU, the register file, the loader. *)
(*                                                                         *)
(* Abstractions, used by every module that extends this one:               *)
(*  - an instruction is its decoded record.  Of a family of instructions   *)
(*    that take the same path through the machine and differ only in the   *)
(*    ALU operation or the access width, one representative is kept;       *)
(*  - text addresses count instructions (the code's PC + 4 is PC + 1 here) *)
(*    and a jump lands on an instruction boundary;                         *)
(*  - data memory is a function of word addresses apart from the text: a   *)
(*    program does not overwrite its own instructions.                     *)
(***************************************************************************)
EXTENDS Integers, Sequences

CONSTANTS
    WordMod,    \* number of values of a uint64_t
    HalfMod,    \* number of values of a uint32_t
    UpperUnit,  \* weight of the lowest bit of an upper immediate (1 << 12)
    NumRegs,    \* number of general purpose registers
    DataBase,   \* address of the data section
    Programs    \* the programs that can be loaded

Word == 0 .. WordMod - 1
Reg  == 0 .. NumRegs - 1

CondBranch == {"beq", "bne", "blt", "bge", "bltu", "bgeu"}
Op == {"add", "sub", "addi", "lui", "auipc", "load", "store", "jal", "jalr",
       "nop"} \cup CondBranch

Instr   == [op : Op, rd : Reg, rs1 : Reg, rs2 : Reg, imm : Word]
Program == [text : Seq(Instr), data : Seq(Word)]

NopInstr  == [op |-> "nop", rd |-> 0, rs1 |-> 0, rs2 |-> 0, imm |-> 0]
NoProgram == [text |-> << >>, data |-> << >>]

\* A text section does not wrap the address space, and the 32-bit quantities
\* that are widened to 64 bits have a sign bit (31) and the two bits below it.
ASSUME IsaAssumption ==
    /\ WordMod \in Nat /\ NumRegs \in Nat \ {0} /\ UpperUnit \in Nat \ {0}
    /\ HalfMod \in Nat /\ HalfMod >= 8 /\ WordMod >= HalfMod
    /\ DataBase \in Word
    /\ Programs \subseteq Program
    /\ \A p \in Programs : Len(p.text) < WordMod

-----------------------------------------------------------------------------
(* Arithmetic: alu.cpp, on two's complement words.                         *)

Signed(w) == IF 2 * w >= WordMod THEN w - WordMod ELSE w

Alu(aluop, a, b) ==
    CASE aluop = "kAdd"  -> (a + b) % WordMod
      [] aluop = "kSub"  -> (a - b) % WordMod
      [] aluop = "kSlt"  -> IF Signed(a) < Signed(b) THEN 1 ELSE 0
      [] aluop = "kSltu" -> IF a < b THEN 1 ELSE 0
      [] OTHER           -> 0

UpdateProgramCounter(pc, value) == (pc + value) % WordMod

\* A branch is taken according to the result of its ALU operation (kSub for
\* beq and bne, kSlt or kSltu for the others).
BranchOutcome(op, result) ==
    \/ op \in {"beq", "bge", "bgeu"} /\ result = 0
    \/ op = "bne" /\ result # 0
    \/ op \in {"blt", "bltu"} /\ result = 1

-----------------------------------------------------------------------------
(* Registers and memory.                                                   *)

WriteGpr(gpr, reg, value) ==
    IF reg = 0 THEN gpr ELSE [gpr EXCEPT ![reg] = value]

ZeroRegisters == [r \in Reg |-> 0]
ZeroMemory    == [a \in Word |-> 0]

\* VmBase::LoadProgram writes the data section over the memory.
LoadData(memory, data) ==
    [a \in Word |-> IF a \in DataBase .. DataBase + Len(data) - 1
                    THEN data[a - DataBase + 1]
                    ELSE memory[a]]
==============================================================================
