----------------------------- MODULE SingleCycle -----------------------------
(***************************************************************************)
(* RVSSVM, the single-stage machine: one instruction per step, through     *)
(* Fetch, Decode, Execute, WriteMemory and WriteBack.  The project's tests *)
(* take its final state as the reference for every pipelined machine, so   *)
(* this module is also the specification the pipelines are shown to        *)
(* implement.                                                              *)
(***************************************************************************)
EXTENDS RvIsa

VARIABLES
    prog,   \* the loaded program
    pc,     \* program_counter_
    regs,   \* registers_, the general purpose ones
    mem     \* the data memory behind memory_controller_

vars == <<prog, pc, regs, mem>>

program_size == Len(prog.text)

-----------------------------------------------------------------------------
(* RVSSControlUnit                                                         *)

alu_src_(op)   == op \in {"load", "store", "addi", "lui", "auipc", "jalr"}
reg_write_(op) == op \in {"add", "sub", "load", "addi", "lui", "auipc",
                          "jal", "jalr"}
mem_read_(op)  == op = "load"
mem_write_(op) == op = "store"

GetAluSignal(op) ==
    CASE op \in {"sub", "beq", "bne"} -> "kSub"
      [] op \in {"blt", "bge"}        -> "kSlt"
      [] op \in {"bltu", "bgeu"}      -> "kSltu"
      [] op = "nop"                   -> "kNone"
      [] OTHER                        -> "kAdd"

-----------------------------------------------------------------------------

\* imm << 12 as an int32_t, then widened to 64 bits: bit 31 is the sign.
UpperImmediate(imm) ==
    LET v == (imm * UpperUnit) % HalfMod
    IN  IF 2 * v >= HalfMod THEN v + (WordMod - HalfMod) ELSE v

\* The ALU result Execute leaves in execution_result_.
ExecutionResult(i) ==
    IF i.op = "auipc"
    THEN (pc + UpperImmediate(i.imm)) % WordMod
    ELSE Alu(GetAluSignal(i.op), regs[i.rs1],
             IF alu_src_(i.op) THEN i.imm ELSE regs[i.rs2])

NextPc(i) ==
    CASE i.op = "jalr" -> ExecutionResult(i)
      [] i.op = "jal"  -> UpdateProgramCounter(pc, i.imm)
      [] i.op \in CondBranch /\ BranchOutcome(i.op, ExecutionResult(i)) ->
            UpdateProgramCounter(pc, i.imm)
      [] OTHER -> UpdateProgramCounter(pc, 1)

WriteMemory(i) ==
    IF mem_write_(i.op)
    THEN [mem EXCEPT ![ExecutionResult(i)] = regs[i.rs2]]
    ELSE mem

WriteBackData(i) ==
    CASE mem_read_(i.op)         -> mem[ExecutionResult(i)]
      [] i.op \in {"jal","jalr"} -> UpdateProgramCounter(pc, 1)
      [] i.op = "lui"            -> UpperImmediate(i.imm)
      [] OTHER                   -> ExecutionResult(i)

WriteBack(i) ==
    IF reg_write_(i.op) THEN WriteGpr(regs, i.rd, WriteBackData(i)) ELSE regs

-----------------------------------------------------------------------------

\* The machine as its constructor leaves it.
Init ==
    /\ prog = NoProgram
    /\ pc = 0
    /\ regs = ZeroRegisters
    /\ mem = ZeroMemory

\* One pass of the body of Run, or one Step.
Step ==
    /\ pc < program_size
    /\ LET i == prog.text[pc + 1] IN
        /\ pc' = NextPc(i)
        /\ mem' = WriteMemory(i)
        /\ regs' = WriteBack(i)
    /\ UNCHANGED prog

\* Mutant of the next definition: the text is dropped, the data section is not.
ResetKeepsData ==
    /\ prog' = [prog EXCEPT !.text = << >>]
    /\ pc' = 0
    /\ regs' = ZeroRegisters
    /\ mem' = ZeroMemory

\* RVSSVM::Reset
Reset ==
    /\ prog' = NoProgram
    /\ pc' = 0
    /\ regs' = ZeroRegisters
    /\ mem' = ZeroMemory

\* VmBase::LoadProgram.
LoadProgram(p) ==
    /\ prog' = p
    /\ mem' = LoadData(mem, p.data)
    /\ UNCHANGED <<pc, regs>>

\* Programs are loaded into a machine that has none, a new or a reset one.  (The
\* front end would also load over a program that is loaded: not modelled.)
Next ==
    \/ Step
    \/ Reset
    \/ prog = NoProgram /\ \E p \in Programs : LoadProgram(p)

Spec == Init /\ [][Next]_vars

\* One program, loaded into a reset machine, and run.
RunInit ==
    /\ prog \in Programs
    /\ pc = 0
    /\ regs = ZeroRegisters
    /\ mem = LoadData(ZeroMemory, prog.data)

RunSpec == RunInit /\ [][Step]_vars

-----------------------------------------------------------------------------
\* Type invariant: PC, registers and memory hold machine words.
TypeOK ==
    /\ prog \in Programs \cup {NoProgram}
    /\ pc \in Word
    /\ regs \in [Reg -> Word]
    /\ mem \in [Word -> Word]
==============================================================================
