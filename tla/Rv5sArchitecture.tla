-------------------------- MODULE Rv5sArchitecture --------------------------
(***************************************************************************)
(* What a five-stage machine promises: it is the single-cycle machine,     *)
(* seen with the instructions that have left execute completed, whatever   *)
(* stage resolves its branches.                                            *)
(***************************************************************************)
EXTENDS Rv5sDatapath

-----------------------------------------------------------------------------
(* The architectural state: an instruction counts as executed once it has  *)
(* left the execute stage.  Its effects still wait in EX/MEM and MEM/WB.   *)

AbsRegs ==
    LET m == Memory_Stage IN
    IF m.is_valid /\ reg_write(m.op)
    THEN WriteGpr(WriteBack_Stage, m.rd_index, getWriteBackData(m))
    ELSE WriteBack_Stage

AbsMem == Memory_Store

\* The oldest instruction that has not executed yet.
AbsPc == CASE id_ex.is_valid                    -> id_ex.pc
           [] ~id_ex.is_valid /\ if_id.is_valid -> if_id.pc
           [] OTHER                             -> pc

SC == INSTANCE SingleCycle WITH pc <- AbsPc, regs <- AbsRegs, mem <- AbsMem

\* Every step of the pipeline is a step of the single-cycle machine or leaves
\* its state alone: no hazard, forwarding path, prediction or flush is visible
\* in the registers, in memory or in the order of instructions.
ImplementsSingleCycle == SC!Spec

\* The same for one run of one program on a new machine.
RunImplementsSingleCycle == SC!RunSpec

-----------------------------------------------------------------------------
\* Type invariant.
TypeOK ==
    /\ mode \in Modes
    /\ prog \in Programs \cup {NoProgram}
    /\ pc \in Word
    /\ regs \in [Reg -> Word]
    /\ mem \in [Word -> Word]
    /\ if_id \in IF_ID_Reg
    /\ id_ex \in ID_EX_Reg
    /\ ex_mem \in EX_MEM_Reg
    /\ mem_wb \in MEM_WB_Reg
    /\ bht \in Bht
    /\ status \in {"VM_RESET", "VM_PROGRAM_LOADED", "VM_STEP_COMPLETED",
                   "VM_PROGRAM_END"}
    /\ perf \in Perf

\* The instruction in execute works on architectural register values, whether
\* they come from decode, from EX/MEM or from MEM/WB: stalls and forwarding
\* together leave no case in which an operand is stale.
OperandsArchitectural ==
    id_ex.is_valid =>
        /\ rs1_reqd(id_ex.op) /\ ~is_nop(id_ex.op) =>
               data_alu_a = AbsRegs[id_ex.rs1_index]
        /\ rs2_reqd(id_ex.op) => data_alu_b = AbsRegs[id_ex.rs2_index]

\* The forwarding path from EX/MEM always carries alu_result, which is not what
\* a load or a jump writes to its register.  Nothing in the forwarding unit
\* excludes these: the stalls and flushes around it must.
ExMemResultForwardable ==
    /\ mode.forwarding
    /\ id_ex.is_valid /\ ~is_nop(id_ex.op)
    /\ \/ /\ rs1_reqd(id_ex.op)
          /\ getAluSrc(id_ex.rs1_index, ex_mem, mem_wb) = "FROM_EX_MEM"
       \/ /\ rs2_reqd(id_ex.op)
          /\ getAluSrc(id_ex.rs2_index, ex_mem, mem_wb) = "FROM_EX_MEM"
    => wb_src(ex_mem.op) = "WB_FROM_ALU"

-----------------------------------------------------------------------------
(* Parts of the inductive invariants of the machines.                      *)

\* IF/ID holds the instruction at its PC.
IfIdFromProgram ==
    if_id.is_valid =>
        /\ if_id.pc < program_size
        /\ if_id.inst = prog.text[if_id.pc + 1]
        /\ if_id.pc_inc = UpdateProgramCounter(if_id.pc, 1)

\* Fetch goes on behind IF/ID, in a machine whose fetch predicts nothing.
FetchSequential == if_id.is_valid => pc = if_id.pc_inc

\* ID/EX holds what decode made of the instruction at its PC, with operands as
\* the register file has them.
IdExFromProgram ==
    id_ex.is_valid =>
        LET i == prog.text[id_ex.pc + 1] IN
        /\ id_ex.pc < program_size
        /\ id_ex.op = i.op
        /\ id_ex.pc_inc = UpdateProgramCounter(id_ex.pc, 1)
        /\ ~is_nop(i.op) =>
               /\ id_ex.rd_index = i.rd
               /\ id_ex.immediate = i.imm
               /\ id_ex.rs1_index = rs1_index(i)
               /\ id_ex.rs2_index = rs2_index(i)
               /\ id_ex.rs1_data = regs[id_ex.rs1_index]
               /\ id_ex.rs2_data = regs[id_ex.rs2_index]

\* An empty register writes nothing, as its signals are those of a nop.
BubblesIdle ==
    /\ ~id_ex.is_valid => id_ex.op = "nop"
    /\ ~ex_mem.is_valid => ex_mem.op = "nop"
    /\ ~mem_wb.is_valid => mem_wb.op = "nop"
    /\ prog = NoProgram => ~ex_mem.is_valid

\* The instruction in execute reads r's destination.
ExecuteReads(r) ==
    /\ id_ex.is_valid /\ ~is_nop(id_ex.op)
    /\ reg_write(r.op) /\ r.rd_index # 0
    /\ Reads(id_ex.op, id_ex.rs1_index, id_ex.rs2_index, r.rd_index)

\* What the instruction in execute reads is in the register file or can be
\* forwarded: with forwarding, the value in EX/MEM is the ALU's; without, no
\* write is pending.
OperandsReady ==
    /\ mode.forwarding /\ ExecuteReads(ex_mem)
           => wb_src(ex_mem.op) = "WB_FROM_ALU"
    /\ ~mode.forwarding => ~ExecuteReads(ex_mem) /\ ~ExecuteReads(mem_wb)

\* The part of the invariant all machines share.
DatapathInv == /\ TypeOK
               /\ IfIdFromProgram
               /\ IdExFromProgram
               /\ BubblesIdle
               /\ OperandsReady

-----------------------------------------------------------------------------
(* The statistics the front end shows.                                     *)

\* Every cycle is accounted for once: it brings a new instruction into the
\* pipeline or counts as a stall cycle; an instruction leaves by retiring or,
\* when a flush kills it, as one more stall cycle.  Only a cycle that finds no
\* instruction left to fetch is free.
Occupancy ==
    Bit(if_id.is_valid) + Bit(id_ex.is_valid) + Bit(ex_mem.is_valid)
        + Bit(mem_wb.is_valid)
Slots == perf.instructions_retired + perf.stall_cycles + Occupancy
CycleAccounted ==
    LET idle == /\ pc' >= program_size
                /\ ~if_id'.is_valid
                /\ perf'.stall_cycles = perf.stall_cycles
    IN  (Slots' - Slots) % CounterMod = Bit(~idle) % CounterMod
==============================================================================
