---------------------------- MODULE Rv5sDatapath ----------------------------
(***************************************************************************)
(* What the five-stage machines have in common: their state, the stages    *)
(* behind branch handling (the operands and the ALU of execute, memory,    *)
(* write-back), reset and program load.  RV5SEXVM and RV5SIDVM hold a copy *)
(* each of this code, identical line for line; PipelineEX and PipelineID   *)
(* add the stages in which they differ.                                    *)
(***************************************************************************)
EXTENDS Rv5sUnits

CONSTANTS
    Modes,       \* the configurations Reset may find: [forwarding, predictor]
    CounterMod   \* number of values of the performance counters

ASSUME PipelineAssumption ==
    /\ Modes \subseteq [forwarding : BOOLEAN, predictor : PredictorTypes]
    /\ CounterMod \in Nat \ {0}

VARIABLES
    mode,       \* forwarding_enabled_ and the type of branch_predictor_
    prog,       \* the loaded program
    pc,         \* program_counter_
    regs,       \* registers_
    mem,        \* the data memory behind memory_controller_
    if_id,      \* the four pipeline registers
    id_ex,
    ex_mem,
    mem_wb,
    bht,        \* the history table of branch_predictor_
    status,     \* output_status_
    perf        \* cycle_s_, instructions_retired_, stall_cycles_,
                \* branch_mispredictions_ and the predictor's own count

machine == <<mode, prog, pc, regs, mem, if_id, id_ex, ex_mem, mem_wb, bht,
             status, perf>>

program_size == Len(prog.text)

Perf == [cycle_s : 0 .. CounterMod - 1,
         instructions_retired : 0 .. CounterMod - 1,
         stall_cycles : 0 .. CounterMod - 1,
         branch_mispredictions : 0 .. CounterMod - 1,
         no_mispredictions : 0 .. CounterMod - 1]

NoPerf == [cycle_s |-> 0, instructions_retired |-> 0, stall_cycles |-> 0,
           branch_mispredictions |-> 0, no_mispredictions |-> 0]

Count(counter, n) == (counter + n) % CounterMod
Bit(b) == IF b THEN 1 ELSE 0

-----------------------------------------------------------------------------
(* WriteBack_Stage and Memory_Stage                                        *)

\* The register file after write-back.
WriteBack_Stage ==
    IF mem_wb.is_valid /\ reg_write(mem_wb.op)
    THEN WriteGpr(regs, mem_wb.rd_index, getWriteBackData(mem_wb))
    ELSE regs

\* The memory after the memory stage.
Memory_Store ==
    IF ex_mem.is_valid /\ mem_write(ex_mem.op)
    THEN [mem EXCEPT ![ex_mem.alu_result] = ex_mem.store_data]
    ELSE mem

\* The next MEM/WB register.
Memory_Stage ==
    IF ex_mem.is_valid
    THEN [is_valid    |-> TRUE,
          op          |-> ex_mem.op,
          pc_inc      |-> ex_mem.pc_inc,
          memory_data |-> IF mem_read(ex_mem.op) THEN mem[ex_mem.alu_result]
                                                 ELSE 0,
          alu_result  |-> IF mem_read(ex_mem.op) THEN 0 ELSE ex_mem.alu_result,
          rd_index    |-> ex_mem.rd_index]
    ELSE MEM_WB_Bubble

-----------------------------------------------------------------------------
(* Execute_Stage: the operands, the ALU and the EX/MEM register.           *)

\* A register operand, with the value forwarded to it if any.
AluOperand(rs_index, rs_data) ==
    LET src == getAluSrc(rs_index, ex_mem, mem_wb) IN
    CASE mode.forwarding /\ src = "FROM_EX_MEM" -> ex_mem.alu_result
      [] mode.forwarding /\ src = "FROM_MEM_WB" -> getWriteBackData(mem_wb)
      [] OTHER -> rs_data

data_alu_a == AluOperand(id_ex.rs1_index, id_ex.rs1_data)
data_alu_b == AluOperand(id_ex.rs2_index, id_ex.rs2_data)

reg1_value ==
    CASE alu_src_a(id_ex.op) = "ALU_SRC_A_PC"   -> id_ex.pc
      [] alu_src_a(id_ex.op) = "ALU_SRC_A_ZERO" -> 0
      [] OTHER                                  -> data_alu_a

reg2_value ==
    CASE id_ex.op \in {"lui", "auipc"} -> UpperOperand(id_ex.immediate)
      [] alu_src_b(id_ex.op) /\ id_ex.op \notin {"lui", "auipc"} ->
            id_ex.immediate
      [] OTHER -> data_alu_b

execution_result == Alu(alu_op(id_ex.op), reg1_value, reg2_value)

\* The next EX/MEM register.
Execute_Stage ==
    IF ~id_ex.is_valid THEN EX_MEM_Bubble
    ELSE IF is_nop(id_ex.op) THEN [EX_MEM_Bubble EXCEPT !.is_valid = TRUE]
    ELSE [is_valid   |-> TRUE,
          op         |-> id_ex.op,
          pc_inc     |-> id_ex.pc_inc,
          alu_result |-> execution_result,
          store_data |-> data_alu_b,
          rd_index   |-> id_ex.rd_index]

-----------------------------------------------------------------------------
(* Decode_Stage: reading the instruction and the registers.                *)

\* What decode extracts from the instruction word.
rs1_index(i) == IF i.op \in {"lui", "auipc"} THEN 0 ELSE i.rs1
rs2_index(i) == IF i.op \in {"add", "sub", "store"} \cup CondBranch
                THEN i.rs2 ELSE 0

\* The next ID/EX register of an instruction that leaves decode; registers are
\* read after write-back.
Decoded(prediction) ==
    LET i == if_id.inst IN
    IF is_nop(i.op)
    THEN [ID_EX_Bubble EXCEPT !.is_valid = TRUE, !.pc = if_id.pc,
                              !.pc_inc = if_id.pc_inc]
    ELSE [is_valid          |-> TRUE,
          op                |-> i.op,
          pc                |-> if_id.pc,
          pc_inc            |-> if_id.pc_inc,
          rs1_data          |-> WriteBack_Stage[rs1_index(i)],
          rs2_data          |-> WriteBack_Stage[rs2_index(i)],
          immediate         |-> i.imm,
          rs1_index         |-> rs1_index(i),
          rs2_index         |-> rs2_index(i),
          rd_index          |-> i.rd,
          predicted_outcome |-> prediction]

-----------------------------------------------------------------------------
(* Step, at the end of the cycle.                                          *)

\* Mutant of the next definition: the end of the program is one instruction
\* further.
EndsBehindTheEnd ==
    IF /\ pc' > program_size
       /\ ~if_id'.is_valid /\ ~id_ex'.is_valid
       /\ ~ex_mem'.is_valid /\ ~mem_wb'.is_valid
    THEN "VM_PROGRAM_END"
    ELSE "VM_STEP_COMPLETED"

\* The program has ended: nothing left to fetch and an empty pipeline.
StatusAfterStep ==
    IF /\ pc' >= program_size
       /\ ~if_id'.is_valid /\ ~id_ex'.is_valid
       /\ ~ex_mem'.is_valid /\ ~mem_wb'.is_valid
    THEN "VM_PROGRAM_END"
    ELSE "VM_STEP_COMPLETED"

-----------------------------------------------------------------------------
(* Reset and program load.                                                 *)

\* Mutant of the next definition: MEM/WB keeps its instruction.
ResetKeepsMemWb ==
    /\ mode' \in Modes
    /\ prog' = NoProgram
    /\ pc' = 0
    /\ regs' = ZeroRegisters
    /\ mem' = ZeroMemory
    /\ if_id' = IF_ID_Bubble
    /\ id_ex' = ID_EX_Bubble
    /\ ex_mem' = EX_MEM_Bubble
    /\ mem_wb' = mem_wb
    /\ bht' = EmptyBht
    /\ status' = "VM_RESET"
    /\ perf' = NoPerf

\* Reset, with the VM_RESET status the front end sets after it.
\* The configuration is read again.
ResetMachine ==
    /\ mode' \in Modes
    /\ prog' = NoProgram
    /\ pc' = 0
    /\ regs' = ZeroRegisters
    /\ mem' = ZeroMemory
    /\ if_id' = IF_ID_Bubble
    /\ id_ex' = ID_EX_Bubble
    /\ ex_mem' = EX_MEM_Bubble
    /\ mem_wb' = MEM_WB_Bubble
    /\ bht' = EmptyBht
    /\ status' = "VM_RESET"
    /\ perf' = NoPerf

\* VmBase::LoadProgram.
LoadMachine(p) ==
    /\ prog' = p
    /\ mem' = LoadData(mem, p.data)
    /\ status' = "VM_PROGRAM_LOADED"
    /\ UNCHANGED <<mode, pc, regs, if_id, id_ex, ex_mem, mem_wb, bht, perf>>

\* The constructor calls Reset.
InitMachine ==
    /\ mode \in Modes
    /\ prog = NoProgram
    /\ pc = 0
    /\ regs = ZeroRegisters
    /\ mem = ZeroMemory
    /\ if_id = IF_ID_Bubble
    /\ id_ex = ID_EX_Bubble
    /\ ex_mem = EX_MEM_Bubble
    /\ mem_wb = MEM_WB_Bubble
    /\ bht = EmptyBht
    /\ status = "VM_RESET"
    /\ perf = NoPerf

\* The machine after a load that follows Reset.
Loaded ==
    /\ mode \in Modes
    /\ prog \in Programs
    /\ pc = 0
    /\ regs = ZeroRegisters
    /\ mem = LoadData(ZeroMemory, prog.data)
    /\ if_id = IF_ID_Bubble
    /\ id_ex = ID_EX_Bubble
    /\ ex_mem = EX_MEM_Bubble
    /\ mem_wb = MEM_WB_Bubble
    /\ bht = EmptyBht
    /\ status = "VM_PROGRAM_LOADED"
    /\ perf = NoPerf
==============================================================================
