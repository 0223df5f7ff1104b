------------------------------ MODULE Rv5sUnits ------------------------------
(***************************************************************************)
(* The units the five-stage machines are built from: control unit, hazard  *)
(* unit, forwarding unit, and the pipeline registers they look at.  They   *)
(* are stateless classes in the code and operators here.                   *)
(*                                                                         *)
(* A pipeline register carries the operation and not the ControlSignals    *)
(* structure computed from it: reading `control' is                        *)
(* getControlSignals(r.op).  The fields that the code leaves stale in a    *)
(* register holding a nop are 0 here; no unit reads them, as a nop has no  *)
(* signal set.                                                             *)
(***************************************************************************)
EXTENDS BranchPredictor

IF_ID_Reg ==
    [is_valid : BOOLEAN, inst : Instr, pc : Word, pc_inc : Word,
     predicted_outcome : BOOLEAN, predicted_target : Word]
ID_EX_Reg ==
    [is_valid : BOOLEAN, op : Op, pc : Word, pc_inc : Word, rs1_data : Word,
     rs2_data : Word, immediate : Word, rs1_index : Reg, rs2_index : Reg,
     rd_index : Reg, predicted_outcome : BOOLEAN]
EX_MEM_Reg ==
    [is_valid : BOOLEAN, op : Op, pc_inc : Word, alu_result : Word,
     store_data : Word, rd_index : Reg]
MEM_WB_Reg ==
    [is_valid : BOOLEAN, op : Op, pc_inc : Word, memory_data : Word,
     alu_result : Word, rd_index : Reg]

\* CreateBubble<...>()
IF_ID_Bubble ==
    [is_valid |-> FALSE, inst |-> NopInstr, pc |-> 0, pc_inc |-> 0,
     predicted_outcome |-> FALSE, predicted_target |-> 0]
ID_EX_Bubble ==
    [is_valid |-> FALSE, op |-> "nop", pc |-> 0, pc_inc |-> 0, rs1_data |-> 0,
     rs2_data |-> 0, immediate |-> 0, rs1_index |-> 0, rs2_index |-> 0,
     rd_index |-> 0, predicted_outcome |-> FALSE]
EX_MEM_Bubble ==
    [is_valid |-> FALSE, op |-> "nop", pc_inc |-> 0, alu_result |-> 0,
     store_data |-> 0, rd_index |-> 0]
MEM_WB_Bubble ==
    [is_valid |-> FALSE, op |-> "nop", pc_inc |-> 0, memory_data |-> 0,
     alu_result |-> 0, rd_index |-> 0]

-----------------------------------------------------------------------------
(* RV5SControlUnit::getControlSignals, one signal at a time.               *)

is_nop(op)    == op = "nop"
alu_src_b(op) == op \in {"load", "store", "addi", "lui", "auipc", "jal", "jalr"}
mem_read(op)  == op = "load"
mem_write(op) == op = "store"
branch(op)    == op \in CondBranch \cup {"jal", "jalr"}
reg_write(op) == op \in {"add", "sub", "load", "addi", "lui", "auipc", "jal",
                         "jalr"}

alu_src_a(op) ==
    CASE op = "lui"              -> "ALU_SRC_A_ZERO"
      [] op \in {"auipc", "jal"} -> "ALU_SRC_A_PC"
      [] OTHER                   -> "ALU_SRC_A_RS1"

wb_src(op) ==
    CASE op \in {"add", "sub", "addi", "lui", "auipc"} -> "WB_FROM_ALU"
      [] op = "load"                                   -> "WB_FROM_MEM"
      [] op \in {"jal", "jalr"}                        -> "WB_FROM_PC_INC"
      [] OTHER                                         -> "WB_NONE"

alu_op(op) ==
    CASE op \in {"sub", "beq", "bne"} -> "kSub"
      [] op \in {"blt", "bge"}        -> "kSlt"
      [] op \in {"bltu", "bgeu"}      -> "kSltu"
      [] op = "nop"                   -> "kNone"
      [] OTHER                        -> "kAdd"

-----------------------------------------------------------------------------
(* RV5SHazardUnit.  op is the instruction in decode.                       *)

rs1_reqd(op) == alu_src_a(op) = "ALU_SRC_A_RS1"
rs2_reqd(op) ==
    \/ ~alu_src_b(op) /\ reg_write(op) /\ wb_src(op) = "WB_FROM_ALU"
    \/ mem_write(op)
    \/ branch(op) /\ op \notin {"jal", "jalr"}

\* The instruction in decode reads register rd.
Reads(op, rs1, rs2, rd) ==
    \/ rs1_reqd(op) /\ rd = rs1
    \/ rs2_reqd(op) /\ rd = rs2

\* Mutant of the next definition: the instruction in memory is overlooked.
ExecuteHazardOnly(op, rs1, rs2, id_ex, ex_mem) ==
    /\ reg_write(id_ex.op) /\ id_ex.rd_index # 0
    /\ Reads(op, rs1, rs2, id_ex.rd_index)

detectDataHazard(op, rs1, rs2, id_ex, ex_mem) ==
    \/ /\ reg_write(id_ex.op) /\ id_ex.rd_index # 0
       /\ Reads(op, rs1, rs2, id_ex.rd_index)
    \/ /\ reg_write(ex_mem.op) /\ ex_mem.rd_index # 0
       /\ Reads(op, rs1, rs2, ex_mem.rd_index)

\* Mutant of the next definition: only the first source is compared.
LoadUseOfRs1Only(op, rs1, rs2, id_ex) ==
    /\ mem_read(id_ex.op)
    /\ id_ex.rd_index # 0
    /\ rs1_reqd(op) /\ id_ex.rd_index = rs1

detectLoadUseHazard(op, rs1, rs2, id_ex) ==
    /\ mem_read(id_ex.op)
    /\ id_ex.rd_index # 0
    /\ Reads(op, rs1, rs2, id_ex.rd_index)

-----------------------------------------------------------------------------
(* RV5SForwardingUnit::getAluSrcA and getAluSrcB.                          *)

\* Mutant of the next definition: the older of two pending values wins.
OldestFirst(rs_index, ex_mem, mem_wb) ==
    CASE rs_index = 0 -> "FROM_REG"
      [] rs_index # 0 /\ reg_write(mem_wb.op) /\ mem_wb.rd_index = rs_index ->
            "FROM_MEM_WB"
      [] rs_index # 0 /\ ~(reg_write(mem_wb.op) /\ mem_wb.rd_index = rs_index)
         /\ reg_write(ex_mem.op) /\ ex_mem.rd_index = rs_index ->
            "FROM_EX_MEM"
      [] OTHER -> "FROM_REG"

getAluSrc(rs_index, ex_mem, mem_wb) ==
    CASE rs_index = 0 -> "FROM_REG"
      [] rs_index # 0 /\ reg_write(ex_mem.op) /\ ex_mem.rd_index = rs_index ->
            "FROM_EX_MEM"
      [] rs_index # 0 /\ ~(reg_write(ex_mem.op) /\ ex_mem.rd_index = rs_index)
         /\ reg_write(mem_wb.op) /\ mem_wb.rd_index = rs_index ->
            "FROM_MEM_WB"
      [] OTHER -> "FROM_REG"

\* getWriteBackData, the same in every machine: the value a MEM/WB register
\* delivers to the register file.
getWriteBackData(r) ==
    CASE wb_src(r.op) = "WB_FROM_ALU"    -> r.alu_result
      [] wb_src(r.op) = "WB_FROM_MEM"    -> r.memory_data
      [] wb_src(r.op) = "WB_FROM_PC_INC" -> r.pc_inc
      [] OTHER                           -> 0

\* The second ALU operand of lui and auipc: the immediate shifted left by 12,
\* with the upper half set when bit 31 or bit 29 is (and_mask 0xA0000000).
UpperOperand(imm) ==
    LET v == (imm * UpperUnit) % HalfMod
        bit31 == v >= HalfMod \div 2
        bit29 == (v \div (HalfMod \div 8)) % 2 = 1
    IN  IF bit31 \/ bit29 THEN v + (WordMod - HalfMod) ELSE v
==============================================================================
