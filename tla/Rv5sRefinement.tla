----------------------------- MODULE Rv5sRefinement -----------------------------
(***************************************************************************)
(* How a five-stage machine implements the single-cycle machine, as far as *)
(* it does not depend on the stage that resolves branches.                 *)
(*                                                                         *)
(* The refinement mapping (Rv5sArchitecture) counts an instruction as done *)
(* once it has left execute.  By DatapathInv the operands execute works on *)
(* are the architectural register values, so a cycle with an instruction   *)
(* in execute changes the mapped registers and memory as one step of the   *)
(* single-cycle machine does, and a cycle without one leaves them alone.   *)
(* Where the mapped PC goes is left to each machine.                       *)
(***************************************************************************)
EXTENDS Rv5sLemmas

-----------------------------------------------------------------------------
(* The shared parts of the invariant                                       *)

\* What decode latches of the instruction in IF/ID, nop or not.
LEMMA DecodedFields ==
    ASSUME NEW p
    PROVE  LET i == if_id.inst IN
           /\ Decoded(p).is_valid /\ Decoded(p).op = i.op
           /\ Decoded(p).pc = if_id.pc /\ Decoded(p).pc_inc = if_id.pc_inc
           /\ is_nop(i.op) => /\ Decoded(p).rs1_index = 0
                              /\ Decoded(p).rs2_index = 0
           /\ ~is_nop(i.op) => /\ Decoded(p).rs1_index = rs1_index(i)
                               /\ Decoded(p).rs2_index = rs2_index(i)
                               /\ Decoded(p).rd_index = i.rd
                               /\ Decoded(p).immediate = i.imm
                               /\ Decoded(p).predicted_outcome = p
BY DEF Decoded, ID_EX_Bubble, is_nop

\* Decode latches what the program and the register file have.
LEMMA IdExAfter ==
    ASSUME IfIdFromProgram, if_id.is_valid, NEW p, id_ex' = Decoded(p),
           regs' = WriteBack_Stage, prog' = prog
    PROVE  IdExFromProgram'
<1> DEFINE i == if_id.inst
<1>1. /\ if_id.pc < program_size /\ i = prog.text[if_id.pc + 1]
      /\ if_id.pc_inc = UpdateProgramCounter(if_id.pc, 1)
  BY DEF IfIdFromProgram
<1>2. CASE is_nop(i.op)
  BY <1>1, <1>2
  DEF Decoded, IdExFromProgram, ID_EX_Bubble, is_nop, program_size
<1>3. CASE ~is_nop(i.op)
  BY <1>1, <1>3
  DEF Decoded, IdExFromProgram, program_size
<1>4. QED
  BY <1>2, <1>3

\* The stages leave no signal set in an empty register.
LEMMA BubblesAfter ==
    ASSUME TypeOK, IdExFromProgram, prog' = prog, mem_wb' = Memory_Stage,
           ex_mem'.is_valid = Execute_Stage.is_valid,
           ex_mem'.op = Execute_Stage.op,
           ~id_ex'.is_valid => id_ex' = ID_EX_Bubble
    PROVE  BubblesIdle'
<1>1. ID_EX_Bubble.op = "nop" /\ EX_MEM_Bubble.op = "nop"
      /\ MEM_WB_Bubble.op = "nop"
  BY DEF ID_EX_Bubble, EX_MEM_Bubble, MEM_WB_Bubble
<1>2. ~id_ex'.is_valid => id_ex'.op = "nop"
  BY <1>1
<1>3. ~ex_mem'.is_valid => ex_mem'.op = "nop"
  BY <1>1 DEF Execute_Stage, EX_MEM_Bubble
<1>4. ~mem_wb'.is_valid => mem_wb'.op = "nop"
  BY <1>1 DEF Memory_Stage
<1>5. ASSUME prog' = NoProgram PROVE ~ex_mem'.is_valid
  <2>1. program_size = 0
    BY <1>5 DEF program_size, NoProgram
  <2>2. ~id_ex.is_valid
    BY <2>1, WordFacts DEF IdExFromProgram, TypeOK, ID_EX_Reg, Word
  <2>3. QED
    BY <2>2 DEF Execute_Stage, EX_MEM_Bubble
<1>6. QED
  BY <1>2, <1>3, <1>4, <1>5 DEF BubblesIdle

\* With no program loaded there is nothing in the pipeline before write-back.
LEMMA NoProgramEmpty ==
    ASSUME DatapathInv, prog = NoProgram
    PROVE  ~if_id.is_valid /\ ~id_ex.is_valid /\ ~ex_mem.is_valid
<1>1. program_size = 0
  BY DEF program_size, NoProgram
<1>2. if_id.pc \in Nat /\ id_ex.pc \in Nat
  BY WordFacts DEF DatapathInv, TypeOK, IF_ID_Reg, ID_EX_Reg, Word
<1>3. QED
  BY <1>1, <1>2 DEF DatapathInv, IfIdFromProgram, IdExFromProgram, BubblesIdle

\* Nothing is in the pipeline of a new or a reset machine.
LEMMA NewEmpty ==
    InitMachine \/ Loaded =>
        /\ BubblesIdle
        /\ ~if_id.is_valid /\ ~id_ex.is_valid /\ ~ex_mem.is_valid
        /\ ~mem_wb.is_valid
BY DEF InitMachine, Loaded, BubblesIdle, IF_ID_Bubble, ID_EX_Bubble,
       EX_MEM_Bubble, MEM_WB_Bubble

\* A reset empties the pipeline.
LEMMA ResetEmpty ==
    ResetMachine =>
        /\ BubblesIdle'
        /\ ~if_id'.is_valid /\ ~id_ex'.is_valid /\ ~ex_mem'.is_valid
        /\ ~mem_wb'.is_valid
BY DEF ResetMachine, BubblesIdle, IF_ID_Bubble, ID_EX_Bubble,
       EX_MEM_Bubble, MEM_WB_Bubble

\* A program is loaded into a machine whose pipeline is empty up to memory.
LEMMA LoadEmpty ==
    ASSUME DatapathInv, prog = NoProgram, NEW p \in Programs, LoadMachine(p)
    PROVE  /\ BubblesIdle'
           /\ ~if_id'.is_valid /\ ~id_ex'.is_valid /\ ~ex_mem'.is_valid
<1>1. ~if_id.is_valid /\ ~id_ex.is_valid /\ ~ex_mem.is_valid
  BY NoProgramEmpty
<1>2. UNCHANGED <<if_id, id_ex, ex_mem, mem_wb>>
  BY DEF LoadMachine
<1>3. QED
  BY <1>1, <1>2 DEF DatapathInv, BubblesIdle

\* An empty pipeline satisfies the shared invariant.
LEMMA EmptyPipeline ==
    ASSUME TypeOK, BubblesIdle,
           ~if_id.is_valid, ~id_ex.is_valid
    PROVE  DatapathInv
BY DEF DatapathInv, IfIdFromProgram, IdExFromProgram, OperandsReady,
       ExecuteReads

-----------------------------------------------------------------------------
(* Operands                                                                *)

\* One register of the file after write-back, and of the architectural one.
LEMMA RegisterRead ==
    ASSUME DatapathInv, NEW rs \in Reg
    PROVE  /\ WriteBack_Stage[rs] =
                 IF rs # 0 /\ reg_write(mem_wb.op) /\ mem_wb.rd_index = rs
                 THEN getWriteBackData(mem_wb)
                 ELSE regs[rs]
           /\ AbsRegs[rs] =
                 IF rs # 0 /\ reg_write(ex_mem.op) /\ ex_mem.rd_index = rs
                 THEN getWriteBackData(Memory_Stage)
                 ELSE WriteBack_Stage[rs]
<1>1. TypeOK /\ BubblesIdle
  BY DEF DatapathInv
<1>2. ~reg_write("nop")
  BY DEF reg_write
<1>3. regs \in [Reg -> Word] /\ WriteBack_Stage \in [Reg -> Word]
  BY <1>1, StageTypes DEF TypeOK
<1>4. ~mem_wb.is_valid => ~reg_write(mem_wb.op)
  BY <1>1, <1>2 DEF BubblesIdle
<1>5. ~ex_mem.is_valid => ~reg_write(ex_mem.op)
  BY <1>1, <1>2 DEF BubblesIdle
<1>6. WriteBack_Stage[rs] =
          IF rs # 0 /\ reg_write(mem_wb.op) /\ mem_wb.rd_index = rs
          THEN getWriteBackData(mem_wb)
          ELSE regs[rs]
  BY <1>3, <1>4 DEF WriteBack_Stage, WriteGpr
<1>7. /\ Memory_Stage.is_valid <=> ex_mem.is_valid
      /\ ex_mem.is_valid => /\ Memory_Stage.op = ex_mem.op
                            /\ Memory_Stage.rd_index = ex_mem.rd_index
  BY DEF Memory_Stage, MEM_WB_Bubble
<1>8. QED
  BY <1>3, <1>5, <1>6, <1>7 DEF AbsRegs, WriteGpr

\* The instruction in execute gets the architectural value of a register it
\* reads.
LEMMA OperandRead ==
    ASSUME DatapathInv, id_ex.is_valid, ~is_nop(id_ex.op), NEW rs \in Reg,
           \/ rs1_reqd(id_ex.op) /\ rs = id_ex.rs1_index
           \/ rs2_reqd(id_ex.op) /\ rs = id_ex.rs2_index
    PROVE  AluOperand(rs, regs[rs]) = AbsRegs[rs]
<1>1. TypeOK /\ BubblesIdle /\ OperandsReady
  BY DEF DatapathInv
<1>2. CASE rs = 0
  BY <1>2, RegisterRead DEF AluOperand, getAluSrc
<1>3. CASE rs # 0 /\ reg_write(ex_mem.op) /\ ex_mem.rd_index = rs
  <2>1. ExecuteReads(ex_mem)
    BY <1>3 DEF ExecuteReads, Reads
  <2>2. mode.forwarding
    BY <1>1, <2>1 DEF OperandsReady
  <2>3. wb_src(ex_mem.op) = "WB_FROM_ALU" /\ ex_mem.is_valid
    BY <1>1, <1>3, <2>1, <2>2 DEF OperandsReady, BubblesIdle, reg_write
  <2>4. getWriteBackData(Memory_Stage) = ex_mem.alu_result
    BY <2>3 DEF getWriteBackData, Memory_Stage, wb_src, mem_read
  <2>5. AluOperand(rs, regs[rs]) = ex_mem.alu_result
    BY <1>3, <2>2 DEF AluOperand, getAluSrc
  <2>6. QED
    BY <1>3, <2>4, <2>5, RegisterRead
<1>4. CASE /\ rs # 0 /\ ~(reg_write(ex_mem.op) /\ ex_mem.rd_index = rs)
           /\ reg_write(mem_wb.op) /\ mem_wb.rd_index = rs
  <2>1. ExecuteReads(mem_wb)
    BY <1>4 DEF ExecuteReads, Reads
  <2>2. mode.forwarding
    BY <1>1, <2>1 DEF OperandsReady
  <2>3. AluOperand(rs, regs[rs]) = getWriteBackData(mem_wb)
    BY <1>4, <2>2 DEF AluOperand, getAluSrc
  <2>4. QED
    BY <1>4, <2>3, RegisterRead
<1>5. CASE /\ rs # 0 /\ ~(reg_write(ex_mem.op) /\ ex_mem.rd_index = rs)
           /\ ~(reg_write(mem_wb.op) /\ mem_wb.rd_index = rs)
  <2>1. AluOperand(rs, regs[rs]) = regs[rs]
    BY <1>5 DEF AluOperand, getAluSrc
  <2>2. QED
    BY <1>5, <2>1, RegisterRead
<1>6. QED
  BY <1>2, <1>3, <1>4, <1>5

\* The two statements about operands follow from the shared invariant.
LEMMA OperandsFollow ==
    ASSUME DatapathInv
    PROVE  OperandsArchitectural /\ ExMemResultForwardable
<1>1. TypeOK /\ IdExFromProgram /\ OperandsReady
  BY DEF DatapathInv
<1>2. id_ex.rs1_index \in Reg /\ id_ex.rs2_index \in Reg
  BY <1>1 DEF TypeOK, ID_EX_Reg
<1>3. ASSUME id_ex.is_valid, rs2_reqd(id_ex.op)
      PROVE  ~is_nop(id_ex.op)
  BY <1>3 DEF rs2_reqd, is_nop, reg_write, mem_write, branch, CondBranch
<1>4. ASSUME id_ex.is_valid, ~is_nop(id_ex.op)
      PROVE  /\ id_ex.rs1_data = regs[id_ex.rs1_index]
             /\ id_ex.rs2_data = regs[id_ex.rs2_index]
  BY <1>1, <1>4 DEF IdExFromProgram
<1>5. OperandsArchitectural
  BY <1>2, <1>3, <1>4, OperandRead
  DEF OperandsArchitectural, data_alu_a, data_alu_b
<1>6. ExMemResultForwardable
  <2>1. SUFFICES ASSUME mode.forwarding, id_ex.is_valid, ~is_nop(id_ex.op),
                        NEW rs,
                        \/ rs1_reqd(id_ex.op) /\ rs = id_ex.rs1_index
                        \/ rs2_reqd(id_ex.op) /\ rs = id_ex.rs2_index,
                        getAluSrc(rs, ex_mem, mem_wb) = "FROM_EX_MEM"
                 PROVE  wb_src(ex_mem.op) = "WB_FROM_ALU"
    BY DEF ExMemResultForwardable
  <2>2. rs # 0 /\ reg_write(ex_mem.op) /\ ex_mem.rd_index = rs
    BY <2>1 DEF getAluSrc
  <2>3. ExecuteReads(ex_mem)
    BY <2>1, <2>2 DEF ExecuteReads, Reads
  <2>4. QED
    BY <1>1, <2>1, <2>3 DEF OperandsReady
<1>7. QED
  BY <1>5, <1>6

-----------------------------------------------------------------------------
(* The instruction in execute                                              *)

\* The upper immediates on which the sign extension of execute (and_mask
\* 0xA0000000, which looks at bit 29 as well) agrees with that of the
\* single-cycle machine.
UpperImmediatesAgree ==
    \A p \in Programs : \A k \in DOMAIN p.text :
        p.text[k].op \in {"lui", "auipc"} =>
            UpperOperand(p.text[k].imm) = SC!UpperImmediate(p.text[k].imm)

\* The instruction in execute, as the program has it.
Executing == prog.text[id_ex.pc + 1]

\* It is the instruction the mapped PC points to.
LEMMA ExecutingFacts ==
    ASSUME DatapathInv, id_ex.is_valid
    PROVE  /\ prog \in Programs
           /\ AbsPc = id_ex.pc /\ AbsPc < program_size
           /\ Executing \in Instr
           /\ id_ex.pc + 1 \in DOMAIN prog.text
           /\ id_ex.op = Executing.op
           /\ id_ex.pc_inc = UpdateProgramCounter(id_ex.pc, 1)
           /\ ~is_nop(id_ex.op) => /\ id_ex.rd_index = Executing.rd
                                   /\ id_ex.immediate = Executing.imm
<1>1. TypeOK /\ IdExFromProgram
  BY DEF DatapathInv
<1>2. id_ex.pc \in Word /\ id_ex.pc < program_size
  BY <1>1 DEF TypeOK, ID_EX_Reg, IdExFromProgram
<1>3. /\ prog \in Programs /\ Executing \in Instr
      /\ id_ex.pc + 1 \in DOMAIN prog.text
  BY <1>1, <1>2, LoadedText DEF Executing
<1>4. QED
  BY <1>1, <1>2, <1>3 DEF IdExFromProgram, AbsPc, Executing

\* Its register operands.
LEMMA ExecutingOperands ==
    ASSUME DatapathInv, id_ex.is_valid
    PROVE  /\ id_ex.op \in {"add", "sub", "addi", "load", "store", "jalr"}
                             \cup CondBranch
                => data_alu_a = AbsRegs[Executing.rs1]
           /\ id_ex.op \in {"add", "sub", "store"} \cup CondBranch
                => data_alu_b = AbsRegs[Executing.rs2]
<1>1. IdExFromProgram /\ OperandsArchitectural
  BY OperandsFollow DEF DatapathInv
<1>2. ~is_nop(Executing.op) =>
          /\ id_ex.rs1_index = rs1_index(Executing)
          /\ id_ex.rs2_index = rs2_index(Executing)
          /\ id_ex.op = Executing.op
  BY <1>1 DEF IdExFromProgram, Executing
<1>3. id_ex.op = Executing.op
  BY <1>1 DEF IdExFromProgram, Executing
<1>4. ASSUME id_ex.op \in {"add", "sub", "addi", "load", "store", "jalr"}
                             \cup CondBranch
      PROVE  data_alu_a = AbsRegs[Executing.rs1]
  <2>1. rs1_reqd(id_ex.op) /\ ~is_nop(id_ex.op)
    BY <1>4 DEF rs1_reqd, alu_src_a, is_nop, CondBranch
  <2>2. rs1_index(Executing) = Executing.rs1
    BY <1>3, <1>4 DEF rs1_index, CondBranch
  <2>3. QED
    BY <1>1, <1>2, <1>3, <2>1, <2>2 DEF OperandsArchitectural
<1>5. ASSUME id_ex.op \in {"add", "sub", "store"} \cup CondBranch
      PROVE  data_alu_b = AbsRegs[Executing.rs2]
  <2>1. rs2_reqd(id_ex.op) /\ ~is_nop(id_ex.op)
    BY <1>5 DEF rs2_reqd, alu_src_b, reg_write, wb_src, mem_write, branch,
                is_nop, CondBranch
  <2>2. rs2_index(Executing) = Executing.rs2
    BY <1>3, <1>5 DEF rs2_index, CondBranch
  <2>3. QED
    BY <1>1, <1>2, <1>3, <2>1, <2>2 DEF OperandsArchitectural
<1>6. QED
  BY <1>4, <1>5

\* The ALU of execute computes what the single-cycle machine does.
LEMMA ExecutingResult ==
    ASSUME DatapathInv, id_ex.is_valid
    PROVE  /\ id_ex.op \in Op \ {"lui", "auipc", "jal", "nop"} =>
                  execution_result = SC!ExecutionResult(Executing)
           /\ id_ex.op = "jal" =>
                  execution_result = UpdateProgramCounter(id_ex.pc,
                                                          Executing.imm)
<1> DEFINE i == Executing
<1>1. /\ id_ex.op = i.op /\ i \in Instr /\ AbsPc = id_ex.pc
      /\ ~is_nop(id_ex.op) => id_ex.immediate = i.imm
  BY ExecutingFacts
<1>2. CASE id_ex.op \in {"add", "sub"} \cup CondBranch
  <2>1. data_alu_a = AbsRegs[i.rs1] /\ data_alu_b = AbsRegs[i.rs2]
    BY <1>2, ExecutingOperands
  <2>2. reg1_value = data_alu_a /\ reg2_value = data_alu_b
    BY <1>2 DEF reg1_value, reg2_value, alu_src_a, alu_src_b, CondBranch
  <2>3. SC!GetAluSignal(i.op) = alu_op(id_ex.op)
    BY <1>1, <1>2 DEF SC!GetAluSignal, alu_op, CondBranch
  <2>4. ~SC!alu_src_(i.op) /\ i.op # "auipc"
    BY <1>1, <1>2 DEF SC!alu_src_, CondBranch
  <2>5. SC!ExecutionResult(i)
            = SC!Alu(alu_op(id_ex.op), AbsRegs[i.rs1], AbsRegs[i.rs2])
    BY <2>3, <2>4 DEF SC!ExecutionResult
  <2>6. QED
    BY <1>2, <2>1, <2>2, <2>5
    DEF execution_result, Alu, SC!Alu, Signed, SC!Signed, CondBranch
<1>3. CASE id_ex.op \in {"addi", "load", "store", "jalr"}
  <2>1. data_alu_a = AbsRegs[i.rs1]
    BY <1>3, ExecutingOperands
  <2>2. reg1_value = data_alu_a /\ reg2_value = i.imm
    BY <1>1, <1>3 DEF reg1_value, reg2_value, alu_src_a, alu_src_b, is_nop
  <2>3. alu_op(id_ex.op) = "kAdd" /\ SC!GetAluSignal(i.op) = "kAdd"
    BY <1>1, <1>3 DEF SC!GetAluSignal, alu_op
  <2>4. SC!alu_src_(i.op) /\ i.op # "auipc"
    BY <1>1, <1>3 DEF SC!alu_src_
  <2>5. SC!ExecutionResult(i) = SC!Alu("kAdd", AbsRegs[i.rs1], i.imm)
    BY <2>3, <2>4 DEF SC!ExecutionResult
  <2>6. QED
    BY <1>3, <2>1, <2>2, <2>3, <2>5 DEF execution_result, Alu, SC!Alu
<1>4. CASE id_ex.op = "jal"
  BY <1>1, <1>4 DEF execution_result, reg1_value, reg2_value, alu_src_a,
     alu_src_b, alu_op, Alu, UpdateProgramCounter, is_nop
<1>5. QED
  BY <1>2, <1>3, <1>4 DEF Op

\* So it does with an upper immediate on which both agree.
LEMMA ExecutingUpper ==
    ASSUME DatapathInv, id_ex.is_valid, UpperImmediatesAgree,
           id_ex.op \in {"lui", "auipc"}
    PROVE  execution_result = IF id_ex.op = "lui"
                              THEN SC!UpperImmediate(Executing.imm)
                              ELSE SC!ExecutionResult(Executing)
<1> DEFINE i == Executing
<1>1. /\ id_ex.op = i.op /\ i \in Instr /\ AbsPc = id_ex.pc
      /\ ~is_nop(id_ex.op) => id_ex.immediate = i.imm
  BY ExecutingFacts
<1>2. UpperOperand(i.imm) = SC!UpperImmediate(i.imm)
  BY <1>1, ExecutingFacts DEF UpperImmediatesAgree, Executing
<1>3. UpperOperand(i.imm) \in Word
  BY <1>1, UpperType DEF Instr
<1>4. execution_result = (reg1_value + UpperOperand(i.imm)) % WordMod
  BY <1>1 DEF execution_result, reg2_value, alu_op, Alu, is_nop
<1>5. CASE id_ex.op = "lui"
  <2>1. reg1_value = 0
    BY <1>5 DEF reg1_value, alu_src_a
  <2>2. \A w \in Word : (0 + w) % WordMod = w
    BY WordFacts DEF Word
  <2>3. QED
    BY <1>2, <1>3, <1>4, <1>5, <2>1, <2>2
<1>6. CASE id_ex.op = "auipc"
  <2>1. reg1_value = id_ex.pc
    BY <1>6 DEF reg1_value, alu_src_a
  <2>2. QED
    BY <1>1, <1>2, <1>4, <1>6, <2>1 DEF SC!ExecutionResult
<1>7. QED
  BY <1>5, <1>6

\* Where the single-cycle machine goes from it, in terms of what execute holds.
LEMMA ExecutingNextPc ==
    ASSUME DatapathInv, id_ex.is_valid
    PROVE  SC!NextPc(Executing) =
              CASE id_ex.op = "jalr" -> execution_result
                [] id_ex.op = "jal" ->
                      UpdateProgramCounter(id_ex.pc, id_ex.immediate)
                [] /\ id_ex.op \in CondBranch
                   /\ BranchOutcome(id_ex.op, execution_result) ->
                      UpdateProgramCounter(id_ex.pc, id_ex.immediate)
                [] OTHER -> id_ex.pc_inc
<1> DEFINE i == Executing
<1>1. /\ id_ex.op = i.op /\ id_ex.op \in Op /\ AbsPc = id_ex.pc
      /\ id_ex.pc_inc = UpdateProgramCounter(id_ex.pc, 1)
      /\ ~is_nop(id_ex.op) => id_ex.immediate = i.imm
  BY ExecutingFacts DEF Instr
<1>2. id_ex.op \in CondBranch \cup {"jalr"} =>
          execution_result = SC!ExecutionResult(i)
  BY ExecutingResult DEF Op, CondBranch
<1>3. CASE id_ex.op = "jalr"
  BY <1>1, <1>2, <1>3 DEF SC!NextPc, CondBranch, SC!CondBranch
<1>4. CASE id_ex.op = "jal"
  BY <1>1, <1>4
  DEF SC!NextPc, UpdateProgramCounter, SC!UpdateProgramCounter, is_nop,
      CondBranch, SC!CondBranch
<1>5. CASE id_ex.op \in CondBranch
  BY <1>1, <1>2, <1>5
  DEF SC!NextPc, UpdateProgramCounter, SC!UpdateProgramCounter, is_nop,
      BranchOutcome, SC!BranchOutcome, CondBranch, SC!CondBranch
<1>6. CASE id_ex.op \notin CondBranch \cup {"jal", "jalr"}
  BY <1>1, <1>6
  DEF SC!NextPc, UpdateProgramCounter, SC!UpdateProgramCounter,
      CondBranch, SC!CondBranch
<1>7. QED
  BY <1>3, <1>4, <1>5, <1>6

-----------------------------------------------------------------------------
(* One cycle                                                               *)

\* The instructions behind execute complete without changing the mapped state.
LEMMA Behind ==
    ASSUME DatapathStep
    PROVE  /\ WriteBack_Stage' = AbsRegs
           /\ mem' = AbsMem
           /\ prog' = prog
BY DEF DatapathStep, AbsRegs, AbsMem, WriteBack_Stage

\* A cycle without an instruction in execute is a stutter, if the mapped PC
\* stays where it is.
LEMMA NothingExecutes ==
    ASSUME DatapathStep, ~id_ex.is_valid, AbsPc' = AbsPc
    PROVE  UNCHANGED SC!vars
<1>1. ~ex_mem'.is_valid
  BY DEF DatapathStep, Execute_Stage, EX_MEM_Bubble
<1>2. AbsRegs' = AbsRegs /\ AbsMem' = AbsMem
  BY <1>1, Behind
  DEF AbsRegs, AbsMem, Memory_Stage, MEM_WB_Bubble, Memory_Store
<1>3. QED
  BY <1>2, Behind DEF SC!vars

\* A cycle with one executes it, if the mapped PC goes where it should.
LEMMA InstructionExecutes ==
    ASSUME DatapathInv, DatapathStep, id_ex.is_valid, UpperImmediatesAgree,
           AbsPc' = SC!NextPc(Executing)
    PROVE  SC!Step
<1> DEFINE i == Executing
<1>1. /\ id_ex.op = i.op /\ id_ex.op \in Op /\ AbsPc = id_ex.pc
      /\ AbsPc < program_size
      /\ id_ex.pc_inc = UpdateProgramCounter(id_ex.pc, 1)
      /\ ~is_nop(id_ex.op) => id_ex.rd_index = i.rd
  BY ExecutingFacts DEF Instr
<1>2. AbsPc' = SC!NextPc(i)
  OBVIOUS
<1>3. CASE is_nop(id_ex.op)
  <2>1. ex_mem'.op = "nop"
    BY <1>3 DEF DatapathStep, Execute_Stage, EX_MEM_Bubble
  <2>2. AbsRegs' = AbsRegs /\ AbsMem' = AbsMem
    BY <2>1, Behind
    DEF AbsRegs, AbsMem, Memory_Stage, MEM_WB_Bubble, Memory_Store, reg_write,
        mem_write
  <2>3. SC!WriteBack(i) = AbsRegs /\ SC!WriteMemory(i) = AbsMem
    BY <1>1, <1>3
    DEF SC!WriteBack, SC!WriteMemory, SC!reg_write_, SC!mem_write_, is_nop
  <2>4. QED
    BY <1>1, <1>2, <2>2, <2>3, Behind
    DEF SC!Step, SC!program_size, program_size, Executing
<1>4. CASE ~is_nop(id_ex.op)
  <2>1. /\ ex_mem'.is_valid /\ ex_mem'.op = i.op /\ ex_mem'.rd_index = i.rd
        /\ ex_mem'.pc_inc = id_ex.pc_inc
        /\ ex_mem'.alu_result = execution_result
        /\ ex_mem'.store_data = data_alu_b
    BY <1>1, <1>4 DEF DatapathStep, Execute_Stage
  <2>2. AbsMem' = SC!WriteMemory(i)
    <3>1. CASE i.op = "store"
      <4>1. /\ execution_result = SC!ExecutionResult(i)
            /\ data_alu_b = AbsRegs[i.rs2]
        BY <1>1, <3>1, ExecutingResult, ExecutingOperands
      <4>2. QED
        BY <2>1, <3>1, <4>1, Behind
        DEF AbsMem, Memory_Store, mem_write, SC!WriteMemory, SC!mem_write_
    <3>2. CASE i.op # "store"
      BY <2>1, <3>2, Behind
      DEF AbsMem, Memory_Store, mem_write, SC!WriteMemory, SC!mem_write_
    <3>3. QED
      BY <3>1, <3>2
  <2>3. reg_write(i.op) =>
            getWriteBackData(Memory_Stage)' = SC!WriteBackData(i)
    <3>1. CASE i.op = "load"
      <4>1. execution_result = SC!ExecutionResult(i)
        BY <1>1, <3>1, ExecutingResult
      <4>2. QED
        BY <2>1, <3>1, <4>1, Behind
        DEF getWriteBackData, Memory_Stage, wb_src, mem_read,
            SC!WriteBackData, SC!mem_read_
    <3>2. CASE i.op \in {"jal", "jalr"}
      BY <1>1, <2>1, <3>2
      DEF getWriteBackData, Memory_Stage, wb_src, mem_read, SC!WriteBackData,
          SC!mem_read_, UpdateProgramCounter, SC!UpdateProgramCounter
    <3>3. CASE i.op = "lui"
      BY <1>1, <2>1, <3>3, ExecutingUpper
      DEF getWriteBackData, Memory_Stage, wb_src, mem_read, SC!WriteBackData,
          SC!mem_read_
    <3>4. CASE i.op \in {"add", "sub", "addi", "auipc"}
      <4>1. execution_result = SC!ExecutionResult(i)
        BY <1>1, <3>4, ExecutingResult, ExecutingUpper
      <4>2. QED
        BY <2>1, <3>4, <4>1
        DEF getWriteBackData, Memory_Stage, wb_src, mem_read,
            SC!WriteBackData, SC!mem_read_
    <3>5. QED
      BY <3>1, <3>2, <3>3, <3>4 DEF reg_write
  <2>4. AbsRegs' = SC!WriteBack(i)
    <3>1. /\ Memory_Stage'.is_valid /\ Memory_Stage'.op = i.op
          /\ Memory_Stage'.rd_index = i.rd
      BY <2>1 DEF Memory_Stage
    <3>2. AbsRegs' = IF reg_write(i.op)
                     THEN WriteGpr(AbsRegs, i.rd,
                                   getWriteBackData(Memory_Stage)')
                     ELSE AbsRegs
      BY <3>1, Behind DEF AbsRegs
    <3>3. SC!reg_write_(i.op) <=> reg_write(i.op)
      BY DEF SC!reg_write_, reg_write
    <3>4. QED
      BY <2>3, <3>2, <3>3 DEF SC!WriteBack, SC!WriteGpr, WriteGpr
  <2>5. QED
    BY <1>1, <1>2, <2>2, <2>4, Behind
    DEF SC!Step, SC!program_size, program_size, Executing
<1>5. QED
  BY <1>3, <1>4

-----------------------------------------------------------------------------
(* The other actions                                                       *)

\* The mapped state of an empty pipeline is what the machine shows.
LEMMA InitMaps == InitMachine => SC!Init
<1>1. SUFFICES ASSUME InitMachine PROVE SC!Init
  OBVIOUS
<1>2. /\ ~if_id.is_valid /\ ~id_ex.is_valid /\ ~ex_mem.is_valid
      /\ ~mem_wb.is_valid
  BY <1>1, NewEmpty
<1>3. AbsRegs = regs /\ AbsMem = mem /\ AbsPc = pc
  BY <1>2 DEF AbsRegs, AbsMem, AbsPc, Memory_Stage, MEM_WB_Bubble,
              WriteBack_Stage, Memory_Store
<1>4. QED
  BY <1>1, <1>3 DEF InitMachine, SC!Init, SC!ZeroRegisters, ZeroRegisters,
     SC!ZeroMemory, ZeroMemory, SC!NoProgram, NoProgram, SC!Reg, Reg, SC!Word,
     Word

\* A reset of the pipeline resets the single-cycle machine.
LEMMA ResetMaps == ResetMachine => SC!Reset
<1>1. SUFFICES ASSUME ResetMachine PROVE SC!Reset
  OBVIOUS
<1>2. /\ ~if_id'.is_valid /\ ~id_ex'.is_valid /\ ~ex_mem'.is_valid
      /\ ~mem_wb'.is_valid
  BY <1>1, ResetEmpty
<1>3. AbsRegs' = regs' /\ AbsMem' = mem' /\ AbsPc' = pc'
  BY <1>2 DEF AbsRegs, AbsMem, AbsPc, Memory_Stage, MEM_WB_Bubble,
              WriteBack_Stage, Memory_Store
<1>4. QED
  BY <1>1, <1>3 DEF ResetMachine, SC!Reset, SC!ZeroRegisters, ZeroRegisters,
     SC!ZeroMemory, ZeroMemory, SC!NoProgram, NoProgram, SC!Reg, Reg, SC!Word,
     Word

\* A load into a machine without a program: nothing in the pipeline depends on
\* the memory it overwrites.
LEMMA LoadMaps ==
    ASSUME DatapathInv, prog = NoProgram, NEW p \in Programs, LoadMachine(p)
    PROVE  SC!LoadProgram(p)
<1>1. ~if_id.is_valid /\ ~id_ex.is_valid /\ ~ex_mem.is_valid
  BY NoProgramEmpty
<1>2. /\ prog' = p /\ mem' = LoadData(mem, p.data)
      /\ UNCHANGED <<pc, regs, if_id, id_ex, ex_mem, mem_wb>>
  BY DEF LoadMachine
<1>3. AbsMem = mem /\ AbsMem' = mem'
  BY <1>1, <1>2 DEF AbsMem, Memory_Store
<1>4. AbsRegs' = AbsRegs /\ AbsPc' = AbsPc
  BY <1>1, <1>2 DEF AbsRegs, AbsPc, Memory_Stage, WriteBack_Stage
<1>5. QED
  BY <1>2, <1>3, <1>4 DEF SC!LoadProgram, SC!LoadData, LoadData, SC!Word, Word

\* The same for a new machine with a program.
LEMMA LoadedMaps == Loaded => SC!RunInit
<1>1. SUFFICES ASSUME Loaded PROVE SC!RunInit
  OBVIOUS
<1>2. /\ ~if_id.is_valid /\ ~id_ex.is_valid /\ ~ex_mem.is_valid
      /\ ~mem_wb.is_valid
  BY <1>1, NewEmpty
<1>3. AbsRegs = regs /\ AbsMem = mem /\ AbsPc = pc
  BY <1>2 DEF AbsRegs, AbsMem, AbsPc, Memory_Stage, MEM_WB_Bubble,
              WriteBack_Stage, Memory_Store
<1>4. QED
  BY <1>1, <1>3 DEF Loaded, SC!RunInit, SC!ZeroRegisters, ZeroRegisters,
     SC!ZeroMemory, ZeroMemory, SC!LoadData, LoadData, SC!Reg, Reg, SC!Word,
     Word

\* What leaves the whole machine alone leaves the mapped state alone.
LEMMA StutterMaps == UNCHANGED machine => UNCHANGED SC!vars
BY DEF machine, SC!vars, AbsPc, AbsRegs, AbsMem, Memory_Stage,
       WriteBack_Stage, Memory_Store
==============================================================================
