-------------------------- MODULE PipelinePlain_proof --------------------------
(***************************************************************************)
(* RV5SStallVM implements the single-cycle machine for every program, and  *)
(* RV5SVM for every program that is scheduled for it: no branches, and two *)
(* instructions between a write and a read of the same register.           *)
(*                                                                         *)
(* The argument is that of PipelineEX_proof.  With the interlock, the      *)
(* hazard unit keeps the instruction in execute from reading a register    *)
(* with a pending write.  Without it, EX/MEM and MEM/WB hold exactly the   *)
(* two instructions of the text in front of it, so the schedule does.      *)
(***************************************************************************)
EXTENDS PipelinePlainProperties, Rv5sRefinement

-----------------------------------------------------------------------------
(* Types                                                                   *)

\* What the two machines do differently from Rv5sDatapath.
LEMMA PlainTypes ==
    ASSUME TypeOK
    PROVE  /\ Execute \in EX_MEM_Reg
           /\ branch_taken \in BOOLEAN /\ stall_request \in BOOLEAN
           /\ PcAfterExecute \in Word
           /\ Decode_Stage \in ID_EX_Reg
           /\ Fetch_Stage \in IF_ID_Reg
           /\ PerfAfterStep \in Perf
<1> USE DEF TypeOK
<1>1. Execute \in EX_MEM_Reg
  <2>1. Alu("kAdd", id_ex.pc, UpperOperand(id_ex.immediate)) \in Word
    BY UpperType, AluType DEF ID_EX_Reg
  <2>2. QED
    BY <2>1, StageTypes DEF Execute, EX_MEM_Reg
<1>2. branch_taken \in BOOLEAN /\ stall_request \in BOOLEAN
  BY DEF branch_taken, stall_request, stalling
<1>3. target_address \in Word
  BY StageTypes, PcType DEF target_address, ID_EX_Reg
<1>4. PcAfterExecute \in Word
  BY <1>3 DEF PcAfterExecute
<1>5. Decode_Stage \in ID_EX_Reg
  BY DecodedType, InitialTypes DEF Decode_Stage
<1>6. Fetch_Stage \in IF_ID_Reg
  <2>1. CASE Fetches
    <3>1. PcAfterExecute = pc
      BY <2>1 DEF Fetches, PcAfterExecute
    <3>2. prog.text[pc + 1] \in Instr
      BY <2>1, <3>1, LoadedText DEF Fetches
    <3>3. UpdateProgramCounter(pc, 1) \in Word
      BY PcType, WordFacts
    <3>4. QED
      BY <2>1, <3>2, <3>3, InitialTypes DEF Fetch_Stage, IF_ID_Reg
  <2>2. CASE ~Fetches
    BY <2>2, InitialTypes DEF Fetch_Stage
  <2>3. QED
    BY <2>1, <2>2
<1>7. PerfAfterStep \in Perf
  <2>1. \A b : Bit(b) \in Nat
    BY DEF Bit
  <2>2. QED
    BY <2>1, WordFacts, CountType DEF PerfAfterStep, Perf
<1>8. QED
  BY <1>1, <1>2, <1>4, <1>5, <1>6, <1>7

\* Every operation keeps the types.
LEMMA NextType ==
    ASSUME TypeOK, [Next]_vars
    PROVE  TypeOK'
<1>1. CASE Step
  <2>1. pc' \in Word
    BY <1>1, PlainTypes, PcType, WordFacts DEF Step, TypeOK
  <2>2. status' \in {"VM_STEP_COMPLETED", "VM_PROGRAM_END"}
    BY <1>1 DEF Step, StatusAfterStep
  <2>3. QED
    BY <1>1, <2>1, <2>2, PlainTypes, StageTypes DEF Step, TypeOK
<1>2. CASE Reset
  BY <1>2, ResetType DEF Reset
<1>3. ASSUME NEW p \in Programs, LoadProgram(p)
      PROVE  TypeOK'
  BY <1>3, LoadType DEF LoadProgram
<1>4. CASE UNCHANGED vars
  BY <1>4 DEF vars, machine, TypeOK
<1>5. QED
  BY <1>1, <1>2, <1>3, <1>4 DEF Next

\* No stage of either machine leaves a register, a counter or the PC out of
\* range, whatever is loaded and whenever it is reset.
THEOREM TypeCorrect == Spec => []TypeOK
<1>1. Init => TypeOK
  BY InitType DEF Init
<1>2. TypeOK /\ [Next]_vars => TypeOK'
  BY NextType
<1>3. QED
  BY <1>1, <1>2, PTL DEF Spec

-----------------------------------------------------------------------------
(* The inductive invariant                                                 *)

\* What Step makes of the two front registers: a taken branch empties both, a
\* stall keeps IF/ID and sends a bubble, otherwise both move on.
LEMMA FrontEnd ==
    ASSUME TypeOK, Step
    PROVE  /\ branch_taken => /\ ~id_ex'.is_valid /\ ~if_id'.is_valid
                              /\ pc' = target_address
           /\ stall_request => /\ ~id_ex'.is_valid /\ if_id' = if_id
                               /\ if_id.is_valid /\ pc' = pc
           /\ ~branch_taken /\ ~stall_request =>
                 /\ id_ex'.is_valid <=> if_id.is_valid
                 /\ if_id.is_valid => id_ex' = Decoded(FALSE)
                 /\ if_id'.is_valid <=> pc < program_size
                 /\ if_id'.is_valid =>
                       /\ if_id'.inst = prog.text[pc + 1]
                       /\ if_id'.pc = pc
                       /\ if_id'.pc_inc = UpdateProgramCounter(pc, 1)
                       /\ pc' = UpdateProgramCounter(pc, 1)
                 /\ ~if_id'.is_valid => pc' = pc
<1> USE DEF Step, Fetches, Fetch_Stage, Decode_Stage, Decodes, PcAfterExecute
<1>1. ~ID_EX_Bubble.is_valid /\ ~IF_ID_Bubble.is_valid
  BY DEF ID_EX_Bubble, IF_ID_Bubble
<1>2. Decoded(FALSE).is_valid
  BY DEF Decoded, ID_EX_Bubble
<1>3. stall_request => if_id.is_valid /\ ~branch_taken
  BY DEF stall_request
<1>4. CASE branch_taken
  BY <1>1, <1>3, <1>4
<1>5. CASE stall_request
  BY <1>1, <1>3, <1>5
<1>6. CASE ~branch_taken /\ ~stall_request /\ pc < program_size
  <2>1. Fetches
    BY <1>6
  <2>2. /\ if_id'.is_valid /\ if_id'.inst = prog.text[pc + 1]
        /\ if_id'.pc = pc /\ if_id'.pc_inc = UpdateProgramCounter(pc, 1)
    BY <1>6, <2>1 DEF IF_ID_Bubble
  <2>3. QED
    BY <1>1, <1>2, <1>6, <2>1, <2>2 DEF TypeOK, IF_ID_Reg
<1>7. CASE ~branch_taken /\ ~stall_request /\ ~(pc < program_size)
  BY <1>1, <1>2, <1>7 DEF TypeOK, IF_ID_Reg
<1>8. QED
  BY <1>4, <1>5, <1>6, <1>7

\* Step keeps IF/ID and the PC in line with the text.
LEMMA StepIfId ==
    ASSUME IInv, Step
    PROVE  IfIdFromProgram' /\ FetchSequential'
<1>1. TypeOK /\ IfIdFromProgram /\ FetchSequential /\ prog' = prog
  BY DEF IInv, Step
<1>2. SUFFICES ASSUME if_id'.is_valid
               PROVE  IfIdFromProgram' /\ FetchSequential'
  BY DEF IfIdFromProgram, FetchSequential
<1>3. ~branch_taken
  BY <1>1, <1>2, FrontEnd
<1>4. CASE stall_request
  BY <1>1, <1>4, FrontEnd DEF IfIdFromProgram, FetchSequential, program_size
<1>5. CASE ~stall_request
  BY <1>1, <1>2, <1>3, <1>5, FrontEnd
  DEF IfIdFromProgram, FetchSequential, program_size
<1>6. QED
  BY <1>4, <1>5

\* What leaves decode: nothing, or the instruction in IF/ID.
LEMMA StepDecodes ==
    ASSUME TypeOK, Step, id_ex'.is_valid
    PROVE  if_id.is_valid /\ id_ex' = Decoded(FALSE)
           /\ ~branch_taken /\ ~stall_request
BY FrontEnd, PlainTypes DEF TypeOK, IF_ID_Reg

\* What the stages behind decode pass on.
LEMMA StepPasses ==
    ASSUME TypeOK, Step
    PROVE  /\ ex_mem'.is_valid = id_ex.is_valid
           /\ ex_mem'.is_valid = Execute_Stage.is_valid
           /\ ex_mem'.op = Execute_Stage.op
           /\ id_ex.is_valid => ex_mem'.op = id_ex.op
           /\ id_ex.is_valid /\ ~is_nop(id_ex.op) =>
                  ex_mem'.rd_index = id_ex.rd_index
           /\ mem_wb'.is_valid = ex_mem.is_valid
           /\ ex_mem.is_valid => /\ mem_wb'.op = ex_mem.op
                                 /\ mem_wb'.rd_index = ex_mem.rd_index
<1>1. /\ Execute.is_valid = Execute_Stage.is_valid
      /\ Execute.op = Execute_Stage.op
      /\ Execute.rd_index = Execute_Stage.rd_index
  BY StageTypes DEF Execute, EX_MEM_Reg
<1>2. /\ Execute_Stage.is_valid = id_ex.is_valid
      /\ id_ex.is_valid => Execute_Stage.op = id_ex.op
      /\ id_ex.is_valid /\ ~is_nop(id_ex.op) =>
             Execute_Stage.rd_index = id_ex.rd_index
  BY DEF TypeOK, ID_EX_Reg, Execute_Stage, EX_MEM_Bubble, is_nop
<1>3. /\ Memory_Stage.is_valid = ex_mem.is_valid
      /\ ex_mem.is_valid => /\ Memory_Stage.op = ex_mem.op
                            /\ Memory_Stage.rd_index = ex_mem.rd_index
  BY DEF TypeOK, EX_MEM_Reg, Memory_Stage, MEM_WB_Bubble
<1>4. QED
  BY <1>1, <1>2, <1>3 DEF Step

\* Step keeps ID/EX in line with the text and the registers, the instructions
\* in the order of the text, and empty registers without a signal.
LEMMA StepIdEx ==
    ASSUME IInv, Step
    PROVE  /\ IdExFromProgram' /\ BubblesIdle'
           /\ PathSequential' /\ NopReadsNothing'
<1>1. TypeOK /\ IfIdFromProgram /\ FetchSequential /\ IdExFromProgram
  BY DEF IInv
<1>2. regs' = WriteBack_Stage /\ prog' = prog /\ mem_wb' = Memory_Stage
  BY DEF Step
<1>3. ~id_ex'.is_valid => id_ex' = ID_EX_Bubble
  BY DEF Step, Decode_Stage, Decoded, ID_EX_Bubble
<1>4. IdExFromProgram'
  <2>1. CASE id_ex'.is_valid
    BY <1>1, <1>2, <2>1, StepDecodes, IdExAfter
  <2>2. CASE ~id_ex'.is_valid
    BY <2>2 DEF IdExFromProgram
  <2>3. QED
    BY <2>1, <2>2
<1>5. BubblesIdle'
  BY <1>1, <1>2, <1>3, StepPasses, BubblesAfter
<1>6. PathSequential'
  <2>1. SUFFICES ASSUME id_ex'.is_valid PROVE PathSequential'
    BY DEF PathSequential
  <2>2. /\ if_id.is_valid /\ id_ex' = Decoded(FALSE)
        /\ ~branch_taken /\ ~stall_request
    BY <1>1, <2>1, StepDecodes
  <2>3. id_ex'.pc_inc = if_id.pc_inc
    BY <2>2, DecodedFields
  <2>4. NextFetched' = pc
    BY <1>1, <2>2, FrontEnd DEF NextFetched
  <2>5. QED
    BY <1>1, <2>2, <2>3, <2>4 DEF PathSequential, FetchSequential
<1>7. NopReadsNothing'
  <2>1. CASE id_ex'.is_valid
    BY <1>1, <2>1, StepDecodes, DecodedFields DEF NopReadsNothing
  <2>2. CASE ~id_ex'.is_valid
    BY <1>3, <2>2 DEF NopReadsNothing, ID_EX_Bubble
  <2>3. QED
    BY <2>1, <2>2
<1>8. QED
  BY <1>4, <1>5, <1>6, <1>7

\* The interlock: what decode lets through reads nothing that the two
\* instructions before it have still to write.
LEMMA StepInterlock ==
    ASSUME IInv, Step
    PROVE  HazardsInterlocked'
<1>1. TypeOK /\ BubblesIdle /\ vm' = vm
  BY DEF IInv, Step
<1>2. SUFFICES ASSUME stalling, id_ex'.is_valid
               PROVE  HazardsInterlocked'
  BY <1>1 DEF HazardsInterlocked, ExecuteReads, stalling
<1>3. /\ if_id.is_valid /\ id_ex' = Decoded(FALSE)
      /\ ~branch_taken /\ ~stall_request
  BY <1>1, <1>2, StepDecodes
<1>4. ex_mem'.op \notin {"jal", "jalr"}
  <2>1. id_ex.is_valid => id_ex.op \notin {"jal", "jalr"}
    BY <1>2, <1>3 DEF branch_taken
  <2>2. ~id_ex.is_valid => ex_mem'.op = "nop"
    BY <1>1, StepPasses DEF Execute_Stage, EX_MEM_Bubble
  <2>3. QED
    BY <1>1, <2>1, <2>2, StepPasses
<1>5. ASSUME NEW r \in {ex_mem', mem_wb'}, reg_write(r.op)
      PROVE  \/ reg_write(id_ex.op) /\ r.rd_index = id_ex.rd_index
             \/ reg_write(ex_mem.op) /\ r.rd_index = ex_mem.rd_index
  <2>1. ~reg_write("nop")
    BY DEF reg_write
  <2>2. CASE r = ex_mem'
    <3>1. id_ex.is_valid
      BY <1>1, <1>5, <2>1, <2>2, StepPasses DEF Execute_Stage, EX_MEM_Bubble
    <3>2. QED
      BY <1>1, <1>5, <2>1, <2>2, <3>1, StepPasses DEF is_nop
  <2>3. CASE r = mem_wb'
    <3>1. ex_mem.is_valid
      BY <1>5, <2>1, <2>3 DEF Step, Memory_Stage, MEM_WB_Bubble
    <3>2. QED
      BY <1>1, <1>5, <2>3, <3>1, StepPasses
  <2>4. QED
    BY <2>2, <2>3
<1>6. ASSUME NEW r \in {ex_mem', mem_wb'}, reg_write(r.op), r.rd_index # 0,
             ~is_nop(id_ex'.op),
             Reads(id_ex'.op, id_ex'.rs1_index, id_ex'.rs2_index, r.rd_index)
      PROVE  FALSE
  <2>1. /\ ~is_nop(if_id.inst.op)
        /\ id_ex'.op = if_id.inst.op
        /\ id_ex'.rs1_index = rs1_index(if_id.inst)
        /\ id_ex'.rs2_index = rs2_index(if_id.inst)
    BY <1>3, <1>6, DecodedFields
  <2>2. detectDataHazard(if_id.inst.op, rs1_index(if_id.inst),
                         rs2_index(if_id.inst), id_ex, ex_mem)
    BY <1>5, <1>6, <2>1 DEF detectDataHazard
  <2>3. QED
    BY <1>2, <1>3, <2>1, <2>2 DEF stall_request, Decodes
<1>7. QED
  BY <1>4, <1>6 DEF HazardsInterlocked, ExecuteReads

\* Without the interlock and without branches followed, instructions move one
\* stage each cycle, in the order of the text.
LEMMA StepFlows ==
    ASSUME IInv, Step
    PROVE  TextFlows'
<1>1. /\ TypeOK /\ IfIdFromProgram /\ IdExFromProgram /\ PathSequential
      /\ TextFlows /\ vm' = vm /\ prog' = prog
  BY DEF IInv, Step
<1>2. SUFFICES ASSUME ~stalling
               PROVE  TextFlows'
  BY <1>1 DEF TextFlows, stalling
<1>3. ~branch_taken /\ ~stall_request
  BY <1>2 DEF branch_taken, stall_request
<1>4. /\ id_ex'.is_valid <=> if_id.is_valid
      /\ if_id'.is_valid <=> pc < program_size
      /\ ~if_id'.is_valid => pc' = pc
  BY <1>1, <1>3, FrontEnd
<1>5. if_id.is_valid => id_ex'.pc = if_id.pc
  BY <1>1, <1>3, FrontEnd, DecodedFields
<1>6. if_id.pc \in Int /\ id_ex.pc \in Nat /\ pc \in Int /\ program_size \in Int
  <2>1. /\ if_id.pc \in Word /\ id_ex.pc \in Word /\ pc \in Word
        /\ program_size \in Word
    BY <1>1, LoadedText DEF TypeOK, IF_ID_Reg, ID_EX_Reg
  <2>2. QED
    BY <2>1, WordFacts DEF Word
<1>7. ASSUME id_ex.is_valid
      PROVE  /\ if_id.is_valid => if_id.pc = id_ex.pc + 1
             /\ Carries(ex_mem', id_ex.pc)
  <2>1. id_ex.pc_inc = id_ex.pc + 1
    BY <1>1, <1>7, LoadedText DEF IdExFromProgram, TypeOK, ID_EX_Reg
  <2>2. if_id.is_valid => if_id.pc = id_ex.pc + 1
    BY <1>1, <1>7, <2>1 DEF PathSequential, NextFetched
  <2>3. Carries(ex_mem', id_ex.pc)
    BY <1>1, <1>7, StepPasses DEF Carries, IdExFromProgram
  <2>4. QED
    BY <2>2, <2>3
<1>8. ASSUME id_ex'.is_valid, ex_mem'.is_valid
      PROVE  id_ex'.pc >= 1 /\ Carries(ex_mem', id_ex'.pc - 1)
  <2>1. id_ex.is_valid /\ id_ex'.pc = id_ex.pc + 1
    BY <1>1, <1>4, <1>5, <1>7, <1>8, StepPasses
  <2>2. id_ex'.pc - 1 = id_ex.pc
    BY <1>6, <2>1
  <2>3. QED
    BY <1>6, <1>7, <2>1, <2>2
<1>9. ASSUME id_ex'.is_valid, mem_wb'.is_valid
      PROVE  id_ex'.pc >= 2 /\ Carries(mem_wb', id_ex'.pc - 2)
  <2>1. if_id.is_valid /\ ex_mem.is_valid
    BY <1>1, <1>4, <1>9, StepPasses
  <2>2. id_ex.is_valid
    BY <1>1, <1>2, <2>1 DEF TextFlows
  <2>3. id_ex.pc >= 1 /\ Carries(ex_mem, id_ex.pc - 1)
    BY <1>1, <1>2, <2>1, <2>2 DEF TextFlows
  <2>4. Carries(mem_wb', id_ex.pc - 1)
    BY <1>1, <2>1, <2>3, StepPasses DEF Carries
  <2>5. id_ex'.pc = id_ex.pc + 1
    BY <1>5, <1>7, <2>1, <2>2
  <2>6. id_ex'.pc - 2 = id_ex.pc - 1
    BY <1>6, <2>5
  <2>7. QED
    BY <1>6, <2>3, <2>4, <2>5, <2>6
<1>10. if_id'.is_valid /\ ~id_ex'.is_valid => ~ex_mem'.is_valid
  BY <1>1, <1>2, <1>4, <1>6, StepPasses DEF TextFlows
<1>11. id_ex'.is_valid /\ ~if_id'.is_valid => pc' >= program_size
  BY <1>4, <1>6
<1>12. program_size' = program_size
  BY <1>1 DEF program_size
<1>13. QED
  BY <1>1, <1>8, <1>9, <1>10, <1>11, <1>12 DEF TextFlows, Carries

\* An empty pipeline satisfies the invariant.
LEMMA EmptyPipelinePlain ==
    ASSUME TypeOK, vm \in VmTypes, BubblesIdle,
           ~if_id.is_valid, ~id_ex.is_valid,
           id_ex.rs1_index = 0, id_ex.rs2_index = 0
    PROVE  IInv
BY DEF IInv, IfIdFromProgram, FetchSequential, IdExFromProgram, PathSequential,
       NopReadsNothing, HazardsInterlocked, ExecuteReads, TextFlows

\* The empty pipeline satisfies it.
LEMMA InitIInv == Init => IInv
<1>1. SUFFICES ASSUME Init PROVE IInv
  OBVIOUS
<1>2. id_ex.rs1_index = 0 /\ id_ex.rs2_index = 0
  BY <1>1 DEF Init, InitMachine, ID_EX_Bubble
<1>3. QED
  BY <1>1, <1>2, InitType, NewEmpty, EmptyPipelinePlain DEF Init

\* Every step of a session keeps it: a cycle, a reset and a load.
LEMMA NextIInv ==
    ASSUME IInv, [Next]_vars
    PROVE  IInv'
<1>1. TypeOK' /\ vm' \in VmTypes
  BY NextType DEF IInv, Next, Step, Reset, LoadProgram, vars
<1>2. CASE Step
  BY <1>1, <1>2, StepIfId, StepIdEx, StepInterlock, StepFlows DEF IInv
<1>3. ASSUME BubblesIdle', ~if_id'.is_valid, ~id_ex'.is_valid,
             id_ex'.rs1_index = 0, id_ex'.rs2_index = 0
      PROVE  IInv'
  BY <1>1, <1>3
  DEF IInv, IfIdFromProgram, FetchSequential, IdExFromProgram, PathSequential,
      NopReadsNothing, HazardsInterlocked, ExecuteReads, TextFlows
<1>4. CASE Reset
  <2>1. id_ex'.rs1_index = 0 /\ id_ex'.rs2_index = 0
    BY <1>4 DEF Reset, ResetMachine, ID_EX_Bubble
  <2>2. QED
    BY <1>3, <1>4, <2>1, ResetEmpty DEF Reset
<1>5. ASSUME NEW p \in Programs, prog = NoProgram, LoadProgram(p)
      PROVE  IInv'
  <2>1. program_size = 0
    BY <1>5 DEF program_size, NoProgram
  <2>2. if_id.pc \in Nat /\ id_ex.pc \in Nat
    BY WordFacts DEF IInv, TypeOK, IF_ID_Reg, ID_EX_Reg, Word
  <2>3. ~if_id.is_valid /\ ~id_ex.is_valid
    BY <2>1, <2>2 DEF IInv, IfIdFromProgram, IdExFromProgram
  <2>4. id_ex.rs1_index = 0 /\ id_ex.rs2_index = 0
    BY <2>3 DEF IInv, BubblesIdle, NopReadsNothing, is_nop
  <2>5. ~ex_mem.is_valid
    BY <1>5 DEF IInv, BubblesIdle
  <2>6. UNCHANGED <<if_id, id_ex, ex_mem, mem_wb>>
    BY <1>5 DEF LoadProgram, LoadMachine
  <2>7. BubblesIdle'
    BY <2>5, <2>6 DEF IInv, BubblesIdle
  <2>8. QED
    BY <1>3, <2>3, <2>4, <2>6, <2>7
<1>6. CASE UNCHANGED vars
  BY <1>1, <1>6
  DEF vars, machine, IInv, IfIdFromProgram, FetchSequential, IdExFromProgram,
      PathSequential, NextFetched, BubblesIdle, NopReadsNothing,
      HazardsInterlocked, ExecuteReads, TextFlows, Carries, stalling,
      program_size
<1>7. QED
  BY <1>2, <1>4, <1>5, <1>6 DEF Next

\* Both machines hold consecutive instructions of the text; the interlock leaves
\* none that reads a pending write, and without it the text flows through.
THEOREM Inductive == Spec => []IInv
<1>1. Init => IInv
  BY InitIInv
<1>2. IInv /\ [Next]_vars => IInv'
  BY NextIInv
<1>3. QED
  BY <1>1, <1>2, PTL DEF Spec

\* Comparing the instruction in decode with the two in front of it is enough:
\* no instruction reaches execute of RV5SStallVM with an operand still to be
\* written, not even a nop, whose register fields the units also look at.
THEOREM Interlock == Spec => []InterlockSuffices
<1>1. IInv => InterlockSuffices
  <2>1. SUFFICES ASSUME IInv, stalling, id_ex.is_valid
                 PROVE  InterlockSuffices
    BY DEF InterlockSuffices
  <2>2. CASE is_nop(id_ex.op)
    <3>1. id_ex.rs1_index = 0 /\ id_ex.rs2_index = 0
      BY <2>1, <2>2 DEF IInv, NopReadsNothing
    <3>2. QED
      BY <2>1, <3>1 DEF InterlockSuffices, Reads, IInv, HazardsInterlocked
  <2>3. CASE ~is_nop(id_ex.op)
    BY <2>1, <2>3
    DEF InterlockSuffices, IInv, HazardsInterlocked, ExecuteReads
  <2>4. QED
    BY <2>2, <2>3
<1>2. QED
  BY <1>1, Inductive, PTL

-----------------------------------------------------------------------------
(* The refinement                                                          *)

\* An instruction whose destination the one in execute reads is too close in
\* front of it for a schedule.
LEMMA ScheduleSuffices ==
    ASSUME IInv, ~stalling, Scheduled(prog)
    PROVE  ~ExecuteReads(ex_mem) /\ ~ExecuteReads(mem_wb)
<1> DEFINE e == prog.text[id_ex.pc + 1]
<1>1. TypeOK /\ IdExFromProgram /\ BubblesIdle /\ TextFlows
  BY DEF IInv
<1>2. SUFFICES ASSUME NEW r \in {ex_mem, mem_wb}, ExecuteReads(r)
               PROVE  FALSE
  OBVIOUS
<1>3. /\ id_ex.is_valid /\ ~is_nop(id_ex.op)
      /\ reg_write(r.op) /\ r.rd_index # 0
      /\ Reads(id_ex.op, id_ex.rs1_index, id_ex.rs2_index, r.rd_index)
  BY <1>2 DEF ExecuteReads
<1>4. r.is_valid /\ ~is_nop(r.op)
  BY <1>1, <1>3 DEF BubblesIdle, reg_write, is_nop
<1>5. PICK d \in {1, 2} : id_ex.pc >= d /\ Carries(r, id_ex.pc - d)
  BY <1>1, <1>3, <1>4 DEF TextFlows
<1> DEFINE j == id_ex.pc - d + 1
           k == id_ex.pc + 1
<1>6. id_ex.pc \in Word /\ id_ex.pc < program_size
  BY <1>1, <1>3 DEF TypeOK, ID_EX_Reg, IdExFromProgram
<1>7. id_ex.pc \in Nat /\ program_size \in Nat
  BY <1>1, <1>6, LoadedText, WordFacts DEF Word
<1>8. id_ex.pc - d \in Word /\ id_ex.pc - d < program_size
  BY <1>5, <1>6, <1>7, WordFacts DEF Word
<1>9. j \in DOMAIN prog.text /\ k \in DOMAIN prog.text /\ k - j \in {1, 2}
  BY <1>1, <1>5, <1>6, <1>7, <1>8, LoadedText
<1>10. /\ reg_write(prog.text[j].op) /\ prog.text[j].rd # 0
       /\ r.rd_index = prog.text[j].rd
  BY <1>3, <1>4, <1>5 DEF Carries
<1>11. Reads(e.op, rs1_index(e), rs2_index(e), prog.text[j].rd)
  BY <1>1, <1>3, <1>10 DEF IdExFromProgram
<1>12. QED
  BY <1>9, <1>10, <1>11 DEF Scheduled

\* A machine on which the program's hazards are resolved satisfies the invariant
\* all five-stage machines share.
LEMMA SharedInvariant ==
    ASSUME IInv, HazardFree
    PROVE  DatapathInv
<1>1. ~mode.forwarding
  BY PlainAssumption DEF IInv, TypeOK
<1>2. ~ExecuteReads(ex_mem) /\ ~ExecuteReads(mem_wb)
  BY ScheduleSuffices DEF IInv, HazardsInterlocked, HazardFree
<1>3. QED
  BY <1>1, <1>2 DEF IInv, DatapathInv, OperandsReady

\* Where the mapped PC goes in a cycle.
LEMMA AbsPcAfter ==
    ASSUME IInv, Step
    PROVE  AbsPc' = IF branch_taken THEN target_address ELSE NextFetched
<1>1. TypeOK
  BY DEF IInv
<1>2. CASE branch_taken
  BY <1>1, <1>2, FrontEnd DEF AbsPc
<1>3. CASE stall_request
  <2>1. ~branch_taken
    BY <1>3 DEF stall_request, Decodes
  <2>2. QED
    BY <1>1, <1>3, <2>1, FrontEnd DEF AbsPc, NextFetched
<1>4. CASE ~branch_taken /\ ~stall_request /\ if_id.is_valid
  BY <1>1, <1>4, FrontEnd, DecodedFields DEF AbsPc, NextFetched
<1>5. CASE ~branch_taken /\ ~stall_request /\ ~if_id.is_valid
  BY <1>1, <1>5, FrontEnd DEF AbsPc, NextFetched
<1>6. QED
  BY <1>2, <1>3, <1>4, <1>5

\* It goes where the single-cycle machine goes.
LEMMA PcFollows ==
    ASSUME IInv, HazardFree, Step, id_ex.is_valid
    PROVE  AbsPc' = SC!NextPc(Executing)
<1>1. DatapathInv /\ TypeOK /\ PathSequential
  BY SharedInvariant DEF IInv
<1>2. /\ id_ex.op \in Op /\ id_ex.op = Executing.op
      /\ id_ex.pc + 1 \in DOMAIN prog.text
      /\ ~is_nop(id_ex.op) => id_ex.immediate = Executing.imm
  BY <1>1, ExecutingFacts DEF Instr
<1>3. CASE branch_taken
  <2>1. AbsPc' = target_address
    BY <1>3, AbsPcAfter
  <2>2. id_ex.op = "jal" =>
            execution_result = UpdateProgramCounter(id_ex.pc, id_ex.immediate)
    BY <1>1, <1>2, ExecutingResult DEF is_nop
  <2>3. QED
    BY <1>1, <1>3, <2>1, <2>2, ExecutingNextPc
    DEF branch_taken, target_address, CondBranch
<1>4. CASE ~branch_taken
  <2>1. AbsPc' = id_ex.pc_inc
    BY <1>1, <1>4, AbsPcAfter DEF PathSequential
  <2>2. CASE stalling
    BY <1>1, <1>4, <2>1, <2>2, ExecutingNextPc DEF branch_taken
  <2>3. CASE ~stalling
    <3>1. ~branch(id_ex.op)
      BY <1>2, <2>3 DEF HazardFree, Scheduled, Executing
    <3>2. QED
      BY <1>1, <2>1, <3>1, ExecutingNextPc DEF branch
  <2>4. QED
    BY <2>2, <2>3
<1>5. QED
  BY <1>3, <1>4

\* A cycle executes one instruction of the single-cycle machine or none.
LEMMA StepMaps ==
    ASSUME IInv, HazardFree, Step, UpperImmediatesAgree
    PROVE  SC!Step \/ UNCHANGED SC!vars
<1>1. DatapathInv
  BY SharedInvariant
<1>2. ~(vm = "RV5SVM" /\ id_ex.is_valid /\ id_ex.op = "jal")
  <2>1. id_ex.is_valid => /\ id_ex.op = Executing.op
                          /\ id_ex.pc + 1 \in DOMAIN prog.text
    BY <1>1, ExecutingFacts
  <2>2. QED
    BY <2>1 DEF HazardFree, stalling, Scheduled, branch, Executing
<1>3. DatapathStep
  BY <1>2 DEF Step, DatapathStep, Execute
<1>4. CASE id_ex.is_valid
  BY <1>1, <1>3, <1>4, PcFollows, InstructionExecutes
<1>5. CASE ~id_ex.is_valid
  <2>1. ~branch_taken
    BY <1>5 DEF branch_taken
  <2>2. AbsPc' = AbsPc
    BY <1>5, <2>1, AbsPcAfter DEF AbsPc, NextFetched
  <2>3. QED
    BY <1>3, <1>5, <2>2, NothingExecutes
<1>6. QED
  BY <1>4, <1>5

\* Every step is one of the single-cycle machine, where no hazard is left to it.
LEMMA NextMaps ==
    ASSUME IInv, HazardFree, [Next]_vars, UpperImmediatesAgree
    PROVE  [SC!Next]_SC!vars
<1>1. CASE Step
  BY <1>1, StepMaps DEF SC!Next
<1>2. CASE Reset
  BY <1>2, ResetMaps DEF Reset, SC!Next
<1>3. ASSUME NEW p \in Programs, prog = NoProgram, LoadProgram(p)
      PROVE  SC!Next
  BY <1>3, SharedInvariant, LoadMaps
  DEF LoadProgram, SC!Next, SC!NoProgram, NoProgram
<1>4. CASE UNCHANGED vars
  BY <1>4, StutterMaps DEF vars
<1>5. QED
  BY <1>1, <1>2, <1>3, <1>4 DEF Next

\* The interlocked machine is the single-cycle machine for every program, and
\* the bare pipeline is for every program whose dependent instructions are three
\* apart and which has no branch: provided no program holds an upper immediate
\* that execute sign-extends differently.
THEOREM ImplementsResolved ==
    ASSUME UpperImmediatesAgree
    PROVE  Spec => ImplementsIfResolved
<1>1. ASSUME IInv, [Next]_vars
      PROVE  stalling \/ Scheduled(prog) => [SC!Next]_SC!vars
  BY <1>1, NextMaps DEF HazardFree
<1>2. QED
  BY <1>1, Inductive, PTL DEF Spec, ImplementsIfResolved

==============================================================================
