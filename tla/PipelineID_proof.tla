--------------------------- MODULE PipelineID_proof ---------------------------
(***************************************************************************)
(* RV5SIDVM implements the single-cycle machine where the buffer holds no  *)
(* entry of another program (a run on a new machine, or a predictor that   *)
(* never predicts taken) and no instruction reads a link by forwarding     *)
(* (LinksHarmless): the two runs with an expected violation show that      *)
(* neither can be dropped.                                                 *)
(*                                                                         *)
(* The argument: a branch in decode sees the architectural values of its   *)
(* operands, and the instruction in front of it, in execute, does not      *)
(* write them; so what decode makes fetch go on with is the architectural  *)
(* successor, execute needs no flush, and from then on the proof is that   *)
(* of PipelineEX_proof.                                                    *)
(***************************************************************************)
EXTENDS PipelineIDProperties, Rv5sRefinement

-----------------------------------------------------------------------------
(* Types                                                                   *)

\* What decode computes for a branch.
LEMMA BranchTypes ==
    ASSUME TypeOK
    PROVE  /\ val1 \in Word /\ val2 \in Word
           /\ stall_request \in BOOLEAN /\ actual_taken \in BOOLEAN
           /\ Mispredicted \in BOOLEAN
           /\ actual_target \in Word
           /\ PcAfterDecode \in Word
           /\ BhtAfterDecode \in Bht
<1> USE DEF TypeOK
<1>1. rs1_index(if_id.inst) \in Reg /\ rs2_index(if_id.inst) \in Reg
  BY ZeroTypes DEF IF_ID_Reg, Instr, rs1_index, rs2_index
<1>2. ASSUME NEW r \in Reg PROVE BranchOperand(r) \in Word
  <2>1. /\ WriteBack_Stage[r] \in Word /\ getWriteBackData(mem_wb) \in Word
        /\ ex_mem.alu_result \in Word /\ 0 \in Word
    BY <1>2, StageTypes, WriteBackDataType, WordFacts DEF EX_MEM_Reg
  <2>2. QED
    BY <2>1 DEF BranchOperand, getForwardedIdReg
<1>3. val1 \in Word /\ val2 \in Word
  BY <1>1, <1>2 DEF val1, val2
<1>4. stall_request \in BOOLEAN /\ actual_taken \in BOOLEAN
      /\ Mispredicted \in BOOLEAN
  BY DEF stall_request, actual_taken, Mispredicted
<1>5. actual_target \in Word
  <2>1. if_id.inst.imm \in Word /\ if_id.pc \in Word
    BY DEF IF_ID_Reg, Instr
  <2>2. (val1 + if_id.inst.imm) % WordMod \in Word
    <3>1. val1 \in Int /\ if_id.inst.imm \in Int
      BY <1>3, <2>1, WordFacts
    <3>2. QED
      BY <3>1, WordFacts
  <2>3. QED
    BY <2>1, <2>2, PcType, WordFacts DEF actual_target
<1>6. PcAfterDecode \in Word
  BY <1>5 DEF PcAfterDecode, IF_ID_Reg
<1>7. BhtAfterDecode \in Bht
  BY <1>4, BhtType DEF BhtAfterDecode, IF_ID_Reg
<1>8. QED
  BY <1>3, <1>4, <1>5, <1>6, <1>7

\* The buffer, and the stages that use it.
LEMMA FrontEndTypes ==
    ASSUME TypeOK, btb \in Btb
    PROVE  /\ BtbAfterDecode \in Btb
           /\ predict_taken \in BOOLEAN
           /\ next_pc_val \in Word
           /\ Decode_Stage \in ID_EX_Reg
           /\ Fetch_Stage \in IF_ID_Reg
           /\ PerfAfterStep \in Perf
<1>1. BtbAfterDecode \in Btb
  BY BranchTypes DEF BtbAfterDecode, Btb
<1>2. predict_taken => BtbAfterDecode[PcAfterDecode] \in Word
  BY <1>1, BranchTypes DEF predict_taken, Btb
<1>3. UpdateProgramCounter(PcAfterDecode, 1) \in Word
  BY BranchTypes, PcType, WordFacts
<1>4. predict_taken \in BOOLEAN /\ next_pc_val \in Word
  BY <1>1, <1>2, <1>3, BranchTypes DEF next_pc_val, predict_taken, Btb,
     TypeOK, getPrediction
<1>5. Decode_Stage \in ID_EX_Reg
  BY DecodedType, InitialTypes DEF Decode_Stage
<1>6. Fetch_Stage \in IF_ID_Reg
  <2>1. CASE Fetches
    <3>1. prog.text[PcAfterDecode + 1] \in Instr
      BY <2>1, LoadedText, BranchTypes DEF Fetches
    <3>2. (IF predict_taken THEN BtbAfterDecode[PcAfterDecode] ELSE 0) \in Word
      BY <1>2, WordFacts
    <3>3. QED
      BY <1>3, <1>4, <2>1, <3>1, <3>2, BranchTypes
      DEF Fetch_Stage, IF_ID_Reg, TypeOK
  <2>2. CASE ~Fetches
    BY <2>2, InitialTypes DEF Fetch_Stage, TypeOK
  <2>3. QED
    BY <2>1, <2>2
<1>7. PerfAfterStep \in Perf
  <2>1. \A b : Bit(b) \in Nat
    BY DEF Bit
  <2>2. StallIncrement \in Nat
    BY DEF StallIncrement, Bit
  <2>3. QED
    BY <2>1, <2>2, WordFacts, CountType DEF PerfAfterStep, Perf, TypeOK
<1>8. QED
  BY <1>1, <1>4, <1>5, <1>6, <1>7

\* Every operation of a session keeps the types.
LEMMA StepType ==
    ASSUME TypeOK, btb \in Btb, Step
    PROVE  TypeOK' /\ btb' \in Btb
<1>1. pc' \in Word
  BY BranchTypes, FrontEndTypes DEF Step
<1>2. QED
  BY <1>1, BranchTypes, FrontEndTypes, DatapathType DEF Step, DatapathStep

\* The types, and that of the branch target buffer, in a session.
LEMMA NextType ==
    ASSUME TypeOK, btb \in Btb, [Next]_vars
    PROVE  TypeOK' /\ btb' \in Btb
<1>1. CASE Reset
  BY <1>1, ResetType DEF Reset
<1>2. ASSUME NEW p \in Programs, LoadProgram(p)
      PROVE  TypeOK' /\ btb' \in Btb
  BY <1>2, LoadType DEF LoadProgram
<1>3. CASE UNCHANGED vars
  BY <1>3 DEF vars, machine, TypeOK
<1>4. QED
  BY <1>1, <1>2, <1>3, StepType DEF Next

\* No stage leaves a register, the history table, a counter or the PC out of
\* range, not even with a buffer that has entries of an earlier program.
THEOREM TypeCorrect == Spec => []TypeOK
<1>1. Init => TypeOK /\ btb \in Btb
  BY InitType DEF Init, EmptyBtb, Btb
<1>2. TypeOK /\ btb \in Btb /\ [Next]_vars => TypeOK' /\ (btb \in Btb)'
  BY NextType
<1>3. QED
  BY <1>1, <1>2, PTL DEF Spec

-----------------------------------------------------------------------------
(* The inductive invariant                                                 *)

\* What Step makes of the two front registers: a stall keeps IF/ID and sends a
\* bubble, otherwise IF/ID moves on and fetch follows unless decode corrects it.
LEMMA FrontEnd ==
    ASSUME TypeOK, Step
    PROVE  /\ stall_request => /\ ~id_ex'.is_valid /\ if_id' = if_id
                               /\ if_id.is_valid /\ pc' = pc
           /\ ~stall_request =>
                 /\ id_ex'.is_valid <=> if_id.is_valid
                 /\ if_id.is_valid => id_ex' = Decoded(FALSE)
                 /\ Mispredicted => /\ if_id.is_valid /\ ~if_id'.is_valid
                                    /\ pc' = PcAfterDecode
                 /\ ~Mispredicted /\ pc >= program_size =>
                       ~if_id'.is_valid /\ pc' = pc
                 /\ ~Mispredicted /\ pc < program_size =>
                       /\ if_id'.is_valid
                       /\ if_id'.inst = prog.text[pc + 1]
                       /\ if_id'.pc = pc
                       /\ if_id'.pc_inc = UpdateProgramCounter(pc, 1)
                       /\ if_id'.predicted_outcome =>
                             /\ BtbAfterDecode[pc] # NoTarget
                             /\ mode.predictor # "STATIC_TAKEN"
                       /\ pc' = IF if_id'.predicted_outcome
                                THEN if_id'.predicted_target
                                ELSE if_id'.pc_inc
           /\ pc < program_size \/ pc >= program_size
<1>1. ~ID_EX_Bubble.is_valid /\ ~IF_ID_Bubble.is_valid
  BY DEF ID_EX_Bubble, IF_ID_Bubble
<1>2. /\ stall_request => if_id.is_valid /\ ~Mispredicted
      /\ Mispredicted => if_id.is_valid
      /\ ~Mispredicted => PcAfterDecode = pc
  BY DEF stall_request, Decodes, Mispredicted, ResolvesBranch, PcAfterDecode
<1>3. /\ pc < program_size \/ pc >= program_size
      /\ ~(pc < program_size /\ pc >= program_size)
  <2>1. pc \in Word /\ program_size \in Word
    BY LoadedText DEF TypeOK
  <2>2. QED
    BY <2>1, WordFacts
<1>4. ~stall_request => /\ id_ex'.is_valid <=> if_id.is_valid
                        /\ if_id.is_valid => id_ex' = Decoded(FALSE)
  <2>1. CASE if_id.is_valid /\ ~stall_request
    BY <2>1, DecodedFields DEF Step, Decode_Stage
  <2>2. CASE ~if_id.is_valid
    BY <1>1, <2>2 DEF Step, Decode_Stage
  <2>3. QED
    BY <2>1, <2>2
<1>5. CASE stall_request
  BY <1>1, <1>2, <1>3, <1>5 DEF Step, Fetches, Fetch_Stage, Decode_Stage
<1>6. CASE ~stall_request /\ Mispredicted
  <2>1. ~if_id'.is_valid /\ pc' = PcAfterDecode
    BY <1>1, <1>6 DEF Step, Fetches, Fetch_Stage
  <2>2. QED
    BY <1>2, <1>3, <1>4, <1>6, <2>1
<1>7. CASE ~stall_request /\ ~Mispredicted /\ pc < program_size
  <2>1. Fetches /\ PcAfterDecode = pc
    BY <1>2, <1>7 DEF Fetches
  <2>2. /\ if_id'.is_valid /\ if_id'.inst = prog.text[pc + 1]
        /\ if_id'.pc = pc /\ if_id'.pc_inc = UpdateProgramCounter(pc, 1)
        /\ if_id'.predicted_outcome = predict_taken
        /\ predict_taken => if_id'.predicted_target = BtbAfterDecode[pc]
    BY <1>7, <2>1 DEF Step, Fetch_Stage
  <2>3. pc' = IF predict_taken THEN BtbAfterDecode[pc]
                               ELSE UpdateProgramCounter(pc, 1)
    BY <2>1 DEF Step, next_pc_val
  <2>4. if_id'.predicted_outcome => /\ BtbAfterDecode[pc] # NoTarget
                                    /\ mode.predictor # "STATIC_TAKEN"
    BY <2>1, <2>2 DEF predict_taken, getPrediction
  <2>5. pc' = IF if_id'.predicted_outcome THEN if_id'.predicted_target
                                          ELSE if_id'.pc_inc
    BY <2>2, <2>3
  <2>6. QED
    BY <1>3, <1>4, <1>7, <2>2, <2>4, <2>5
<1>8. CASE ~stall_request /\ ~Mispredicted /\ pc >= program_size
  <2>1. ~Fetches /\ PcAfterDecode = pc
    BY <1>2, <1>3, <1>8 DEF Fetches
  <2>2. ~if_id'.is_valid /\ pc' = pc
    BY <1>1, <1>8, <2>1 DEF Step, Fetch_Stage
  <2>3. QED
    BY <1>3, <1>4, <1>8, <2>2
<1>9. QED
  BY <1>3, <1>5, <1>6, <1>7, <1>8

\* A branch is recorded at its own PC: the buffer stays one of the program.
LEMMA StepBuffer ==
    ASSUME IInv, Step
    PROVE  BufferTrusted'
<1>1. TypeOK /\ btb \in Btb /\ IfIdFromProgram /\ BufferTrusted
  BY DEF IInv
<1>2. UNCHANGED <<mode, prog>> /\ btb' = BtbAfterDecode
  BY DEF Step
<1>3. SUFFICES ASSUME mode.predictor # "STATIC_TAKEN",
                      NEW a \in Word, btb'[a] # NoTarget
               PROVE  a < program_size /\ branch(prog.text[a + 1].op)
  BY <1>2 DEF BufferTrusted, program_size
<1>4. CASE btb[a] # NoTarget
  BY <1>1, <1>3, <1>4 DEF BufferTrusted
<1>5. CASE btb[a] = NoTarget
  <2>1. ResolvesBranch /\ a = if_id.pc
    BY <1>1, <1>2, <1>3, <1>5 DEF BtbAfterDecode, Btb
  <2>2. QED
    BY <1>1, <2>1 DEF ResolvesBranch, Decodes, IfIdFromProgram
<1>6. QED
  BY <1>4, <1>5

\* Step keeps IF/ID and the PC in line with the text, with the predictions and
\* with the instructions they are made for.
LEMMA StepIfId ==
    ASSUME IInv, Step
    PROVE  IfIdFromProgram' /\ FetchPredicted' /\ OnlyBranchesPredicted'
<1>1. /\ TypeOK /\ IfIdFromProgram /\ FetchPredicted /\ OnlyBranchesPredicted
      /\ UNCHANGED <<mode, prog>> /\ btb' = BtbAfterDecode
  BY DEF IInv, Step
<1>2. SUFFICES ASSUME if_id'.is_valid
               PROVE  IfIdFromProgram' /\ FetchPredicted' /\ OnlyBranchesPredicted'
  BY DEF IfIdFromProgram, FetchPredicted, OnlyBranchesPredicted
<1>3. CASE stall_request
  BY <1>1, <1>3, FrontEnd
  DEF IfIdFromProgram, FetchPredicted, OnlyBranchesPredicted, program_size
<1>4. CASE ~stall_request
  <2>1. ~Mispredicted /\ pc < program_size
    BY <1>1, <1>2, <1>4, FrontEnd
  <2>2. IfIdFromProgram' /\ FetchPredicted'
    BY <1>1, <1>4, <2>1, FrontEnd
    DEF IfIdFromProgram, FetchPredicted, program_size
  <2>3. ASSUME if_id'.predicted_outcome
        PROVE  branch(if_id'.inst.op)
    <3>1. BtbAfterDecode[pc] # NoTarget /\ mode.predictor # "STATIC_TAKEN"
      BY <1>1, <1>4, <2>1, <2>3, FrontEnd
    <3>2. pc \in Word
      BY <1>1 DEF TypeOK
    <3>3. branch(prog.text[pc + 1].op)
      BY <1>1, <3>1, <3>2, StepBuffer DEF BufferTrusted
    <3>4. QED
      BY <1>1, <1>4, <2>1, <3>3, FrontEnd
  <2>4. QED
    BY <2>2, <2>3 DEF OnlyBranchesPredicted
<1>5. QED
  BY <1>3, <1>4

\* What leaves decode: nothing, or the instruction in IF/ID.
LEMMA StepDecodes ==
    ASSUME TypeOK, Step, id_ex'.is_valid
    PROVE  if_id.is_valid /\ id_ex' = Decoded(FALSE) /\ ~stall_request
BY FrontEnd, BranchTypes DEF TypeOK, IF_ID_Reg

\* What execute passes on.
LEMMA StepPasses ==
    ASSUME TypeOK, Step
    PROVE  /\ ex_mem'.is_valid = id_ex.is_valid
           /\ ex_mem'.op = IF id_ex.is_valid THEN id_ex.op ELSE "nop"
           /\ id_ex.is_valid /\ ~is_nop(id_ex.op) =>
                  ex_mem'.rd_index = id_ex.rd_index
           /\ mem_wb'.op = IF ex_mem.is_valid THEN ex_mem.op ELSE "nop"
           /\ ex_mem.is_valid => mem_wb'.rd_index = ex_mem.rd_index
BY DEF Step, TypeOK, ID_EX_Reg, Execute_Stage, EX_MEM_Bubble, is_nop,
       Memory_Stage, MEM_WB_Bubble

\* What fetch goes on with behind the instruction that leaves decode: where it
\* had predicted to, corrected by decode.
LEMMA StepPath ==
    ASSUME IInv, Step, id_ex'.is_valid
    PROVE  NextFetched' = IF branch(if_id.inst.op) /\ actual_taken
                          THEN actual_target
                          ELSE if_id.pc_inc
<1>1. /\ TypeOK /\ FetchPredicted /\ OnlyBranchesPredicted
  BY DEF IInv
<1>2. if_id.is_valid /\ ~stall_request
  BY <1>1, StepDecodes
<1>3. ResolvesBranch <=> branch(if_id.inst.op)
  BY <1>2 DEF ResolvesBranch, Decodes, is_nop, branch, CondBranch
<1>4. CASE Mispredicted
  <2>1. NextFetched' = PcAfterDecode
    BY <1>1, <1>2, <1>4, FrontEnd DEF NextFetched
  <2>2. QED
    BY <1>3, <1>4, <2>1 DEF PcAfterDecode, Mispredicted
<1>5. CASE ~Mispredicted
  <2>1. NextFetched' = pc
    BY <1>1, <1>2, <1>5, FrontEnd DEF NextFetched
  <2>2. pc = IF if_id.predicted_outcome THEN if_id.predicted_target
                                        ELSE if_id.pc_inc
    BY <1>1, <1>2 DEF FetchPredicted
  <2>3. CASE branch(if_id.inst.op)
    BY <1>3, <1>5, <2>1, <2>2, <2>3 DEF Mispredicted, prediction_correct
  <2>4. CASE ~branch(if_id.inst.op)
    BY <1>1, <1>2, <2>1, <2>2, <2>4 DEF OnlyBranchesPredicted
  <2>5. QED
    BY <2>3, <2>4
<1>6. QED
  BY <1>4, <1>5

\* Step keeps ID/EX and EX/MEM in line with the text, and empty registers
\* without a signal.
LEMMA StepIdEx ==
    ASSUME IInv, Step
    PROVE  /\ IdExFromProgram' /\ BubblesIdle' /\ ExMemFromProgram'
           /\ SequentialUnlessBranch' /\ ZeroRegister'
<1>1. /\ TypeOK /\ IfIdFromProgram /\ IdExFromProgram /\ BubblesIdle
      /\ ZeroRegister
  BY DEF IInv
<1>2. regs' = WriteBack_Stage /\ prog' = prog /\ mem_wb' = Memory_Stage
      /\ ex_mem' = Execute_Stage
  BY DEF Step
<1>3. ~id_ex'.is_valid => id_ex' = ID_EX_Bubble
  BY DEF Step, Decode_Stage, Decoded, ID_EX_Bubble
<1>4. IdExFromProgram'
  <2>1. CASE id_ex'.is_valid
    BY <1>1, <1>2, <2>1, StepDecodes, IdExAfter
  <2>2. CASE ~id_ex'.is_valid
    BY <2>2 DEF IdExFromProgram
  <2>3. QED
    BY <2>1, <2>2
<1>5. BubblesIdle'
  BY <1>1, <1>2, <1>3, BubblesAfter
<1>6. ExMemFromProgram'
  <2>1. SUFFICES ASSUME ex_mem'.is_valid, ~is_nop(ex_mem'.op)
                 PROVE  \E k \in DOMAIN prog.text :
                            /\ prog.text[k].op = ex_mem'.op
                            /\ prog.text[k].rd = ex_mem'.rd_index
    BY <1>2 DEF ExMemFromProgram
  <2>2. /\ id_ex.is_valid /\ ex_mem'.op = id_ex.op
        /\ ex_mem'.rd_index = id_ex.rd_index
    BY <1>1, <2>1, StepPasses
  <2>3. /\ id_ex.op = prog.text[id_ex.pc + 1].op
        /\ id_ex.rd_index = prog.text[id_ex.pc + 1].rd
        /\ id_ex.pc \in Word /\ id_ex.pc < program_size
    BY <1>1, <2>1, <2>2 DEF IdExFromProgram, TypeOK, ID_EX_Reg
  <2>4. id_ex.pc + 1 \in DOMAIN prog.text
    BY <1>1, <2>3, LoadedText
  <2>5. QED
    BY <2>2, <2>3, <2>4
<1>7. SequentialUnlessBranch'
  <2>1. SUFFICES ASSUME id_ex'.is_valid, ~branch(id_ex'.op)
                 PROVE  NextFetched' = id_ex'.pc_inc
    BY DEF SequentialUnlessBranch
  <2>2. id_ex'.op = if_id.inst.op /\ id_ex'.pc_inc = if_id.pc_inc
    BY <1>1, <2>1, StepDecodes, DecodedFields
  <2>3. QED
    BY <2>1, <2>2, StepPath
<1>8. ZeroRegister'
  BY <1>1, <1>2, ZeroTypes
  DEF ZeroRegister, WriteBack_Stage, WriteGpr, TypeOK, MEM_WB_Reg
<1>9. QED
  BY <1>4, <1>5, <1>6, <1>7, <1>8

\* If nothing is predicted taken, the flush of a jump keeps a cycle of distance
\* behind it.
LEMMA StepJumps ==
    ASSUME IInv, Step
    PROVE  JumpsAlone'
<1>1. TypeOK /\ JumpsAlone /\ mode' = mode
  BY DEF IInv, Step
<1>2. SUFFICES ASSUME mode.predictor = "STATIC_TAKEN"
               PROVE  JumpsAlone'
  BY <1>1 DEF JumpsAlone
<1>3. if_id'.is_valid => ~if_id'.predicted_outcome
  BY <1>1, <1>2, FrontEnd DEF JumpsAlone
<1>4. ASSUME id_ex'.is_valid, id_ex'.op \in {"jal", "jalr"}
      PROVE  ~if_id'.is_valid
  <2>1. /\ if_id.is_valid /\ ~stall_request
        /\ if_id.inst.op \in {"jal", "jalr"}
    BY <1>1, <1>4, StepDecodes, DecodedFields
  <2>2. ResolvesBranch /\ actual_taken
    BY <2>1 DEF ResolvesBranch, Decodes, is_nop, branch, actual_taken
  <2>3. ~if_id.predicted_outcome
    BY <1>1, <1>2, <2>1 DEF JumpsAlone
  <2>4. Mispredicted
    BY <2>2, <2>3 DEF Mispredicted, prediction_correct
  <2>5. QED
    BY <1>1, <2>1, <2>4, FrontEnd
<1>5. ASSUME ex_mem'.op \in {"jal", "jalr"}
      PROVE  ~id_ex'.is_valid
  <2>1. id_ex.is_valid /\ id_ex.op \in {"jal", "jalr"}
    BY <1>1, <1>5, StepPasses
  <2>2. ~if_id.is_valid
    BY <1>1, <1>2, <2>1 DEF JumpsAlone
  <2>3. QED
    BY <1>1, <2>2, StepDecodes
<1>6. QED
  BY <1>3, <1>4, <1>5 DEF JumpsAlone

\* What decode lets through reads nothing that execute would miss, links apart.
LEMMA StepHazards ==
    ASSUME IInv, Step
    PROVE  HazardsResolved'
<1>1. TypeOK /\ BubblesIdle /\ mode' = mode
  BY DEF IInv, Step
<1>2. SUFFICES ASSUME id_ex'.is_valid, ~is_nop(id_ex'.op)
               PROVE  HazardsResolved'
  BY DEF HazardsResolved, ExecuteReads
<1>3. if_id.is_valid /\ id_ex' = Decoded(FALSE) /\ ~stall_request
  BY <1>1, <1>2, StepDecodes
<1>4. /\ Decodes /\ id_ex'.op = if_id.inst.op
      /\ id_ex'.rs1_index = rs1_index(if_id.inst)
      /\ id_ex'.rs2_index = rs2_index(if_id.inst)
  BY <1>2, <1>3, DecodedFields DEF Decodes
<1>5. ~reg_write("nop") /\ ~mem_read("nop")
  BY DEF reg_write, mem_read
<1>6. reg_write(ex_mem'.op) =>
          reg_write(id_ex.op) /\ ex_mem'.rd_index = id_ex.rd_index
  BY <1>1, <1>5, StepPasses DEF is_nop
<1>7. mem_read(ex_mem'.op) => mem_read(id_ex.op)
  BY <1>1, <1>5, StepPasses
<1>8. reg_write(mem_wb'.op) =>
          reg_write(ex_mem.op) /\ mem_wb'.rd_index = ex_mem.rd_index
  BY <1>1, <1>5, StepPasses
<1>9. ASSUME mode.forwarding, mem_read(ex_mem'.op), ExecuteReads(ex_mem)'
      PROVE  FALSE
  <2>1. detectLoadUseHazard(if_id.inst.op, rs1_index(if_id.inst),
                            rs2_index(if_id.inst), id_ex)
    BY <1>4, <1>6, <1>7, <1>9 DEF detectLoadUseHazard, ExecuteReads
  <2>2. QED
    BY <1>3, <1>4, <1>9, <2>1 DEF stall_request
<1>10. ASSUME ~mode.forwarding, ExecuteReads(ex_mem)' \/ ExecuteReads(mem_wb)'
       PROVE  FALSE
  <2>1. detectDataHazard(if_id.inst.op, rs1_index(if_id.inst),
                         rs2_index(if_id.inst), id_ex, ex_mem)
    BY <1>4, <1>6, <1>8, <1>10 DEF detectDataHazard, ExecuteReads
  <2>2. QED
    BY <1>3, <1>4, <1>10, <2>1 DEF stall_request
<1>11. QED
  BY <1>1, <1>9, <1>10 DEF HazardsResolved

\* One cycle keeps the invariant, whatever the links do.
LEMMA StepIInv ==
    ASSUME IInv, Step
    PROVE  IInv'
BY StepType, StepBuffer, StepIfId, StepIdEx, StepJumps, StepHazards DEF IInv

\* IInv depends on the variables only.
LEMMA StutterIInv ==
    ASSUME IInv, UNCHANGED vars
    PROVE  IInv'
BY DEF vars, machine, IInv, TypeOK, ZeroRegister, IfIdFromProgram,
       FetchPredicted, OnlyBranchesPredicted, BufferTrusted, program_size,
       IdExFromProgram, BubblesIdle, ExMemFromProgram, HazardsResolved,
       ExecuteReads, JumpsAlone, SequentialUnlessBranch, NextFetched

\* An empty pipeline with a buffer to trust satisfies it.
LEMMA EmptyPipelineID ==
    ASSUME TypeOK, btb \in Btb, ZeroRegister, BufferTrusted, BubblesIdle,
           ~if_id.is_valid, ~id_ex.is_valid, ~ex_mem.is_valid
    PROVE  IInv
BY DEF IInv, IfIdFromProgram, FetchPredicted, OnlyBranchesPredicted,
       IdExFromProgram, ExMemFromProgram, HazardsResolved, ExecuteReads,
       JumpsAlone, SequentialUnlessBranch

\* On a new machine the buffer is empty, so it is the program's from there on.
LEMMA RunInitIInv == RunInit => IInv
<1>1. SUFFICES ASSUME RunInit PROVE IInv
  OBVIOUS
<1>2. TypeOK /\ btb \in Btb
  BY <1>1, LoadedType DEF RunInit, EmptyBtb, Btb
<1>3. BufferTrusted
  BY <1>1 DEF RunInit, EmptyBtb, BufferTrusted
<1>4. ZeroRegister
  BY <1>1, ZeroTypes DEF RunInit, Loaded, ZeroRegisters, ZeroRegister
<1>5. QED
  BY <1>1, <1>2, <1>3, <1>4, NewEmpty, EmptyPipelineID DEF RunInit

\* Run on a new machine: what fetch predicts, decode corrects and the stalls hold
\* back leaves the stages in line with the program, whatever it is.
THEOREM Inductive == RunSpec => []IInv
<1>1. IInv /\ [RunNext]_vars => IInv'
  BY StepIInv, StutterIInv DEF RunNext
<1>2. QED
  BY <1>1, RunInitIInv, PTL DEF RunSpec

\* Fetch trusts the buffer before anyone has seen the instruction.  During a run
\* on a new machine it may: every entry is at the PC of a branch of the program.
THEOREM OnlyBranches == RunSpec => []OnlyBranchesPredicted
<1>1. IInv => OnlyBranchesPredicted
  BY DEF IInv
<1>2. QED
  BY <1>1, Inductive, PTL

\* An instruction that is no branch is followed by the next one of the text,
\* whatever the predictor and the buffer answered for the PCs around it.
THEOREM Sequential == RunSpec => []SequentialUnlessBranch
<1>1. IInv => SequentialUnlessBranch
  BY DEF IInv
<1>2. QED
  BY <1>1, Inductive, PTL

-----------------------------------------------------------------------------
(* Statistics                                                              *)

\* A cycle stalls, corrects a prediction or fetches, and the slot the first two
\* lose is counted.
LEMMA StepAccounts ==
    ASSUME TypeOK, TypeOK', Step, CounterMod > 2
    PROVE  CycleAccounted
<1> DEFINE n == StallIncrement
           free == pc' >= program_size /\ ~if_id'.is_valid /\ n = 0
<1>1. /\ if_id.is_valid \in BOOLEAN
      /\ if_id'.is_valid \in BOOLEAN /\ id_ex'.is_valid \in BOOLEAN
      /\ pc \in Word /\ pc' \in Word /\ program_size \in Word
  BY LoadedText DEF TypeOK, IF_ID_Reg, ID_EX_Reg
<1>2. /\ n \in 0 .. 2
      /\ n + Bit(if_id'.is_valid) + Bit(id_ex'.is_valid) =
             Bit(if_id.is_valid) + Bit(~free)
  <2>1. CASE stall_request
    <3>1. /\ ~Mispredicted /\ ~id_ex'.is_valid
          /\ if_id.is_valid /\ if_id'.is_valid
      BY <2>1, FrontEnd DEF Mispredicted, ResolvesBranch
    <3>2. n = 1 /\ ~free
      BY <2>1, <3>1 DEF StallIncrement, Bit
    <3>3. QED
      BY <3>1, <3>2 DEF Bit
  <2>2. CASE ~stall_request /\ Mispredicted
    <3>1. if_id.is_valid /\ id_ex'.is_valid /\ ~if_id'.is_valid
      BY <1>1, <2>2, FrontEnd
    <3>2. n = 1 /\ ~free
      BY <2>2, <3>1 DEF StallIncrement, Bit
    <3>3. QED
      BY <3>1, <3>2 DEF Bit
  <2>3. CASE ~stall_request /\ ~Mispredicted
    <3>1. /\ id_ex'.is_valid <=> if_id.is_valid
          /\ if_id'.is_valid <=> pc < program_size
          /\ ~if_id'.is_valid => pc' = pc
      <4>1. ~(pc < program_size /\ pc >= program_size)
        BY <1>1 DEF Word
      <4>2. QED
        BY <2>3, <4>1, FrontEnd
    <3>2. n = 0
      BY <2>3, <3>1 DEF StallIncrement, Bit
    <3>3. free <=> ~if_id'.is_valid
      BY <1>1, <3>1, <3>2 DEF Word
    <3>4. Bit(id_ex'.is_valid) = Bit(if_id.is_valid)
          /\ Bit(~free) = Bit(if_id'.is_valid)
      BY <1>1, <3>1, <3>3 DEF Bit
    <3>5. Bit(if_id.is_valid) \in {0, 1} /\ Bit(if_id'.is_valid) \in {0, 1}
      BY DEF Bit
    <3> HIDE DEF n, free
    <3>6. QED
      BY <3>2, <3>4, <3>5
  <2>4. QED
    BY <2>1, <2>2, <2>3
<1>3. DatapathStep
  BY DEF Step, DatapathStep
<1>4. /\ perf'.instructions_retired =
             Count(perf.instructions_retired, Bit(mem_wb.is_valid))
      /\ perf'.stall_cycles = Count(perf.stall_cycles, n)
  BY DEF Step, PerfAfterStep
<1> HIDE DEF n
<1>5. QED
  BY <1>2, <1>3, <1>4, FrontEndAccounts

\* Instructions retired, stall cycles and the instructions in the pipeline add up
\* to the cycles in which there was something to fetch: Step counts a stall and
\* the fetch a correction suppresses, each once, whatever the buffer holds.
THEOREM StatisticsAddUp ==
    ASSUME CounterMod > 2
    PROVE  /\ Spec => CyclesAccounted
           /\ RunSpec => CyclesAccounted
<1> DEFINE Cycle == status' \in {"VM_STEP_COMPLETED", "VM_PROGRAM_END"}
                        => CycleAccounted
<1>1. TypeOK /\ TypeOK' /\ [Next]_vars => [Cycle]_vars
  <2>1. SUFFICES ASSUME TypeOK, TypeOK', Next
                 PROVE  Cycle \/ UNCHANGED vars
    OBVIOUS
  <2>2. CASE Step
    BY <2>1, <2>2, StepAccounts
  <2>3. CASE Reset
    BY <2>3 DEF Reset, ResetMachine
  <2>4. ASSUME NEW p \in Programs, LoadProgram(p)
        PROVE  Cycle
    BY <2>4 DEF LoadProgram, LoadMachine
  <2>5. QED
    BY <2>1, <2>2, <2>3, <2>4 DEF Next
<1>2. [RunNext]_vars => [Next]_vars
  BY DEF RunNext, Next
<1>3. IInv => TypeOK
  BY DEF IInv
<1>4. Spec => CyclesAccounted
  BY <1>1, TypeCorrect, PTL DEF Spec, CyclesAccounted
<1>5. RunSpec => CyclesAccounted
  BY <1>1, <1>2, <1>3, Inductive, PTL DEF RunSpec, CyclesAccounted
<1>6. QED
  BY <1>4, <1>5

-----------------------------------------------------------------------------
(* Sessions, if nothing is ever predicted taken                            *)

\* The predictor of this configuration, StaticTakenPredictor, says not taken.
NeverPredicts == \A m \in Modes : m.predictor = "STATIC_TAKEN"

\* Then stale entries of the buffer do not matter.
LEMMA NextIInv ==
    ASSUME NeverPredicts, IInv, [Next]_vars
    PROVE  IInv'
<1>1. TypeOK' /\ btb' \in Btb
  BY NextType DEF IInv
<1>2. BufferTrusted'
  BY <1>1 DEF TypeOK, NeverPredicts, BufferTrusted
<1>3. CASE Reset
  <2>1. ZeroRegister'
    BY <1>3, ZeroTypes DEF Reset, ResetMachine, ZeroRegisters, ZeroRegister
  <2>2. QED
    BY <1>1, <1>2, <1>3, <2>1, ResetEmpty
    DEF Reset, IInv, IfIdFromProgram, FetchPredicted, OnlyBranchesPredicted,
        IdExFromProgram, ExMemFromProgram, HazardsResolved, ExecuteReads,
        JumpsAlone, SequentialUnlessBranch, BubblesIdle
<1>4. ASSUME NEW p \in Programs, prog = NoProgram, LoadProgram(p)
      PROVE  IInv'
  <2>1. program_size = 0
    BY <1>4 DEF program_size, NoProgram
  <2>2. if_id.pc \in Nat /\ id_ex.pc \in Nat
    BY WordFacts DEF IInv, TypeOK, IF_ID_Reg, ID_EX_Reg, Word
  <2>3. ~if_id.is_valid /\ ~id_ex.is_valid
    BY <2>1, <2>2 DEF IInv, IfIdFromProgram, IdExFromProgram
  <2>4. ~ex_mem.is_valid
    BY <1>4 DEF IInv, BubblesIdle
  <2>5. UNCHANGED <<regs, if_id, id_ex, ex_mem, mem_wb>>
    BY <1>4 DEF LoadProgram, LoadMachine
  <2>6. BubblesIdle' /\ ZeroRegister'
    BY <2>4, <2>5 DEF IInv, BubblesIdle, ZeroRegister
  <2>7. QED
    BY <1>1, <1>2, <2>3, <2>4, <2>5, <2>6
    DEF IInv, IfIdFromProgram, FetchPredicted, OnlyBranchesPredicted,
        IdExFromProgram, ExMemFromProgram, HazardsResolved, ExecuteReads,
        JumpsAlone, SequentialUnlessBranch, BubblesIdle
<1>5. QED
  BY <1>3, <1>4, StepIInv, StutterIInv DEF Next

\* With a predictor that never predicts taken, IInv is invariant in a session.
LEMMA SessionInductive ==
    ASSUME NeverPredicts
    PROVE  Spec => []IInv
<1>1. Init => IInv
  <2>1. SUFFICES ASSUME Init PROVE IInv
    OBVIOUS
  <2>2. TypeOK /\ btb \in Btb /\ BufferTrusted
    BY <2>1, InitType DEF Init, EmptyBtb, Btb, BufferTrusted
  <2>3. ZeroRegister
    BY <2>1, ZeroTypes DEF Init, InitMachine, ZeroRegisters, ZeroRegister
  <2>4. QED
    BY <2>1, <2>2, <2>3, NewEmpty, EmptyPipelineID DEF Init
<1>2. IInv /\ [Next]_vars => IInv'
  BY NextIInv
<1>3. QED
  BY <1>1, <1>2, PTL DEF Spec

-----------------------------------------------------------------------------
(* Operands, if links are harmless                                         *)

\* A link in EX/MEM is one of the program.
LEMMA LinkInMemory ==
    ASSUME IInv, LinksHarmless, mode.forwarding,
           ex_mem.op \in {"jal", "jalr"}, ex_mem.rd_index # 0
    PROVE  /\ mode.predictor = "STATIC_TAKEN"
           /\ \A k \in DOMAIN prog.text :
                  branch(prog.text[k].op) =>
                      ~Reads(prog.text[k].op, rs1_index(prog.text[k]),
                             rs2_index(prog.text[k]), ex_mem.rd_index)
<1>1. TypeOK /\ BubblesIdle /\ ExMemFromProgram
  BY DEF IInv
<1>2. ex_mem.is_valid /\ ~is_nop(ex_mem.op)
  BY <1>1 DEF BubblesIdle, is_nop
<1>3. mode \in Modes /\ prog \in Programs
  BY <1>1, <1>2 DEF TypeOK, BubblesIdle
<1>4. PICK j \in DOMAIN prog.text : /\ prog.text[j].op = ex_mem.op
                                    /\ prog.text[j].rd = ex_mem.rd_index
  BY <1>1, <1>2 DEF ExMemFromProgram
<1>5. QED
  BY <1>3, <1>4 DEF LinksHarmless

\* The invariant contains the one all five-stage machines share.
LEMMA SharedInvariant ==
    ASSUME IInv, LinksHarmless
    PROVE  DatapathInv
<1>1. /\ TypeOK /\ HazardsResolved /\ JumpsAlone
  BY DEF IInv
<1>2. ASSUME mode.forwarding, ExecuteReads(ex_mem)
      PROVE  wb_src(ex_mem.op) = "WB_FROM_ALU"
  <2>1. id_ex.is_valid /\ reg_write(ex_mem.op) /\ ex_mem.rd_index # 0
    BY <1>2 DEF ExecuteReads
  <2>2. ~mem_read(ex_mem.op)
    BY <1>1, <1>2 DEF HazardsResolved
  <2>3. ex_mem.op \notin {"jal", "jalr"}
    BY <1>1, <1>2, <2>1, LinkInMemory DEF JumpsAlone
  <2>4. QED
    BY <2>1, <2>2, <2>3 DEF reg_write, mem_read, wb_src
<1>3. OperandsReady
  BY <1>1, <1>2 DEF OperandsReady, HazardsResolved
<1>4. QED
  BY <1>3 DEF IInv, DatapathInv

\* A register a branch in decode reads: the value it gets is the architectural
\* one, and the instruction in execute does not write it.
LEMMA DecodeRead ==
    ASSUME IInv, LinksHarmless, ResolvesBranch, NEW rs \in Reg,
           rs \in {rs1_index(if_id.inst), rs2_index(if_id.inst)},
           Reads(if_id.inst.op, rs1_index(if_id.inst), rs2_index(if_id.inst),
                 rs)
    PROVE  /\ BranchOperand(rs) = AbsRegs[rs]
           /\ rs # 0 => ~(reg_write(id_ex.op) /\ id_ex.rd_index = rs)
<1> DEFINE i == if_id.inst
<1>1. /\ DatapathInv /\ TypeOK /\ BubblesIdle /\ ZeroRegister
      /\ IfIdFromProgram
  BY SharedInvariant DEF IInv
<1>2. Decodes /\ ~stall_request /\ branch(i.op)
  BY DEF ResolvesBranch
<1>3. ~reg_write("nop") /\ ~mem_read("nop")
  BY DEF reg_write, mem_read
<1>4. /\ reg_write(ex_mem.op) => ex_mem.is_valid
      /\ reg_write(mem_wb.op) => mem_wb.is_valid
      /\ reg_write(id_ex.op) => id_ex.is_valid
  BY <1>1, <1>3 DEF BubblesIdle
<1>5. CASE rs = 0
  <2>1. WriteBack_Stage[rs] = 0 /\ AbsRegs[rs] = 0
    BY <1>1, <1>5, RegisterRead DEF ZeroRegister
  <2>2. QED
    BY <1>5, <2>1 DEF BranchOperand, getForwardedIdReg
<1>6. CASE rs # 0 /\ mode.forwarding
  <2>1. ~(reg_write(id_ex.op) /\ id_ex.rd_index = rs)
    BY <1>2, <1>4, <1>6 DEF stall_request, BranchWaitsFor
  <2>2. CASE reg_write(ex_mem.op) /\ ex_mem.rd_index = rs
    <3>1. ~mem_read(ex_mem.op)
      BY <1>2, <1>4, <1>6, <2>2 DEF stall_request, BranchWaitsFor
    <3>2. ex_mem.op \notin {"jal", "jalr"}
      <4>1. if_id.pc \in Word /\ if_id.pc < program_size
            /\ i = prog.text[if_id.pc + 1]
        BY <1>1, <1>2 DEF TypeOK, IF_ID_Reg, IfIdFromProgram, Decodes
      <4>2. if_id.pc + 1 \in DOMAIN prog.text
        BY <1>1, <4>1, LoadedText
      <4>3. QED
        BY <1>2, <1>6, <2>2, <4>1, <4>2, LinkInMemory
    <3>3. wb_src(ex_mem.op) = "WB_FROM_ALU"
      BY <2>2, <3>1, <3>2 DEF reg_write, mem_read, wb_src
    <3>4. AbsRegs[rs] = ex_mem.alu_result
      BY <1>1, <1>4, <1>6, <2>2, <3>1, <3>3, RegisterRead
      DEF getWriteBackData, Memory_Stage
    <3>5. BranchOperand(rs) = ex_mem.alu_result
      BY <1>4, <1>6, <2>2 DEF BranchOperand, getForwardedIdReg
    <3>6. QED
      BY <2>1, <3>4, <3>5
  <2>3. CASE ~(reg_write(ex_mem.op) /\ ex_mem.rd_index = rs)
    <3>1. AbsRegs[rs] = WriteBack_Stage[rs]
      BY <1>1, <2>3, RegisterRead
    <3>2. BranchOperand(rs) = WriteBack_Stage[rs]
      BY <1>1, <1>4, <1>6, <2>3, RegisterRead
      DEF BranchOperand, getForwardedIdReg
    <3>3. QED
      BY <2>1, <3>1, <3>2
  <2>4. QED
    BY <2>2, <2>3
<1>7. CASE rs # 0 /\ ~mode.forwarding
  <2>1. /\ ~(reg_write(id_ex.op) /\ id_ex.rd_index = rs)
        /\ ~(reg_write(ex_mem.op) /\ ex_mem.rd_index = rs)
    BY <1>2, <1>7 DEF stall_request, detectDataHazard
  <2>2. AbsRegs[rs] = WriteBack_Stage[rs]
    BY <1>1, <2>1, RegisterRead
  <2>3. QED
    BY <1>7, <2>1, <2>2 DEF BranchOperand
<1>8. QED
  BY <1>5, <1>6, <1>7

\* The operands of a branch in decode, by their names.
LEMMA BranchOperands ==
    ASSUME IInv, LinksHarmless, Resolves1
    PROVE  LET i == if_id.inst IN
           /\ i.rs1 \in Reg /\ i.rs2 \in Reg
           /\ rs1_index(i) = i.rs1
           /\ val1 = AbsRegs[i.rs1]
           /\ i.rs1 # 0 => ~(reg_write(id_ex.op) /\ id_ex.rd_index = i.rs1)
           /\ i.op \in CondBranch =>
                 /\ rs2_index(i) = i.rs2
                 /\ val2 = AbsRegs[i.rs2]
                 /\ i.rs2 # 0 =>
                       ~(reg_write(id_ex.op) /\ id_ex.rd_index = i.rs2)
<1> DEFINE i == if_id.inst
<1>1. ResolvesBranch /\ i.op \in CondBranch \cup {"jalr"}
  BY DEF Resolves1, ResolvesBranch, branch
<1>2. i.rs1 \in Reg /\ i.rs2 \in Reg
  BY DEF IInv, TypeOK, IF_ID_Reg, Instr
<1>3. rs1_index(i) = i.rs1 /\ (i.op \in CondBranch => rs2_index(i) = i.rs2)
  BY <1>1 DEF rs1_index, rs2_index, CondBranch
<1>4. rs1_reqd(i.op) /\ (i.op \in CondBranch => rs2_reqd(i.op))
  BY <1>1 DEF rs1_reqd, alu_src_a, rs2_reqd, branch, CondBranch
<1>5. QED
  BY <1>1, <1>2, <1>3, <1>4, DecodeRead DEF val1, val2, Reads

\* Provided links are harmless, a branch is decided on the values the single-cycle
\* machine compares: the stalls particular to decode and the forwarding into it
\* leave no operand stale, in any run of any program.
THEOREM BranchOperandsCorrect ==
    ASSUME LinksHarmless
    PROVE  RunSpec => []BranchOperandsArchitectural
<1>1. ASSUME IInv
      PROVE  BranchOperandsArchitectural
  <2>1. SUFFICES ASSUME Resolves1
                 PROVE  BranchOperandsArchitectural
    BY DEF BranchOperandsArchitectural
  <2>2. ~rs2_reqd("jalr")
    BY DEF rs2_reqd, alu_src_b, mem_write, branch
  <2>3. if_id.inst.op \in CondBranch \cup {"jalr"}
    BY <2>1 DEF Resolves1, ResolvesBranch, branch
  <2>4. QED
    BY <1>1, <2>1, <2>2, <2>3, BranchOperands
    DEF BranchOperandsArchitectural, Reads
<1>2. QED
  BY <1>1, Inductive, PTL

\* Under the same condition execute works on architectural register values.
THEOREM OperandsCorrect ==
    ASSUME LinksHarmless
    PROVE  RunSpec => []OperandsArchitectural
<1>1. IInv => OperandsArchitectural
  BY SharedInvariant, OperandsFollow
<1>2. QED
  BY <1>1, Inductive, PTL

\* And the forwarding path from EX/MEM to execute is never used for a load or a
\* link.
THEOREM ForwardingCorrect ==
    ASSUME LinksHarmless
    PROVE  RunSpec => []ExMemResultForwardable
<1>1. IInv => ExMemResultForwardable
  BY SharedInvariant, OperandsFollow
<1>2. QED
  BY <1>1, Inductive, PTL

-----------------------------------------------------------------------------
(* The architectural path                                                  *)

\* The lemmas about the instruction in execute, of the next state.
LEMMA ExecutingNext ==
    (DatapathInv /\ id_ex.is_valid =>
        /\ id_ex.op = Executing.op
        /\ Executing \in Instr
        /\ id_ex.op \in CondBranch \cup {"jalr"} =>
               data_alu_a = AbsRegs[Executing.rs1]
        /\ id_ex.op \in CondBranch => data_alu_b = AbsRegs[Executing.rs2]
        /\ data_alu_a \in Word /\ data_alu_b \in Word
        /\ SC!NextPc(Executing) =
              CASE id_ex.op = "jalr" -> execution_result
                [] id_ex.op = "jal" ->
                      UpdateProgramCounter(id_ex.pc, id_ex.immediate)
                [] /\ id_ex.op \in CondBranch
                   /\ BranchOutcome(id_ex.op, execution_result) ->
                      UpdateProgramCounter(id_ex.pc, id_ex.immediate)
                [] OTHER -> id_ex.pc_inc)'
<1>1. DatapathInv /\ id_ex.is_valid =>
        /\ id_ex.op = Executing.op
        /\ Executing \in Instr
        /\ id_ex.op \in CondBranch \cup {"jalr"} =>
               data_alu_a = AbsRegs[Executing.rs1]
        /\ id_ex.op \in CondBranch => data_alu_b = AbsRegs[Executing.rs2]
        /\ data_alu_a \in Word /\ data_alu_b \in Word
        /\ SC!NextPc(Executing) =
              CASE id_ex.op = "jalr" -> execution_result
                [] id_ex.op = "jal" ->
                      UpdateProgramCounter(id_ex.pc, id_ex.immediate)
                [] /\ id_ex.op \in CondBranch
                   /\ BranchOutcome(id_ex.op, execution_result) ->
                      UpdateProgramCounter(id_ex.pc, id_ex.immediate)
                [] OTHER -> id_ex.pc_inc
  BY ExecutingFacts, ExecutingOperands, ExecutingNextPc, StageTypes
  DEF DatapathInv
<1>2. QED
  BY <1>1, PTL

\* The shared part of the invariant, in the next state.
LEMMA SharedNext == (IInv /\ LinksHarmless => DatapathInv)'
<1>1. IInv /\ LinksHarmless => DatapathInv
  BY SharedInvariant
<1>2. QED
  BY <1>1, PTL

\* The difference of two words is zero when they are equal only.
LEMMA SubtractionDecides ==
    ASSUME NEW a \in Word, NEW b \in Word
    PROVE  (a - b) % WordMod = 0 <=> a = b
<1>1. CASE a >= b
  BY <1>1, WordFacts DEF Word
<1>2. CASE a < b
  <2>1. (a - b) % WordMod = a - b + WordMod
    BY <1>2, WordFacts DEF Word
  <2>2. QED
    BY <1>2, <2>1, WordFacts DEF Word
<1>3. QED
  BY <1>1, <1>2, WordFacts

\* The result of the ALU operation decides a branch as the comparison in decode
\* does.
LEMMA ComparisonsAgree ==
    ASSUME NEW op \in CondBranch, NEW a \in Word, NEW b \in Word
    PROVE  BranchOutcome(op, Alu(alu_op(op), a, b)) <=>
               \/ op = "beq"  /\ a = b
               \/ op = "bne"  /\ a # b
               \/ op = "blt"  /\ Signed(a) < Signed(b)
               \/ op = "bge"  /\ Signed(a) >= Signed(b)
               \/ op = "bltu" /\ a < b
               \/ op = "bgeu" /\ a >= b
<1>1. a \in Int /\ b \in Int /\ Signed(a) \in Int /\ Signed(b) \in Int
  BY WordFacts DEF Signed
<1>2. CASE op \in {"beq", "bne"}
  BY <1>2, SubtractionDecides DEF BranchOutcome, Alu, alu_op
<1>3. CASE op \in {"blt", "bge"}
  BY <1>1, <1>3 DEF BranchOutcome, Alu, alu_op
<1>4. CASE op \in {"bltu", "bgeu"}
  BY <1>1, <1>4 DEF BranchOutcome, Alu, alu_op
<1>5. QED
  BY <1>2, <1>3, <1>4 DEF CondBranch

\* The cycle in which a branch leaves decode does not change its operands.
LEMMA OperandsKept ==
    ASSUME IInv, LinksHarmless, Step, Resolves1
    PROVE  LET i == if_id.inst IN
           /\ AbsRegs'[i.rs1] = val1
           /\ i.op \in CondBranch => AbsRegs'[i.rs2] = val2
<1> DEFINE i == if_id.inst
<1>1. TypeOK /\ DatapathStep
  BY DEF IInv, Step, DatapathStep
<1>2. AbsRegs \in [Reg -> Word]
  BY <1>1, StageTypes, WriteBackDataType, WriteGprType
  DEF AbsRegs, MEM_WB_Reg
<1>3. ASSUME NEW rs \in Reg,
             rs # 0 => ~(reg_write(id_ex.op) /\ id_ex.rd_index = rs)
      PROVE  AbsRegs'[rs] = AbsRegs[rs]
  <2>1. WriteBack_Stage' = AbsRegs
    BY <1>1, Behind
  <2>2. Memory_Stage'.is_valid /\ reg_write(Memory_Stage'.op) =>
            /\ reg_write(id_ex.op) /\ Memory_Stage'.rd_index = id_ex.rd_index
    BY <1>1 DEF DatapathStep, Memory_Stage, MEM_WB_Bubble, Execute_Stage,
                EX_MEM_Bubble, reg_write, is_nop
  <2>3. AbsRegs' = IF Memory_Stage'.is_valid /\ reg_write(Memory_Stage'.op)
                   THEN WriteGpr(AbsRegs, Memory_Stage'.rd_index,
                                 getWriteBackData(Memory_Stage'))
                   ELSE AbsRegs
    BY <2>1 DEF AbsRegs
  <2>4. QED
    BY <1>2, <1>3, <2>2, <2>3 DEF WriteGpr
<1>4. QED
  BY <1>3, BranchOperands

\* So what decode decides is what the single-cycle machine will do with it.
LEMMA StepArchitectural ==
    ASSUME IInv, LinksHarmless, Step
    PROVE  PathArchitectural'
<1> DEFINE i == if_id.inst
<1>1. SUFFICES ASSUME id_ex'.is_valid
               PROVE  NextFetched' = SC!NextPc(Executing)'
  BY DEF PathArchitectural, Executing
<1>2. DatapathInv'
  <2>1. IInv'
    BY StepIInv
  <2>2. LinksHarmless'
    BY DEF LinksHarmless
  <2>3. QED
    BY <2>1, <2>2, SharedNext
<1>3. TypeOK /\ IfIdFromProgram
  BY DEF IInv
<1>4. if_id.is_valid /\ id_ex' = Decoded(FALSE) /\ ~stall_request
  BY <1>1, <1>3, StepDecodes
<1>5. /\ id_ex'.op = i.op /\ id_ex'.pc = if_id.pc
      /\ id_ex'.pc_inc = if_id.pc_inc
      /\ ~is_nop(i.op) => id_ex'.immediate = i.imm
  BY <1>4, DecodedFields
<1>6. Executing' = i
  BY <1>3, <1>4, <1>5 DEF Executing, IfIdFromProgram, Step
<1>7. NextFetched' = IF branch(i.op) /\ actual_taken THEN actual_target
                                                     ELSE if_id.pc_inc
  BY <1>1, StepPath
<1>8. ResolvesBranch <=> branch(i.op)
  BY <1>4 DEF ResolvesBranch, Decodes, is_nop, branch, CondBranch
<1>9. CASE i.op = "jal"
  <2>1. SC!NextPc(Executing)' = UpdateProgramCounter(if_id.pc, i.imm)
    BY <1>1, <1>2, <1>5, <1>9, ExecutingNext DEF is_nop, CondBranch
  <2>2. QED
    BY <1>7, <1>9, <2>1 DEF actual_taken, actual_target, branch
<1>10. CASE i.op = "jalr"
  <2>1. SC!NextPc(Executing)' = execution_result'
    BY <1>1, <1>2, <1>5, <1>10, ExecutingNext DEF CondBranch
  <2>2. data_alu_a' = val1
    <3>1. data_alu_a' = AbsRegs'[i.rs1]
      BY <1>1, <1>2, <1>5, <1>6, <1>10, ExecutingNext
    <3>2. Resolves1
      BY <1>8, <1>10 DEF Resolves1, branch
    <3>3. QED
      BY <3>1, <3>2, OperandsKept
  <2>3. execution_result' = (val1 + i.imm) % WordMod
    BY <1>5, <1>10, <2>2
    DEF execution_result, reg1_value, reg2_value, alu_src_a, alu_src_b, alu_op,
        Alu, is_nop
  <2>4. QED
    BY <1>7, <1>10, <2>1, <2>3 DEF actual_taken, actual_target, branch
<1>11. CASE i.op \in CondBranch
  <2>1. Resolves1
    BY <1>8, <1>11 DEF Resolves1, branch, CondBranch
  <2>2. data_alu_a' = val1 /\ data_alu_b' = val2
    <3>1. data_alu_a' = AbsRegs'[i.rs1] /\ data_alu_b' = AbsRegs'[i.rs2]
      BY <1>1, <1>2, <1>5, <1>6, <1>11, ExecutingNext
    <3>2. QED
      BY <1>11, <2>1, <3>1, OperandsKept
  <2>3. execution_result' = Alu(alu_op(i.op), val1, val2)
    BY <1>5, <1>11, <2>2
    DEF execution_result, reg1_value, reg2_value, alu_src_a, alu_src_b,
        CondBranch
  <2>4. BranchOutcome(i.op, execution_result') <=> actual_taken
    BY <1>3, <1>11, <2>3, BranchTypes, ComparisonsAgree
    DEF actual_taken, CondBranch
  <2>5. SC!NextPc(Executing)' =
            IF actual_taken THEN UpdateProgramCounter(if_id.pc, i.imm)
                            ELSE if_id.pc_inc
    BY <1>1, <1>2, <1>5, <1>11, <2>4, ExecutingNext DEF CondBranch, is_nop
  <2>6. QED
    BY <1>7, <1>11, <2>5 DEF actual_target, branch, CondBranch
<1>12. CASE i.op \notin CondBranch \cup {"jal", "jalr"}
  <2>1. SC!NextPc(Executing)' = if_id.pc_inc
    BY <1>1, <1>2, <1>5, <1>12, ExecutingNext
  <2>2. QED
    BY <1>7, <1>12, <2>1 DEF branch
<1>13. QED
  BY <1>9, <1>10, <1>11, <1>12

-----------------------------------------------------------------------------
(* The refinement                                                          *)

\* No flush reaches execute: the mapped PC always moves to what is behind it.
LEMMA AbsPcAfter ==
    ASSUME IInv, Step
    PROVE  AbsPc' = NextFetched
<1>1. TypeOK
  BY DEF IInv
<1>2. CASE stall_request
  BY <1>1, <1>2, FrontEnd DEF AbsPc, NextFetched
<1>3. CASE ~stall_request /\ if_id.is_valid
  BY <1>1, <1>3, FrontEnd, DecodedFields DEF AbsPc, NextFetched
<1>4. CASE ~stall_request /\ ~if_id.is_valid
  <2>1. ~id_ex'.is_valid /\ ~Mispredicted
    BY <1>1, <1>4, FrontEnd
  <2>2. IF if_id'.is_valid THEN if_id'.pc = pc ELSE pc' = pc
    BY <1>1, <1>4, <2>1, FrontEnd
  <2>3. QED
    BY <1>4, <2>1, <2>2 DEF AbsPc, NextFetched
<1>5. QED
  BY <1>2, <1>3, <1>4

\* A cycle executes one instruction of the single-cycle machine or none.
LEMMA StepMaps ==
    ASSUME IInv, LinksHarmless, PathArchitectural, Step, UpperImmediatesAgree
    PROVE  SC!Step \/ UNCHANGED SC!vars
<1>1. DatapathInv /\ DatapathStep
  BY SharedInvariant DEF Step, DatapathStep
<1>2. CASE id_ex.is_valid
  <2>1. AbsPc' = SC!NextPc(Executing)
    BY <1>2, AbsPcAfter DEF PathArchitectural, Executing
  <2>2. QED
    BY <1>1, <1>2, <2>1, InstructionExecutes
<1>3. CASE ~id_ex.is_valid
  <2>1. AbsPc' = AbsPc
    BY <1>3, AbsPcAfter DEF AbsPc, NextFetched
  <2>2. QED
    BY <1>1, <1>3, <2>1, NothingExecutes
<1>4. QED
  BY <1>2, <1>3

\* Every step of a session is one of the single-cycle machine or leaves its state
\* alone.
LEMMA NextMaps ==
    ASSUME IInv, LinksHarmless, PathArchitectural, [Next]_vars,
           UpperImmediatesAgree
    PROVE  [SC!Next]_SC!vars
<1>1. CASE Step
  BY <1>1, StepMaps DEF SC!Next
<1>2. CASE Reset
  BY <1>2, ResetMaps DEF Reset, SC!Next
<1>3. ASSUME NEW p \in Programs, prog = NoProgram, LoadProgram(p)
      PROVE  SC!Next
  BY <1>3, SharedInvariant, LoadMaps
  DEF LoadProgram, SC!Next, SC!NoProgram, NoProgram
<1>4. CASE UNCHANGED vars
  BY <1>4, StutterMaps DEF vars
<1>5. QED
  BY <1>1, <1>2, <1>3, <1>4 DEF Next

\* PathArchitectural depends on the variables only.
LEMMA StutterArchitectural ==
    ASSUME PathArchitectural, UNCHANGED machine
    PROVE  PathArchitectural'
<1>1. AbsPc' = AbsPc /\ AbsRegs' = AbsRegs /\ NextFetched' = NextFetched
  BY StutterMaps DEF SC!vars, machine, NextFetched
<1>2. id_ex' = id_ex /\ prog' = prog
  BY DEF machine
<1>3. QED
  BY <1>1, <1>2 DEF PathArchitectural, SC!NextPc, SC!ExecutionResult

\* Run takes one program, on a new machine, through exactly the states of the
\* single-cycle machine: no prediction, correction, stall or forwarding path of
\* the machine that resolves branches in decode is visible, provided links are
\* harmless and no program holds an upper immediate that execute sign-extends
\* differently.
THEOREM RunImplements ==
    ASSUME LinksHarmless, UpperImmediatesAgree
    PROVE  RunSpec => RunImplementsSingleCycle
<1>1. RunInit => PathArchitectural
  BY NewEmpty DEF RunInit, PathArchitectural
<1>2. RunInit => SC!RunInit
  BY LoadedMaps DEF RunInit
<1>3. IInv /\ PathArchitectural /\ [RunNext]_vars => PathArchitectural'
  BY StepArchitectural, StutterArchitectural DEF RunNext, vars
<1>4. IInv /\ PathArchitectural /\ [RunNext]_vars => [SC!Step]_SC!vars
  BY StepMaps, StutterMaps DEF RunNext, vars
<1>5. QED
  BY <1>1, <1>2, <1>3, <1>4, Inductive, PTL
  DEF RunSpec, RunImplementsSingleCycle, SC!RunSpec

\* With a predictor that never predicts taken the same holds of a whole session
\* of loads, steps and resets: what the buffer keeps across a reset is never used.
THEOREM Implements ==
    ASSUME NeverPredicts, LinksHarmless, UpperImmediatesAgree
    PROVE  Spec => ImplementsSingleCycle
<1>1. Init => PathArchitectural /\ SC!Init
  BY NewEmpty, InitMaps DEF Init, PathArchitectural
<1>2. IInv /\ PathArchitectural /\ [Next]_vars => PathArchitectural'
  <2>1. SUFFICES ASSUME IInv, PathArchitectural, [Next]_vars
                 PROVE  PathArchitectural'
    OBVIOUS
  <2>2. CASE Reset
    BY <2>2, ResetEmpty DEF Reset, PathArchitectural
  <2>3. ASSUME NEW p \in Programs, prog = NoProgram, LoadProgram(p)
        PROVE  PathArchitectural'
    BY <2>1, <2>3, SharedInvariant, LoadEmpty DEF LoadProgram, PathArchitectural
  <2>4. QED
    BY <2>1, <2>2, <2>3, StepArchitectural, StutterArchitectural DEF Next, vars
<1>3. IInv /\ PathArchitectural /\ [Next]_vars => [SC!Next]_SC!vars
  BY NextMaps
<1>4. QED
  BY <1>1, <1>2, <1>3, SessionInductive, PTL
  DEF Spec, ImplementsSingleCycle, SC!Spec
==============================================================================
