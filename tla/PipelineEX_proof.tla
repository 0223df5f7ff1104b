--------------------------- MODULE PipelineEX_proof ---------------------------
(***************************************************************************)
(* RV5SEXVM implements the single-cycle machine, for every word size,      *)
(* number of registers, set of programs, hazard mode and predictor.        *)
(*                                                                         *)
(* The argument: IInv is inductive; in a state that satisfies it the       *)
(* operands execute works on are the architectural register values; so an  *)
(* instruction that leaves execute changes the architectural state as one  *)
(* step of the single-cycle machine does, and a cycle in which execute     *)
(* holds no instruction does not change it.                                *)
(***************************************************************************)
EXTENDS PipelineEXProperties, Rv5sRefinement

-----------------------------------------------------------------------------
(* Types of what the branch logic computes                                 *)

\* Branch resolution and prediction in a well-typed state.
LEMMA BranchTypes ==
    ASSUME TypeOK
    PROVE  /\ actual_outcome \in BOOLEAN
           /\ Mispredicted \in BOOLEAN /\ ExecuteFlush \in BOOLEAN
           /\ PcAfterExecute \in Word
           /\ BhtAfterExecute \in Bht
           /\ Prediction \in BOOLEAN
           /\ stall_request \in BOOLEAN /\ DecodeFlush \in BOOLEAN
           /\ PcAfterDecode \in Word
<1> USE DEF TypeOK
<1>1. actual_outcome \in BOOLEAN
  BY DEF actual_outcome
<1>2. Mispredicted \in BOOLEAN /\ ExecuteFlush \in BOOLEAN
  BY DEF Mispredicted, ExecuteFlush
<1>3. target_address \in Word
  BY StageTypes, PcType DEF target_address, ID_EX_Reg
<1>4. PcAfterExecute \in Word
  BY <1>3 DEF PcAfterExecute, ID_EX_Reg
<1>5. BhtAfterExecute \in Bht
  BY <1>1, BhtType DEF BhtAfterExecute, ID_EX_Reg
<1>6. Prediction \in BOOLEAN /\ stall_request \in BOOLEAN
      /\ DecodeFlush \in BOOLEAN
  BY DEF Prediction, stall_request, DecodeFlush
<1>7. PcAfterDecode \in Word
  BY <1>4, PcType DEF PcAfterDecode, IF_ID_Reg, Instr
<1>8. QED
  BY <1>1, <1>2, <1>4, <1>5, <1>6, <1>7

\* The stages that follow the branch logic.
LEMMA FrontEndTypes ==
    ASSUME TypeOK
    PROVE  Decode_Stage \in ID_EX_Reg /\ Fetch_Stage \in IF_ID_Reg
<1>1. Decode_Stage \in ID_EX_Reg
  BY BranchTypes, DecodedType, InitialTypes DEF Decode_Stage
<1>2. CASE Fetches
  <2>1. prog.text[PcAfterDecode + 1] \in Instr
    BY <1>2, LoadedText, BranchTypes DEF Fetches
  <2>2. UpdateProgramCounter(PcAfterDecode, 1) \in Word
    BY PcType, BranchTypes, WordFacts
  <2>3. QED
    BY <1>1, <1>2, <2>1, <2>2, BranchTypes, InitialTypes
    DEF Fetch_Stage, IF_ID_Reg, TypeOK
<1>3. CASE ~Fetches
  BY <1>1, <1>3, InitialTypes DEF Fetch_Stage, TypeOK
<1>4. QED
  BY <1>2, <1>3

\* The performance counters.
LEMMA PerfType ==
    ASSUME TypeOK
    PROVE  PerfAfterStep \in Perf
<1>1. \A b \in BOOLEAN : Bit(b) \in Nat
  BY DEF Bit
<1>2. Bit(mem_wb.is_valid) \in Nat /\ Bit(Mispredicted) \in Nat
      /\ Bit(ExecutesBranch /\ id_ex.predicted_outcome # actual_outcome) \in Nat
  BY DEF Bit
<1>3. StallIncrement \in Nat
  BY DEF Bit, StallIncrement
<1>4. QED
  BY <1>2, <1>3, CountType DEF PerfAfterStep, Perf, TypeOK

-----------------------------------------------------------------------------
(* Type correctness                                                        *)

\* Every operation keeps it so.
LEMMA NextType ==
    ASSUME TypeOK, [Next]_vars
    PROVE  TypeOK'
<1>1. CASE Step
  <2>1. pc' \in Word
    BY <1>1, BranchTypes, PcType, WordFacts DEF Step
  <2>2. QED
    BY <1>1, <2>1, BranchTypes, FrontEndTypes, PerfType, DatapathType
    DEF Step, DatapathStep
<1>2. CASE Reset
  BY <1>2, ResetType DEF Reset
<1>3. ASSUME NEW p \in Programs, LoadProgram(p)
      PROVE  TypeOK'
  BY <1>3, LoadType DEF LoadProgram
<1>4. CASE UNCHANGED vars
  BY <1>4 DEF vars, machine, TypeOK
<1>5. QED
  BY <1>1, <1>2, <1>3, <1>4 DEF Next

\* Every value the pipeline holds is of its declared type: no stage, flush or
\* reset leaves a register, a counter or the PC out of range.
THEOREM TypeCorrect == Spec => []TypeOK
<1>1. Init => TypeOK
  BY InitType DEF Init
<1>2. TypeOK /\ [Next]_vars => TypeOK'
  BY NextType
<1>3. QED
  BY <1>1, <1>2, PTL DEF Spec

-----------------------------------------------------------------------------
(* The inductive invariant                                                 *)

\* What Step makes of the two front registers: a flush empties both, a stall
\* keeps IF/ID and sends a bubble, otherwise IF/ID moves on and fetch follows.
LEMMA FrontEnd ==
    ASSUME TypeOK, Step
    PROVE  /\ ExecuteFlush => /\ ~id_ex'.is_valid /\ ~if_id'.is_valid
                              /\ pc' = PcAfterExecute
           /\ stall_request => /\ ~id_ex'.is_valid /\ if_id' = if_id
                               /\ if_id.is_valid /\ pc' = pc
           /\ ~ExecuteFlush /\ ~stall_request =>
                 /\ id_ex'.is_valid <=> if_id.is_valid
                 /\ if_id.is_valid => id_ex' = Decoded(Prediction)
                 /\ DecodeFlush => if_id.is_valid /\ ~if_id'.is_valid
                 /\ ~DecodeFlush =>
                       /\ if_id'.is_valid <=> pc < program_size
                       /\ if_id'.is_valid => if_id'.pc = pc
                       /\ ~if_id'.is_valid => pc' = pc
<1> USE DEF Step, Fetches, flush_pipeline, Fetch_Stage, Decode_Stage, Decodes
<1>1. ~ID_EX_Bubble.is_valid /\ ~IF_ID_Bubble.is_valid
  BY DEF ID_EX_Bubble, IF_ID_Bubble
<1>2. Decoded(Prediction).is_valid
  BY DEF Decoded, ID_EX_Bubble
<1>3. ExecuteFlush => ~stall_request /\ ~DecodeFlush
  BY DEF stall_request, DecodeFlush
<1>4. stall_request => if_id.is_valid /\ ~ExecuteFlush /\ ~DecodeFlush
  BY DEF stall_request, DecodeFlush
<1>5. ~ExecuteFlush => PcAfterExecute = pc
  BY DEF PcAfterExecute
<1>6. ~DecodeFlush => PcAfterDecode = PcAfterExecute
  BY DEF PcAfterDecode
<1>7. ASSUME ExecuteFlush
      PROVE  ~id_ex'.is_valid /\ ~if_id'.is_valid /\ pc' = PcAfterExecute
  BY <1>1, <1>3, <1>6, <1>7
<1>8. ASSUME stall_request
      PROVE  /\ ~id_ex'.is_valid /\ if_id' = if_id
             /\ if_id.is_valid /\ pc' = pc
  BY <1>1, <1>4, <1>5, <1>6, <1>8
<1>9. ASSUME ~ExecuteFlush, ~stall_request
      PROVE  /\ id_ex'.is_valid <=> if_id.is_valid
             /\ if_id.is_valid => id_ex' = Decoded(Prediction)
             /\ DecodeFlush => if_id.is_valid /\ ~if_id'.is_valid
             /\ ~DecodeFlush =>
                   /\ if_id'.is_valid <=> pc < program_size
                   /\ if_id'.is_valid => if_id'.pc = pc
                   /\ ~if_id'.is_valid => pc' = pc
  <2>1. /\ id_ex'.is_valid <=> if_id.is_valid
        /\ if_id.is_valid => id_ex' = Decoded(Prediction)
    BY <1>1, <1>2, <1>9 DEF TypeOK, IF_ID_Reg
  <2>2. DecodeFlush => if_id.is_valid /\ ~if_id'.is_valid
    BY <1>1, <1>9 DEF DecodeFlush
  <2>3. ASSUME ~DecodeFlush, pc < program_size
        PROVE  if_id'.is_valid /\ if_id'.pc = pc
    <3>1. Fetches /\ PcAfterDecode = pc
      BY <1>5, <1>6, <1>9, <2>3
    <3>2. QED
      BY <1>9, <3>1 DEF IF_ID_Bubble
  <2>4. ASSUME ~DecodeFlush, ~(pc < program_size)
        PROVE  ~if_id'.is_valid /\ pc' = pc
    <3>1. ~Fetches /\ PcAfterDecode = pc
      BY <1>5, <1>6, <1>9, <2>4
    <3>2. QED
      BY <1>1, <1>9, <3>1
  <2>5. QED
    BY <2>1, <2>2, <2>3, <2>4
<1>10. QED
  BY <1>7, <1>8, <1>9

\* Step keeps IF/ID in step with the program, and the PC behind it.
LEMMA StepIfId ==
    ASSUME IInv, Step
    PROVE  IfIdFromProgram' /\ FetchSequential'
<1>1. TypeOK /\ IfIdFromProgram /\ FetchSequential
  BY DEF IInv
<1>2. CASE Fetches
  BY <1>2 DEF Step, Fetches, Fetch_Stage, IF_ID_Bubble, IfIdFromProgram,
              FetchSequential, program_size
<1>3. CASE stall_request
  BY <1>1, <1>3, FrontEnd
  DEF Step, IfIdFromProgram, FetchSequential, program_size
<1>4. CASE ~Fetches /\ ~stall_request
  BY <1>4
  DEF Step, Fetch_Stage, IF_ID_Bubble, IfIdFromProgram, FetchSequential
<1>5. QED
  BY <1>2, <1>3, <1>4

\* Step keeps ID/EX in step with the program and with the register file, and
\* leaves no signal set in an empty register.
LEMMA StepIdEx ==
    ASSUME IInv, Step
    PROVE  IdExFromProgram' /\ BubblesIdle'
<1>1. TypeOK /\ IfIdFromProgram /\ IdExFromProgram
  BY DEF IInv
<1>2. DatapathStep
  BY DEF Step, DatapathStep
<1>3. ~id_ex'.is_valid => id_ex' = ID_EX_Bubble
  BY DEF Step, Decode_Stage, Decoded, ID_EX_Bubble
<1>4. ASSUME id_ex'.is_valid
      PROVE  if_id.is_valid /\ id_ex' = Decoded(Prediction)
  BY <1>1, <1>4, FrontEnd DEF TypeOK, IF_ID_Reg
<1>5. ~id_ex'.is_valid => IdExFromProgram'
  BY DEF IdExFromProgram
<1>6. id_ex'.is_valid => IdExFromProgram'
  BY <1>1, <1>2, <1>4, IdExAfter DEF DatapathStep
<1>7. QED
  BY <1>1, <1>2, <1>3, <1>5, <1>6, BubblesAfter DEF DatapathStep

\* Step keeps the predicted path.
LEMMA StepPath ==
    ASSUME IInv, Step
    PROVE  PathPredicted'
<1>1. TypeOK /\ IfIdFromProgram /\ FetchSequential
  BY DEF IInv
<1>2. SUFFICES ASSUME id_ex'.is_valid
               PROVE  PathPredicted'
  BY DEF PathPredicted
<1>3. /\ if_id.is_valid /\ id_ex' = Decoded(Prediction)
      /\ ~ExecuteFlush /\ ~stall_request
  BY <1>1, <1>2, FrontEnd DEF TypeOK, IF_ID_Reg
<1> DEFINE i == if_id.inst
<1>4. pc = if_id.pc_inc
  BY <1>1, <1>3 DEF FetchSequential
<1>5. /\ id_ex'.op = i.op
      /\ id_ex'.pc = if_id.pc /\ id_ex'.pc_inc = if_id.pc_inc
      /\ ~is_nop(i.op) => /\ id_ex'.immediate = i.imm
                          /\ id_ex'.predicted_outcome = Prediction
  BY <1>3 DEF Decoded, ID_EX_Bubble, is_nop
<1>6. DecodeFlush = Prediction
  BY <1>3, BranchTypes, <1>1 DEF DecodeFlush, Decodes
<1>7. CASE Prediction
  <2>1. branch(i.op) /\ ~is_nop(i.op)
    BY <1>7 DEF Prediction, branch, is_nop, CondBranch
  <2>2. ~if_id'.is_valid
    BY <1>1, <1>3, <1>6, <1>7, FrontEnd
  <2>3. i.op # "jalr" => pc' = UpdateProgramCounter(if_id.pc, i.imm)
    BY <1>6, <1>7 DEF Step, Fetches, flush_pipeline, PcAfterDecode
  <2>4. QED
    BY <1>5, <1>7, <2>1, <2>2, <2>3
    DEF PathPredicted, NextFetched, PredictedSuccessor
<1>8. CASE ~Prediction
  <2>1. i.op \notin {"jal", "jalr"}
    BY <1>8 DEF Prediction
  <2>2. NextFetched' = pc
    BY <1>1, <1>3, <1>6, <1>8, FrontEnd DEF NextFetched
  <2>3. branch(id_ex'.op) => ~id_ex'.predicted_outcome
    BY <1>5, <1>8, <2>1 DEF branch, is_nop, CondBranch
  <2>4. QED
    BY <1>4, <1>5, <2>1, <2>2, <2>3
    DEF PathPredicted, PredictedSuccessor
<1>9. QED
  BY <1>1, <1>7, <1>8, BranchTypes

\* Step resolves the hazards of the instruction it sends to execute.
LEMMA StepHazards ==
    ASSUME IInv, Step
    PROVE  HazardsResolved'
<1>1. TypeOK /\ IfIdFromProgram /\ PathPredicted
  BY DEF IInv
<1>2. ex_mem'.op # "nop" => /\ id_ex.is_valid /\ ex_mem'.op = id_ex.op
                            /\ ex_mem'.rd_index = id_ex.rd_index
  BY DEF Step, Execute_Stage, EX_MEM_Bubble
<1>3. mem_wb'.op # "nop" => /\ mem_wb'.op = ex_mem.op
                            /\ mem_wb'.rd_index = ex_mem.rd_index
  BY DEF Step, Memory_Stage, MEM_WB_Bubble
<1>4. ex_mem'.op \in {"jal", "jalr"} => ~id_ex'.is_valid
  <2>1. SUFFICES ASSUME ex_mem'.op \in {"jal", "jalr"}, id_ex'.is_valid
                 PROVE  FALSE
    OBVIOUS
  <2>2. id_ex.is_valid /\ id_ex.op \in {"jal", "jalr"}
    BY <1>2, <2>1
  <2>3. ~if_id.is_valid
    BY <1>1, <2>2 DEF PathPredicted
  <2>4. QED
    BY <1>1, <2>1, <2>3, FrontEnd
<1>5. ASSUME id_ex'.is_valid, ~is_nop(id_ex'.op)
      PROVE  /\ ~stall_request /\ Decodes /\ ~is_nop(if_id.inst.op)
             /\ id_ex'.op = if_id.inst.op
             /\ id_ex'.rs1_index = rs1_index(if_id.inst)
             /\ id_ex'.rs2_index = rs2_index(if_id.inst)
  <2>1. Decodes /\ ~stall_request /\ id_ex' = Decoded(Prediction)
    BY <1>5 DEF Step, Decode_Stage, ID_EX_Bubble
  <2>2. QED
    BY <1>5, <2>1 DEF Decoded, ID_EX_Bubble, is_nop
<1>6. ASSUME mode.forwarding, mem_read(ex_mem'.op), ExecuteReads(ex_mem)'
      PROVE  FALSE
  <2>1. /\ id_ex'.is_valid /\ ~is_nop(id_ex'.op) /\ ex_mem'.rd_index # 0
        /\ Reads(id_ex'.op, id_ex'.rs1_index, id_ex'.rs2_index,
                 ex_mem'.rd_index)
    BY <1>6 DEF ExecuteReads
  <2>2. mem_read(id_ex.op) /\ ex_mem'.rd_index = id_ex.rd_index
    BY <1>2, <1>6 DEF mem_read
  <2>3. detectLoadUseHazard(if_id.inst.op, rs1_index(if_id.inst),
                            rs2_index(if_id.inst), id_ex)
    BY <1>5, <2>1, <2>2 DEF detectLoadUseHazard
  <2>4. QED
    BY <1>5, <1>6, <2>1, <2>3 DEF stall_request
<1>7. ASSUME ~mode.forwarding, ExecuteReads(ex_mem)' \/ ExecuteReads(mem_wb)'
      PROVE  FALSE
  <2>1. /\ id_ex'.is_valid /\ ~is_nop(id_ex'.op)
        /\ \/ /\ reg_write(ex_mem'.op) /\ ex_mem'.rd_index # 0
              /\ Reads(id_ex'.op, id_ex'.rs1_index, id_ex'.rs2_index,
                       ex_mem'.rd_index)
           \/ /\ reg_write(mem_wb'.op) /\ mem_wb'.rd_index # 0
              /\ Reads(id_ex'.op, id_ex'.rs1_index, id_ex'.rs2_index,
                       mem_wb'.rd_index)
    BY <1>7 DEF ExecuteReads
  <2>2. ~reg_write("nop")
    BY DEF reg_write
  <2>3. detectDataHazard(if_id.inst.op, rs1_index(if_id.inst),
                         rs2_index(if_id.inst), id_ex, ex_mem)
    BY <1>2, <1>3, <1>5, <2>1, <2>2 DEF detectDataHazard
  <2>4. QED
    BY <1>5, <1>7, <2>1, <2>3 DEF stall_request
<1>8. mode' = mode
  BY DEF Step
<1>9. QED
  BY <1>4, <1>6, <1>7, <1>8 DEF HazardsResolved

\* The invariant contains the one all five-stage machines share.
LEMMA SharedInvariant == IInv => DatapathInv
BY DEF IInv, DatapathInv, OperandsReady, HazardsResolved, ExecuteReads, TypeOK,
       EX_MEM_Reg, Op, CondBranch, reg_write, mem_read, wb_src

\* An empty pipeline satisfies it: the machine after Reset, and any machine
\* without a program.
LEMMA EmptyPipelineEX ==
    ASSUME TypeOK, BubblesIdle,
           ~if_id.is_valid, ~id_ex.is_valid, ~ex_mem.is_valid
    PROVE  IInv
BY DEF IInv, IfIdFromProgram, FetchSequential, IdExFromProgram, PathPredicted,
       BubblesIdle, HazardsResolved, ExecuteReads

\* The empty pipeline satisfies it.
LEMMA InitIInv == Init => IInv
BY InitType, NewEmpty, EmptyPipelineEX DEF Init

\* Every step of a session keeps it: a cycle, a reset and a load.
LEMMA NextIInv ==
    ASSUME IInv, [Next]_vars
    PROVE  IInv'
<1>1. TypeOK'
  BY NextType DEF IInv
<1>2. CASE Step
  BY <1>1, <1>2, StepIfId, StepIdEx, StepPath, StepHazards
  DEF IInv
<1>3. ASSUME BubblesIdle',
             ~if_id'.is_valid, ~id_ex'.is_valid, ~ex_mem'.is_valid
      PROVE  IInv'
  BY <1>1, <1>3
  DEF IInv, IfIdFromProgram, FetchSequential, IdExFromProgram, PathPredicted,
      HazardsResolved, BubblesIdle, ExecuteReads
<1>4. CASE Reset
  BY <1>3, <1>4, ResetEmpty DEF Reset
<1>5. ASSUME NEW p \in Programs, prog = NoProgram, LoadProgram(p)
      PROVE  IInv'
  BY <1>3, <1>5, LoadEmpty, SharedInvariant DEF LoadProgram
<1>6. CASE UNCHANGED vars
  BY <1>1, <1>6
  DEF vars, machine, IInv, IfIdFromProgram, FetchSequential, IdExFromProgram,
      PathPredicted, BubblesIdle, HazardsResolved, ExecuteReads, program_size,
      NextFetched, PredictedSuccessor
<1>7. QED
  BY <1>2, <1>4, <1>5, <1>6 DEF Next

\* The pipeline always holds consecutive instructions of the predicted path,
\* with their operands, and no hazard decode should have stalled for.
THEOREM Inductive == Spec => []IInv
<1>1. Init => IInv
  BY InitIInv
<1>2. IInv /\ [Next]_vars => IInv'
  BY NextIInv
<1>3. QED
  BY <1>1, <1>2, PTL DEF Spec

\* The instruction behind the one in execute is its predicted successor, and a
\* jump in execute has nothing behind it: flushes and stalls never lose,
\* repeat or reorder an instruction of the predicted path.
THEOREM PredictedPath == Spec => []PathPredicted
<1>1. IInv => PathPredicted
  BY DEF IInv
<1>2. QED
  BY <1>1, Inductive, PTL

-----------------------------------------------------------------------------
(* Statistics                                                              *)

\* A jalr in execute was predicted taken and is taken.
LEMMA JalrPredicted ==
    ASSUME IInv, ExecutesBranch, id_ex.op = "jalr"
    PROVE  id_ex.predicted_outcome = actual_outcome
BY DEF IInv, PathPredicted, ExecutesBranch, actual_outcome, TypeOK, ID_EX_Reg

\* The VM, which never counts a jalr, and its predictor, which counts whenever
\* the outcome differs from the prediction, report the same number.
THEOREM MispredictionCounts == Spec => []MispredictionCountsAgree
<1>1. Init => MispredictionCountsAgree
  BY DEF Init, InitMachine, NoPerf, MispredictionCountsAgree
<1>2. ASSUME IInv, MispredictionCountsAgree, [Next]_vars
      PROVE  MispredictionCountsAgree'
  <2>1. CASE Step
    <3>1. Mispredicted <=> /\ ExecutesBranch
                           /\ id_ex.predicted_outcome # actual_outcome
      BY <1>2, JalrPredicted DEF Mispredicted
    <3>2. Bit(Mispredicted) = Bit(/\ ExecutesBranch
                                  /\ id_ex.predicted_outcome # actual_outcome)
      BY <3>1 DEF Bit
    <3>3. QED
      BY <1>2, <2>1, <3>2 DEF Step, PerfAfterStep, MispredictionCountsAgree
  <2>2. CASE Reset
    BY <2>2 DEF Reset, ResetMachine, NoPerf, MispredictionCountsAgree
  <2>3. CASE perf' = perf
    BY <1>2, <2>3 DEF MispredictionCountsAgree
  <2>4. QED
    BY <1>2, <2>1, <2>2, <2>3
    DEF Next, vars, machine, LoadProgram, LoadMachine
<1>3. QED
  BY <1>1, <1>2, Inductive, PTL DEF Spec

\* A cycle stalls, flushes or fetches, and the lost slots of each are counted.
LEMMA StepAccounts ==
    ASSUME TypeOK, TypeOK', Step, CounterMod > 2
    PROVE  CycleAccounted
<1> DEFINE n == StallIncrement
           free == pc' >= program_size /\ ~if_id'.is_valid /\ n = 0
<1>1. /\ if_id.is_valid \in BOOLEAN
      /\ if_id'.is_valid \in BOOLEAN /\ id_ex'.is_valid \in BOOLEAN
      /\ pc \in Word /\ pc' \in Word /\ program_size \in Word
  BY LoadedText DEF TypeOK, IF_ID_Reg, ID_EX_Reg
<1>2. /\ n \in 0 .. 2
      /\ n + Bit(if_id'.is_valid) + Bit(id_ex'.is_valid) =
             Bit(if_id.is_valid) + Bit(~free)
  <2>1. CASE ExecuteFlush
    <3>1. ~stall_request /\ flush_pipeline
          /\ ~id_ex'.is_valid /\ ~if_id'.is_valid
      BY <2>1, FrontEnd DEF flush_pipeline, stall_request, Decodes
    <3>2. n = 1 + Bit(if_id.is_valid)
      BY <2>1, <3>1 DEF StallIncrement, Bit
    <3>3. ~free
      BY <3>2 DEF Bit
    <3>4. QED
      BY <3>1, <3>2, <3>3 DEF Bit
  <2>2. CASE stall_request
    <3>1. /\ ~flush_pipeline /\ ~ExecuteFlush
          /\ ~id_ex'.is_valid /\ if_id.is_valid /\ if_id'.is_valid
      BY <2>2, FrontEnd
      DEF flush_pipeline, DecodeFlush, stall_request, Decodes
    <3>2. n = 1 /\ ~free
      BY <2>2, <3>1 DEF StallIncrement, Bit
    <3>3. QED
      BY <2>2, <3>1, <3>2 DEF Bit
  <2>3. CASE ~ExecuteFlush /\ ~stall_request /\ DecodeFlush
    <3>1. flush_pipeline /\ if_id.is_valid /\ id_ex'.is_valid
          /\ ~if_id'.is_valid
      BY <1>1, <2>3, FrontEnd DEF flush_pipeline
    <3>2. n = 1 /\ ~free
      BY <2>3, <3>1 DEF StallIncrement, Bit
    <3>3. QED
      BY <3>1, <3>2 DEF Bit
  <2>4. CASE ~ExecuteFlush /\ ~stall_request /\ ~DecodeFlush
    <3>1. /\ ~flush_pipeline
          /\ id_ex'.is_valid <=> if_id.is_valid
          /\ if_id'.is_valid <=> pc < program_size
          /\ ~if_id'.is_valid => pc' = pc
      BY <2>4, FrontEnd DEF flush_pipeline
    <3>2. n = 0
      BY <2>4, <3>1 DEF StallIncrement, Bit
    <3>3. free <=> ~if_id'.is_valid
      BY <1>1, <3>1, <3>2 DEF Word
    <3>4. Bit(id_ex'.is_valid) = Bit(if_id.is_valid)
          /\ Bit(~free) = Bit(if_id'.is_valid)
      BY <1>1, <3>1, <3>3 DEF Bit
    <3>5. Bit(if_id.is_valid) \in {0, 1} /\ Bit(if_id'.is_valid) \in {0, 1}
      BY DEF Bit
    <3> HIDE DEF n, free
    <3>6. QED
      BY <3>2, <3>4, <3>5
  <2>5. QED
    BY <2>1, <2>2, <2>3, <2>4
<1>3. DatapathStep
  BY DEF Step, DatapathStep
<1>4. /\ perf'.instructions_retired =
             Count(perf.instructions_retired, Bit(mem_wb.is_valid))
      /\ perf'.stall_cycles = Count(perf.stall_cycles, n)
  BY DEF Step, PerfAfterStep
<1> HIDE DEF n
<1>5. QED
  BY <1>2, <1>3, <1>4, FrontEndAccounts

\* Instructions retired, stall cycles and the instructions in the pipeline add up
\* to the cycles in which there was something to fetch: Step counts the stall,
\* the fetch a flush suppresses and the instruction it kills, each once.  A
\* counter of two values could not tell two lost slots from none.
THEOREM StatisticsAddUp ==
    ASSUME CounterMod > 2
    PROVE  Spec => CyclesAccounted
<1> DEFINE Cycle == status' \in {"VM_STEP_COMPLETED", "VM_PROGRAM_END"}
                        => CycleAccounted
<1>1. TypeOK /\ TypeOK' /\ [Next]_vars => [Cycle]_vars
  <2>1. SUFFICES ASSUME TypeOK, TypeOK', Next
                 PROVE  Cycle \/ UNCHANGED vars
    OBVIOUS
  <2>2. CASE Step
    BY <2>1, <2>2, StepAccounts
  <2>3. CASE Reset
    BY <2>3 DEF Reset, ResetMachine
  <2>4. ASSUME NEW p \in Programs, LoadProgram(p)
        PROVE  Cycle
    BY <2>4 DEF LoadProgram, LoadMachine
  <2>5. QED
    BY <2>1, <2>2, <2>3, <2>4 DEF Next
<1>2. QED
  BY <1>1, TypeCorrect, PTL DEF Spec, CyclesAccounted

-----------------------------------------------------------------------------
(* Operands                                                                *)

\* Whatever mix of forwarding, stalls and flushes is in effect, the instruction
\* in execute works on the register values the single-cycle machine would read.
THEOREM OperandsCorrect == Spec => []OperandsArchitectural
<1>1. IInv => OperandsArchitectural
  BY SharedInvariant, OperandsFollow
<1>2. QED
  BY <1>1, Inductive, PTL

\* The forwarding path from EX/MEM is never used for a load or a link.
THEOREM ForwardingCorrect == Spec => []ExMemResultForwardable
<1>1. IInv => ExMemResultForwardable
  BY SharedInvariant, OperandsFollow
<1>2. QED
  BY <1>1, Inductive, PTL

\* Decode stalls whenever execute would miss an operand, and a jump in memory has
\* nothing in execute behind it: the hazard unit and the flushes leave no hazard.
THEOREM NoHazards == Spec => []HazardsResolved
<1>1. IInv => HazardsResolved
  BY DEF IInv
<1>2. QED
  BY <1>1, Inductive, PTL

-----------------------------------------------------------------------------
(* The refinement                                                          *)

\* Where the mapped PC goes in a cycle: to the redirected PC when execute
\* flushes, otherwise to the instruction behind the one in execute.
LEMMA AbsPcAfter ==
    ASSUME IInv, Step
    PROVE  AbsPc' = IF ExecuteFlush THEN PcAfterExecute ELSE NextFetched
<1>1. TypeOK
  BY DEF IInv
<1>2. CASE ExecuteFlush
  BY <1>1, <1>2, FrontEnd DEF AbsPc
<1>3. CASE stall_request
  <2>1. ~ExecuteFlush
    BY <1>3 DEF stall_request, Decodes
  <2>2. QED
    BY <1>1, <1>3, <2>1, FrontEnd DEF AbsPc, NextFetched
<1>4. CASE ~ExecuteFlush /\ ~stall_request /\ if_id.is_valid
  <2>1. id_ex'.is_valid /\ id_ex' = Decoded(Prediction)
    BY <1>1, <1>4, FrontEnd
  <2>2. id_ex'.pc = if_id.pc
    BY <2>1 DEF Decoded, ID_EX_Bubble
  <2>3. QED
    BY <1>4, <2>1, <2>2 DEF AbsPc, NextFetched
<1>5. CASE ~ExecuteFlush /\ ~stall_request /\ ~if_id.is_valid
  <2>1. ~id_ex'.is_valid /\ ~DecodeFlush
    BY <1>1, <1>5, FrontEnd
  <2>2. AbsPc' = IF if_id'.is_valid THEN if_id'.pc ELSE pc'
    BY <2>1 DEF AbsPc
  <2>3. QED
    BY <1>1, <1>5, <2>1, <2>2, FrontEnd DEF NextFetched
<1>6. QED
  BY <1>2, <1>3, <1>4, <1>5

\* It goes where the single-cycle machine goes.
LEMMA PcFollows ==
    ASSUME IInv, Step, id_ex.is_valid
    PROVE  AbsPc' = SC!NextPc(Executing)
<1>1. DatapathInv /\ TypeOK /\ PathPredicted
  BY SharedInvariant DEF IInv
<1>2. id_ex.op \in Op
  BY <1>1, ExecutingFacts DEF Instr
<1>3. CASE ExecuteFlush
  <2>1. branch(id_ex.op)
    BY <1>3 DEF ExecuteFlush, Mispredicted, ExecutesBranch
  <2>2. AbsPc' = IF actual_outcome THEN target_address ELSE id_ex.pc_inc
    BY <1>1, <1>3, AbsPcAfter, BranchTypes DEF PcAfterExecute
  <2>3. id_ex.op = "jal" =>
            execution_result = UpdateProgramCounter(id_ex.pc, id_ex.immediate)
    BY <1>1, ExecutingResult, ExecutingFacts DEF is_nop
  <2>4. QED
    BY <1>1, <2>1, <2>2, <2>3, ExecutingNextPc
    DEF branch, actual_outcome, target_address, CondBranch
<1>4. CASE ~ExecuteFlush
  <2>1. id_ex.op # "jalr"
    BY <1>1, <1>4 DEF ExecuteFlush, ExecutesBranch, branch
  <2>2. AbsPc' = PredictedSuccessor
    BY <1>1, <1>4, <2>1, AbsPcAfter DEF PathPredicted
  <2>3. branch(id_ex.op) => id_ex.predicted_outcome = actual_outcome
    BY <1>1, <1>4, <2>1 DEF ExecuteFlush, Mispredicted, ExecutesBranch
  <2>4. QED
    BY <1>1, <2>1, <2>2, <2>3, ExecutingNextPc
    DEF PredictedSuccessor, branch, actual_outcome, CondBranch
<1>5. QED
  BY <1>3, <1>4

\* A cycle executes one instruction of the single-cycle machine or none.
LEMMA StepMaps ==
    ASSUME IInv, Step, UpperImmediatesAgree
    PROVE  SC!Step \/ UNCHANGED SC!vars
<1>1. DatapathInv /\ DatapathStep
  BY SharedInvariant DEF Step, DatapathStep
<1>2. CASE id_ex.is_valid
  BY <1>1, <1>2, PcFollows, InstructionExecutes
<1>3. CASE ~id_ex.is_valid
  <2>1. ~ExecuteFlush
    BY <1>3 DEF ExecuteFlush, Mispredicted, ExecutesBranch
  <2>2. AbsPc' = AbsPc
    BY <1>3, <2>1, AbsPcAfter DEF AbsPc, NextFetched
  <2>3. QED
    BY <1>1, <1>3, <2>2, NothingExecutes
<1>4. QED
  BY <1>2, <1>3

\* Every step of a session is one of the single-cycle machine or leaves its state
\* alone.
LEMMA NextMaps ==
    ASSUME IInv, [Next]_vars, UpperImmediatesAgree
    PROVE  [SC!Next]_SC!vars
<1>1. CASE Step
  BY <1>1, StepMaps DEF SC!Next
<1>2. CASE Reset
  BY <1>2, ResetMaps DEF Reset, SC!Next
<1>3. ASSUME NEW p \in Programs, prog = NoProgram, LoadProgram(p)
      PROVE  SC!Next
  BY <1>3, SharedInvariant, LoadMaps
  DEF LoadProgram, SC!Next, SC!NoProgram, NoProgram
<1>4. CASE UNCHANGED vars
  BY <1>4, StutterMaps DEF vars
<1>5. QED
  BY <1>1, <1>2, <1>3, <1>4 DEF Next

\* No hazard, forwarding path, prediction or flush is visible in the registers,
\* in memory or in the order of instructions: provided no program holds an
\* upper immediate that execute sign-extends differently, every behaviour of
\* RV5SEXVM is one of the single-cycle machine.
THEOREM Implements ==
    ASSUME UpperImmediatesAgree
    PROVE  Spec => ImplementsSingleCycle
<1>1. Init => SC!Init
  BY InitMaps DEF Init
<1>2. IInv /\ [Next]_vars => [SC!Next]_SC!vars
  BY NextMaps
<1>3. QED
  BY <1>1, <1>2, Inductive, PTL DEF Spec, ImplementsSingleCycle, SC!Spec

\* The same for Run: it takes one program, on a new machine, through exactly the
\* states of the single-cycle machine.
THEOREM RunImplements ==
    ASSUME UpperImmediatesAgree
    PROVE  RunSpec => RunImplementsSingleCycle
<1>1. RunInit => IInv
  BY LoadedType, NewEmpty, EmptyPipelineEX DEF RunInit
<1>2. RunInit => SC!RunInit
  BY LoadedMaps DEF RunInit
<1>3. IInv /\ [RunNext]_vars => IInv'
  BY NextIInv DEF RunNext, Next
<1>4. IInv /\ [RunNext]_vars => [SC!Step]_SC!vars
  BY StepMaps, StutterMaps DEF RunNext, vars
<1>5. QED
  BY <1>1, <1>2, <1>3, <1>4, PTL
  DEF RunSpec, RunImplementsSingleCycle, SC!RunSpec
==============================================================================
