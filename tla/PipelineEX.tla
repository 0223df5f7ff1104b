------------------------------ MODULE PipelineEX ------------------------------
(***************************************************************************)
(* RV5SEXVM: the five-stage pipeline that predicts branches in decode and  *)
(* resolves them in execute.                                               *)
(*                                                                         *)
(* One Step of the machine runs WB, MEM, EX, ID and IF, in this order, on  *)
(* the pipeline registers of the previous cycle, and then latches the next *)
(* ones.  Later stages of the same cycle see what earlier ones did: decode *)
(* reads the registers write-back has just written, the predictor execute  *)
(* has just updated, and the PC execute may have redirected.               *)
(***************************************************************************)
EXTENDS Rv5sDatapath

vars == machine

-----------------------------------------------------------------------------
(* Execute_Stage                                                           *)

actual_outcome ==
    \/ id_ex.op \in {"jal", "jalr"}
    \/ id_ex.op \in CondBranch /\ BranchOutcome(id_ex.op, execution_result)

target_address ==
    IF id_ex.op \in {"jal", "jalr"}
    THEN execution_result
    ELSE UpdateProgramCounter(id_ex.pc, id_ex.immediate)

ExecutesBranch == id_ex.is_valid /\ branch(id_ex.op)

Mispredicted ==
    /\ ExecutesBranch
    /\ id_ex.op # "jalr"
    /\ id_ex.predicted_outcome # actual_outcome

\* Execute sets flush_pipeline_: the target of a jalr is only known now, and a
\* misprediction is corrected.
ExecuteFlush == Mispredicted \/ (ExecutesBranch /\ id_ex.op = "jalr")

\* Mutant of the next definition: every flush goes to the branch target.
FlushToTarget == IF ExecuteFlush THEN target_address ELSE pc

PcAfterExecute ==
    CASE ExecuteFlush /\ actual_outcome  -> target_address
      [] ExecuteFlush /\ ~actual_outcome -> id_ex.pc_inc
      [] OTHER                           -> pc

BhtAfterExecute ==
    IF ExecutesBranch
    THEN updateState(mode.predictor, bht, id_ex.pc, actual_outcome)
    ELSE bht

-----------------------------------------------------------------------------
(* Decode_Stage                                                            *)

Decodes == if_id.is_valid /\ ~ExecuteFlush

stall_request ==
    LET i == if_id.inst IN
    /\ Decodes
    /\ ~is_nop(i.op)
    /\ IF mode.forwarding
       THEN detectLoadUseHazard(i.op, rs1_index(i), rs2_index(i), id_ex)
       ELSE detectDataHazard(i.op, rs1_index(i), rs2_index(i), id_ex, ex_mem)

\* Mutant of the next definition: a jalr is not predicted.
PredictsJalOnly ==
    \/ if_id.inst.op = "jal"
    \/ /\ if_id.inst.op \in CondBranch
       /\ getPrediction(mode.predictor, BhtAfterExecute, if_id.pc)

\* jal and jalr are predicted taken; a conditional branch is predicted with
\* the table as execute leaves it in this cycle.
Prediction ==
    \/ if_id.inst.op \in {"jal", "jalr"}
    \/ /\ if_id.inst.op \in CondBranch
       /\ getPrediction(mode.predictor, BhtAfterExecute, if_id.pc)

\* Decode sets flush_pipeline_.
DecodeFlush == Decodes /\ ~stall_request /\ Prediction

PcAfterDecode ==
    IF DecodeFlush /\ if_id.inst.op # "jalr"
    THEN UpdateProgramCounter(if_id.pc, if_id.inst.imm)
    ELSE PcAfterExecute

\* The next ID/EX register.
Decode_Stage ==
    IF Decodes /\ ~stall_request THEN Decoded(Prediction) ELSE ID_EX_Bubble

-----------------------------------------------------------------------------
(* Fetch_Stage, skipped when decode stalls                                 *)

\* Mutant of the next definition: decode does not set the flag.
FlushOfExecuteOnly == ExecuteFlush

flush_pipeline == ExecuteFlush \/ DecodeFlush

\* Mutant of the next definition: the last instruction is out of bounds.
FetchesAllButLast ==
    ~stall_request /\ ~flush_pipeline /\ PcAfterDecode + 1 < program_size

Fetches == ~stall_request /\ ~flush_pipeline /\ PcAfterDecode < program_size

Fetch_Stage ==
    IF stall_request THEN if_id
    ELSE IF Fetches
    THEN [IF_ID_Bubble EXCEPT
            !.is_valid = TRUE,
            !.inst     = prog.text[PcAfterDecode + 1],
            !.pc       = PcAfterDecode,
            !.pc_inc   = UpdateProgramCounter(PcAfterDecode, 1)]
    ELSE IF_ID_Bubble

\* Mutant of the next definition: the instruction a flush kills is not counted.
KilledUncounted == Bit(stall_request) + Bit(flush_pipeline)

\* stall_cycles_ counts a stalled cycle, the fetch a flush suppresses and the
\* instruction a flush takes out of IF/ID.
StallIncrement ==
    Bit(stall_request) + Bit(flush_pipeline)
        + Bit(ExecuteFlush /\ if_id.is_valid)

PerfAfterStep ==
    [cycle_s               |-> Count(perf.cycle_s, 1),
     instructions_retired  |-> Count(perf.instructions_retired,
                                     Bit(mem_wb.is_valid)),
     stall_cycles          |-> Count(perf.stall_cycles, StallIncrement),
     branch_mispredictions |-> Count(perf.branch_mispredictions,
                                     Bit(Mispredicted)),
     no_mispredictions     |-> Count(perf.no_mispredictions,
                                     Bit(/\ ExecutesBranch
                                         /\ id_ex.predicted_outcome
                                                # actual_outcome))]

-----------------------------------------------------------------------------
(* The machine                                                             *)

\* RV5SEXVM::Step; the machine does nothing once the program has ended.
Step ==
    /\ status # "VM_PROGRAM_END"
    /\ regs'   = WriteBack_Stage
    /\ mem'    = Memory_Store
    /\ mem_wb' = Memory_Stage
    /\ ex_mem' = Execute_Stage
    /\ bht'    = BhtAfterExecute
    /\ id_ex'  = Decode_Stage
    /\ if_id'  = Fetch_Stage
    /\ pc'     = IF Fetches THEN UpdateProgramCounter(PcAfterDecode, 1)
                            ELSE PcAfterDecode
    /\ perf'   = PerfAfterStep
    /\ status' = StatusAfterStep
    /\ UNCHANGED <<mode, prog>>

Init  == InitMachine
Reset == ResetMachine
LoadProgram(p) == LoadMachine(p)

\* Programs are loaded into a machine that has none, a new or a reset one.  (The
\* front end would also load over a program that is loaded: not modelled.)
Next ==
    \/ Step
    \/ Reset
    \/ prog = NoProgram /\ \E p \in Programs : LoadProgram(p)

\* A session of the front end: loads, steps and resets.
Spec == Init /\ [][Next]_vars

-----------------------------------------------------------------------------
(* Run: the loop of RV5SEXVM::Run calls Step until the program has ended.  *)
(* The thread that runs it does nothing else and is not interrupted here,  *)
(* so Step is taken again and again: weak fairness of Step.                *)

RunInit == Loaded

RunNext ==
    \/ Step
    \/ status = "VM_PROGRAM_END" /\ UNCHANGED vars

RunSpec == RunInit /\ [][RunNext]_vars /\ WF_vars(Step)
==============================================================================
