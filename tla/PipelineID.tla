------------------------------ MODULE PipelineID ------------------------------
(***************************************************************************)
(* RV5SIDVM: the five-stage pipeline that predicts branches in fetch, with *)
(* a branch target buffer, and resolves them in decode.                    *)
(*                                                                         *)
(* A branch in decode compares forwarded register values, updates the      *)
(* predictor and the buffer, and corrects the fetch PC of the same cycle   *)
(* when fetch had predicted otherwise: no instruction of a wrong path      *)
(* enters the pipeline.                                                    *)
(***************************************************************************)
EXTENDS Rv5sDatapath

VARIABLE btb    \* btb_: the target recorded for a PC, or NoTarget

vars == <<machine, btb>>

NoTarget == -1
Btb == [Word -> Word \cup {NoTarget}]
EmptyBtb == [a \in Word |-> NoTarget]

-----------------------------------------------------------------------------
(* Decode_Stage                                                            *)

Decodes == if_id.is_valid /\ ~is_nop(if_id.inst.op)

\* Mutant of the next definition: only the first source is compared.
BranchWaitsForRs1(r) ==
    /\ r.is_valid /\ r.rd_index # 0
    /\ r.rd_index = rs1_index(if_id.inst)

\* The instruction in decode is a branch that reads, by its register fields,
\* what instruction r writes.  For a jal these fields are immediate bits.
BranchWaitsFor(r) ==
    /\ r.is_valid /\ r.rd_index # 0
    /\ r.rd_index \in {rs1_index(if_id.inst), rs2_index(if_id.inst)}

stall_request ==
    LET i == if_id.inst IN
    /\ Decodes
    /\ IF mode.forwarding
       THEN \/ detectLoadUseHazard(i.op, rs1_index(i), rs2_index(i), id_ex)
            \/ /\ branch(i.op)
               /\ \/ reg_write(id_ex.op) /\ BranchWaitsFor(id_ex)
                  \/ mem_read(ex_mem.op) /\ BranchWaitsFor(ex_mem)
       ELSE detectDataHazard(i.op, rs1_index(i), rs2_index(i), id_ex, ex_mem)

\* Registers as decode sees them, after write-back.
getForwardedIdReg(reg) ==
    CASE reg = 0 -> 0
      [] reg # 0 /\ ex_mem.is_valid /\ reg_write(ex_mem.op)
         /\ ex_mem.rd_index = reg -> ex_mem.alu_result
      [] reg # 0 /\ ~(ex_mem.is_valid /\ reg_write(ex_mem.op)
                      /\ ex_mem.rd_index = reg)
         /\ mem_wb.is_valid /\ reg_write(mem_wb.op)
         /\ mem_wb.rd_index = reg -> getWriteBackData(mem_wb)
      [] OTHER -> WriteBack_Stage[reg]

BranchOperand(reg) ==
    IF mode.forwarding THEN getForwardedIdReg(reg) ELSE WriteBack_Stage[reg]

val1 == BranchOperand(rs1_index(if_id.inst))
val2 == BranchOperand(rs2_index(if_id.inst))

actual_taken ==
    LET op == if_id.inst.op IN
    \/ op \in {"jal", "jalr"}
    \/ op = "beq"  /\ val1 = val2
    \/ op = "bne"  /\ val1 # val2
    \/ op = "blt"  /\ Signed(val1) < Signed(val2)
    \/ op = "bge"  /\ Signed(val1) >= Signed(val2)
    \/ op = "bltu" /\ val1 < val2
    \/ op = "bgeu" /\ val1 >= val2

\* 0 when the branch is not taken.
actual_target ==
    CASE if_id.inst.op = "jalr" -> (val1 + if_id.inst.imm) % WordMod
      [] if_id.inst.op # "jalr" /\ actual_taken ->
            UpdateProgramCounter(if_id.pc, if_id.inst.imm)
      [] OTHER -> 0

ResolvesBranch == Decodes /\ ~stall_request /\ branch(if_id.inst.op)

\* Mutant of the next definition: the target is not compared.
outcome_correct == if_id.predicted_outcome = actual_taken

prediction_correct ==
    /\ if_id.predicted_outcome = actual_taken
    /\ actual_taken => if_id.predicted_target = actual_target

\* Decode sets flush_pipeline_.
Mispredicted == ResolvesBranch /\ ~prediction_correct

\* Mutant of the next definition: fetch is sent to the recorded target, which
\* decode has not updated yet.
RedirectsToRecorded ==
    CASE Mispredicted /\ actual_taken  -> btb[if_id.pc]
      [] Mispredicted /\ ~actual_taken -> if_id.pc_inc
      [] OTHER                         -> pc

PcAfterDecode ==
    CASE Mispredicted /\ actual_taken  -> actual_target
      [] Mispredicted /\ ~actual_taken -> if_id.pc_inc
      [] OTHER                         -> pc

BhtAfterDecode ==
    IF ResolvesBranch
    THEN updateState(mode.predictor, bht, if_id.pc, actual_taken)
    ELSE bht

\* Mutant of the next definition: every instruction is recorded.
RecordsEveryInstruction ==
    IF Decodes /\ ~stall_request
    THEN [btb EXCEPT ![if_id.pc] = actual_target]
    ELSE btb

\* The buffer records a branch whether it is taken or not.
BtbAfterDecode ==
    IF ResolvesBranch THEN [btb EXCEPT ![if_id.pc] = actual_target] ELSE btb

\* The next ID/EX register.  The prediction stays in IF/ID.
Decode_Stage ==
    IF if_id.is_valid /\ ~stall_request THEN Decoded(FALSE) ELSE ID_EX_Bubble

-----------------------------------------------------------------------------
(* Fetch_Stage, skipped when decode stalls                                 *)

\* Mutants of the next definition: the last instruction is out of bounds; the
\* PC moves on during a stall.
FetchesAllButLast ==
    ~stall_request /\ ~Mispredicted /\ PcAfterDecode + 1 < program_size
FetchesDuringStall == ~Mispredicted /\ PcAfterDecode < program_size

Fetches == ~stall_request /\ ~Mispredicted /\ PcAfterDecode < program_size

\* Fetch follows the buffer when it knows the PC and the predictor says taken.
\* It asks both for every PC, whatever the instruction there.
predict_taken ==
    /\ BtbAfterDecode[PcAfterDecode] # NoTarget
    /\ getPrediction(mode.predictor, BhtAfterDecode, PcAfterDecode)

next_pc_val ==
    IF predict_taken THEN BtbAfterDecode[PcAfterDecode]
                     ELSE UpdateProgramCounter(PcAfterDecode, 1)

Fetch_Stage ==
    IF stall_request THEN if_id
    ELSE IF Fetches
    THEN [is_valid          |-> TRUE,
          inst              |-> prog.text[PcAfterDecode + 1],
          pc                |-> PcAfterDecode,
          pc_inc            |-> UpdateProgramCounter(PcAfterDecode, 1),
          predicted_outcome |-> predict_taken,
          predicted_target  |-> IF predict_taken
                                THEN BtbAfterDecode[PcAfterDecode] ELSE 0]
    ELSE IF_ID_Bubble

\* Mutant of the next definition: the suppressed fetch is not counted.
SuppressedUncounted == Bit(stall_request)

\* stall_cycles_ counts a stalled cycle and the fetch a flush suppresses.  The
\* flush comes from decode itself, which has passed its own test of it.
StallIncrement == Bit(stall_request) + Bit(Mispredicted)

PerfAfterStep ==
    [cycle_s               |-> Count(perf.cycle_s, 1),
     instructions_retired  |-> Count(perf.instructions_retired,
                                     Bit(mem_wb.is_valid)),
     stall_cycles          |-> Count(perf.stall_cycles, StallIncrement),
     branch_mispredictions |-> Count(perf.branch_mispredictions,
                                     Bit(Mispredicted)),
     no_mispredictions     |-> Count(perf.no_mispredictions,
                                     Bit(/\ ResolvesBranch
                                         /\ if_id.predicted_outcome
                                                # actual_taken))]

-----------------------------------------------------------------------------
(* The machine                                                             *)

\* RV5SIDVM::Step; the machine does nothing once the program has ended.
Step ==
    /\ status # "VM_PROGRAM_END"
    /\ regs'   = WriteBack_Stage
    /\ mem'    = Memory_Store
    /\ mem_wb' = Memory_Stage
    /\ ex_mem' = Execute_Stage
    /\ id_ex'  = Decode_Stage
    /\ bht'    = BhtAfterDecode
    /\ btb'    = BtbAfterDecode
    /\ if_id'  = Fetch_Stage
    /\ pc'     = IF Fetches THEN next_pc_val ELSE PcAfterDecode
    /\ perf'   = PerfAfterStep
    /\ status' = StatusAfterStep
    /\ UNCHANGED <<mode, prog>>

\* RV5SIDVM::Reset replaces the predictor and leaves btb_ as it is.
Reset == ResetMachine /\ UNCHANGED btb

LoadProgram(p) == LoadMachine(p) /\ UNCHANGED btb

Init == InitMachine /\ btb = EmptyBtb

\* Programs are loaded into a machine that has none, a new or a reset one.  (The
\* front end would also load over a program that is loaded: not modelled.)
Next ==
    \/ Step
    \/ Reset
    \/ prog = NoProgram /\ \E p \in Programs : LoadProgram(p)

\* A session of the front end: loads, steps and resets.
Spec == Init /\ [][Next]_vars

-----------------------------------------------------------------------------
(* Run, on a new machine: the loop calls Step until the program has ended, *)
(* so Step is taken again and again.                                       *)

RunInit == Loaded /\ btb = EmptyBtb

RunNext ==
    \/ Step
    \/ status = "VM_PROGRAM_END" /\ UNCHANGED vars

RunSpec == RunInit /\ [][RunNext]_vars /\ WF_vars(Step)
==============================================================================
