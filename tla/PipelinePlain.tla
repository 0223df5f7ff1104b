---------------------------- MODULE PipelinePlain ----------------------------
(***************************************************************************)
(* The two five-stage machines that predict nothing and forward nothing:   *)
(*                                                                         *)
(*  RV5SVM       the `ideal' data hazard mode of the front end: every      *)
(*               instruction flows through, no hazard is looked for and no *)
(*               branch is followed;                                       *)
(*  RV5SStallVM  run by its own test program: decode stalls on a data      *)
(*               hazard, and execute redirects the PC and flushes the two  *)
(*               younger stages when a branch is taken.                    *)
(*                                                                         *)
(* Their write-back, memory and decode stages are line for line those of   *)
(* Rv5sDatapath, with forwarding disabled.                                 *)
(***************************************************************************)
EXTENDS Rv5sDatapath

VARIABLE vm   \* the class of the machine

vars == <<vm, machine>>

VmTypes == {"RV5SVM", "RV5SStallVM"}

\* The classes have no forwarding unit.
ASSUME PlainAssumption == \A m \in Modes : ~m.forwarding

stalling == vm = "RV5SStallVM"

-----------------------------------------------------------------------------
(* Execute_Stage                                                           *)

\* RV5SVM shifts the immediate of a jal like that of auipc; the result is
\* written nowhere.
Execute ==
    IF vm = "RV5SVM" /\ id_ex.is_valid /\ id_ex.op = "jal"
    THEN [Execute_Stage EXCEPT
            !.alu_result = Alu("kAdd", id_ex.pc, UpperOperand(id_ex.immediate))]
    ELSE Execute_Stage

\* Execute takes a branch and sets flush_pipeline_.
branch_taken ==
    /\ stalling /\ id_ex.is_valid
    /\ \/ id_ex.op \in {"jal", "jalr"}
       \/ id_ex.op \in CondBranch /\ BranchOutcome(id_ex.op, execution_result)

target_address ==
    IF id_ex.op \in {"jal", "jalr"}
    THEN execution_result
    ELSE UpdateProgramCounter(id_ex.pc, id_ex.immediate)

PcAfterExecute == IF branch_taken THEN target_address ELSE pc

-----------------------------------------------------------------------------
(* Decode_Stage and Fetch_Stage                                            *)

\* Mutant of the next definition: decode does not look at the flush.
DecodesFlushed == if_id.is_valid

Decodes == if_id.is_valid /\ ~branch_taken

\* Mutant of the next definition: the instruction in memory is overlooked.
StallsOnExecuteOnly ==
    LET i == if_id.inst IN
    /\ stalling /\ Decodes
    /\ ~is_nop(i.op)
    /\ ExecuteHazardOnly(i.op, rs1_index(i), rs2_index(i), id_ex, ex_mem)

stall_request ==
    LET i == if_id.inst IN
    /\ stalling /\ Decodes
    /\ ~is_nop(i.op)
    /\ detectDataHazard(i.op, rs1_index(i), rs2_index(i), id_ex, ex_mem)

\* The next ID/EX register.
Decode_Stage ==
    IF Decodes /\ ~stall_request THEN Decoded(FALSE) ELSE ID_EX_Bubble

Fetches == ~stall_request /\ ~branch_taken /\ PcAfterExecute < program_size

\* The next IF/ID register; fetch is skipped in a stalled cycle.
Fetch_Stage ==
    IF stall_request THEN if_id
    ELSE IF Fetches
    THEN [IF_ID_Bubble EXCEPT
            !.is_valid = TRUE,
            !.inst     = prog.text[pc + 1],
            !.pc       = pc,
            !.pc_inc   = UpdateProgramCounter(pc, 1)]
    ELSE IF_ID_Bubble

\* A flush is not a stall cycle in these machines.
PerfAfterStep ==
    [perf EXCEPT
        !.cycle_s = Count(@, 1),
        !.instructions_retired = Count(@, Bit(mem_wb.is_valid)),
        !.stall_cycles = Count(@, Bit(stall_request))]

-----------------------------------------------------------------------------

\* RV5SVM::Step and RV5SStallVM::Step.
Step ==
    /\ status # "VM_PROGRAM_END"
    /\ regs'   = WriteBack_Stage
    /\ mem'    = Memory_Store
    /\ mem_wb' = Memory_Stage
    /\ ex_mem' = Execute
    /\ id_ex'  = Decode_Stage
    /\ if_id'  = Fetch_Stage
    /\ pc'     = IF Fetches THEN UpdateProgramCounter(pc, 1)
                            ELSE PcAfterExecute
    /\ perf'   = PerfAfterStep
    /\ status' = StatusAfterStep
    /\ UNCHANGED <<vm, mode, prog, bht>>

Init == vm \in VmTypes /\ InitMachine

Reset == ResetMachine /\ UNCHANGED vm
LoadProgram(p) == LoadMachine(p) /\ UNCHANGED vm

\* Programs are loaded into a new or a reset machine.
Next ==
    \/ Step
    \/ Reset
    \/ prog = NoProgram /\ \E p \in Programs : LoadProgram(p)

\* The loop of Run takes one Step after the other.
Spec == Init /\ [][Next]_vars /\ WF_vars(Step)
==============================================================================
