------------------------ MODULE PipelineEXProperties ------------------------
(***************************************************************************)
(* The properties of RV5SEXVM; Rv5sArchitecture holds those it shares with *)
(* the other five-stage machines, ImplementsSingleCycle above all.         *)
(***************************************************************************)
EXTENDS PipelineEX, Rv5sArchitecture

\* The VM and its predictor count mispredictions in different places; the two
\* counts never differ.
MispredictionCountsAgree ==
    perf.branch_mispredictions = perf.no_mispredictions

\* Every cycle of the machine is accounted for (see CycleAccounted).
CyclesAccounted ==
    [][status' \in {"VM_STEP_COMPLETED", "VM_PROGRAM_END"}
         => CycleAccounted]_vars

-----------------------------------------------------------------------------
(* The inductive invariant; Rv5sArchitecture holds its other parts.        *)

\* The younger stages hold the path the predictor chose: a jump predicts itself
\* taken and has nothing behind it; behind any other instruction is its
\* predicted successor, or the fetch PC points there.  (A jalr has no predicted
\* successor, what is fetched behind it is flushed.)
NextFetched == IF if_id.is_valid THEN if_id.pc ELSE pc
PredictedSuccessor ==
    IF branch(id_ex.op) /\ id_ex.predicted_outcome
    THEN UpdateProgramCounter(id_ex.pc, id_ex.immediate)
    ELSE id_ex.pc_inc
PathPredicted ==
    id_ex.is_valid =>
        /\ id_ex.op \in {"jal", "jalr"} => /\ id_ex.predicted_outcome
                                          /\ ~if_id.is_valid
        /\ id_ex.op # "jalr" => NextFetched = PredictedSuccessor

\* What decode's stalls and the flushes leave to execute: with forwarding, no
\* load and no link directly in front of a reader; without, no pending write.
HazardsResolved ==
    /\ ex_mem.op \in {"jal", "jalr"} => ~id_ex.is_valid
    /\ mode.forwarding /\ mem_read(ex_mem.op) => ~ExecuteReads(ex_mem)
    /\ ~mode.forwarding => ~ExecuteReads(ex_mem) /\ ~ExecuteReads(mem_wb)

IInv == /\ TypeOK
        /\ IfIdFromProgram
        /\ FetchSequential
        /\ IdExFromProgram
        /\ PathPredicted
        /\ BubblesIdle
        /\ HazardsResolved

-----------------------------------------------------------------------------
(* Liveness of Run, under the fairness of RunSpec.                         *)

\* The pipeline never starves: instructions keep reaching execute until the
\* program ends, so no stall or flush repeats for ever.
KeepsExecuting ==
    []<>(id_ex.is_valid \/ status = "VM_PROGRAM_END")

\* Once the program has run off its end the pipeline drains and Run returns.
Drains == (AbsPc >= program_size) ~> (status = "VM_PROGRAM_END")
==============================================================================
