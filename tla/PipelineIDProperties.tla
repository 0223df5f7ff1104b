------------------------ MODULE PipelineIDProperties ------------------------
(***************************************************************************)
(* The properties of RV5SIDVM; Rv5sArchitecture holds those it shares with *)
(* the other five-stage machines.                                          *)
(***************************************************************************)
EXTENDS PipelineID, Rv5sArchitecture

\* The branch target buffer holds targets of branches of the loaded program.
\* Fetch relies on it: it follows a hit before anybody has looked at the
\* instruction, and only an instruction that decode finds to be a branch is
\* checked against the prediction.
OnlyBranchesPredicted ==
    if_id.is_valid /\ if_id.predicted_outcome => branch(if_id.inst.op)

\* A branch is resolved on the values the single-cycle machine would compare:
\* the two stalls particular to decode and the forwarding into decode leave no
\* stale operand.  The instruction in execute, if any, is older than the branch
\* and does not write its operands.
Resolves1 == ResolvesBranch /\ if_id.inst.op # "jal"
BranchOperandsArchitectural ==
    Resolves1 =>
        /\ val1 = AbsRegs[if_id.inst.rs1]
        /\ if_id.inst.op \in CondBranch => val2 = AbsRegs[if_id.inst.rs2]
        /\ id_ex.is_valid /\ reg_write(id_ex.op) /\ id_ex.rd_index # 0 =>
               ~Reads(if_id.inst.op, if_id.inst.rs1, if_id.inst.rs2,
                      id_ex.rd_index)

\* No wrong path enters the pipeline: the instruction behind the one in execute
\* is the one that follows it architecturally, with no correction pending, so
\* execute needs no flush.
NextFetched == IF if_id.is_valid THEN if_id.pc ELSE pc
SequentialUnlessBranch ==
    id_ex.is_valid /\ ~branch(id_ex.op) => NextFetched = id_ex.pc_inc

\* Every cycle of the machine is accounted for (see CycleAccounted).
CyclesAccounted ==
    [][status' \in {"VM_STEP_COMPLETED", "VM_PROGRAM_END"}
         => CycleAccounted]_vars

-----------------------------------------------------------------------------
(* Liveness of Run, under the fairness of RunSpec.                         *)

\* The pipeline never starves: instructions keep reaching execute until the
\* program ends, although a branch may wait two cycles in decode.
KeepsExecuting ==
    []<>(id_ex.is_valid \/ status = "VM_PROGRAM_END")

\* Once the program has run off its end the pipeline drains and Run returns.
Drains == (AbsPc >= program_size) ~> (status = "VM_PROGRAM_END")

-----------------------------------------------------------------------------
(* The inductive invariant; Rv5sArchitecture holds its other parts.        *)

\* Fetch goes on where it predicted.
FetchPredicted ==
    if_id.is_valid =>
        pc = IF if_id.predicted_outcome THEN if_id.predicted_target
                                        ELSE if_id.pc_inc

\* A predictor that never predicts taken, whatever the buffer holds, or a
\* buffer without entries of another program.
BufferTrusted ==
    \/ mode.predictor = "STATIC_TAKEN"
    \/ \A a \in Word :
          btb[a] # NoTarget => a < program_size /\ branch(prog.text[a + 1].op)

\* If nothing is predicted taken, a jump always flushes what follows it.
JumpsAlone ==
    mode.predictor = "STATIC_TAKEN" =>
        /\ if_id.is_valid => ~if_id.predicted_outcome
        /\ id_ex.is_valid /\ id_ex.op \in {"jal", "jalr"} => ~if_id.is_valid
        /\ ex_mem.op \in {"jal", "jalr"} => ~id_ex.is_valid

\* x0 is never written.
ZeroRegister == regs[0] = 0

\* EX/MEM holds an instruction of the program.
ExMemFromProgram ==
    ex_mem.is_valid /\ ~is_nop(ex_mem.op) =>
        \E k \in DOMAIN prog.text : /\ prog.text[k].op = ex_mem.op
                                    /\ prog.text[k].rd = ex_mem.rd_index

\* What the stalls of decode leave to execute.
HazardsResolved ==
    /\ mode.forwarding /\ mem_read(ex_mem.op) => ~ExecuteReads(ex_mem)
    /\ ~mode.forwarding => ~ExecuteReads(ex_mem) /\ ~ExecuteReads(mem_wb)

IInv == /\ TypeOK /\ btb \in Btb
        /\ ZeroRegister
        /\ IfIdFromProgram
        /\ FetchPredicted
        /\ OnlyBranchesPredicted
        /\ BufferTrusted
        /\ IdExFromProgram
        /\ BubblesIdle
        /\ ExMemFromProgram
        /\ HazardsResolved
        /\ JumpsAlone
        /\ SequentialUnlessBranch

\* Forwarding takes the result of the ALU where a jump writes its link: into
\* decode, and into execute of the instruction right behind the jump.  That is
\* harmless in a program that writes no link, and where every jump flushes the
\* instruction behind it, also in one that compares no link in a branch.
LinksHarmless ==
    \A m \in Modes, p \in Programs : \A j \in DOMAIN p.text :
        /\ m.forwarding
        /\ p.text[j].op \in {"jal", "jalr"} /\ p.text[j].rd # 0
        => /\ m.predictor = "STATIC_TAKEN"
           /\ \A k \in DOMAIN p.text :
                  branch(p.text[k].op) =>
                      ~Reads(p.text[k].op, rs1_index(p.text[k]),
                             rs2_index(p.text[k]), p.text[j].rd)

\* With harmless links, the instruction behind the one in execute is the one the
\* single-cycle machine goes to.
PathArchitectural ==
    id_ex.is_valid => NextFetched = SC!NextPc(prog.text[id_ex.pc + 1])
==============================================================================
