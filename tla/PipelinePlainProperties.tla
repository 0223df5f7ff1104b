----------------------- MODULE PipelinePlainProperties -----------------------
(***************************************************************************)
(* What RV5SVM and RV5SStallVM promise.  The second is the single-cycle    *)
(* machine for every program, the first only for a program whose code was  *)
(* scheduled for it.                                                       *)
(***************************************************************************)
EXTENDS PipelinePlain, Rv5sArchitecture

\* No branches, and two instructions between one that writes a register and one
\* that reads it.
Scheduled(p) ==
    /\ \A k \in DOMAIN p.text : ~branch(p.text[k].op)
    /\ \A j, k \in DOMAIN p.text :
          /\ k - j \in {1, 2}
          /\ reg_write(p.text[j].op) /\ p.text[j].rd # 0
          => ~Reads(p.text[k].op, rs1_index(p.text[k]), rs2_index(p.text[k]),
                    p.text[j].rd)

\* Every step of RV5SStallVM, and every step of RV5SVM on a scheduled program,
\* is a step of the single-cycle machine or leaves its state alone.  For RV5SVM
\* this says how far apart dependent instructions have to be: the registers are
\* written in the same cycle in which the third instruction behind reads them.
ImplementsIfResolved ==
    [][stalling \/ Scheduled(prog) => [SC!Next]_(SC!vars)]_vars

\* The interlock of RV5SStallVM hands execute no operand that an older
\* instruction has still to write, and no instruction of a wrong path.
InterlockSuffices ==
    stalling /\ id_ex.is_valid =>
        /\ reg_write(ex_mem.op) /\ ex_mem.rd_index # 0 =>
               ~Reads(id_ex.op, id_ex.rs1_index, id_ex.rs2_index,
                      ex_mem.rd_index)
        /\ reg_write(mem_wb.op) /\ mem_wb.rd_index # 0 =>
               ~Reads(id_ex.op, id_ex.rs1_index, id_ex.rs2_index,
                      mem_wb.rd_index)
        /\ ex_mem.op \notin {"jal", "jalr"}

\* A run of a straight-line machine ends: RV5SVM goes through the text once,
\* whatever loops the program has, and a reset is the only way to interrupt it.
\* RV5SStallVM ends once it has left the text.
Ends ==
    (vm = "RV5SVM" \/ AbsPc >= program_size) /\ prog # NoProgram
        ~> status \in {"VM_PROGRAM_END", "VM_RESET"}

-----------------------------------------------------------------------------
(* The inductive invariant; Rv5sArchitecture holds its other parts.        *)

\* The program runs on this machine as on the single-cycle machine.
HazardFree == stalling \/ Scheduled(prog)

\* Behind the instruction in execute is the next one of the text.
NextFetched == IF if_id.is_valid THEN if_id.pc ELSE pc
PathSequential == id_ex.is_valid => NextFetched = id_ex.pc_inc

\* A nop in execute names no register.
NopReadsNothing ==
    is_nop(id_ex.op) => id_ex.rs1_index = 0 /\ id_ex.rs2_index = 0

\* What RV5SStallVM leaves to execute: no pending write that it reads, and
\* nothing behind a jump.
HazardsInterlocked ==
    stalling =>
        /\ ~ExecuteReads(ex_mem) /\ ~ExecuteReads(mem_wb)
        /\ ex_mem.op \in {"jal", "jalr"} => ~id_ex.is_valid

\* In RV5SVM the text flows through without a gap: EX/MEM and MEM/WB hold the
\* two instructions in front of the one in execute.
Carries(r, a) ==
    LET i == prog.text[a + 1] IN
    r.op = i.op /\ (~is_nop(i.op) => r.rd_index = i.rd)
TextFlows ==
    ~stalling =>
        /\ id_ex.is_valid =>
              /\ ex_mem.is_valid =>
                    id_ex.pc >= 1 /\ Carries(ex_mem, id_ex.pc - 1)
              /\ mem_wb.is_valid =>
                    id_ex.pc >= 2 /\ Carries(mem_wb, id_ex.pc - 2)
        /\ if_id.is_valid /\ ~id_ex.is_valid => ~ex_mem.is_valid
        /\ id_ex.is_valid /\ ~if_id.is_valid => pc >= program_size

IInv == /\ TypeOK /\ vm \in VmTypes
        /\ IfIdFromProgram
        /\ FetchSequential
        /\ IdExFromProgram
        /\ BubblesIdle
        /\ PathSequential
        /\ NopReadsNothing
        /\ HazardsInterlocked
        /\ TextFlows
==============================================================================
