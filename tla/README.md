# The RISC-V simulator in TLA+

The repository simulates RISC-V machines: a single-stage one (`RVSSVM`) and
five-stage pipelines that differ in how they handle data hazards, branch
prediction and the stage that resolves branches. Its tests run a program on a
pipeline and compare the final registers and memory with those of the
single-stage machine. This directory states the same thing as a refinement, for
every cycle of every program: **each five-stage machine is the single-cycle
machine, seen with the instructions that have left execute completed.** Around
the single-stage machine it models the interactive session of `main.cpp`, in
which a command thread and a VM thread share the machine and its undo history.

## 1. The system

| Part | State | Operations | Modelled in |
|---|---|---|---|
| Registers, ALU, PC, loader (`registers.cpp`, `alu.cpp`, `vm_base.cpp`) | `gpr_`, `program_counter_`, `program_size_` | `WriteGpr`, `execute`, `UpdateProgramCounter`, `LoadProgram` | `RvIsa` |
| `RVSSVM` (`rvss/`) | PC, registers, memory; undo and redo stacks | `Step`, `Run`, `DebugRun`, `Undo`, `Redo`, `Reset` | `SingleCycle`, `RvssHistory`, `VmSession` |
| Branch predictors (`rv5s/branch_prediction`) | `bht_`, misprediction count | `getPrediction`, `updateState` | `BranchPredictor` |
| Control, hazard, forwarding units (`rv5s_*_unit.cpp`) | none | `getControlSignals`, `detectDataHazard`, `detectLoadUseHazard`, `getAluSrcA/B` | `Rv5sUnits` |
| `RV5SEXVM` | four pipeline registers, predictor, flags, counters | `Step` (five stages), `Run`, `Reset` | `Rv5sDatapath`, `PipelineEX` |
| `RV5SIDVM` | the same and a branch target buffer | the same | `Rv5sDatapath`, `PipelineID` |
| `RV5SStallVM`, `RV5SVM` | four pipeline registers | `Step`, `Run`, `Reset` | `Rv5sDatapath`, `PipelinePlain` |
| Session (`main.cpp`) | VM, program, VM thread, `vm_running`, configuration | load, run, run_debug, step, stop, undo, redo, reset, modify_register, modify_memory, modify_config, exit | `VmSession` with RVSSVM; load, step and reset of the pipelines |
| Breakpoints, stop flag, input queue (`vm_base`) | `breakpoints_`, `stop_requested_`, `input_queue_` | add, remove, request, clear, push | `VmSession` |
| Memory (`main_memory.cpp`) | map of blocks | reads and writes of 1 to 8 bytes | a flat function |
| Assembler, configuration, dumps, command parser | tables, files | - | not modelled |

**Interaction.** `main.cpp` owns one VM and calls it, `Run` and `Step` on a
thread of their own. A pipeline's `Step` calls its stages in the order WB, MEM,
EX, ID, IF. Each stage reads the pipeline register in front of it as the previous
cycle left it and writes a `next_` register, but the stages share the register
file, memory, the PC, the predictor and two flags (`stall_request_`,
`flush_pipeline_`): a later stage of the same cycle sees what an earlier one did.
The units are pure functions of control signals and register numbers.

The command thread and the VM thread meet in four places. `stop_requested_` is
set by commands and cleared when `Run` or `DebugRun` begins. `vm_running` is set
before a thread is created and reset by the thread as its last act. The join in
a launch or an exit waits for the thread. The input queue wakes up a read system
call. Nothing else is synchronised: `reset`, `load`, `modify_register` and
`modify_memory` reach into the machine whatever the other thread does.

**What is hard.** Several instructions are in flight, and each of the stall, the
flush, the two forwarding paths and the prediction is right only together with
the others. A unit test runs one program; a case here takes an alignment of three
to five instructions, with the predictor in some state. `PROJECT.json` lists each
hazard at its line. For each part, what makes it correct:

- *hazard and forwarding units*: an instruction executes with architectural
  operands (`OperandsArchitectural`); a path that carries the ALU result is used
  only when that is what the register gets (`ExMemResultForwardable`);
- *prediction and flush*: the younger stages hold the predicted path, and an
  instruction of a wrong path is never executed (`PathPredicted`,
  `SequentialUnlessBranch`, `OnlyBranchesPredicted`);
- *machine*: refinement of the single-cycle machine; it gets to the end of the
  program (`KeepsExecuting`, `Drains`); its statistics add up
  (`CyclesAccounted`, `MispredictionCountsAgree`);
- *machines without prediction*: the interlock alone keeps wrong operands and
  wrong paths out of execute (`InterlockSuffices`); a machine without hazard
  handling is right for scheduled code (`ImplementsIfResolved`);
- *session*: the flag that guards the machine follows the thread
  (`FlagFollowsThread`); launches and exits come to an end unless the program
  waits for input (`OnlyReadBlocks`);
- *undo history*: the deltas stand for a history of whole states
  (`ImplementsStepHistory`).

## 2. Modules

    RvIsa                    words, instructions, ALU, registers, loader
     ├─ SingleCycle          RVSSVM, the abstract specification
     └─ BranchPredictor      the four predictors
         └─ Rv5sUnits        pipeline registers; control, hazard, forwarding units
             └─ Rv5sDatapath    state; WB, MEM, operands of EX, reset, load
                 ├─ Rv5sArchitecture   refinement mapping (INSTANCE SingleCycle),
                 │                     properties common to the pipelines
                 ├─ PipelineEX         RV5SEXVM   + PipelineEXProperties
                 ├─ PipelineID         RV5SIDVM   + PipelineIDProperties
                 └─ PipelinePlain      RV5SVM and RV5SStallVM
                                       + PipelinePlainProperties
    SingleCycle
     └─ RvssHistory          deltas, undo and redo of RVSSVM
         └─ VmSession        command thread, VM thread  + VmSessionProperties
    StepHistory              a history of whole states (abstract)
    MCPrograms, MCPipelineEX, MCPipelineID, MCPipelinePlain, MCVmSession
                                                        TLC instances

The proofs:

    RvIsaLemmas              words, ALU, register file, loader
     ├─ Rv5sLemmas           types and statistics of the shared stages
     │   └─ Rv5sRefinement   what a cycle does under the refinement mapping
     │       ├─ PipelineEX_proof
     │       ├─ PipelineID_proof
     │       └─ PipelinePlain_proof
     └─ RvssHistory_proof    one instruction and its delta
         └─ VmSession_proof  the flag, the types and the history of a session

`Rv5sDatapath` is one module because the pipelines hold the same code for these
stages, line for line (write-back, memory, the operand half of execute, register
reading in decode); each pipeline module adds its own execute, decode and fetch.
`PipelinePlain` holds the two machines without prediction and forwarding: its
variable `vm` says which class it is, and all that differs hangs on it.

**The session.** `VmSession` has an action per command and per step of the VM
thread. An instruction is one step, except that a read system call is two: the
wait for input lies between `BeginRead`, which has moved the PC, and `FinishRead`,
which writes the buffer and `a0`. A launch is two when a thread is there: `Launch`
requests the stop, `FinishLaunch` is the return of the join. `Begin` is the
`ClearStop` at the top of the function, apart from the creation of the thread, so
that a stop can fall between them. Where the code has a data race:

- the single word `vm_running` and the atomic `stop_requested_` change in steps of
  their own, in every order the two threads allow;
- `reset`, `load`, `modify_register`, `modify_memory` and the breakpoint commands
  take effect between two instructions or while a read waits, at any time. The outcomes that
  fall into the middle of an instruction are left out;
- `modify_config` destroys the machine, so it is given only when no VM thread uses
  it;
- the lambda in `launch_vm_thread` refers to a parameter that may be gone; the
  model takes the outcome that the function is called.

Breakpoints are given by lines of `program_`, which the machine keeps across a
reset: a line of the old program is accepted until the next load or
`modify_config`. `modify_memory` writes a byte, a half, a word or a double word;
memory is a function on words, so the model writes a word. Queries and dumps
(`get_register`, `dump_mem`, `print_mem` and the like) change nothing and are left
out.

A line of input is one word and fills the buffer, so `a0` becomes 1. The ecall is
a `nop` with a mark (`ReadCall`), since all it does is what the two actions say.

**The history.** `RvssHistory` keeps the deltas as the code does: every
instruction notes its changes in `current_delta_`, `Step` and `DebugRun` push it,
`Run` neither pushes nor clears it. The four or eight bytes of a memory change are
one word. `StepHistory` is what a user expects of undo: two stacks of whole states.
Under the refinement mapping in `VmSessionProperties`, each stack of deltas is
unwound from the present state; for a read in progress the present PC is still
that of the ecall (`StepPc`). The history variable `recorded` says where that is
promised: it is false once `Run` has executed an instruction or the user has
written to the machine over a history that is not empty, and true again when both
stacks and the delta are empty. The code has no such variable.

**One action per operation.** `Step` of a pipeline is one action, because nothing
else reads the machine between its stages. Its conjuncts are the stages; what a
stage leaves for a later one of the same cycle is an operator the later one uses:

| Code | Model |
|---|---|
| register file after `WriteBack_Stage` | `WriteBack_Stage` (read by decode in `Decoded`) |
| `next_mem_wb_reg_`, `next_ex_mem_reg_`, `next_id_ex_reg_`, `next_if_id_reg_` | `Memory_Stage`, `Execute_Stage`, `Decode_Stage`, `Fetch_Stage` |
| `program_counter_` after EX, after ID | `PcAfterExecute`, `PcAfterDecode` |
| predictor after EX (ID) | `BhtAfterExecute` (`BhtAfterDecode`, `BtbAfterDecode`) |
| `flush_pipeline_` after EX, after ID | `ExecuteFlush`, `flush_pipeline` (`Mispredicted` in `PipelineID`) |
| `stall_request_` | `stall_request` |
| `Reset()` and the status `main.cpp` sets | `ResetMachine`, `Reset` |
| `VmBase::LoadProgram` | `LoadMachine`, `LoadProgram` |

**Abstractions** (all modules):

- An instruction is its decoded record. Of instructions that differ only in the
  ALU function or the access width one stands for all (`addi` for the I-type,
  `add` and `sub` for the R-type, `load`, `store`). All six branches, `jal`,
  `jalr`, `lui`, `auipc` and `nop` are there. CSR, `ecall` and floating-point
  instructions, which the pipelines let pass without executing, are not.
- Text addresses count instructions: the code's `+ 4` is `+ 1`. A jump to the
  middle of an instruction is excluded.
- Data memory is a function on words, apart from the text: a program does not
  overwrite itself, and no access is out of range.
- A pipeline register holds the operation instead of the `ControlSignals` computed
  from it. Fields the code leaves stale in a register that holds a nop are 0: a
  nop has no signal set and no unit reads them. So are `memory_data` of an
  instruction that does not load, `alu_result` of a load in MEM/WB, and
  `predicted_outcome` of an instruction that is no branch.
- Performance counters are modulo `CounterMod`. Quotients, output and state dumps
  are left out.
- Into a pipeline a program is loaded when it is empty (new or reset). `main.cpp`
  would also load over a program; `VmSession` does, for the single-stage machine.
- `Reset` reads the configuration again, so it picks any of `Modes`. The front end
  builds a new machine when the configuration changes. For `RV5SIDVM` this admits
  a reset with another mode that keeps the branch target buffer, more than the
  front end can do. The finding about the buffer does not use it (its run has one
  mode).

## 3. Runs

Common bounds: words of 16 values (`WordMod`), 32-bit quantities of 8 values
(`HalfMod`, so a sign bit and the two bits below it), 4 registers. Programs are
**all** texts up to a length over a small instruction set; data words are given so
that loads yield different values. Why this is enough: at most four instructions
are in flight; a stall, a flush or a forwarding path relates two registers of the
pipeline, at distance one or two; so texts of four instructions show every
alignment, and a loop inside the text brings the predictor through its states.
Branches, calls and returns go forward and back, out of the program on both sides,
and wrap the PC.

| Run | Shows |
|---|---|
| `pipeline_ex` | RV5SEXVM, all programs up to 4 instructions over the control set and over the data set, with stalls only and with forwarding, each predictor in one of the two: refinement, hazards, operands, path, liveness |
| `pipeline_ex_session` | RV5SEXVM, control programs up to 3, with resets and loads at any moment; counters modulo 4 |
| `pipeline_id` | RV5SIDVM, programs whose jumps write `x0` (control up to 4, data up to 3), four configurations with both hazard modes and each predictor: refinement, operands of branches in decode, buffer hits only on branches, no wrong path behind execute, counters, liveness |
| `pipeline_id_session` | RV5SIDVM, programs up to 3 whose links are read by arithmetic and stores, with resets and loads at any moment, both hazard modes, the predictor that never predicts taken |
| `pipeline_plain` | RV5SStallVM and RV5SVM, control programs up to 3, data programs up to 4, and programs of 3 and 5 scheduled for RV5SVM or one instruction short of it, with resets and loads at any moment: refinement (of RV5SVM on scheduled code), the interlock, the end of a run |
| `vm_session` | the two threads and the history, sessions of up to 5 commands with a program that loops and stores and one that reads, limits 0 and 2, a breakpoint, reloads |
| `pipeline_ex_lui`, `pipeline_ex_static`, `pipeline_id_call_link`, `pipeline_id_stale_btb`, `vm_session_undo`, `vm_session_exit` | the findings below; each is expected to find its property violated |

The two ID runs are restricted to what the machine gets right. The restriction
excludes the two findings: links under forwarding and a predicted jump
(`pipeline_id_call_link`), and a buffer that survives a reset
(`pipeline_id_stale_btb`). It excludes more than them: `pipeline_id` has no link
at all, although a call goes wrong only if its link is read right behind the jump
or one instruction further, and `pipeline_id_session` has no prediction, although
a stale entry hurts only where the next program has no branch at its address.
`pipeline_id_session` has resets, and links in both hazard modes with the predictor
that never predicts taken.

*Sessions.* Five commands allow, for instance, a run_debug, two undos, a redo and
a step, or two launches with a stop in between and an exit, or a reset and a load
under a thread that waits for input. The limits give runs of one and of three
instructions. `MaxCommands` bounds a session, and nothing else has to be bounded:
the instruction limit ends each run, and the input queue is as long as the
commands made it.

*Counters.* `CyclesAccounted` is modulo `CounterMod` = 4, which tells apart the
up to three increments of one cycle. The other runs use `CounterMod` = 1, to keep
the counters out of the state.

*Deadlock* is checked for the pipelines. A session does stop: after exit, after
the last command, or for good in a join (last finding). In `RunSpec` the machine stutters explicitly
once the program has ended, as `Run` returns then; in `Spec` a reset is always
possible.

*Fairness.* `RunSpec` has `WF_vars(Step)`: `Run` is a loop whose body calls `Step`
and that has no other exit than the stop flag (not modelled here) and the end of
the program. Nothing blocks inside `Step`. `Spec`, the session, has no fairness,
since a user may stop giving commands. `PipelinePlain!Spec` has `WF_vars(Step)`
for the same loop in `Run`; resets may interrupt it and `Ends` allows for them.
The session is fair to the steps of the VM thread (a scheduled thread goes on; the
wait in a read is not enabled without input) and to the return of a join, and not
to any command.

## 4. Proofs

TLAPS proves the following for every word size, register count, set of programs
and set of configurations that satisfy `IsaAssumption` and `PipelineAssumption`
(programs are sequences of instructions that do not fill the address space; a
32-bit quantity has at least three bits); what is about the session holds for all
limits, lines, values and lengths as well. **Every invariant and every refinement
a passing run checks has a theorem**, and so have the statistics; what is left to
TLC is liveness.

| Specification | Theorem | States |
|---|---|---|
| `PipelineEX!Spec` (sessions) | `TypeCorrect`, `Inductive` | `TypeOK`, `IInv` |
| | `PredictedPath`, `NoHazards`, `OperandsCorrect`, `ForwardingCorrect` | `PathPredicted`, `HazardsResolved`, `OperandsArchitectural`, `ExMemResultForwardable` |
| | `MispredictionCounts`, `StatisticsAddUp` (C) | `MispredictionCountsAgree`, `CyclesAccounted` |
| | `Implements` (U) | `ImplementsSingleCycle` |
| `PipelineEX!RunSpec` | `RunImplements` (U) | `RunImplementsSingleCycle` |
| `PipelineID!Spec` (sessions) | `TypeCorrect`, `StatisticsAddUp` (C) | `TypeOK`, `CyclesAccounted` |
| | `Implements` (N, L, U) | `ImplementsSingleCycle` |
| `PipelineID!RunSpec` | `Inductive`, `OnlyBranches`, `Sequential` | `IInv`, `OnlyBranchesPredicted`, `SequentialUnlessBranch` |
| | `BranchOperandsCorrect`, `OperandsCorrect`, `ForwardingCorrect` (L) | `BranchOperandsArchitectural`, `OperandsArchitectural`, `ExMemResultForwardable` |
| | `RunImplements` (L, U), `StatisticsAddUp` (C) | `RunImplementsSingleCycle`, `CyclesAccounted` |
| `PipelinePlain!Spec` (sessions) | `TypeCorrect`, `Inductive`, `Interlock` | `TypeOK`, `IInv`, `InterlockSuffices` |
| | `ImplementsResolved` (U) | `ImplementsIfResolved` |
| `SingleCycle` with deltas | `UndoAndRedoInvertStep` | a recorded instruction is undone and redone exactly |
| `VmSessionProperties!HSpec` | `FlagFollows`, `TypeCorrect`, `HistoryRetraceable`, `ImplementsHistory` | `FlagFollowsThread`, `SessionTypeOK`, `Retraceable`, `ImplementsStepHistory` |

**The hypotheses.** Some theorems assume more than the two assumptions, because
the code is right only there. Each is a condition on the constants that many
programs and configurations satisfy, and is the one the corresponding run uses:

- (U) `UpperImmediatesAgree`: the immediates of `lui` and `auipc` in the programs
  are extended alike by both machines. The code does not extend all of them alike
  (finding 1).
- (L) `LinksHarmless`: with forwarding, no jump writes a link, or, with the
  predictor that never predicts taken, no branch or `jalr` reads a register that
  a jump writes. Forwarding takes the ALU result where a jump writes its link
  (finding 3). This is sufficient and not necessary: it also excludes calls whose
  link is read far from the jump (mostly by the return), which the machine gets
  right. Without forwarding there is no restriction.
- (N) `NeverPredicts`: every configuration has that predictor. With another one
  the buffer of an earlier program is believed after a reset (finding 4), so the
  other theorems about `RV5SIDVM` are about a run on a new machine.
- (C) `CounterMod > 2`: one cycle can lose two slots, which a counter modulo 2 does
  not tell from none. The counters of the code have 64 bits.

**The inductive invariants.** None of the safety properties is inductive. In all
pipelines, that the operands are right (`OperandsArchitectural`) needs to know
that no load or link is directly in front of a reader (`HazardsResolved`). That
holds because decode stalled when it saw the reader, which compares register
*numbers* of IF/ID and ID/EX, so both registers must hold what the program says
at their PC (`IfIdFromProgram`, `IdExFromProgram`); ID/EX in particular still
agrees with the register file, as write-back of the next cycle has been accounted
for by a stall or will be forwarded. Empty registers must hold a nop
(`BubblesIdle`), since the units test control signals and not `is_valid`. These
parts are in `Rv5sArchitecture`; `DatapathInv` is what of them the shared part of
the refinement uses. Each machine adds its own:

- `RV5SEXVM`: a link is never in front of a reader because a jump leaves nothing
  behind it (`PathPredicted`).
- `RV5SIDVM`: fetch goes on where it predicted (`FetchPredicted`), and believes
  only entries of the loaded program (`BufferTrusted`); what is behind an
  instruction that is no branch is its successor (`SequentialUnlessBranch`), which
  holds because every branch has been decided when it leaves decode; EX/MEM holds
  an instruction of the program (`ExMemFromProgram`), so that a hypothesis on the
  program speaks of what is forwarded; a jump flushes what follows it unless it
  was predicted (`JumpsAlone`).
- `RV5SStallVM`: no write is pending that execute reads (`HazardsInterlocked`).
  A nop names no register (`NopReadsNothing`), because the units compare its
  numbers, too.
- `RV5SVM`: the text flows through without a gap (`TextFlows`), so that a
  condition on the distance of instructions in the text is one on the pipeline.

Each proof module has a lemma for what `Step` does to each conjunct of `IInv`;
`NextIInv` (`StepIInv` for `RV5SIDVM`) combines them with the other actions.

**The refinement.** `AbsRegs` and `AbsMem` are the registers and the memory after
the instructions in MEM/WB and EX/MEM have completed; `AbsPc` is the PC of the
oldest instruction that has not executed (ID/EX, else IF/ID, else fetch). A step
with a valid ID/EX is a step of the single-cycle machine, any other stutters. What
happens to registers and memory is the same for all pipelines and is proved once,
in `Rv5sRefinement`, from `DatapathInv`. Where the mapped PC goes is each
machine's own: in `RV5SEXVM` it follows from `PathPredicted` and the flush; in
`RV5SIDVM` decode has already made fetch go on with the architectural successor
(`PathArchitectural`, a second invariant), which rests on
`BranchOperandsArchitectural`; in the other two from `PathSequential`.

**The statistics.** The counters wrap, so `CountUp` (in `Rv5sLemmas`) says how far
one is from its sum. `FrontEndAccounts` adds up a cycle, given that fetch and decode
lose as many slots as the stall counter grows; that is what each of the two
machines shows of its flush and its `StallIncrement`.

**The history.** An instruction writes at most one register and one memory word
(`OneLocationWritten`), so its delta has at most one entry for each, and writing
back one entry inverts one write (`ChangeInverts`, `UndoAndRedoInvertStep`). That
needs an empty `current_delta_` when the instruction begins, which is what `Run`
breaks (finding 5) and what `Retraceable` keeps while `recorded`. `Retraceable`
also says that each delta leads forth, by redo, over the way on which undo led
back, and is inductive together with the types and the flag: undo and redo ask the
flag only, and a read in progress would make the present PC another one. The states
a stack stands for are a recursive function; `UnwindingExists` and
`UnwindingUnique` show, by induction over a set of natural numbers, that there is
exactly one, from which what a push and a pop do to it follows (`UnwindingPush`,
`UnwindingPop`, `Shifted`). **The flag** needs no strengthening: only `EndThread`
resets it.

Only model-checked: liveness (`KeepsExecuting`, `Drains`, `Ends`,
`OnlyReadBlocks`) under fairness, which needs ENABLED and is beyond the prover. That
the findings are violations is TLC's as well.

## 5. Findings

1. **Upper immediates** (`rv5s_ex_vm.cpp:446`, the same in the other pipelines).
   The mask `0xA0000000` tests bits 31 and 29 where the sign is bit 31: `lui` and
   `auipc` of an immediate with bit 29 set and bit 31 clear give another value than
   on RVSSVM. Run `pipeline_ex_lui`.
2. **Static predictors** (`static_predictors.h:20`, `:41`). The two are swapped
   against the comments in `config.h:37-38`. Results are unaffected, statistics are
   not. Run `pipeline_ex_static`.
3. **Links under forwarding in RV5SIDVM** (`rv5s_id_vm.cpp:472`, `:741`). EX/MEM
   forwards `alu_result`, for a jump the target, where the register gets the link.
   In RV5SEXVM a jump leaves a gap behind it. Here a call that hits the branch
   target buffer has its target right behind it, so a function whose first
   instruction reads `ra` goes wrong from the second call on. Run
   `pipeline_id_call_link`.
4. **The branch target buffer survives `Reset`** (`rv5s_id_vm.cpp:73`), and decode
   verifies a prediction of branches only: an instruction of the next program at
   the address of an old branch can be followed to the old target with no
   correction. Run `pipeline_id_stale_btb`.
5. **A run leaks into the next step's undo** (`rvss_vm.cpp:797`). `Run` collects
   its changes in `current_delta_` and leaves them there; the next `step` pushes
   them with its own. COMMANDS.md:17 has undo revert "the last executed step":
   it reverts the registers and the memory of the run too, and the PC only to
   behind the run. Run `vm_session_undo`.
6. **Exit hangs on a read** (`main.cpp:273`). The VM thread waits for a line that
   only the thread which joins it could pass on; the comment there speaks of a
   clean exit. The same join is in a second `run`. Run `vm_session_exit`.

Seen while modelling, without a run of their own:

- the limit test `executed > limit` (`rvss_vm.cpp:802`) executes one instruction
  more than the limit, and with limit 0, which COMMANDS.md:45 says means no limit,
  exactly one;
- `vm_base.h:93` says the only difference between Run and DebugRun is the delay;
  DebugRun also stops at breakpoints and, on RVSSVM, records;
- a DebugRun started at a breakpoint executes nothing, and again nothing the next
  time (`rvss_vm.cpp:832`);
- the breakpoint `LoadProgram` sets behind the program (`vm_base.cpp:33`) survives
  reset and the next load;
- `load` keeps the PC (`vm_base.cpp:25`), so a run after it may begin in the middle
  of the new program;
- a stop that comes before `ClearStop` is lost (`rvss_vm.cpp:798`). On RVSSVM the
  limit ends the run all the same, which is what `OnlyReadBlocks` shows; the
  pipelines have no limit, so there an exit at that moment would wait for ever for
  a program that loops;
- CSR instructions note no change (`rvss_vm.cpp:750`) and cannot be undone.

## 6. Not modelled, and the plan

In this order:

1. Proofs: sessions of `RV5SIDVM` with every predictor in which only one program is
   ever loaded, whose buffer entries stay right across a reset; the predictors and
   `Alu` against reference definitions.
2. DebugRun of the pipelines, whose breakpoint test reads the PC of fetch, and a
   session around a pipeline.
3. `Memory`: the block map with multi-byte accesses refining the flat memory.
4. Operators: label back-patching and data layout of the assembler against the
   loader; the remaining ALU operations at the edges of the word.

Left out for good: floating point and rounding, CSRs, the system calls that only
print, output formats and state dumps, the command parser, the lexer, the cache
and device headers no machine uses.
