------------------------------ MODULE VmSession ------------------------------
(***************************************************************************)
(* The interactive session of main.cpp with the single-stage machine: the  *)
(* main thread reads commands, and the VM thread it launches executes Run, *)
(* DebugRun or one Step.  They share the stop flag, vm_running, the input  *)
(* queue and the machine itself.                                           *)
(*                                                                         *)
(* An instruction is one step of the VM thread, but for a read system call,*)
(* which waits for input in the middle of Execute.  The commands that      *)
(* touch the machine without asking whether it runs (reset, load,          *)
(* breakpoints, modify_register, modify_memory) take effect between two    *)
(* instructions, or while a read waits: the other outcomes of the data     *)
(* race, which fall in the middle of an instruction, are left out.         *)
(* Modify_config, which destroys the machine, is given only when no VM     *)
(* thread uses it.                                                         *)
(***************************************************************************)
EXTENDS RvssHistory

CONSTANTS
    Limits,        \* values of instruction_execution_limit
    Lines,         \* lines typed as input of the program
    ReadCall,      \* an ecall, as SingleCycle sees it: no effect of its own
    A0, A1,        \* registers of the file descriptor and of the buffer
    UserPoints,    \* instructions the user sets breakpoints at
    UserAddresses, \* addresses the user writes to
    UserValues,    \* values the user writes to registers and memory
    MaxCommands    \* bound on the length of a session

ASSUME SessionAssumption ==
    /\ Limits \subseteq Nat /\ Limits # {}
    /\ Lines \subseteq Word /\ UserPoints \subseteq Word
    /\ UserAddresses \subseteq Word /\ UserValues \subseteq Word
    /\ ReadCall \in Instr /\ ReadCall.op = "nop"
    /\ {A0, A1} \subseteq Reg \ {0}
    /\ MaxCommands \in Nat

VARIABLES
    main,             \* what the main thread does
    next_job,         \* the function of the thread it is about to launch
    thread,           \* where the VM thread is
    job,              \* the function the VM thread runs
    vm_running,
    stop_requested_,
    executed,         \* instruction_executed
    limit,            \* instruction_execution_limit
    program_,         \* the program in whose lines breakpoints are given
    breakpoints_,
    input_queue_,
    buffer,           \* buffer_address of the read that waits
    commands          \* number of commands read so far

machine == <<prog, pc, regs, mem, history>>
control == <<main, next_job, thread, job, vm_running, stop_requested_,
             executed>>
sessionVars == <<machine, control, limit, program_, breakpoints_,
                 input_queue_, buffer, commands>>

Jobs == {"Run", "DebugRun", "Step"}

\* No VM thread uses the machine.
Idle == thread \in {"none", "done"}

-----------------------------------------------------------------------------
(* The VM thread.                                                          *)

Instruction == prog.text[pc + 1]

\* The stop flag is cleared when the function begins, not at the launch.
Begin ==
    /\ thread = "started" /\ job \in {"Run", "DebugRun"}
    /\ thread' = "loop"
    /\ stop_requested_' = FALSE
    /\ executed' = 0
    /\ UNCHANGED <<machine, main, next_job, job, vm_running, limit, program_,
                   breakpoints_, input_queue_, buffer, commands>>

\* The conditions at the head of the loop: one instruction more than the limit
\* is executed.
Continues ==
    /\ ~stop_requested_ /\ pc < program_size
    /\ executed <= limit

\* The VM thread is about to execute an instruction.
Executing ==
    \/ thread = "started" /\ job = "Step" /\ pc < program_size
    \/ /\ thread = "loop" /\ Continues
       /\ job = "DebugRun" => pc \notin breakpoints_

WaitsForInput == Instruction = ReadCall /\ regs[A0] = 0

\* Where the VM thread goes from an instruction.
AfterInstruction ==
    /\ thread' = IF job = "Step" THEN "returned" ELSE "loop"
    /\ executed' = IF job = "Step" THEN executed ELSE executed + 1

ExecuteInstruction ==
    /\ Executing /\ ~WaitsForInput
    /\ IF job = "Run" THEN UnrecordedInstruction ELSE RecordedInstruction
    /\ AfterInstruction
    /\ UNCHANGED <<main, next_job, job, vm_running, stop_requested_, limit,
                   program_, breakpoints_, input_queue_, buffer, commands>>

\* A read: Fetch has moved the PC, Execute waits for input_cv_.
BeginRead ==
    /\ Executing /\ WaitsForInput
    /\ pc' = UpdateProgramCounter(pc, 1)
    /\ current_delta_' = IF job = "Run" THEN current_delta_
                         ELSE [current_delta_ EXCEPT !.old_pc = pc]
    /\ buffer' = regs[A1]
    /\ thread' = "stdin"
    /\ UNCHANGED <<prog, regs, mem, undo_stack_, redo_stack_, main, next_job,
                   job, vm_running, stop_requested_, executed, limit, program_,
                   breakpoints_, input_queue_, commands>>

\* The line is written to the buffer and its length, one word, to a0.  The wait
\* ends on input only: the stop flag does not end it.
FinishRead ==
    /\ thread = "stdin" /\ input_queue_ # << >>
    /\ mem' = [mem EXCEPT ![buffer] = Head(input_queue_)]
    /\ regs' = WriteGpr(regs, A0, 1)
    /\ input_queue_' = Tail(input_queue_)
    /\ LET change == [at |-> buffer, old_value |-> mem[buffer],
                      new_value |-> Head(input_queue_)]
           delta == Noting(current_delta_, ChangeAt(A0, regs, regs'),
                           <<change>>)
       IN  IF job = "Run"
           THEN /\ current_delta_' = delta
                /\ UNCHANGED <<undo_stack_, redo_stack_>>
           ELSE Push([delta EXCEPT !.new_pc = pc])
    /\ AfterInstruction
    /\ UNCHANGED <<prog, pc, main, next_job, job, vm_running, stop_requested_,
                   limit, program_, breakpoints_, buffer, commands>>

\* Mutant of the next definition: at a breakpoint DebugRun waits for a stop.
LeavesUnlessBreakpoint == ~Executing /\ (job = "DebugRun" => ~Continues)

\* The loop is left, a breakpoint is hit, or Step finds the program at its end.
Leaves == ~Executing

\* The function ends.  DebugRun at a breakpoint and Step have noted old_pc.
LeaveFunction ==
    /\ thread = "loop" \/ (thread = "started" /\ job = "Step")
    /\ Leaves
    /\ thread' = "returned"
    /\ current_delta_' =
           IF job = "Step" \/ (job = "DebugRun" /\ Continues)
           THEN [current_delta_ EXCEPT !.old_pc = pc] ELSE current_delta_
    /\ UNCHANGED <<prog, pc, regs, mem, undo_stack_, redo_stack_, main,
                   next_job, job, vm_running, stop_requested_, executed, limit,
                   program_, breakpoints_, input_queue_, buffer, commands>>

\* The lambda of launch_vm_thread resets vm_running behind the function.
EndThread ==
    /\ thread = "returned"
    /\ vm_running' = FALSE
    /\ thread' = "done"
    /\ UNCHANGED <<machine, main, next_job, job, stop_requested_, executed,
                   limit, program_, breakpoints_, input_queue_, buffer,
                   commands>>

ThreadNext == \/ Begin \/ ExecuteInstruction \/ BeginRead \/ FinishRead
              \/ LeaveFunction \/ EndThread

-----------------------------------------------------------------------------
(* The main thread.                                                        *)

Command ==
    /\ main = "ready"
    /\ commands < MaxCommands
    /\ commands' = commands + 1

\* Mutant of the next definition: the thread sets the flag itself, once it runs.
CreateUnflagged(fn) ==
    /\ thread' = "started"
    /\ job' = fn
    /\ UNCHANGED vm_running

\* std::thread: from now on the VM thread runs fn.
CreateThread(fn) ==
    /\ thread' = "started"
    /\ job' = fn
    /\ vm_running' = TRUE

\* launch_vm_thread: a previous thread is stopped and joined first.  (Step is
\* ignored while a function runs.)
Launch(fn) ==
    /\ Command
    /\ fn = "Step" => ~vm_running
    /\ IF thread = "none"
       THEN CreateThread(fn) /\ UNCHANGED <<main, next_job, stop_requested_>>
       ELSE /\ stop_requested_' = TRUE
            /\ main' = "joining"
            /\ next_job' = fn
            /\ UNCHANGED <<thread, job, vm_running>>
    /\ UNCHANGED <<machine, executed, limit, program_, breakpoints_,
                   input_queue_, buffer>>

\* join returns when the VM thread has ended.
FinishLaunch ==
    /\ main = "joining" /\ thread = "done"
    /\ main' = "ready"
    /\ CreateThread(next_job)
    /\ UNCHANGED <<machine, next_job, stop_requested_, executed, limit,
                   program_, breakpoints_, input_queue_, buffer, commands>>

Stop ==
    /\ Command
    /\ stop_requested_' = TRUE
    /\ UNCHANGED <<machine, main, next_job, thread, job, vm_running, executed,
                   limit, program_, breakpoints_, input_queue_, buffer>>

\* exit: stop, join and leave.
Exit ==
    /\ Command
    /\ stop_requested_' = TRUE
    /\ main' = "exiting"
    /\ UNCHANGED <<machine, next_job, thread, job, vm_running, executed, limit,
                   program_, breakpoints_, input_queue_, buffer>>

FinishExit ==
    /\ main = "exiting" /\ Idle
    /\ main' = "exited"
    /\ UNCHANGED <<machine, next_job, thread, job, vm_running, stop_requested_,
                   executed, limit, program_, breakpoints_, input_queue_,
                   buffer, commands>>

\* PushInput wakes the VM thread up if it waits.
VmStdin(line) ==
    /\ Command
    /\ input_queue_' = Append(input_queue_, line)
    /\ UNCHANGED <<machine, control, limit, program_, breakpoints_, buffer>>

\* Mutant of the next definition: an undo is accepted while the machine runs.
UndoAnyTime == Command /\ Undo

UndoCommand == Command /\ ~vm_running /\ Undo
RedoCommand == Command /\ ~vm_running /\ Redo

UndoOrRedo ==
    /\ UndoCommand \/ RedoCommand
    /\ UNCHANGED <<control, limit, program_, breakpoints_, input_queue_,
                   buffer>>

\* RVSSVM::Reset keeps program_, the breakpoints, the input and the stop flag.
ResetCommand ==
    /\ Command
    /\ Reset
    /\ ClearHistory
    /\ UNCHANGED <<control, limit, program_, breakpoints_, input_queue_,
                   buffer>>

\* LoadProgram puts a breakpoint behind the program.  It keeps the PC, the
\* registers, the history and the older breakpoints.
LoadCommand(p) ==
    /\ Command
    /\ LoadProgram(p)
    /\ program_' = p
    /\ breakpoints_' = breakpoints_ \cup {Len(p.text)}
    /\ UNCHANGED <<history, control, limit, input_queue_, buffer>>

\* add_breakpoint and remove_breakpoint, at a line of program_: after a reset the
\* lines of the program before it are still accepted.
ToggleBreakpoint(at) ==
    /\ Command
    /\ at < Len(program_.text)
    /\ breakpoints_' = IF at \in breakpoints_ THEN breakpoints_ \ {at}
                                              ELSE breakpoints_ \cup {at}
    /\ UNCHANGED <<machine, control, limit, program_, input_queue_, buffer>>

ModifyRegister(r, value) ==
    /\ Command
    /\ regs' = WriteGpr(regs, r, value)
    /\ UNCHANGED <<prog, pc, mem, history, control, limit, program_,
                   breakpoints_, input_queue_, buffer>>

\* An access of any width; here a word.
ModifyMemory(address, value) ==
    /\ Command
    /\ mem' = [mem EXCEPT ![address] = value]
    /\ UNCHANGED <<prog, pc, regs, history, control, limit, program_,
                   breakpoints_, input_queue_, buffer>>

\* modify_config: a new machine takes the place of the old one, with the last
\* program loaded again.
ModifyConfig(value) ==
    /\ Command /\ Idle
    /\ limit' = value
    /\ pc' = 0
    /\ regs' = ZeroRegisters
    /\ mem' = LoadData(ZeroMemory, prog.data)
    /\ program_' = prog
    /\ breakpoints_' = IF prog = NoProgram THEN {} ELSE {program_size}
    /\ input_queue_' = << >>
    /\ stop_requested_' = FALSE
    /\ ClearHistory
    /\ UNCHANGED <<prog, main, next_job, thread, job, vm_running, executed,
                   buffer>>

\* What a command does to the machine outside of its instructions.
Intervention ==
    \/ ResetCommand
    \/ \E p \in Programs : LoadCommand(p)
    \/ \E r \in Reg \ {0}, value \in UserValues : ModifyRegister(r, value)
    \/ \E a \in UserAddresses, value \in UserValues : ModifyMemory(a, value)
    \/ \E value \in Limits : ModifyConfig(value)

\* The commands that leave the machine alone.
Supervision ==
    \/ \E fn \in Jobs : Launch(fn)
    \/ Stop \/ Exit
    \/ \E line \in Lines : VmStdin(line)
    \/ \E at \in UserPoints : ToggleBreakpoint(at)

MainNext == \/ Supervision \/ Intervention \/ UndoOrRedo
            \/ FinishLaunch \/ FinishExit

-----------------------------------------------------------------------------

\* The session starts with a program loaded into a new machine.
SessionInit ==
    /\ RunInit
    /\ undo_stack_ = << >> /\ redo_stack_ = << >>
    /\ current_delta_ = EmptyDelta
    /\ main = "ready" /\ next_job = "Run"
    /\ thread = "none" /\ job = "Run"
    /\ vm_running = FALSE
    /\ stop_requested_ = FALSE
    /\ executed = 0
    /\ limit \in Limits
    /\ program_ = prog
    /\ breakpoints_ = {program_size}
    /\ input_queue_ = << >>
    /\ buffer = 0
    /\ commands = 0

SessionNext == ThreadNext \/ MainNext

\* The operating system schedules both threads; the user owes no command.
Fairness == /\ WF_sessionVars(ThreadNext)
            /\ WF_sessionVars(FinishLaunch) /\ WF_sessionVars(FinishExit)

SessionSpec == SessionInit /\ [][SessionNext]_sessionVars /\ Fairness
==============================================================================
