------------------------- MODULE VmSessionProperties -------------------------
(***************************************************************************)
(* What the session promises its user: the flag tells whether the VM       *)
(* thread runs, the threads do not wait for each other without need, and   *)
(* undo goes back in the history of the steps.                             *)
(***************************************************************************)
EXTENDS VmSession

VARIABLE
    recorded   \* every change since the stacks were empty was pushed on them

hvars == <<sessionVars, recorded>>

NothingRecorded ==
    /\ undo_stack_ = << >> /\ redo_stack_ = << >>
    /\ current_delta_.register_changes = << >>
    /\ current_delta_.memory_changes = << >>

\* Run executes an instruction: nothing is pushed.
RunsUnrecorded == job = "Run" /\ (Executing \/ thread = "stdin")

HInit == SessionInit /\ recorded = TRUE

HNext ==
    \/ ThreadNext /\ recorded' = (recorded /\ ~RunsUnrecorded)
    \/ /\ Supervision \/ UndoOrRedo \/ FinishLaunch \/ FinishExit
       /\ UNCHANGED recorded
    \/ Intervention /\ recorded' = NothingRecorded'

HSpec == HInit /\ [][HNext]_hvars /\ Fairness

-----------------------------------------------------------------------------

\* Type invariant: what is popped from the stacks are the deltas of Push.
SessionTypeOK ==
    /\ TypeOK
    /\ undo_stack_ \in Seq(StepDelta) /\ redo_stack_ \in Seq(StepDelta)
    /\ current_delta_ \in StepDelta
    /\ main \in {"ready", "joining", "exiting", "exited"}
    /\ thread \in {"none", "started", "loop", "stdin", "returned", "done"}
    /\ {job, next_job} \subseteq Jobs
    /\ vm_running \in BOOLEAN /\ stop_requested_ \in BOOLEAN
    /\ executed \in Nat /\ limit \in Limits
    /\ program_ \in Programs \cup {NoProgram}
    /\ breakpoints_ \subseteq Word
    /\ input_queue_ \in Seq(Lines)
    /\ buffer \in Word
    /\ commands \in 0 .. MaxCommands

\* When vm_running is false no VM thread uses the machine.  Step, undo and redo
\* rely on it: main.cpp asks the flag, which each thread resets, and no lock.
FlagFollowsThread == ~vm_running => Idle

\* A launch and an exit, which join the VM thread, succeed: a stop that came too
\* early for the thread is made up for by the limit.  Only a read system call
\* without input keeps them waiting.
OnlyReadBlocks ==
    main \in {"joining", "exiting"}
        ~> \/ main \in {"ready", "exited"}
           \/ thread = "stdin" /\ input_queue_ = << >>

-----------------------------------------------------------------------------
(* The deltas stand for a history of whole states.                         *)

\* A read in progress has moved the PC, but its step is not done.
StepPc == IF thread = "stdin" THEN current_delta_.old_pc ELSE pc

Undone(state, delta) == [pc   |-> delta.old_pc,
                         regs |-> Restored(state.regs, delta.register_changes),
                         mem  |-> Restored(state.mem, delta.memory_changes)]
Redone(state, delta) == [pc   |-> delta.new_pc,
                         regs |-> Repeated(state.regs, delta.register_changes),
                         mem  |-> Repeated(state.mem, delta.memory_changes)]

Present == [pc |-> StepPc, regs |-> regs, mem |-> mem]

\* The states that repeated undo, or redo, leads to: stack by stack the k-th
\* state is that below the k-th element.
Unwound(stack, Apply(_, _)) ==
    LET state[k \in 1 .. Len(stack)] ==
            Apply(IF k = Len(stack) THEN Present ELSE state[k + 1], stack[k])
    IN  state

Past   == Unwound(undo_stack_, Undone)
Future == Unwound(redo_stack_, Redone)

History == INSTANCE StepHistory WITH past <- Past,
                                     present <- Present,
                                     future <- Future

\* Undo and redo implement a history of whole states, as long as Run is not used
\* and the user does not change the machine behind its back: across any sequence
\* of steps, reads that wait, resets, undos and redos, of either thread.
ImplementsStepHistory ==
    [][recorded /\ recorded' => [History!Next]_(History!vars)]_hvars

\* The inductive invariant behind it: no change waits to be pushed, and every
\* delta leads back and forth between two neighbours of the history.
Neighbour(states, k) == IF k = Len(states) THEN Present ELSE states[k + 1]
Retraceable ==
    recorded =>
        /\ current_delta_.register_changes = << >>
        /\ current_delta_.memory_changes = << >>
        /\ \A k \in 1 .. Len(undo_stack_) :
              Redone(Past[k], undo_stack_[k]) = Neighbour(Past, k)
        /\ \A k \in 1 .. Len(redo_stack_) :
              Undone(Future[k], redo_stack_[k]) = Neighbour(Future, k)

-----------------------------------------------------------------------------
(* What the documentation says, and the code does not do.                  *)

\* COMMANDS.md: undo "reverts the last executed step".  So whenever a step has
\* been pushed, undoing it leads back to where the step began.
UndoRevertsLastStep ==
    [][RecordedInstruction =>
        Undone(Present', Top(undo_stack_')) = Present]_hvars

\* main.cpp, at the join of exit: "ensure clean exit".
CleanExit == main = "exiting" ~> main = "exited"
==============================================================================
