----------------------------- MODULE RvssHistory -----------------------------
(***************************************************************************)
(* The undo history of RVSSVM.  Every instruction notes in current_delta_  *)
(* the registers and the memory it changes, whoever executes it.  Step and *)
(* DebugRun then push the delta on the undo stack and start a new one; Run *)
(* does not.  Undo and Redo write the old or the new values back.          *)
(***************************************************************************)
EXTENDS SingleCycle

VARIABLES
    undo_stack_,     \* the top is the last element
    redo_stack_,
    current_delta_   \* what was changed since the last push

history == <<undo_stack_, redo_stack_, current_delta_>>

\* RegisterChange and MemoryChange; the bytes of a store are one memory word.
Change(Location) == [at : Location, old_value : Word, new_value : Word]
StepDelta == [old_pc : Word, new_pc : Word,
              register_changes : Seq(Change(Reg)),
              memory_changes : Seq(Change(Word))]
EmptyDelta == [old_pc |-> 0, new_pc |-> 0,
               register_changes |-> << >>, memory_changes |-> << >>]

-----------------------------------------------------------------------------

\* The change at x from f to g: none if the value stays the same.
ChangeAt(x, f, g) ==
    IF f[x] = g[x] THEN << >>
    ELSE <<[at |-> x, old_value |-> f[x], new_value |-> g[x]]>>

Noting(delta, register_changes, memory_changes) ==
    [delta EXCEPT !.register_changes = @ \o register_changes,
                  !.memory_changes = @ \o memory_changes]

\* current_delta_ after WriteMemory and WriteBack of instruction i.
DeltaAfter(i) ==
    Noting(current_delta_,
           ChangeAt(i.rd, regs, WriteBack(i)),
           IF mem_write_(i.op)
           THEN ChangeAt(ExecutionResult(i), mem, WriteMemory(i)) ELSE << >>)

\* Step and DebugRun push the delta of the instruction they have executed.
Push(delta) ==
    /\ undo_stack_' = Append(undo_stack_, delta)
    /\ redo_stack_' = << >>
    /\ current_delta_' = EmptyDelta

\* The loop body of Run.
UnrecordedInstruction ==
    /\ Step
    /\ current_delta_' = DeltaAfter(prog.text[pc + 1])
    /\ UNCHANGED <<undo_stack_, redo_stack_>>

\* Step, and the loop body of DebugRun.
RecordedInstruction ==
    /\ Step
    /\ Push([DeltaAfter(prog.text[pc + 1]) EXCEPT !.old_pc = pc,
                                                 !.new_pc = pc'])

-----------------------------------------------------------------------------

\* The changes are written back from the first to the last, so that of several
\* changes of a location the last one counts.
Last(changes, x) ==
    CHOOSE k \in DOMAIN changes :
        /\ changes[k].at = x
        /\ \A j \in DOMAIN changes : changes[j].at = x => j <= k
Changed(changes) == {changes[k].at : k \in DOMAIN changes}

Restored(f, changes) ==
    [x \in DOMAIN f |-> IF x \in Changed(changes)
                        THEN changes[Last(changes, x)].old_value ELSE f[x]]

Repeated(f, changes) ==
    [x \in DOMAIN f |-> IF x \in Changed(changes)
                        THEN changes[Last(changes, x)].new_value ELSE f[x]]

Top(stack) == stack[Len(stack)]
Popped(stack) == SubSeq(stack, 1, Len(stack) - 1)

Undo ==
    /\ undo_stack_ # << >>
    /\ LET last == Top(undo_stack_) IN
        /\ regs' = Restored(regs, last.register_changes)
        /\ mem'  = Restored(mem, last.memory_changes)
        /\ pc'   = last.old_pc
        /\ undo_stack_' = Popped(undo_stack_)
        /\ redo_stack_' = Append(redo_stack_, last)
    /\ UNCHANGED <<prog, current_delta_>>

Redo ==
    /\ redo_stack_ # << >>
    /\ LET next == Top(redo_stack_) IN
        /\ regs' = Repeated(regs, next.register_changes)
        /\ mem'  = Repeated(mem, next.memory_changes)
        /\ pc'   = next.new_pc
        /\ redo_stack_' = Popped(redo_stack_)
        /\ undo_stack_' = Append(undo_stack_, next)
    /\ UNCHANGED <<prog, current_delta_>>

ClearHistory ==
    /\ undo_stack_' = << >>
    /\ redo_stack_' = << >>
    /\ current_delta_' = EmptyDelta
==============================================================================
