--------------------------- MODULE VmSession_proof ---------------------------
(***************************************************************************)
(* What holds of the interactive session for every program, limit, line    *)
(* and length, and in every order of its two threads.                      *)
(*                                                                         *)
(* The flag vm_running follows the VM thread: the invariant is inductive   *)
(* as it stands, since only EndThread resets the flag and a thread is      *)
(* created with the flag set.                                              *)
(*                                                                         *)
(* Undo and redo implement a history of whole states.  The states that a   *)
(* stack of deltas stands for are found by applying the deltas from the    *)
(* top down, a recursive function.  That it exists and is unique is shown  *)
(* first, for any function in the place of undo (Unwinding a stack).  Then *)
(* a push, and the move of a delta from one stack to the other, are        *)
(* followed through it; they do what the history does if every delta leads *)
(* back over the way it led before (Retraceable), which is the inductive   *)
(* invariant.  A recorded instruction, and a read in its two halves, push  *)
(* such a delta.                                                           *)
(***************************************************************************)
EXTENDS VmSessionProperties, RvssHistory_proof, SequenceTheorems

-----------------------------------------------------------------------------
(* The flag                                                                *)

\* The VM thread lowers the flag last, and nothing it does before raises or
\* lowers it.
LEMMA ThreadKeepsFlag ==
    ASSUME FlagFollowsThread, ThreadNext
    PROVE  FlagFollowsThread'
<1>1. CASE Begin
  BY <1>1 DEF Begin, FlagFollowsThread, Idle
<1>2. CASE ExecuteInstruction
  BY <1>2 DEF ExecuteInstruction, Executing, FlagFollowsThread, Idle
<1>3. CASE BeginRead
  BY <1>3 DEF BeginRead, Executing, FlagFollowsThread, Idle
<1>4. CASE FinishRead
  BY <1>4 DEF FinishRead, FlagFollowsThread, Idle
<1>5. CASE LeaveFunction
  BY <1>5 DEF LeaveFunction, FlagFollowsThread, Idle
<1>6. CASE EndThread
  BY <1>6 DEF EndThread, FlagFollowsThread, Idle
<1> QED
  BY <1>1, <1>2, <1>3, <1>4, <1>5, <1>6 DEF ThreadNext

\* A thread is created with the flag set; no other command touches the two.
LEMMA MainKeepsFlag ==
    ASSUME FlagFollowsThread, MainNext
    PROVE  FlagFollowsThread'
<1>1. ASSUME NEW fn \in Jobs, Launch(fn)
      PROVE  FlagFollowsThread'
  <2>1. CASE thread = "none"
    BY <1>1, <2>1 DEF Launch, CreateThread, FlagFollowsThread, Idle
  <2>2. CASE thread # "none"
    BY <1>1, <2>2 DEF Launch, FlagFollowsThread, Idle
  <2> QED
    BY <2>1, <2>2
<1>2. CASE FinishLaunch
  BY <1>2 DEF FinishLaunch, CreateThread, FlagFollowsThread, Idle
<1>3. SUFFICES ASSUME UNCHANGED <<vm_running, thread>>
               PROVE  FlagFollowsThread'
  <2>1. Supervision => UNCHANGED <<vm_running, thread>>
                       \/ \E fn \in Jobs : Launch(fn)
    BY DEF Supervision, Stop, Exit, VmStdin, ToggleBreakpoint, control
  <2>2. Intervention => UNCHANGED <<vm_running, thread>>
    BY DEF Intervention, ResetCommand, LoadCommand, ModifyRegister,
           ModifyMemory, ModifyConfig, control
  <2>3. UndoOrRedo \/ FinishExit => UNCHANGED <<vm_running, thread>>
    BY DEF UndoOrRedo, FinishExit, control
  <2> QED
    BY <1>1, <1>2, <1>3, <2>1, <2>2, <2>3 DEF MainNext
<1> QED
  BY <1>3 DEF FlagFollowsThread, Idle

\* While vm_running is false no VM thread uses the machine, whatever the user
\* types and however the two threads interleave: step, undo and redo, which ask
\* the flag only, never run against the VM thread.
THEOREM FlagFollows == HSpec => []FlagFollowsThread
<1>1. HInit => FlagFollowsThread
  BY DEF HInit, SessionInit, FlagFollowsThread, Idle
<1>2. FlagFollowsThread /\ [HNext]_hvars => FlagFollowsThread'
  <2>1. HNext => ThreadNext \/ MainNext
    BY DEF HNext, MainNext
  <2>2. UNCHANGED hvars => UNCHANGED <<vm_running, thread>>
    BY DEF hvars, sessionVars, control
  <2>3. UNCHANGED <<vm_running, thread>> /\ FlagFollowsThread
            => FlagFollowsThread'
    BY DEF FlagFollowsThread, Idle
  <2> QED
    BY <2>1, <2>2, <2>3, ThreadKeepsFlag, MainKeepsFlag
<1> QED
  BY <1>1, <1>2, PTL DEF HSpec

-----------------------------------------------------------------------------
(* Types                                                                   *)

\* The session begins with a machine, two empty stacks and an empty delta.
LEMMA SessionInitType == SessionInit => SessionTypeOK
<1> SUFFICES ASSUME SessionInit
             PROVE  SessionTypeOK
  OBVIOUS
<1>1. TypeOK /\ program_size \in Word
  BY ZeroTypes, LoadDataType, TextType, WordFacts
  DEF SessionInit, RunInit, TypeOK, program_size
<1>2. EmptyDelta \in StepDelta
  BY WordFacts DEF EmptyDelta, StepDelta
<1>3. /\ undo_stack_ \in Seq(StepDelta) /\ redo_stack_ \in Seq(StepDelta)
      /\ current_delta_ \in StepDelta /\ input_queue_ \in Seq(Lines)
  BY <1>2 DEF SessionInit
<1>4. /\ vm_running \in BOOLEAN /\ stop_requested_ \in BOOLEAN
      /\ {job, next_job} \subseteq Jobs
      /\ breakpoints_ \subseteq Word
      /\ program_ \in Programs \cup {NoProgram}
  BY <1>1 DEF SessionInit, Jobs, TypeOK
<1>5. /\ main = "ready" /\ thread = "none" /\ executed = 0 /\ limit \in Limits
      /\ buffer = 0 /\ commands \in 0 .. MaxCommands
  BY SessionAssumption DEF SessionInit
<1>6. QED
  BY <1>1, <1>3, <1>4, <1>5, WordFacts DEF SessionTypeOK

\* What the stacks hold after a push, an undo or a redo are deltas.
LEMMA PushType ==
    ASSUME undo_stack_ \in Seq(StepDelta), NEW delta \in StepDelta, Push(delta)
    PROVE  /\ undo_stack_' \in Seq(StepDelta)
           /\ redo_stack_' \in Seq(StepDelta)
           /\ current_delta_' \in StepDelta
<1>1. EmptyDelta \in StepDelta
  BY WordFacts DEF EmptyDelta, StepDelta
<1>2. QED
  BY <1>1 DEF Push

\* What is popped is a delta, and what is left a stack.
LEMMA TopType ==
    ASSUME NEW stack \in Seq(StepDelta), stack # << >>
    PROVE  Top(stack) \in StepDelta /\ Popped(stack) \in Seq(StepDelta)
<1>1. Len(stack) \in Nat \ {0}
  OBVIOUS
<1>2. QED
  BY <1>1 DEF Top, Popped

\* The VM thread keeps the types: an instruction, a read in its two halves and
\* the begin and the end of a function.
LEMMA ThreadType ==
    ASSUME SessionTypeOK, ThreadNext
    PROVE  SessionTypeOK'
<1> USE DEF SessionTypeOK
<1>1. CASE Begin
  BY <1>1 DEF Begin, machine, history, TypeOK
<1>2. CASE ExecuteInstruction
  <2>1. Step /\ TypeOK'
    BY <1>2, SingleStepType
    DEF ExecuteInstruction, UnrecordedInstruction, RecordedInstruction
  <2>2. DeltaAfter(prog.text[pc + 1]) \in StepDelta
    BY <2>1, StepInstruction, DeltaType
  <2>3. /\ undo_stack_' \in Seq(StepDelta) /\ redo_stack_' \in Seq(StepDelta)
        /\ current_delta_' \in StepDelta
    <3>1. CASE UnrecordedInstruction
      BY <2>2, <3>1 DEF UnrecordedInstruction
    <3>2. CASE RecordedInstruction
      <4> DEFINE delta == [DeltaAfter(prog.text[pc + 1])
                               EXCEPT !.old_pc = pc, !.new_pc = pc']
      <4>1. delta \in StepDelta
        BY <2>1, <2>2 DEF TypeOK, StepDelta
      <4>2. Push(delta)
        BY <3>2 DEF RecordedInstruction
      <4> HIDE DEF delta
      <4>3. QED
        BY <4>1, <4>2, PushType
    <3>3. QED
      BY <1>2, <3>1, <3>2 DEF ExecuteInstruction
  <2>4. QED
    BY <1>2, <2>1, <2>3 DEF ExecuteInstruction, AfterInstruction
<1>3. CASE BeginRead
  <2>1. pc \in Word /\ regs[A1] \in Word /\ UpdateProgramCounter(pc, 1) \in Word
    BY SessionAssumption, PcType, WordFacts DEF TypeOK
  <2>2. [current_delta_ EXCEPT !.old_pc = pc] \in StepDelta
    BY <2>1 DEF StepDelta
  <2>3. QED
    BY <1>3, <2>1, <2>2 DEF BeginRead, TypeOK
<1>4. CASE FinishRead
  <2>1. /\ buffer \in Word /\ A0 \in Reg /\ pc \in Word
        /\ regs \in [Reg -> Word] /\ mem \in [Word -> Word]
    BY SessionAssumption DEF TypeOK
  <2>2. Head(input_queue_) \in Word /\ Tail(input_queue_) \in Seq(Lines)
    BY <1>4, SessionAssumption DEF FinishRead
  <2>3. mem' \in [Word -> Word] /\ regs' \in [Reg -> Word]
    BY <1>4, <2>1, <2>2, WriteGprType, WordFacts DEF FinishRead
  <2> DEFINE change == [at |-> buffer, old_value |-> mem[buffer],
                        new_value |-> Head(input_queue_)]
             delta == Noting(current_delta_, ChangeAt(A0, regs, regs'),
                             <<change>>)
             pushed == [delta EXCEPT !.new_pc = pc]
  <2>4. change \in Change(Word)
    BY <2>1, <2>2 DEF Change
  <2>5. IF job = "Run"
        THEN current_delta_' = delta /\ UNCHANGED <<undo_stack_, redo_stack_>>
        ELSE Push(pushed)
    BY <1>4 DEF FinishRead
  <2> HIDE DEF change
  <2>6. delta \in StepDelta
    <3>1. <<change>> \in Seq(Change(Word))
      BY <2>4
    <3>2. QED
      BY <2>1, <2>3, <3>1, ChangeAtType, NotingType
  <2> HIDE DEF delta
  <2>7. pushed \in StepDelta
    BY <2>1, <2>6 DEF StepDelta
  <2> HIDE DEF pushed
  <2>8. /\ undo_stack_' \in Seq(StepDelta) /\ redo_stack_' \in Seq(StepDelta)
        /\ current_delta_' \in StepDelta
    BY <2>5, <2>6, <2>7, PushType
  <2>9. QED
    BY <1>4, <2>2, <2>3, <2>8 DEF FinishRead, AfterInstruction, TypeOK
<1>5. CASE LeaveFunction
  <2>1. [current_delta_ EXCEPT !.old_pc = pc] \in StepDelta
    BY DEF StepDelta, TypeOK
  <2>2. QED
    BY <1>5, <2>1 DEF LeaveFunction, TypeOK
<1>6. CASE EndThread
  BY <1>6 DEF EndThread, machine, history, TypeOK
<1>7. QED
  BY <1>1, <1>2, <1>3, <1>4, <1>5, <1>6 DEF ThreadNext

\* So do the commands.
LEMMA InterventionType ==
    ASSUME SessionTypeOK, Intervention
    PROVE  SessionTypeOK'
<1> USE DEF SessionTypeOK
<1>1. Command /\ commands' \in 0 .. MaxCommands
  BY SessionAssumption
  DEF Intervention, ResetCommand, LoadCommand, ModifyRegister, ModifyMemory,
      ModifyConfig, Command
<1>2. EmptyDelta \in StepDelta
  BY WordFacts DEF EmptyDelta, StepDelta
<1>3. CASE ResetCommand
  BY <1>1, <1>2, <1>3, ZeroTypes, WordFacts
  DEF ResetCommand, Reset, ClearHistory, control, TypeOK
<1>4. ASSUME NEW p \in Programs, LoadCommand(p)
      PROVE  SessionTypeOK'
  <2>1. TypeOK' /\ Len(p.text) \in Word
    BY <1>4, LoadDataType, TextType DEF LoadCommand, LoadProgram, TypeOK
  <2>2. QED
    BY <1>1, <1>4, <2>1 DEF LoadCommand, history, control
<1>5. ASSUME NEW r \in Reg \ {0}, NEW value \in UserValues,
             ModifyRegister(r, value)
      PROVE  SessionTypeOK'
  <2>1. TypeOK'
    BY <1>5, WriteGprType, SessionAssumption DEF ModifyRegister, TypeOK
  <2>2. QED
    BY <1>1, <1>5, <2>1 DEF ModifyRegister, history, control
<1>6. ASSUME NEW a \in UserAddresses, NEW value \in UserValues,
             ModifyMemory(a, value)
      PROVE  SessionTypeOK'
  <2>1. TypeOK'
    BY <1>6, SessionAssumption DEF ModifyMemory, TypeOK
  <2>2. QED
    BY <1>1, <1>6, <2>1 DEF ModifyMemory, history, control
<1>7. ASSUME NEW value \in Limits, ModifyConfig(value)
      PROVE  SessionTypeOK'
  <2>1. TypeOK' /\ program_size \in Word /\ program_' = prog
    BY <1>7, LoadDataType, TextType, ZeroTypes, WordFacts
    DEF ModifyConfig, TypeOK, program_size
  <2>2. /\ undo_stack_' \in Seq(StepDelta) /\ redo_stack_' \in Seq(StepDelta)
        /\ current_delta_' \in StepDelta /\ input_queue_' \in Seq(Lines)
    BY <1>2, <1>7 DEF ModifyConfig, ClearHistory
  <2>3. /\ vm_running' \in BOOLEAN /\ stop_requested_' \in BOOLEAN
        /\ breakpoints_' \subseteq Word /\ limit' \in Limits
    BY <1>7, <2>1 DEF ModifyConfig
  <2>4. UNCHANGED <<main, next_job, thread, job, executed, buffer>>
    BY <1>7 DEF ModifyConfig
  <2> QED
    BY <1>1, <2>1, <2>2, <2>3, <2>4 DEF TypeOK
<1>8. QED
  BY <1>3, <1>4, <1>5, <1>6, <1>7 DEF Intervention

\* Undo and redo write words back, whatever the delta holds.
LEMMA UndoType ==
    ASSUME SessionTypeOK, UndoOrRedo
    PROVE  SessionTypeOK'
<1> USE DEF SessionTypeOK
<1>1. commands' \in 0 .. MaxCommands /\ (Undo \/ Redo)
  BY SessionAssumption DEF UndoOrRedo, UndoCommand, RedoCommand, Command
<1>2. CASE Undo
  <2> DEFINE last == Top(undo_stack_)
  <2>1. last \in StepDelta /\ Popped(undo_stack_) \in Seq(StepDelta)
    BY <1>2, TopType DEF Undo
  <2> HIDE DEF last
  <2>2. /\ last.old_pc \in Word
        /\ last.register_changes \in Seq(Change(Reg))
        /\ last.memory_changes \in Seq(Change(Word))
    BY <2>1 DEF StepDelta
  <2>3. /\ regs' = Restored(regs, last.register_changes)
        /\ mem' = Restored(mem, last.memory_changes)
        /\ pc' = last.old_pc
        /\ undo_stack_' = Popped(undo_stack_)
        /\ redo_stack_' = Append(redo_stack_, last)
        /\ UNCHANGED <<prog, current_delta_>>
    BY <1>2 DEF Undo, last
  <2>4. TypeOK'
    BY <2>2, <2>3, RestoredType DEF TypeOK
  <2>5. QED
    BY <1>1, <2>1, <2>3, <2>4 DEF UndoOrRedo, control
<1>3. CASE Redo
  <2> DEFINE next == Top(redo_stack_)
  <2>1. next \in StepDelta /\ Popped(redo_stack_) \in Seq(StepDelta)
    BY <1>3, TopType DEF Redo
  <2> HIDE DEF next
  <2>2. /\ next.new_pc \in Word
        /\ next.register_changes \in Seq(Change(Reg))
        /\ next.memory_changes \in Seq(Change(Word))
    BY <2>1 DEF StepDelta
  <2>3. /\ regs' = Repeated(regs, next.register_changes)
        /\ mem' = Repeated(mem, next.memory_changes)
        /\ pc' = next.new_pc
        /\ redo_stack_' = Popped(redo_stack_)
        /\ undo_stack_' = Append(undo_stack_, next)
        /\ UNCHANGED <<prog, current_delta_>>
    BY <1>3 DEF Redo, next
  <2>4. TypeOK'
    BY <2>2, <2>3, RestoredType DEF TypeOK
  <2>5. QED
    BY <1>1, <2>1, <2>3, <2>4 DEF UndoOrRedo, control
<1>4. QED
  BY <1>1, <1>2, <1>3

\* The commands that leave the machine alone.
LEMMA SupervisionType ==
    ASSUME SessionTypeOK, Supervision \/ FinishLaunch \/ FinishExit
    PROVE  SessionTypeOK'
<1> USE DEF SessionTypeOK, machine, history, control
<1>1. ASSUME NEW fn \in Jobs, Launch(fn)
      PROVE  SessionTypeOK'
  <2>1. /\ UNCHANGED <<machine, executed, limit, program_, breakpoints_,
                       input_queue_, buffer>>
        /\ commands' \in 0 .. MaxCommands
        /\ {job', next_job'} \subseteq Jobs
        /\ main' \in {main, "joining"} /\ thread' \in {thread, "started"}
    BY <1>1, SessionAssumption DEF Launch, CreateThread, Command
  <2>2. vm_running' \in BOOLEAN /\ stop_requested_' \in BOOLEAN
    BY <1>1 DEF Launch, CreateThread
  <2>3. QED
    BY <2>1, <2>2 DEF TypeOK
<1>2. CASE Stop \/ Exit
  <2>1. /\ UNCHANGED <<machine, next_job, thread, job, vm_running, executed,
                       limit, program_, breakpoints_, input_queue_, buffer>>
        /\ main' \in {main, "exiting"}
    BY <1>2 DEF Stop, Exit, Command
  <2>2. commands' \in 0 .. MaxCommands
    BY <1>2, SessionAssumption DEF Stop, Exit, Command
  <2>3. stop_requested_' \in BOOLEAN
    BY <1>2 DEF Stop, Exit
  <2>4. QED
    BY <2>1, <2>2, <2>3 DEF TypeOK
<1>3. ASSUME NEW line \in Lines, VmStdin(line)
      PROVE  SessionTypeOK'
  BY <1>3, SessionAssumption DEF VmStdin, Command, TypeOK
<1>4. ASSUME NEW at \in UserPoints, ToggleBreakpoint(at)
      PROVE  SessionTypeOK'
  BY <1>4, SessionAssumption DEF ToggleBreakpoint, Command, TypeOK
<1>5. CASE FinishLaunch
  BY <1>5 DEF FinishLaunch, CreateThread, TypeOK
<1>6. CASE FinishExit
  BY <1>6 DEF FinishExit, TypeOK
<1>7. QED
  BY <1>1, <1>2, <1>3, <1>4, <1>5, <1>6 DEF Supervision

\* Whatever the user types while the VM thread runs, the machine stays one: in
\* particular the stacks hold the deltas of Push, and undo and redo write words
\* back, even if the delta was noted by a run or for another program.
THEOREM TypeCorrect == HSpec => []SessionTypeOK
<1>1. HInit => SessionTypeOK
  BY SessionInitType DEF HInit
<1>2. SessionTypeOK /\ [HNext]_hvars => SessionTypeOK'
  <2>1. UNCHANGED hvars /\ SessionTypeOK => SessionTypeOK'
    BY DEF hvars, sessionVars, machine, history, control, SessionTypeOK, TypeOK
  <2>2. QED
    BY <2>1, ThreadType, InterventionType, UndoType, SupervisionType DEF HNext
<1>3. QED
  BY <1>1, <1>2, PTL DEF HSpec

-----------------------------------------------------------------------------
(* Unwinding a stack of n deltas, d.  F[s][x] stands for Undone(s, x) or   *)
(* for Redone(s, x).                                                       *)

\* What the k-th delta is applied to.
Source(states, base, n, k) == IF k = n THEN base ELSE states[k + 1]

\* The states that the deltas lead to, from the top of the stack down.
Unwinds(F, n, d, base, states, S) ==
    /\ states \in [1 .. n -> S]
    /\ \A k \in 1 .. n : states[k] = F[Source(states, base, n, k)][d[k]]

\* What says the same of a function of which no more is known.
Follows(F, n, d, base, states, S) ==
    /\ states = [k \in 1 .. n |-> states[k]]
    /\ \A k \in 1 .. n :
          Source(states, base, n, k) \in S =>
              states[k] = F[Source(states, base, n, k)][d[k]]

\* States that unwind it down to position b.
UnwindsTo(F, b, n, d, base, S) ==
    \E f \in [b .. n -> S] :
        \A k \in b .. n : f[k] = F[Source(f, base, n, k)][d[k]]

\* Popped has a counterpart.
Pushed(stack, delta) == Append(stack, delta)

\* A stack as a function on its positions, and back.
LEMMA StackIsFunction ==
    ASSUME NEW S, NEW s \in Seq(S)
    PROVE  Len(s) \in Nat /\ s \in [1 .. Len(s) -> S]
OBVIOUS

\* A function on the positions of a stack is a stack.
LEMMA FunctionIsStack ==
    ASSUME NEW S, NEW n \in Nat, NEW f \in [1 .. n -> S]
    PROVE  f \in Seq(S) /\ Len(f) = n
OBVIOUS

\* A push puts its element behind the others.
LEMMA PushedElements ==
    ASSUME NEW S, NEW s \in Seq(S), NEW x \in S
    PROVE  /\ Len(Pushed(s, x)) = Len(s) + 1
           /\ Pushed(s, x) \in [1 .. Len(s) + 1 -> S]
           /\ Pushed(s, x)[Len(s) + 1] = x
           /\ \A k \in 1 .. Len(s) : Pushed(s, x)[k] = s[k]
<1> DEFINE t == Pushed(s, x)
<1>1. /\ t \in Seq(S) /\ Len(t) = Len(s) + 1 /\ t[Len(s) + 1] = x
      /\ \A k \in 1 .. Len(s) : t[k] = s[k]
  BY AppendProperties DEF Pushed
<1> HIDE DEF t
<1>2. t \in [1 .. Len(s) + 1 -> S]
  BY <1>1, LenProperties
<1>3. QED
  BY <1>1, <1>2 DEF t

\* A pop keeps the elements below the top.
LEMMA PoppedElements ==
    ASSUME NEW S, NEW s \in Seq(S), s # << >>
    PROVE  /\ Len(s) \in Nat \ {0} /\ Len(Popped(s)) = Len(s) - 1
           /\ Popped(s) \in [1 .. Len(s) - 1 -> S]
           /\ \A k \in 1 .. Len(s) - 1 : Popped(s)[k] = s[k]
<1>1. Len(s) \in Nat \ {0}
  BY EmptySeq
<1>2. \A k \in 1 .. Len(s) - 1 : s[k] \in S
  BY <1>1, ElementOfSeq
<1> DEFINE n == Len(s) - 1
           t == SubSeq(s, 1, n)
<1>3. /\ t \in Seq(S) /\ Len(t) = IF 1 <= n THEN n - 1 + 1 ELSE 0
      /\ \A k \in 1 .. n - 1 + 1 : t[k] = s[1 + k - 1]
  <2>1. 1 \in Int /\ n \in Int
    BY <1>1
  <2> HIDE DEF n
  <2>2. QED
    BY <1>2, <2>1, SubSeqProperties DEF n
<1>4. n \in Nat
  BY <1>1
<1> HIDE DEF n, t
<1>5. Len(t) = n /\ n - 1 + 1 = n /\ \A k \in 1 .. n : 1 + k - 1 = k
  BY <1>3, <1>4
<1>6. t \in [1 .. n -> S] /\ \A k \in 1 .. n : t[k] = s[k]
  BY <1>3, <1>5, LenProperties
<1>7. Popped(s) = t /\ n = Len(s) - 1
  BY DEF Popped, t, n
<1>8. QED
  BY <1>1, <1>5, <1>6, <1>7

\* Induction over the natural numbers, for a set.
LEMMA NaturalInduction ==
    ASSUME NEW T, 0 \in T, \A n \in Nat : n \in T => n + 1 \in T
    PROVE  Nat \subseteq T
<1>1. SUFFICES ASSUME Nat \ T # {}
               PROVE  FALSE
  OBVIOUS
<1>2. PICK n \in Nat \ T : \A m \in Nat \ T : n <= m
  BY <1>1, SmallestNat
<1>3. n - 1 \in Nat /\ n - 1 \in T
  BY <1>2
<1>4. QED
  BY <1>2, <1>3

\* One delta more, below those unwound so far: b is its position.
LEMMA UnwindOneMore ==
    ASSUME NEW S, NEW D, NEW F \in [S -> [D -> S]],
           NEW n \in Nat, NEW d \in [1 .. n -> D], NEW base \in S,
           NEW b \in 1 .. n, UnwindsTo(F, b + 1, n, d, base, S)
    PROVE  UnwindsTo(F, b, n, d, base, S)
<1> PICK f \in [b + 1 .. n -> S] :
        \A k \in b + 1 .. n : f[k] = F[Source(f, base, n, k)][d[k]]
  BY DEF UnwindsTo
<1> DEFINE new == F[Source(f, base, n, b)][d[b]]
           g == [k \in b .. n |-> IF k = b THEN new ELSE f[k]]
<1>1. new \in S
  <2>1. Source(f, base, n, b) \in S
    BY DEF Source
  <2>2. QED
    BY <2>1
<1> HIDE DEF new
<1>2. g \in [b .. n -> S] /\ \A k \in b .. n : k # b => g[k] = f[k]
  BY <1>1
<1>3. g[b] = new
  OBVIOUS
<1> HIDE DEF g
<1>4. ASSUME NEW k \in b .. n
      PROVE  Source(g, base, n, k) = Source(f, base, n, k)
  <2>1. k # n => k + 1 \in b .. n /\ k + 1 # b
    OBVIOUS
  <2>2. QED
    BY <1>2, <2>1 DEF Source
<1>5. ASSUME NEW k \in b .. n
      PROVE  g[k] = F[Source(g, base, n, k)][d[k]]
  <2>1. CASE k = b
    BY <1>3, <1>4, <2>1 DEF new
  <2>2. CASE k # b
    <3>1. k \in b + 1 .. n
      BY <2>2
    <3>2. QED
      BY <1>2, <1>4, <2>2, <3>1
  <2>3. QED
    BY <2>1, <2>2
<1>6. QED
  BY <1>2, <1>5 DEF UnwindsTo

\* So there are states that unwind the stack.
LEMMA UnwindingExists ==
    ASSUME NEW S, NEW D, NEW F \in [S -> [D -> S]],
           NEW n \in Nat, NEW d \in [1 .. n -> D], NEW base \in S
    PROVE  \E states : Unwinds(F, n, d, base, states, S)
<1> DEFINE Upper(b) == UnwindsTo(F, b, n, d, base, S)
           Good == {m \in Nat : m <= n => Upper(n - m + 1)}
<1>1. Upper(n + 1)
  <2>1. n + 1 .. n = {}
    OBVIOUS
  <2>2. [k \in n + 1 .. n |-> base] \in [n + 1 .. n -> S]
    OBVIOUS
  <2>3. QED
    BY <2>1, <2>2 DEF UnwindsTo
<1>2. ASSUME NEW b \in 1 .. n, Upper(b + 1)
      PROVE  Upper(b)
  BY <1>2, UnwindOneMore
<1> HIDE DEF Upper
<1>3. 0 \in Good
  BY <1>1
<1>4. ASSUME NEW m \in Nat, m \in Good
      PROVE  m + 1 \in Good
  <2>1. SUFFICES ASSUME m + 1 <= n
                 PROVE  Upper(n - (m + 1) + 1)
    OBVIOUS
  <2>2. n - m \in 1 .. n /\ n - (m + 1) + 1 = n - m
    BY <2>1
  <2>3. Upper(n - m + 1)
    BY <1>4, <2>1
  <2>4. QED
    BY <1>2, <2>2, <2>3
<1> HIDE DEF Good
<1>5. Nat \subseteq Good
  BY <1>3, <1>4, NaturalInduction
<1>6. Upper(n - n + 1)
  <2>1. n \in Good /\ n <= n
    BY <1>5
  <2>2. QED
    BY <2>1 DEF Good
<1>7. n - n + 1 = 1
  OBVIOUS
<1>8. QED
  BY <1>6, <1>7 DEF Upper, UnwindsTo, Unwinds

\* They are determined by the deltas and by where the first is applied.
LEMMA UnwindingUnique ==
    ASSUME NEW S, NEW D, NEW F \in [S -> [D -> S]],
           NEW n \in Nat, NEW d \in [1 .. n -> D], NEW base \in S,
           NEW states, Unwinds(F, n, d, base, states, S),
           NEW others, Follows(F, n, d, base, others, S)
    PROVE  others = states
<1> DEFINE T == {n - k : k \in {j \in 1 .. n : others[j] # states[j]}}
<1>1. T \subseteq Nat
  OBVIOUS
<1>2. T = {}
  <2>1. SUFFICES ASSUME T # {}
                 PROVE  FALSE
    OBVIOUS
  <2>2. PICK m \in T : \A t \in T : m <= t
    BY <1>1, <2>1, SmallestNat
  <2>3. PICK k \in 1 .. n : m = n - k /\ others[k] # states[k]
    BY <2>2
  <2>4. k # n => others[k + 1] = states[k + 1]
    <3>1. SUFFICES ASSUME k # n, others[k + 1] # states[k + 1]
                   PROVE  FALSE
      OBVIOUS
    <3>2. k + 1 \in 1 .. n
      BY <3>1
    <3>3. n - (k + 1) \in T
      BY <3>1, <3>2
    <3>4. n - k <= n - (k + 1)
      BY <2>2, <2>3, <3>3
    <3>5. QED
      BY <3>4
  <2>5. Source(others, base, n, k) = Source(states, base, n, k)
    BY <2>4 DEF Source
  <2>6. Source(states, base, n, k) \in S
    BY DEF Source, Unwinds
  <2>7. others[k] = states[k]
    BY <2>5, <2>6 DEF Unwinds, Follows
  <2>8. QED
    BY <2>3, <2>7
<1>3. ASSUME NEW k \in 1 .. n
      PROVE  others[k] = states[k]
  <2>1. others[k] # states[k] => n - k \in T
    OBVIOUS
  <2>2. QED
    BY <1>2, <2>1
<1>4. QED
  BY <1>3 DEF Unwinds, Follows

\* The same of a stack as a sequence.
StackUnwinds(F, stack, base, states, S) ==
    Unwinds(F, Len(stack), stack, base, states, S)

\* F applies a delta to a state, and leads from s to t by the delta d.
Applies(F, S, D) == F \in [S -> [D -> S]]
Leads(F, s, d, t) == F[s][d] = t

\* A push adds the state before it on top of the others.
LEMMA UnwindingPush ==
    ASSUME NEW S, NEW D, NEW F, Applies(F, S, D),
           NEW stack \in Seq(D), NEW base \in S, NEW states,
           StackUnwinds(F, stack, base, states, S),
           NEW delta \in D, NEW top \in S, Leads(F, top, delta, base), NEW others,
           StackUnwinds(F, Pushed(stack, delta), top, others, S)
    PROVE  others = Pushed(states, base)
<1> DEFINE n == Len(stack)
           pushed == Pushed(stack, delta)
           added == Pushed(states, base)
<1>1. /\ n \in Nat
      /\ stack \in [1 .. n -> D]
      /\ Len(pushed) = n + 1
      /\ pushed \in [1 .. n + 1 -> D] /\ pushed[n + 1] = delta
      /\ \A k \in 1 .. n : pushed[k] = stack[k]
  BY StackIsFunction, PushedElements
<1>2. /\ Unwinds(F, n, stack, base, states, S)
      /\ Unwinds(F, n + 1, pushed, top, others, S)
  BY <1>1 DEF StackUnwinds
<1>3. states \in [1 .. n -> S]
  BY <1>2 DEF Unwinds
<1> HIDE DEF n
<1>4. states \in Seq(S) /\ Len(states) = n
  BY <1>1, <1>3, FunctionIsStack
<1>5. /\ added \in [1 .. n + 1 -> S] /\ added[n + 1] = base
      /\ \A k \in 1 .. n : added[k] = states[k]
  <2>1. /\ added \in [1 .. Len(states) + 1 -> S]
        /\ added[Len(states) + 1] = base
        /\ \A k \in 1 .. Len(states) : added[k] = states[k]
    <3>1. states \in Seq(S)
      BY <1>4
    <3>2. QED
      BY <3>1, PushedElements
  <2>2. QED
    BY <1>4, <2>1
<1> HIDE DEF pushed, added
<1> DEFINE m == n + 1
<1>6. ASSUME NEW k \in 1 .. n + 1
      PROVE  added[k] = F[Source(added, top, n + 1, k)][pushed[k]]
  <2>1. CASE k = n + 1
    BY <1>1, <1>5, <2>1 DEF Source, Leads
  <2>2. CASE k \in 1 .. n
    <3>1. Source(added, top, n + 1, k) = Source(states, base, n, k)
      <4>1. k # n + 1 /\ (k # n => k + 1 \in 1 .. n)
        BY <1>1, <2>2
      <4>2. QED
        BY <1>5, <4>1 DEF Source
    <3>2. QED
      BY <1>1, <1>2, <1>5, <2>2, <3>1 DEF Unwinds
  <2>3. QED
    BY <1>1, <2>1, <2>2
<1>7. m \in Nat /\ pushed \in [1 .. m -> D]
      /\ Unwinds(F, m, pushed, top, others, S)
  BY <1>1, <1>2
<1>8. Follows(F, m, pushed, top, added, S)
  BY <1>5, <1>6 DEF Follows
<1> HIDE DEF m
<1>9. added = others
  BY <1>7, <1>8, UnwindingUnique DEF Applies
<1>10. QED
  BY <1>9 DEF added

\* A pop makes the top state the base and removes it from the others.
LEMMA UnwindingPop ==
    ASSUME NEW S, NEW D, NEW F, Applies(F, S, D),
           NEW stack \in Seq(D), stack # << >>, NEW base \in S, NEW states,
           StackUnwinds(F, stack, base, states, S),
           NEW top, Leads(F, base, Top(stack), top), NEW others,
           StackUnwinds(F, Popped(stack), top, others, S)
    PROVE  others = Popped(states)
<1> DEFINE n == Len(stack)
           popped == Popped(stack)
           rest == Popped(states)
<1>1. /\ n \in Nat \ {0}
      /\ stack \in [1 .. n -> D]
      /\ Len(popped) = n - 1
      /\ popped \in [1 .. n - 1 -> D]
      /\ \A k \in 1 .. n - 1 : popped[k] = stack[k]
  BY StackIsFunction, PoppedElements
<1>2. /\ Unwinds(F, n, stack, base, states, S)
      /\ Unwinds(F, n - 1, popped, top, others, S)
      /\ Top(stack) = stack[n]
  BY <1>1 DEF StackUnwinds, Top
<1>3. states \in [1 .. n -> S]
  BY <1>2 DEF Unwinds
<1> HIDE DEF n, popped
<1>4. states \in Seq(S) /\ Len(states) = n /\ states # << >>
      /\ top = states[n] /\ top \in S
  <2>1. states \in Seq(S) /\ Len(states) = n
    BY <1>1, <1>3, FunctionIsStack
  <2>2. n \in 1 .. n
    BY <1>1
  <2>3. top = states[n]
    BY <1>2, <2>2 DEF Unwinds, Source, Leads
  <2>4. QED
    BY <1>1, <1>3, <2>1, <2>2, <2>3
<1>5. /\ rest \in [1 .. n - 1 -> S]
      /\ \A k \in 1 .. n - 1 : rest[k] = states[k]
  BY <1>4, PoppedElements
<1> HIDE DEF rest
<1>6. ASSUME NEW k \in 1 .. n - 1
      PROVE  rest[k] = F[Source(rest, top, n - 1, k)][popped[k]]
  <2>1. Source(rest, top, n - 1, k) = Source(states, base, n, k)
    <3>1. n \in Nat \ {0}
      BY <1>1
    <3>2. /\ k # n /\ (k = n - 1 => k + 1 = n)
          /\ k # n - 1 => k + 1 \in 1 .. n - 1
      BY <3>1
    <3>3. QED
      BY <1>4, <1>5, <3>2 DEF Source
  <2>2. k \in 1 .. n
    BY <1>1
  <2>3. QED
    BY <1>1, <1>2, <1>5, <2>1, <2>2 DEF Unwinds
<1> DEFINE m == n - 1
<1>7. m \in Nat /\ popped \in [1 .. m -> D]
      /\ Unwinds(F, m, popped, top, others, S)
  BY <1>1, <1>2
<1>8. Follows(F, m, popped, top, rest, S)
  BY <1>5, <1>6 DEF Follows
<1> HIDE DEF m
<1>9. rest = others
  BY <1>4, <1>7, <1>8, UnwindingUnique DEF Applies
<1>10. QED
  BY <1>9 DEF rest

-----------------------------------------------------------------------------
(* Going back and forth along the history                                  *)

\* G leads back over every delta that F led over.
StackRetraces(G, stack, base, states) ==
    \A k \in 1 .. Len(stack) :
        G[states[k]][stack[k]] = Source(states, base, Len(stack), k)

\* One delta more on top.
LEMMA RetracesPush ==
    ASSUME NEW S, NEW D, NEW G, NEW base \in S, NEW delta \in D, NEW top,
           NEW stack \in Seq(D), NEW states \in [1 .. Len(stack) -> S],
           StackRetraces(G, stack, base, states),
           G[base][delta] = top
    PROVE  StackRetraces(G, Pushed(stack, delta), top, Pushed(states, base))
<1> DEFINE n == Len(stack)
           pushed == Pushed(stack, delta)
           added == Pushed(states, base)
<1>1. /\ n \in Nat /\ Len(pushed) = n + 1
      /\ pushed[n + 1] = delta
      /\ \A k \in 1 .. n : pushed[k] = stack[k]
  BY StackIsFunction, PushedElements
<1>2. \A k \in 1 .. n : G[states[k]][stack[k]] = Source(states, base, n, k)
  BY DEF StackRetraces
<1> HIDE DEF n
<1>3. states \in Seq(S) /\ Len(states) = n
  BY <1>1, FunctionIsStack DEF n
<1>4. added[n + 1] = base /\ \A k \in 1 .. n : added[k] = states[k]
  <2>1. /\ added[Len(states) + 1] = base
        /\ \A k \in 1 .. Len(states) : added[k] = states[k]
    <3>1. states \in Seq(S)
      BY <1>3
    <3>2. QED
      BY <3>1, PushedElements
  <2>2. QED
    BY <1>3, <2>1
<1> HIDE DEF pushed, added
<1>5. ASSUME NEW k \in 1 .. n + 1
      PROVE  G[added[k]][pushed[k]] = Source(added, top, n + 1, k)
  <2>1. CASE k = n + 1
    BY <1>1, <1>4, <2>1 DEF Source
  <2>2. CASE k \in 1 .. n
    <3>1. k # n + 1 /\ (k # n => k + 1 \in 1 .. n)
      BY <1>1, <2>2
    <3>2. Source(added, top, n + 1, k) = Source(states, base, n, k)
      BY <1>4, <3>1 DEF Source
    <3>3. QED
      BY <1>1, <1>2, <1>4, <2>2, <3>2
  <2>3. QED
    BY <1>1, <2>1, <2>2
<1>6. StackRetraces(G, pushed, top, added)
  BY <1>1, <1>5 DEF StackRetraces
<1>7. QED
  BY <1>6 DEF pushed, added

\* The delta on top removed.
LEMMA RetracesPop ==
    ASSUME NEW S, NEW D, NEW G, NEW base \in S,
           NEW stack \in Seq(D), stack # << >>,
           NEW states \in [1 .. Len(stack) -> S],
           StackRetraces(G, stack, base, states),
           NEW top, top = states[Len(stack)]
    PROVE  StackRetraces(G, Popped(stack), top, Popped(states))
<1> DEFINE n == Len(stack)
           popped == Popped(stack)
           rest == Popped(states)
<1>1. /\ n \in Nat \ {0} /\ Len(popped) = n - 1 /\ top = states[n]
      /\ \A k \in 1 .. n - 1 : popped[k] = stack[k]
  BY PoppedElements
<1>2. \A k \in 1 .. n : G[states[k]][stack[k]] = Source(states, base, n, k)
  BY DEF StackRetraces
<1> HIDE DEF n
<1>3. states \in Seq(S) /\ Len(states) = n /\ states # << >>
  <2>1. states \in Seq(S) /\ Len(states) = n
    BY <1>1, FunctionIsStack DEF n
  <2>2. QED
    BY <1>1, <2>1
<1>4. \A k \in 1 .. n - 1 : rest[k] = states[k]
  BY <1>3, PoppedElements
<1> HIDE DEF popped, rest
<1>5. ASSUME NEW k \in 1 .. n - 1
      PROVE  G[rest[k]][popped[k]] = Source(rest, top, n - 1, k)
  <2> n \in Nat \ {0}
    BY <1>1
  <2>1. /\ k # n /\ k \in 1 .. n /\ (k = n - 1 => k + 1 = n)
        /\ k # n - 1 => k + 1 \in 1 .. n - 1
    OBVIOUS
  <2>2. Source(rest, top, n - 1, k) = Source(states, base, n, k)
    BY <1>1, <1>4, <2>1 DEF Source
  <2>3. QED
    BY <1>1, <1>2, <1>4, <2>1, <2>2
<1>6. StackRetraces(G, popped, top, rest)
  BY <1>1, <1>5 DEF StackRetraces
<1>7. QED
  BY <1>6 DEF popped, rest

\* The delta on top of one stack is moved to the other, as undo and redo do.
Shifts(F, G, S, D, from, to, base, states, others, top, states2, others2) ==
    /\ Applies(F, S, D) /\ Applies(G, S, D)
    /\ from \in Seq(D) /\ from # << >> /\ to \in Seq(D) /\ base \in S
    /\ StackUnwinds(F, from, base, states, S)
    /\ StackUnwinds(G, to, base, others, S)
    /\ StackRetraces(G, from, base, states)
    /\ StackRetraces(F, to, base, others)
    /\ Leads(F, base, Top(from), top)
    /\ StackUnwinds(F, Popped(from), top, states2, S)
    /\ StackUnwinds(G, Pushed(to, Top(from)), top, others2, S)

\* The state on top moves likewise, and the deltas still lead back and forth.
LEMMA Shifted ==
    ASSUME NEW F, NEW G, NEW S, NEW D, NEW from, NEW to, NEW base,
           NEW states, NEW others, NEW top, NEW states2, NEW others2,
           Shifts(F, G, S, D, from, to, base, states, others, top,
                  states2, others2)
    PROVE  /\ states # << >>
           /\ top = states[Len(states)]
           /\ states2 = Popped(states) /\ others2 = Pushed(others, base)
           /\ StackRetraces(G, Popped(from), top, states2)
           /\ StackRetraces(F, Pushed(to, Top(from)), top, others2)
<1> USE DEF Shifts
<1> DEFINE n == Len(from)
           last == Top(from)
<1>1. n \in Nat \ {0} /\ n \in 1 .. n
  <2>1. n \in Nat \ {0}
    BY PoppedElements
  <2> HIDE DEF n
  <2>2. QED
    BY <2>1
<1>2. last = from[n] /\ last \in D
  BY <1>1, StackIsFunction DEF Top
<1>3. states \in [1 .. n -> S] /\ others \in [1 .. Len(to) -> S]
  BY DEF StackUnwinds, Unwinds
<1>4. top = states[n] /\ top \in S
  BY <1>1, <1>2, <1>3 DEF StackUnwinds, Unwinds, Source, Leads
<1>5. G[top][last] = base
  BY <1>1, <1>2, <1>4 DEF StackRetraces, Source
<1>6. Len(states) = n /\ states # << >>
  <2> HIDE DEF n
  <2>1. states \in Seq(S) /\ Len(states) = n
    BY <1>1, <1>3, FunctionIsStack
  <2>2. QED
    BY <1>1, <2>1
<1>7. states2 = Popped(states)
  BY UnwindingPop
<1>8. F[base][last] = top /\ StackUnwinds(G, Pushed(to, last), top, others2, S)
  BY DEF Leads
<1> HIDE DEF last
<1>9. others2 = Pushed(others, base)
  <2>1. Applies(G, S, D) /\ Leads(G, top, last, base)
    BY <1>5 DEF Leads
  <2>2. /\ to \in Seq(D) /\ base \in S /\ last \in D /\ top \in S
        /\ StackUnwinds(G, to, base, others, S)
        /\ StackUnwinds(G, Pushed(to, last), top, others2, S)
    BY <1>2, <1>4, <1>8
  <2>3. QED
    BY ONLY <2>1, <2>2, UnwindingPush
<1>10. StackRetraces(G, Popped(from), top, states2)
  BY <1>3, <1>4, <1>7, RetracesPop
<1>11. StackRetraces(F, Pushed(to, last), top, others2)
  BY <1>2, <1>3, <1>8, <1>9, RetracesPush
<1>12. QED
  BY <1>4, <1>6, <1>7, <1>9, <1>10, <1>11 DEF last

-----------------------------------------------------------------------------
(* The history of states                                                   *)

State == [pc : Word, regs : [Reg -> Word], mem : [Word -> Word]]

UndoneBy == [s \in State |-> [d \in StepDelta |-> Undone(s, d)]]
RedoneBy == [s \in State |-> [d \in StepDelta |-> Redone(s, d)]]

\* Undo and redo lead from states to states.
LEMMA HistoryTypes ==
    /\ UndoneBy \in [State -> [StepDelta -> State]]
    /\ RedoneBy \in [State -> [StepDelta -> State]]
<1>1. ASSUME NEW s \in State, NEW d \in StepDelta
      PROVE  Undone(s, d) \in State /\ Redone(s, d) \in State
  <2>1. /\ s.regs \in [Reg -> Word] /\ s.mem \in [Word -> Word]
        /\ d.old_pc \in Word /\ d.new_pc \in Word
        /\ d.register_changes \in Seq(Change(Reg))
        /\ d.memory_changes \in Seq(Change(Word))
    BY DEF State, StepDelta
  <2>2. QED
    BY <2>1, RestoredType DEF State, Undone, Redone
<1>2. QED
  BY <1>1 DEF UndoneBy, RedoneBy

\* The state the user sees, also while a read waits.
LEMMA PresentType ==
    ASSUME SessionTypeOK
    PROVE  Present \in State
BY DEF SessionTypeOK, TypeOK, StepDelta, Present, StepPc, State

\* Past and Future are the states that repeated undo and redo lead to.
LEMMA PastUnwinds ==
    ASSUME SessionTypeOK
    PROVE  StackUnwinds(UndoneBy, undo_stack_, Present, Past, State)
<1> DEFINE n == Len(undo_stack_)
<1>1. n \in Nat /\ undo_stack_ \in [1 .. n -> StepDelta]
  BY StackIsFunction DEF SessionTypeOK
<1>2. PICK f : Unwinds(UndoneBy, n, undo_stack_, Present, f, State)
  BY <1>1, HistoryTypes, PresentType, UnwindingExists
<1>3. f = [k \in 1 .. n |-> Undone(IF k = n THEN Present ELSE f[k + 1],
                                   undo_stack_[k])]
  <2> HIDE DEF n
  <2>1. ASSUME NEW k \in 1 .. n
        PROVE  f[k] = Undone(IF k = n THEN Present ELSE f[k + 1], undo_stack_[k])
    <3>1. k # n => k + 1 \in 1 .. n
      BY <1>1
    <3>2. /\ Source(f, Present, n, k) \in State /\ undo_stack_[k] \in StepDelta
          /\ f[k] = UndoneBy[Source(f, Present, n, k)][undo_stack_[k]]
      BY <1>1, <1>2, <3>1, PresentType DEF Unwinds, Source
    <3>3. f[k] = Undone(Source(f, Present, n, k), undo_stack_[k])
      BY <3>2 DEF UndoneBy
    <3>4. QED
      BY <3>3 DEF Source
  <2>2. QED
    BY <1>2, <2>1 DEF Unwinds
<1>4. Past = [k \in 1 .. n |-> Undone(IF k = n THEN Present ELSE Past[k + 1],
                                      undo_stack_[k])]
  BY <1>3 DEF Past, Unwound
<1>5. Follows(UndoneBy, n, undo_stack_, Present, Past, State)
  BY <1>1, <1>4 DEF Follows, Source, UndoneBy
<1>6. Past = f
  BY <1>1, <1>2, <1>5, HistoryTypes, PresentType, UnwindingUnique
<1>7. QED
  BY <1>2, <1>6 DEF StackUnwinds

\* The same for the states to be redone.
LEMMA FutureUnwinds ==
    ASSUME SessionTypeOK
    PROVE  StackUnwinds(RedoneBy, redo_stack_, Present, Future, State)
<1> DEFINE n == Len(redo_stack_)
<1>1. n \in Nat /\ redo_stack_ \in [1 .. n -> StepDelta]
  BY StackIsFunction DEF SessionTypeOK
<1>2. PICK f : Unwinds(RedoneBy, n, redo_stack_, Present, f, State)
  BY <1>1, HistoryTypes, PresentType, UnwindingExists
<1>3. f = [k \in 1 .. n |-> Redone(IF k = n THEN Present ELSE f[k + 1],
                                   redo_stack_[k])]
  <2> HIDE DEF n
  <2>1. ASSUME NEW k \in 1 .. n
        PROVE  f[k] = Redone(IF k = n THEN Present ELSE f[k + 1], redo_stack_[k])
    <3>1. k # n => k + 1 \in 1 .. n
      BY <1>1
    <3>2. /\ Source(f, Present, n, k) \in State /\ redo_stack_[k] \in StepDelta
          /\ f[k] = RedoneBy[Source(f, Present, n, k)][redo_stack_[k]]
      BY <1>1, <1>2, <3>1, PresentType DEF Unwinds, Source
    <3>3. f[k] = Redone(Source(f, Present, n, k), redo_stack_[k])
      BY <3>2 DEF RedoneBy
    <3>4. QED
      BY <3>3 DEF Source
  <2>2. QED
    BY <1>2, <2>1 DEF Unwinds
<1>4. Future = [k \in 1 .. n |-> Redone(IF k = n THEN Present ELSE Future[k + 1],
                                        redo_stack_[k])]
  BY <1>3 DEF Future, Unwound
<1>5. Follows(RedoneBy, n, redo_stack_, Present, Future, State)
  BY <1>1, <1>4 DEF Follows, Source, RedoneBy
<1>6. Future = f
  BY <1>1, <1>2, <1>5, HistoryTypes, PresentType, UnwindingUnique
<1>7. QED
  BY <1>2, <1>6 DEF StackUnwinds

\* The same in the next state.
LEMMA UnwindsNext ==
    ( SessionTypeOK =>
         /\ Present \in State
         /\ StackUnwinds(UndoneBy, undo_stack_, Present, Past, State)
         /\ StackUnwinds(RedoneBy, redo_stack_, Present, Future, State) )'
<1>1. SessionTypeOK =>
         /\ Present \in State
         /\ StackUnwinds(UndoneBy, undo_stack_, Present, Past, State)
         /\ StackUnwinds(RedoneBy, redo_stack_, Present, Future, State)
  BY PresentType, PastUnwinds, FutureUnwinds
<1>2. QED
  BY <1>1, PTL

\* Every delta leads back and forth between two states of the history.
Retracing ==
    /\ StackRetraces(RedoneBy, undo_stack_, Present, Past)
    /\ StackRetraces(UndoneBy, redo_stack_, Present, Future)
NoChangeWaits ==
    /\ current_delta_.register_changes = << >>
    /\ current_delta_.memory_changes = << >>

\* What Retraceable says, in these terms.
LEMMA RetraceableMeans ==
    ASSUME SessionTypeOK
    PROVE  Retraceable <=> (recorded => NoChangeWaits /\ Retracing)
<1>1. /\ Past \in [1 .. Len(undo_stack_) -> State]
      /\ Future \in [1 .. Len(redo_stack_) -> State]
  BY PastUnwinds, FutureUnwinds DEF StackUnwinds, Unwinds
<1>2. /\ Len(undo_stack_) \in Nat /\ undo_stack_ \in [1 .. Len(undo_stack_) -> StepDelta]
      /\ Len(redo_stack_) \in Nat /\ redo_stack_ \in [1 .. Len(redo_stack_) -> StepDelta]
  BY StackIsFunction DEF SessionTypeOK
<1>3. Len(Past) = Len(undo_stack_) /\ Len(Future) = Len(redo_stack_)
  BY <1>1, <1>2, FunctionIsStack
<1>4. ASSUME NEW k \in 1 .. Len(undo_stack_)
      PROVE  /\ RedoneBy[Past[k]][undo_stack_[k]] = Redone(Past[k], undo_stack_[k])
             /\ Source(Past, Present, Len(undo_stack_), k) = Neighbour(Past, k)
  BY <1>1, <1>2, <1>3 DEF RedoneBy, Source, Neighbour
<1>5. ASSUME NEW k \in 1 .. Len(redo_stack_)
      PROVE  /\ UndoneBy[Future[k]][redo_stack_[k]] = Undone(Future[k], redo_stack_[k])
             /\ Source(Future, Present, Len(redo_stack_), k) = Neighbour(Future, k)
  BY <1>1, <1>2, <1>3 DEF UndoneBy, Source, Neighbour
<1>6. QED
  BY <1>4, <1>5 DEF Retraceable, Retracing, NoChangeWaits, StackRetraces

\* The same in the next state.
LEMMA RetraceableMeansNext ==
    ( SessionTypeOK => (Retraceable <=> (recorded => NoChangeWaits /\ Retracing)) )'
<1>1. SessionTypeOK => (Retraceable <=> (recorded => NoChangeWaits /\ Retracing))
  BY RetraceableMeans
<1>2. QED
  BY <1>1, PTL

\* While neither the present nor the stacks change, the history does not.
LEMMA HistoryUnchanged ==
    ASSUME SessionTypeOK, SessionTypeOK', Present' = Present,
           UNCHANGED <<undo_stack_, redo_stack_>>
    PROVE  /\ Past' = Past /\ Future' = Future
           /\ Retracing => Retracing'
<1>1. Past' = Past
  BY DEF Past, Unwound
<1>2. Future' = Future
  BY DEF Future, Unwound
<1>3. QED
  BY <1>1, <1>2 DEF Retracing, StackRetraces, Source

\* Nothing to undo or redo.
LEMMA HistoryCleared ==
    ASSUME undo_stack_' = << >>, redo_stack_' = << >>
    PROVE  Past' = << >> /\ Future' = << >> /\ Retracing'
<1>1. Past' = << >> /\ Future' = << >>
  BY DEF Past, Future, Unwound
<1>2. QED
  BY <1>1 DEF Retracing, StackRetraces

\* A step that is pushed is a step of the history, if undo leads back from
\* behind it and redo forth from before it.
LEMMA PushedStep ==
    ASSUME SessionTypeOK, SessionTypeOK', Retracing, NEW delta \in StepDelta,
           undo_stack_' = Pushed(undo_stack_, delta), redo_stack_' = << >>,
           Undone(Present', delta) = Present, Redone(Present, delta) = Present'
    PROVE  Retracing' /\ History!Do
<1>1. /\ Present \in State /\ Present' \in State
      /\ undo_stack_ \in Seq(StepDelta)
      /\ StackUnwinds(UndoneBy, undo_stack_, Present, Past, State)
      /\ StackUnwinds(UndoneBy, undo_stack_', Present', Past', State)
  BY PresentType, PastUnwinds, UnwindsNext DEF SessionTypeOK
<1>2. Past \in [1 .. Len(undo_stack_) -> State]
  BY <1>1 DEF StackUnwinds, Unwinds
<1>3. /\ Leads(UndoneBy, Present', delta, Present)
      /\ RedoneBy[Present][delta] = Present'
  BY <1>1 DEF Leads, UndoneBy, RedoneBy
<1>4. Past' = Pushed(Past, Present)
  <2>1. Applies(UndoneBy, State, StepDelta)
    BY HistoryTypes DEF Applies
  <2>2. StackUnwinds(UndoneBy, Pushed(undo_stack_, delta), Present', Past', State)
    BY <1>1
  <2>3. QED
    BY ONLY delta \in StepDelta, <1>1, <1>3, <2>1, <2>2, UnwindingPush
<1>5. StackRetraces(RedoneBy, undo_stack_', Present', Past')
  <2>1. StackRetraces(RedoneBy, undo_stack_, Present, Past)
    BY DEF Retracing
  <2>2. QED
    BY <1>1, <1>2, <1>3, <1>4, <2>1, RetracesPush
<1>6. Future' = << >>
  BY DEF Future, Unwound
<1>7. StackRetraces(UndoneBy, redo_stack_', Present', Future')
  BY <1>6 DEF StackRetraces
<1>8. QED
  BY <1>4, <1>5, <1>6, <1>7 DEF Retracing, Pushed, History!Do

\* An undo goes back in the history, and a redo forth.
LEMMA UndoneStep ==
    ASSUME SessionTypeOK, SessionTypeOK', Retracing, undo_stack_ # << >>,
           undo_stack_' = Popped(undo_stack_),
           redo_stack_' = Pushed(redo_stack_, Top(undo_stack_)),
           Present' = Undone(Present, Top(undo_stack_))
    PROVE  Retracing' /\ History!Undo
<1>1. /\ Present \in State
      /\ undo_stack_ \in Seq(StepDelta) /\ redo_stack_ \in Seq(StepDelta)
      /\ StackUnwinds(UndoneBy, undo_stack_, Present, Past, State)
      /\ StackUnwinds(RedoneBy, redo_stack_, Present, Future, State)
      /\ StackRetraces(RedoneBy, undo_stack_, Present, Past)
      /\ StackRetraces(UndoneBy, redo_stack_, Present, Future)
  BY PresentType, PastUnwinds, FutureUnwinds DEF SessionTypeOK, Retracing
<1>2. /\ StackUnwinds(UndoneBy, Popped(undo_stack_), Present', Past', State)
      /\ StackUnwinds(RedoneBy, Pushed(redo_stack_, Top(undo_stack_)), Present',
                      Future', State)
  BY UnwindsNext
<1>3. /\ Applies(UndoneBy, State, StepDelta) /\ Applies(RedoneBy, State, StepDelta)
      /\ Leads(UndoneBy, Present, Top(undo_stack_), Present')
  BY <1>1, TopType, HistoryTypes DEF UndoneBy, Applies, Leads
<1>4. /\ Past # << >> /\ Present' = Past[Len(Past)]
      /\ Past' = Popped(Past) /\ Future' = Pushed(Future, Present)
      /\ StackRetraces(RedoneBy, Popped(undo_stack_), Present', Past')
      /\ StackRetraces(UndoneBy, Pushed(redo_stack_, Top(undo_stack_)), Present',
                       Future')
  <2>1. Shifts(UndoneBy, RedoneBy, State, StepDelta, undo_stack_, redo_stack_, Present,
               Past, Future, Present', Past', Future')
    BY <1>1, <1>2, <1>3 DEF Shifts
  <2>2. QED
    BY <2>1, Shifted
<1>5. QED
  BY <1>4 DEF Retracing, Pushed, Popped, History!Undo

\* The same for redo, with the stacks exchanged.
LEMMA RedoneStep ==
    ASSUME SessionTypeOK, SessionTypeOK', Retracing, redo_stack_ # << >>,
           redo_stack_' = Popped(redo_stack_),
           undo_stack_' = Pushed(undo_stack_, Top(redo_stack_)),
           Present' = Redone(Present, Top(redo_stack_))
    PROVE  Retracing' /\ History!Redo
<1>1. /\ Present \in State
      /\ undo_stack_ \in Seq(StepDelta) /\ redo_stack_ \in Seq(StepDelta)
      /\ StackUnwinds(UndoneBy, undo_stack_, Present, Past, State)
      /\ StackUnwinds(RedoneBy, redo_stack_, Present, Future, State)
      /\ StackRetraces(RedoneBy, undo_stack_, Present, Past)
      /\ StackRetraces(UndoneBy, redo_stack_, Present, Future)
  BY PresentType, PastUnwinds, FutureUnwinds DEF SessionTypeOK, Retracing
<1>2. /\ StackUnwinds(RedoneBy, Popped(redo_stack_), Present', Future', State)
      /\ StackUnwinds(UndoneBy, Pushed(undo_stack_, Top(redo_stack_)), Present',
                      Past', State)
  BY UnwindsNext
<1>3. /\ Applies(UndoneBy, State, StepDelta) /\ Applies(RedoneBy, State, StepDelta)
      /\ Leads(RedoneBy, Present, Top(redo_stack_), Present')
  BY <1>1, TopType, HistoryTypes DEF RedoneBy, Applies, Leads
<1>4. /\ Future # << >> /\ Present' = Future[Len(Future)]
      /\ Future' = Popped(Future) /\ Past' = Pushed(Past, Present)
      /\ StackRetraces(UndoneBy, Popped(redo_stack_), Present', Future')
      /\ StackRetraces(RedoneBy, Pushed(undo_stack_, Top(redo_stack_)), Present',
                       Past')
  <2>1. Shifts(RedoneBy, UndoneBy, State, StepDelta, redo_stack_, undo_stack_, Present,
               Future, Past, Present', Future', Past')
    BY <1>1, <1>2, <1>3 DEF Shifts
  <2>2. QED
    BY <2>1, Shifted
<1>5. QED
  BY <1>4 DEF Retracing, Pushed, Popped, History!Redo

-----------------------------------------------------------------------------
(* The session and its history                                             *)

\* The line that a read writes to the buffer is taken back, and written again.
LEMMA LineInverts ==
    ASSUME NEW x \in Word, NEW value, mem \in [Word -> Word],
           mem' = [mem EXCEPT ![x] = value]
    PROVE  LET changes == <<[at |-> x, old_value |-> mem[x],
                             new_value |-> value]>>
           IN  Restored(mem', changes) = mem /\ Repeated(mem, changes) = mem'
<1> DEFINE changes == <<[at |-> x, old_value |-> mem[x], new_value |-> value]>>
<1>1. /\ Changed(changes) = {x}
      /\ changes[Last(changes, x)].old_value = mem[x]
      /\ changes[Last(changes, x)].new_value = value
  BY OneChange
<1> HIDE DEF changes
<1>2. /\ Restored(mem', changes) = [y \in Word |-> IF y = x THEN mem[x] ELSE mem'[y]]
      /\ Repeated(mem, changes) = [y \in Word |-> IF y = x THEN value ELSE mem[y]]
  BY <1>1 DEF Restored, Repeated
<1>3. Restored(mem', changes) = mem /\ Repeated(mem, changes) = mem'
  BY <1>2
<1>4. QED
  BY <1>3 DEF changes

\* A recorded instruction is a step of the history.
LEMMA InstructionHistory ==
    ASSUME SessionTypeOK, SessionTypeOK', NoChangeWaits, Retracing,
           thread # "stdin", thread' # "stdin", RecordedInstruction
    PROVE  NoChangeWaits' /\ Retracing' /\ History!Do
<1> DEFINE delta == [DeltaAfter(prog.text[pc + 1]) EXCEPT !.old_pc = pc,
                                                          !.new_pc = pc']
<1>1. Step /\ Push(delta)
  BY DEF RecordedInstruction
<1>2. TypeOK /\ TypeOK' /\ undo_stack_ \in Seq(StepDelta) /\ NothingLeft
  BY DEF SessionTypeOK, NoChangeWaits, NothingLeft
<1>3. delta \in StepDelta
  <2>1. DeltaAfter(prog.text[pc + 1]) \in StepDelta
    BY <1>1, <1>2, StepInstruction, DeltaType DEF NothingLeft
  <2>2. QED
    BY <1>2, <2>1 DEF TypeOK, StepDelta
<1> HIDE DEF delta
<1>4. /\ undo_stack_' = Pushed(undo_stack_, delta) /\ redo_stack_' = << >>
      /\ NoChangeWaits'
  BY <1>1 DEF Push, Pushed, EmptyDelta, NoChangeWaits
<1>5. Top(undo_stack_') = delta
  BY <1>2, <1>3, <1>4, PushedElements DEF Top
<1>6. /\ delta.old_pc = pc /\ delta.new_pc = pc'
      /\ Restored(regs', delta.register_changes) = regs
      /\ Restored(mem', delta.memory_changes) = mem
      /\ Repeated(regs, delta.register_changes) = regs'
      /\ Repeated(mem, delta.memory_changes) = mem'
  BY <1>2, <1>5, UndoAndRedoInvertStep
<1>7. Undone(Present', delta) = Present /\ Redone(Present, delta) = Present'
  BY <1>6 DEF Undone, Redone, Present, StepPc
<1>8. QED
  BY <1>3, <1>4, <1>7, PushedStep

\* So is a read, which began at the PC noted in its delta.
LEMMA ReadHistory ==
    ASSUME SessionTypeOK, SessionTypeOK', NoChangeWaits, Retracing,
           FinishRead, job # "Run"
    PROVE  NoChangeWaits' /\ Retracing' /\ History!Do
<1> DEFINE change == [at |-> buffer, old_value |-> mem[buffer],
                      new_value |-> Head(input_queue_)]
           registers == ChangeAt(A0, regs, regs')
           noted == Noting(current_delta_, registers, <<change>>)
           delta == [noted EXCEPT !.new_pc = pc]
<1>1. /\ buffer \in Word /\ A0 \in Reg /\ pc \in Word
      /\ regs \in [Reg -> Word] /\ mem \in [Word -> Word]
      /\ current_delta_ \in StepDelta
  BY SessionAssumption DEF SessionTypeOK, TypeOK
<1>2. Push(delta) /\ thread = "stdin" /\ thread' # "stdin" /\ pc' = pc
  BY DEF FinishRead, AfterInstruction
<1>3. registers \in Seq(Change(Reg)) /\ <<change>> \in Seq(Change(Word))
  <2>1. Head(input_queue_) \in Word
    BY SessionAssumption DEF FinishRead, SessionTypeOK
  <2>2. change \in Change(Word)
    BY <1>1, <2>1 DEF Change
  <2> HIDE DEF change
  <2>3. <<change>> \in Seq(Change(Word))
    BY <2>2
  <2>4. regs' \in [Reg -> Word]
    BY DEF SessionTypeOK, TypeOK
  <2>5. QED
    BY <1>1, <2>3, <2>4, ChangeAtType
<1>4. /\ Restored(regs', registers) = regs
      /\ Repeated(regs, registers) = regs'
  <2>1. DifferOnlyAt(A0, regs, regs', Reg)
    BY <1>1 DEF FinishRead, WriteGpr, DifferOnlyAt
  <2>2. QED
    BY <2>1, ChangeInverts
<1>5. /\ Restored(mem', <<change>>) = mem
      /\ Repeated(mem, <<change>>) = mem'
  BY <1>1, LineInverts DEF FinishRead
<1> HIDE DEF change, registers
<1>6. noted \in StepDelta
  BY <1>1, <1>3, NotingType
<1>7. /\ noted.old_pc = current_delta_.old_pc
      /\ noted.register_changes = registers
      /\ noted.memory_changes = <<change>>
  <2>1. << >> \o registers = registers /\ << >> \o <<change>> = <<change>>
    BY <1>3
  <2>2. QED
    BY <1>1, <2>1 DEF Noting, NoChangeWaits, StepDelta
<1> HIDE DEF noted
<1>8. /\ delta \in StepDelta
      /\ delta.old_pc = current_delta_.old_pc /\ delta.new_pc = pc
      /\ delta.register_changes = registers
      /\ delta.memory_changes = <<change>>
  BY <1>1, <1>6, <1>7 DEF StepDelta
<1> HIDE DEF delta
<1>9. /\ undo_stack_' = Pushed(undo_stack_, delta) /\ redo_stack_' = << >>
      /\ NoChangeWaits'
  BY <1>2 DEF Push, Pushed, EmptyDelta, NoChangeWaits
<1>10. Undone(Present', delta) = Present /\ Redone(Present, delta) = Present'
  BY <1>2, <1>4, <1>5, <1>8 DEF Undone, Redone, Present, StepPc
<1>11. QED
  BY <1>8, <1>9, <1>10, PushedStep

\* What leaves the present, the stacks and the changes alone is not a step.
LEMMA StutterHistory ==
    ASSUME SessionTypeOK, SessionTypeOK', NoChangeWaits, Retracing,
           Present' = Present, UNCHANGED <<undo_stack_, redo_stack_>>,
           /\ current_delta_'.register_changes = current_delta_.register_changes
           /\ current_delta_'.memory_changes = current_delta_.memory_changes
    PROVE  NoChangeWaits' /\ Retracing' /\ UNCHANGED History!vars
BY HistoryUnchanged DEF NoChangeWaits, History!vars

\* The VM thread, unless Run executes: an instruction and a read are steps, the
\* begin of a read and all that surrounds an instruction are none.
LEMMA ThreadHistory ==
    ASSUME SessionTypeOK, SessionTypeOK', NoChangeWaits, Retracing,
           ThreadNext, ~RunsUnrecorded
    PROVE  NoChangeWaits' /\ Retracing' /\ [History!Next]_(History!vars)
<1>1. CASE Begin
  BY <1>1, StutterHistory DEF Begin, machine, history, Present, StepPc
<1>2. CASE ExecuteInstruction
  <2>1. /\ RecordedInstruction
        /\ thread # "stdin" /\ thread' # "stdin"
    BY <1>2 DEF ExecuteInstruction, RunsUnrecorded, Executing, AfterInstruction
  <2>2. QED
    BY <2>1, InstructionHistory DEF History!Next
<1>3. CASE BeginRead
  <2>1. /\ thread # "stdin" /\ job # "Run"
        /\ thread' = "stdin" /\ UNCHANGED <<regs, mem, undo_stack_, redo_stack_>>
        /\ current_delta_' = [current_delta_ EXCEPT !.old_pc = pc]
        /\ current_delta_ \in StepDelta
    BY <1>3 DEF BeginRead, Executing, RunsUnrecorded, SessionTypeOK
  <2>2. /\ current_delta_'.old_pc = pc
        /\ current_delta_'.register_changes = current_delta_.register_changes
        /\ current_delta_'.memory_changes = current_delta_.memory_changes
    BY <2>1 DEF StepDelta
  <2>3. Present' = Present
    BY <2>1, <2>2 DEF Present, StepPc
  <2>4. QED
    BY <2>1, <2>2, <2>3, StutterHistory
<1>4. CASE FinishRead
  <2>1. job # "Run"
    BY <1>4 DEF FinishRead, RunsUnrecorded
  <2>2. QED
    BY <1>4, <2>1, ReadHistory DEF History!Next
<1>5. CASE LeaveFunction
  <2>1. /\ thread # "stdin" /\ thread' # "stdin"
        /\ UNCHANGED <<pc, regs, mem, undo_stack_, redo_stack_>>
        /\ current_delta_' \in {[current_delta_ EXCEPT !.old_pc = pc], current_delta_}
        /\ current_delta_ \in StepDelta
    BY <1>5 DEF LeaveFunction, SessionTypeOK
  <2>2. /\ current_delta_'.register_changes = current_delta_.register_changes
        /\ current_delta_'.memory_changes = current_delta_.memory_changes
    BY <2>1 DEF StepDelta
  <2>3. Present' = Present
    BY <2>1 DEF Present, StepPc
  <2>4. QED
    BY <2>1, <2>2, <2>3, StutterHistory
<1>6. CASE EndThread
  BY <1>6, StutterHistory DEF EndThread, machine, history, Present, StepPc
<1>7. QED
  BY <1>1, <1>2, <1>3, <1>4, <1>5, <1>6 DEF ThreadNext

\* Undo and redo: the flag is down, so that no read is in progress.
LEMMA UndoOrRedoHistory ==
    ASSUME SessionTypeOK, SessionTypeOK', FlagFollowsThread, NoChangeWaits,
           Retracing, UndoOrRedo
    PROVE  NoChangeWaits' /\ Retracing' /\ [History!Next]_(History!vars)
<1>1. /\ thread # "stdin" /\ thread' = thread
      /\ UndoCommand \/ RedoCommand
  BY DEF UndoOrRedo, UndoCommand, RedoCommand, FlagFollowsThread, Idle, control
<1>2. CASE UndoCommand
  <2> DEFINE last == Top(undo_stack_)
  <2>1. /\ undo_stack_ # << >> /\ undo_stack_' = Popped(undo_stack_)
        /\ redo_stack_' = Pushed(redo_stack_, last)
        /\ current_delta_' = current_delta_
        /\ regs' = Restored(regs, last.register_changes)
        /\ mem' = Restored(mem, last.memory_changes)
        /\ pc' = last.old_pc
    BY <1>2 DEF UndoCommand, Undo, Pushed
  <2>2. Present' = Undone(Present, last)
    BY <1>1, <2>1 DEF Present, StepPc, Undone
  <2>3. QED
    BY <2>1, <2>2, UndoneStep DEF NoChangeWaits, History!Next
<1>3. CASE RedoCommand
  <2> DEFINE next == Top(redo_stack_)
  <2>1. /\ redo_stack_ # << >> /\ redo_stack_' = Popped(redo_stack_)
        /\ undo_stack_' = Pushed(undo_stack_, next)
        /\ current_delta_' = current_delta_
        /\ regs' = Repeated(regs, next.register_changes)
        /\ mem' = Repeated(mem, next.memory_changes)
        /\ pc' = next.new_pc
    BY <1>3 DEF RedoCommand, Redo, Pushed
  <2>2. Present' = Redone(Present, next)
    BY <1>1, <2>1 DEF Present, StepPc, Redone
  <2>3. QED
    BY <2>1, <2>2, RedoneStep DEF NoChangeWaits, History!Next
<1>4. QED
  BY <1>1, <1>2, <1>3

\* The other commands leave the machine alone, and no read begins or ends.
LEMMA SupervisionHistory ==
    ASSUME SessionTypeOK, SessionTypeOK', NoChangeWaits, Retracing,
           Supervision \/ FinishLaunch \/ FinishExit
    PROVE  NoChangeWaits' /\ Retracing' /\ UNCHANGED History!vars
<1>1. UNCHANGED machine /\ (thread' = "stdin" <=> thread = "stdin")
  BY DEF Supervision, Launch, Stop, Exit, VmStdin, ToggleBreakpoint,
         FinishLaunch, FinishExit, CreateThread, control
<1>2. Present' = Present
  BY <1>1 DEF machine, history, Present, StepPc
<1>3. QED
  BY <1>1, <1>2, StutterHistory DEF machine, history

\* All steps.  After an intervention the history is that of a new machine.
LEMMA SessionHistory ==
    ASSUME SessionTypeOK, SessionTypeOK', FlagFollowsThread, Retraceable,
           [HNext]_hvars
    PROVE  /\ Retraceable'
           /\ recorded /\ recorded' => [History!Next]_(History!vars)
<1>1. recorded => NoChangeWaits /\ Retracing
  BY RetraceableMeans
<1>2. SUFFICES
        ASSUME recorded'
        PROVE  /\ NoChangeWaits' /\ Retracing'
               /\ recorded => [History!Next]_(History!vars)
  BY RetraceableMeansNext
<1>3. CASE ThreadNext /\ recorded' = (recorded /\ ~RunsUnrecorded)
  <2>1. recorded /\ ~RunsUnrecorded
    BY <1>2, <1>3, Zenon
  <2>2. QED
    BY <1>1, <1>3, <2>1, ThreadHistory
<1>4. CASE (Supervision \/ FinishLaunch \/ FinishExit) /\ recorded' = recorded
  <2>1. recorded
    BY <1>2, <1>4
  <2>2. QED
    BY <1>1, <1>4, <2>1, SupervisionHistory
<1>5. CASE UndoOrRedo /\ recorded' = recorded
  <2>1. recorded
    BY <1>2, <1>5
  <2>2. QED
    BY <1>1, <1>5, <2>1, UndoOrRedoHistory
<1>6. CASE Intervention /\ recorded' = NothingRecorded'
  <2>1. NothingRecorded'
    BY <1>2, <1>6, Zenon
  <2>2. undo_stack_' = << >> /\ redo_stack_' = << >> /\ NoChangeWaits'
    BY <2>1 DEF NothingRecorded, NoChangeWaits
  <2>3. QED
    BY <2>2, HistoryCleared DEF History!Next, History!Start
<1>7. CASE UNCHANGED hvars
  <2>1. UNCHANGED <<pc, regs, mem, undo_stack_, redo_stack_, current_delta_,
                    thread, recorded>>
    BY <1>7 DEF hvars, sessionVars, machine, history, control
  <2>2. Present' = Present
    BY <2>1 DEF Present, StepPc
  <2>3. recorded
    BY <1>2, <2>1
  <2>4. QED
    BY <1>1, <2>1, <2>2, <2>3, StutterHistory
<1>8. QED
  BY <1>3, <1>4, <1>5, <1>6, <1>7 DEF HNext

\* Between any two states of the history that Step and DebugRun record, undo and
\* redo lead back and forth: whatever was executed, read, undone, redone or reset
\* in between, by either thread.
THEOREM HistoryRetraceable == HSpec => []Retraceable
<1>1. HInit => Retraceable
  <2>1. SUFFICES ASSUME HInit
                 PROVE  Retraceable
    OBVIOUS
  <2>2. undo_stack_ = << >> /\ redo_stack_ = << >> /\ current_delta_ = EmptyDelta
    BY <2>1 DEF HInit, SessionInit
  <2>3. QED
    BY <2>2 DEF Retraceable, EmptyDelta
<1>2. /\ SessionTypeOK /\ SessionTypeOK' /\ FlagFollowsThread /\ Retraceable
      /\ [HNext]_hvars
      => Retraceable'
  BY SessionHistory
<1>3. QED
  BY <1>1, <1>2, TypeCorrect, FlagFollows, PTL DEF HSpec

\* Undo and redo implement the abstract history, which keeps a copy of the whole
\* machine for every step: the deltas of RVSSVM are enough, as long as Run, which
\* leaves its changes in current_delta_, is not used and the user does not change
\* the machine behind the back of the stacks.
THEOREM ImplementsHistory == HSpec => ImplementsStepHistory
<1>1. /\ SessionTypeOK /\ SessionTypeOK' /\ FlagFollowsThread /\ Retraceable
      /\ [HNext]_hvars
      => [recorded /\ recorded' => [History!Next]_(History!vars)]_hvars
  BY SessionHistory
<1>2. QED
  BY <1>1, TypeCorrect, FlagFollows, HistoryRetraceable, PTL
  DEF HSpec, ImplementsStepHistory
==============================================================================
