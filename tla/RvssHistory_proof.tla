-------------------------- MODULE RvssHistory_proof --------------------------
(***************************************************************************)
(* The delta of one instruction is enough to go back and forth across it,  *)
(* whatever the instruction, provided that nothing was left in it by Run.  *)
(***************************************************************************)
EXTENDS RvssHistory, RvIsaLemmas, WellFoundedInduction

-----------------------------------------------------------------------------
(* Types                                                                   *)

\* An upper immediate, widened with its sign, is a word.
LEMMA UpperImmediateType ==
    ASSUME NEW imm \in Word
    PROVE  UpperImmediate(imm) \in Word
<1> DEFINE v == (imm * UpperUnit) % HalfMod
<1>1. imm * UpperUnit \in Int /\ HalfMod \in Nat \ {0}
  BY IsaAssumption, WordFacts
<1>2. v \in 0 .. HalfMod - 1
  BY <1>1, Division
<1> HIDE DEF v
<1>3. (IF 2 * v >= HalfMod THEN v + (WordMod - HalfMod) ELSE v) \in Word
  BY <1>2, IsaAssumption DEF Word
<1>4. QED
  BY <1>3 DEF UpperImmediate, v

\* What one instruction leaves is a machine state again.
LEMMA InstructionType ==
    ASSUME TypeOK, NEW i \in Instr
    PROVE  /\ ExecutionResult(i) \in Word
           /\ NextPc(i) \in Word
           /\ WriteMemory(i) \in [Word -> Word]
           /\ WriteBack(i) \in [Reg -> Word]
<1>1. /\ i.rd \in Reg /\ i.rs1 \in Reg /\ i.rs2 \in Reg /\ i.imm \in Word
      /\ pc \in Word /\ regs \in [Reg -> Word] /\ mem \in [Word -> Word]
  BY DEF Instr, TypeOK
<1>2. UpperImmediate(i.imm) \in Word
  BY <1>1, UpperImmediateType
<1>3. (pc + UpperImmediate(i.imm)) % WordMod \in Word
  <2> DEFINE u == UpperImmediate(i.imm)
  <2>1. u \in Word
    BY <1>2
  <2> HIDE DEF u
  <2>2. (pc + u) % WordMod \in Word
    BY <1>1, <2>1, WordFacts
  <2>3. QED
    BY <2>2 DEF u
<1>4. /\ regs[i.rs1] \in Word
      /\ (IF alu_src_(i.op) THEN i.imm ELSE regs[i.rs2]) \in Word
  BY <1>1
<1>5. ExecutionResult(i) \in Word
  BY <1>3, <1>4, AluType DEF ExecutionResult
<1>6. NextPc(i) \in Word
  BY <1>1, <1>5, PcType, WordFacts DEF NextPc
<1>7. WriteMemory(i) \in [Word -> Word]
  BY <1>1, <1>5 DEF WriteMemory
<1>8. WriteBackData(i) \in Word
  BY <1>1, <1>2, <1>5, PcType, WordFacts DEF WriteBackData
<1>9. WriteBack(i) \in [Reg -> Word]
  BY <1>1, <1>8, WriteGprType DEF WriteBack
<1>10. QED
  BY <1>5, <1>6, <1>7, <1>9

\* The instruction a step executes.
LEMMA StepInstruction ==
    ASSUME TypeOK, Step
    PROVE  /\ prog.text[pc + 1] \in Instr
           /\ pc' = NextPc(prog.text[pc + 1])
           /\ mem' = WriteMemory(prog.text[pc + 1])
           /\ regs' = WriteBack(prog.text[pc + 1])
           /\ prog' = prog
BY TextType DEF TypeOK, Step, program_size

\* A step keeps the types of the machine.
LEMMA SingleStepType ==
    ASSUME TypeOK, Step
    PROVE  TypeOK'
BY StepInstruction, InstructionType DEF TypeOK

-----------------------------------------------------------------------------
(* Deltas                                                                  *)

\* A set of natural numbers has a smallest member.
LEMMA SmallestNat ==
    ASSUME NEW T, T \subseteq Nat, T # {}
    PROVE  \E n \in T : \A m \in T : n <= m
<1> DEFINE R == OpToRel(<, Nat)
<1>1. IsWellFoundedOn(R, Nat)
  BY NatLessThanWellFounded
<1>2. R = {ss \in Nat \X Nat : ss[1] < ss[2]}
  BY DEF OpToRel
<1> HIDE DEF R
<1>3. PICK n \in T : \A m \in T : ~(<<m, n>> \in R)
  BY <1>1, WFMin
<1>4. ASSUME NEW m \in T
      PROVE  n <= m
  <2> DEFINE ss == <<m, n>>
  <2>1. ss \in Nat \X Nat /\ ss[1] = m /\ ss[2] = n
    OBVIOUS
  <2>2. ~(ss \in R)
    BY <1>3
  <2> HIDE DEF ss
  <2>3. QED
    BY <1>2, <2>1, <2>2
<1>5. QED
  BY <1>4

\* Of the changes of a location, one is the last.
LEMMA LastChange ==
    ASSUME NEW S, NEW changes \in Seq(S), NEW x \in Changed(changes)
    PROVE  /\ Last(changes, x) \in DOMAIN changes
           /\ changes[Last(changes, x)].at = x
<1> DEFINE n == Len(changes)
           T == {n - k : k \in {j \in 1 .. n : changes[j].at = x}}
<1>1. n \in Nat /\ DOMAIN changes = 1 .. n
  OBVIOUS
<1>2. T \subseteq Nat /\ T # {}
  BY <1>1 DEF Changed
<1>3. PICK m \in T : \A t \in T : m <= t
  BY <1>2, SmallestNat
<1>4. PICK k \in 1 .. n : changes[k].at = x /\ m = n - k
  BY <1>3
<1>5. ASSUME NEW j \in 1 .. n, changes[j].at = x
      PROVE  j <= k
  <2>1. n - j \in T
    BY <1>5
  <2>2. n - k <= n - j
    BY <1>3, <1>4, <2>1
  <2>3. QED
    BY <1>1, <2>2
<1>6. \E l \in DOMAIN changes :
         /\ changes[l].at = x
         /\ \A j \in DOMAIN changes : changes[j].at = x => j <= l
  BY <1>1, <1>4, <1>5
<1>7. QED
  BY <1>6 DEF Last

\* What undo and redo write back is a memory or a register file again.
LEMMA RestoredType ==
    ASSUME NEW D, NEW f \in [D -> Word], NEW changes \in Seq(Change(D))
    PROVE  /\ Restored(f, changes) \in [D -> Word]
           /\ Repeated(f, changes) \in [D -> Word]
<1>1. ASSUME NEW x \in Changed(changes)
      PROVE  /\ changes[Last(changes, x)].old_value \in Word
             /\ changes[Last(changes, x)].new_value \in Word
  <2>1. Last(changes, x) \in DOMAIN changes
    BY LastChange
  <2>2. changes[Last(changes, x)] \in Change(D)
    BY <2>1
  <2>3. QED
    BY <2>2 DEF Change
<1>2. QED
  BY <1>1 DEF Restored, Repeated

\* The change of one location, and what is noted in a delta.
LEMMA ChangeAtType ==
    ASSUME NEW D, NEW f \in [D -> Word], NEW g \in [D -> Word], NEW x \in D
    PROVE  ChangeAt(x, f, g) \in Seq(Change(D))
<1> DEFINE c == [at |-> x, old_value |-> f[x], new_value |-> g[x]]
<1>1. c \in Change(D)
  BY DEF Change
<1> HIDE DEF c
<1>2. <<c>> \in Seq(Change(D)) /\ << >> \in Seq(Change(D))
  BY <1>1
<1>3. QED
  BY <1>2 DEF ChangeAt, c

\* A delta stays one when changes are noted in it.
LEMMA NotingType ==
    ASSUME NEW delta \in StepDelta,
           NEW register_changes \in Seq(Change(Reg)),
           NEW memory_changes \in Seq(Change(Word))
    PROVE  Noting(delta, register_changes, memory_changes) \in StepDelta
<1>1. delta.register_changes \o register_changes \in Seq(Change(Reg))
      /\ delta.memory_changes \o memory_changes \in Seq(Change(Word))
  BY DEF StepDelta
<1>2. QED
  BY <1>1 DEF Noting, StepDelta

\* What an instruction notes is a delta.
LEMMA DeltaType ==
    ASSUME TypeOK, current_delta_ \in StepDelta, NEW i \in Instr
    PROVE  DeltaAfter(i) \in StepDelta
<1>1. i.rd \in Reg /\ regs \in [Reg -> Word] /\ mem \in [Word -> Word]
  BY DEF Instr, TypeOK
<1>2. ChangeAt(i.rd, regs, WriteBack(i)) \in Seq(Change(Reg))
  BY <1>1, InstructionType, ChangeAtType
<1>3. ChangeAt(ExecutionResult(i), mem, WriteMemory(i)) \in Seq(Change(Word))
  BY <1>1, InstructionType, ChangeAtType
<1>4. << >> \in Seq(Change(Word))
  OBVIOUS
<1>5. QED
  BY <1>2, <1>3, <1>4, NotingType DEF DeltaAfter

-----------------------------------------------------------------------------
(* Going back and forth across one instruction                             *)

\* A change of one location is one entry, which is then the last for it.
LEMMA OneChange ==
    ASSUME NEW x, NEW old, NEW new
    PROVE  LET changes == <<[at |-> x, old_value |-> old, new_value |-> new]>>
           IN  /\ Changed(changes) = {x}
               /\ changes[Last(changes, x)].old_value = old
               /\ changes[Last(changes, x)].new_value = new
<1> DEFINE changes == <<[at |-> x, old_value |-> old, new_value |-> new]>>
<1>1. DOMAIN changes = {1} /\ changes[1].at = x
      /\ changes[1].old_value = old /\ changes[1].new_value = new
  OBVIOUS
<1> HIDE DEF changes
<1>2. Changed(changes) = {x}
  BY <1>1 DEF Changed
<1>3. Last(changes, x) = 1
  <2>1. \A k \in DOMAIN changes : k = 1
    BY <1>1
  <2>2. 1 \in DOMAIN changes /\ \A j \in DOMAIN changes : changes[j].at = x => j <= 1
    BY <1>1
  <2> QED
    BY <1>1, <2>1, <2>2 DEF Last
<1> QED
  BY <1>1, <1>2, <1>3 DEF changes

\* Two functions on D, the same but for their values at x.
DifferOnlyAt(x, f, g, D) ==
    /\ f = [y \in D |-> f[y]] /\ g = [y \in D |-> g[y]]
    /\ \A y \in D \ {x} : g[y] = f[y]
    /\ x \notin D => f[x] = g[x]

\* If one location is written, writing its change back or again leads to the
\* function before or behind the write.
LEMMA ChangeInverts ==
    ASSUME NEW D, NEW f, NEW g, NEW x, DifferOnlyAt(x, f, g, D)
    PROVE  /\ Restored(g, ChangeAt(x, f, g)) = f
           /\ Repeated(f, ChangeAt(x, f, g)) = g
<1> USE DEF DifferOnlyAt
<1>1. CASE f[x] = g[x]
  <2>1. ChangeAt(x, f, g) = << >> /\ Changed(<< >>) = {}
    BY <1>1 DEF ChangeAt, Changed
  <2>2. \A y \in D : g[y] = f[y]
    BY <1>1
  <2>3. /\ Restored(g, << >>) = [y \in D |-> g[y]]
        /\ Repeated(f, << >>) = [y \in D |-> f[y]]
    BY <2>1 DEF Restored, Repeated
  <2> QED
    BY <2>1, <2>2, <2>3
<1>2. CASE f[x] # g[x]
  <2> DEFINE changes == <<[at |-> x, old_value |-> f[x], new_value |-> g[x]]>>
  <2>1. ChangeAt(x, f, g) = changes
    BY <1>2 DEF ChangeAt
  <2>2. /\ Changed(changes) = {x}
        /\ changes[Last(changes, x)].old_value = f[x]
        /\ changes[Last(changes, x)].new_value = g[x]
    BY OneChange
  <2> HIDE DEF changes
  <2>3. Restored(g, changes) = [y \in D |-> IF y = x THEN f[x] ELSE g[y]]
    BY <2>2 DEF Restored
  <2>4. Repeated(f, changes) = [y \in D |-> IF y = x THEN g[x] ELSE f[y]]
    BY <2>2 DEF Repeated
  <2> QED
    BY <2>1, <2>3, <2>4
<1> QED
  BY <1>1, <1>2

-----------------------------------------------------------------------------

\* What Run leaves behind.
NothingLeft == /\ current_delta_ \in StepDelta
               /\ current_delta_.register_changes = << >>
               /\ current_delta_.memory_changes = << >>

\* The registers behind an instruction differ from those before at its
\* destination only, the memory at the address of a store.
LEMMA OneLocationWritten ==
    ASSUME TypeOK, NEW i \in Instr
    PROVE  /\ DifferOnlyAt(i.rd, regs, WriteBack(i), Reg)
           /\ DifferOnlyAt(ExecutionResult(i), mem, WriteMemory(i), Word)
           /\ ~mem_write_(i.op) => WriteMemory(i) = mem
<1>1. i.rd \in Reg
  BY DEF Instr
<1>2. DifferOnlyAt(i.rd, regs, WriteBack(i), Reg)
  BY <1>1 DEF TypeOK, WriteBack, WriteGpr, DifferOnlyAt
<1>3. DifferOnlyAt(ExecutionResult(i), mem, WriteMemory(i), Word)
  BY DEF TypeOK, WriteMemory, DifferOnlyAt
<1>4. ~mem_write_(i.op) => WriteMemory(i) = mem
  BY DEF WriteMemory
<1> QED
  BY <1>2, <1>3, <1>4

\* Undo of a step writes back the PC, the registers and the memory before it,
\* and redo those behind it, for every instruction and every state, provided
\* that no changes of a run are left in current_delta_.
THEOREM UndoAndRedoInvertStep ==
    ASSUME TypeOK, NothingLeft, undo_stack_ \in Seq(StepDelta),
           RecordedInstruction
    PROVE  LET last == Top(undo_stack_') IN
           /\ last.old_pc = pc
           /\ Restored(regs', last.register_changes) = regs
           /\ Restored(mem', last.memory_changes) = mem
           /\ last.new_pc = pc'
           /\ Repeated(regs, last.register_changes) = regs'
           /\ Repeated(mem, last.memory_changes) = mem'
<1> DEFINE i == prog.text[pc + 1]
           last == Top(undo_stack_')
           registers == ChangeAt(i.rd, regs, WriteBack(i))
           memory == IF mem_write_(i.op)
                     THEN ChangeAt(ExecutionResult(i), mem, WriteMemory(i))
                     ELSE << >>
<1>1. i \in Instr /\ regs' = WriteBack(i) /\ mem' = WriteMemory(i)
  <2>1. pc + 1 \in 1 .. Len(prog.text) /\ prog.text \in Seq(Instr)
    BY IsaAssumption
    DEF RecordedInstruction, Step, TypeOK, Word, program_size, Program, NoProgram
  <2> QED
    BY <2>1 DEF RecordedInstruction, Step
<1>2. /\ last.old_pc = pc /\ last.new_pc = pc'
      /\ last.register_changes = registers
      /\ last.memory_changes = memory
  <2> DEFINE delta == DeltaAfter(i)
             pushed == [delta EXCEPT !.old_pc = pc, !.new_pc = pc']
  <2>1. << >> \o registers = registers /\ << >> \o memory = memory
    BY DEF ChangeAt
  <2>2. delta = [current_delta_ EXCEPT !.register_changes = registers,
                                       !.memory_changes = memory]
    BY <2>1 DEF DeltaAfter, Noting, NothingLeft, StepDelta
  <2>3. undo_stack_' = Append(undo_stack_, pushed)
    BY DEF RecordedInstruction, Push
  <2>4. last = pushed
    BY <2>3 DEF Top
  <2> HIDE DEF registers, memory, i, delta
  <2>5. /\ pushed.old_pc = pc /\ pushed.new_pc = pc'
        /\ pushed.register_changes = registers
        /\ pushed.memory_changes = memory
    BY <2>2 DEF NothingLeft, StepDelta
  <2> QED
    BY <2>4, <2>5
<1>3. /\ Restored(regs', registers) = regs
      /\ Repeated(regs, registers) = regs'
  BY <1>1, OneLocationWritten, ChangeInverts
<1>4. /\ Restored(mem', memory) = mem
      /\ Repeated(mem, memory) = mem'
  <2>1. CASE mem_write_(i.op)
    BY <1>1, <2>1, OneLocationWritten, ChangeInverts
  <2>2. CASE ~mem_write_(i.op)
    <3>1. memory = << >> /\ mem' = mem
      BY <1>1, <2>2, OneLocationWritten
    <3>2. Changed(<< >>) = {}
      BY DEF Changed
    <3> QED
      BY <3>1, <3>2 DEF Restored, Repeated, TypeOK
  <2> QED
    BY <2>1, <2>2
<1> QED
  BY <1>2, <1>3, <1>4
==============================================================================
