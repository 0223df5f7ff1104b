------------------------------ MODULE Rv5sLemmas ------------------------------
(***************************************************************************)
(* Lemmas about the operators and the actions the five-stage machines      *)
(* share: each computes values of its type.                                *)
(***************************************************************************)
EXTENDS Rv5sArchitecture, RvIsaLemmas

\* The second operand of lui and auipc is a word.
LEMMA UpperType ==
    ASSUME NEW imm \in Word
    PROVE  UpperOperand(imm) \in Word
<1>1. imm * UpperUnit \in Int
  BY WordFacts, IsaAssumption
<1> DEFINE v == (imm * UpperUnit) % HalfMod
<1>2. v \in 0 .. HalfMod - 1
  BY <1>1, IsaAssumption
<1>3. v \in Word /\ v + (WordMod - HalfMod) \in Word
  BY <1>2, IsaAssumption DEF Word
<1>4. UpperOperand(imm) \in {v, v + (WordMod - HalfMod)}
  BY DEF UpperOperand
<1>5. QED
  BY <1>3, <1>4

-----------------------------------------------------------------------------
(* Types of what the stages compute                                        *)

\* Bubbles and the empty tables have their types.
LEMMA InitialTypes ==
    /\ EmptyBht \in Bht
    /\ IF_ID_Bubble \in IF_ID_Reg /\ ID_EX_Bubble \in ID_EX_Reg
    /\ EX_MEM_Bubble \in EX_MEM_Reg /\ MEM_WB_Bubble \in MEM_WB_Reg
    /\ NoPerf \in Perf
<1>1. 0 \in Word /\ 0 \in Reg /\ 0 \in 0 .. 3 /\ 0 \in 0 .. CounterMod - 1
  BY WordFacts, ZeroTypes, PipelineAssumption
<1>2. "nop" \in Op
  BY DEF Op
<1>3. EmptyBht \in Bht
  BY <1>1 DEF EmptyBht, Bht
<1>4. IF_ID_Bubble \in IF_ID_Reg
  BY <1>1, <1>2 DEF IF_ID_Bubble, IF_ID_Reg, NopInstr, Instr
<1>5. ID_EX_Bubble \in ID_EX_Reg
  BY <1>1, <1>2 DEF ID_EX_Bubble, ID_EX_Reg
<1>6. EX_MEM_Bubble \in EX_MEM_Reg /\ MEM_WB_Bubble \in MEM_WB_Reg
  BY <1>1, <1>2 DEF EX_MEM_Bubble, EX_MEM_Reg, MEM_WB_Bubble, MEM_WB_Reg
<1>7. NoPerf \in Perf
  BY <1>1 DEF NoPerf, Perf
<1>8. QED
  BY <1>3, <1>4, <1>5, <1>6, <1>7

\* The value a MEM/WB register delivers is a word.
LEMMA WriteBackDataType ==
    ASSUME NEW r \in MEM_WB_Reg
    PROVE  getWriteBackData(r) \in Word
BY WordFacts DEF getWriteBackData, MEM_WB_Reg

\* A branch history table stays one.
LEMMA BhtType ==
    ASSUME NEW type, NEW b \in Bht, NEW a \in Word, NEW taken \in BOOLEAN
    PROVE  updateState(type, b, a, taken) \in Bht
<1>1. Saturate(b[a], taken) \in 0 .. 3
  BY DEF Saturate, Bht
<1>2. (IF taken THEN 1 ELSE 0) \in 0 .. 3
  OBVIOUS
<1>3. [b EXCEPT ![a] = Saturate(b[a], taken)] \in Bht
  BY <1>1 DEF Bht
<1>4. [b EXCEPT ![a] = IF taken THEN 1 ELSE 0] \in Bht
  BY <1>2 DEF Bht
<1>5. QED
  BY <1>3, <1>4 DEF updateState

\* What write-back, memory and execute compute in a well-typed state.
LEMMA StageTypes ==
    ASSUME TypeOK
    PROVE  /\ WriteBack_Stage \in [Reg -> Word]
           /\ Memory_Store \in [Word -> Word]
           /\ Memory_Stage \in MEM_WB_Reg
           /\ data_alu_a \in Word /\ data_alu_b \in Word
           /\ execution_result \in Word
           /\ Execute_Stage \in EX_MEM_Reg
<1> USE DEF TypeOK
<1>1. WriteBack_Stage \in [Reg -> Word]
  BY WriteBackDataType, WriteGprType DEF WriteBack_Stage, MEM_WB_Reg
<1>2. Memory_Store \in [Word -> Word]
  BY DEF Memory_Store, EX_MEM_Reg
<1>3. Memory_Stage \in MEM_WB_Reg
  BY WordFacts, InitialTypes DEF Memory_Stage, EX_MEM_Reg, MEM_WB_Reg
<1>4. ASSUME NEW r, NEW d \in Word PROVE AluOperand(r, d) \in Word
  BY WriteBackDataType DEF AluOperand, EX_MEM_Reg
<1>5. data_alu_a \in Word /\ data_alu_b \in Word
  BY <1>4 DEF data_alu_a, data_alu_b, ID_EX_Reg
<1>6. reg1_value \in Word
  BY <1>5, WordFacts DEF reg1_value, ID_EX_Reg
<1>7. reg2_value \in Word
  BY <1>5, UpperType DEF reg2_value, ID_EX_Reg
<1>8. execution_result \in Word
  BY <1>6, <1>7, AluType DEF execution_result
<1>9. Execute_Stage \in EX_MEM_Reg
  BY <1>5, <1>8, InitialTypes DEF Execute_Stage, EX_MEM_Reg, ID_EX_Reg
<1>10. QED
  BY <1>1, <1>2, <1>3, <1>5, <1>8, <1>9

\* What decode latches for an instruction it lets through.
LEMMA DecodedType ==
    ASSUME TypeOK, NEW p \in BOOLEAN
    PROVE  Decoded(p) \in ID_EX_Reg
<1>1. rs1_index(if_id.inst) \in Reg /\ rs2_index(if_id.inst) \in Reg
  BY IsaAssumption DEF TypeOK, IF_ID_Reg, Instr, rs1_index, rs2_index, Reg
<1>2. if_id.inst \in Instr /\ if_id.pc \in Word /\ if_id.pc_inc \in Word
  BY DEF TypeOK, IF_ID_Reg
<1>3. /\ WriteBack_Stage[rs1_index(if_id.inst)] \in Word
      /\ WriteBack_Stage[rs2_index(if_id.inst)] \in Word
  BY <1>1, StageTypes
<1>4. [ID_EX_Bubble EXCEPT !.is_valid = TRUE, !.pc = if_id.pc,
                           !.pc_inc = if_id.pc_inc] \in ID_EX_Reg
  BY <1>2, InitialTypes DEF ID_EX_Reg
<1>5. QED
  BY <1>1, <1>2, <1>3, <1>4 DEF Decoded, ID_EX_Reg, Instr

\* Every counter stays in range.
LEMMA CountType ==
    ASSUME NEW c \in 0 .. CounterMod - 1, NEW n \in Nat
    PROVE  Count(c, n) \in 0 .. CounterMod - 1
BY PipelineAssumption DEF Count

-----------------------------------------------------------------------------
(* Types of what the actions leave behind                                  *)

\* The machine as its constructor or Reset leaves it, and a load.
LEMMA InitType == InitMachine => TypeOK
BY InitialTypes, ZeroTypes, WordFacts DEF InitMachine, TypeOK

\* A reset leaves a machine of the declared types.
LEMMA ResetType == ResetMachine => TypeOK'
BY InitialTypes, ZeroTypes, WordFacts DEF ResetMachine, TypeOK

\* So does a load, which changes the program and the memory.
LEMMA LoadType ==
    ASSUME TypeOK, NEW p \in Programs, LoadMachine(p)
    PROVE  TypeOK'
BY LoadDataType DEF LoadMachine, TypeOK

\* A new machine with a program.
LEMMA LoadedType == Loaded => TypeOK
<1>1. SUFFICES ASSUME Loaded PROVE TypeOK
  OBVIOUS
<1>2. LoadData(ZeroMemory, prog.data) \in [Word -> Word]
  BY <1>1, LoadDataType, ZeroTypes DEF Loaded
<1>3. QED
  BY <1>1, <1>2, InitialTypes, ZeroTypes, WordFacts DEF Loaded, TypeOK

\* What the Step of every machine does to the stages behind decode.
DatapathStep ==
    /\ regs'   = WriteBack_Stage
    /\ mem'    = Memory_Store
    /\ mem_wb' = Memory_Stage
    /\ ex_mem' = Execute_Stage
    /\ UNCHANGED <<mode, prog>>

\* Such a step keeps the types if the front end does.
LEMMA DatapathType ==
    ASSUME TypeOK, DatapathStep,
           pc' \in Word, if_id' \in IF_ID_Reg, id_ex' \in ID_EX_Reg,
           bht' \in Bht, status' = StatusAfterStep, perf' \in Perf
    PROVE  TypeOK'
<1>1. status' \in {"VM_STEP_COMPLETED", "VM_PROGRAM_END"}
  BY DEF StatusAfterStep
<1>2. QED
  BY <1>1, StageTypes DEF DatapathStep, TypeOK

\* The instruction at a PC inside the loaded program.
LEMMA LoadedText ==
    ASSUME TypeOK
    PROVE  /\ program_size \in Word
           /\ \A a \in Word : a < program_size =>
                 /\ prog \in Programs
                 /\ a + 1 \in DOMAIN prog.text
                 /\ prog.text[a + 1] \in Instr
                 /\ UpdateProgramCounter(a, 1) = a + 1
BY TextType DEF TypeOK, program_size

-----------------------------------------------------------------------------
(* The statistics                                                          *)

\* A counter goes up by n, a number of times round apart; by less than its
\* range, it stays the same only if n is 0.
LEMMA CountUp ==
    ASSUME NEW c \in 0 .. CounterMod - 1, NEW n \in Nat
    PROVE  /\ \E k \in Int : Count(c, n) = c + n + CounterMod * k
           /\ n < CounterMod => (Count(c, n) = c <=> n = 0)
<1> DEFINE M == CounterMod
           x == c + n
<1>1. M \in Nat \ {0} /\ x \in Int
  BY PipelineAssumption
<1>2. x = M * (x \div M) + (x % M) /\ x \div M \in Int
  BY <1>1, Division
<1>3. x % M = x + M * (-(x \div M)) /\ -(x \div M) \in Int
  BY <1>1, <1>2
<1>4. \E k \in Int : Count(c, n) = c + n + CounterMod * k
  <2>1. Count(c, n) = x % M
    BY DEF Count
  <2>2. Count(c, n) = c + n + CounterMod * (-(x \div M))
    BY <1>3, <2>1
  <2>3. -(x \div M) \in Int
    BY <1>3
  <2>4. QED
    BY <2>2, <2>3
<1>5. ASSUME n < M PROVE Count(c, n) = c <=> n = 0
  <2>1. CASE x < M
    <3>1. x % M = x
      BY <1>1, <2>1
    <3>2. QED
      BY <3>1 DEF Count
  <2>2. CASE x >= M
    <3>1. x % M = x - M
      BY <1>1, <1>5, <2>2
    <3>2. QED
      BY <1>1, <1>5, <2>2, <3>1 DEF Count
  <2>3. QED
    BY <1>1, <2>1, <2>2
<1>6. QED
  BY <1>4, <1>5

\* A cycle is accounted for if what the front end counts as lost makes up for
\* what it does not fetch.
LEMMA FrontEndAccounts ==
    ASSUME TypeOK, TypeOK', DatapathStep, CounterMod > 2,
           NEW n \in 0 .. 2,
           perf'.instructions_retired =
               Count(perf.instructions_retired, Bit(mem_wb.is_valid)),
           perf'.stall_cycles = Count(perf.stall_cycles, n),
           n + Bit(if_id'.is_valid) + Bit(id_ex'.is_valid) =
               Bit(if_id.is_valid)
                   + Bit(~(pc' >= program_size /\ ~if_id'.is_valid /\ n = 0))
    PROVE  CycleAccounted
<1> DEFINE M == CounterMod
           w == Bit(mem_wb.is_valid)
           idle == /\ pc' >= program_size
                   /\ ~if_id'.is_valid
                   /\ perf'.stall_cycles = perf.stall_cycles
<1>1. /\ M \in Nat \ {0}
      /\ perf.instructions_retired \in 0 .. M - 1
      /\ perf.stall_cycles \in 0 .. M - 1
  BY PipelineAssumption DEF TypeOK, Perf
<1>2. w \in {0, 1} /\ \A b : Bit(b) \in {0, 1}
  BY DEF Bit
<1>3. PICK j \in Int : perf'.instructions_retired =
                           perf.instructions_retired + w + M * j
  BY <1>1, <1>2, CountUp
<1>4. PICK k \in Int : perf'.stall_cycles = perf.stall_cycles + n + M * k
  <2>1. n \in Nat
    OBVIOUS
  <2>2. \E k \in Int : Count(perf.stall_cycles, n) =
                          perf.stall_cycles + n + CounterMod * k
    BY <1>1, <2>1, CountUp
  <2>3. QED
    BY <2>2
<1>5. perf'.stall_cycles = perf.stall_cycles <=> n = 0
  BY <1>1, CountUp
<1>6. Bit(~idle) = Bit(~(pc' >= program_size /\ ~if_id'.is_valid /\ n = 0))
  BY <1>5
<1>7. /\ ex_mem'.is_valid = id_ex.is_valid
      /\ mem_wb'.is_valid = ex_mem.is_valid
  BY DEF DatapathStep, TypeOK, ID_EX_Reg, EX_MEM_Reg, Execute_Stage,
         EX_MEM_Bubble, Memory_Stage, MEM_WB_Bubble
<1>8. Occupancy' = Bit(if_id'.is_valid) + Bit(id_ex'.is_valid)
                       + Bit(id_ex.is_valid) + Bit(ex_mem.is_valid)
  BY <1>7 DEF Occupancy
<1>9. Slots' - Slots = Bit(~idle) + (M * j + M * k)
  <2>1. M * j \in Int /\ M * k \in Int
    BY <1>1
  <2>2. QED
    BY <1>1, <1>2, <1>3, <1>4, <1>6, <1>8, <2>1 DEF Slots, Occupancy
<1>10. M * j + M * k = M * (j + k)
  BY <1>1
<1>11. (Bit(~idle) + M * (j + k)) % M = Bit(~idle) % M
  <2>1. Bit(~idle) \in Int /\ j + k \in Int /\ M \in Nat \ {0}
    BY <1>1, <1>2
  <2> HIDE DEF idle, M
  <2>2. QED
    BY <2>1, RemainderShift
<1>12. QED
  BY <1>9, <1>10, <1>11 DEF CycleAccounted
==============================================================================
