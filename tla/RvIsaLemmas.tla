----------------------------- MODULE RvIsaLemmas -----------------------------
(***************************************************************************)
(* Lemmas about what every machine of the simulator computes with: words,  *)
(* the ALU, the register file, the text and the data of a program.         *)
(***************************************************************************)
EXTENDS RvIsa, TLAPS

\* There are at least two words, so reduction modulo WordMod gives a word.
LEMMA WordFacts ==
    /\ WordMod \in Nat /\ WordMod >= 8
    /\ 0 \in Word /\ 1 \in Word
    /\ Word \subseteq Int
    /\ \A x \in Int : x % WordMod \in Word
    /\ \A w \in Word : w % WordMod = w
BY IsaAssumption DEF Word

\* Quotient and remainder, with a modulus that is not known.
LEMMA Division ==
    ASSUME NEW M \in Nat \ {0}, NEW x \in Int
    PROVE  /\ x = M * (x \div M) + (x % M)
           /\ x \div M \in Int /\ x % M \in 0 .. M - 1
OBVIOUS

\* The remainder is the only number below the modulus at its distance.
LEMMA RemainderUnique ==
    ASSUME NEW M \in Nat \ {0}, NEW p \in Int, NEW q \in Int,
           NEW r \in 0 .. M - 1, NEW s \in 0 .. M - 1,
           M * q + r = M * p + s
    PROVE  r = s
<1>1. M * (q - p) = s - r
  <2>1. M * (q - p) = M * q - M * p
    OBVIOUS
  <2>2. M * q \in Int /\ M * p \in Int
    OBVIOUS
  <2>3. QED
    BY <2>1, <2>2
<1>2. ASSUME q - p >= 1 PROVE M * (q - p) >= M
  BY <1>2
<1>3. ASSUME q - p <= -1 PROVE M * (q - p) <= -M
  BY <1>3
<1>4. q = p
  BY <1>1, <1>2, <1>3
<1>5. QED
  BY <1>1, <1>4

\* A multiple of the modulus does not change the remainder.
LEMMA RemainderShift ==
    ASSUME NEW M \in Nat \ {0}, NEW x \in Int, NEW k \in Int
    PROVE  (x + M * k) % M = x % M
<1> DEFINE y == x + M * k
<1>1. y \in Int
  OBVIOUS
<1>2. /\ x = M * (x \div M) + (x % M)
      /\ x \div M \in Int /\ x % M \in 0 .. M - 1
      /\ y = M * (y \div M) + (y % M)
      /\ y \div M \in Int /\ y % M \in 0 .. M - 1
  BY <1>1, Division
<1>3. y = M * ((x \div M) + k) + (x % M) /\ (x \div M) + k \in Int
  BY <1>2
<1> HIDE DEF y
<1>4. y % M = x % M
  BY <1>2, <1>3, RemainderUnique
<1>5. QED
  BY <1>4 DEF y

\* The ALU of alu.cpp returns a word.
LEMMA AluType ==
    ASSUME NEW aluop, NEW a \in Word, NEW b \in Word
    PROVE  Alu(aluop, a, b) \in Word
<1>1. (a + b) % WordMod \in Word /\ (a - b) % WordMod \in Word
  BY WordFacts
<1>2. QED
  BY <1>1, WordFacts DEF Alu

\* Advancing or redirecting the PC gives a word.
LEMMA PcType ==
    ASSUME NEW p \in Word, NEW d \in Word
    PROVE  UpdateProgramCounter(p, d) \in Word
BY WordFacts DEF UpdateProgramCounter

\* RegisterFile::WriteGpr keeps a register file one.
LEMMA WriteGprType ==
    ASSUME NEW g \in [Reg -> Word], NEW r \in Reg, NEW w \in Word
    PROVE  WriteGpr(g, r, w) \in [Reg -> Word]
BY DEF WriteGpr

\* What Reset leaves in the registers and in memory.
LEMMA ZeroTypes ==
    /\ NoProgram \in Program
    /\ 0 \in Reg
    /\ ZeroRegisters \in [Reg -> Word] /\ ZeroMemory \in [Word -> Word]
<1>1. 0 \in Word /\ 0 \in Reg
  BY WordFacts, IsaAssumption DEF Reg
<1>2. NoProgram \in Program
  BY DEF NoProgram, Program
<1>3. QED
  BY <1>1, <1>2 DEF ZeroRegisters, ZeroMemory

\* LoadProgram leaves a memory.
LEMMA LoadDataType ==
    ASSUME NEW m \in [Word -> Word], NEW p \in Programs \cup {NoProgram}
    PROVE  LoadData(m, p.data) \in [Word -> Word]
<1>1. p.data \in Seq(Word)
  BY ZeroTypes, IsaAssumption DEF Program
<1>2. ASSUME NEW a \in Word, a \in DataBase .. DataBase + Len(p.data) - 1
      PROVE  p.data[a - DataBase + 1] \in Word
  <2>1. Len(p.data) \in Nat /\ DataBase \in Int /\ a \in Int
    BY <1>1, IsaAssumption, WordFacts
  <2>2. a - DataBase + 1 \in 1 .. Len(p.data)
    BY <2>1, <1>2
  <2>3. QED
    BY <1>1, <2>2
<1>3. QED
  BY <1>2 DEF LoadData

\* The program has an instruction at every PC inside its text, and the address
\* behind it is a word as well.
LEMMA TextType ==
    ASSUME NEW p \in Programs \cup {NoProgram}
    PROVE  /\ Len(p.text) \in Word
           /\ \A a \in Word : a < Len(p.text) =>
                 /\ p \in Programs
                 /\ a + 1 \in DOMAIN p.text
                 /\ p.text[a + 1] \in Instr
                 /\ UpdateProgramCounter(a, 1) = a + 1
<1>1. p \in Program /\ Len(p.text) < WordMod
  <2>1. NoProgram \in Program /\ Len(NoProgram.text) = 0
    BY ZeroTypes DEF NoProgram
  <2>2. QED
    BY <2>1, WordFacts, IsaAssumption
<1>2. p.text \in Seq(Instr) /\ Len(p.text) \in Nat
  BY <1>1 DEF Program
<1>3. Len(p.text) \in Word
  BY <1>1, <1>2, WordFacts DEF Word
<1>4. ASSUME NEW a \in Word, a < Len(p.text)
      PROVE  /\ p \in Programs
             /\ a + 1 \in DOMAIN p.text
             /\ p.text[a + 1] \in Instr
             /\ UpdateProgramCounter(a, 1) = a + 1
  <2>1. a \in Nat
    BY WordFacts DEF Word
  <2>2. a + 1 \in 1 .. Len(p.text)
    BY <1>2, <1>4, <2>1
  <2>3. p # NoProgram
    BY <1>4, <2>1 DEF NoProgram
  <2>4. a + 1 \in Word
    BY <1>1, <1>2, <1>4, <2>1, WordFacts DEF Word
  <2>5. UpdateProgramCounter(a, 1) = a + 1
    BY <2>4, WordFacts DEF UpdateProgramCounter
  <2>6. a + 1 \in DOMAIN p.text /\ p.text[a + 1] \in Instr
    BY <1>2, <2>2
  <2>7. QED
    BY <2>3, <2>5, <2>6
<1>5. QED
  BY <1>3, <1>4
==============================================================================
