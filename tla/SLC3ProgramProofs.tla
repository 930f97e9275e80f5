---- MODULE SLC3ProgramProofs ----
(* The XOR and multiplier tests and bubble sort of memory_contents.sv, for all   *)
(* switch positions and data: each lemma of the first section says what an       *)
(* instruction does that one of SLC3_2.sv's functions assembled; the invariants  *)
(* then follow the three programs word by word.                                  *)
EXTENDS SLC3ProgramRun, SLC3WordProofs, FiniteSetTheorems

----
(* Instructions.                                                                *)

\* Neither program writes where it stands.
Code == mem \in [0 .. 255 -> Word] /\ \A a \in 0 .. 73 : mem[a] = P!memory_contents[a]
OneFlag == cc \in {{"N"}, {"Z"}, {"P"}}
Machine == Code /\ OneFlag /\ reg \in [RegNum -> Word]

\* What an instruction that sets a register leaves.
Sets(d, v) ==
  /\ reg' = [reg EXCEPT ![d] = v] /\ cc' = FlagsOf(v) /\ pc' = pc + 1
  /\ UNCHANGED <<mem, hex>>

\* Where the programs stand, the word fetched is the one in memory.
LEMMA Fetches ==
  ASSUME Step, pc \in 0 .. 254
  PROVE  Execute(mem[pc]) /\ Next1 = pc + 1
  <1>1. pc # IOAddr /\ pc % MemSize = pc
    BY MemSizeAssumption DEF IOAddr
  <1>2. WordsAt(pc) = {mem[pc]}
    BY <1>1 DEF WordsAt
  <1>3. Next1 = pc + 1
    BY DEF Next1, Add, WordMod
  <1> QED  BY <1>2, <1>3 DEF Step

\* The opcode selects the disjunct.
LEMMA Selects ==
  ASSUME NEW w, Execute(w)
  PROVE  /\ Opcode(w) = 0 => opBR(w)
         /\ Opcode(w) = 1 => opADD(w)
         /\ Opcode(w) = 4 => opJSR(w)
         /\ Opcode(w) = 5 => opAND(w)
         /\ Opcode(w) = 6 => opLDR(w)
         /\ Opcode(w) = 7 => opSTR(w)
         /\ Opcode(w) = 9 => opNOT(w)
         /\ Opcode(w) = 12 => opJMP(w)
         /\ Opcode(w) = 13 => opPSE(w)
  BY DEF Execute, opBR, opADD, opJSR, opAND, opLDR, opSTR, opNOT, opPSE, opJMP, Reserved

\* The fields of an instruction word are what they were put together from.
LEMMA Fields ==
  ASSUME NEW op \in 0 .. 15, NEW d \in RegNum, NEW s \in RegNum, NEW low \in 0 .. 63
  PROVE  /\ Opcode(P!Instr(op, d, s, low)) = op
         /\ IR_11_9(P!Instr(op, d, s, low)) = d
         /\ IR_8_6(P!Instr(op, d, s, low)) = s
  <1> DEFINE w == P!Instr(op, d, s, low)
  <1>1. w = op * 4096 + d * 512 + s * 64 + low /\ d \in 0 .. 7 /\ s \in 0 .. 7
    BY DEF P!Instr, RegNum
  <1> HIDE DEF w
  <1>2. Opcode(w) = op
    BY <1>1 DEF Opcode
  <1>3. IR_11_9(w) = d
    <2>1. w \div 512 = op * 8 + d
      BY <1>1
    <2> QED  BY <1>1, <2>1 DEF IR_11_9
  <1>4. IR_8_6(w) = s
    <2>1. w \div 64 = op * 64 + d * 8 + s
      BY <1>1
    <2> QED  BY <1>1, <2>1 DEF IR_8_6
  <1> QED  BY <1>2, <1>3, <1>4 DEF w

\* Bit 5 tells an immediate from a register.
LEMMA LowField ==
  ASSUME NEW op \in 0 .. 15, NEW d \in RegNum, NEW s \in RegNum, NEW low \in 0 .. 63
  PROVE  /\ IR_5(P!Instr(op, d, s, low)) <=> low >= 32
         /\ Sext5(P!Instr(op, d, s, low)) = SignExtend(low, 16)
         /\ Sext6(P!Instr(op, d, s, low)) = SignExtend(low, 32)
  <1> DEFINE w == P!Instr(op, d, s, low)
  <1>1. w = op * 4096 + d * 512 + s * 64 + low /\ d \in 0 .. 7 /\ s \in 0 .. 7
    BY DEF P!Instr, RegNum
  <1> HIDE DEF w
  <1>2. IR_5(w) <=> low >= 32
    <2>1. w \div 32 = op * 128 + d * 16 + s * 2 + (low \div 32)
      BY <1>1
    <2>2. low \div 32 = IF low >= 32 THEN 1 ELSE 0
      OBVIOUS
    <2> QED  BY <1>1, <2>1, <2>2 DEF IR_5
  <1>4. w % (2 * 16) = low % (2 * 16)
    BY <1>1
  <1>5. w % (2 * 32) = low % (2 * 32)
    BY <1>1
  <1> QED  BY <1>2, <1>4, <1>5 DEF Sext5, Sext6, SignExtend, w

\* An instruction with two source registers.
LEMMA RegisterForm ==
  ASSUME NEW op \in 0 .. 15, NEW d \in RegNum, NEW s \in RegNum, NEW r \in RegNum
  PROVE  /\ Opcode(P!Instr(op, d, s, r)) = op
         /\ IR_11_9(P!Instr(op, d, s, r)) = d
         /\ IR_8_6(P!Instr(op, d, s, r)) = s
         /\ SR2(P!Instr(op, d, s, r)) = r
         /\ ~IR_5(P!Instr(op, d, s, r))
  <1>1. r \in 0 .. 63 /\ ~(r >= 32)
    BY DEF RegNum
  <1>2. /\ P!Instr(op, d, s, r) = op * 4096 + d * 512 + s * 64 + r
        /\ d \in 0 .. 7 /\ s \in 0 .. 7 /\ r \in 0 .. 7
    BY DEF P!Instr, RegNum
  <1>3. SR2(P!Instr(op, d, s, r)) = r
    BY <1>2 DEF SR2
  <1>4. ~IR_5(P!Instr(op, d, s, r))
    BY <1>1, LowField
  <1>5. /\ Opcode(P!Instr(op, d, s, r)) = op
        /\ IR_11_9(P!Instr(op, d, s, r)) = d
        /\ IR_8_6(P!Instr(op, d, s, r)) = s
    <2>1. \A low \in 0 .. 63 : /\ Opcode(P!Instr(op, d, s, low)) = op
                               /\ IR_11_9(P!Instr(op, d, s, low)) = d
                               /\ IR_8_6(P!Instr(op, d, s, low)) = s
      BY Fields
    <2> QED  BY <1>1, <2>1
  <1> QED  BY <1>3, <1>4, <1>5

\* Sign extension, of the offset or the immediate an assembler function was given.
LEMMA Extensions ==
  /\ \A i \in -16 .. 15 : SignExtend(32 + (i % 32), 16) = i % WordMod /\ 32 + (i % 32) \in 32 .. 63
  /\ \A i \in -32 .. 31 : SignExtend(i % 64, 32) = i % WordMod /\ i % 64 \in 0 .. 63
  <1>1. ASSUME NEW i \in -16 .. 15
        PROVE  SignExtend(32 + (i % 32), 16) = i % WordMod /\ 32 + (i % 32) \in 32 .. 63
    <2>1. i % 32 = IF i < 0 THEN i + 32 ELSE i
      OBVIOUS
    <2>2. i % 65536 = IF i < 0 THEN i + 65536 ELSE i
      OBVIOUS
    <2>3. (32 + (i % 32)) % (2 * 16) = i % 32
      BY <2>1
    <2> QED  BY <2>1, <2>2, <2>3 DEF SignExtend, WordMod
  <1>2. ASSUME NEW i \in -32 .. 31
        PROVE  SignExtend(i % 64, 32) = i % WordMod /\ i % 64 \in 0 .. 63
    <2>1. i % 64 = IF i < 0 THEN i + 64 ELSE i
      OBVIOUS
    <2>2. i % 65536 = IF i < 0 THEN i + 65536 ELSE i
      OBVIOUS
    <2>3. (i % 64) % (2 * 32) = i % 64
      BY <2>1
    <2> QED  BY <2>1, <2>2, <2>3 DEF SignExtend, WordMod
  <1> QED  BY <1>1, <1>2

\* What each instruction that sets a register puts in it.
LEMMA RunsNOT ==
  ASSUME NEW d \in RegNum, NEW s \in RegNum, Step, pc \in 0 .. 254, mem[pc] = P!opNOT(d, s)
  PROVE  Sets(d, Not(reg[s]))
  <1> DEFINE w == mem[pc]
  <1>1. w = P!Instr(9, d, s, 1) /\ 9 \in 0 .. 15 /\ 1 \in 0 .. 63
    BY DEF P!opNOT
  <1>2. Opcode(w) = 9 /\ IR_11_9(w) = d /\ IR_8_6(w) = s
    <2> HIDE DEF w
    <2> QED  BY <1>1, Fields, LowField
  <1>3. opNOT(w) /\ Next1 = pc + 1
    BY <1>2, Fetches, Selects
  <1> QED  BY <1>2, <1>3 DEF opNOT, SetReg, Sets

\* AND of two registers.
LEMMA RunsAND ==
  ASSUME NEW d \in RegNum, NEW s \in RegNum, NEW r \in RegNum, Step, pc \in 0 .. 254,
         mem[pc] = P!opAND(d, s, r)
  PROVE  Sets(d, And(reg[s], reg[r]))
  <1> DEFINE w == mem[pc]
  <1>1. w = P!Instr(5, d, s, r) /\ 5 \in 0 .. 15
    BY DEF P!opAND
  <1>2. Opcode(w) = 5 /\ IR_11_9(w) = d /\ IR_8_6(w) = s /\ ~IR_5(w) /\ SR2(w) = r
    <2> HIDE DEF w
    <2> QED  BY <1>1, RegisterForm
  <1>3. opAND(w) /\ Next1 = pc + 1
    BY <1>2, Fetches, Selects
  <1> QED  BY <1>2, <1>3 DEF opAND, SetReg, Sets, Operand2

\* ADD of two registers.
LEMMA RunsADD ==
  ASSUME NEW d \in RegNum, NEW s \in RegNum, NEW r \in RegNum, Step, pc \in 0 .. 254,
         mem[pc] = P!opADD(d, s, r)
  PROVE  Sets(d, Add(reg[s], reg[r]))
  <1> DEFINE w == mem[pc]
  <1>1. w = P!Instr(1, d, s, r) /\ 1 \in 0 .. 15
    BY DEF P!opADD
  <1>2. Opcode(w) = 1 /\ IR_11_9(w) = d /\ IR_8_6(w) = s /\ ~IR_5(w) /\ SR2(w) = r
    <2> HIDE DEF w
    <2> QED  BY <1>1, RegisterForm
  <1>3. opADD(w) /\ Next1 = pc + 1
    BY <1>2, Fetches, Selects
  <1> QED  BY <1>2, <1>3 DEF opADD, SetReg, Sets, Operand2

\* ADD of an immediate, taken modulo the word.
LEMMA RunsADDi ==
  ASSUME NEW d \in RegNum, NEW s \in RegNum, NEW i \in -16 .. 15, Step, pc \in 0 .. 254,
         mem[pc] = P!opADDi(d, s, i)
  PROVE  Sets(d, Add(reg[s], i % WordMod))
  <1> DEFINE w == mem[pc]
             low == 32 + (i % 32)
  <1>1. low \in 32 .. 63 /\ low \in 0 .. 63 /\ low >= 32 /\ SignExtend(low, 16) = i % WordMod
    BY Extensions
  <1>2. w = P!Instr(1, d, s, low) /\ 1 \in 0 .. 15
    BY DEF P!opADDi
  <1>3. Opcode(w) = 1 /\ IR_11_9(w) = d /\ IR_8_6(w) = s /\ IR_5(w) /\ Sext5(w) = i % WordMod
    <2> HIDE DEF low, w
    <2> QED  BY <1>1, <1>2, Fields, LowField
  <1>4. opADD(w) /\ Next1 = pc + 1
    BY <1>3, Fetches, Selects
  <1> QED  BY <1>3, <1>4 DEF opADD, SetReg, Sets, Operand2

\* AND with the immediate zero.
LEMMA RunsCLR ==
  ASSUME NEW d \in RegNum, Step, pc \in 0 .. 254, mem[pc] = P!opCLR(d)
  PROVE  Sets(d, 0)
  <1> DEFINE w == mem[pc]
             low == 32 + (0 % 32)
  <1>1. low \in 0 .. 63 /\ low >= 32 /\ SignExtend(low, 16) = 0
    BY DEF SignExtend
  <1>2. w = P!Instr(5, d, d, low) /\ 5 \in 0 .. 15
    BY DEF P!opCLR, P!opANDi
  <1>3. Opcode(w) = 5 /\ IR_11_9(w) = d /\ IR_8_6(w) = d /\ IR_5(w) /\ Sext5(w) = 0
    <2> HIDE DEF low, w
    <2> QED  BY <1>1, <1>2, Fields, LowField
  <1>4. opAND(w) /\ Next1 = pc + 1
    BY <1>3, Fetches, Selects
  <1>5. \A x : And(x, 0) = 0
    <2>1. \A x : \A q \in Powers : AndBit(x, 0, q) = 0
      BY DEF AndBit, Powers
    <2> QED  BY <2>1 DEF And, Powers
  <1> QED  BY <1>3, <1>4, <1>5 DEF opAND, SetReg, Sets, Operand2

\* A load, from memory or from the switches.
LEMMA RunsLDR ==
  ASSUME NEW d \in RegNum, NEW b \in RegNum, NEW f \in -32 .. 31, Step, pc \in 0 .. 254,
         mem[pc] = P!opLDR(d, b, f)
  PROVE  \E v \in WordsAt(Add(reg[b], f % WordMod)) : Sets(d, v)
  <1> DEFINE w == mem[pc]
             low == f % 64
  <1>1. low \in 0 .. 63 /\ SignExtend(low, 32) = f % WordMod
    BY Extensions
  <1>2. w = P!Instr(6, d, b, low) /\ 6 \in 0 .. 15
    BY DEF P!opLDR
  <1>3. Opcode(w) = 6 /\ IR_11_9(w) = d /\ IR_8_6(w) = b /\ Sext6(w) = f % WordMod
    <2> HIDE DEF low, w
    <2> QED  BY <1>1, <1>2, Fields, LowField
  <1>4. opLDR(w) /\ Next1 = pc + 1
    BY <1>3, Fetches, Selects
  <1> QED  BY <1>3, <1>4 DEF opLDR, SetReg, Sets, EffectiveAddress

\* A store at the display's address: the display shows the word, and the last cell
\* of the memory takes it too.
LEMMA RunsDisplay ==
  ASSUME NEW r \in RegNum, Step, pc \in 0 .. 254, mem[pc] = P!opSTR(r, 0, -1), reg[0] = 0
  PROVE  /\ hex' = reg[r] /\ mem' = [mem EXCEPT ![255] = reg[r]]
         /\ pc' = pc + 1 /\ UNCHANGED <<reg, cc>>
  <1> DEFINE w == mem[pc]
             low == (-1) % 64
  <1>1. low \in 0 .. 63 /\ SignExtend(low, 32) = 65535
    <2>1. \A i \in -32 .. 31 : i % 64 = IF i < 0 THEN i + 64 ELSE i
      OBVIOUS
    <2>2. low = 63
      BY <2>1, -1 \in -32 .. 31
    <2>3. SignExtend(63, 32) = 65535
      BY DEF SignExtend, WordMod
    <2> HIDE DEF low
    <2> QED  BY <2>2, <2>3
  <1>2. w = P!Instr(7, r, 0, low) /\ 7 \in 0 .. 15 /\ 0 \in RegNum
    BY DEF P!opSTR, RegNum
  <1>3. Opcode(w) = 7 /\ IR_11_9(w) = r /\ IR_8_6(w) = 0 /\ Sext6(w) = 65535
    <2> HIDE DEF low, w
    <2> QED  BY <1>1, <1>2, Fields, LowField
  <1>4. opSTR(w) /\ Next1 = pc + 1
    BY <1>3, Fetches, Selects
  <1>5. EffectiveAddress(w) = IOAddr
    <2>1. Add(0, 65535) = 65535
      BY DEF Add, WordMod
    <2> QED  BY <1>3, <2>1 DEF EffectiveAddress, IOAddr
  <1>6. EffectiveAddress(w) % MemSize = 255
    <2>1. IOAddr % MemSize = 255
      BY MemSizeAssumption DEF IOAddr
    <2> QED  BY <1>5, <2>1
  <1>7. /\ mem' = [mem EXCEPT ![EffectiveAddress(w) % MemSize] = reg[IR_11_9(w)]]
        /\ hex' = IF EffectiveAddress(w) = IOAddr THEN reg[IR_11_9(w)] ELSE hex
        /\ pc' = pc + 1 /\ UNCHANGED <<reg, cc>>
    BY <1>4 DEF opSTR
  <1> HIDE DEF w
  <1>8. mem' = [mem EXCEPT ![255] = reg[r]]
    <2> DEFINE at == EffectiveAddress(w) % MemSize
               word == reg[IR_11_9(w)]
    <2>1. mem' = [mem EXCEPT ![at] = word] /\ at = 255 /\ word = reg[r]
      BY <1>3, <1>6, <1>7
    <2> HIDE DEF at, word
    <2> QED  BY <2>1
  <1>9. hex' = reg[r]
    BY <1>3, <1>5, <1>7
  <1> QED  BY <1>7, <1>8, <1>9

\* A pause changes no register and no memory.
LEMMA RunsPSE ==
  ASSUME NEW v \in Nat, v < 4096, Step, pc \in 0 .. 254, mem[pc] = P!opPSE(v)
  PROVE  pc' = pc + 1 /\ UNCHANGED <<reg, cc, mem, hex>>
  <1>1. Opcode(mem[pc]) = 13
    BY DEF P!opPSE, P!Instr, Opcode
  <1>2. opPSE(mem[pc]) /\ Next1 = pc + 1
    BY <1>1, Fetches, Selects
  <1> QED  BY <1>2 DEF opPSE

\* Every branch of the two programs stays within the first 255 words.
LEMMA RunsBR ==
  ASSUME NEW c \in 0 .. 7, NEW off \in -256 .. 255, Step, pc \in 0 .. 254,
         mem[pc] = P!opBR(c, off), pc + 1 + off \in 0 .. 255
  PROVE  /\ pc' = IF \/ c >= 4 /\ "N" \in cc
                     \/ (c \div 2) % 2 = 1 /\ "Z" \in cc
                     \/ c % 2 = 1 /\ "P" \in cc
                  THEN pc + 1 + off ELSE pc + 1
         /\ UNCHANGED <<reg, cc, mem, hex>>
  <1> DEFINE w == mem[pc]
             low == off % 512
  <1>1. w = c * 512 + low /\ low \in 0 .. 511
    BY DEF P!opBR, P!Instr
  <1>2. off = IF low >= 256 THEN low - 512 ELSE low
    OBVIOUS
  <1> HIDE DEF low
  <1>3. Opcode(w) = 0 /\ IR_11_9(w) = c
    BY <1>1 DEF Opcode, IR_11_9
  <1>4. Sext9(w) = IF low >= 256 THEN off + WordMod ELSE off
    <2>1. w % (2 * 256) = low
      BY <1>1
    <2> QED  BY <1>1, <1>2, <2>1 DEF Sext9, SignExtend, WordMod
  <1>5. opBR(w) /\ Next1 = pc + 1
    BY <1>3, Fetches, Selects
  <1>6. Add(Next1, Sext9(w)) = pc + 1 + off
    BY <1>1, <1>2, <1>4, <1>5 DEF Add, WordMod
  <1>7. Condition(w, cc) <=> \/ c >= 4 /\ "N" \in cc
                             \/ (c \div 2) % 2 = 1 /\ "Z" \in cc
                             \/ c % 2 = 1 /\ "P" \in cc
    <2>1. (c \div 4) % 2 = 1 <=> c >= 4
      OBVIOUS
    <2> QED  BY <1>3, <2>1 DEF Condition, TestN, TestZ, TestP
  <1> QED  BY <1>5, <1>6, <1>7 DEF opBR

\* A call, or with offset 0 how a program learns where it stands.
LEMMA RunsJSR ==
  ASSUME NEW off \in Nat, off < 1024, Step, pc \in 0 .. 254, mem[pc] = P!opJSR(off),
         pc + 1 + off \in 0 .. 255
  PROVE  /\ reg' = [reg EXCEPT ![7] = pc + 1] /\ pc' = pc + 1 + off
         /\ UNCHANGED <<cc, mem, hex>>
  <1> DEFINE w == mem[pc]
  <1>1. w = 18432 + off
    <2>1. off % 2048 = off
      OBVIOUS
    <2> QED  BY <2>1 DEF P!opJSR, P!Instr
  <1> HIDE DEF w
  <1>2. Opcode(w) = 4 /\ IR_11(w) /\ Sext11(w) = off
    <2>1. w \div 4096 = 4 /\ w \div 2048 = 9 /\ w % 2048 = off
      BY <1>1
    <2> QED  BY <1>1, <2>1 DEF Opcode, IR_11, Sext11, SignExtend
  <1>3. opJSR(w) /\ Next1 = pc + 1
    BY <1>2, Fetches, Selects DEF w
  <1>4. Add(pc + 1, off) = pc + 1 + off
    BY DEF Add, WordMod
  <1> QED  BY <1>2, <1>3, <1>4 DEF opJSR

\* The return that ends a function.
LEMMA RunsRET ==
  ASSUME Step, pc \in 0 .. 254, mem[pc] = P!opRET
  PROVE  pc' = reg[7] /\ UNCHANGED <<reg, cc, mem, hex>>
  <1>1. Opcode(mem[pc]) = 12 /\ IR_8_6(mem[pc]) = 7
    BY DEF P!opRET, P!opJMP, P!Instr, Opcode, IR_8_6
  <1>2. opJMP(mem[pc])
    BY <1>1, Fetches, Selects
  <1> QED  BY <1>1, <1>2 DEF opJMP

\* A load from the memory's own addresses.
LEMMA RunsLoad ==
  ASSUME NEW d \in RegNum, NEW b \in RegNum, NEW f \in -32 .. 31, NEW at \in 0 .. 255,
         Step, pc \in 0 .. 254, mem[pc] = P!opLDR(d, b, f), Add(reg[b], f % WordMod) = at
  PROVE  Sets(d, mem[at])
  <1>1. at # IOAddr /\ at % MemSize = at
    BY MemSizeAssumption DEF IOAddr
  <1>2. WordsAt(at) = {mem[at]}
    BY <1>1 DEF WordsAt
  <1>3. \E v \in WordsAt(at) : Sets(d, v)
    BY RunsLDR
  <1> QED  BY <1>2, <1>3

\* A store there.
LEMMA RunsStore ==
  ASSUME NEW r \in RegNum, NEW b \in RegNum, NEW f \in Int, f \in -32 .. 31, NEW at \in Nat, at < 256,
         Step, pc \in 0 .. 254, mem[pc] = P!opSTR(r, b, f), Add(reg[b], f % WordMod) = at
  PROVE  mem' = [mem EXCEPT ![at] = reg[r]] /\ pc' = pc + 1 /\ UNCHANGED <<reg, cc, hex>>
  <1> DEFINE w == mem[pc]
             low == f % 64
  <1>1. low \in 0 .. 63 /\ SignExtend(low, 32) = f % WordMod
    BY Extensions
  <1>2. w = P!Instr(7, r, b, low) /\ 7 \in 0 .. 15
    BY DEF P!opSTR
  <1>3. Opcode(w) = 7 /\ IR_11_9(w) = r /\ IR_8_6(w) = b /\ Sext6(w) = f % WordMod
    <2> HIDE DEF low, w
    <2> QED  BY <1>1, <1>2, Fields, LowField
  <1>4. opSTR(w) /\ Next1 = pc + 1
    BY <1>3, Fetches, Selects
  <1>5. at # IOAddr /\ at % MemSize = at
    BY MemSizeAssumption DEF IOAddr
  <1>6. EffectiveAddress(w) = at
    BY <1>3 DEF EffectiveAddress
  <1>7. /\ mem' = [mem EXCEPT ![EffectiveAddress(w) % MemSize] = reg[IR_11_9(w)]]
        /\ hex' = IF EffectiveAddress(w) = IOAddr THEN reg[IR_11_9(w)] ELSE hex
        /\ pc' = pc + 1 /\ UNCHANGED <<reg, cc>>
    BY <1>4 DEF opSTR
  <1> HIDE DEF w
  <1> QED  BY <1>3, <1>5, <1>6, <1>7

\* Whether a branch of the assembler is taken.
Taken(c) ==
  \/ c \in {4, 5, 6, 7} /\ "N" \in cc
  \/ c \in {2, 6, 7} /\ "Z" \in cc
  \/ c \in {1, 5, 7} /\ "P" \in cc

\* A branch, on the one flag that is set.
LEMMA Branches ==
  ASSUME NEW c \in {1, 2, 4, 5, 6, 7}, NEW off \in Int, off \in -256 .. 255, Step, pc \in 0 .. 254,
         mem[pc] = P!opBR(c, off), pc + 1 + off \in 0 .. 255
  PROVE  /\ pc' = IF Taken(c) THEN pc + 1 + off ELSE pc + 1
         /\ UNCHANGED <<reg, cc, mem, hex>>
  <1>1. /\ pc' = IF \/ c >= 4 /\ "N" \in cc
                    \/ (c \div 2) % 2 = 1 /\ "Z" \in cc
                    \/ c % 2 = 1 /\ "P" \in cc
                 THEN pc + 1 + off ELSE pc + 1
        /\ UNCHANGED <<reg, cc, mem, hex>>
    <2>1. c \in 0 .. 7
      OBVIOUS
    <2> QED  BY <2>1, RunsBR
  <1>2. /\ c >= 4 <=> c \in {4, 5, 6, 7}
        /\ (c \div 2) % 2 = 1 <=> c \in {2, 6, 7}
        /\ c % 2 = 1 <=> c \in {1, 5, 7}
    OBVIOUS
  <1> QED  BY <1>1, <1>2 DEF Taken

\* Which flag a word sets.
LEMMA FlagsTell ==
  ASSUME NEW w \in Word
  PROVE  /\ "N" \in FlagsOf(w) <=> w >= 32768
         /\ "Z" \in FlagsOf(w) <=> w = 0
         /\ "P" \in FlagsOf(w) <=> (w > 0 /\ w < 32768)
  <1>1. w \in Int /\ w >= 0 /\ w < 65536
    BY WordIs
  <1>2. "N" \in FlagsOf(w) <=> w >= 32768
    BY <1>1 DEF FlagsOf
  <1>3. "Z" \in FlagsOf(w) <=> w = 0
    BY <1>1 DEF FlagsOf
  <1>4. w >= 32768 => FlagsOf(w) = {"N"}
    BY DEF FlagsOf
  <1>5. w = 0 => FlagsOf(w) = {"Z"}
    BY DEF FlagsOf
  <1>6. w > 0 /\ w < 32768 => FlagsOf(w) = {"P"}
    BY <1>1 DEF FlagsOf
  <1>7. "P" \in {"P"} /\ "P" \notin {"N"} /\ "P" \notin {"Z"}
    OBVIOUS
  <1>8. w >= 32768 \/ w = 0 \/ (w > 0 /\ w < 32768)
    BY <1>1
  <1>9. "P" \in FlagsOf(w) <=> (w > 0 /\ w < 32768)
    <2>1. CASE w >= 32768
      <3>1. "P" \notin FlagsOf(w)
        BY <2>1, <1>4, <1>7
      <3> QED  BY <1>1, <2>1, <3>1
    <2>2. CASE w = 0
      <3>1. "P" \notin FlagsOf(w)
        BY <2>2, <1>5, <1>7
      <3> QED  BY <2>2, <3>1
    <2>3. CASE w > 0 /\ w < 32768
      BY <2>3, <1>6, <1>7
    <2> QED  BY <1>8, <2>1, <2>2, <2>3
  <1> QED  BY <1>2, <1>3, <1>9

----
(* What every step of the two programs keeps.                                   *)

\* A register takes a word, and the others stay.
LEMMA SetsKeeps ==
  ASSUME Machine, NEW d \in RegNum, NEW v \in Word, Sets(d, v)
  PROVE  /\ Machine' /\ reg'[d] = v /\ \A r \in RegNum : r # d => reg'[r] = reg[r]
  <1>1. reg' = [reg EXCEPT ![d] = v] /\ cc' = FlagsOf(v) /\ mem' = mem
    BY DEF Sets
  <1>2. reg' \in [RegNum -> Word] /\ reg'[d] = v /\ \A r \in RegNum : r # d => reg'[r] = reg[r]
    BY <1>1 DEF Machine
  <1>3. OneFlag' /\ Code'
    BY <1>1 DEF Machine, OneFlag, FlagsOf, Code
  <1> QED  BY <1>2, <1>3 DEF Machine

\* The display's store reaches cell 255 alone.
LEMMA DisplayKeeps ==
  ASSUME Machine, NEW w \in Word, mem' = [mem EXCEPT ![255] = w], UNCHANGED <<reg, cc>>
  PROVE  Machine'
  <1>1. mem' \in [0 .. 255 -> Word] /\ \A a \in 0 .. 73 : mem'[a] = mem[a]
    BY DEF Machine, Code
  <1> QED  BY <1>1 DEF Machine, Code, OneFlag

\* A step that writes nothing keeps all of it.
LEMMA SameKeeps ==
  ASSUME Machine, UNCHANGED <<reg, cc, mem>>
  PROVE  Machine'
  BY DEF Machine, Code, OneFlag

\* A read of the switches, as the programs do it.
LEMMA RunsSwitches ==
  ASSUME NEW d \in RegNum, Step, pc \in 0 .. 254, mem[pc] = P!opLDR(d, 0, -1), reg[0] = 0
  PROVE  \E v \in Word : Sets(d, v)
  <1>1. -1 \in -32 .. 31 /\ 0 \in RegNum
    BY DEF RegNum
  <1>2. (-1) % WordMod = 65535
    <2>1. \A i \in -32 .. 31 : i % 65536 = IF i < 0 THEN i + 65536 ELSE i
      OBVIOUS
    <2> QED  BY <1>1, <2>1 DEF WordMod
  <1>3. Add(reg[0], 65535) = IOAddr
    BY DEF Add, WordMod, IOAddr
  <1>4. \E v \in WordsAt(Add(reg[0], (-1) % WordMod)) : Sets(d, v)
    BY <1>1, RunsLDR
  <1>5. \E v \in Switches : Sets(d, v)
    BY <1>2, <1>3, <1>4 DEF WordsAt
  <1> QED  BY <1>5, SwitchesAssumption

\* The programs' own state at their start.
LEMMA StartsClean ==
  ASSUME ProgramInit, pc \in 0 .. 255
  PROVE  Machine
  <1>1. mem \in Images
    BY DEF ProgramInit
  <1>2. \A a \in 0 .. 73 : a \in 0 .. 255 /\ a \notin P!SortData
    BY DEF P!SortData
  <1>3. Code
    BY <1>1, <1>2, ImagesAssumption DEF Code
  <1>4. pc \in Word /\ 0 \in Word
    BY IsWord
  <1> QED  BY <1>3, <1>4 DEF ProgramInit, Machine, OneFlag, FlagsOf

----
(* The XOR test.  The operands stay in R1 and R2.                               *)

\* The two terms that the program takes the complement of.
NotAAndB == And(Not(reg[1]), reg[2])
NotBAndA == And(Not(reg[2]), reg[1])

\* The values each instruction finds.
XorValues ==
  /\ pc > 20 => reg[0] = 0
  /\ pc = 26 => reg[3] = Not(reg[1])
  /\ pc = 27 => reg[3] = NotAAndB
  /\ pc \in 28 .. 31 => reg[3] = Not(NotAAndB)
  /\ pc = 29 => reg[4] = Not(reg[2])
  /\ pc = 30 => reg[4] = NotBAndA
  /\ pc = 31 => reg[4] = Not(NotBAndA)
  /\ pc = 32 => reg[3] = And(Not(NotAAndB), Not(NotBAndA))
  /\ pc = 33 => reg[3] = Xor(reg[1], reg[2])
  /\ pc = 34 => hex = Xor(reg[1], reg[2])

\* Where the program stands and what its registers hold there.
XorInv == pc \in 20 .. 35 /\ Machine /\ XorValues

\* The program, word by word.
LEMMA XorCode ==
  ASSUME Code
  PROVE  /\ mem[20] = P!opCLR(0)
         /\ mem[21] = P!opPSE(2049)
         /\ mem[22] = P!opLDR(1, 0, -1)
         /\ mem[23] = P!opPSE(2050)
         /\ mem[24] = P!opLDR(2, 0, -1)
         /\ mem[25] = P!opNOT(3, 1)
         /\ mem[26] = P!opAND(3, 3, 2)
         /\ mem[27] = P!opNOT(3, 3)
         /\ mem[28] = P!opNOT(4, 2)
         /\ mem[29] = P!opAND(4, 4, 1)
         /\ mem[30] = P!opNOT(4, 4)
         /\ mem[31] = P!opAND(3, 3, 4)
         /\ mem[32] = P!opNOT(3, 3)
         /\ mem[33] = P!opSTR(3, 0, -1)
         /\ mem[34] = P!opPSE(1029)
         /\ mem[35] = P!opBR(7, -15)
  BY DEF Code, P!memory_contents, P!Listing, P!inSW, P!outHEX, P!nzp, P!R0, P!R1, P!R2, P!R3, P!R4

\* Each instruction leaves what the next one expects.
LEMMA XorStep ==
  ASSUME XorInv, Step
  PROVE  XorInv'
  <1>m. Machine /\ Code /\ pc \in 0 .. 254 /\ pc \in 20 .. 35
    BY DEF XorInv, Machine
  <1>r. {0, 1, 2, 3, 4} \subseteq RegNum
    BY DEF RegNum
  <1>t. 0 \in Word /\ \A r \in RegNum : reg[r] \in Word
    <2>1. 0 \in Word
      BY IsWord
    <2>2. \A r \in RegNum : reg[r] \in Word
      BY <1>m DEF Machine
    <2> QED  BY <2>1, <2>2
  <1>20. CASE pc = 20
    <2>1. Sets(0, 0)
      BY <1>20, <1>m, <1>r, XorCode, RunsCLR
    <2>2. 0 \in Word
      BY <1>t
    <2>3. Machine' /\ reg'[0] = 0
          /\ reg'[1] = reg[1] /\ reg'[2] = reg[2] /\ reg'[3] = reg[3] /\ reg'[4] = reg[4]
      BY <2>1, <2>2, <1>m, <1>r, SetsKeeps
    <2>4. pc' = 21 /\ hex' = hex
      BY <1>20, <2>1 DEF Sets
    <2> QED  BY <1>20, <2>3, <2>4 DEF XorInv, XorValues, NotAAndB, NotBAndA
  <1>21. CASE pc = 21
    <2>1. pc' = 22 /\ UNCHANGED <<reg, cc, mem, hex>>
      BY <1>21, <1>m, XorCode, RunsPSE
    <2>2. Machine'
      BY <2>1, <1>m, SameKeeps
    <2> QED  BY <1>21, <2>1, <2>2 DEF XorInv, XorValues, NotAAndB, NotBAndA
  <1>22. CASE pc = 22
    <2>1. PICK v \in Word : Sets(1, v)
      BY <1>22, <1>m, <1>r, XorCode, RunsSwitches DEF XorInv, XorValues, NotAAndB, NotBAndA
    <2>3. Machine' /\ reg'[1] = v
          /\ reg'[0] = reg[0] /\ reg'[2] = reg[2] /\ reg'[3] = reg[3] /\ reg'[4] = reg[4]
      BY <2>1, <1>m, <1>r, SetsKeeps
    <2>4. pc' = 23 /\ hex' = hex
      BY <1>22, <2>1 DEF Sets
    <2> QED  BY <1>22, <2>3, <2>4 DEF XorInv, XorValues, NotAAndB, NotBAndA
  <1>23. CASE pc = 23
    <2>1. pc' = 24 /\ UNCHANGED <<reg, cc, mem, hex>>
      BY <1>23, <1>m, XorCode, RunsPSE
    <2>2. Machine'
      BY <2>1, <1>m, SameKeeps
    <2> QED  BY <1>23, <2>1, <2>2 DEF XorInv, XorValues, NotAAndB, NotBAndA
  <1>24. CASE pc = 24
    <2>1. PICK v \in Word : Sets(2, v)
      BY <1>24, <1>m, <1>r, XorCode, RunsSwitches DEF XorInv, XorValues, NotAAndB, NotBAndA
    <2>3. Machine' /\ reg'[2] = v
          /\ reg'[0] = reg[0] /\ reg'[1] = reg[1] /\ reg'[3] = reg[3] /\ reg'[4] = reg[4]
      BY <2>1, <1>m, <1>r, SetsKeeps
    <2>4. pc' = 25 /\ hex' = hex
      BY <1>24, <2>1 DEF Sets
    <2> QED  BY <1>24, <2>3, <2>4 DEF XorInv, XorValues, NotAAndB, NotBAndA
  <1>25. CASE pc = 25
    <2>1. Sets(3, Not(reg[1]))
      BY <1>25, <1>m, <1>r, XorCode, RunsNOT
    <2>2. Not(reg[1]) \in Word
      BY <1>r, <1>t, NotTyped
    <2>3. Machine' /\ reg'[3] = Not(reg[1])
          /\ reg'[0] = reg[0] /\ reg'[1] = reg[1] /\ reg'[2] = reg[2] /\ reg'[4] = reg[4]
      BY <2>1, <2>2, <1>m, <1>r, SetsKeeps
    <2>4. pc' = 26 /\ hex' = hex
      BY <1>25, <2>1 DEF Sets
    <2> QED  BY <1>25, <2>3, <2>4 DEF XorInv, XorValues, NotAAndB, NotBAndA
  <1>26. CASE pc = 26
    <2>1. Sets(3, And(reg[3], reg[2]))
      BY <1>26, <1>m, <1>r, XorCode, RunsAND
    <2>2. And(reg[3], reg[2]) \in Word
      BY <1>r, <1>t, AndTyped
    <2>3. Machine' /\ reg'[3] = And(reg[3], reg[2])
          /\ reg'[0] = reg[0] /\ reg'[1] = reg[1] /\ reg'[2] = reg[2] /\ reg'[4] = reg[4]
      BY <2>1, <2>2, <1>m, <1>r, SetsKeeps
    <2>4. pc' = 27 /\ hex' = hex
      BY <1>26, <2>1 DEF Sets
    <2> QED  BY <1>26, <2>3, <2>4 DEF XorInv, XorValues, NotAAndB, NotBAndA
  <1>27. CASE pc = 27
    <2>1. Sets(3, Not(reg[3]))
      BY <1>27, <1>m, <1>r, XorCode, RunsNOT
    <2>2. Not(reg[3]) \in Word
      BY <1>r, <1>t, NotTyped
    <2>3. Machine' /\ reg'[3] = Not(reg[3])
          /\ reg'[0] = reg[0] /\ reg'[1] = reg[1] /\ reg'[2] = reg[2] /\ reg'[4] = reg[4]
      BY <2>1, <2>2, <1>m, <1>r, SetsKeeps
    <2>4. pc' = 28 /\ hex' = hex
      BY <1>27, <2>1 DEF Sets
    <2> QED  BY <1>27, <2>3, <2>4 DEF XorInv, XorValues, NotAAndB, NotBAndA
  <1>28. CASE pc = 28
    <2>1. Sets(4, Not(reg[2]))
      BY <1>28, <1>m, <1>r, XorCode, RunsNOT
    <2>2. Not(reg[2]) \in Word
      BY <1>r, <1>t, NotTyped
    <2>3. Machine' /\ reg'[4] = Not(reg[2])
          /\ reg'[0] = reg[0] /\ reg'[1] = reg[1] /\ reg'[2] = reg[2] /\ reg'[3] = reg[3]
      BY <2>1, <2>2, <1>m, <1>r, SetsKeeps
    <2>4. pc' = 29 /\ hex' = hex
      BY <1>28, <2>1 DEF Sets
    <2> QED  BY <1>28, <2>3, <2>4 DEF XorInv, XorValues, NotAAndB, NotBAndA
  <1>29. CASE pc = 29
    <2>1. Sets(4, And(reg[4], reg[1]))
      BY <1>29, <1>m, <1>r, XorCode, RunsAND
    <2>2. And(reg[4], reg[1]) \in Word
      BY <1>r, <1>t, AndTyped
    <2>3. Machine' /\ reg'[4] = And(reg[4], reg[1])
          /\ reg'[0] = reg[0] /\ reg'[1] = reg[1] /\ reg'[2] = reg[2] /\ reg'[3] = reg[3]
      BY <2>1, <2>2, <1>m, <1>r, SetsKeeps
    <2>4. pc' = 30 /\ hex' = hex
      BY <1>29, <2>1 DEF Sets
    <2> QED  BY <1>29, <2>3, <2>4 DEF XorInv, XorValues, NotAAndB, NotBAndA
  <1>30. CASE pc = 30
    <2>1. Sets(4, Not(reg[4]))
      BY <1>30, <1>m, <1>r, XorCode, RunsNOT
    <2>2. Not(reg[4]) \in Word
      BY <1>r, <1>t, NotTyped
    <2>3. Machine' /\ reg'[4] = Not(reg[4])
          /\ reg'[0] = reg[0] /\ reg'[1] = reg[1] /\ reg'[2] = reg[2] /\ reg'[3] = reg[3]
      BY <2>1, <2>2, <1>m, <1>r, SetsKeeps
    <2>4. pc' = 31 /\ hex' = hex
      BY <1>30, <2>1 DEF Sets
    <2> QED  BY <1>30, <2>3, <2>4 DEF XorInv, XorValues, NotAAndB, NotBAndA
  <1>31. CASE pc = 31
    <2>1. Sets(3, And(reg[3], reg[4]))
      BY <1>31, <1>m, <1>r, XorCode, RunsAND
    <2>2. And(reg[3], reg[4]) \in Word
      BY <1>r, <1>t, AndTyped
    <2>3. Machine' /\ reg'[3] = And(reg[3], reg[4])
          /\ reg'[0] = reg[0] /\ reg'[1] = reg[1] /\ reg'[2] = reg[2] /\ reg'[4] = reg[4]
      BY <2>1, <2>2, <1>m, <1>r, SetsKeeps
    <2>4. pc' = 32 /\ hex' = hex
      BY <1>31, <2>1 DEF Sets
    <2> QED  BY <1>31, <2>3, <2>4 DEF XorInv, XorValues, NotAAndB, NotBAndA
  <1>32. CASE pc = 32
    <2>1. Sets(3, Not(reg[3]))
      BY <1>32, <1>m, <1>r, XorCode, RunsNOT
    <2>2. Not(reg[3]) \in Word
      BY <1>r, <1>t, NotTyped
    <2>3. Machine' /\ reg'[3] = Not(reg[3])
          /\ reg'[0] = reg[0] /\ reg'[1] = reg[1] /\ reg'[2] = reg[2] /\ reg'[4] = reg[4]
      BY <2>1, <2>2, <1>m, <1>r, SetsKeeps
    <2>4. pc' = 33 /\ hex' = hex
      BY <1>32, <2>1 DEF Sets
    <2>5. Not(reg[3]) = Xor(reg[1], reg[2])
      <3>1. reg[1] \in Word /\ reg[2] \in Word
        BY <1>r, <1>t
      <3>2. reg[3] = And(Not(And(Not(reg[1]), reg[2])), Not(And(Not(reg[2]), reg[1])))
        BY <1>32 DEF XorInv, XorValues, NotAAndB, NotBAndA
      <3> QED  BY <3>1, <3>2, ExclusiveOr DEF Xor
    <2> QED  BY <1>32, <2>3, <2>4, <2>5 DEF XorInv, XorValues, NotAAndB, NotBAndA
  <1>33. CASE pc = 33
    <2>1. /\ hex' = reg[3] /\ mem' = [mem EXCEPT ![255] = reg[3]]
          /\ pc' = 34 /\ UNCHANGED <<reg, cc>>
      BY <1>33, <1>m, <1>r, XorCode, RunsDisplay DEF XorInv, XorValues, NotAAndB, NotBAndA
    <2>2. Machine'
      <3>1. reg[3] \in Word
        BY <1>r, <1>t
      <3> QED  BY <2>1, <3>1, <1>m, DisplayKeeps
    <2> QED  BY <1>33, <2>1, <2>2 DEF XorInv, XorValues, NotAAndB, NotBAndA
  <1>34. CASE pc = 34
    <2>1. pc' = 35 /\ UNCHANGED <<reg, cc, mem, hex>>
      BY <1>34, <1>m, XorCode, RunsPSE
    <2>2. Machine'
      BY <2>1, <1>m, SameKeeps
    <2> QED  BY <1>34, <2>1, <2>2 DEF XorInv, XorValues, NotAAndB, NotBAndA
  <1>35. CASE pc = 35
    <2>1. pc' = 21 /\ UNCHANGED <<reg, cc, mem, hex>>
      <3>1. pc + 1 + (-15) \in 0 .. 255 /\ -15 \in -256 .. 255 /\ 7 \in 0 .. 7
        BY <1>35
      <3>2. mem[pc] = P!opBR(7, -15)
        BY <1>35, <1>m, XorCode
      <3>3. (7 \div 2) % 2 = 1 /\ 7 % 2 = 1 /\ 7 >= 4
        OBVIOUS
      <3>4. "N" \in cc \/ "Z" \in cc \/ "P" \in cc
        BY <1>m DEF Machine, OneFlag
      <3>5. pc' = pc + 1 + (-15) /\ UNCHANGED <<reg, cc, mem, hex>>
        BY <3>1, <3>2, <3>3, <3>4, <1>35, RunsBR
      <3> QED  BY <3>5, <1>35
    <2>2. Machine'
      BY <2>1, <1>m, SameKeeps
    <2> QED  BY <1>35, <2>1, <2>2 DEF XorInv, XorValues, NotAAndB, NotBAndA
  <1> QED
    BY <1>m, <1>20, <1>21, <1>22, <1>23, <1>24, <1>25, <1>26, <1>27, <1>28,
       <1>29, <1>30, <1>31, <1>32, <1>33, <1>34, <1>35

\* Buttons change nothing it speaks of.
LEMMA XorStays ==
  ASSUME XorInv, UNCHANGED <<pc, reg, cc, mem, hex>>
  PROVE  XorInv'
  <1>1. Machine'
    BY SameKeeps DEF XorInv
  <1> QED  BY <1>1 DEF XorInv, XorValues, NotAAndB, NotBAndA

\* Started at the XOR test, the program shows the exclusive or of the switches' two
\* positions at every checkpoint, whatever they are.
THEOREM XorCorrect == ProgramSpec /\ pc = P!XorStart => []XorIsDisplayed
  <1>1. ProgramInit /\ pc = P!XorStart => XorInv
    <2> SUFFICES ASSUME ProgramInit, pc = 20  PROVE XorInv
      BY DEF P!XorStart
    <2> QED  BY StartsClean DEF XorInv, XorValues
  <1>2. XorInv /\ [ProgramStep]_pvars => XorInv'
    <2>1. ASSUME XorInv, Press \/ Release \/ UNCHANGED pvars  PROVE XorInv'
      BY <2>1, XorStays DEF Press, Release, Button, pvars, isavars
    <2> QED  BY <2>1, XorStep DEF ProgramStep
  <1>3. XorInv => XorIsDisplayed
    BY DEF XorInv, XorValues, XorIsDisplayed, P!XorCheckpoint
  <1> QED  BY <1>1, <1>2, <1>3, PTL DEF ProgramSpec

----
(* The multiplier test: eight rounds, counted by R4, from the sign bit of the    *)
(* first operand down.  After k rounds R5 holds the product of the second operand*)
(* with the number that the top k bits of the first make, and R1 the first       *)
(* operand shifted by k.                                                        *)

\* The top k bits of the low byte of w as a signed number, the bit after them, w moved
\* up by k bits, and a product as a word.
Power(k) == <<1, 2, 4, 8, 16, 32, 64, 128, 256>>[k + 1]
TopBits(w, k) == IF k = 0 THEN 0 ELSE SignedByte(w) \div Power(8 - k)
NextBit(w, k) == Bit(w, Power(7 - k))
Shifted(w, k) == (w * Power(k)) % WordMod
Times(t, b) == (t * b) % WordMod

\* The values each instruction finds.
MultiplierValues ==
  /\ pc > 49 => reg[0] = 0
  /\ pc = 51 => reg[7] = 51
  /\ pc > 51 => reg[3] = 128
  /\ pc > 55 => operand \in Word
  /\ pc \in 53 .. 57 => reg[4] = 0
  /\ pc \in 54 .. 57 => reg[5] = 0
  /\ pc \in 56 .. 57 => reg[1] = operand
  /\ pc \in 58 .. 66 => reg[4] \in 0 .. 7 /\ reg[1] = Shifted(operand, reg[4])
  /\ pc = 58 => reg[5] = Times(TopBits(operand, reg[4]), reg[2])
  /\ pc \in 59 .. 61 => reg[5] = Times(2 * TopBits(operand, reg[4]), reg[2])
  /\ pc = 60 => cc = FlagsOf(128 * NextBit(operand, reg[4]))
  /\ pc = 61 => NextBit(operand, reg[4]) = 1
  /\ pc \in 62 .. 64 =>
       reg[5] = Times(2 * TopBits(operand, reg[4]) + NextBit(operand, reg[4]), reg[2])
  /\ pc = 63 => cc = FlagsOf(reg[4])
  /\ pc \in 64 .. 65 => reg[4] = 0
  /\ pc = 65 => reg[5] = Not(Times(NextBit(operand, 0), reg[2]))
  /\ pc = 66 => reg[5] = Times(TopBits(operand, reg[4] + 1), reg[2])
  /\ pc \in 67 .. 69 => reg[4] \in 1 .. 8 /\ reg[5] = Times(TopBits(operand, reg[4]), reg[2])
  /\ pc = 67 => reg[1] = Shifted(operand, reg[4] - 1)
  /\ pc \in 68 .. 69 => reg[1] = Shifted(operand, reg[4])
  /\ pc = 69 => cc = FlagsOf(Add(reg[4], 65528))
  /\ pc = 70 => reg[5] = Times(SignedByte(operand), reg[2])
  /\ pc = 71 => hex = Times(SignedByte(operand), reg[2])

\* Where the program stands and what its registers hold there.
MultiplierInv == pc \in 49 .. 72 /\ Machine /\ MultiplierValues

\* The powers the bits are taken out with.
LEMMA Powers2 ==
  /\ Power(0) = 1 /\ Power(1) = 2 /\ Power(2) = 4 /\ Power(3) = 8 /\ Power(4) = 16
  /\ Power(5) = 32 /\ Power(6) = 64 /\ Power(7) = 128 /\ Power(8) = 256
  BY DEF Power

\* The bits so far, before the first round and after the first, a later and the last.
LEMMA BitsSoFar ==
  ASSUME NEW w \in Word
  PROVE  /\ TopBits(w, 0) = 0
         /\ TopBits(w, 1) = -NextBit(w, 0)
         /\ \A k \in 1 .. 7 : TopBits(w, k + 1) = 2 * TopBits(w, k) + NextBit(w, k)
         /\ TopBits(w, 8) = SignedByte(w)
  <1>t. w \in Nat /\ w < 65536
    BY WordIs
  <1>1. TopBits(w, 0) = 0
    BY DEF TopBits
  <1>2. TopBits(w, 1) = -NextBit(w, 0)
    <2>1. TopBits(w, 1) = SignedByte(w) \div 128 /\ NextBit(w, 0) = (w \div 128) % 2
      BY Powers2 DEF TopBits, NextBit, Bit
    <2> QED  BY <1>t, <2>1 DEF SignedByte
  <1>31. TopBits(w, 2) = 2 * TopBits(w, 1) + NextBit(w, 1)
    <2>1. /\ TopBits(w, 2) = SignedByte(w) \div 64
          /\ TopBits(w, 1) = SignedByte(w) \div 128 /\ NextBit(w, 1) = (w \div 64) % 2
      BY Powers2 DEF TopBits, NextBit, Bit
    <2> QED  BY <1>t, <2>1 DEF SignedByte
  <1>32. TopBits(w, 3) = 2 * TopBits(w, 2) + NextBit(w, 2)
    <2>1. /\ TopBits(w, 3) = SignedByte(w) \div 32
          /\ TopBits(w, 2) = SignedByte(w) \div 64 /\ NextBit(w, 2) = (w \div 32) % 2
      BY Powers2 DEF TopBits, NextBit, Bit
    <2> QED  BY <1>t, <2>1 DEF SignedByte
  <1>33. TopBits(w, 4) = 2 * TopBits(w, 3) + NextBit(w, 3)
    <2>1. /\ TopBits(w, 4) = SignedByte(w) \div 16
          /\ TopBits(w, 3) = SignedByte(w) \div 32 /\ NextBit(w, 3) = (w \div 16) % 2
      BY Powers2 DEF TopBits, NextBit, Bit
    <2> QED  BY <1>t, <2>1 DEF SignedByte
  <1>34. TopBits(w, 5) = 2 * TopBits(w, 4) + NextBit(w, 4)
    <2>1. /\ TopBits(w, 5) = SignedByte(w) \div 8
          /\ TopBits(w, 4) = SignedByte(w) \div 16 /\ NextBit(w, 4) = (w \div 8) % 2
      BY Powers2 DEF TopBits, NextBit, Bit
    <2> QED  BY <1>t, <2>1 DEF SignedByte
  <1>35. TopBits(w, 6) = 2 * TopBits(w, 5) + NextBit(w, 5)
    <2>1. /\ TopBits(w, 6) = SignedByte(w) \div 4
          /\ TopBits(w, 5) = SignedByte(w) \div 8 /\ NextBit(w, 5) = (w \div 4) % 2
      BY Powers2 DEF TopBits, NextBit, Bit
    <2> QED  BY <1>t, <2>1 DEF SignedByte
  <1>36. TopBits(w, 7) = 2 * TopBits(w, 6) + NextBit(w, 6)
    <2>1. /\ TopBits(w, 7) = SignedByte(w) \div 2
          /\ TopBits(w, 6) = SignedByte(w) \div 4 /\ NextBit(w, 6) = (w \div 2) % 2
      BY Powers2 DEF TopBits, NextBit, Bit
    <2> QED  BY <1>t, <2>1 DEF SignedByte
  <1>37. TopBits(w, 8) = 2 * TopBits(w, 7) + NextBit(w, 7)
    <2>1. /\ TopBits(w, 8) = SignedByte(w) \div 1
          /\ TopBits(w, 7) = SignedByte(w) \div 2 /\ NextBit(w, 7) = (w \div 1) % 2
      BY Powers2 DEF TopBits, NextBit, Bit
    <2> QED  BY <1>t, <2>1 DEF SignedByte
  <1>4. TopBits(w, 8) = SignedByte(w)
    <2>1. TopBits(w, 8) = SignedByte(w) \div 1
      BY Powers2 DEF TopBits
    <2> QED  BY <1>t, <2>1 DEF SignedByte
  <1>5. ASSUME NEW k \in 1 .. 7
        PROVE  TopBits(w, k + 1) = 2 * TopBits(w, k) + NextBit(w, k)
    <2>1. k = 1 \/ k = 2 \/ k = 3 \/ k = 4 \/ k = 5 \/ k = 6 \/ k = 7
      OBVIOUS
    <2> QED  BY <2>1, <1>31, <1>32, <1>33, <1>34, <1>35, <1>36, <1>37
  <1> QED  BY <1>1, <1>2, <1>4, <1>5

\* Both are integers, the next bit 0 or 1.
LEMMA BitsTyped ==
  ASSUME NEW w \in Word
  PROVE  /\ \A k \in 0 .. 8 : TopBits(w, k) \in Int
         /\ \A k \in 0 .. 7 : NextBit(w, k) \in {0, 1}
  <1>1. w \in Int /\ SignedByte(w) \in Int
    BY WordIs DEF SignedByte
  <1>2. /\ \A k \in 0 .. 7 : Power(7 - k) \in Nat \ {0}
        /\ \A k \in 1 .. 8 : Power(8 - k) \in Nat \ {0}
    <2>1. \A i \in 0 .. 7 : Power(i) \in Nat \ {0}
      BY Powers2, \A i \in 0 .. 7 : i \in {0, 1, 2, 3, 4, 5, 6, 7}
    <2>2. \A k \in 0 .. 7 : 7 - k \in 0 .. 7
      OBVIOUS
    <2>3. \A k \in 1 .. 8 : 8 - k \in 0 .. 7
      OBVIOUS
    <2> QED  BY <2>1, <2>2, <2>3
  <1>3. ASSUME NEW k \in 0 .. 8  PROVE TopBits(w, k) \in Int
    <2>1. \A s \in Int : \A p \in Nat \ {0} : s \div p \in Int
      OBVIOUS
    <2> QED  BY <1>1, <1>2, <2>1 DEF TopBits
  <1>4. ASSUME NEW k \in 0 .. 7  PROVE NextBit(w, k) \in {0, 1}
    BY <1>1, <1>2, BitTyped DEF NextBit
  <1> QED  BY <1>3, <1>4

\* Remainders are words, and are added like the numbers they stand for.
LEMMA Remainders ==
  ASSUME NEW x \in Int, NEW y \in Int
  PROVE  /\ x % 65536 \in Word
         /\ Add(x % 65536, y % 65536) = (x + y) % 65536
  <1>1. ((x % 65536) + (y % 65536)) % 65536 = (x + y) % 65536
    OBVIOUS
  <1>2. x % 65536 \in Word
    <2>1. x % WordMod \in Word
      BY WordModNat, ModRange
    <2>2. WordMod = 65536
      BY DEF WordMod
    <2> QED  BY <2>1, <2>2
  <1>3. Add(x % 65536, y % 65536) = (x + y) % 65536
    BY <1>1 DEF WordMod, Add
  <1> QED  BY <1>2, <1>3

\* The first operand moves up by a bit a round, and its bit 7 is the next one.
LEMMA Shifts ==
  ASSUME NEW w \in Word
  PROVE  /\ Shifted(w, 0) = w
         /\ \A k \in 0 .. 7 : /\ Add(Shifted(w, k), Shifted(w, k)) = Shifted(w, k + 1)
                              /\ Shifted(w, k) \in Word
                              /\ Bit(Shifted(w, k), 128) = NextBit(w, k)
  <1>t. w \in Nat /\ w < 65536 /\ WordMod = 65536
    BY WordIs, WordModIs
  <1>1. Shifted(w, 0) = w
    BY <1>t, Powers2 DEF Shifted
  <1>20. /\ Add(Shifted(w, 0), Shifted(w, 0)) = Shifted(w, 1)
       /\ Shifted(w, 0) \in Word
       /\ Bit(Shifted(w, 0), 128) = NextBit(w, 0)
    <2>1. /\ Shifted(w, 0) = (w * 1) % 65536 /\ Shifted(w, 1) = (w * 2) % 65536
          /\ NextBit(w, 0) = (w \div 128) % 2
      BY <1>t, Powers2 DEF Shifted, NextBit, Bit
    <2>2. Add(Shifted(w, 0), Shifted(w, 0)) = Shifted(w, 1) /\ Shifted(w, 0) \in Word
      <3>1. w * 1 \in Int /\ w * 1 + w * 1 = w * 2
        BY <1>t
      <3> QED  BY <2>1, <3>1, Remainders
    <2>4. Bit(Shifted(w, 0), 128) = NextBit(w, 0)
      BY <1>t, <2>1 DEF Bit
    <2> QED  BY <2>2, <2>4
  <1>21. /\ Add(Shifted(w, 1), Shifted(w, 1)) = Shifted(w, 2)
       /\ Shifted(w, 1) \in Word
       /\ Bit(Shifted(w, 1), 128) = NextBit(w, 1)
    <2>1. /\ Shifted(w, 1) = (w * 2) % 65536 /\ Shifted(w, 2) = (w * 4) % 65536
          /\ NextBit(w, 1) = (w \div 64) % 2
      BY <1>t, Powers2 DEF Shifted, NextBit, Bit
    <2>2. Add(Shifted(w, 1), Shifted(w, 1)) = Shifted(w, 2) /\ Shifted(w, 1) \in Word
      <3>1. w * 2 \in Int /\ w * 2 + w * 2 = w * 4
        BY <1>t
      <3> QED  BY <2>1, <3>1, Remainders
    <2>4. Bit(Shifted(w, 1), 128) = NextBit(w, 1)
      BY <1>t, <2>1 DEF Bit
    <2> QED  BY <2>2, <2>4
  <1>22. /\ Add(Shifted(w, 2), Shifted(w, 2)) = Shifted(w, 3)
       /\ Shifted(w, 2) \in Word
       /\ Bit(Shifted(w, 2), 128) = NextBit(w, 2)
    <2>1. /\ Shifted(w, 2) = (w * 4) % 65536 /\ Shifted(w, 3) = (w * 8) % 65536
          /\ NextBit(w, 2) = (w \div 32) % 2
      BY <1>t, Powers2 DEF Shifted, NextBit, Bit
    <2>2. Add(Shifted(w, 2), Shifted(w, 2)) = Shifted(w, 3) /\ Shifted(w, 2) \in Word
      <3>1. w * 4 \in Int /\ w * 4 + w * 4 = w * 8
        BY <1>t
      <3> QED  BY <2>1, <3>1, Remainders
    <2>4. Bit(Shifted(w, 2), 128) = NextBit(w, 2)
      BY <1>t, <2>1 DEF Bit
    <2> QED  BY <2>2, <2>4
  <1>23. /\ Add(Shifted(w, 3), Shifted(w, 3)) = Shifted(w, 4)
       /\ Shifted(w, 3) \in Word
       /\ Bit(Shifted(w, 3), 128) = NextBit(w, 3)
    <2>1. /\ Shifted(w, 3) = (w * 8) % 65536 /\ Shifted(w, 4) = (w * 16) % 65536
          /\ NextBit(w, 3) = (w \div 16) % 2
      BY <1>t, Powers2 DEF Shifted, NextBit, Bit
    <2>2. Add(Shifted(w, 3), Shifted(w, 3)) = Shifted(w, 4) /\ Shifted(w, 3) \in Word
      <3>1. w * 8 \in Int /\ w * 8 + w * 8 = w * 16
        BY <1>t
      <3> QED  BY <2>1, <3>1, Remainders
    <2>4. Bit(Shifted(w, 3), 128) = NextBit(w, 3)
      BY <1>t, <2>1 DEF Bit
    <2> QED  BY <2>2, <2>4
  <1>24. /\ Add(Shifted(w, 4), Shifted(w, 4)) = Shifted(w, 5)
       /\ Shifted(w, 4) \in Word
       /\ Bit(Shifted(w, 4), 128) = NextBit(w, 4)
    <2>1. /\ Shifted(w, 4) = (w * 16) % 65536 /\ Shifted(w, 5) = (w * 32) % 65536
          /\ NextBit(w, 4) = (w \div 8) % 2
      BY <1>t, Powers2 DEF Shifted, NextBit, Bit
    <2>2. Add(Shifted(w, 4), Shifted(w, 4)) = Shifted(w, 5) /\ Shifted(w, 4) \in Word
      <3>1. w * 16 \in Int /\ w * 16 + w * 16 = w * 32
        BY <1>t
      <3> QED  BY <2>1, <3>1, Remainders
    <2>4. Bit(Shifted(w, 4), 128) = NextBit(w, 4)
      BY <1>t, <2>1 DEF Bit
    <2> QED  BY <2>2, <2>4
  <1>25. /\ Add(Shifted(w, 5), Shifted(w, 5)) = Shifted(w, 6)
       /\ Shifted(w, 5) \in Word
       /\ Bit(Shifted(w, 5), 128) = NextBit(w, 5)
    <2>1. /\ Shifted(w, 5) = (w * 32) % 65536 /\ Shifted(w, 6) = (w * 64) % 65536
          /\ NextBit(w, 5) = (w \div 4) % 2
      BY <1>t, Powers2 DEF Shifted, NextBit, Bit
    <2>2. Add(Shifted(w, 5), Shifted(w, 5)) = Shifted(w, 6) /\ Shifted(w, 5) \in Word
      <3>1. w * 32 \in Int /\ w * 32 + w * 32 = w * 64
        BY <1>t
      <3> QED  BY <2>1, <3>1, Remainders
    <2>4. Bit(Shifted(w, 5), 128) = NextBit(w, 5)
      BY <1>t, <2>1 DEF Bit
    <2> QED  BY <2>2, <2>4
  <1>26. /\ Add(Shifted(w, 6), Shifted(w, 6)) = Shifted(w, 7)
       /\ Shifted(w, 6) \in Word
       /\ Bit(Shifted(w, 6), 128) = NextBit(w, 6)
    <2>1. /\ Shifted(w, 6) = (w * 64) % 65536 /\ Shifted(w, 7) = (w * 128) % 65536
          /\ NextBit(w, 6) = (w \div 2) % 2
      BY <1>t, Powers2 DEF Shifted, NextBit, Bit
    <2>2. Add(Shifted(w, 6), Shifted(w, 6)) = Shifted(w, 7) /\ Shifted(w, 6) \in Word
      <3>1. w * 64 \in Int /\ w * 64 + w * 64 = w * 128
        BY <1>t
      <3> QED  BY <2>1, <3>1, Remainders
    <2>4. Bit(Shifted(w, 6), 128) = NextBit(w, 6)
      BY <1>t, <2>1 DEF Bit
    <2> QED  BY <2>2, <2>4
  <1>27. /\ Add(Shifted(w, 7), Shifted(w, 7)) = Shifted(w, 8)
       /\ Shifted(w, 7) \in Word
       /\ Bit(Shifted(w, 7), 128) = NextBit(w, 7)
    <2>1. /\ Shifted(w, 7) = (w * 128) % 65536 /\ Shifted(w, 8) = (w * 256) % 65536
          /\ NextBit(w, 7) = (w \div 1) % 2
      BY <1>t, Powers2 DEF Shifted, NextBit, Bit
    <2>2. Add(Shifted(w, 7), Shifted(w, 7)) = Shifted(w, 8) /\ Shifted(w, 7) \in Word
      <3>1. w * 128 \in Int /\ w * 128 + w * 128 = w * 256
        BY <1>t
      <3> QED  BY <2>1, <3>1, Remainders
    <2>4. Bit(Shifted(w, 7), 128) = NextBit(w, 7)
      BY <1>t, <2>1 DEF Bit
    <2> QED  BY <2>2, <2>4
  <1>3. ASSUME NEW k \in 0 .. 7
        PROVE  /\ Add(Shifted(w, k), Shifted(w, k)) = Shifted(w, k + 1)
               /\ Shifted(w, k) \in Word
               /\ Bit(Shifted(w, k), 128) = NextBit(w, k)
    <2>1. k = 0 \/ k = 1 \/ k = 2 \/ k = 3 \/ k = 4 \/ k = 5 \/ k = 6 \/ k = 7
      OBVIOUS
    <2> QED  BY <2>1, <1>20, <1>21, <1>22, <1>23, <1>24, <1>25, <1>26, <1>27
  <1> QED  BY <1>1, <1>3

\* The mask in R3 leaves bit 7.
LEMMA Masked ==
  ASSUME NEW w \in Word
  PROVE  And(128, w) = 128 * Bit(w, 128)
  <1>1. \A q \in Powers : q # 128 => AndBit(128, w, q) = 0
    <2>1. \A q \in Powers : q # 128 => (128 \div q) % 2 = 0
      BY DEF Powers
    <2> QED  BY <2>1 DEF AndBit
  <1>2. AndBit(128, w, 128) = 128 * Bit(w, 128)
    <2>1. (128 \div 128) % 2 = 1
      OBVIOUS
    <2>2. Bit(w, 128) \in {0, 1}
      BY BitTyped DEF Word
    <2> QED  BY <2>1, <2>2 DEF AndBit, Bit
  <1>3. Bit(w, 128) \in {0, 1}
    BY BitTyped DEF Word
  <1> QED  BY <1>1, <1>2, <1>3 DEF And, Powers

\* The product so far.
LEMMA Product ==
  ASSUME NEW t \in Int, NEW b \in Word
  PROVE  /\ Times(0, b) = 0 /\ Times(t, b) \in Word
         /\ Add(Times(t, b), Times(t, b)) = Times(2 * t, b)
         /\ Add(Times(t, b), b) = Times(t + 1, b)
         /\ Add(Not(Times(t, b)), 1) = Times(-t, b)
  <1>t. b \in Nat /\ b < 65536 /\ WordMod = 65536
    BY WordIs, WordModIs
  <1>p. PICK p \in Int : t * b = p /\ (2 * t) * b = p + p /\ (t + 1) * b = p + b
                         /\ (-t) * b = -p
    <2>1. t * b \in Int /\ (2 * t) * b = t * b + t * b /\ (t + 1) * b = t * b + b
          /\ (-t) * b = -(t * b)
      BY <1>t
    <2> QED  BY <2>1
  <1>v. Times(t, b) = p % 65536 /\ Times(2 * t, b) = (p + p) % 65536
        /\ Times(t + 1, b) = (p + b) % 65536 /\ Times(-t, b) = (-p) % 65536 /\ Times(0, b) = 0
    BY <1>t, <1>p DEF Times
  <1>1. Times(t, b) \in Word
    BY <1>v, Remainders
  <1>2. Add(Times(t, b), Times(t, b)) = Times(2 * t, b)
    <2>1. Add(p % 65536, p % 65536) = (p + p) % 65536
      BY DEF Add, WordMod
    <2> QED  BY <1>v, <2>1
  <1>3. Add(Times(t, b), b) = Times(t + 1, b)
    BY <1>t, <1>p, <1>v DEF Add
  <1>4. Add(Not(Times(t, b)), 1) = Times(-t, b)
    BY <1>t, <1>p, <1>v DEF Add, Not
  <1> QED  BY <1>v, <1>1, <1>2, <1>3, <1>4

\* The program, word by word, and the mask in its data.
LEMMA MultiplierCode ==
  ASSUME Code
  PROVE  /\ mem[49] = P!opCLR(0)
         /\ mem[50] = P!opJSR(0)
         /\ mem[51] = P!opLDR(3, 7, 22)
         /\ mem[52] = P!opCLR(4)
         /\ mem[53] = P!opCLR(5)
         /\ mem[54] = P!opPSE(2049)
         /\ mem[55] = P!opLDR(1, 0, -1)
         /\ mem[56] = P!opPSE(2050)
         /\ mem[57] = P!opLDR(2, 0, -1)
         /\ mem[58] = P!opADD(5, 5, 5)
         /\ mem[59] = P!opAND(7, 3, 1)
         /\ mem[60] = P!opBR(2, 1)
         /\ mem[61] = P!opADD(5, 5, 2)
         /\ mem[62] = P!opADDi(4, 4, 0)
         /\ mem[63] = P!opBR(1, 2)
         /\ mem[64] = P!opNOT(5, 5)
         /\ mem[65] = P!opADDi(5, 5, 1)
         /\ mem[66] = P!opADDi(4, 4, 1)
         /\ mem[67] = P!opADD(1, 1, 1)
         /\ mem[68] = P!opADDi(7, 4, -8)
         /\ mem[69] = P!opBR(4, -12)
         /\ mem[70] = P!opSTR(5, 0, -1)
         /\ mem[71] = P!opPSE(1027)
         /\ mem[72] = P!opBR(7, -21)
         /\ mem[73] = 128
  BY DEF Code, P!memory_contents, P!Listing, P!inSW, P!outHEX, P!nzp, P!p, P!z, P!n, P!opINC,
         P!R0, P!R1, P!R2, P!R3, P!R4, P!R5, P!R7

\* The immediates of the program as words.
LEMMA Remainder16 == 0 % 65536 = 0 /\ 1 % 65536 = 1 /\ (-8) % 65536 = 65528
  <1>1. \A i \in -16 .. 15 : i % 65536 = IF i < 0 THEN i + 65536 ELSE i
    OBVIOUS
  <1>2. 0 \in -16 .. 15 /\ 1 \in -16 .. 15 /\ -8 \in -16 .. 15
    OBVIOUS
  <1> QED  BY <1>1, <1>2

\* Each instruction leaves what the next one expects; operand is the word that
\* instruction 55 reads.
LEMMA MultiplierStep ==
  ASSUME MultiplierInv, Step, operand' = IF pc = P!MultiplierOperand1 THEN reg'[1] ELSE operand
  PROVE  MultiplierInv'
  <1> DEFINE T == TopBits(operand, reg[4])
             N == NextBit(operand, reg[4])
  <1>m. Machine /\ Code /\ pc \in 0 .. 254 /\ pc \in 49 .. 72
    BY DEF MultiplierInv, Machine
  <1>r. {0, 1, 2, 3, 4, 5, 7} \subseteq RegNum
    BY DEF RegNum
  <1>t. 0 \in Word /\ 1 \in Word /\ 128 \in Word /\ 65528 \in Word /\ 51 \in Word
        /\ \A r \in RegNum : reg[r] \in Word
    <2>1. 0 \in Word /\ 1 \in Word /\ 128 \in Word /\ 65528 \in Word /\ 51 \in Word
      BY IsWord
    <2>2. \A r \in RegNum : reg[r] \in Word
      BY <1>m DEF Machine
    <2> QED  BY <2>1, <2>2
  <1>o. (pc # 55 => operand' = operand) /\ (pc = 55 => operand' = reg'[1])
    BY DEF P!MultiplierOperand1
  <1>49. CASE pc = 49
    <2>1. Sets(0, 0)
      BY <1>49, <1>m, <1>r, MultiplierCode, RunsCLR
    <2>2. 0 \in Word
      BY <1>t
    <2>3. Machine' /\ reg'[0] = 0
          /\ reg'[1] = reg[1] /\ reg'[2] = reg[2] /\ reg'[3] = reg[3]
          /\ reg'[4] = reg[4] /\ reg'[5] = reg[5]
      BY <2>1, <2>2, <1>m, <1>r, SetsKeeps
    <2>4. pc' = 50 /\ cc' = FlagsOf(0) /\ operand' = operand
      BY <1>49, <2>1, <1>o DEF Sets
    <2> QED  BY <1>49, <2>3, <2>4 DEF MultiplierInv, MultiplierValues
  <1>50. CASE pc = 50
    <2>1. /\ reg' = [reg EXCEPT ![7] = 51] /\ pc' = 51 /\ UNCHANGED <<cc, mem, hex>>
      <3>1. 0 \in 0 .. 1023 /\ pc + 1 + 0 = 51 /\ mem[pc] = P!opJSR(0)
        BY <1>50, <1>m, MultiplierCode
      <3> QED  BY <1>50, <3>1, RunsJSR
    <2>2. Machine' /\ reg'[0] = reg[0] /\ reg'[7] = 51
      BY <2>1, <1>m, <1>r, <1>t DEF Machine, Code, OneFlag
    <2>3. operand' = operand
      BY <1>50, <1>o
    <2> QED  BY <1>50, <2>1, <2>2, <2>3 DEF MultiplierInv, MultiplierValues
  <1>51. CASE pc = 51
    <2>1. Sets(3, 128)
      <3>1. 22 \in -32 .. 31 /\ 22 % WordMod = 22 /\ mem[51] = P!opLDR(3, 7, 22) /\ mem[73] = 128
        BY <1>m, MultiplierCode DEF WordMod
      <3>2. Add(reg[7], 22 % WordMod) = 73
        BY <1>51, <3>1 DEF MultiplierInv, MultiplierValues, Add, WordMod
      <3>3. WordsAt(73) = {128}
        <4>1. 73 # IOAddr /\ 73 % MemSize = 73
          BY MemSizeAssumption DEF IOAddr
        <4> QED  BY <3>1, <4>1 DEF WordsAt
      <3>4. \E v \in WordsAt(Add(reg[7], 22 % WordMod)) : Sets(3, v)
        BY <1>51, <1>m, <1>r, <3>1, RunsLDR
      <3> QED  BY <3>2, <3>3, <3>4
    <2>2. 128 \in Word
      BY <1>t
    <2>3. Machine' /\ reg'[3] = 128
          /\ reg'[0] = reg[0] /\ reg'[1] = reg[1] /\ reg'[2] = reg[2]
          /\ reg'[4] = reg[4] /\ reg'[5] = reg[5]
      BY <2>1, <2>2, <1>m, <1>r, SetsKeeps
    <2>4. pc' = 52 /\ cc' = FlagsOf(128) /\ operand' = operand
      BY <1>51, <2>1, <1>o DEF Sets
    <2> QED  BY <1>51, <2>3, <2>4 DEF MultiplierInv, MultiplierValues
  <1>52. CASE pc = 52
    <2>1. Sets(4, 0)
      BY <1>52, <1>m, <1>r, MultiplierCode, RunsCLR
    <2>2. 0 \in Word
      BY <1>t
    <2>3. Machine' /\ reg'[4] = 0
          /\ reg'[0] = reg[0] /\ reg'[1] = reg[1] /\ reg'[2] = reg[2]
          /\ reg'[3] = reg[3] /\ reg'[5] = reg[5]
      BY <2>1, <2>2, <1>m, <1>r, SetsKeeps
    <2>4. pc' = 53 /\ cc' = FlagsOf(0) /\ operand' = operand
      BY <1>52, <2>1, <1>o DEF Sets
    <2> QED  BY <1>52, <2>3, <2>4 DEF MultiplierInv, MultiplierValues
  <1>53. CASE pc = 53
    <2>1. Sets(5, 0)
      BY <1>53, <1>m, <1>r, MultiplierCode, RunsCLR
    <2>2. 0 \in Word
      BY <1>t
    <2>3. Machine' /\ reg'[5] = 0
          /\ reg'[0] = reg[0] /\ reg'[1] = reg[1] /\ reg'[2] = reg[2]
          /\ reg'[3] = reg[3] /\ reg'[4] = reg[4]
      BY <2>1, <2>2, <1>m, <1>r, SetsKeeps
    <2>4. pc' = 54 /\ cc' = FlagsOf(0) /\ operand' = operand
      BY <1>53, <2>1, <1>o DEF Sets
    <2> QED  BY <1>53, <2>3, <2>4 DEF MultiplierInv, MultiplierValues
  <1>54. CASE pc = 54
    <2>1. pc' = 55 /\ UNCHANGED <<reg, cc, mem, hex>>
      BY <1>54, <1>m, MultiplierCode, RunsPSE
    <2>2. Machine'
      BY <2>1, <1>m, SameKeeps
    <2>3. operand' = operand
      BY <1>54, <1>o
    <2> QED  BY <1>54, <2>1, <2>2, <2>3 DEF MultiplierInv, MultiplierValues
  <1>55. CASE pc = 55
    <2>1. PICK v \in Word : Sets(1, v)
      BY <1>55, <1>m, <1>r, MultiplierCode, RunsSwitches DEF MultiplierInv, MultiplierValues
    <2>3. Machine' /\ reg'[1] = v
          /\ reg'[0] = reg[0] /\ reg'[2] = reg[2] /\ reg'[3] = reg[3]
          /\ reg'[4] = reg[4] /\ reg'[5] = reg[5]
      BY <2>1, <1>m, <1>r, SetsKeeps
    <2>4. pc' = 56 /\ cc' = FlagsOf(v) /\ operand' = reg'[1]
      BY <1>55, <2>1, <1>o DEF Sets
    <2> QED  BY <1>55, <2>3, <2>4 DEF MultiplierInv, MultiplierValues
  <1>56. CASE pc = 56
    <2>1. pc' = 57 /\ UNCHANGED <<reg, cc, mem, hex>>
      BY <1>56, <1>m, MultiplierCode, RunsPSE
    <2>2. Machine'
      BY <2>1, <1>m, SameKeeps
    <2>3. operand' = operand
      BY <1>56, <1>o
    <2> QED  BY <1>56, <2>1, <2>2, <2>3 DEF MultiplierInv, MultiplierValues
  <1>57. CASE pc = 57
    <2>1. PICK v \in Word : Sets(2, v)
      BY <1>57, <1>m, <1>r, MultiplierCode, RunsSwitches DEF MultiplierInv, MultiplierValues
    <2>3. Machine' /\ reg'[2] = v
          /\ reg'[0] = reg[0] /\ reg'[1] = reg[1] /\ reg'[3] = reg[3]
          /\ reg'[4] = reg[4] /\ reg'[5] = reg[5]
      BY <2>1, <1>m, <1>r, SetsKeeps
    <2>4. pc' = 58 /\ cc' = FlagsOf(v) /\ operand' = operand
      BY <1>57, <2>1, <1>o DEF Sets
    <2>5. TopBits(operand, 0) = 0 /\ Shifted(operand, 0) = operand /\ Times(0, v) = 0
      <3>1. operand \in Word /\ 0 \in Int
        BY <1>57 DEF MultiplierInv, MultiplierValues
      <3> QED  BY <3>1, <2>1, BitsSoFar, Shifts, Product
    <2> QED  BY <1>57, <2>3, <2>4, <2>5 DEF MultiplierInv, MultiplierValues
  <1>58. CASE pc = 58
    <2>1. Sets(5, Add(reg[5], reg[5]))
      BY <1>58, <1>m, <1>r, MultiplierCode, RunsADD
    <2>2. Add(reg[5], reg[5]) \in Word
      BY <1>r, <1>t, AddTyped
    <2>3. Machine' /\ reg'[5] = Add(reg[5], reg[5])
          /\ reg'[0] = reg[0] /\ reg'[1] = reg[1] /\ reg'[2] = reg[2]
          /\ reg'[3] = reg[3] /\ reg'[4] = reg[4]
      BY <2>1, <2>2, <1>m, <1>r, SetsKeeps
    <2>4. pc' = 59 /\ cc' = FlagsOf(Add(reg[5], reg[5])) /\ operand' = operand
      BY <1>58, <2>1, <1>o DEF Sets
    <2>5. /\ reg[4] \in 0 .. 7 /\ operand \in Word /\ reg[2] \in Word /\ T \in Int
          /\ N \in {0, 1}
      BY <1>58, <1>r, <1>t, BitsTyped DEF MultiplierInv, MultiplierValues
    <2>6. Add(reg[5], reg[5]) = Times(2 * T, reg[2])
      <3>1. reg[5] = Times(T, reg[2])
        BY <1>58 DEF MultiplierInv, MultiplierValues
      <3> QED  BY <2>5, <3>1, Product
    <2> QED  BY <1>58, <2>3, <2>4, <2>6 DEF MultiplierInv, MultiplierValues
  <1>59. CASE pc = 59
    <2>1. Sets(7, And(reg[3], reg[1]))
      BY <1>59, <1>m, <1>r, MultiplierCode, RunsAND
    <2>2. And(reg[3], reg[1]) \in Word
      BY <1>r, <1>t, AndTyped
    <2>3. Machine' /\ reg'[7] = And(reg[3], reg[1])
          /\ reg'[0] = reg[0] /\ reg'[1] = reg[1] /\ reg'[2] = reg[2]
          /\ reg'[3] = reg[3] /\ reg'[4] = reg[4] /\ reg'[5] = reg[5]
      BY <2>1, <2>2, <1>m, <1>r, SetsKeeps
    <2>4. pc' = 60 /\ cc' = FlagsOf(And(reg[3], reg[1])) /\ operand' = operand
      BY <1>59, <2>1, <1>o DEF Sets
    <2>5. /\ reg[4] \in 0 .. 7 /\ operand \in Word /\ reg[2] \in Word /\ T \in Int
          /\ N \in {0, 1}
      BY <1>59, <1>r, <1>t, BitsTyped DEF MultiplierInv, MultiplierValues
    <2>6. And(reg[3], reg[1]) = 128 * N
      <3>1. reg[3] = 128 /\ reg[1] = Shifted(operand, reg[4])
        BY <1>59 DEF MultiplierInv, MultiplierValues
      <3>2. Shifted(operand, reg[4]) \in Word /\ Bit(Shifted(operand, reg[4]), 128) = N
        BY <2>5, Shifts
      <3> QED  BY <3>1, <3>2, Masked
    <2> QED  BY <1>59, <2>3, <2>4, <2>6 DEF MultiplierInv, MultiplierValues
  <1>60. CASE pc = 60
    <2>1. pc' = (IF N = 0 THEN 62 ELSE 61) /\ UNCHANGED <<reg, cc, mem, hex>>
      <3>1. pc + 1 + (1) \in 0 .. 255 /\ 1 \in -256 .. 255 /\ 2 \in 0 .. 7
        BY <1>60
      <3>2. mem[pc] = P!opBR(2, 1)
        BY <1>60, <1>m, MultiplierCode
      <3>3. (2 \div 2) % 2 = 1 /\ 2 % 2 = 0
        OBVIOUS
      <3>4. ("Z" \in cc <=> N = 0) /\ ~(2 >= 4)
        <4>1. cc = FlagsOf(128 * N) /\ N \in {0, 1}
          BY <1>60, <1>r, <1>t, BitsTyped DEF MultiplierInv, MultiplierValues
        <4> QED  BY <4>1 DEF FlagsOf
      <3>5. pc' = (IF "Z" \in cc THEN pc + 1 + (1) ELSE pc + 1) /\ UNCHANGED <<reg, cc, mem, hex>>
        BY <3>1, <3>2, <3>3, <3>4, <1>60, RunsBR
      <3> QED  BY <3>4, <3>5, <1>60
    <2>2. Machine'
      BY <2>1, <1>m, SameKeeps
    <2>3. operand' = operand
      BY <1>60, <1>o
    <2>5. /\ reg[4] \in 0 .. 7 /\ operand \in Word /\ reg[2] \in Word /\ T \in Int
          /\ N \in {0, 1}
      BY <1>60, <1>r, <1>t, BitsTyped DEF MultiplierInv, MultiplierValues
    <2>6. N = 0 => 2 * T = 2 * T + N
      BY <2>5
    <2> QED  BY <1>60, <2>1, <2>2, <2>3, <2>5, <2>6 DEF MultiplierInv, MultiplierValues
  <1>61. CASE pc = 61
    <2>1. Sets(5, Add(reg[5], reg[2]))
      BY <1>61, <1>m, <1>r, MultiplierCode, RunsADD
    <2>2. Add(reg[5], reg[2]) \in Word
      BY <1>r, <1>t, AddTyped
    <2>3. Machine' /\ reg'[5] = Add(reg[5], reg[2])
          /\ reg'[0] = reg[0] /\ reg'[1] = reg[1] /\ reg'[2] = reg[2]
          /\ reg'[3] = reg[3] /\ reg'[4] = reg[4]
      BY <2>1, <2>2, <1>m, <1>r, SetsKeeps
    <2>4. pc' = 62 /\ cc' = FlagsOf(Add(reg[5], reg[2])) /\ operand' = operand
      BY <1>61, <2>1, <1>o DEF Sets
    <2>5. /\ reg[4] \in 0 .. 7 /\ operand \in Word /\ reg[2] \in Word /\ T \in Int
          /\ N \in {0, 1}
      BY <1>61, <1>r, <1>t, BitsTyped DEF MultiplierInv, MultiplierValues
    <2>6. Add(reg[5], reg[2]) = Times(2 * T + N, reg[2])
      <3>1. reg[5] = Times(2 * T, reg[2]) /\ N = 1
        BY <1>61 DEF MultiplierInv, MultiplierValues
      <3>2. 2 * T \in Int
        BY <2>5
      <3> QED  BY <2>5, <3>1, <3>2, Product
    <2> QED  BY <1>61, <2>3, <2>4, <2>6 DEF MultiplierInv, MultiplierValues
  <1>62. CASE pc = 62
    <2>1. Sets(4, Add(reg[4], 0))
      <3>1. 0 \in -16 .. 15 /\ mem[62] = P!opADDi(4, 4, 0)
        BY <1>m, MultiplierCode
      <3>2. (0) % WordMod = 0
        BY Remainder16 DEF WordMod
      <3>3. Sets(4, Add(reg[4], (0) % WordMod))
        BY <1>62, <1>m, <1>r, <3>1, RunsADDi
      <3> QED  BY <3>2, <3>3
    <2>2. Add(reg[4], 0) \in Word
      BY <1>r, <1>t, AddTyped
    <2>3. Machine' /\ reg'[4] = Add(reg[4], 0)
          /\ reg'[0] = reg[0] /\ reg'[1] = reg[1] /\ reg'[2] = reg[2]
          /\ reg'[3] = reg[3] /\ reg'[5] = reg[5]
      BY <2>1, <2>2, <1>m, <1>r, SetsKeeps
    <2>4. pc' = 63 /\ cc' = FlagsOf(Add(reg[4], 0)) /\ operand' = operand
      BY <1>62, <2>1, <1>o DEF Sets
    <2>5. /\ reg[4] \in 0 .. 7 /\ operand \in Word /\ reg[2] \in Word /\ T \in Int
          /\ N \in {0, 1}
      BY <1>62, <1>r, <1>t, BitsTyped DEF MultiplierInv, MultiplierValues
    <2>6. Add(reg[4], 0) = reg[4]
      BY <2>5 DEF Add, WordMod
    <2> QED  BY <1>62, <2>3, <2>4, <2>6 DEF MultiplierInv, MultiplierValues
  <1>63. CASE pc = 63
    <2>1. pc' = (IF reg[4] > 0 THEN 66 ELSE 64) /\ UNCHANGED <<reg, cc, mem, hex>>
      <3>1. pc + 1 + (2) \in 0 .. 255 /\ 2 \in -256 .. 255 /\ 1 \in 0 .. 7
        BY <1>63
      <3>2. mem[pc] = P!opBR(1, 2)
        BY <1>63, <1>m, MultiplierCode
      <3>3. (1 \div 2) % 2 = 0 /\ 1 % 2 = 1
        OBVIOUS
      <3>4. ("P" \in cc <=> reg[4] > 0) /\ ~(1 >= 4)
        <4>1. cc = FlagsOf(reg[4]) /\ reg[4] \in 0 .. 7
          BY <1>63 DEF MultiplierInv, MultiplierValues
        <4> QED  BY <4>1 DEF FlagsOf
      <3>5. pc' = (IF "P" \in cc THEN pc + 1 + (2) ELSE pc + 1) /\ UNCHANGED <<reg, cc, mem, hex>>
        BY <3>1, <3>2, <3>3, <3>4, <1>63, RunsBR
      <3> QED  BY <3>4, <3>5, <1>63
    <2>2. Machine'
      BY <2>1, <1>m, SameKeeps
    <2>3. operand' = operand
      BY <1>63, <1>o
    <2>5. /\ reg[4] \in 0 .. 7 /\ operand \in Word /\ reg[2] \in Word /\ T \in Int
          /\ N \in {0, 1}
      BY <1>63, <1>r, <1>t, BitsTyped DEF MultiplierInv, MultiplierValues
    <2>6. reg[4] > 0 => TopBits(operand, reg[4] + 1) = 2 * T + N
      BY <2>5, BitsSoFar
    <2> QED  BY <1>63, <2>1, <2>2, <2>3, <2>5, <2>6 DEF MultiplierInv, MultiplierValues
  <1>64. CASE pc = 64
    <2>1. Sets(5, Not(reg[5]))
      BY <1>64, <1>m, <1>r, MultiplierCode, RunsNOT
    <2>2. Not(reg[5]) \in Word
      BY <1>r, <1>t, NotTyped
    <2>3. Machine' /\ reg'[5] = Not(reg[5])
          /\ reg'[0] = reg[0] /\ reg'[1] = reg[1] /\ reg'[2] = reg[2]
          /\ reg'[3] = reg[3] /\ reg'[4] = reg[4]
      BY <2>1, <2>2, <1>m, <1>r, SetsKeeps
    <2>4. pc' = 65 /\ cc' = FlagsOf(Not(reg[5])) /\ operand' = operand
      BY <1>64, <2>1, <1>o DEF Sets
    <2>5. /\ reg[4] \in 0 .. 7 /\ operand \in Word /\ reg[2] \in Word /\ T \in Int
          /\ N \in {0, 1}
      BY <1>64, <1>r, <1>t, BitsTyped DEF MultiplierInv, MultiplierValues
    <2>6. Not(reg[5]) = Not(Times(NextBit(operand, 0), reg[2]))
      <3>1. reg[4] = 0 /\ reg[5] = Times(2 * T + N, reg[2])
        BY <1>64 DEF MultiplierInv, MultiplierValues
      <3>2. 2 * T + N = NextBit(operand, 0)
        BY <2>5, <3>1, BitsSoFar
      <3> QED  BY <3>1, <3>2
    <2> QED  BY <1>64, <2>3, <2>4, <2>6 DEF MultiplierInv, MultiplierValues
  <1>65. CASE pc = 65
    <2>1. Sets(5, Add(reg[5], 1))
      <3>1. 1 \in -16 .. 15 /\ mem[65] = P!opADDi(5, 5, 1)
        BY <1>m, MultiplierCode
      <3>2. (1) % WordMod = 1
        BY Remainder16 DEF WordMod
      <3>3. Sets(5, Add(reg[5], (1) % WordMod))
        BY <1>65, <1>m, <1>r, <3>1, RunsADDi
      <3> QED  BY <3>2, <3>3
    <2>2. Add(reg[5], 1) \in Word
      BY <1>r, <1>t, AddTyped
    <2>3. Machine' /\ reg'[5] = Add(reg[5], 1)
          /\ reg'[0] = reg[0] /\ reg'[1] = reg[1] /\ reg'[2] = reg[2]
          /\ reg'[3] = reg[3] /\ reg'[4] = reg[4]
      BY <2>1, <2>2, <1>m, <1>r, SetsKeeps
    <2>4. pc' = 66 /\ cc' = FlagsOf(Add(reg[5], 1)) /\ operand' = operand
      BY <1>65, <2>1, <1>o DEF Sets
    <2>5. /\ reg[4] \in 0 .. 7 /\ operand \in Word /\ reg[2] \in Word /\ T \in Int
          /\ N \in {0, 1}
      BY <1>65, <1>r, <1>t, BitsTyped DEF MultiplierInv, MultiplierValues
    <2>6. Add(reg[5], 1) = Times(TopBits(operand, reg[4] + 1), reg[2])
      <3>1. reg[4] = 0 /\ reg[5] = Not(Times(NextBit(operand, 0), reg[2]))
        BY <1>65 DEF MultiplierInv, MultiplierValues
      <3>2. TopBits(operand, reg[4] + 1) = -NextBit(operand, 0) /\ NextBit(operand, 0) \in Int
        BY <2>5, <3>1, BitsSoFar
      <3> QED  BY <2>5, <3>1, <3>2, Product
    <2> QED  BY <1>65, <2>3, <2>4, <2>5, <2>6 DEF MultiplierInv, MultiplierValues
  <1>66. CASE pc = 66
    <2>1. Sets(4, Add(reg[4], 1))
      <3>1. 1 \in -16 .. 15 /\ mem[66] = P!opADDi(4, 4, 1)
        BY <1>m, MultiplierCode
      <3>2. (1) % WordMod = 1
        BY Remainder16 DEF WordMod
      <3>3. Sets(4, Add(reg[4], (1) % WordMod))
        BY <1>66, <1>m, <1>r, <3>1, RunsADDi
      <3> QED  BY <3>2, <3>3
    <2>2. Add(reg[4], 1) \in Word
      BY <1>r, <1>t, AddTyped
    <2>3. Machine' /\ reg'[4] = Add(reg[4], 1)
          /\ reg'[0] = reg[0] /\ reg'[1] = reg[1] /\ reg'[2] = reg[2]
          /\ reg'[3] = reg[3] /\ reg'[5] = reg[5]
      BY <2>1, <2>2, <1>m, <1>r, SetsKeeps
    <2>4. pc' = 67 /\ cc' = FlagsOf(Add(reg[4], 1)) /\ operand' = operand
      BY <1>66, <2>1, <1>o DEF Sets
    <2>5. /\ reg[4] \in 0 .. 7 /\ operand \in Word /\ reg[2] \in Word /\ T \in Int
          /\ N \in {0, 1}
      BY <1>66, <1>r, <1>t, BitsTyped DEF MultiplierInv, MultiplierValues
    <2>6. Add(reg[4], 1) = reg[4] + 1 /\ reg[4] + 1 \in 1 .. 8 /\ (reg[4] + 1) - 1 = reg[4]
      BY <2>5 DEF Add, WordMod
    <2> QED  BY <1>66, <2>3, <2>4, <2>6 DEF MultiplierInv, MultiplierValues
  <1>67. CASE pc = 67
    <2>1. Sets(1, Add(reg[1], reg[1]))
      BY <1>67, <1>m, <1>r, MultiplierCode, RunsADD
    <2>2. Add(reg[1], reg[1]) \in Word
      BY <1>r, <1>t, AddTyped
    <2>3. Machine' /\ reg'[1] = Add(reg[1], reg[1])
          /\ reg'[0] = reg[0] /\ reg'[2] = reg[2] /\ reg'[3] = reg[3]
          /\ reg'[4] = reg[4] /\ reg'[5] = reg[5]
      BY <2>1, <2>2, <1>m, <1>r, SetsKeeps
    <2>4. pc' = 68 /\ cc' = FlagsOf(Add(reg[1], reg[1])) /\ operand' = operand
      BY <1>67, <2>1, <1>o DEF Sets
    <2>5. reg[4] \in 1 .. 8 /\ operand \in Word
      BY <1>67 DEF MultiplierInv, MultiplierValues
    <2>6. Add(reg[1], reg[1]) = Shifted(operand, reg[4])
      <3>1. reg[4] - 1 \in 0 .. 7 /\ (reg[4] - 1) + 1 = reg[4]
        BY <2>5
      <3>2. Add(Shifted(operand, reg[4] - 1), Shifted(operand, reg[4] - 1))
              = Shifted(operand, (reg[4] - 1) + 1)
        BY <2>5, <3>1, Shifts
      <3>3. reg[1] = Shifted(operand, reg[4] - 1)
        BY <1>67 DEF MultiplierInv, MultiplierValues
      <3> QED  BY <3>1, <3>2, <3>3
    <2> QED  BY <1>67, <2>3, <2>4, <2>6 DEF MultiplierInv, MultiplierValues
  <1>68. CASE pc = 68
    <2>1. Sets(7, Add(reg[4], 65528))
      <3>1. -8 \in -16 .. 15 /\ mem[68] = P!opADDi(7, 4, -8)
        BY <1>m, MultiplierCode
      <3>2. (-8) % WordMod = 65528
        BY Remainder16 DEF WordMod
      <3>3. Sets(7, Add(reg[4], (-8) % WordMod))
        BY <1>68, <1>m, <1>r, <3>1, RunsADDi
      <3> QED  BY <3>2, <3>3
    <2>2. Add(reg[4], 65528) \in Word
      BY <1>r, <1>t, AddTyped
    <2>3. Machine' /\ reg'[7] = Add(reg[4], 65528)
          /\ reg'[0] = reg[0] /\ reg'[1] = reg[1] /\ reg'[2] = reg[2]
          /\ reg'[3] = reg[3] /\ reg'[4] = reg[4] /\ reg'[5] = reg[5]
      BY <2>1, <2>2, <1>m, <1>r, SetsKeeps
    <2>4. pc' = 69 /\ cc' = FlagsOf(Add(reg[4], 65528)) /\ operand' = operand
      BY <1>68, <2>1, <1>o DEF Sets
    <2> QED  BY <1>68, <2>3, <2>4 DEF MultiplierInv, MultiplierValues
  <1>69. CASE pc = 69
    <2>1. pc' = (IF reg[4] < 8 THEN 58 ELSE 70) /\ UNCHANGED <<reg, cc, mem, hex>>
      <3>1. pc + 1 + (-12) \in 0 .. 255 /\ -12 \in -256 .. 255 /\ 4 \in 0 .. 7
        BY <1>69
      <3>2. mem[pc] = P!opBR(4, -12)
        BY <1>69, <1>m, MultiplierCode
      <3>3. (4 \div 2) % 2 = 0 /\ 4 % 2 = 0
        OBVIOUS
      <3>4. ("N" \in cc <=> reg[4] < 8) /\ 4 >= 4
        <4>1. cc = FlagsOf(Add(reg[4], 65528)) /\ reg[4] \in 1 .. 8
          BY <1>69 DEF MultiplierInv, MultiplierValues
        <4>2. Add(reg[4], 65528) = IF reg[4] < 8 THEN reg[4] + 65528 ELSE 0
          BY <4>1 DEF Add, WordMod
        <4> QED  BY <4>1, <4>2 DEF FlagsOf
      <3>5. pc' = (IF "N" \in cc THEN pc + 1 + (-12) ELSE pc + 1) /\ UNCHANGED <<reg, cc, mem, hex>>
        BY <3>1, <3>2, <3>3, <3>4, <1>69, RunsBR
      <3> QED  BY <3>4, <3>5, <1>69
    <2>2. Machine'
      BY <2>1, <1>m, SameKeeps
    <2>3. operand' = operand
      BY <1>69, <1>o
    <2>5. reg[4] \in 1 .. 8 /\ operand \in Word
      BY <1>69 DEF MultiplierInv, MultiplierValues
    <2>6. reg[4] < 8 => reg[4] \in 0 .. 7
      BY <2>5
    <2>7. ~(reg[4] < 8) => T = SignedByte(operand)
      BY <2>5, BitsSoFar
    <2> QED  BY <1>69, <2>1, <2>2, <2>3, <2>5, <2>6, <2>7 DEF MultiplierInv, MultiplierValues
  <1>70. CASE pc = 70
    <2>1. /\ hex' = reg[5] /\ mem' = [mem EXCEPT ![255] = reg[5]]
          /\ pc' = 71 /\ UNCHANGED <<reg, cc>>
      BY <1>70, <1>m, <1>r, MultiplierCode, RunsDisplay DEF MultiplierInv, MultiplierValues
    <2>2. Machine'
      <3>1. reg[5] \in Word
        BY <1>r, <1>t
      <3> QED  BY <2>1, <3>1, <1>m, DisplayKeeps
    <2>3. operand' = operand
      BY <1>70, <1>o
    <2> QED  BY <1>70, <2>1, <2>2, <2>3 DEF MultiplierInv, MultiplierValues
  <1>71. CASE pc = 71
    <2>1. pc' = 72 /\ UNCHANGED <<reg, cc, mem, hex>>
      BY <1>71, <1>m, MultiplierCode, RunsPSE
    <2>2. Machine'
      BY <2>1, <1>m, SameKeeps
    <2>3. operand' = operand
      BY <1>71, <1>o
    <2> QED  BY <1>71, <2>1, <2>2, <2>3 DEF MultiplierInv, MultiplierValues
  <1>72. CASE pc = 72
    <2>1. pc' = 52 /\ UNCHANGED <<reg, cc, mem, hex>>
      <3>1. pc + 1 + (-21) \in 0 .. 255 /\ -21 \in -256 .. 255 /\ 7 \in 0 .. 7
        BY <1>72
      <3>2. mem[pc] = P!opBR(7, -21)
        BY <1>72, <1>m, MultiplierCode
      <3>3. (7 \div 2) % 2 = 1 /\ 7 % 2 = 1
        OBVIOUS
      <3>4. 7 >= 4 /\ ("N" \in cc \/ "Z" \in cc \/ "P" \in cc)
        BY <1>m DEF Machine, OneFlag
      <3>5. pc' = pc + 1 + (-21) /\ UNCHANGED <<reg, cc, mem, hex>>
        BY <3>1, <3>2, <3>3, <3>4, <1>72, RunsBR
      <3> QED  BY <3>4, <3>5, <1>72
    <2>2. Machine'
      BY <2>1, <1>m, SameKeeps
    <2>3. operand' = operand
      BY <1>72, <1>o
    <2> QED  BY <1>72, <2>1, <2>2, <2>3 DEF MultiplierInv, MultiplierValues
  <1> QED
    BY <1>m, <1>49, <1>50, <1>51, <1>52, <1>53, <1>54, <1>55, <1>56, <1>57, <1>58, <1>59, <1>60,
       <1>61, <1>62, <1>63, <1>64, <1>65, <1>66, <1>67, <1>68, <1>69, <1>70, <1>71, <1>72

\* Buttons change nothing it speaks of: a pause waits after the instruction that
\* set the operand.
LEMMA MultiplierStays ==
  ASSUME MultiplierInv, UNCHANGED <<pc, reg, cc, mem, hex>>,
         operand' = operand \/ pc = 55
  PROVE  MultiplierInv'
  <1>1. Machine'
    BY SameKeeps DEF MultiplierInv
  <1> QED  BY <1>1 DEF MultiplierInv, MultiplierValues

\* Started at the multiplier, the program shows at every checkpoint the product of
\* the low byte of the first operand, signed, and the second.
THEOREM ProductCorrect == ProgramSpec /\ pc = P!MultiplierStart => []ProductIsDisplayed
  <1>1. ProgramInit /\ pc = P!MultiplierStart => MultiplierInv
    <2> SUFFICES ASSUME ProgramInit, pc = 49  PROVE MultiplierInv
      BY DEF P!MultiplierStart
    <2> QED  BY StartsClean DEF MultiplierInv, MultiplierValues
  <1>2. MultiplierInv /\ [ProgramStep]_pvars => MultiplierInv'
    <2>1. ASSUME MultiplierInv, Press \/ Release, History  PROVE MultiplierInv'
      <3>1. UNCHANGED <<pc, reg, cc, mem, hex>> /\ (operand' = operand \/ pc = 55)
        BY <2>1 DEF Press, Release, Button, History, P!MultiplierOperand1
      <3> QED  BY <2>1, <3>1, MultiplierStays
    <2>2. ASSUME MultiplierInv, UNCHANGED pvars  PROVE MultiplierInv'
      BY <2>2, MultiplierStays DEF pvars, isavars
    <2>3. ASSUME MultiplierInv, Step, History  PROVE MultiplierInv'
      BY <2>3, MultiplierStep DEF History
    <2> QED  BY <2>1, <2>2, <2>3 DEF ProgramStep
  <1>3. MultiplierInv => ProductIsDisplayed
    BY DEF MultiplierInv, MultiplierValues, ProductIsDisplayed, Times, P!MultiplierCheckpoint
  <1> QED  BY <1>1, <1>2, <1>3, PTL DEF ProgramSpec
----
(* Bubble sort with its menu, entry and display functions.  The program stays as *)
(* it is but for the pause that the display function counts up.                  *)

\* The words that may be data: a user who chooses 1 in the menu enters any.
DataWords == (IF 1 \in Switches THEN Switches ELSE {})
             \cup UNION {{i[a] : a \in P!SortData} : i \in Images}

\* The program's words: all but the pause that the display function counts up, which
\* stays a pause.
SortCode ==
  /\ mem \in [0 .. 255 -> Word]
  /\ \A a \in 90 .. 155 : a # 148 => mem[a] = P!memory_contents[a]
  /\ \E v \in Nat : v < 4096 /\ mem[148] = P!opPSE(v)

\* The data, and those that the last call of the sort function was given.
Data == \A a \in P!SortData : mem[a] \in DataWords
Given == {unsorted[a] : a \in P!SortData}

SortMachine ==
  /\ SortCode /\ OneFlag /\ reg \in [RegNum -> Word] /\ Data
  /\ Given \subseteq DataWords

\* v is above w when the program's subtraction says so; Orderly says that it says so of
\* the words of D without contradiction.
Difference(v, w) == Add(v, Add(Not(w), 1))
Above(v, w) == Difference(v, w) > 0 /\ Difference(v, w) < 32768
Orderly(D) ==
  /\ \A v, w \in D : ~Above(v, w) \/ ~Above(w, v)
  /\ \A u, v, w \in D : ~Above(u, v) /\ ~Above(v, w) => ~Above(u, w)

\* In the memory m, the words from address b on are in their place, and the word at c is
\* the largest so far.
InPlace(m, b) == \A x, y \in P!SortData : x < y /\ y >= b => ~Above(m[x], m[y])
LargestAt(m, c) == \A x \in P!SortData : x <= c => ~Above(m[x], m[c])
Swapped(m, a) == [m EXCEPT ![a - 1] = m[a], ![a] = m[a - 1]]

\* The data of m are words of D; they are the words of s, each as often; f holds the
\* first n of them.
Holds(m, D) == \A a \in P!SortData : m[a] \in D
Rearranged(m, s) == \A a \in P!SortData : Occurrences(m, s[a]) = Occurrences(s, s[a])
Shows(f, m, n) == f = [i \in 1 .. n |-> m[73 + i]]

Menu ==
  /\ pc > 90 => reg[0] = 0
  /\ pc = 92 => reg[7] = 92
  /\ pc = 93 => reg[6] = 76
  /\ pc > 93 => reg[6] = 74
  /\ pc \in 96 .. 97 => reg[1] \in Switches
  /\ pc = 96 => cc = FlagsOf(reg[1])
  /\ pc = 98 => Add(reg[1], 1) \in Switches /\ cc = FlagsOf(reg[1])
  /\ pc = 99 => 1 \in Switches
  /\ pc >= 95 /\ pc # 108 => shown = <<>>
  /\ pc = 104 => /\ Rearranged(mem, unsorted) /\ Holds(mem, Given)
                 /\ (Orderly(Given) => InPlace(mem, 74))
  /\ pc = 108 => Shows(shown, mem, 16)

\* R1 counts the words entered.
Entry ==
  /\ reg[0] = 0 /\ reg[6] = 74 /\ reg[7] = 100 /\ shown = <<>> /\ 1 \in Switches
  /\ pc \in 110 .. 115 => reg[1] \in 0 .. 15
  /\ pc \in 113 .. 114 => reg[2] \in Switches
  /\ pc = 114 => reg[5] = 74 + reg[1]
  /\ pc = 116 => reg[1] \in 1 .. 16
  /\ pc = 117 => reg[1] \in 1 .. 16 /\ cc = FlagsOf(Add(reg[1], 65520))

\* Bounds of a word or an address.
Within(x, lo, hi) == lo <= x /\ x <= hi

\* R1 counts the passes from -16; R2 is the offset of the upper word compared.
Settled == 65610 - reg[1]
At == 74 + reg[2]
Counters ==
  /\ reg[0] = 0 /\ reg[6] = 74 /\ reg[7] = 104 /\ shown = <<>>
  /\ Within(pc, 120, 134) => Within(reg[1], 65520, 65535)
  /\ Within(pc, 121, 131) => Within(reg[2], 1, 15) /\ (reg[2] = 1 \/ At < Settled)
  /\ Within(pc, 132, 133) => Within(reg[2], 2, 16) /\ (reg[2] = 2 \/ At <= Settled)
  /\ pc = 133 => cc = FlagsOf(Add(reg[1], reg[2]))
  /\ pc = 135 => (reg[1] = 0 \/ Within(reg[1], 65521, 65535)) /\ cc = FlagsOf(reg[1])

\* R3 is the address of the upper word, and R4 and R5 hold the two.
Compared ==
  /\ Within(pc, 122, 130) => reg[3] = At
  /\ Within(pc, 123, 129) => reg[4] = mem[At - 1]
  /\ pc = 124 => reg[5] = mem[At]
  /\ pc = 125 => reg[5] = Not(mem[At])
  /\ pc = 126 => reg[5] = Add(Not(mem[At]), 1)
  /\ pc = 127 => cc = FlagsOf(Difference(mem[At - 1], mem[At]))
  /\ Within(pc, 128, 129) => Above(mem[At - 1], mem[At])
  /\ pc = 129 => reg[5] = mem[At]
  /\ pc = 130 => reg[4] \in Given

\* No word is lost; between the two stores of an exchange R4 holds one.
Kept ==
  /\ Within(pc, 120, 136) => Holds(mem, Given)
  /\ Within(pc, 120, 136) /\ pc # 130 => Rearranged(mem, unsorted)
  /\ pc = 130 => Rearranged([mem EXCEPT ![At] = reg[4]], unsorted)

\* Each pass moves the largest word left to the top.
Order ==
  /\ Within(pc, 120, 133) /\ pc # 130 => InPlace(mem, Settled)
  /\ pc = 130 => /\ InPlace([mem EXCEPT ![At] = reg[4]], Settled)
                 /\ LargestAt([mem EXCEPT ![At] = reg[4]], At)
  /\ Within(pc, 121, 129) \/ Within(pc, 132, 133) => LargestAt(mem, At - 1)
  /\ pc = 131 => LargestAt(mem, At)
  /\ pc = 134 => InPlace(mem, Settled - 1)
  /\ pc = 135 => InPlace(mem, IF reg[1] = 0 THEN 74 ELSE Settled)
  /\ pc = 136 => InPlace(mem, 74)

\* R1 counts the words shown, and R3 is the next pause.
Pause(n) == P!opPSE(2050 + 16 * n)
Display ==
  /\ reg[0] = 0 /\ reg[6] = 74
  /\ ~Within(pc, 140, 141) => reg[7] = 108
  /\ Within(pc, 138, 144) => reg[1] = 0
  /\ Within(pc, 139, 141) => reg[4] = 108
  /\ pc = 140 => reg[7] = 140
  /\ Within(pc, 141, 154) => reg[5] = 140
  /\ pc = 144 => reg[2] = 8
  /\ Within(pc, 145, 154) => reg[2] = 16
  /\ Within(pc, 145, 151) => Within(reg[1], 0, 15)
  /\ Within(pc, 152, 153) => Within(reg[1], 1, 16)
  /\ Within(pc, 143, 149) \/ Within(pc, 152, 153) => reg[3] = Pause(reg[1])
  /\ Within(pc, 150, 151) => reg[3] = Pause(reg[1] + 1)
  /\ pc = 146 => reg[4] = 74 + reg[1]
  /\ pc = 147 => reg[4] = mem[74 + reg[1]]
  /\ pc = 148 => hex = mem[74 + reg[1]]
  /\ pc = 153 => cc = FlagsOf(Add(reg[1], 65520))
  /\ pc < 145 => shown = <<>>
  /\ Within(pc, 145, 148) \/ Within(pc, 152, 153) => Shows(shown, mem, reg[1])
  /\ Within(pc, 149, 151) => Shows(shown, mem, reg[1] + 1)
  /\ pc = 154 => Shows(shown, mem, 16)

\* Where the program stands and what its registers hold there.
InMenu == pc \in 90 .. 108 /\ Menu
InEntry == pc \in 109 .. 118 /\ Entry
InSort == pc \in 119 .. 136 /\ Counters /\ Compared /\ Kept /\ (Orderly(Given) => Order)
InDisplay == pc \in 137 .. 154 /\ Display
SortInv == SortMachine /\ (InMenu \/ InEntry \/ InSort \/ InDisplay)

\* What the sort does to the data.

\* There are finitely many data.
LEMMA DataFinite == IsFiniteSet(P!SortData)
  <1>1. 74 \in Int /\ 89 \in Int
    OBVIOUS
  <1> QED  BY <1>1, FS_Interval DEF P!SortData

\* Exchanging two words keeps how often each occurs.
LEMMA SwapOccurrences ==
  ASSUME NEW m \in [0 .. 255 -> Word], NEW a \in 75 .. 89, NEW v
  PROVE  Occurrences(Swapped(m, a), v) = Occurrences(m, v)
  <1> DEFINE n == Swapped(m, a)
             S == {x \in P!SortData : m[x] = v}
             T == {x \in P!SortData : n[x] = v}
             f == [x \in S |-> IF x = a THEN a - 1 ELSE IF x = a - 1 THEN a ELSE x]
  <1>1. a - 1 \in P!SortData /\ a \in P!SortData /\ a # a - 1
        /\ a - 1 \in 0 .. 255 /\ a \in 0 .. 255 /\ \A x \in P!SortData : x \in 0 .. 255
    BY DEF P!SortData
  <1>2. n[a] = m[a - 1] /\ n[a - 1] = m[a]
        /\ \A x \in P!SortData : x # a /\ x # a - 1 => n[x] = m[x]
    BY <1>1 DEF Swapped
  <1> HIDE DEF n
  <1>3. f \in [S -> T]
    BY <1>1, <1>2
  <1>4. \A x, y \in S : f[x] = f[y] => x = y
    BY <1>1
  <1>5. \A t \in T : \E x \in S : f[x] = t
    <2> SUFFICES ASSUME NEW t \in T  PROVE \E x \in S : f[x] = t
      OBVIOUS
    <2>1. CASE t = a
      <3>1. a - 1 \in S /\ f[a - 1] = a
        BY <2>1, <1>1, <1>2
      <3> QED  BY <2>1, <3>1
    <2>2. CASE t = a - 1
      <3>1. a \in S /\ f[a] = a - 1
        BY <2>2, <1>1, <1>2
      <3> QED  BY <2>2, <3>1
    <2>3. CASE t # a /\ t # a - 1
      <3>1. t \in S /\ f[t] = t
        BY <2>3, <1>1, <1>2
      <3> QED  BY <3>1
    <2> QED  BY <2>1, <2>2, <2>3
  <1>6. IsFiniteSet(S)
    BY DataFinite, FS_Subset
  <1>7. ExistsBijection(S, T)
    <2>1. f \in Injection(S, T)
      BY <1>3, <1>4 DEF Injection, IsInjective
    <2>2. f \in Surjection(S, T)
      BY <1>3, <1>5 DEF Surjection
    <2> QED  BY <2>1, <2>2 DEF ExistsBijection, Bijection
  <1>8. Cardinality(T) = Cardinality(S)
    BY <1>6, <1>7, FS_Bijection
  <1> QED  BY <1>8 DEF Occurrences, n

\* When the words compared are exchanged, or are in order already, the upper one is the
\* largest up to there, and no word leaves its place.
LEMMA ComparedWords ==
  ASSUME NEW m \in [0 .. 255 -> Word], NEW a \in 75 .. 89, NEW b, NEW D, Orderly(D), Holds(m, D),
         InPlace(m, b), LargestAt(m, a - 1), b \in Int
  PROVE  /\ Above(m[a - 1], m[a]) => InPlace(Swapped(m, a), b) /\ LargestAt(Swapped(m, a), a)
         /\ ~Above(m[a - 1], m[a]) => LargestAt(m, a)
  <1>1. a - 1 \in P!SortData /\ a \in P!SortData /\ a - 1 < a
        /\ a - 1 \in 0 .. 255 /\ a \in 0 .. 255
        /\ \A x \in P!SortData : x \in Int /\ x \in 0 .. 255
    BY DEF P!SortData
  <1>2. \A x \in P!SortData : ~Above(m[x], m[x])
    BY DEF Holds, Orderly
  <1>3. ASSUME Above(m[a - 1], m[a])
        PROVE  InPlace(Swapped(m, a), b) /\ LargestAt(Swapped(m, a), a)
    <2> DEFINE n == Swapped(m, a)
    <2>1. n[a] = m[a - 1] /\ n[a - 1] = m[a]
          /\ \A x \in P!SortData : x # a /\ x # a - 1 => n[x] = m[x]
      BY <1>1 DEF Swapped
    <2> HIDE DEF n
    <2>2. a < b
      BY <1>1, <1>3 DEF InPlace
    <2>3. InPlace(n, b)
      <3> SUFFICES ASSUME NEW x \in P!SortData, NEW y \in P!SortData, x < y, y >= b
                   PROVE  ~Above(n[x], n[y])
        BY DEF InPlace
      <3>1. n[y] = m[y] /\ a < y /\ a - 1 < y
        BY <1>1, <2>1, <2>2
      <3>2. CASE x = a
        BY <1>1, <2>1, <3>1, <3>2 DEF InPlace
      <3>3. CASE x = a - 1
        BY <1>1, <2>1, <3>1, <3>3 DEF InPlace
      <3>4. CASE x # a /\ x # a - 1
        BY <2>1, <3>1, <3>4 DEF InPlace
      <3> QED  BY <3>2, <3>3, <3>4
    <2>4. LargestAt(n, a)
      <3> SUFFICES ASSUME NEW x \in P!SortData, x <= a  PROVE ~Above(n[x], n[a])
        BY DEF LargestAt
      <3>1. CASE x = a
        BY <1>1, <1>2, <2>1, <3>1
      <3>2. CASE x = a - 1
        BY <1>1, <1>3, <2>1, <3>2 DEF Holds, Orderly
      <3>3. CASE x # a /\ x # a - 1
        BY <1>1, <2>1, <3>3 DEF LargestAt
      <3> QED  BY <3>1, <3>2, <3>3
    <2> QED  BY <2>3, <2>4 DEF n
  <1>4. ASSUME ~Above(m[a - 1], m[a])  PROVE LargestAt(m, a)
    <2> SUFFICES ASSUME NEW x \in P!SortData, x <= a  PROVE ~Above(m[x], m[a])
      BY DEF LargestAt
    <2>1. CASE x = a
      BY <1>2, <2>1
    <2>2. CASE x # a
      <3>1. ~Above(m[x], m[a - 1])
        BY <1>1, <2>2 DEF LargestAt
      <3> QED  BY <1>1, <1>4, <3>1 DEF Holds, Orderly
    <2> QED  BY <2>1, <2>2
  <1> QED  BY <1>3, <1>4

\* A pass puts one more word in its place; the last one compares what is in place.
LEMMA PassEnds ==
  ASSUME NEW m, NEW b \in 75 .. 90, NEW c \in 76 .. 90, InPlace(m, b), LargestAt(m, c - 1),
         c = b \/ b = 75
  PROVE  InPlace(m, b - 1)
  <1> SUFFICES ASSUME NEW x \in P!SortData, NEW y \in P!SortData, x < y, y >= b - 1
               PROVE  ~Above(m[x], m[y])
    BY DEF InPlace
  <1>1. x \in 74 .. 89 /\ y \in 74 .. 89
    BY DEF P!SortData
  <1>2. CASE y >= b
    BY <1>2 DEF InPlace
  <1>3. CASE y = b - 1
    <2>1. b # 75 /\ y = c - 1
      BY <1>1, <1>3
    <2> QED  BY <1>1, <2>1 DEF LargestAt
  <1> QED  BY <1>1, <1>2, <1>3

\* Before the first pass nothing is in place, and one word is the largest of one.
LEMMA PassStarts ==
  ASSUME NEW m, NEW D, Holds(m, D)
  PROVE  InPlace(m, 90) /\ (Orderly(D) => LargestAt(m, 74))
  <1>1. \A x \in P!SortData : x \in 74 .. 89
    BY DEF P!SortData
  <1>2. InPlace(m, 90)
    BY <1>1 DEF InPlace
  <1>3. ASSUME Orderly(D)  PROVE LargestAt(m, 74)
    <2> SUFFICES ASSUME NEW x \in P!SortData, x <= 74  PROVE ~Above(m[x], m[74])
      BY DEF LargestAt
    <2>1. x = 74
      BY <1>1
    <2> QED  BY <1>3, <2>1 DEF Holds, Orderly
  <1> QED  BY <1>2, <1>3

\* Subtraction modulo 2^16, as complement and sum.
LEMMA Subtraction ==
  ASSUME NEW w \in Int, w >= 0, w < 65536, NEW v \in Int, v >= 0, v < 65536
  PROVE  (v + ((65535 - w + 1) % 65536)) % 65536 = IF v >= w THEN v - w ELSE v - w + 65536
  <1>1. (65535 - w + 1) % 65536 = IF w = 0 THEN 0 ELSE 65536 - w
    OBVIOUS
  <1>2. CASE w = 0
    BY <1>1, <1>2
  <1>3. CASE w > 0 /\ v >= w
    BY <1>1, <1>3
  <1>4. CASE v < w
    BY <1>1, <1>4
  <1> QED  BY <1>1, <1>2, <1>3, <1>4

\* The program's comparison orders words less than 2^15 apart.
LEMMA NearWords ==
  ASSUME NEW v \in Word, NEW w \in Word
  PROVE  /\ v - w < 32768 /\ w - v < 32768 => (Above(v, w) <=> v > w)
         /\ Signed(v) - Signed(w) < 32768 /\ Signed(w) - Signed(v) < 32768
              => (Above(v, w) <=> Signed(v) > Signed(w))
  <1>1. v \in Int /\ v >= 0 /\ v < 65536
    BY WordIs
  <1>2. w \in Int /\ w >= 0 /\ w < 65536
    BY WordIs
  <1> DEFINE d == Difference(v, w)
  <1>3. d = IF v >= w THEN v - w ELSE v - w + 65536
    BY <1>1, <1>2, Subtraction DEF Difference, Add, Not, WordMod
  <1>4. Above(v, w) <=> (d > 0 /\ d < 32768)
    BY DEF Above
  <1>5. /\ Signed(v) = IF v >= 32768 THEN v - 65536 ELSE v
        /\ Signed(w) = IF w >= 32768 THEN w - 65536 ELSE w
    BY DEF Signed, WordMod
  <1> HIDE DEF d
  <1> QED  BY <1>1, <1>2, <1>3, <1>4, <1>5

\* The words shown so far, and one more.
LEMMA ShowsOneMore ==
  ASSUME NEW f, NEW m, NEW n \in 0 .. 15, Shows(f, m, n)
  PROVE  Shows(Append(f, m[74 + n]), m, n + 1)
  <1>1. f = [i \in 1 .. n |-> m[73 + i]] /\ Len(f) = n
    BY DEF Shows
  <1>2. Append(f, m[74 + n]) = [i \in 1 .. n + 1 |-> IF i = n + 1 THEN m[74 + n] ELSE f[i]]
    BY <1>1 DEF Append
  <1>3. \A i \in 1 .. n + 1 : (IF i = n + 1 THEN m[74 + n] ELSE f[i]) = m[73 + i]
    BY <1>1
  <1> QED  BY <1>2, <1>3 DEF Shows

----
\* The menu, word by word.
LEMMA MenuCode ==
  ASSUME SortCode
  PROVE  /\ mem[90] = P!opCLR(0)
         /\ mem[91] = P!opJSR(0)
         /\ mem[92] = P!opADDi(6, 7, -16)
         /\ mem[93] = P!opADDi(6, 6, -2)
         /\ mem[94] = P!opPSE(1023)
         /\ mem[95] = P!opLDR(1, 0, -1)
         /\ mem[96] = P!opBR(2, -3)
         /\ mem[97] = P!opADDi(1, 1, -1)
         /\ mem[98] = P!opBR(5, 2)
         /\ mem[99] = P!opJSR(9)
         /\ mem[100] = P!opBR(7, -7)
         /\ mem[101] = P!opADDi(1, 1, -1)
         /\ mem[102] = P!opBR(5, 2)
         /\ mem[103] = P!opJSR(15)
         /\ mem[104] = P!opBR(7, -11)
         /\ mem[105] = P!opADDi(1, 1, -1)
         /\ mem[106] = P!opBR(5, -13)
         /\ mem[107] = P!opJSR(29)
         /\ mem[108] = P!opBR(7, -15)
  BY DEF SortCode, P!memory_contents, P!Listing, P!inSW, P!outHEX, P!nzp, P!np, P!nz, P!n, P!z,
         P!opINC, P!opDEC, P!R0, P!R1, P!R2, P!R3, P!R4, P!R5, P!R6, P!R7

\* The entry function.
LEMMA EntryCode ==
  ASSUME SortCode
  PROVE  /\ mem[109] = P!opCLR(1)
         /\ mem[110] = P!opSTR(1, 0, -1)
         /\ mem[111] = P!opPSE(3073)
         /\ mem[112] = P!opLDR(2, 0, -1)
         /\ mem[113] = P!opADD(5, 6, 1)
         /\ mem[114] = P!opSTR(2, 5, 0)
         /\ mem[115] = P!opADDi(1, 1, 1)
         /\ mem[116] = P!opADDi(3, 1, -16)
         /\ mem[117] = P!opBR(4, -8)
         /\ mem[118] = P!opRET
  BY DEF SortCode, P!memory_contents, P!Listing, P!inSW, P!outHEX, P!nzp, P!np, P!nz, P!n, P!z,
         P!opINC, P!opDEC, P!R0, P!R1, P!R2, P!R3, P!R4, P!R5, P!R6, P!R7

\* The sort function.
LEMMA SortFunctionCode ==
  ASSUME SortCode
  PROVE  /\ mem[119] = P!opADDi(1, 0, -16)
         /\ mem[120] = P!opADDi(2, 0, 1)
         /\ mem[121] = P!opADD(3, 6, 2)
         /\ mem[122] = P!opLDR(4, 3, -1)
         /\ mem[123] = P!opLDR(5, 3, 0)
         /\ mem[124] = P!opNOT(5, 5)
         /\ mem[125] = P!opADDi(5, 5, 1)
         /\ mem[126] = P!opADD(5, 4, 5)
         /\ mem[127] = P!opBR(6, 3)
         /\ mem[128] = P!opLDR(5, 3, 0)
         /\ mem[129] = P!opSTR(5, 3, -1)
         /\ mem[130] = P!opSTR(4, 3, 0)
         /\ mem[131] = P!opADDi(2, 2, 1)
         /\ mem[132] = P!opADD(3, 1, 2)
         /\ mem[133] = P!opBR(4, -13)
         /\ mem[134] = P!opADDi(1, 1, 1)
         /\ mem[135] = P!opBR(4, -16)
         /\ mem[136] = P!opRET
  BY DEF SortCode, P!memory_contents, P!Listing, P!inSW, P!outHEX, P!nzp, P!np, P!nz, P!n, P!z,
         P!opINC, P!opDEC, P!R0, P!R1, P!R2, P!R3, P!R4, P!R5, P!R6, P!R7

\* The display function, with the pause it rewrites and the one it starts from.
LEMMA DisplayCode ==
  ASSUME SortCode
  PROVE  /\ mem[137] = P!opCLR(1)
         /\ mem[138] = P!opADD(4, 7, 0)
         /\ mem[139] = P!opJSR(0)
         /\ mem[140] = P!opADD(5, 7, 0)
         /\ mem[141] = P!opADD(7, 4, 0)
         /\ mem[142] = P!opLDR(3, 5, 15)
         /\ mem[143] = P!opADDi(2, 0, 8)
         /\ mem[144] = P!opADD(2, 2, 2)
         /\ mem[145] = P!opADD(4, 6, 1)
         /\ mem[146] = P!opLDR(4, 4, 0)
         /\ mem[147] = P!opSTR(4, 0, -1)
         /\ mem[149] = P!opADD(3, 3, 2)
         /\ mem[150] = P!opSTR(3, 5, 8)
         /\ mem[151] = P!opADDi(1, 1, 1)
         /\ mem[152] = P!opADDi(4, 1, -16)
         /\ mem[153] = P!opBR(4, -9)
         /\ mem[154] = P!opRET
         /\ \E v \in Nat : v < 4096 /\ mem[148] = P!opPSE(v)
         /\ mem[155] = P!opPSE(2050)
  BY DEF SortCode, P!memory_contents, P!Listing, P!inSW, P!outHEX, P!nzp, P!np, P!nz, P!n, P!z,
         P!opINC, P!opDEC, P!R0, P!R1, P!R2, P!R3, P!R4, P!R5, P!R6, P!R7

\* Where the program stands.
LEMMA SortAddresses ==
  ASSUME NEW p \in 90 .. 154
  PROVE  p \in 0 .. 254 /\ p + 1 \in Word
  <1>1. p \in 0 .. 254
    OBVIOUS
  <1>2. p + 1 \in Int /\ p + 1 >= 0 /\ p + 1 < 65536
    OBVIOUS
  <1>3. p + 1 \in Word
    BY <1>2, IsWord
  <1> QED
    BY <1>1, <1>3

\* The immediate operands as words.
LEMMA Immediates ==
  ASSUME NEW i \in -16 .. 15
  PROVE  i % WordMod = (IF i < 0 THEN i + 65536 ELSE i) /\ i % WordMod \in Word
  <1>1. i % 65536 = IF i < 0 THEN i + 65536 ELSE i
    OBVIOUS
  <1>2. i % 65536 \in Int /\ i % 65536 >= 0 /\ i % 65536 < 65536
    BY <1>1
  <1> QED  BY <1>1, <1>2, IsWord, WordModIs

\* A rearrangement, before the first exchange and after each.
LEMMA StartsRearranged ==
  ASSUME NEW m
  PROVE  Rearranged(m, DataOf(m))
  <1>1. \A v : {a \in P!SortData : DataOf(m)[a] = v} = {a \in P!SortData : m[a] = v}
    BY DEF DataOf
  <1>2. \A v : Occurrences(DataOf(m), v) = Occurrences(m, v)
    BY <1>1 DEF Occurrences
  <1> QED  BY <1>2 DEF Rearranged

\* An exchange is a rearrangement.
LEMMA SwapRearranged ==
  ASSUME NEW m \in [0 .. 255 -> Word], NEW a \in 75 .. 89, NEW s, Rearranged(m, s)
  PROVE  Rearranged(Swapped(m, a), s)
  BY SwapOccurrences DEF Rearranged

\* One is a word, and so is a difference.
LEMMA OneIsWord == 1 \in Word
  BY IsWord

\* The difference that the sort takes is a word.
LEMMA DifferenceTyped ==
  ASSUME NEW v \in Word, NEW w \in Word
  PROVE  Difference(v, w) \in Word
  BY OneIsWord, AddTyped, NotTyped DEF Difference

\* The addresses of the words compared.
LEMMA Upper ==
  ASSUME NEW a \in Int, Within(a, 75, 89)
  PROVE  /\ a \in 75 .. 89 /\ a \in 0 .. 255 /\ a - 1 \in 0 .. 255
         /\ a \in P!SortData /\ a - 1 \in P!SortData
  BY DEF Within, P!SortData

\* What has been shown depends on the data only.
LEMMA ShowsNone ==
  ASSUME NEW m
  PROVE  Shows(<<>>, m, 0)
  <1>1. 1 .. 0 = {}
    OBVIOUS
  <1> QED  BY <1>1 DEF Shows

\* The words shown stay the data while the data stay.
LEMMA ShowsSame ==
  ASSUME NEW f, NEW m, NEW k, NEW n \in 0 .. 16, Shows(f, m, n),
         \A a \in P!SortData : k[a] = m[a]
  PROVE  Shows(f, k, n)
  <1>1. \A i \in 1 .. n : k[73 + i] = m[73 + i]
    <2>1. \A i \in 1 .. n : 73 + i \in P!SortData
      BY DEF P!SortData
    <2> QED  BY <2>1
  <1>2. [i \in 1 .. n |-> k[73 + i]] = [i \in 1 .. n |-> m[73 + i]]
    BY <1>1
  <1> QED  BY <1>2 DEF Shows

\* The next pause: the lights count in the upper bits of the twelve.
LEMMA PauseCounts ==
  ASSUME NEW n \in Nat, n < 16
  PROVE  Add(Pause(n), 16) = Pause(n + 1)
  <1>1. Pause(n) = 55298 + 16 * n /\ Pause(n + 1) = 55314 + 16 * n
    BY DEF Pause, P!opPSE, P!Instr
  <1> QED  BY <1>1 DEF Add, WordMod

\* The data that a sort starts from are data.
LEMMA GivenStays ==
  ASSUME SortMachine, unsorted' = unsorted \/ unsorted' = DataOf(mem)
  PROVE  Given' \subseteq DataWords
  <1>1. CASE unsorted' = unsorted
    BY <1>1 DEF SortMachine, Given
  <1>2. CASE unsorted' = DataOf(mem)
    <2>1. Given' = {mem[a] : a \in P!SortData}
      BY <1>2 DEF Given, DataOf
    <2> QED  BY <2>1 DEF SortMachine, Data
  <1> QED  BY <1>1, <1>2

\* Data are words.
LEMMA DataTyped == DataWords \subseteq Word
  <1>1. \A i \in Images : \A a \in P!SortData : i[a] \in Word
    <2>1. \A a \in P!SortData : a \in 0 .. 255
      BY DEF P!SortData
    <2> QED  BY <2>1, ImagesAssumption
  <1>2. (IF 1 \in Switches THEN Switches ELSE {}) \subseteq Word
    BY SwitchesAssumption
  <1> QED  BY <1>1, <1>2 DEF DataWords

\* An instruction that sets a register leaves all else, the data and their history too.
Moves(d, v) ==
  /\ SortMachine' /\ pc' = pc + 1 /\ cc' = FlagsOf(v)
  /\ reg'[d] = v /\ \A r \in RegNum : r # d => reg'[r] = reg[r]
  /\ mem' = mem /\ hex' = hex /\ shown' = shown
  /\ unsorted' = IF pc = 119 THEN DataOf(mem) ELSE unsorted

\* The part of the invariant that no register is in is kept.
LEMMA MovesOn ==
  ASSUME SortMachine, History, NEW d \in RegNum, NEW v \in Word, Sets(d, v), pc # 94, pc # 148
  PROVE  Moves(d, v)
  <1>1. reg' = [reg EXCEPT ![d] = v] /\ cc' = FlagsOf(v) /\ mem' = mem
    BY DEF Sets
  <1>2. reg' \in [RegNum -> Word] /\ reg'[d] = v /\ \A r \in RegNum : r # d => reg'[r] = reg[r]
    BY <1>1 DEF SortMachine
  <1>3. SortCode' /\ Data'
    BY <1>1 DEF SortMachine, SortCode, Data
  <1>5. OneFlag'
    BY <1>1 DEF OneFlag, FlagsOf
  <1>4. shown' = shown /\ unsorted' = IF pc = 119 THEN DataOf(mem) ELSE unsorted
    BY DEF History, P!DisplayCheckpoint, P!SortMenu, P!SortFunction
  <1>6. Given' \subseteq DataWords
    BY <1>4, GivenStays
  <1> QED  BY <1>2, <1>3, <1>4, <1>5, <1>6 DEF SortMachine, Moves, Sets

\* The registers hold words.
LEMMA Registers ==
  ASSUME SortMachine, NEW r \in RegNum
  PROVE  reg[r] \in Word /\ reg[r] \in Int /\ reg[r] >= 0 /\ reg[r] < 65536
  <1>1. reg[r] \in Word
    BY DEF SortMachine
  <1> QED  BY <1>1, WordIs

\* The instructions that the program sets registers with.
LEMMA MovesADDi ==
  ASSUME SortMachine, Step, History, pc \in 90 .. 154, pc # 94, pc # 148,
         NEW d \in RegNum, NEW s \in RegNum, NEW i \in -16 .. 15, mem[pc] = P!opADDi(d, s, i)
  PROVE  Moves(d, Add(reg[s], IF i < 0 THEN i + 65536 ELSE i))
  <1>1. i % WordMod = (IF i < 0 THEN i + 65536 ELSE i) /\ i % WordMod \in Word
    BY Immediates
  <1>2. Sets(d, Add(reg[s], i % WordMod))
    <2>1. pc \in 0 .. 254
      BY SortAddresses
    <2> QED  BY <2>1, RunsADDi
  <1>3. Add(reg[s], i % WordMod) \in Word
    BY <1>1, Registers, AddTyped
  <1>4. Moves(d, Add(reg[s], i % WordMod))
    BY <1>2, <1>3, MovesOn
  <1> QED  BY <1>1, <1>4

\* ADD of two registers.
LEMMA MovesADD ==
  ASSUME SortMachine, Step, History, pc \in 90 .. 154, pc # 94, pc # 148,
         NEW d \in RegNum, NEW s \in RegNum, NEW r \in RegNum, mem[pc] = P!opADD(d, s, r)
  PROVE  Moves(d, Add(reg[s], reg[r]))
  <1>1. pc \in 0 .. 254
    BY SortAddresses
  <1>2. Sets(d, Add(reg[s], reg[r]))
    BY <1>1, RunsADD
  <1>3. Add(reg[s], reg[r]) \in Word
    BY Registers, AddTyped
  <1> QED  BY <1>2, <1>3, MovesOn

\* NOT.
LEMMA MovesNOT ==
  ASSUME SortMachine, Step, History, pc \in 90 .. 154, pc # 94, pc # 148,
         NEW d \in RegNum, NEW s \in RegNum, mem[pc] = P!opNOT(d, s)
  PROVE  Moves(d, Not(reg[s]))
  <1>1. pc \in 0 .. 254
    BY SortAddresses
  <1>2. Sets(d, Not(reg[s]))
    BY <1>1, RunsNOT
  <1>3. Not(reg[s]) \in Word
    BY Registers, NotTyped
  <1> QED  BY <1>2, <1>3, MovesOn

\* The clearing of a register.
LEMMA MovesCLR ==
  ASSUME SortMachine, Step, History, pc \in 90 .. 154, pc # 94, pc # 148,
         NEW d \in RegNum, mem[pc] = P!opCLR(d)
  PROVE  Moves(d, 0)
  <1>1. pc \in 0 .. 254
    BY SortAddresses
  <1>2. Sets(d, 0)
    BY <1>1, RunsCLR
  <1>3. 0 \in Word
    BY IsWord
  <1> QED  BY <1>2, <1>3, MovesOn

\* A load of a word in memory.
LEMMA MovesLoad ==
  ASSUME SortMachine, Step, History, pc \in 90 .. 154, pc # 94, pc # 148,
         NEW d \in RegNum, NEW b \in RegNum, NEW f \in Int, f \in -32 .. 31, mem[pc] = P!opLDR(d, b, f),
         NEW at \in Nat, at < 256, at = reg[b] + f
  PROVE  Moves(d, mem[at])
  <1>1. pc \in 0 .. 254 /\ f \in -32 .. 31 /\ at \in 0 .. 255
    OBVIOUS
  <1>2. Add(reg[b], f % WordMod) = at
    <2>1. reg[b] \in Int
      BY Registers
    <2>2. f % 65536 = IF f < 0 THEN f + 65536 ELSE f
      OBVIOUS
    <2>3. (reg[b] + (f % 65536)) % 65536 = at
      BY <2>1, <2>2
    <2> QED  BY <2>3 DEF Add, WordMod
  <1>3. Sets(d, mem[at])
    BY <1>1, <1>2, RunsLoad
  <1>4. mem[at] \in Word
    BY <1>1 DEF SortMachine, SortCode
  <1> QED  BY <1>3, <1>4, MovesOn

\* A read of the switches.
LEMMA MovesSwitches ==
  ASSUME SortMachine, Step, History, pc \in 90 .. 154, pc # 94, pc # 148,
         NEW d \in RegNum, mem[pc] = P!opLDR(d, 0, -1), reg[0] = 0
  PROVE  \E v \in Switches : Moves(d, v)
  <1>1. pc \in 0 .. 254 /\ -1 \in -32 .. 31 /\ 0 \in RegNum
    BY DEF RegNum
  <1>2. (-1) % WordMod = 65535
    <2>1. \A i \in -32 .. 31 : i % 65536 = IF i < 0 THEN i + 65536 ELSE i
      OBVIOUS
    <2> QED  BY <1>1, <2>1 DEF WordMod
  <1>3. Add(reg[0], 65535) = IOAddr
    BY DEF Add, WordMod, IOAddr
  <1>4. \E v \in WordsAt(Add(reg[0], (-1) % WordMod)) : Sets(d, v)
    BY <1>1, RunsLDR
  <1>5. PICK v \in Switches : Sets(d, v)
    BY <1>2, <1>3, <1>4 DEF WordsAt
  <1>6. v \in Word
    BY SwitchesAssumption
  <1> QED  BY <1>5, <1>6, MovesOn

\* A branch, a pause but the display's, or a call writes no memory.
Stays ==
  /\ SortMachine' /\ mem' = mem /\ hex' = hex
  /\ shown' = IF pc = 94 THEN <<>> ELSE shown
  /\ unsorted' = unsorted

\* It keeps the machine.
LEMMA StaysOn ==
  ASSUME SortMachine, History, pc # 119, pc # 148, UNCHANGED <<cc, mem, hex>>,
         reg' \in [RegNum -> Word]
  PROVE  Stays
  <1>1. SortCode' /\ Data'
    BY DEF SortMachine, SortCode, Data
  <1>2. OneFlag'
    BY DEF SortMachine, OneFlag
  <1>3. shown' = (IF pc = 94 THEN <<>> ELSE shown) /\ unsorted' = unsorted
    BY DEF History, P!DisplayCheckpoint, P!SortMenu, P!SortFunction
  <1>4. Given' \subseteq DataWords
    BY <1>3, GivenStays
  <1> QED  BY <1>1, <1>2, <1>3, <1>4 DEF SortMachine, Stays

\* A branch.
LEMMA StaysBR ==
  ASSUME SortMachine, Step, History, pc \in 90 .. 154, pc # 119, pc # 148,
         NEW c \in {1, 2, 4, 5, 6, 7}, NEW off \in Int, off \in -256 .. 255, mem[pc] = P!opBR(c, off),
         pc + 1 + off \in 0 .. 255
  PROVE  Stays /\ reg' = reg /\ pc' = IF Taken(c) THEN pc + 1 + off ELSE pc + 1
  <1>1. pc \in 0 .. 254
    BY SortAddresses
  <1>2. /\ pc' = IF Taken(c) THEN pc + 1 + off ELSE pc + 1
        /\ UNCHANGED <<reg, cc, mem, hex>>
    BY <1>1, Branches
  <1>3. reg' \in [RegNum -> Word]
    BY <1>2 DEF SortMachine
  <1> QED  BY <1>2, <1>3, StaysOn

\* A branch on nzp.
LEMMA StaysJump ==
  ASSUME SortMachine, Step, History, pc \in 90 .. 154, pc # 119, pc # 148,
         NEW off \in Int, off \in -256 .. 255, mem[pc] = P!opBR(7, off), pc + 1 + off \in 0 .. 255
  PROVE  Stays /\ reg' = reg /\ pc' = pc + 1 + off
  <1>1. Stays /\ reg' = reg /\ pc' = IF Taken(7) THEN pc + 1 + off ELSE pc + 1
    BY StaysBR
  <1>2. Taken(7)
    BY DEF Taken, SortMachine, OneFlag
  <1> QED  BY <1>1, <1>2

\* A call.
LEMMA StaysJSR ==
  ASSUME SortMachine, Step, History, pc \in 90 .. 154, pc # 119, pc # 148,
         NEW off \in Nat, off < 1024, mem[pc] = P!opJSR(off), pc + 1 + off \in 0 .. 255
  PROVE  /\ Stays /\ pc' = pc + 1 + off
         /\ reg'[7] = pc + 1 /\ \A r \in RegNum : r # 7 => reg'[r] = reg[r]
  <1>1. pc \in 0 .. 254 /\ pc + 1 \in Word
    BY SortAddresses
  <1>2. /\ reg' = [reg EXCEPT ![7] = pc + 1] /\ pc' = pc + 1 + off
        /\ UNCHANGED <<cc, mem, hex>>
    BY <1>1, RunsJSR
  <1>3. 7 \in RegNum
    BY DEF RegNum
  <1>4. reg' \in [RegNum -> Word] /\ reg'[7] = pc + 1 /\ \A r \in RegNum : r # 7 => reg'[r] = reg[r]
    BY <1>1, <1>2, <1>3 DEF SortMachine
  <1> QED  BY <1>2, <1>4, StaysOn

\* A return.
LEMMA StaysRET ==
  ASSUME SortMachine, Step, History, pc \in 90 .. 154, pc # 119, pc # 148, mem[pc] = P!opRET
  PROVE  Stays /\ reg' = reg /\ pc' = reg[7]
  <1>1. pc \in 0 .. 254
    BY SortAddresses
  <1>2. pc' = reg[7] /\ UNCHANGED <<reg, cc, mem, hex>>
    BY <1>1, RunsRET
  <1>3. reg' \in [RegNum -> Word]
    BY <1>2 DEF SortMachine
  <1> QED  BY <1>2, <1>3, StaysOn

\* A pause.
LEMMA StaysPSE ==
  ASSUME SortMachine, Step, History, pc \in 90 .. 154, pc # 119, pc # 148,
         NEW v \in Nat, v < 4096, mem[pc] = P!opPSE(v)
  PROVE  Stays /\ reg' = reg /\ pc' = pc + 1
  <1>1. pc \in 0 .. 254
    BY SortAddresses
  <1>2. pc' = pc + 1 /\ UNCHANGED <<reg, cc, mem, hex>>
    BY <1>1, RunsPSE
  <1>3. reg' \in [RegNum -> Word]
    BY <1>2 DEF SortMachine
  <1> QED  BY <1>2, <1>3, StaysOn

\* A store: of data into the data, of anything into the display's cell.
Writes(at, v) ==
  /\ SortMachine' /\ pc' = pc + 1 /\ reg' = reg /\ mem' = [mem EXCEPT ![at] = v]
  /\ \A a \in P!SortData : mem'[a] = IF a = at THEN v ELSE mem[a]
  /\ shown' = shown /\ unsorted' = unsorted

\* The stores that keep the program: a datum, the pause, the display's cell.
Writable(at, v) ==
  \/ at \in P!SortData /\ v \in DataWords
  \/ at = 148 /\ \E n \in Nat : n < 4096 /\ v = P!opPSE(n)
  \/ at = 255

\* It keeps the machine.
LEMMA WritesOn ==
  ASSUME SortMachine, History, NEW at \in Nat, at < 256, NEW v \in Word, pc # 94, pc # 119, pc # 148,
         Writable(at, v),
         mem' = [mem EXCEPT ![at] = v], pc' = pc + 1, UNCHANGED <<reg, cc>>
  PROVE  Writes(at, v)
  <1>1. /\ mem' \in [0 .. 255 -> Word]
        /\ \A a \in 0 .. 255 : mem'[a] = IF a = at THEN v ELSE mem[a]
    <2>1. at \in 0 .. 255
      OBVIOUS
    <2> QED  BY <2>1 DEF SortMachine, SortCode
  <1>2. /\ \A a \in P!SortData : a \in 0 .. 255
        /\ \A a \in 90 .. 155 : a \in 0 .. 255 /\ a \notin P!SortData /\ a # 255
    BY DEF P!SortData
  <1>3. 148 \in 90 .. 155 /\ (at = 148 => \E n \in Nat : n < 4096 /\ v = P!opPSE(n))
        /\ (at \in P!SortData => v \in DataWords)
    <2>1. 148 \in 90 .. 155
      OBVIOUS
    <2>2. 148 \notin P!SortData /\ 255 \notin P!SortData /\ 148 # 255
      BY DEF P!SortData
    <2> QED  BY <2>1, <2>2 DEF Writable
  <1>4. SortCode'
    <2>1. \A a \in 90 .. 155 : a # 148 => mem'[a] = P!memory_contents[a]
      <3>1. at \in P!SortData \/ at = 148 \/ at = 255
        BY DEF Writable
      <3> QED  BY <1>1, <1>2, <3>1 DEF SortMachine, SortCode
    <2>2. \E n \in Nat : n < 4096 /\ mem'[148] = P!opPSE(n)
      BY <1>1, <1>2, <1>3 DEF SortMachine, SortCode
    <2> QED  BY <1>1, <2>1, <2>2 DEF SortCode
  <1>5. Data'
    BY <1>1, <1>2, <1>3 DEF SortMachine, Data
  <1>6. OneFlag' /\ reg' \in [RegNum -> Word]
    BY DEF SortMachine, OneFlag
  <1>7. shown' = shown /\ unsorted' = unsorted
    BY DEF History, P!DisplayCheckpoint, P!SortMenu, P!SortFunction
  <1>8. Given' \subseteq DataWords
    BY <1>7, GivenStays
  <1> QED  BY <1>1, <1>2, <1>4, <1>5, <1>6, <1>7, <1>8 DEF SortMachine, Writes

\* A store in the memory.
LEMMA WritesSTR ==
  ASSUME SortMachine, Step, History, pc \in 90 .. 154, pc # 94, pc # 119, pc # 148,
         NEW r \in RegNum, NEW b \in RegNum, NEW f \in Int, f \in -32 .. 31, mem[pc] = P!opSTR(r, b, f),
         NEW at \in Nat, at < 256, at = reg[b] + f,
         Writable(at, reg[r])
  PROVE  Writes(at, reg[r])
  <1>1. pc \in 0 .. 254 /\ reg[r] \in Word
    BY Registers
  <1>2. Add(reg[b], f % WordMod) = at
    <2>1. reg[b] \in Int
      BY Registers
    <2>2. f % 65536 = IF f < 0 THEN f + 65536 ELSE f
      OBVIOUS
    <2>3. (reg[b] + (f % 65536)) % 65536 = at
      BY <2>1, <2>2
    <2> QED  BY <2>3 DEF Add, WordMod
  <1>3. mem' = [mem EXCEPT ![at] = reg[r]] /\ pc' = pc + 1 /\ UNCHANGED <<reg, cc>>
    BY <1>1, <1>2, RunsStore
  <1> QED  BY <1>1, <1>3, WritesOn

\* A store that the display shows.
LEMMA WritesDisplay ==
  ASSUME SortMachine, Step, History, pc \in 90 .. 154, pc # 94, pc # 119, pc # 148,
         NEW r \in RegNum, mem[pc] = P!opSTR(r, 0, -1), reg[0] = 0
  PROVE  Writes(255, reg[r]) /\ hex' = reg[r] /\ \A a \in P!SortData : mem'[a] = mem[a]
  <1>1. pc \in 0 .. 254 /\ reg[r] \in Word
    BY Registers, SortAddresses
  <1>2. hex' = reg[r] /\ mem' = [mem EXCEPT ![255] = reg[r]] /\ pc' = pc + 1 /\ UNCHANGED <<reg, cc>>
    BY <1>1, RunsDisplay
  <1>3. Writes(255, reg[r])
    <2>1. PICK at \in Nat : at = 255
      OBVIOUS
    <2>2. at < 256 /\ Writable(at, reg[r])
      BY <2>1 DEF Writable
    <2>3. mem' = [mem EXCEPT ![at] = reg[r]]
      BY <1>2, <2>1
    <2>4. Writes(at, reg[r])
      BY <1>1, <1>2, <2>2, <2>3, WritesOn
    <2> QED  BY <2>1, <2>4
  <1>4. \A a \in P!SortData : a # 255
    BY DEF P!SortData
  <1> QED  BY <1>2, <1>3, <1>4 DEF Writes

\* What each word of the menu leaves, the next one expects.
LEMMA MenuStep ==
  ASSUME SortMachine, InMenu, Step, History
  PROVE  SortInv'
  <1>m. /\ SortMachine /\ SortCode /\ Menu /\ pc \in 90 .. 154 /\ pc >= 90 /\ pc <= 108
    BY DEF SortMachine, InMenu
  <1>r. {0, 1, 2, 3, 4, 5, 6, 7} \subseteq RegNum
    BY DEF RegNum
  <1>90. CASE pc = 90
    <2>1. Moves(0, 0)
      BY <1>90, <1>m, <1>r, MenuCode, MovesCLR
    <2> QED  BY <1>90, <1>r, <2>1 DEF SortInv, InMenu, Menu, Moves
  <1>91. CASE pc = 91
    <2>1. Stays /\ pc' = 92 /\ reg'[7] = 92 /\ \A r \in RegNum : r # 7 => reg'[r] = reg[r]
      BY <1>91, <1>m, <1>r, MenuCode, StaysJSR
    <2> QED  BY <1>91, <1>r, <2>1 DEF SortInv, InMenu, Menu, Stays
  <1>92. CASE pc = 92
    <2>1. Moves(6, Add(reg[7], 65520))
      BY <1>92, <1>m, <1>r, MenuCode, MovesADDi
    <2>2. Add(reg[7], 65520) = 76
      BY <1>92, <1>m DEF Menu, Add, WordMod
    <2> QED  BY <1>92, <1>r, <2>1, <2>2 DEF SortInv, InMenu, Menu, Moves
  <1>93. CASE pc = 93
    <2>1. Moves(6, Add(reg[6], 65534))
      BY <1>93, <1>m, <1>r, MenuCode, MovesADDi
    <2>2. Add(reg[6], 65534) = 74
      BY <1>93, <1>m DEF Menu, Add, WordMod
    <2> QED  BY <1>93, <1>r, <2>1, <2>2 DEF SortInv, InMenu, Menu, Moves
  <1>94. CASE pc = 94
    <2>1. Stays /\ reg' = reg /\ pc' = 95
      BY <1>94, <1>m, <1>r, MenuCode, StaysPSE
    <2> QED  BY <1>94, <1>r, <2>1 DEF SortInv, InMenu, Menu, Stays
  <1>95. CASE pc = 95
    <2>1. PICK v \in Switches : Moves(1, v)
      <3>1. reg[0] = 0
        BY <1>95, <1>m DEF Menu
      <3> QED  BY <3>1, <1>95, <1>m, <1>r, MenuCode, MovesSwitches
    <2> QED  BY <1>95, <1>r, <2>1 DEF SortInv, InMenu, Menu, Moves
  <1>96. CASE pc = 96
    <2>1. Stays /\ reg' = reg /\ pc' = IF Taken(2) THEN 94 ELSE 97
      <3>1. -3 \in -256 .. 255 /\ pc + 1 + (-3) = 94 /\ 94 \in 0 .. 255
        BY <1>96
      <3> QED  BY <3>1, <1>96, <1>m, <1>r, MenuCode, StaysBR
    <2> QED  BY <1>96, <1>r, <2>1 DEF SortInv, InMenu, Menu, Stays
  <1>97. CASE pc = 97
    <2>1. Moves(1, Add(reg[1], 65535))
      BY <1>97, <1>m, <1>r, MenuCode, MovesADDi
    <2>2. Add(Add(reg[1], 65535), 1) = reg[1]
      <3>1. reg[1] \in Int /\ reg[1] >= 0 /\ reg[1] < 65536
        BY <1>m, <1>r, Registers
      <3> QED  BY <3>1 DEF Add, WordMod
    <2> QED  BY <1>97, <1>r, <2>1, <2>2 DEF SortInv, InMenu, Menu, Moves
  <1>98. CASE pc = 98
    <2>1. Stays /\ reg' = reg /\ pc' = IF Taken(5) THEN 101 ELSE 99
      <3>1. 2 \in -256 .. 255 /\ pc + 1 + 2 = 101 /\ 101 \in 0 .. 255
        BY <1>98
      <3> QED  BY <3>1, <1>98, <1>m, <1>r, MenuCode, StaysBR
    <2>2. ~Taken(5) => Add(reg[1], 1) = 1
      <3>1. reg[1] \in Word /\ reg[1] \in Int /\ reg[1] >= 0 /\ reg[1] < 65536
        BY <1>m, <1>r, Registers
      <3>2. cc = FlagsOf(reg[1])
        BY <1>98, <1>m DEF Menu
      <3>3. ~Taken(5) => reg[1] = 0
        BY <3>1, <3>2, FlagsTell DEF Taken
      <3> QED  BY <3>3 DEF Add, WordMod
    <2> QED  BY <1>98, <1>r, <2>1, <2>2 DEF SortInv, InMenu, Menu, Stays
  <1>99. CASE pc = 99
    <2>1. Stays /\ pc' = 109 /\ reg'[7] = 100 /\ \A r \in RegNum : r # 7 => reg'[r] = reg[r]
      BY <1>99, <1>m, <1>r, MenuCode, StaysJSR
    <2> QED  BY <1>99, <1>r, <2>1 DEF SortInv, InMenu, Menu, InEntry, Entry, Stays
  <1>100. CASE pc = 100
    <2>1. Stays /\ reg' = reg /\ pc' = 94
      <3>1. -7 \in -256 .. 255 /\ pc + 1 + (-7) = 94 /\ 94 \in 0 .. 255
        BY <1>100
      <3> QED  BY <3>1, <1>100, <1>m, <1>r, MenuCode, StaysJump
    <2> QED  BY <1>100, <1>r, <2>1 DEF SortInv, InMenu, Menu, Stays
  <1>101. CASE pc = 101
    <2>1. Moves(1, Add(reg[1], 65535))
      BY <1>101, <1>m, <1>r, MenuCode, MovesADDi
    <2> QED  BY <1>101, <1>r, <2>1 DEF SortInv, InMenu, Menu, Moves
  <1>102. CASE pc = 102
    <2>1. Stays /\ reg' = reg /\ pc' = IF Taken(5) THEN 105 ELSE 103
      <3>1. 2 \in -256 .. 255 /\ pc + 1 + 2 = 105 /\ 105 \in 0 .. 255
        BY <1>102
      <3> QED  BY <3>1, <1>102, <1>m, <1>r, MenuCode, StaysBR
    <2> QED  BY <1>102, <1>r, <2>1 DEF SortInv, InMenu, Menu, Stays
  <1>103. CASE pc = 103
    <2>1. Stays /\ pc' = 119 /\ reg'[7] = 104 /\ \A r \in RegNum : r # 7 => reg'[r] = reg[r]
      BY <1>103, <1>m, <1>r, MenuCode, StaysJSR
    <2>2. pc' = 119 /\ reg'[0] = 0 /\ reg'[6] = 74 /\ reg'[7] = 104 /\ shown' = <<>> /\ SortMachine'
      BY <1>103, <1>m, <1>r, <2>1 DEF Menu, Stays
    <2>3. Counters' /\ Compared' /\ Kept' /\ Order'
      BY <2>2 DEF Counters, Compared, Kept, Order, Within
    <2> QED  BY <2>2, <2>3 DEF SortInv, InSort
  <1>104. CASE pc = 104
    <2>1. Stays /\ reg' = reg /\ pc' = 94
      <3>1. -11 \in -256 .. 255 /\ pc + 1 + (-11) = 94 /\ 94 \in 0 .. 255
        BY <1>104
      <3> QED  BY <3>1, <1>104, <1>m, <1>r, MenuCode, StaysJump
    <2> QED  BY <1>104, <1>r, <2>1 DEF SortInv, InMenu, Menu, Stays
  <1>105. CASE pc = 105
    <2>1. Moves(1, Add(reg[1], 65535))
      BY <1>105, <1>m, <1>r, MenuCode, MovesADDi
    <2> QED  BY <1>105, <1>r, <2>1 DEF SortInv, InMenu, Menu, Moves
  <1>106. CASE pc = 106
    <2>1. Stays /\ reg' = reg /\ pc' = IF Taken(5) THEN 94 ELSE 107
      <3>1. -13 \in -256 .. 255 /\ pc + 1 + (-13) = 94 /\ 94 \in 0 .. 255
        BY <1>106
      <3> QED  BY <3>1, <1>106, <1>m, <1>r, MenuCode, StaysBR
    <2> QED  BY <1>106, <1>r, <2>1 DEF SortInv, InMenu, Menu, Stays
  <1>107. CASE pc = 107
    <2>1. Stays /\ pc' = 137 /\ reg'[7] = 108 /\ \A r \in RegNum : r # 7 => reg'[r] = reg[r]
      BY <1>107, <1>m, <1>r, MenuCode, StaysJSR
    <2>2. pc' = 137 /\ reg'[0] = 0 /\ reg'[6] = 74 /\ reg'[7] = 108 /\ shown' = <<>> /\ SortMachine'
      BY <1>107, <1>m, <1>r, <2>1 DEF Menu, Stays
    <2>3. Display'
      BY <2>2 DEF Display, Within
    <2> QED  BY <2>2, <2>3 DEF SortInv, InDisplay
  <1>108. CASE pc = 108
    <2>1. Stays /\ reg' = reg /\ pc' = 94
      <3>1. -15 \in -256 .. 255 /\ pc + 1 + (-15) = 94 /\ 94 \in 0 .. 255
        BY <1>108
      <3> QED  BY <3>1, <1>108, <1>m, <1>r, MenuCode, StaysJump
    <2> QED  BY <1>108, <1>r, <2>1 DEF SortInv, InMenu, Menu, Stays
  <1> QED
    BY <1>m, <1>90, <1>91, <1>92, <1>93, <1>94, <1>95, <1>96, <1>97, <1>98, <1>99,
       <1>100, <1>101, <1>102, <1>103, <1>104, <1>105, <1>106, <1>107, <1>108

\* The entry function changes the data only.
LEMMA EntryStep ==
  ASSUME SortMachine, InEntry, Step, History
  PROVE  SortInv'
  <1>m. /\ SortMachine /\ SortCode /\ Entry /\ pc \in 90 .. 154 /\ pc >= 109 /\ pc <= 118
    BY DEF SortMachine, InEntry
  <1>r. {0, 1, 2, 3, 4, 5, 6, 7} \subseteq RegNum
    BY DEF RegNum
  <1>109. CASE pc = 109
    <2>1. Moves(1, 0)
      BY <1>109, <1>m, <1>r, EntryCode, MovesCLR
    <2> QED  BY <1>109, <1>r, <2>1 DEF SortInv, InEntry, Entry, Moves
  <1>110. CASE pc = 110
    <2>1. Writes(255, reg[1]) /\ hex' = reg[1] /\ \A a \in P!SortData : mem'[a] = mem[a]
      BY <1>110, <1>m, <1>r, EntryCode, WritesDisplay DEF Entry
    <2> QED  BY <1>110, <1>r, <2>1 DEF SortInv, InEntry, Entry, Writes
  <1>111. CASE pc = 111
    <2>1. Stays /\ reg' = reg /\ pc' = 112
      BY <1>111, <1>m, <1>r, EntryCode, StaysPSE
    <2> QED  BY <1>111, <1>r, <2>1 DEF SortInv, InEntry, Entry, Stays
  <1>112. CASE pc = 112
    <2>1. PICK v \in Switches : Moves(2, v)
      <3>1. reg[0] = 0
        BY <1>112, <1>m DEF Entry
      <3> QED  BY <3>1, <1>112, <1>m, <1>r, EntryCode, MovesSwitches
    <2> QED  BY <1>112, <1>r, <2>1 DEF SortInv, InEntry, Entry, Moves
  <1>113. CASE pc = 113
    <2>1. Moves(5, Add(reg[6], reg[1]))
      BY <1>113, <1>m, <1>r, EntryCode, MovesADD
    <2>2. Add(reg[6], reg[1]) = 74 + reg[1]
      BY <1>113, <1>m DEF Entry, Add, WordMod
    <2> QED  BY <1>113, <1>r, <2>1, <2>2 DEF SortInv, InEntry, Entry, Moves
  <1>114. CASE pc = 114
    <2>1. PICK at \in Nat : at = 74 + reg[1]
      BY <1>114, <1>m DEF Entry
    <2>2. reg[1] \in 0 .. 15 /\ reg[5] = 74 + reg[1] /\ reg[2] \in DataWords
      BY <1>114, <1>m DEF Entry, DataWords
    <2>3. at < 256 /\ at = reg[5] + 0 /\ at \in P!SortData /\ 0 \in Int /\ 0 \in -32 .. 31
      BY <2>1, <2>2 DEF P!SortData
    <2>4. Writes(at, reg[2])
      <3>1. Writable(at, reg[2])
        BY <2>2, <2>3 DEF Writable
      <3>2. mem[pc] = P!opSTR(2, 5, 0)
        BY <1>114, <1>m, EntryCode
      <3> QED  BY <2>3, <3>1, <3>2, <1>114, <1>m, <1>r, WritesSTR
    <2> QED  BY <1>114, <1>r, <2>4 DEF SortInv, InEntry, Entry, Writes
  <1>115. CASE pc = 115
    <2>1. Moves(1, Add(reg[1], 1))
      BY <1>115, <1>m, <1>r, EntryCode, MovesADDi
    <2>2. Add(reg[1], 1) = reg[1] + 1
      BY <1>115, <1>m DEF Entry, Add, WordMod
    <2> QED  BY <1>115, <1>r, <2>1, <2>2 DEF SortInv, InEntry, Entry, Moves
  <1>116. CASE pc = 116
    <2>1. Moves(3, Add(reg[1], 65520))
      BY <1>116, <1>m, <1>r, EntryCode, MovesADDi
    <2>2. /\ pc' = 117 /\ cc' = FlagsOf(Add(reg[1], 65520)) /\ SortMachine' /\ shown' = shown
          /\ reg'[0] = reg[0] /\ reg'[1] = reg[1] /\ reg'[6] = reg[6] /\ reg'[7] = reg[7]
      BY <1>116, <1>r, <2>1 DEF Moves
    <2>3. Entry'
      BY <1>116, <1>m, <2>2 DEF Entry
    <2> QED  BY <2>2, <2>3 DEF SortInv, InEntry
  <1>117. CASE pc = 117
    <2>1. Stays /\ reg' = reg /\ pc' = IF Taken(4) THEN 110 ELSE 118
      <3>1. -8 \in -256 .. 255 /\ pc + 1 + (-8) = 110 /\ 110 \in 0 .. 255
        BY <1>117
      <3> QED  BY <3>1, <1>117, <1>m, <1>r, EntryCode, StaysBR
    <2>2. Taken(4) => reg[1] \in 0 .. 15
      <3>1. cc = FlagsOf(Add(reg[1], 65520)) /\ reg[1] \in 1 .. 16
        BY <1>117, <1>m DEF Entry
      <3>2. Add(reg[1], 65520) = IF reg[1] < 16 THEN reg[1] + 65520 ELSE 0
        BY <3>1 DEF Add, WordMod
      <3>3. Taken(4) => Add(reg[1], 65520) >= 32768
        <4>1. Add(reg[1], 65520) \in Word
          <5>1. 65520 \in Word
            BY IsWord
          <5>2. reg[1] \in Word
            BY <1>m, <1>r, Registers
          <5> QED  BY <5>1, <5>2, AddTyped
        <4> QED  BY <3>1, <4>1, FlagsTell DEF Taken
      <3> QED  BY <3>1, <3>2, <3>3
    <2> QED  BY <1>117, <1>r, <2>1, <2>2 DEF SortInv, InEntry, Entry, Stays
  <1>118. CASE pc = 118
    <2>1. Stays /\ reg' = reg /\ pc' = reg[7]
      BY <1>118, <1>m, <1>r, EntryCode, StaysRET
    <2>2. reg[7] = 100
      BY <1>118, <1>m DEF Entry
    <2> QED  BY <1>118, <1>r, <2>1, <2>2 DEF SortInv, InEntry, Entry, InMenu, Menu, Stays
  <1> QED
    BY <1>m, <1>109, <1>110, <1>111, <1>112, <1>113, <1>114, <1>115, <1>116, <1>117,
       <1>118

\* The sort function: a pass ends with one more word in its place.
LEMMA SortStep ==
  ASSUME SortMachine, InSort, Step, History
  PROVE  SortInv'
  <1>m. /\ SortMachine /\ SortCode /\ Counters /\ Compared /\ Kept /\ pc \in 90 .. 154 /\ pc >= 119 /\ pc <= 136
    BY DEF SortMachine, InSort
  <1>o. Orderly(Given) => Order
    BY DEF InSort
  <1>i. reg[1] \in Int /\ reg[2] \in Int /\ At \in Int /\ Settled \in Int
    <2>1. 1 \in RegNum /\ 2 \in RegNum
      BY DEF RegNum
    <2>2. reg[1] \in Int /\ reg[2] \in Int
      BY <1>m, <2>1, Registers
    <2> QED  BY <2>2 DEF At, Settled
  <1>u. pc >= 121 /\ pc <= 131 =>
          /\ At \in 75 .. 89 /\ At \in 0 .. 255 /\ At - 1 \in 0 .. 255
          /\ At \in P!SortData /\ At - 1 \in P!SortData
    <2>1. pc >= 121 /\ pc <= 131 => Within(At, 75, 89)
      BY <1>m, <1>i DEF Counters, Within, At
    <2> QED  BY <1>i, <2>1, Upper
  <1>r. {0, 1, 2, 3, 4, 5, 6, 7} \subseteq RegNum
    BY DEF RegNum
  <1>119. CASE pc = 119
    <2>1. Moves(1, Add(reg[0], 65520))
      BY <1>119, <1>m, <1>r, SortFunctionCode, MovesADDi
    <2>2. reg'[1] = 65520 /\ Settled' = 90
      <3>1. Add(reg[0], 65520) = 65520
        BY <1>119, <1>m DEF Within, Counters, Add, WordMod
      <3>2. reg'[1] = 65520
        BY <2>1, <3>1 DEF Moves
      <3> QED  BY <3>2 DEF Settled
    <2>3. unsorted' = DataOf(mem) /\ mem' = mem
      BY <1>119, <2>1 DEF Moves
    <2>4. Rearranged(mem', unsorted')
      BY <2>3, StartsRearranged
    <2>5. Holds(mem', Given')
      BY <2>3 DEF Holds, Given, DataOf
    <2>6. InPlace(mem', 90)
      BY <2>5, PassStarts
    <2>7. Counters'
      BY <1>119, <1>m, <1>r, <2>1, <2>2 DEF Counters, Within, Moves
    <2>8. Compared'
      BY <1>119, <1>m, <1>r, <2>1 DEF Compared, Within, Moves
    <2>9. Kept'
      BY <1>119, <1>m, <1>r, <2>1, <2>4, <2>5 DEF Kept, Within, Moves
    <2>10. Order'
      BY <1>119, <1>o, <1>r, <2>1, <2>2, <2>6 DEF Order, Within, Moves
    <2> QED  BY <1>119, <2>1, <2>7, <2>8, <2>9, <2>10 DEF SortInv, InSort, Moves
  <1>120. CASE pc = 120
    <2>1. Moves(2, Add(reg[0], 1))
      BY <1>120, <1>m, <1>r, SortFunctionCode, MovesADDi
    <2>2. reg'[2] = 1 /\ Settled' = Settled /\ At' - 1 = 74
      <3>1. Add(reg[0], 1) = 1
        BY <1>120, <1>m DEF Within, Counters, Add, WordMod
      <3>2. reg'[2] = 1 /\ reg'[1] = reg[1]
        BY <2>1, <3>1, <1>r DEF Moves
      <3> QED  BY <3>2 DEF Settled, At
    <2>3. Orderly(Given) => LargestAt(mem', 74)
      <3>1. Holds(mem, Given) /\ mem' = mem
        BY <1>120, <1>m, <2>1 DEF Kept, Within, Moves
      <3> QED  BY <3>1, PassStarts
    <2>4. Given' = Given
      BY <1>120, <2>1 DEF Moves, Given
    <2>5. Counters'
      BY <1>120, <1>m, <1>r, <2>1, <2>2, <2>4 DEF Counters, Within, Moves
    <2>6. Compared'
      BY <1>120, <1>m, <1>r, <2>1, <2>4 DEF Compared, Within, Moves
    <2>7. Kept'
      BY <1>120, <1>m, <1>r, <2>1, <2>4 DEF Kept, Within, Moves
    <2>8. Orderly(Given) => Order'
      BY <1>120, <1>o, <1>r, <2>1, <2>2, <2>3, <2>4 DEF Order, Within, Moves
    <2> QED  BY <1>120, <2>1, <2>5, <2>6, <2>7, <2>8, <2>4 DEF SortInv, InSort, Moves
  <1>121. CASE pc = 121
    <2>1. Moves(3, Add(reg[6], reg[2]))
      BY <1>121, <1>m, <1>r, SortFunctionCode, MovesADD
    <2>2. Add(reg[6], reg[2]) = At
      <3>1. reg[6] = 74 /\ reg[2] >= 1 /\ reg[2] <= 15
        BY <1>121, <1>m DEF Counters, Within
      <3> QED  BY <1>i, <3>1 DEF Add, WordMod, At
    <2>3. Settled' = Settled /\ At' = At
      BY <1>121, <1>r, <2>1 DEF Moves, Settled, At
    <2>4. Given' = Given
      BY <1>121, <2>1 DEF Moves, Given
    <2>5. Counters'
      BY <1>121, <1>m, <1>r, <2>1, <2>3, <2>4 DEF Counters, Within, Moves
    <2>6. Compared'
      BY <1>121, <1>m, <1>r, <2>1, <2>2, <2>3, <2>4 DEF Compared, Within, Moves
    <2>7. Kept'
      BY <1>121, <1>m, <1>r, <2>1, <2>3, <2>4 DEF Kept, Within, Moves
    <2>8. Orderly(Given) => Order'
      BY <1>121, <1>o, <1>r, <2>1, <2>3, <2>4 DEF Order, Within, Moves
    <2> QED  BY <1>121, <2>1, <2>5, <2>6, <2>7, <2>8, <2>4 DEF SortInv, InSort, Moves
  <1>122. CASE pc = 122
    <2>1. Moves(4, mem[At - 1])
      <3>1. PICK at \in Nat : at = At - 1
        BY <1>122, <1>u, <1>i
      <3>2. at < 256 /\ -1 \in Int /\ -1 \in -32 .. 31
        BY <1>122, <1>u, <1>i, <3>1
      <3>3. at = reg[3] + (-1)
        BY <1>122, <1>m, <1>i, <3>1 DEF Compared, Within
      <3>4. mem[pc] = P!opLDR(4, 3, -1)
        BY <1>122, <1>m, SortFunctionCode
      <3>5. Moves(4, mem[at])
        BY <3>2, <3>3, <3>4, <1>122, <1>m, <1>r, MovesLoad
      <3> QED  BY <3>1, <3>5
    <2>2. Settled' = Settled /\ At' = At
      BY <1>122, <1>r, <2>1 DEF Moves, Settled, At
    <2>3. Given' = Given
      BY <1>122, <2>1 DEF Moves, Given
    <2>4. Counters'
      BY <1>122, <1>m, <1>r, <2>1, <2>2, <2>3 DEF Counters, Within, Moves
    <2>5. Compared'
      BY <1>122, <1>m, <1>r, <2>1, <2>2, <2>3 DEF Compared, Within, Moves
    <2>6. Kept'
      BY <1>122, <1>m, <1>r, <2>1, <2>2, <2>3 DEF Kept, Within, Moves
    <2>7. Orderly(Given) => Order'
      BY <1>122, <1>o, <1>r, <2>1, <2>2, <2>3 DEF Order, Within, Moves
    <2> QED  BY <1>122, <2>1, <2>4, <2>5, <2>6, <2>7, <2>3 DEF SortInv, InSort, Moves
  <1>123. CASE pc = 123
    <2>1. Moves(5, mem[At])
      <3>1. PICK at \in Nat : at = At
        BY <1>123, <1>u, <1>i
      <3>2. at < 256 /\ 0 \in Int /\ 0 \in -32 .. 31
        BY <1>123, <1>u, <1>i, <3>1
      <3>3. at = reg[3] + 0
        BY <1>123, <1>m, <1>i, <3>1 DEF Compared, Within
      <3>4. mem[pc] = P!opLDR(5, 3, 0)
        BY <1>123, <1>m, SortFunctionCode
      <3>5. Moves(5, mem[at])
        BY <3>2, <3>3, <3>4, <1>123, <1>m, <1>r, MovesLoad
      <3> QED  BY <3>1, <3>5
    <2>2. Settled' = Settled /\ At' = At
      BY <1>123, <1>r, <2>1 DEF Moves, Settled, At
    <2>3. Given' = Given
      BY <1>123, <2>1 DEF Moves, Given
    <2>4. Counters'
      BY <1>123, <1>m, <1>r, <2>1, <2>2, <2>3 DEF Counters, Within, Moves
    <2>5. Compared'
      BY <1>123, <1>m, <1>r, <2>1, <2>2, <2>3 DEF Compared, Within, Moves
    <2>6. Kept'
      BY <1>123, <1>m, <1>r, <2>1, <2>2, <2>3 DEF Kept, Within, Moves
    <2>7. Orderly(Given) => Order'
      BY <1>123, <1>o, <1>r, <2>1, <2>2, <2>3 DEF Order, Within, Moves
    <2> QED  BY <1>123, <2>1, <2>4, <2>5, <2>6, <2>7, <2>3 DEF SortInv, InSort, Moves
  <1>124. CASE pc = 124
    <2>1. Moves(5, Not(reg[5]))
      BY <1>124, <1>m, <1>r, SortFunctionCode, MovesNOT
    <2>2. Settled' = Settled /\ At' = At
      BY <1>124, <1>r, <2>1 DEF Moves, Settled, At
    <2>3. Given' = Given
      BY <1>124, <2>1 DEF Moves, Given
    <2>4. Counters'
      BY <1>124, <1>m, <1>r, <2>1, <2>2, <2>3 DEF Counters, Within, Moves
    <2>5. Compared'
      BY <1>124, <1>m, <1>r, <2>1, <2>2, <2>3 DEF Compared, Within, Moves
    <2>6. Kept'
      BY <1>124, <1>m, <1>r, <2>1, <2>2, <2>3 DEF Kept, Within, Moves
    <2>7. Orderly(Given) => Order'
      BY <1>124, <1>o, <1>r, <2>1, <2>2, <2>3 DEF Order, Within, Moves
    <2> QED  BY <1>124, <2>1, <2>4, <2>5, <2>6, <2>7, <2>3 DEF SortInv, InSort, Moves
  <1>125. CASE pc = 125
    <2>1. Moves(5, Add(reg[5], 1))
      BY <1>125, <1>m, <1>r, SortFunctionCode, MovesADDi
    <2>2. Settled' = Settled /\ At' = At
      BY <1>125, <1>r, <2>1 DEF Moves, Settled, At
    <2>3. Given' = Given
      BY <1>125, <2>1 DEF Moves, Given
    <2>4. Counters'
      BY <1>125, <1>m, <1>r, <2>1, <2>2, <2>3 DEF Counters, Within, Moves
    <2>5. Compared'
      BY <1>125, <1>m, <1>r, <2>1, <2>2, <2>3 DEF Compared, Within, Moves
    <2>6. Kept'
      BY <1>125, <1>m, <1>r, <2>1, <2>2, <2>3 DEF Kept, Within, Moves
    <2>7. Orderly(Given) => Order'
      BY <1>125, <1>o, <1>r, <2>1, <2>2, <2>3 DEF Order, Within, Moves
    <2> QED  BY <1>125, <2>1, <2>4, <2>5, <2>6, <2>7, <2>3 DEF SortInv, InSort, Moves
  <1>126. CASE pc = 126
    <2>1. Moves(5, Add(reg[4], reg[5]))
      BY <1>126, <1>m, <1>r, SortFunctionCode, MovesADD
    <2>2. Add(reg[4], reg[5]) = Difference(mem[At - 1], mem[At])
      BY <1>126, <1>m DEF Within, Compared, Difference
    <2>3. Settled' = Settled /\ At' = At
      BY <1>126, <1>r, <2>1 DEF Moves, Settled, At
    <2>4. Given' = Given
      BY <1>126, <2>1 DEF Moves, Given
    <2>5. Counters'
      BY <1>126, <1>m, <1>r, <2>1, <2>3, <2>4 DEF Counters, Within, Moves
    <2>6. Compared'
      BY <1>126, <1>m, <1>r, <2>1, <2>2, <2>3, <2>4 DEF Compared, Within, Moves
    <2>7. Kept'
      BY <1>126, <1>m, <1>r, <2>1, <2>3, <2>4 DEF Kept, Within, Moves
    <2>8. Orderly(Given) => Order'
      BY <1>126, <1>o, <1>r, <2>1, <2>3, <2>4 DEF Order, Within, Moves
    <2> QED  BY <1>126, <2>1, <2>5, <2>6, <2>7, <2>8, <2>4 DEF SortInv, InSort, Moves
  <1>127. CASE pc = 127
    <2>1. Stays /\ reg' = reg /\ pc' = IF Taken(6) THEN 131 ELSE 128
      <3>1. 3 \in -256 .. 255 /\ pc + 1 + 3 = 131 /\ 131 \in 0 .. 255
        BY <1>127
      <3> QED  BY <3>1, <1>127, <1>m, <1>r, SortFunctionCode, StaysBR
    <2>2. mem \in [0 .. 255 -> Word] /\ mem[At] \in Word /\ mem[At - 1] \in Word
      <3>1. mem \in [0 .. 255 -> Word]
        BY <1>m DEF SortCode
      <3> QED  BY <1>127, <1>u, <3>1
    <2>3. Taken(6) <=> ~Above(mem[At - 1], mem[At])
      <3> DEFINE d == Difference(mem[At - 1], mem[At])
      <3>1. d \in Word
        BY <2>2, DifferenceTyped
      <3>2. d \in Int /\ d >= 0 /\ d < 65536
        BY <3>1, WordIs
      <3>3. cc = FlagsOf(d)
        BY <1>127, <1>m DEF Compared
      <3>4. Above(mem[At - 1], mem[At]) <=> (d > 0 /\ d < 32768)
        BY DEF Above
      <3> HIDE DEF d
      <3>5. Taken(6) <=> d >= 32768 \/ d = 0
        BY <3>1, <3>3, FlagsTell DEF Taken
      <3> QED  BY <3>2, <3>4, <3>5
    <2>4. Orderly(Given) /\ Taken(6) => LargestAt(mem, At)
      <3>1. Holds(mem, Given)
        BY <1>127, <1>m DEF Within, Kept
      <3>2. Orderly(Given) => InPlace(mem, Settled) /\ LargestAt(mem, At - 1)
        BY <1>127, <1>o DEF Within, Order
      <3>3. At \in 75 .. 89 /\ Settled \in Int
        BY <1>127, <1>i, <1>u
      <3>4. mem \in [0 .. 255 -> Word]
        BY <2>2
      <3>5. ASSUME Orderly(Given)
            PROVE  ~Above(mem[At - 1], mem[At]) => LargestAt(mem, At)
        <4>1. InPlace(mem, Settled) /\ LargestAt(mem, At - 1)
          BY <3>2, <3>5
        <4> QED  BY <3>1, <3>3, <3>4, <3>5, <4>1, ComparedWords
      <3> QED  BY <2>3, <3>5
    <2>5. Settled' = Settled /\ At' = At
      BY <1>127, <1>r, <2>1 DEF Stays, Settled, At
    <2>6. Given' = Given
      BY <1>127, <2>1 DEF Stays, Given
    <2>7. Counters'
      BY <1>127, <1>m, <1>r, <2>1, <2>5, <2>6 DEF Counters, Within, Stays
    <2>8. Compared'
      BY <1>127, <1>m, <1>r, <2>1, <2>3, <2>5, <2>6 DEF Compared, Within, Stays
    <2>9. Kept'
      BY <1>127, <1>m, <1>r, <2>1, <2>5, <2>6 DEF Kept, Within, Stays
    <2>10. Orderly(Given) => Order'
      BY <1>127, <1>o, <1>r, <2>1, <2>4, <2>5, <2>6 DEF Order, Within, Stays
    <2> QED  BY <1>127, <2>1, <2>7, <2>8, <2>9, <2>10, <2>6 DEF SortInv, InSort, Stays
  <1>128. CASE pc = 128
    <2>1. Moves(5, mem[At])
      <3>1. PICK at \in Nat : at = At
        BY <1>128, <1>u, <1>i
      <3>2. at < 256 /\ 0 \in Int /\ 0 \in -32 .. 31
        BY <1>128, <1>u, <1>i, <3>1
      <3>3. at = reg[3] + 0
        BY <1>128, <1>m, <1>i, <3>1 DEF Compared, Within
      <3>4. mem[pc] = P!opLDR(5, 3, 0)
        BY <1>128, <1>m, SortFunctionCode
      <3>5. Moves(5, mem[at])
        BY <3>2, <3>3, <3>4, <1>128, <1>m, <1>r, MovesLoad
      <3> QED  BY <3>1, <3>5
    <2>2. Settled' = Settled /\ At' = At
      BY <1>128, <1>r, <2>1 DEF Moves, Settled, At
    <2>3. Given' = Given
      BY <1>128, <2>1 DEF Moves, Given
    <2>4. Counters'
      BY <1>128, <1>m, <1>r, <2>1, <2>2, <2>3 DEF Counters, Within, Moves
    <2>5. Compared'
      BY <1>128, <1>m, <1>r, <2>1, <2>2, <2>3 DEF Compared, Within, Moves
    <2>6. Kept'
      BY <1>128, <1>m, <1>r, <2>1, <2>2, <2>3 DEF Kept, Within, Moves
    <2>7. Orderly(Given) => Order'
      BY <1>128, <1>o, <1>r, <2>1, <2>2, <2>3 DEF Order, Within, Moves
    <2> QED  BY <1>128, <2>1, <2>4, <2>5, <2>6, <2>7, <2>3 DEF SortInv, InSort, Moves
  <1>129. CASE pc = 129
    <2>1. PICK at \in Nat : at = At - 1
      BY <1>129, <1>u, <1>i
    <2>2. at < 256 /\ at = reg[3] + (-1) /\ -1 \in Int /\ -1 \in -32 .. 31 /\ at \in P!SortData
      <3>1. reg[3] = At
        BY <1>129, <1>m DEF Within, Compared
      <3>2. at \in P!SortData
        BY <1>129, <1>u, <2>1
      <3>3. at < 256 /\ at = At + (-1)
        BY <1>129, <1>u, <1>i, <2>1
      <3> QED  BY <3>1, <3>2, <3>3
    <2>3. Writes(at, reg[5])
      <3>1. reg[5] \in DataWords
        BY <1>129, <1>u, <1>m DEF Compared, SortMachine, Data
      <3>2. Writable(at, reg[5])
        BY <2>2, <3>1 DEF Writable
      <3>3. mem[pc] = P!opSTR(5, 3, -1)
        BY <1>129, <1>m, SortFunctionCode
      <3> QED  BY <2>2, <3>2, <3>3, <1>129, <1>m, <1>r, WritesSTR
    <2>4. reg[4] = mem[At - 1] /\ reg[5] = mem[At] /\ Above(mem[At - 1], mem[At])
      BY <1>129, <1>m DEF Within, Compared
    <2>5. reg[4] \in Given /\ mem[At] \in Given
      BY <2>4, <1>129, <1>u, <1>m DEF Kept, Within, Holds
    <2>6. /\ [mem' EXCEPT ![At] = reg[4]] = Swapped(mem, At)
          /\ Rearranged(Swapped(mem, At), unsorted)
          /\ Orderly(Given) => InPlace(Swapped(mem, At), Settled) /\ LargestAt(Swapped(mem, At), At)
      <3>1. mem \in [0 .. 255 -> Word] /\ Rearranged(mem, unsorted)
        BY <1>129, <1>m DEF SortCode, Kept, Within
      <3>2. Rearranged(Swapped(mem, At), unsorted)
        BY <1>129, <1>u, <3>1, SwapRearranged
      <3>3. Holds(mem, Given)
        BY <1>129, <1>m DEF Kept, Within
      <3>4. Orderly(Given) => InPlace(mem, Settled) /\ LargestAt(mem, At - 1)
        BY <1>129, <1>o DEF Within, Order
      <3>5. Orderly(Given) => InPlace(Swapped(mem, At), Settled) /\ LargestAt(Swapped(mem, At), At)
        <4>1. At \in 75 .. 89 /\ Settled \in Int
          BY <1>129, <1>i, <1>u
        <4>2. mem \in [0 .. 255 -> Word]
          BY <3>1
        <4>3. ASSUME Orderly(Given)
              PROVE  InPlace(Swapped(mem, At), Settled) /\ LargestAt(Swapped(mem, At), At)
          <5>1. InPlace(mem, Settled) /\ LargestAt(mem, At - 1)
            BY <3>4, <4>3
          <5>2. Above(mem[At - 1], mem[At])
            BY <2>4
          <5> QED  BY <3>3, <4>1, <4>2, <4>3, <5>1, <5>2, ComparedWords
        <4> QED  BY <4>3
      <3>6. mem' = [mem EXCEPT ![At - 1] = mem[At]]
        BY <2>1, <2>3, <2>4 DEF Writes
      <3>7. [mem' EXCEPT ![At] = reg[4]] = Swapped(mem, At)
        BY <3>6, <2>4 DEF Swapped
      <3> QED  BY <3>2, <3>5, <3>7
    <2>7. Holds(mem', Given)
      BY <1>129, <1>m, <2>3, <2>4, <2>5 DEF Kept, Within, Holds, Writes
    <2>8. pc' = 130 /\ reg'[4] = reg[4] /\ unsorted' = unsorted /\ Settled' = Settled /\ At' = At
      BY <1>129, <2>3 DEF Writes, Settled, At
    <2>9. [mem' EXCEPT ![At'] = reg'[4]] = Swapped(mem, At)
      BY <2>6, <2>8
    <2>10. Settled' = Settled /\ At' = At
      BY <1>129, <1>r, <2>3 DEF Writes, Settled, At
    <2>11. Given' = Given
      BY <1>129, <2>3 DEF Writes, Given
    <2>12. Counters'
      BY <1>129, <1>m, <1>r, <2>3, <2>10, <2>11 DEF Counters, Within, Writes
    <2>13. Compared'
      BY <1>129, <1>m, <1>r, <2>3, <2>4, <2>5, <2>10, <2>11 DEF Compared, Within, Writes
    <2>14. Kept'
      BY <2>6, <2>8, <2>9, <2>7, <2>11 DEF Kept, Within
    <2>15. Orderly(Given) => Order'
      <3>1. Orderly(Given) => /\ InPlace([mem' EXCEPT ![At'] = reg'[4]], Settled')
                       /\ LargestAt([mem' EXCEPT ![At'] = reg'[4]], At')
        <4>1. Orderly(Given) => InPlace(Swapped(mem, At), Settled) /\ LargestAt(Swapped(mem, At), At)
          BY <2>6
        <4>2. Settled' = Settled /\ At' = At
          BY <2>8
        <4> QED  BY <4>1, <4>2, <2>9
      <3>2. pc' = 130
        BY <2>8
      <3> QED  BY <3>1, <3>2 DEF Order, Within
    <2> QED  BY <1>129, <2>3, <2>12, <2>13, <2>14, <2>15, <2>11 DEF SortInv, InSort, Writes
  <1>130. CASE pc = 130
    <2>1. PICK at \in Nat : at = At
      BY <1>130, <1>u, <1>i
    <2>2. at < 256 /\ at = reg[3] + 0 /\ 0 \in Int /\ 0 \in -32 .. 31 /\ at \in P!SortData
      <3>1. reg[3] = At
        BY <1>130, <1>m DEF Within, Compared
      <3>2. at \in P!SortData
        BY <1>130, <1>u, <2>1
      <3>3. at < 256 /\ at = At + 0
        BY <1>130, <1>u, <1>i, <2>1
      <3> QED  BY <3>1, <3>2, <3>3
    <2>3. Writes(at, reg[4])
      <3>1. reg[4] \in DataWords
        BY <1>130, <1>m DEF Compared, SortMachine
      <3>2. Writable(at, reg[4])
        BY <2>2, <3>1 DEF Writable
      <3>3. mem[pc] = P!opSTR(4, 3, 0)
        BY <1>130, <1>m, SortFunctionCode
      <3> QED  BY <2>2, <3>2, <3>3, <1>130, <1>m, <1>r, WritesSTR
    <2>4. mem' = [mem EXCEPT ![At] = reg[4]]
      BY <2>1, <2>3 DEF Writes
    <2>5. Orderly(Given) => InPlace(mem', Settled) /\ LargestAt(mem', At)
      BY <1>130, <1>o, <2>4 DEF Order, Within
    <2>6. Holds(mem', Given)
      BY <1>130, <1>m, <2>3 DEF Kept, Compared, Within, Holds, Writes
    <2>7. pc' = 131 /\ Settled' = Settled /\ At' = At
      BY <1>130, <2>3 DEF Writes, Settled, At
    <2>8. Settled' = Settled /\ At' = At
      BY <1>130, <1>r, <2>3 DEF Writes, Settled, At
    <2>9. Given' = Given
      BY <1>130, <2>3 DEF Writes, Given
    <2>10. Counters'
      BY <1>130, <1>m, <1>r, <2>3, <2>8, <2>9 DEF Counters, Within, Writes
    <2>11. Compared'
      BY <1>130, <1>m, <1>r, <2>3, <2>8, <2>9 DEF Compared, Within, Writes
    <2>12. Kept'
      BY <1>130, <1>m, <1>r, <2>3, <2>4, <2>6, <2>8, <2>9 DEF Kept, Within, Writes
    <2>13. Orderly(Given) => Order'
      BY <2>5, <2>7 DEF Order, Within
    <2> QED  BY <1>130, <2>3, <2>10, <2>11, <2>12, <2>13, <2>9 DEF SortInv, InSort, Writes
  <1>131. CASE pc = 131
    <2>1. Moves(2, Add(reg[2], 1))
      BY <1>131, <1>m, <1>r, SortFunctionCode, MovesADDi
    <2>2. reg[2] >= 1 /\ reg[2] <= 15 /\ (reg[2] = 1 \/ At < Settled)
      BY <1>131, <1>m DEF Counters, Within
    <2>3. reg'[2] = reg[2] + 1 /\ Settled' = Settled
      <3>1. Add(reg[2], 1) = reg[2] + 1
        BY <1>i, <2>2 DEF Add, WordMod
      <3> QED  BY <2>1, <3>1, <1>r DEF Moves, Settled
    <2>4. At' = At + 1 /\ At' - 1 = At
      BY <2>3, <1>i DEF At
    <2>5. Within(reg'[2], 2, 16) /\ (reg'[2] = 2 \/ At' <= Settled')
      BY <1>i, <2>2, <2>3, <2>4 DEF Within
    <2>6. Given' = Given
      BY <1>131, <2>1 DEF Moves, Given
    <2>7. Counters'
      BY <1>131, <1>m, <1>r, <2>1, <2>3, <2>5, <2>6 DEF Counters, Within, Moves
    <2>8. Compared'
      BY <1>131, <1>m, <1>r, <2>1, <2>6 DEF Compared, Within, Moves
    <2>9. Kept'
      BY <1>131, <1>m, <1>r, <2>1, <2>6 DEF Kept, Within, Moves
    <2>10. Orderly(Given) => Order'
      BY <1>131, <1>o, <1>r, <2>1, <2>3, <2>4, <2>6 DEF Order, Within, Moves
    <2> QED  BY <1>131, <2>1, <2>7, <2>8, <2>9, <2>10, <2>6 DEF SortInv, InSort, Moves
  <1>132. CASE pc = 132
    <2>1. Moves(3, Add(reg[1], reg[2]))
      BY <1>132, <1>m, <1>r, SortFunctionCode, MovesADD
    <2>2. Settled' = Settled /\ At' = At
      BY <1>132, <1>r, <2>1 DEF Moves, Settled, At
    <2>3. Given' = Given
      BY <1>132, <2>1 DEF Moves, Given
    <2>4. Counters'
      BY <1>132, <1>m, <1>r, <2>1, <2>2, <2>3 DEF Counters, Within, Moves
    <2>5. Compared'
      BY <1>132, <1>m, <1>r, <2>1, <2>2, <2>3 DEF Compared, Within, Moves
    <2>6. Kept'
      BY <1>132, <1>m, <1>r, <2>1, <2>2, <2>3 DEF Kept, Within, Moves
    <2>7. Orderly(Given) => Order'
      BY <1>132, <1>o, <1>r, <2>1, <2>2, <2>3 DEF Order, Within, Moves
    <2> QED  BY <1>132, <2>1, <2>4, <2>5, <2>6, <2>7, <2>3 DEF SortInv, InSort, Moves
  <1>133. CASE pc = 133
    <2>1. Stays /\ reg' = reg /\ pc' = IF Taken(4) THEN 121 ELSE 134
      <3>1. -13 \in -256 .. 255 /\ pc + 1 + (-13) = 121 /\ 121 \in 0 .. 255
        BY <1>133
      <3> QED  BY <3>1, <1>133, <1>m, <1>r, SortFunctionCode, StaysBR
    <2>2. /\ reg[1] >= 65520 /\ reg[1] <= 65535 /\ reg[2] >= 2 /\ reg[2] <= 16
          /\ (reg[2] = 2 \/ At <= Settled) /\ cc = FlagsOf(Add(reg[1], reg[2]))
      BY <1>133, <1>m DEF Within, Counters
    <2>3. At = 74 + reg[2] /\ Settled = 65610 - reg[1]
      BY DEF At, Settled
    <2>4. Taken(4) <=> At < Settled
      <3>1. Add(reg[1], reg[2]) = IF At < Settled THEN reg[1] + reg[2] ELSE reg[1] + reg[2] - 65536
        BY <1>i, <2>2, <2>3 DEF Add, WordMod
      <3>2. Add(reg[1], reg[2]) \in Word
        BY <1>m, <1>r, Registers, AddTyped
      <3>3. Taken(4) <=> Add(reg[1], reg[2]) >= 32768
        BY <2>2, <3>2, FlagsTell DEF Taken
      <3> QED  BY <1>i, <2>2, <3>1, <3>3
    <2>5. At < Settled => reg[2] <= 15
      BY <1>i, <2>2, <2>3
    <2>6. Orderly(Given) /\ ~(At < Settled) => InPlace(mem, Settled - 1)
      <3>1. /\ Settled \in 75 .. 90 /\ At \in 76 .. 90
            /\ ~(At < Settled) => At = Settled \/ Settled = 75
        BY <1>i, <2>2, <2>3
      <3>2. Orderly(Given) => InPlace(mem, Settled) /\ LargestAt(mem, At - 1)
        BY <1>133, <1>o DEF Within, Order
      <3> QED  BY <3>1, <3>2, PassEnds
    <2>7. pc' = (IF At < Settled THEN 121 ELSE 134) /\ reg' = reg /\ shown' = shown
      BY <1>133, <2>1, <2>4 DEF Stays
    <2>8. reg[0] = 0 /\ reg[6] = 74 /\ reg[7] = 104 /\ shown = <<>>
      BY <1>m DEF Counters
    <2>9. Settled' = Settled /\ At' = At
      BY <1>133, <1>r, <2>1 DEF Stays, Settled, At
    <2>10. Given' = Given
      BY <1>133, <2>1 DEF Stays, Given
    <2>11. Counters'
      <3>1. At < Settled => Counters'
        BY <1>i, <2>2, <2>5, <2>9, <2>7, <2>8 DEF Counters, Within
      <3>2. ~(At < Settled) => Counters'
        BY <1>i, <2>2, <2>9, <2>7, <2>8 DEF Counters, Within
      <3> QED  BY <3>1, <3>2
    <2>12. Compared'
      BY <1>133, <1>m, <1>r, <2>1, <2>9, <2>10 DEF Compared, Within, Stays
    <2>13. Kept'
      BY <1>133, <1>m, <1>r, <2>1, <2>9, <2>10 DEF Kept, Within, Stays
    <2>14. Orderly(Given) => Order'
      BY <1>133, <1>o, <1>r, <2>1, <2>4, <2>6, <2>9, <2>10 DEF Order, Within, Stays
    <2> QED  BY <1>133, <2>1, <2>11, <2>12, <2>13, <2>14, <2>10 DEF SortInv, InSort, Stays
  <1>134. CASE pc = 134
    <2>1. Moves(1, Add(reg[1], 1))
      BY <1>134, <1>m, <1>r, SortFunctionCode, MovesADDi
    <2>2. reg[1] >= 65520 /\ reg[1] <= 65535
      BY <1>134, <1>m DEF Within, Counters
    <2>3. reg'[1] = IF reg[1] = 65535 THEN 0 ELSE reg[1] + 1
      <3>1. Add(reg[1], 1) = IF reg[1] = 65535 THEN 0 ELSE reg[1] + 1
        BY <1>i, <2>2 DEF Add, WordMod
      <3> QED  BY <2>1, <3>1 DEF Moves
    <2>4. Settled - 1 = IF reg'[1] = 0 THEN 74 ELSE Settled'
      BY <1>i, <2>2, <2>3 DEF Settled
    <2>5. (reg'[1] = 0 \/ Within(reg'[1], 65521, 65535)) /\ cc' = FlagsOf(reg'[1])
      <3>1. cc' = FlagsOf(reg'[1])
        BY <2>1 DEF Moves
      <3> QED  BY <1>i, <2>2, <2>3, <3>1 DEF Within
    <2>6. Given' = Given
      BY <1>134, <2>1 DEF Moves, Given
    <2>7. Counters'
      BY <1>134, <1>m, <1>r, <2>1, <2>5, <2>6 DEF Counters, Within, Moves
    <2>8. Compared'
      BY <1>134, <1>m, <1>r, <2>1, <2>6 DEF Compared, Within, Moves
    <2>9. Kept'
      BY <1>134, <1>m, <1>r, <2>1, <2>6 DEF Kept, Within, Moves
    <2>10. Orderly(Given) => Order'
      BY <1>134, <1>o, <1>r, <2>1, <2>4, <2>6 DEF Order, Within, Moves
    <2> QED  BY <1>134, <2>1, <2>7, <2>8, <2>9, <2>10, <2>6 DEF SortInv, InSort, Moves
  <1>135. CASE pc = 135
    <2>1. Stays /\ reg' = reg /\ pc' = IF Taken(4) THEN 120 ELSE 136
      <3>1. -16 \in -256 .. 255 /\ pc + 1 + (-16) = 120 /\ 120 \in 0 .. 255
        BY <1>135
      <3> QED  BY <3>1, <1>135, <1>m, <1>r, SortFunctionCode, StaysBR
    <2>2. Taken(4) <=> reg[1] # 0
      <3>1. (reg[1] = 0 \/ (reg[1] >= 65521 /\ reg[1] <= 65535)) /\ cc = FlagsOf(reg[1])
        BY <1>135, <1>m DEF Counters, Within
      <3>2. reg[1] \in Word
        BY <1>m, <1>r, Registers
      <3>3. Taken(4) <=> reg[1] >= 32768
        BY <3>1, <3>2, FlagsTell DEF Taken
      <3> QED  BY <1>i, <3>1, <3>3
    <2>3. reg[1] # 0 => Within(reg[1], 65520, 65535)
      <3>1. reg[1] = 0 \/ (reg[1] >= 65521 /\ reg[1] <= 65535)
        BY <1>135, <1>m DEF Counters, Within
      <3> QED  BY <1>i, <3>1 DEF Within
    <2>4. Settled' = Settled /\ At' = At
      BY <1>135, <1>r, <2>1 DEF Stays, Settled, At
    <2>5. Given' = Given
      BY <1>135, <2>1 DEF Stays, Given
    <2>6. Counters'
      BY <1>135, <1>m, <1>r, <2>1, <2>2, <2>3, <2>4, <2>5 DEF Counters, Within, Stays
    <2>7. Compared'
      BY <1>135, <1>m, <1>r, <2>1, <2>4, <2>5 DEF Compared, Within, Stays
    <2>8. Kept'
      BY <1>135, <1>m, <1>r, <2>1, <2>4, <2>5 DEF Kept, Within, Stays
    <2>9. Orderly(Given) => Order'
      BY <1>135, <1>o, <1>r, <2>1, <2>2, <2>4, <2>5 DEF Order, Within, Stays
    <2> QED  BY <1>135, <2>1, <2>6, <2>7, <2>8, <2>9, <2>5 DEF SortInv, InSort, Stays
  <1>136. CASE pc = 136
    <2>1. Stays /\ reg' = reg /\ pc' = reg[7]
      BY <1>136, <1>m, <1>r, SortFunctionCode, StaysRET
    <2>2. reg[7] = 104 /\ Rearranged(mem, unsorted) /\ Holds(mem, Given) /\ (Orderly(Given) => InPlace(mem, 74))
      BY <1>136, <1>m, <1>o DEF Within, Counters, Kept, Order
    <2>3. pc' = 104 /\ reg'[0] = 0 /\ reg'[6] = 74 /\ shown' = <<>>
      BY <1>136, <1>m, <2>1, <2>2 DEF Counters, Stays
    <2>4. mem' = mem /\ unsorted' = unsorted /\ Given' = Given /\ SortMachine'
      BY <2>1 DEF Stays, Given
    <2>5. Menu'
      BY <2>2, <2>3, <2>4 DEF Menu
    <2> QED  BY <2>3, <2>4, <2>5 DEF SortInv, InMenu
  <1> QED
    BY <1>m, <1>119, <1>120, <1>121, <1>122, <1>123, <1>124, <1>125, <1>126, <1>127,
       <1>128, <1>129, <1>130, <1>131, <1>132, <1>133, <1>134, <1>135, <1>136

\* The display function changes its pause only.
LEMMA DisplayStep ==
  ASSUME SortMachine, InDisplay, Step, History
  PROVE  SortInv'
  <1>m. /\ SortMachine /\ SortCode /\ Display /\ pc \in 90 .. 154 /\ pc >= 137 /\ pc <= 154
    BY DEF SortMachine, InDisplay
  <1>r. {0, 1, 2, 3, 4, 5, 6, 7} \subseteq RegNum
    BY DEF RegNum
  <1>i. reg[1] \in Int
    <2>1. 1 \in RegNum
      BY DEF RegNum
    <2> QED  BY <1>m, <2>1, Registers
  <1>137. CASE pc = 137
    <2>1. Moves(1, 0)
      BY <1>137, <1>m, <1>r, DisplayCode, MovesCLR
    <2> QED  BY <1>137, <1>r, <2>1 DEF SortInv, InDisplay, Display, Within, Moves
  <1>138. CASE pc = 138
    <2>1. Moves(4, Add(reg[7], reg[0]))
      BY <1>138, <1>m, <1>r, DisplayCode, MovesADD
    <2>2. Add(reg[7], reg[0]) = reg[7]
      <3>1. reg[0] = 0
        BY <1>m DEF Display
      <3>2. reg[7] \in Int /\ reg[7] >= 0 /\ reg[7] < 65536
        BY <1>m, <1>r, Registers
      <3> QED  BY <3>1, <3>2 DEF Add, WordMod
    <2> QED  BY <1>138, <1>r, <2>1, <2>2 DEF SortInv, InDisplay, Display, Within, Moves
  <1>139. CASE pc = 139
    <2>1. Stays /\ pc' = 140 /\ reg'[7] = 140 /\ \A r \in RegNum : r # 7 => reg'[r] = reg[r]
      BY <1>139, <1>m, <1>r, DisplayCode, StaysJSR
    <2> QED  BY <1>139, <1>r, <2>1 DEF SortInv, InDisplay, Display, Within, Stays
  <1>140. CASE pc = 140
    <2>1. Moves(5, Add(reg[7], reg[0]))
      BY <1>140, <1>m, <1>r, DisplayCode, MovesADD
    <2>2. Add(reg[7], reg[0]) = reg[7]
      <3>1. reg[0] = 0
        BY <1>m DEF Display
      <3>2. reg[7] \in Int /\ reg[7] >= 0 /\ reg[7] < 65536
        BY <1>m, <1>r, Registers
      <3> QED  BY <3>1, <3>2 DEF Add, WordMod
    <2> QED  BY <1>140, <1>r, <2>1, <2>2 DEF SortInv, InDisplay, Display, Within, Moves
  <1>141. CASE pc = 141
    <2>1. Moves(7, Add(reg[4], reg[0]))
      BY <1>141, <1>m, <1>r, DisplayCode, MovesADD
    <2>2. Add(reg[4], reg[0]) = reg[4]
      <3>1. reg[0] = 0
        BY <1>m DEF Display
      <3>2. reg[4] \in Int /\ reg[4] >= 0 /\ reg[4] < 65536
        BY <1>m, <1>r, Registers
      <3> QED  BY <3>1, <3>2 DEF Add, WordMod
    <2> QED  BY <1>141, <1>r, <2>1, <2>2 DEF SortInv, InDisplay, Display, Within, Moves
  <1>142. CASE pc = 142
    <2>1. Moves(3, Pause(0))
      <3>1. 155 = reg[5] + 15 /\ 155 \in Nat /\ 155 < 256 /\ 15 \in Int /\ 15 \in -32 .. 31
        BY <1>142, <1>m DEF Display, Within
      <3>2. mem[pc] = P!opLDR(3, 5, 15)
        BY <1>142, <1>m, DisplayCode
      <3>3. Moves(3, mem[155])
        BY <3>1, <3>2, <1>142, <1>m, <1>r, MovesLoad
      <3>4. mem[155] = Pause(0)
        BY <1>m, DisplayCode DEF Pause
      <3> QED  BY <3>3, <3>4
    <2> QED  BY <1>142, <1>r, <2>1 DEF SortInv, InDisplay, Display, Within, Moves
  <1>143. CASE pc = 143
    <2>1. Moves(2, Add(reg[0], 8))
      BY <1>143, <1>m, <1>r, DisplayCode, MovesADDi
    <2>2. Add(reg[0], 8) = 8
      BY <1>m DEF Display, Add, WordMod
    <2> QED  BY <1>143, <1>r, <2>1, <2>2 DEF SortInv, InDisplay, Display, Within, Moves
  <1>144. CASE pc = 144
    <2>1. Moves(2, Add(reg[2], reg[2]))
      BY <1>144, <1>m, <1>r, DisplayCode, MovesADD
    <2>2. Add(reg[2], reg[2]) = 16
      BY <1>144, <1>m DEF Display, Add, WordMod
    <2>3. shown = <<>> /\ reg[1] = 0
      BY <1>144, <1>m DEF Display, Within
    <2>4. Shows(shown, mem, 0)
      BY <2>3, ShowsNone
    <2> QED  BY <1>144, <1>r, <2>1, <2>2, <2>3, <2>4 DEF SortInv, InDisplay, Display,
       Within, Moves
  <1>145. CASE pc = 145
    <2>1. Moves(4, Add(reg[6], reg[1]))
      BY <1>145, <1>m, <1>r, DisplayCode, MovesADD
    <2>2. Add(reg[6], reg[1]) = 74 + reg[1]
      <3>1. reg[6] = 74 /\ reg[1] >= 0 /\ reg[1] <= 15
        BY <1>145, <1>m DEF Display, Within
      <3> QED  BY <1>i, <3>1 DEF Add, WordMod
    <2> QED  BY <1>145, <1>r, <2>1, <2>2 DEF SortInv, InDisplay, Display, Within, Moves
  <1>146. CASE pc = 146
    <2>1. Moves(4, mem[74 + reg[1]])
      <3>1. Within(reg[1], 0, 15) /\ reg[4] = 74 + reg[1]
        BY <1>146, <1>m DEF Display, Within
      <3>2. PICK at \in Nat : at = 74 + reg[1]
        BY <1>i, <3>1 DEF Within
      <3>3. at < 256 /\ at = reg[4] + 0 /\ 0 \in Int /\ 0 \in -32 .. 31
        BY <1>i, <3>1, <3>2 DEF Within
      <3>4. mem[pc] = P!opLDR(4, 4, 0)
        BY <1>146, <1>m, DisplayCode
      <3>5. Moves(4, mem[at])
        BY <3>3, <3>4, <1>146, <1>m, <1>r, MovesLoad
      <3> QED  BY <3>2, <3>5
    <2> QED  BY <1>146, <1>r, <2>1 DEF SortInv, InDisplay, Display, Within, Moves
  <1>147. CASE pc = 147
    <2>1. Writes(255, reg[4]) /\ hex' = reg[4] /\ \A a \in P!SortData : mem'[a] = mem[a]
      BY <1>147, <1>m, <1>r, DisplayCode, WritesDisplay DEF Display
    <2>2. Within(reg[1], 0, 15) /\ reg[4] = mem[74 + reg[1]] /\ Shows(shown, mem, reg[1])
      BY <1>147, <1>m DEF Display, Within
    <2>3. 74 + reg[1] \in P!SortData /\ reg[1] \in 0 .. 16
      BY <1>i, <2>2 DEF Within, P!SortData
    <2>4. hex' = mem'[74 + reg[1]]
      BY <2>1, <2>2, <2>3
    <2>5. Shows(shown, mem', reg[1])
      BY <2>1, <2>2, <2>3, ShowsSame
    <2> QED  BY <1>147, <1>r, <2>1, <2>4, <2>5 DEF SortInv, InDisplay, Display, Within, Writes
  <1>148. CASE pc = 148
    <2>1. PICK v \in Nat : v < 4096 /\ mem[pc] = P!opPSE(v)
      BY <1>148, <1>m, DisplayCode
    <2>2. pc' = pc + 1 /\ UNCHANGED <<reg, cc, mem, hex>>
      BY <1>148, <2>1, RunsPSE
    <2>3. shown' = Append(shown, hex) /\ unsorted' = unsorted
      BY <1>148 DEF Step, History, P!DisplayCheckpoint, P!SortFunction
    <2>4. SortMachine'
      <3>1. SortCode' /\ Data'
        <4>1. SortCode /\ Data /\ mem' = mem
          BY <1>m, <2>2 DEF SortMachine
        <4>2. SortCode'
          BY <4>1, SMTT(30) DEF SortCode
        <4>3. Data'
          BY <4>1, Zenon DEF Data
        <4> QED  BY <4>2, <4>3
      <3>2. OneFlag' /\ reg' \in [RegNum -> Word]
        BY <1>m, <2>2 DEF SortMachine, OneFlag
      <3>3. Given' \subseteq DataWords
        BY <2>3, GivenStays
      <3> QED  BY <3>1, <3>2, <3>3 DEF SortMachine
    <2>5. Within(reg[1], 0, 15) /\ hex = mem[74 + reg[1]] /\ Shows(shown, mem, reg[1])
      BY <1>148, <1>m DEF Display, Within
    <2>6. reg[1] \in 0 .. 15
      BY <1>i, <2>5 DEF Within
    <2>7. Shows(shown', mem', reg[1] + 1)
      BY <2>2, <2>3, <2>5, <2>6, ShowsOneMore
    <2> QED  BY <1>148, <1>r, <2>2, <2>4, <2>7 DEF SortInv, InDisplay, Display, Within
  <1>149. CASE pc = 149
    <2>1. Moves(3, Add(reg[3], reg[2]))
      BY <1>149, <1>m, <1>r, DisplayCode, MovesADD
    <2>2. reg[2] = 16 /\ reg[3] = Pause(reg[1]) /\ Within(reg[1], 0, 15)
      BY <1>149, <1>m DEF Display, Within
    <2>3. reg[1] \in Nat /\ reg[1] < 16
      BY <1>i, <2>2 DEF Within
    <2>4. Add(reg[3], reg[2]) = Pause(reg[1] + 1)
      BY <2>2, <2>3, PauseCounts
    <2> QED  BY <1>149, <1>r, <2>1, <2>4 DEF SortInv, InDisplay, Display, Within, Moves
  <1>150. CASE pc = 150
    <2>1. reg[5] = 140 /\ reg[3] = Pause(reg[1] + 1) /\ Within(reg[1], 0, 15)
      BY <1>150, <1>m DEF Display, Within
    <2>2. Shows(shown, mem, reg[1] + 1)
      BY <1>150, <1>m DEF Display, Within
    <2>3. Writes(148, reg[3])
      <3>1. PICK n \in Nat : n = reg[1] + 1 /\ n <= 16
        BY <1>i, <2>1 DEF Within
      <3>2. \E v \in Nat : v < 4096 /\ reg[3] = P!opPSE(v)
        <4>1. 2050 + 16 * n \in Nat /\ 2050 + 16 * n < 4096
          BY <3>1
        <4>2. reg[3] = P!opPSE(2050 + 16 * n)
          BY <2>1, <3>1 DEF Pause
        <4> QED  BY <4>1, <4>2
      <3>3. Writable(148, reg[3])
        BY <3>2 DEF Writable
      <3>4. 148 = reg[5] + 8 /\ 148 \in Nat /\ 148 < 256 /\ 8 \in Int /\ 8 \in -32 .. 31
        BY <2>1
      <3>5. mem[pc] = P!opSTR(3, 5, 8)
        BY <1>150, <1>m, DisplayCode
      <3> QED  BY <3>3, <3>4, <3>5, <1>150, <1>m, <1>r, WritesSTR
    <2>4. \A a \in P!SortData : mem'[a] = mem[a]
      BY <2>3 DEF Writes, P!SortData
    <2>5. Shows(shown, mem', reg[1] + 1)
      <3>1. reg[1] + 1 \in 0 .. 16
        BY <1>i, <2>1 DEF Within
      <3> QED  BY <2>2, <2>4, <3>1, ShowsSame
    <2> QED  BY <1>150, <1>r, <2>3, <2>5 DEF SortInv, InDisplay, Display, Within, Writes
  <1>151. CASE pc = 151
    <2>1. Moves(1, Add(reg[1], 1))
      BY <1>151, <1>m, <1>r, DisplayCode, MovesADDi
    <2>2. reg'[1] = reg[1] + 1 /\ Within(reg[1], 0, 15)
      <3>1. Within(reg[1], 0, 15)
        BY <1>151, <1>m DEF Display, Within
      <3>2. Add(reg[1], 1) = reg[1] + 1
        BY <1>i, <3>1 DEF Within, Add, WordMod
      <3> QED  BY <2>1, <3>1, <3>2 DEF Moves
    <2>3. Within(reg'[1], 1, 16)
      BY <1>i, <2>2 DEF Within
    <2> QED  BY <1>151, <1>r, <2>1, <2>2, <2>3 DEF SortInv, InDisplay, Display, Within, Moves
  <1>152. CASE pc = 152
    <2>1. Moves(4, Add(reg[1], 65520))
      BY <1>152, <1>m, <1>r, DisplayCode, MovesADDi
    <2> QED  BY <1>152, <1>r, <2>1 DEF SortInv, InDisplay, Display, Within, Moves
  <1>153. CASE pc = 153
    <2>1. Stays /\ reg' = reg /\ pc' = IF Taken(4) THEN 145 ELSE 154
      <3>1. -9 \in -256 .. 255 /\ pc + 1 + (-9) = 145 /\ 145 \in 0 .. 255
        BY <1>153
      <3> QED  BY <3>1, <1>153, <1>m, <1>r, DisplayCode, StaysBR
    <2>2. cc = FlagsOf(Add(reg[1], 65520)) /\ Within(reg[1], 1, 16)
      BY <1>153, <1>m DEF Display, Within
    <2>3. Add(reg[1], 65520) = IF reg[1] < 16 THEN reg[1] + 65520 ELSE 0
      BY <1>i, <2>2 DEF Within, Add, WordMod
    <2>4. Taken(4) <=> reg[1] < 16
      <3>1. 65520 \in Word
        BY IsWord
      <3>2. Add(reg[1], 65520) \in Word
        BY <1>m, <1>r, <3>1, Registers, AddTyped
      <3>3. Taken(4) <=> Add(reg[1], 65520) >= 32768
        BY <2>2, <3>2, FlagsTell DEF Taken
      <3> QED  BY <1>i, <2>2, <2>3, <3>3 DEF Within
    <2>5. Taken(4) => Within(reg[1], 0, 15)
      BY <1>i, <2>2, <2>4 DEF Within
    <2>6. ~Taken(4) => reg[1] = 16
      BY <1>i, <2>2, <2>4 DEF Within
    <2> QED  BY <1>153, <1>r, <2>1, <2>2, <2>5, <2>6 DEF SortInv, InDisplay, Display,
       Within, Stays
  <1>154. CASE pc = 154
    <2>1. Stays /\ reg' = reg /\ pc' = reg[7]
      BY <1>154, <1>m, <1>r, DisplayCode, StaysRET
    <2>2. reg[7] = 108 /\ Shows(shown, mem, 16)
      BY <1>154, <1>m DEF Display, Within
    <2> QED  BY <1>154, <1>r, <2>1, <2>2 DEF SortInv, InDisplay, Display, InMenu, Menu,
       Within, Stays
  <1> QED
    BY <1>m, <1>137, <1>138, <1>139, <1>140, <1>141, <1>142, <1>143, <1>144, <1>145,
       <1>146, <1>147, <1>148, <1>149, <1>150, <1>151, <1>152, <1>153, <1>154

\* A button, or nothing at all: while the menu's pause lasts what was shown is cleared.
LEMMA SortStays ==
  ASSUME SortInv, UNCHANGED <<pc, reg, cc, mem, hex>>,
         shown' = shown \/ pc = 94,
         unsorted' = unsorted \/ (pc = 119 /\ unsorted' = DataOf(mem))
  PROVE  SortInv'
  <1>1. SortMachine'
    <2>1. SortCode' /\ Data'
      BY DEF SortInv, SortMachine, SortCode, Data
    <2>2. OneFlag' /\ reg' \in [RegNum -> Word]
      BY DEF SortInv, SortMachine, OneFlag
    <2>3. Given' \subseteq DataWords
      BY GivenStays DEF SortInv
    <2> QED  BY <2>1, <2>2, <2>3 DEF SortMachine
  <1>2. CASE pc = 94
    <2>1. InMenu
      BY <1>2 DEF SortInv, InMenu, InEntry, InSort, InDisplay
    <2>2. InMenu'
      BY <1>2, <2>1 DEF InMenu, Menu
    <2> QED  BY <1>1, <2>2 DEF SortInv
  <1>3. CASE pc = 119
    <2>1. InSort /\ shown' = shown
      BY <1>3 DEF SortInv, InMenu, InEntry, InSort, InDisplay
    <2>2. Counters'
      BY <1>3, <2>1 DEF InSort, Counters, Within
    <2>3. Compared' /\ Kept' /\ Order'
      BY <1>3 DEF Compared, Kept, Order, Within
    <2> QED  BY <1>1, <1>3, <2>2, <2>3 DEF SortInv, InSort
  <1>4. CASE pc # 94 /\ pc # 119
    <2>1. shown' = shown /\ unsorted' = unsorted
      BY <1>4
    <2>2. Given' = Given /\ At' = At /\ Settled' = Settled
      BY <2>1 DEF Given, At, Settled
    <2>3. CASE InMenu
      BY <1>1, <2>1, <2>2, <2>3 DEF SortInv, InMenu, Menu
    <2>4. CASE InEntry
      BY <1>1, <2>1, <2>4 DEF SortInv, InEntry, Entry
    <2>5. CASE InSort
      <3>1. Counters'
        BY <2>1, <2>2, <2>5 DEF InSort, Counters
      <3>2. Compared' /\ Kept'
        BY <2>1, <2>2, <2>5 DEF InSort, Compared, Kept
      <3>3. Orderly(Given) => Order'
        BY <2>1, <2>2, <2>5 DEF InSort, Order
      <3> QED  BY <1>1, <2>2, <2>5, <3>1, <3>2, <3>3 DEF SortInv, InSort
    <2>6. CASE InDisplay
      BY <1>1, <2>1, <2>6 DEF SortInv, InDisplay, Display
    <2> QED  BY <2>3, <2>4, <2>5, <2>6 DEF SortInv
  <1> QED  BY <1>2, <1>3, <1>4

\* Started at bubble sort, whose code the image holds.
LEMMA SortStarts ==
  ASSUME ProgramInit, pc = 90
  PROVE  SortInv
  <1>1. mem \in Images /\ mem \in [0 .. 255 -> Word]
        /\ \A a \in 0 .. 255 : a \notin P!SortData => mem[a] = P!memory_contents[a]
    BY ImagesAssumption DEF ProgramInit
  <1>2. \A a \in 90 .. 155 : a \in 0 .. 255 /\ a \notin P!SortData
    BY DEF P!SortData
  <1>3. mem[148] = P!opPSE(2050)
    <2>1. 148 \in 0 .. 255 /\ 148 \notin P!SortData
      BY DEF P!SortData
    <2> QED  BY <1>1, <2>1 DEF P!memory_contents, P!Listing
  <1>4. SortCode
    BY <1>1, <1>2, <1>3 DEF SortCode
  <1>5. Data
    BY <1>1 DEF Data, DataWords
  <1>6. unsorted = DataOf(mem)
    BY DEF ProgramInit
  <1>7. Given \subseteq DataWords
    BY <1>5, <1>6 DEF Given, DataOf, Data
  <1>8. OneFlag /\ reg \in [RegNum -> Word]
    <2>1. pc \in Word /\ 0 \in Word
      BY IsWord
    <2> QED  BY <2>1 DEF ProgramInit, OneFlag, FlagsOf
  <1>9. Menu /\ pc \in 90 .. 108
    BY DEF Menu
  <1> QED  BY <1>4, <1>5, <1>7, <1>8, <1>9 DEF SortInv, SortMachine, InMenu

\* The invariant of the program, at every step.
LEMMA SortAlways == ProgramSpec /\ pc = P!SortStart => []SortInv
  <1>1. ProgramInit /\ pc = P!SortStart => SortInv
    BY SortStarts DEF P!SortStart
  <1>2. SortInv /\ [ProgramStep]_pvars => SortInv'
    <2>1. ASSUME SortInv, Press \/ Release, History  PROVE SortInv'
      <3>1. mode # "running" /\ UNCHANGED <<pc, reg, cc, mem, hex>>
        BY <2>1 DEF Press, Release, Button
      <3>2. shown' = shown \/ pc = 94
        BY <2>1, <3>1 DEF History, P!SortMenu
      <3>3. unsorted' = unsorted \/ (pc = 119 /\ unsorted' = DataOf(mem))
        BY <2>1 DEF History, P!SortFunction
      <3> QED  BY <2>1, <3>1, <3>2, <3>3, SortStays
    <2>2. ASSUME SortInv, UNCHANGED pvars  PROVE SortInv'
      BY <2>2, SortStays DEF pvars, isavars
    <2>3. ASSUME SortInv, Step, History  PROVE SortInv'
      BY <2>3, MenuStep, EntryStep, SortStep, DisplayStep DEF SortInv
    <2> QED  BY <2>1, <2>2, <2>3 DEF ProgramStep
  <1> QED  BY <1>1, <1>2, PTL DEF ProgramSpec

\* The sort loses no datum and makes none up: each word occurs as often as before,
\* whatever the words are.
THEOREM SortKeeps == ProgramSpec /\ pc = P!SortStart => []SortKeepsData
  <1>1. SortInv => SortKeepsData
    <2> SUFFICES ASSUME SortInv, pc = 104  PROVE Rearranged(mem, unsorted)
      BY DEF SortKeepsData, AtSortReturn, P!SortReturn, Rearranged
    <2>1. InMenu
      BY DEF SortInv, InMenu, InEntry, InSort, InDisplay
    <2> QED  BY <2>1 DEF InMenu, Menu
  <1> QED  BY <1>1, SortAlways, PTL

\* The display function shows the sixteen words in order, whatever they are, and
\* however often it rewrites its pause.
THEOREM DisplayCorrect == ProgramSpec /\ pc = P!SortStart => []DisplayShowsData
  <1>1. SortInv => DisplayShowsData
    <2> SUFFICES ASSUME SortInv, pc = 108  PROVE Shows(shown, mem, 16)
      BY DEF DisplayShowsData, Shows
    <2>1. InMenu
      BY DEF SortInv, InMenu, InEntry, InSort, InDisplay
    <2> QED  BY <2>1 DEF InMenu, Menu
  <1> QED  BY <1>1, SortAlways, PTL

\* The words of D are less than 2^15 apart, as unsigned or as signed numbers.
Near(D) == \A v, w \in D : v - w < 32768
NearSigned(D) == \A v, w \in D : Signed(v) - Signed(w) < 32768

\* Near words are compared without contradiction.
LEMMA NearOrderly ==
  ASSUME NEW D \in SUBSET Word, Near(D) \/ NearSigned(D)
  PROVE  Orderly(D)
  <1>1. CASE Near(D)
    <2>1. \A v, w \in D : Above(v, w) <=> v > w
      BY <1>1, NearWords DEF Near
    <2>2. \A v \in D : v \in Int
      BY WordIs
    <2> QED  BY <2>1, <2>2 DEF Orderly
  <1>2. CASE NearSigned(D)
    <2>1. \A v, w \in D : Above(v, w) <=> Signed(v) > Signed(w)
      BY <1>2, NearWords DEF NearSigned
    <2>2. \A v \in D : Signed(v) \in Int
      <3> SUFFICES ASSUME NEW v \in D  PROVE Signed(v) \in Int
        OBVIOUS
      <3>1. v \in Int
        BY WordIs
      <3> QED  BY <3>1 DEF Signed, WordMod
    <2> QED  BY <2>1, <2>2 DEF Orderly
  <1> QED  BY <1>1, <1>2

\* A sort of words that are near each other puts them in order.
SortOrdersNearData ==
  AtSortReturn => /\ Near(Given) => Ordered(Unsigned)
                  /\ NearSigned(Given) => Ordered(Signed)

\* The invariant gives it at the return.
LEMMA SortedNear ==
  ASSUME SortInv
  PROVE  SortOrdersNearData
  <1> SUFFICES ASSUME pc = 104
               PROVE  /\ Near(Given) => Ordered(Unsigned)
                      /\ NearSigned(Given) => Ordered(Signed)
    BY DEF SortOrdersNearData, AtSortReturn, P!SortReturn
  <1>1. InMenu
    BY DEF SortInv, InMenu, InEntry, InSort, InDisplay
  <1>2. Holds(mem, Given) /\ (Orderly(Given) => InPlace(mem, 74))
    BY <1>1 DEF InMenu, Menu
  <1>3. \A a \in P!SortData : mem[a] \in Word /\ mem[a] \in Given /\ a \in 0 .. 255 /\ a >= 74
    <2>1. \A a \in P!SortData : a \in 0 .. 255 /\ a >= 74
      BY DEF P!SortData
    <2> QED  BY <1>2, <2>1 DEF Holds, SortInv, SortMachine, SortCode
  <1>4. Given \in SUBSET Word
    <2>1. DataWords \subseteq Word
      BY DataTyped
    <2> QED  BY <2>1 DEF SortInv, SortMachine
  <1>5. ASSUME Near(Given)  PROVE Ordered(Unsigned)
    <2> SUFFICES ASSUME NEW a \in P!SortData, NEW b \in P!SortData, a < b
                 PROVE  mem[a] <= mem[b]
      BY DEF Ordered, Unsigned
    <2>1. ~Above(mem[a], mem[b])
      BY <1>2, <1>3, <1>4, <1>5, NearOrderly DEF InPlace
    <2>2. Above(mem[a], mem[b]) <=> mem[a] > mem[b]
      BY <1>3, <1>5, NearWords DEF Near
    <2> QED  BY <1>3, <2>1, <2>2, WordIs
  <1>6. ASSUME NearSigned(Given)  PROVE Ordered(Signed)
    <2> SUFFICES ASSUME NEW a \in P!SortData, NEW b \in P!SortData, a < b
                 PROVE  Signed(mem[a]) <= Signed(mem[b])
      BY DEF Ordered
    <2>1. ~Above(mem[a], mem[b])
      BY <1>2, <1>3, <1>4, <1>6, NearOrderly DEF InPlace
    <2>2. Above(mem[a], mem[b]) <=> Signed(mem[a]) > Signed(mem[b])
      BY <1>3, <1>6, NearWords DEF NearSigned
    <2>3. Signed(mem[a]) \in Int /\ Signed(mem[b]) \in Int
      BY <1>3, WordIs DEF Signed, WordMod
    <2> QED  BY <2>1, <2>2, <2>3
  <1> QED  BY <1>5, <1>6

\* Whatever a user enters: sixteen words less than 2^15 apart are in order when the
\* sort function returns.
THEOREM SortOrdersNear == ProgramSpec /\ pc = P!SortStart => []SortOrdersNearData
  BY SortAlways, SortedNear, PTL

\* So the data are always in order if no two words that may be entered are further
\* apart; without that they need not be.
THEOREM SortOrders ==
  ASSUME Near(DataWords) \/ NearSigned(DataWords)
  PROVE  ProgramSpec /\ pc = P!SortStart => []SortOrdersData
  <1>1. SortInv => SortOrdersData
    <2> SUFFICES ASSUME SortInv, AtSortReturn  PROVE Ordered(Unsigned) \/ Ordered(Signed)
      BY DEF SortOrdersData
    <2>1. Given \subseteq DataWords
      BY DEF SortInv, SortMachine
    <2>2. Near(Given) \/ NearSigned(Given)
      BY <2>1 DEF Near, NearSigned
    <2> QED  BY <2>2, SortedNear DEF SortOrdersNearData
  <1> QED  BY <1>1, SortAlways, PTL
====
