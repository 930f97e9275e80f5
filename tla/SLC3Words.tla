---- MODULE SLC3Words ----
(* The 16-bit words of the SLC-3 processor (Lab6): the fields of an            *)
(* instruction, sign extension, the adder and the ALU operations.  Words are   *)
(* the naturals below 2^16; every operation wraps as the 16-bit wires do.      *)
EXTENDS Integers

WordMod == 65536
Word == 0 .. WordMod - 1
RegNum == 0 .. 7

\* The address at which Mem2IO answers with the switches and the hex display.
IOAddr == 65535

----
\* Fields of the instruction word, as the datapath and the ISDU pick them.
Opcode(w) == w \div 4096             \* IR[15:12]
IR_11_9(w) == (w \div 512) % 8       \* destination, source of STR, condition of BR
IR_8_6(w) == (w \div 64) % 8         \* SR1, BaseR
SR2(w) == w % 8                      \* IR[2:0]
IR_5(w) == (w \div 32) % 2 = 1
IR_11(w) == (w \div 2048) % 2 = 1

\* Sign extension of the low bits of w: `half` is the weight of their sign bit.
SignExtend(w, half) ==
  LET low == w % (2 * half)
  IN  IF low >= half THEN low + WordMod - 2 * half ELSE low

Sext5(w) == SignExtend(w, 16)
Sext6(w) == SignExtend(w, 32)
Sext9(w) == SignExtend(w, 256)
Sext11(w) == SignExtend(w, 1024)

----
\* 16-bit arithmetic and logic.
Add(a, b) == (a + b) % WordMod
Not(a) == WordMod - 1 - a

AndBit(a, b, p) ==
  IF (a \div p) % 2 = 1 /\ (b \div p) % 2 = 1 THEN p ELSE 0

And(a, b) ==
  AndBit(a, b, 1) + AndBit(a, b, 2) + AndBit(a, b, 4) + AndBit(a, b, 8)
  + AndBit(a, b, 16) + AndBit(a, b, 32) + AndBit(a, b, 64) + AndBit(a, b, 128)
  + AndBit(a, b, 256) + AndBit(a, b, 512) + AndBit(a, b, 1024) + AndBit(a, b, 2048)
  + AndBit(a, b, 4096) + AndBit(a, b, 8192) + AndBit(a, b, 16384)
  + AndBit(a, b, 32768)

\* The condition codes: the set of the flip-flops N_Out, Z_Out, P_Out that are
\* set, and the one that the result w sets.
Flags == SUBSET {"N", "Z", "P"}
NoFlags == {}

\* Mutant: zero counts as positive too.
MutFlagsOf(w) == IF w >= 32768 THEN {"N"} ELSE IF w = 0 THEN {"Z", "P"} ELSE {"P"}
FlagsOf(w) == IF w >= 32768 THEN {"N"} ELSE IF w = 0 THEN {"Z"} ELSE {"P"}

\* The condition bits of a branch.
TestN(w) == (IR_11_9(w) \div 4) % 2 = 1
TestZ(w) == (IR_11_9(w) \div 2) % 2 = 1
TestP(w) == IR_11_9(w) % 2 = 1

\* Mutant: the branch on negative is forgotten.
MutCondition(w, flags) == \/ TestZ(w) /\ "Z" \in flags
                          \/ TestP(w) /\ "P" \in flags

\* "if ((n AND N) OR (z AND Z) OR (p AND P))" of opBR.
Condition(w, flags) == \/ TestN(w) /\ "N" \in flags
                       \/ TestZ(w) /\ "Z" \in flags
                       \/ TestP(w) /\ "P" \in flags
====
