---- MODULE SLC3Asm ----
(* The instruction functions of SLC3_2.sv, the assembler in which              *)
(* memory_contents.sv writes its programs.  An integer operand is cut to its   *)
(* field, as the part selects imm5[4:0], offset6[5:0]... cut it.               *)
EXTENDS SLC3Words

outHEX == -1
inSW == -1
p == 1
z == 2
zp == 3
n == 4
np == 5
nz == 6
nzp == 7

R0 == 0
R1 == 1
R2 == 2
R3 == 3
R4 == 4
R5 == 5
R6 == 6
R7 == 7

Instr(op, dr, sr1, low) == op * 4096 + dr * 512 + sr1 * 64 + low

opAND(dr, sr1, sr2) == Instr(5, dr, sr1, sr2)
opANDi(dr, sr, imm5) == Instr(5, dr, sr, 32 + (imm5 % 32))
opCLR(dr) == opANDi(dr, dr, 0)
opADD(dr, sr1, sr2) == Instr(1, dr, sr1, sr2)
opADDi(dr, sr, imm5) == Instr(1, dr, sr, 32 + (imm5 % 32))
MutINC(dr) == opADDi(dr, dr, 0)                  \* mutant: adds nothing
opINC(dr) == opADDi(dr, dr, 1)
opDEC(dr) == opADDi(dr, dr, -1)
MutNOT(dr, sr) == Instr(9, sr, dr, 1)            \* mutant: operands swapped
opNOT(dr, sr) == Instr(9, dr, sr, 1)             \* the field is 5'b1, one
opBR(cond, off9) == Instr(0, cond, 0, off9 % 512)
opJMP(base) == Instr(12, 0, base, 0)
opRET == opJMP(7)
opJSR(off11) == Instr(4, 4, 0, off11 % 2048)
opLDR(dr, base, off6) == Instr(6, dr, base, off6 % 64)
MutStore(sr, base, off6) == Instr(7, sr, base, off6 % 32)   \* mutant: sign cut off
opSTR(sr, base, off6) == Instr(7, sr, base, off6 % 64)
opPSE(ledVect12) == Instr(13, 0, 0, ledVect12)
NO_OP == 0
====
