---- MODULE SLC3Programs ----
(* The test programs of memory_contents.sv, as SLC3_2.sv assembles them, and    *)
(* the 256-word image of the SRAM model that holds them.                        *)
EXTENDS SLC3Asm, Sequences

Listing == <<
  \* 0: jump to the program the switches name
  opCLR(R0), opLDR(R1, R0, inSW), opJMP(R1),
  \* 3: I/O test 1
  opLDR(R1, R0, inSW), opSTR(R1, R0, outHEX), opBR(nzp, -3),
  \* 6: I/O test 2
  opPSE(2049), opLDR(R1, R0, inSW), opSTR(R1, R0, outHEX), opPSE(3074),
  opBR(nzp, -4),
  \* 11: I/O test 3
  opPSE(2049), opJSR(0), opLDR(R2, R7, 3), opLDR(R1, R0, inSW),
  opSTR(R1, R0, outHEX), opPSE(3074), opINC(R2), opSTR(R2, R7, 3),
  opBR(nzp, -6),
  \* 20: XOR test
  opCLR(R0), opPSE(2049), opLDR(R1, R0, inSW), opPSE(2050),
  opLDR(R2, R0, inSW), opNOT(R3, R1), opAND(R3, R3, R2), opNOT(R3, R3),
  opNOT(R4, R2), opAND(R4, R4, R1), opNOT(R4, R4), opAND(R3, R3, R4),
  opNOT(R3, R3), opSTR(R3, R0, outHEX), opPSE(1029), opBR(nzp, -15),
  \* 36: place holders
  NO_OP, NO_OP, NO_OP, NO_OP, NO_OP, NO_OP,
  \* 42: run once test
  opCLR(R0), opCLR(R1), opJSR(0), opSTR(R1, R0, outHEX), opPSE(1025),
  opINC(R1), opRET,
  \* 49: multiplier
  opCLR(R0), opJSR(0), opLDR(R3, R7, 22), opCLR(R4), opCLR(R5), opPSE(2049),
  opLDR(R1, R0, inSW), opPSE(2050), opLDR(R2, R0, inSW), opADD(R5, R5, R5),
  opAND(R7, R3, R1), opBR(z, 1), opADD(R5, R5, R2), opADDi(R4, R4, 0),
  opBR(p, 2), opNOT(R5, R5), opINC(R5), opINC(R4), opADD(R1, R1, R1),
  opADDi(R7, R4, -8), opBR(n, -12), opSTR(R5, R0, outHEX), opPSE(1027),
  opBR(nzp, -21), 128,
  \* 74: data of bubble sort
  239, 27, 1, 140, 219, 250, 71, 70, 31, 13, 184, 3, 107, 78, 248, 7,
  \* 90: bubble sort: menu
  opCLR(R0), opJSR(0), opADDi(R6, R7, -16), opADDi(R6, R6, -2), opPSE(1023),
  opLDR(R1, R0, inSW), opBR(z, -3), opDEC(R1), opBR(np, 2), opJSR(9),
  opBR(nzp, -7), opDEC(R1), opBR(np, 2), opJSR(15), opBR(nzp, -11), opDEC(R1),
  opBR(np, -13), opJSR(29), opBR(nzp, -15),
  \* 109: entry function
  opCLR(R1), opSTR(R1, R0, outHEX), opPSE(3073), opLDR(R2, R0, inSW),
  opADD(R5, R6, R1), opSTR(R2, R5, 0), opINC(R1), opADDi(R3, R1, -16),
  opBR(n, -8), opRET,
  \* 119: sort function
  opADDi(R1, R0, -16), opADDi(R2, R0, 1), opADD(R3, R6, R2),
  opLDR(R4, R3, -1), opLDR(R5, R3, 0), opNOT(R5, R5), opADDi(R5, R5, 1),
  opADD(R5, R4, R5), opBR(nz, 3), opLDR(R5, R3, 0), opSTR(R5, R3, -1),
  opSTR(R4, R3, 0), opINC(R2), opADD(R3, R1, R2), opBR(n, -13), opINC(R1),
  opBR(n, -16), opRET,
  \* 137: display function
  opCLR(R1), opADD(R4, R7, R0), opJSR(0), opADD(R5, R7, R0),
  opADD(R7, R4, R0), opLDR(R3, R5, 15), opADDi(R2, R0, 8), opADD(R2, R2, R2),
  opADD(R4, R6, R1), opLDR(R4, R4, 0), opSTR(R4, R0, outHEX), opPSE(2050),
  opADD(R3, R3, R2), opSTR(R3, R5, 8), opINC(R1), opADDi(R4, R1, -16),
  opBR(n, -9), opRET, opPSE(2050)
>>

\* The words after the listing are cleared.
memory_contents ==
  [a \in 0 .. 255 |-> IF a < Len(Listing) THEN Listing[a + 1] ELSE 0]

\* Where the programs start and where their checkpoints are.
XorStart == 20
XorCheckpoint == 34
MultiplierStart == 49
MultiplierOperand1 == 55
MultiplierCheckpoint == 71
SortData == 74 .. 89
SortStart == 90
SortMenu == 94
SortFunction == 119
SortReturn == 104
DisplayCheckpoint == 148
====
