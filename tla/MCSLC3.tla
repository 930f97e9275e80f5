---- MODULE MCSLC3 ----
(* Small instances of the processor: four words of memory, so that the address *)
(* of the switches aliases the last one, and all programs built from a choice  *)
(* of instructions for each cell.                                              *)
EXTENDS SLC3Refinement

A == INSTANCE SLC3Asm

MCMemSize == 4
MCSwitches == {0, 2, 40000}

\* Every opcode, both operand forms, reads and writes of the switches and of
\* the program itself, forward and backward control transfers.
First == {A!opINC(1), A!opNOT(1, 1), A!opLDR(1, 0, A!inSW), A!opJSR(1),
          A!opPSE(5), A!opADD(1, 1, 2), 57344}
Second == {A!opSTR(1, 0, A!outHEX), A!opSTR(1, 0, 2), A!opBR(A!zp, 1),
           A!opAND(2, 1, 7), A!opLDR(2, 0, 2), A!opANDi(1, 1, -2)}
Third == {A!opBR(A!n, -2), A!opSTR(2, 1, 0), A!opRET, A!opJMP(1), A!opJSR(-3)}
Fourth == {A!opBR(A!nzp, -4), A!opDEC(1)}

\* Three programs that go round for ever within the bounds below: the switches
\* echoed with a pause, and a walk over the reserved opcodes.
Echo == <<A!opPSE(1), A!opLDR(1, 0, A!inSW), A!opSTR(1, 0, A!outHEX), A!opBR(A!nzp, -4)>>
Reserved == {<<8192, 12288, 32768, A!opJMP(0)>>, <<40960, 45056, 61440, A!opJMP(0)>>}

MCImages == {[a \in 0 .. 3 |-> prog[a + 1]] :
               prog \in (First \X Second \X Third \X Fourth) \cup {Echo} \cup Reserved}

\* Bounds: the program counter stays within MaxPC words of address 0, and the
\* counting registers stay small (words loaded from the switches may be large).
MaxPC == 5
MaxCount == 2
Near(w, k) == w <= k \/ w >= WordMod - k
InBounds == /\ Near(PC, MaxPC)
            /\ Near(R[1], MaxCount) \/ R[1] \in MCSwitches

====
