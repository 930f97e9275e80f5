---- MODULE SLC3ISA ----
(* What a program sees of the SLC-3: one step is one instruction.  The effects *)
(* are those the comments of SLC3_2.sv give for each instruction function;     *)
(* encodings that file does not produce (other opcodes, JSR with bit 11 clear) *)
(* do what the sequencer makes of them.  Cells of memory alias as they do in   *)
(* test_memory.sv, and address xFFFF is Mem2IO's.                              *)
EXTENDS SLC3Words

CONSTANTS MemSize, Images, Switches

VARIABLES
  mode,          \* "halted", "running", "paused", "resuming"
  pc,            \* address of the next instruction
  reg, cc,       \* registers and condition codes
  mem, hex,      \* memory and the word on the hex display
  img            \* the image that Reset reloads

isavars == <<mode, pc, reg, cc, mem, hex, img>>

Init ==
  /\ mode = "halted" /\ pc = 0 /\ reg = [r \in RegNum |-> 0] /\ cc = NoFlags
  /\ hex = 0 /\ img \in Images /\ mem = img

\* The words a read of address a may return.
WordsAt(a) == IF a = IOAddr THEN Switches ELSE {mem[a % MemSize]}

Next1 == Add(pc, 1)
EffectiveAddress(w) == Add(reg[IR_8_6(w)], Sext6(w))

\* DR gets the value v and the condition codes describe it.
SetReg(w, v) ==
  /\ reg' = [reg EXCEPT ![IR_11_9(w)] = v]
  /\ cc' = FlagsOf(v)
  /\ pc' = Next1
  /\ UNCHANGED <<mem, hex, mode>>

Operand2(w) == IF IR_5(w) THEN Sext5(w) ELSE reg[SR2(w)]

opADD(w) == Opcode(w) = 1 /\ SetReg(w, Add(reg[IR_8_6(w)], Operand2(w)))
opAND(w) == Opcode(w) = 5 /\ SetReg(w, And(reg[IR_8_6(w)], Operand2(w)))
opNOT(w) == Opcode(w) = 9 /\ SetReg(w, Not(reg[IR_8_6(w)]))
opLDR(w) == Opcode(w) = 6 /\ \E v \in WordsAt(EffectiveAddress(w)) : SetReg(w, v)

\* Mutant: the display decodes the base register, not the address.
MutSTR(w) ==
  /\ Opcode(w) = 7
  /\ mem' = [mem EXCEPT ![EffectiveAddress(w) % MemSize] = reg[IR_11_9(w)]]
  /\ hex' = IF reg[IR_8_6(w)] = IOAddr THEN reg[IR_11_9(w)] ELSE hex
  /\ pc' = Next1
  /\ UNCHANGED <<reg, cc, mode>>

opSTR(w) ==
  /\ Opcode(w) = 7
  /\ mem' = [mem EXCEPT ![EffectiveAddress(w) % MemSize] = reg[IR_11_9(w)]]
  /\ hex' = IF EffectiveAddress(w) = IOAddr THEN reg[IR_11_9(w)] ELSE hex
  /\ pc' = Next1
  /\ UNCHANGED <<reg, cc, mode>>

opBR(w) ==
  /\ Opcode(w) = 0
  /\ pc' = IF Condition(w, cc) THEN Add(Next1, Sext9(w)) ELSE Next1
  /\ UNCHANGED <<mode, reg, cc, mem, hex>>

opJMP(w) ==
  /\ Opcode(w) = 12
  /\ pc' = reg[IR_8_6(w)]
  /\ UNCHANGED <<mode, reg, cc, mem, hex>>

opJSR(w) ==
  /\ Opcode(w) = 4
  /\ reg' = [reg EXCEPT ![IF IR_11(w) THEN 7 ELSE IR_11_9(w)] = Next1]
  /\ pc' = Add(Next1, Sext11(w))
  /\ UNCHANGED <<mode, cc, mem, hex>>

opPSE(w) ==
  /\ Opcode(w) = 13
  /\ mode' = "paused" /\ pc' = Next1
  /\ UNCHANGED <<reg, cc, mem, hex>>

Reserved(w) ==
  /\ Opcode(w) \in {2, 3, 8, 10, 11, 14, 15}
  /\ pc' = Next1
  /\ UNCHANGED <<mode, reg, cc, mem, hex>>

Execute(w) ==
  \/ opADD(w) \/ opAND(w) \/ opNOT(w) \/ opLDR(w) \/ opSTR(w)
  \/ opBR(w) \/ opJMP(w) \/ opJSR(w) \/ opPSE(w) \/ Reserved(w)

----
Step == mode = "running" /\ img' = img /\ \E w \in WordsAt(pc) : Execute(w)

\* Run starts the program; Continue, pressed and then released, ends a pause.
Button(from, to) ==
  mode = from /\ mode' = to /\ UNCHANGED <<pc, reg, cc, mem, hex, img>>

Run == Button("halted", "running")
Press == Button("paused", "resuming")
Release == Button("resuming", "running")

\* Reset clears all but the condition codes, which no reset wire reaches: an
\* instruction that is setting them at the edge still does.
Reset ==
  /\ mode' = "halted" /\ pc' = 0 /\ reg' = [r \in RegNum |-> 0] /\ hex' = 0
  /\ mem' = img /\ img' = img
  /\ cc' \in {cc} \cup {{"N"}, {"Z"}, {"P"}}

Next == Run \/ Press \/ Release \/ Step \/ Reset

Spec == Init /\ [][Next]_isavars
====
