---- MODULE SLC3 ----
(* The SLC-3 processor of Lab6, clock edge by clock edge: the instruction      *)
(* sequencer (ISDU.sv), the datapath, the memory and I/O controller (Mem2IO),  *)
(* the registered tristate buffer and the SRAM model test_memory.sv.  The      *)
(* control signals are functions of State, as in the second case statement of  *)
(* ISDU.sv; one step of the specification is one rising edge of Clk.           *)
EXTENDS SLC3Words

CONSTANTS
  MemSize,        \* words of the SRAM model (parameter size of test_memory)
  Images,         \* the memory images that memory_contents.dat may hold
  Switches,       \* the words the slide switches S may show at a clock edge
  Undef           \* a wire that nobody drives (Z on the bus, X on the Path)

ASSUME MemSizeAssumption == MemSize \in 1 .. WordMod
ASSUME ImagesAssumption == Images \subseteq [0 .. MemSize - 1 -> Word]
ASSUME SwitchesAssumption == Switches \subseteq Word /\ Switches # {}
ASSUME UndefAssumption == Undef \notin Word

VARIABLES
  State,                                   \* ISDU
  PC, IR, MAR, MDR, R, NZP, BEN, LED,      \* datapath registers
  hex_data,                                \* Mem2IO
  Data_read_buffer, Data_write_buffer,     \* tristate
  mem_array,                               \* test_memory
  image                                    \* the contents of memory_contents.dat

vars == <<State, PC, IR, MAR, MDR, R, NZP, BEN, LED, hex_data,
          Data_read_buffer, Data_write_buffer, mem_array, image>>

PauseStates == {"PauseIR1", "PauseIR2", "PAUSE1", "PAUSE2"}
FetchStates == {"S_18", "S_33_1", "S_33_2", "S_35", "S_32"}
OperateStates == {"S_01", "AND", "NOT"}
ControlStates == {"BR", "S_22", "JMP", "JSR", "S_21"}
LoadStates == {"LDR", "S_25_1", "S_25_2", "S_27"}
StoreStates == {"STR", "S_23", "S_16_1", "S_16_2"}
States == {"Halted"} \cup PauseStates \cup FetchStates \cup OperateStates
          \cup ControlStates \cup LoadStates \cup StoreStates

Address == 0 .. MemSize - 1
Cell(a) == a % MemSize      \* actual_address: the SRAM model decodes the low bits only

----
\* ISDU: the control signals each state raises (ISDU.sv, second case statement).
\* The memory enables are active low, as in the code.
LD_MAR == State \in {"S_18", "LDR", "STR"}
MutLD_MDR == State \in {"S_33_1", "S_25_1", "S_23"}   \* mutant: one cycle early
LD_MDR == State \in {"S_33_2", "S_25_2", "S_23"}
LD_IR  == State = "S_35"
MutLD_BEN == State = "S_35"                            \* mutant: before IR is loaded
LD_BEN == State = "S_32"
MutLD_CC == State \in {"S_01", "AND", "NOT"}           \* mutant: loads forgotten
LD_CC  == State \in {"S_01", "AND", "NOT", "S_27"}
LD_REG == State \in {"S_01", "AND", "NOT", "S_27", "JSR"}
LD_PC  == State \in {"S_18", "S_21", "JMP", "S_22"}
LD_LED == State = "PAUSE1"

GatePC     == State \in {"S_18", "JSR"}
GateMDR    == State \in {"S_35", "S_27"}
GateALU    == State \in {"S_01", "AND", "NOT", "S_23"}
GateMARMUX == State \in {"LDR", "STR"}

MutMem_OE == State \notin {"S_33_2", "S_25_2"}         \* mutant: one-cycle read
Mem_OE == State \notin {"S_33_1", "S_33_2", "S_25_1", "S_25_2"}
MutMem_WE == State # "S_16_1"                          \* mutant: one-cycle write
Mem_WE == State \notin {"S_16_1", "S_16_2"}
MIO_EN == ~Mem_OE

\* The successor of S_32, by opcode (SLC3_2.sv names the opcodes).
Operation(op) ==
  IF op = 1 THEN "S_01"
  ELSE IF op = 5 THEN "AND"
  ELSE IF op = 9 THEN "NOT"
  ELSE IF op = 0 THEN "BR"
  ELSE IF op = 12 THEN "JMP"
  ELSE IF op = 4 THEN "JSR"
  ELSE IF op = 6 THEN "LDR"
  ELSE IF op = 7 THEN "STR"
  ELSE "PAUSE1"

Opcodes == {0, 1, 4, 5, 6, 7, 9, 12, 13}

\* Mutant: no default branch, so that Next_state keeps its default, State.
MutDecode == IF Opcode(IR) \in Opcodes THEN Operation(Opcode(IR)) ELSE State
Decode == IF Opcode(IR) \in Opcodes THEN Operation(Opcode(IR)) ELSE "S_18"

\* The first case statement of ISDU.sv; run and cont are the buttons, active high.
Next_state(run, cont) ==
  \/ State = "Halted"   /\ State' = IF run THEN "S_18" ELSE "Halted"
  \/ State = "S_18"     /\ State' = "S_33_1"
  \/ State = "S_33_1"   /\ State' = "S_33_2"
  \/ State = "S_33_2"   /\ State' = "S_35"
  \/ State = "S_35"     /\ State' = "S_32"
  \/ State = "S_32"     /\ State' = Decode
  \/ State = "PauseIR1" /\ State' = IF cont THEN "PauseIR2" ELSE "PauseIR1"
  \/ State = "PauseIR2" /\ State' = IF cont THEN "PauseIR2" ELSE "S_32"
  \/ State = "PAUSE1"   /\ State' = IF cont THEN "PAUSE2" ELSE "PAUSE1"
  \/ State = "PAUSE2"   /\ State' = IF cont THEN "PAUSE2" ELSE "S_18"
  \/ State = "BR"       /\ State' = IF BEN THEN "S_22" ELSE "S_18"
  \/ State = "JSR"      /\ State' = "S_21"
  \/ State = "LDR"      /\ State' = "S_25_1"
  \/ State = "S_25_1"   /\ State' = "S_25_2"
  \/ State = "S_25_2"   /\ State' = "S_27"
  \/ State = "STR"      /\ State' = "S_23"
  \/ State = "S_23"     /\ State' = "S_16_1"
  \/ State = "S_16_1"   /\ State' = "S_16_2"
  \/ /\ State \in {"S_01", "AND", "NOT", "S_22", "JMP", "S_21", "S_27", "S_16_2"}
     /\ State' = "S_18"

----
\* Datapath: the combinational wires of datapath.sv.
Base_R == R[IF State \in {"S_01", "AND", "NOT", "LDR", "STR", "JMP"}
            THEN IR_8_6(IR) ELSE IR_11_9(IR)]                  \* SR1MUX

SR2Mux_Out == IF State \in {"S_01", "AND"} /\ IR_5(IR)         \* SR2MUX
              THEN Sext5(IR) ELSE R[SR2(IR)]

ALU_New == IF State = "AND" THEN And(Base_R, SR2Mux_Out)        \* ALUK
           ELSE IF State = "NOT" THEN Not(Base_R)
           ELSE IF State = "S_23" THEN Base_R
           ELSE Add(Base_R, SR2Mux_Out)

ADDR1_Out == IF State \in {"LDR", "STR", "JMP"} THEN Base_R ELSE PC

ADDR2_Out == IF State \in {"LDR", "STR"} THEN Sext6(IR)
             ELSE IF State = "S_22" THEN Sext9(IR)
             ELSE IF State = "S_21" THEN Sext11(IR)
             ELSE 0

Adder_Out == Add(ADDR2_Out, ADDR1_Out)

\* The bus of the datapath: one gate open, or the don't-care of gatemux.sv.
Path ==
  IF GatePC /\ ~(GateMDR \/ GateALU \/ GateMARMUX) THEN PC
  ELSE IF GateMDR /\ ~(GatePC \/ GateALU \/ GateMARMUX) THEN MDR
  ELSE IF GateALU /\ ~(GatePC \/ GateMDR \/ GateMARMUX) THEN ALU_New
  ELSE IF GateMARMUX /\ ~(GatePC \/ GateMDR \/ GateALU) THEN Adder_Out
  ELSE Undef

PC_Entry == IF State \in {"S_21", "JMP", "S_22"} THEN Adder_Out ELSE Add(PC, 1)

MutDR_Out == IR_11_9(IR)                               \* mutant: no DRMUX
DR_Out == IF State = "JSR" /\ IR_11(IR) THEN 7 ELSE IR_11_9(IR)   \* DRMUX

\* The three one-bit products of BEN unit.sv are added in one bit: exclusive or.
BENIn == ((TestN(IR) /\ "N" \in NZP) # (TestZ(IR) /\ "Z" \in NZP))
         # (TestP(IR) /\ "P" \in NZP)

----
\* Memory side.  Data is the pin bus between the tristate buffer and the SRAM.
Data == IF ~Mem_OE /\ Mem_WE THEN mem_array[Cell(MAR)]
        ELSE IF ~Mem_WE THEN Data_write_buffer
        ELSE Undef

\* Mem2IO: what the CPU reads while the switches show sw.
Data_to_CPU(sw) == IF Mem_WE /\ ~Mem_OE
                   THEN IF MAR = IOAddr THEN sw ELSE Data_read_buffer
                   ELSE 0

MDR_Entry(sw) == IF MIO_EN THEN Data_to_CPU(sw) ELSE Path

----
\* The registers that a clock edge updates whether or not Reset is pressed.
Unreset ==
  /\ NZP' = IF LD_CC THEN FlagsOf(Path) ELSE NZP
  /\ BEN' = IF LD_BEN THEN BENIn ELSE BEN
  /\ LED' = IF LD_LED THEN IR % 4096 ELSE 0
  /\ Data_read_buffer' = Data
  /\ Data_write_buffer' = MDR
  /\ image' = image

\* A rising clock edge with Reset released.
Clk(sw, run, cont) ==
  /\ Next_state(run, cont)
  /\ PC' = IF LD_PC THEN PC_Entry ELSE PC
  /\ IR' = IF LD_IR THEN Path ELSE IR
  /\ MAR' = IF LD_MAR THEN Path ELSE MAR
  /\ MDR' = IF LD_MDR THEN MDR_Entry(sw) ELSE MDR
  /\ R' = IF LD_REG THEN [R EXCEPT ![DR_Out] = Path] ELSE R
  /\ hex_data' = IF ~Mem_WE /\ MAR = IOAddr THEN MDR ELSE hex_data
  /\ mem_array' = IF ~Mem_WE THEN [mem_array EXCEPT ![Cell(MAR)] = Data]
                  ELSE mem_array
  /\ Unreset

\* A rising clock edge with Reset pressed: test_memory.sv reloads its image.
Reset ==
  /\ State' = "Halted"
  /\ PC' = 0 /\ IR' = 0 /\ MAR' = 0 /\ MDR' = 0
  /\ R' = [r \in RegNum |-> 0]
  /\ hex_data' = 0
  /\ mem_array' = image
  /\ Unreset

\* The buttons and the switches may be in any position at any edge.
Edge == \E sw \in Switches, run, cont \in BOOLEAN : Clk(sw, run, cont)

Halted  == State = "Halted" /\ Edge
Pause   == State \in PauseStates /\ Edge
Fetch   == State \in FetchStates /\ Edge
Operate == State \in OperateStates /\ Edge
Control == State \in ControlStates /\ Edge
Load    == State \in LoadStates /\ Edge
Store   == State \in StoreStates /\ Edge

Init ==
  /\ State = "Halted"
  /\ PC = 0 /\ IR = 0 /\ MAR = 0 /\ MDR = 0
  /\ R = [r \in RegNum |-> 0]
  /\ NZP = NoFlags /\ BEN = FALSE /\ LED = 0
  /\ hex_data = 0
  /\ Data_read_buffer = 0 /\ Data_write_buffer = 0
  /\ image \in Images
  /\ mem_array = image

Next == Reset \/ Halted \/ Pause \/ Fetch \/ Operate \/ Control \/ Load \/ Store

Spec == Init /\ [][Next]_vars

\* The clock never stops ticking; nobody is obliged to press a button.
LiveSpec == Spec /\ WF_vars(Edge)

----
\* Type invariant.  Under it no register but the bus buffer ever holds a word
\* that nobody drove: Undef is a value of Data_read_buffer alone.
TypeOK ==
  /\ State \in States
  /\ PC \in Word /\ IR \in Word /\ MAR \in Word /\ MDR \in Word
  /\ R \in [RegNum -> Word]
  /\ NZP \in Flags /\ BEN \in BOOLEAN /\ LED \in 0 .. 4095
  /\ hex_data \in Word
  /\ Data_read_buffer \in Word \cup {Undef}
  /\ Data_write_buffer \in Word
  /\ mem_array \in [Address -> Word]
  /\ image \in Images

\* The address of the instruction in flight: PC was incremented in S_18.
Fetched == Add(PC, WordMod - 1)

\* States in which the word fetched for this instruction is still in memory.
BeforeWrite == {"S_32"} \cup OperateStates \cup ControlStates \cup LoadStates
               \cup (StoreStates \ {"S_16_2"}) \cup {"PAUSE1", "PAUSE2"}

\* Two SRAM cycles are enough: the word the processor takes from the bus is the
\* word at the address in MAR, although it passes through a buffer that is a
\* clock late, and the instruction executed is the one memory holds at its
\* address until it overwrites itself.
ReadsCurrentWord ==
  /\ State \in {"S_33_1", "S_33_2", "S_35"} => MAR = Fetched
  /\ State \in {"S_33_2", "S_25_2"} => Data_read_buffer = mem_array[Cell(MAR)]
  /\ State \in {"S_35", "S_27"} /\ MAR # IOAddr => MDR = mem_array[Cell(MAR)]
  /\ State \in BeforeWrite /\ Fetched # IOAddr => IR = mem_array[Cell(Fetched)]

\* The branch decision is loaded one state before it is used and by an adder one
\* bit wide; it still equals the documented condition on the codes as they are
\* when the branch is taken (SLC3_2.sv, opBR).
BranchDecisionIsCurrent == State = "BR" => (BEN <=> Condition(IR, NZP))

\* After an instruction that sets the condition codes, and until the next one is
\* in IR, the codes describe the register that it wrote: a load reaches both
\* through the same bus, with no stale intermediate.
CodesDescribeResult ==
  State \in {"S_18", "S_33_1", "S_33_2", "S_35"} /\ Opcode(IR) \in {1, 5, 6, 9}
    => NZP = FlagsOf(R[IR_11_9(IR)])

\* Memory changes only in the cell that the STR in IR names (or by Reset), and
\* when the store ends the cell holds the source register: the first write
\* cycle, which still drives the word of an earlier transfer, leaves no trace.
StoreCell == Cell(Add(R[IR_8_6(IR)], Sext6(IR)))
StoreWritesItsOperand ==
  [][/\ \A a \in Address : mem_array'[a] # mem_array[a] =>
          \/ Reset
          \/ Opcode(IR) = 7 /\ a = StoreCell
     /\ State = "S_16_2" => Reset \/ mem_array'[StoreCell] = R[IR_11_9(IR)]]_vars

\* Every instruction ends: the sequencer gets back to a fetch, to a pause or,
\* by Reset, to Halted, and never rests in a state it forgot to leave.
InstructionCompletes ==
  State = "S_33_1" ~> State \in {"S_18", "PAUSE1", "Halted"}

----
\* The inductive invariant of the proofs: besides the invariants above, which
\* state executes which opcode, where the words of a transfer in flight are, and
\* that a read of the switches returned one of their positions.
OpcodeOfState ==
  /\ State \notin {"PauseIR1", "PauseIR2"}
  /\ State = "Halted" => Opcode(IR) = 0
  /\ State = "S_01" => Opcode(IR) = 1
  /\ State = "AND" => Opcode(IR) = 5
  /\ State = "NOT" => Opcode(IR) = 9
  /\ State \in {"BR", "S_22"} => Opcode(IR) = 0
  /\ State = "JMP" => Opcode(IR) = 12
  /\ State \in {"JSR", "S_21"} => Opcode(IR) = 4
  /\ State \in LoadStates => Opcode(IR) = 6
  /\ State \in StoreStates => Opcode(IR) = 7
  /\ State \in {"PAUSE1", "PAUSE2"} => Opcode(IR) = 13

TransferInFlight ==
  /\ State \in (LoadStates \cup StoreStates) \ {"LDR", "STR"}
       => MAR = Add(R[IR_8_6(IR)], Sext6(IR))
  /\ State \in {"S_16_1", "S_16_2"} => MDR = R[IR_11_9(IR)]
  /\ State = "S_16_2" => Data_write_buffer = MDR

SwitchReads ==
  /\ State \in {"S_35", "S_27"} /\ MAR = IOAddr => MDR \in Switches
  /\ State \in BeforeWrite /\ Fetched = IOAddr => IR \in Switches

AtMostOneFlag == NZP \in {NoFlags, {"N"}, {"Z"}, {"P"}}

IInv == /\ TypeOK /\ OpcodeOfState /\ TransferInFlight
        /\ ReadsCurrentWord /\ SwitchReads
        /\ AtMostOneFlag /\ BranchDecisionIsCurrent /\ CodesDescribeResult
====
