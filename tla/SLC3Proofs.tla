---- MODULE SLC3Proofs ----
(* Theorems about the clocked processor of SLC3.tla for every memory size,      *)
(* every set of memory images and every set of switch positions.  The first     *)
(* section says what one edge does in each state of the sequencer; the second   *)
(* states the inductive invariant; the third proves it; the fourth draws the    *)
(* properties from it; the last ones show that each edge is one instruction of  *)
(* SLC3ISA, one button, a reset, or nothing that a program can see.              *)
EXTENDS SLC3Refinement, SLC3WordProofs

----
\* What an edge does, state by state.  Halted and the pauses only move State.
IdleStates == {"Halted", "PAUSE1", "PAUSE2", "BR"}

\* Halted, the pauses and BR only move State.
LEMMA IdleStep ==
  ASSUME NEW sw, NEW run, NEW cont, Clk(sw, run, cont), State \in IdleStates
  PROVE  /\ PC' = PC /\ IR' = IR /\ MAR' = MAR /\ MDR' = MDR /\ R' = R /\ NZP' = NZP
         /\ BEN' = BEN /\ hex_data' = hex_data /\ mem_array' = mem_array
         /\ State = "Halted" => State' = IF run THEN "S_18" ELSE "Halted"
         /\ State = "PAUSE1" => State' = IF cont THEN "PAUSE2" ELSE "PAUSE1"
         /\ State = "PAUSE2" => State' = IF cont THEN "PAUSE2" ELSE "S_18"
         /\ State = "BR" => State' = IF BEN THEN "S_22" ELSE "S_18"
  BY DEF Clk, IdleStates, Unreset, Next_state, LD_MAR, LD_MDR, LD_IR, LD_BEN, LD_CC,
         LD_REG, LD_PC, Mem_WE

\* The five states of a fetch: address, two read cycles, IR, and the dispatch.
LEMMA FetchStep ==
  ASSUME NEW sw, NEW run, NEW cont, Clk(sw, run, cont), State \in FetchStates
  PROVE  /\ R' = R /\ NZP' = NZP /\ hex_data' = hex_data /\ mem_array' = mem_array
         /\ State = "S_18" =>
              /\ State' = "S_33_1" /\ PC' = Add(PC, 1) /\ MAR' = PC
              /\ IR' = IR /\ MDR' = MDR /\ BEN' = BEN
         /\ State = "S_33_1" =>
              /\ State' = "S_33_2" /\ Data_read_buffer' = mem_array[Cell(MAR)]
              /\ PC' = PC /\ MAR' = MAR /\ IR' = IR /\ MDR' = MDR /\ BEN' = BEN
         /\ State = "S_33_2" =>
              /\ State' = "S_35"
              /\ MDR' = IF MAR = IOAddr THEN sw ELSE Data_read_buffer
              /\ PC' = PC /\ MAR' = MAR /\ IR' = IR /\ BEN' = BEN
         /\ State = "S_35" =>
              /\ State' = "S_32" /\ IR' = MDR
              /\ PC' = PC /\ MAR' = MAR /\ MDR' = MDR /\ BEN' = BEN
         /\ State = "S_32" =>
              /\ State' = Decode /\ BEN' = BENIn
              /\ PC' = PC /\ MAR' = MAR /\ MDR' = MDR /\ IR' = IR
  BY DEF Clk, FetchStates, Unreset, Next_state, LD_MAR, LD_MDR, LD_IR, LD_BEN, LD_CC,
         LD_REG, LD_PC, Mem_WE, Mem_OE, MIO_EN, Path, GatePC, GateMDR, GateALU,
         GateMARMUX, PC_Entry, MDR_Entry, Data_to_CPU, Data

\* ADD, AND and NOT write their result and its codes at one edge.
LEMMA OperateStep ==
  ASSUME NEW sw, NEW run, NEW cont, Clk(sw, run, cont), State \in OperateStates
  PROVE  /\ State' = "S_18" /\ PC' = PC /\ IR' = IR /\ MAR' = MAR /\ MDR' = MDR
         /\ BEN' = BEN /\ hex_data' = hex_data /\ mem_array' = mem_array
         /\ Base_R = R[IR_8_6(IR)]
         /\ R' = [R EXCEPT ![IR_11_9(IR)] = ALU_New] /\ NZP' = FlagsOf(ALU_New)
         /\ State = "S_01" => ALU_New = Add(Base_R, SR2Mux_Out)
         /\ State = "AND" => ALU_New = And(Base_R, SR2Mux_Out)
         /\ State = "NOT" => ALU_New = Not(Base_R)
         /\ State # "NOT" => SR2Mux_Out = IF IR_5(IR) THEN Sext5(IR) ELSE R[SR2(IR)]
  <1>1. Path = ALU_New /\ DR_Out = IR_11_9(IR) /\ Base_R = R[IR_8_6(IR)]
    BY DEF OperateStates, Path, GatePC, GateMDR, GateALU, GateMARMUX, DR_Out, Base_R
  <1>2. LD_REG /\ LD_CC /\ ~LD_PC /\ ~LD_IR /\ ~LD_MAR /\ ~LD_MDR /\ ~LD_BEN /\ Mem_WE
    BY DEF OperateStates, LD_REG, LD_CC, LD_PC, LD_IR, LD_MAR, LD_MDR, LD_BEN, Mem_WE
  <1>3. State' = "S_18"
    BY DEF Clk, OperateStates, Next_state
  <1> QED
    BY <1>1, <1>2, <1>3 DEF OperateStates, Clk, Unreset, ALU_New, SR2Mux_Out

\* Jumps load PC through the address adder; JSR links first.
LEMMA ControlStep ==
  ASSUME NEW sw, NEW run, NEW cont, Clk(sw, run, cont),
         State \in ControlStates \ {"BR"}
  PROVE  /\ IR' = IR /\ MAR' = MAR /\ MDR' = MDR /\ NZP' = NZP /\ BEN' = BEN
         /\ hex_data' = hex_data /\ mem_array' = mem_array
         /\ State = "S_22" =>
              State' = "S_18" /\ R' = R /\ PC' = Add(Sext9(IR), PC)
         /\ State = "JMP" =>
              State' = "S_18" /\ R' = R /\ PC' = Add(0, R[IR_8_6(IR)])
         /\ State = "S_21" =>
              State' = "S_18" /\ R' = R /\ PC' = Add(Sext11(IR), PC)
         /\ State = "JSR" =>
              /\ State' = "S_21" /\ PC' = PC
              /\ R' = [R EXCEPT ![IF IR_11(IR) THEN 7 ELSE IR_11_9(IR)] = PC]
  <1>1. ~LD_CC /\ ~LD_IR /\ ~LD_MAR /\ ~LD_MDR /\ ~LD_BEN /\ Mem_WE
    BY DEF ControlStates, LD_CC, LD_IR, LD_MAR, LD_MDR, LD_BEN, Mem_WE
  <1>2. CASE State = "JSR"
    <2>1. Path = PC /\ DR_Out = IF IR_11(IR) THEN 7 ELSE IR_11_9(IR)
      BY <1>2 DEF Path, GatePC, GateMDR, GateALU, GateMARMUX, DR_Out
    <2> QED
      BY <1>1, <1>2, <2>1 DEF Clk, Unreset, Next_state, LD_REG, LD_PC
  <1>3. CASE State \in {"S_22", "JMP", "S_21"}
    <2>1. ~LD_REG /\ LD_PC /\ PC_Entry = Adder_Out
      BY <1>3 DEF LD_REG, LD_PC, PC_Entry
    <2> QED
      BY <1>1, <1>3, <2>1 DEF Clk, Unreset, Next_state, Adder_Out, ADDR1_Out, ADDR2_Out,
         Base_R
  <1> QED
    BY <1>2, <1>3 DEF ControlStates

\* A load: address, two read cycles, and the register with its codes.
LEMMA LoadStep ==
  ASSUME NEW sw, NEW run, NEW cont, Clk(sw, run, cont), State \in LoadStates
  PROVE  /\ PC' = PC /\ IR' = IR /\ BEN' = BEN
         /\ hex_data' = hex_data /\ mem_array' = mem_array
         /\ State = "LDR" =>
              /\ State' = "S_25_1" /\ MAR' = Add(Sext6(IR), R[IR_8_6(IR)])
              /\ MDR' = MDR /\ R' = R /\ NZP' = NZP
         /\ State = "S_25_1" =>
              /\ State' = "S_25_2" /\ Data_read_buffer' = mem_array[Cell(MAR)]
              /\ MAR' = MAR /\ MDR' = MDR /\ R' = R /\ NZP' = NZP
         /\ State = "S_25_2" =>
              /\ State' = "S_27" /\ MAR' = MAR /\ R' = R /\ NZP' = NZP
              /\ MDR' = IF MAR = IOAddr THEN sw ELSE Data_read_buffer
         /\ State = "S_27" =>
              /\ State' = "S_18" /\ MAR' = MAR /\ MDR' = MDR
              /\ R' = [R EXCEPT ![IR_11_9(IR)] = MDR] /\ NZP' = FlagsOf(MDR)
  <1>1. ~LD_PC /\ ~LD_IR /\ ~LD_BEN /\ Mem_WE
    BY DEF LoadStates, LD_PC, LD_IR, LD_BEN, Mem_WE
  <1>2. CASE State = "LDR"
    <2>1. Path = Add(Sext6(IR), R[IR_8_6(IR)])
      BY <1>2 DEF Path, GatePC, GateMDR, GateALU, GateMARMUX, Adder_Out, ADDR1_Out,
         ADDR2_Out, Base_R
    <2> QED
      BY <1>1, <1>2, <2>1 DEF Clk, Unreset, Next_state, LD_REG, LD_CC, LD_MAR, LD_MDR
  <1>3. CASE State \in {"S_25_1", "S_25_2"}
    BY <1>1, <1>3 DEF Clk, Unreset, Next_state, LD_REG, LD_CC, LD_MAR, LD_MDR, MDR_Entry,
       MIO_EN, Mem_OE, Data_to_CPU, Data
  <1>4. CASE State = "S_27"
    <2>1. Path = MDR /\ DR_Out = IR_11_9(IR)
      BY <1>4 DEF Path, GatePC, GateMDR, GateALU, GateMARMUX, DR_Out
    <2> QED
      BY <1>1, <1>4, <2>1 DEF Clk, Unreset, Next_state, LD_REG, LD_CC, LD_MAR, LD_MDR
  <1> QED
    BY <1>2, <1>3, <1>4 DEF LoadStates

\* A store: address, the word, and two write cycles that drive the buffer.
LEMMA StoreStep ==
  ASSUME NEW sw, NEW run, NEW cont, Clk(sw, run, cont), State \in StoreStates
  PROVE  /\ PC' = PC /\ IR' = IR /\ BEN' = BEN /\ R' = R /\ NZP' = NZP
         /\ State = "STR" =>
              /\ State' = "S_23" /\ MAR' = Add(Sext6(IR), R[IR_8_6(IR)])
              /\ MDR' = MDR /\ hex_data' = hex_data /\ mem_array' = mem_array
         /\ State = "S_23" =>
              /\ State' = "S_16_1" /\ MAR' = MAR /\ MDR' = R[IR_11_9(IR)]
              /\ hex_data' = hex_data /\ mem_array' = mem_array
         /\ State \in {"S_16_1", "S_16_2"} =>
              /\ State' = IF State = "S_16_1" THEN "S_16_2" ELSE "S_18"
              /\ MAR' = MAR /\ MDR' = MDR
              /\ hex_data' = IF MAR = IOAddr THEN MDR ELSE hex_data
              /\ mem_array' = [mem_array EXCEPT ![Cell(MAR)] = Data_write_buffer]
  <1>1. ~LD_PC /\ ~LD_IR /\ ~LD_BEN /\ ~LD_REG /\ ~LD_CC
    BY DEF StoreStates, LD_PC, LD_IR, LD_BEN, LD_REG, LD_CC
  <1>2. CASE State = "STR"
    <2>1. Path = Add(Sext6(IR), R[IR_8_6(IR)])
      BY <1>2 DEF Path, GatePC, GateMDR, GateALU, GateMARMUX, Adder_Out, ADDR1_Out,
         ADDR2_Out, Base_R
    <2> QED
      BY <1>1, <1>2, <2>1 DEF Clk, Unreset, Next_state, LD_MAR, LD_MDR, Mem_WE
  <1>3. CASE State = "S_23"
    <2>1. Path = R[IR_11_9(IR)] /\ ~MIO_EN
      BY <1>3 DEF Path, GatePC, GateMDR, GateALU, GateMARMUX, ALU_New, Base_R, MIO_EN,
         Mem_OE
    <2> QED
      BY <1>1, <1>3, <2>1 DEF Clk, Unreset, Next_state, LD_MAR, LD_MDR, Mem_WE, MDR_Entry
  <1>4. CASE State \in {"S_16_1", "S_16_2"}
    BY <1>1, <1>4 DEF Clk, Unreset, Next_state, LD_MAR, LD_MDR, Mem_WE, Mem_OE, Data
  <1> QED
    BY <1>2, <1>3, <1>4 DEF StoreStates

----
\* Types.  What a register takes from a bus is a word.
LEMMA CellTyped ==
  ASSUME NEW a \in Word
  PROVE  Cell(a) \in Address
  <1>1. a \in Int /\ MemSize \in Nat \ {0}
    BY MemSizeAssumption, WordModNat
  <1> QED
    BY <1>1, ModRange DEF Cell, Address

\* What the ALU and the address adder yield are words, what DRMUX yields a register.
LEMMA ALUTyped ==
  ASSUME TypeOK
  PROVE  ALU_New \in Word /\ Adder_Out \in Word /\ DR_Out \in RegNum
  <1>1. Base_R \in Word /\ SR2Mux_Out \in Word
    BY FieldsTyped, SextTyped DEF TypeOK, Base_R, SR2Mux_Out
  <1>2. ADDR1_Out \in Word /\ ADDR2_Out \in Word
    <2>1. 0 \in Word
      BY IsWord
    <2> QED
      BY <1>1, <2>1, SextTyped DEF TypeOK, ADDR1_Out, ADDR2_Out
  <1>3. ALU_New \in Word
    BY <1>1, AddTyped, AndTyped, NotTyped DEF ALU_New
  <1>4. Adder_Out \in Word
    BY <1>2, AddTyped DEF Adder_Out
  <1>5. DR_Out \in RegNum
    <2>1. 7 \in RegNum
      BY DEF RegNum
    <2> QED
      BY <2>1, FieldsTyped DEF DR_Out, TypeOK
  <1> QED
    BY <1>3, <1>4, <1>5

\* Whenever a register loads from the bus, exactly one gate is open: the bus holds
\* a word.
LEMMA PathTyped ==
  ASSUME TypeOK, LD_MAR \/ LD_IR \/ LD_CC \/ LD_REG \/ State = "S_23"
  PROVE  Path \in Word
  BY ALUTyped DEF TypeOK, Path, LD_MAR, LD_IR, LD_CC, LD_REG, GatePC, GateMDR, GateALU,
     GateMARMUX

\* The registers that no reset reaches keep their types at every edge.
LEMMA UnresetTyped ==
  ASSUME TypeOK, Unreset
  PROVE  /\ NZP' \in Flags /\ BEN' \in BOOLEAN /\ LED' \in 0 .. 4095
         /\ Data_read_buffer' \in Word \cup {Undef} /\ Data_write_buffer' \in Word
         /\ image' \in Images
  <1>1. NZP' \in Flags
    BY FlagsTyped DEF TypeOK, Unreset
  <1>2. BEN' \in BOOLEAN
    <2>1. BENIn \in BOOLEAN
      BY Zenon DEF BENIn
    <2> QED
      BY <2>1 DEF TypeOK, Unreset
  <1>3. LED' \in 0 .. 4095
    <2>1. IR % 4096 \in 0 .. 4096 - 1
      BY WordModNat, ModRange, 4096 \in Nat \ {0} DEF TypeOK
    <2> QED
      BY <2>1 DEF Unreset
  <1>4. Data \in Word \cup {Undef}
    BY CellTyped DEF TypeOK, Data
  <1> QED
    BY <1>1, <1>2, <1>3, <1>4 DEF Unreset, TypeOK

\* A reset leaves every register well typed.
LEMMA ResetTyped ==
  ASSUME TypeOK, Reset
  PROVE  TypeOK'
  <1>1. 0 \in Word
    BY IsWord
  <1>2. image \in [Address -> Word]
    BY ImagesAssumption DEF TypeOK, Address
  <1>3. Unreset
    BY DEF Reset
  <1> QED
    BY <1>1, <1>2, <1>3, UnresetTyped DEF Reset, TypeOK, States

\* An edge leaves every register well typed; the second read cycle needs
\* ReadsCurrentWord, for the buffer may hold Undef at any other time.
LEMMA ClkTyped ==
  ASSUME TypeOK, ReadsCurrentWord, NEW sw \in Switches, NEW run, NEW cont,
         Clk(sw, run, cont)
  PROVE  TypeOK'
  <1>1. Unreset
    BY DEF Clk
  <1>2. State' \in States
    <2>1. Decode \in States
      BY DEF Decode, Opcodes, Operation, States, PauseStates, FetchStates, OperateStates,
             ControlStates, LoadStates, StoreStates
    <2> QED
      BY <2>1 DEF Clk, Next_state, States, PauseStates, FetchStates, OperateStates,
         ControlStates, LoadStates, StoreStates
  <1>3. PC' \in Word
    <2>1. 1 \in Word
      BY IsWord
    <2>2. Add(PC, 1) \in Word
      BY <2>1, AddTyped DEF TypeOK
    <2> QED
      BY <2>2, ALUTyped DEF Clk, TypeOK, PC_Entry
  <1>4. IR' \in Word /\ MAR' \in Word /\ R' \in [RegNum -> Word]
    BY PathTyped, ALUTyped DEF Clk, TypeOK
  <1>5. MDR' \in Word
    <2>1. CASE State = "S_23"
      BY <2>1, PathTyped DEF Clk, TypeOK, MDR_Entry, MIO_EN, Mem_OE
    <2>2. CASE State \in {"S_33_2", "S_25_2"}
      <3>1. Data_read_buffer \in Word
        BY <2>2, CellTyped DEF ReadsCurrentWord, TypeOK
      <3>2. sw \in Word
        BY SwitchesAssumption
      <3> QED
        BY <2>2, <3>1, <3>2 DEF Clk, MDR_Entry, MIO_EN, Mem_OE, Mem_WE, Data_to_CPU, TypeOK
    <2>3. CASE ~LD_MDR
      BY <2>3 DEF Clk, TypeOK
    <2> QED
      BY <2>1, <2>2, <2>3 DEF LD_MDR
  <1>6. hex_data' \in Word /\ mem_array' \in [Address -> Word]
    <2>1. ~Mem_WE => Data \in Word
      BY DEF Data, TypeOK
    <2> QED
      BY <2>1, CellTyped DEF Clk, TypeOK
  <1> QED
    BY <1>1, <1>2, <1>3, <1>4, <1>5, <1>6, UnresetTyped DEF TypeOK

----
\* The inductive invariant, part by part.  TypeOK has its own lemmas above.
LEMMA AtMostOneFlagStep ==
  ASSUME AtMostOneFlag, Unreset
  PROVE  AtMostOneFlag'
  BY FlagsTyped DEF AtMostOneFlag, Unreset

\* S_32 dispatches on the opcode, and IR does not change until S_35.
LEMMA OpcodeStep ==
  ASSUME TypeOK, OpcodeOfState, NEW sw, NEW run, NEW cont, Clk(sw, run, cont)
  PROVE  OpcodeOfState'
  <1>1. CASE State = "S_32"
    <2>1. State' = Decode /\ IR' = IR
      BY <1>1, FetchStep DEF FetchStates
    <2> QED
      BY <2>1 DEF OpcodeOfState, Decode, Opcodes, Operation, LoadStates, StoreStates
  <1>2. CASE State = "S_35"
    <2>1. State' = "S_32"
      BY <1>2, FetchStep DEF FetchStates
    <2> QED
      BY <2>1 DEF OpcodeOfState, LoadStates, StoreStates
  <1>3. CASE State \notin {"S_32", "S_35"}
    <2>1. IR' = IR
      BY <1>3 DEF Clk, LD_IR
    <2> QED
      BY <1>3, <2>1 DEF OpcodeOfState, Clk, Next_state, LoadStates, StoreStates
  <1> QED
    BY <1>1, <1>2, <1>3

\* The address and the word of a transfer stay where they are until it ends.
LEMMA TransferStep ==
  ASSUME TypeOK, OpcodeOfState, TransferInFlight, NEW sw, NEW run, NEW cont,
         Clk(sw, run, cont)
  PROVE  TransferInFlight'
  <1>1. Data_write_buffer' = MDR
    BY DEF Clk, Unreset
  <1>2. Add(Sext6(IR), R[IR_8_6(IR)]) = Add(R[IR_8_6(IR)], Sext6(IR))
    BY SextTyped, FieldsTyped, AddCommutes DEF TypeOK
  <1>3. CASE State \in LoadStates
    BY <1>2, <1>3, LoadStep DEF LoadStates, StoreStates, TransferInFlight
  <1>4. CASE State \in StoreStates
    BY <1>1, <1>2, <1>4, StoreStep DEF LoadStates, StoreStates, TransferInFlight
  <1>5. CASE State \notin LoadStates \cup StoreStates
    <2>1. State' \notin (LoadStates \cup StoreStates) \ {"LDR", "STR"}
      BY <1>5 DEF Clk, Next_state, LoadStates, StoreStates, Decode, Opcodes, Operation
    <2> QED
      BY <2>1 DEF TransferInFlight, StoreStates, LoadStates
  <1> QED
    BY <1>3, <1>4, <1>5

\* The decision latched in S_32 is the condition that BR documents.
LEMMA BranchStep ==
  ASSUME TypeOK, OpcodeOfState, AtMostOneFlag, NEW sw, NEW run, NEW cont,
         Clk(sw, run, cont)
  PROVE  BranchDecisionIsCurrent'
  <1>1. CASE State = "S_32"
    <2>1. BEN' = BENIn /\ IR' = IR /\ NZP' = NZP
      BY <1>1, FetchStep DEF FetchStates
    <2>2. BENIn <=> Condition(IR, NZP)
      BY OneBitSum DEF AtMostOneFlag, BENIn
    <2>3. Condition(IR, NZP)' <=> Condition(IR, NZP)
      BY <2>1 DEF Condition, TestN, TestZ, TestP
    <2> QED
      BY <2>1, <2>2, <2>3 DEF BranchDecisionIsCurrent
  <1>2. CASE State # "S_32"
    <2>1. State' # "BR"
      BY <1>2 DEF Clk, Next_state
    <2> QED
      BY <2>1 DEF BranchDecisionIsCurrent
  <1> QED
    BY <1>1, <1>2

\* The codes describe the last result until another instruction is in IR.
LEMMA CodesStep ==
  ASSUME TypeOK, OpcodeOfState, CodesDescribeResult, NEW sw, NEW run, NEW cont,
         Clk(sw, run, cont)
  PROVE  CodesDescribeResult'
  <1> DEFINE Before == {"S_18", "S_33_1", "S_33_2", "S_35"}
  <1>1. IR_11_9(IR) \in RegNum /\ R \in [RegNum -> Word]
    BY FieldsTyped DEF TypeOK
  <1>2. CASE State \in OperateStates
    BY <1>1, <1>2, OperateStep DEF CodesDescribeResult
  <1>3. CASE State = "S_27"
    BY <1>1, <1>3, LoadStep DEF CodesDescribeResult, LoadStates
  <1>4. CASE State \in {"S_18", "S_33_1", "S_33_2"}
    BY <1>4, FetchStep DEF CodesDescribeResult, FetchStates
  <1>5. CASE State = "S_32"
    <2>1. State' = Decode /\ IR' = IR
      BY <1>5, FetchStep DEF FetchStates
    <2> QED
      BY <2>1 DEF CodesDescribeResult, Decode, Opcodes, Operation
  <1>6. CASE State = "S_35"
    <2>1. State' = "S_32"
      BY <1>6, FetchStep DEF FetchStates
    <2> QED
      BY <2>1 DEF CodesDescribeResult
  <1>7. CASE State \notin OperateStates \cup {"S_27"} \cup FetchStates
    <2>1. IR' = IR
      BY <1>7 DEF Clk, LD_IR, FetchStates
    <2>2. State' \in Before => Opcode(IR) \notin {1, 5, 6, 9}
      BY <1>7 DEF Clk, Next_state, OpcodeOfState, OperateStates, FetchStates, StoreStates
    <2> QED
      BY <2>1, <2>2 DEF CodesDescribeResult
  <1> QED
    BY <1>2, <1>3, <1>4, <1>5, <1>6, <1>7 DEF FetchStates

\* The words read, and the word in IR: S_18 fixes the address of the fetch, the
\* first read cycle fills the buffer, the second empties it into MDR.
LEMMA ReadsStep ==
  ASSUME TypeOK, OpcodeOfState, ReadsCurrentWord, SwitchReads,
         NEW sw \in Switches, NEW run, NEW cont, Clk(sw, run, cont)
  PROVE  ReadsCurrentWord' /\ SwitchReads'
  <1> DEFINE Reading == {"S_33_1", "S_33_2", "S_35", "S_25_2", "S_27"}
  <1>1. CASE State = "S_18"
    <2>1. State' = "S_33_1" /\ MAR' = PC /\ PC' = Add(PC, 1)
      BY <1>1, FetchStep DEF FetchStates
    <2>2. Fetched' = PC
      BY <2>1, FetchedBack DEF Fetched, TypeOK
    <2> QED
      BY <2>1, <2>2 DEF ReadsCurrentWord, SwitchReads, BeforeWrite, OperateStates,
         ControlStates, LoadStates, StoreStates
  <1>2. CASE State = "S_33_1"
    <2>1. State' = "S_33_2" /\ Data_read_buffer' = mem_array[Cell(MAR)]
          /\ MAR' = MAR /\ PC' = PC /\ mem_array' = mem_array
      BY <1>2, FetchStep DEF FetchStates
    <2> QED
      BY <1>2, <2>1 DEF ReadsCurrentWord, SwitchReads, BeforeWrite, OperateStates,
         ControlStates, LoadStates, StoreStates, Fetched
  <1>3. CASE State = "S_33_2"
    <2>1. State' = "S_35" /\ MDR' = (IF MAR = IOAddr THEN sw ELSE Data_read_buffer)
          /\ MAR' = MAR /\ PC' = PC /\ mem_array' = mem_array
      BY <1>3, FetchStep DEF FetchStates
    <2> QED
      BY <1>3, <2>1 DEF ReadsCurrentWord, SwitchReads, BeforeWrite, OperateStates,
         ControlStates, LoadStates, StoreStates, Fetched
  <1>4. CASE State = "S_35"
    <2>1. State' = "S_32" /\ IR' = MDR
          /\ MAR' = MAR /\ PC' = PC /\ mem_array' = mem_array
      BY <1>4, FetchStep DEF FetchStates
    <2> QED
      BY <1>4, <2>1 DEF ReadsCurrentWord, SwitchReads, Fetched
  <1>5. CASE State \in {"S_32", "BR", "PAUSE1", "PAUSE2", "JSR", "LDR", "STR", "S_23"}
    <2>1. IR' = IR /\ PC' = PC /\ mem_array' = mem_array
      BY <1>5, FetchStep, IdleStep, ControlStep, LoadStep, StoreStep
         DEF FetchStates, IdleStates, ControlStates, LoadStates, StoreStates
    <2>2. State' \notin Reading
      BY <1>5 DEF Clk, Next_state, Decode, Operation, Opcodes
    <2>3. State \in BeforeWrite
      BY <1>5 DEF BeforeWrite, OperateStates, ControlStates, LoadStates, StoreStates
    <2> QED
      BY <2>1, <2>2, <2>3 DEF ReadsCurrentWord, SwitchReads, Fetched
  <1>6. CASE State \in {"S_25_1", "S_25_2"}
    <2>1. /\ IR' = IR /\ PC' = PC /\ mem_array' = mem_array /\ MAR' = MAR
          /\ State = "S_25_1" =>
               State' = "S_25_2" /\ Data_read_buffer' = mem_array[Cell(MAR)]
          /\ State = "S_25_2" =>
               State' = "S_27" /\ MDR' = IF MAR = IOAddr THEN sw ELSE Data_read_buffer
      BY <1>6, LoadStep DEF LoadStates
    <2>2. State \in BeforeWrite
      BY <1>6 DEF BeforeWrite, LoadStates
    <2> QED
      BY <1>6, <2>1, <2>2 DEF ReadsCurrentWord, SwitchReads, Fetched
  <1>7. CASE State \in OperateStates
                       \cup {"Halted", "S_22", "JMP", "S_21", "S_27", "S_16_1", "S_16_2"}
    <2>1. State' \in {"Halted", "S_18", "S_16_2"}
      BY <1>7 DEF Clk, Next_state, OperateStates
    <2> QED
      BY <2>1 DEF ReadsCurrentWord, SwitchReads, BeforeWrite, OperateStates,
         ControlStates, LoadStates, StoreStates
  <1> QED
    BY <1>1, <1>2, <1>3, <1>4, <1>5, <1>6, <1>7 DEF TypeOK, OpcodeOfState, States,
       PauseStates, FetchStates, OperateStates, ControlStates, LoadStates, StoreStates

----
\* The invariant holds in every reachable state.  An edge with Reset pressed only
\* needs the types: in Halted, with IR cleared, the other parts say nothing but
\* that the instruction register holds no instruction.
LEMMA HaltedInvariant ==
  ASSUME TypeOK, AtMostOneFlag, State = "Halted", IR = 0
  PROVE  IInv
  <1>1. Opcode(0) = 0
    BY DEF Opcode
  <1> QED
    BY <1>1 DEF IInv, OpcodeOfState, TransferInFlight, ReadsCurrentWord, SwitchReads,
       BranchDecisionIsCurrent, CodesDescribeResult, BeforeWrite, OperateStates,
       ControlStates, LoadStates, StoreStates

\* Power-up establishes the invariant.
LEMMA InitInvariant == Init => IInv
  <1> SUFFICES ASSUME Init PROVE IInv
    OBVIOUS
  <1>1. TypeOK
    <2>1. 0 \in Word /\ 0 \in 0 .. 4095
      BY IsWord
    <2>2. image \in [Address -> Word]
      BY ImagesAssumption DEF Init, Address
    <2>3. NZP \in Flags
      BY DEF Init, Flags, NoFlags
    <2>4. R \in [RegNum -> Word] /\ mem_array \in [Address -> Word]
      BY <2>1, <2>2 DEF Init
    <2>5. State \in States /\ image \in Images /\ BEN \in BOOLEAN
      BY Zenon DEF Init, States
    <2>6. /\ PC \in Word /\ IR \in Word /\ MAR \in Word /\ MDR \in Word
          /\ LED \in 0 .. 4095 /\ hex_data \in Word
          /\ Data_read_buffer \in Word \cup {Undef} /\ Data_write_buffer \in Word
      BY <2>1 DEF Init
    <2> QED
      BY <2>3, <2>4, <2>5, <2>6 DEF TypeOK
  <1> QED
    BY <1>1, HaltedInvariant DEF Init, AtMostOneFlag

\* An edge with Reset released preserves it.
LEMMA ClkInvariant ==
  ASSUME IInv, NEW sw \in Switches, NEW run, NEW cont, Clk(sw, run, cont)
  PROVE  IInv'
  <1>1. TypeOK /\ OpcodeOfState /\ TransferInFlight /\ ReadsCurrentWord /\ SwitchReads
        /\ AtMostOneFlag /\ BranchDecisionIsCurrent /\ CodesDescribeResult
    BY DEF IInv
  <1>2. TypeOK'
    BY <1>1, ClkTyped
  <1>3. AtMostOneFlag'
    BY <1>1, AtMostOneFlagStep DEF Clk
  <1>4. OpcodeOfState' /\ TransferInFlight'
    BY <1>1, OpcodeStep, TransferStep
  <1>5. ReadsCurrentWord' /\ SwitchReads'
    BY <1>1, ReadsStep
  <1>6. BranchDecisionIsCurrent' /\ CodesDescribeResult'
    BY <1>1, BranchStep, CodesStep
  <1> QED
    BY <1>2, <1>3, <1>4, <1>5, <1>6 DEF IInv

\* An edge with Reset pressed preserves it.
LEMMA ResetInvariant ==
  ASSUME IInv, Reset
  PROVE  IInv'
  <1>1. TypeOK'
    BY ResetTyped DEF IInv
  <1>2. AtMostOneFlag'
    BY AtMostOneFlagStep DEF IInv, Reset
  <1>3. Opcode(0) = 0
    BY DEF Opcode
  <1>4. State' = "Halted" /\ IR' = 0
    BY DEF Reset
  <1> QED
    BY <1>1, <1>2, <1>3, <1>4 DEF IInv, OpcodeOfState, TransferInFlight, ReadsCurrentWord,
       SwitchReads, BranchDecisionIsCurrent, CodesDescribeResult, BeforeWrite,
       OperateStates, ControlStates, LoadStates, StoreStates

\* Every step of the specification is an edge, with Reset pressed or released.
LEMMA NextIsAnEdge ==
  ASSUME Next
  PROVE  Reset \/ \E sw \in Switches, run, cont \in BOOLEAN : Clk(sw, run, cont)
  BY DEF Next, Halted, Pause, Fetch, Operate, Control, Load, Store, Edge

\* A step that changes nothing preserves it.
LEMMA StutterInvariant ==
  ASSUME IInv, UNCHANGED vars
  PROVE  IInv'
  BY DEF IInv, vars, TypeOK, OpcodeOfState, TransferInFlight, ReadsCurrentWord,
     SwitchReads, AtMostOneFlag, BranchDecisionIsCurrent, CodesDescribeResult, Fetched,
     Condition, TestN, TestZ, TestP

\* So every step of the specification preserves it.
LEMMA NextInvariant == IInv /\ [Next]_vars => IInv'
  <1> SUFFICES ASSUME IInv, [Next]_vars PROVE IInv'
    OBVIOUS
  <1>1. CASE Reset
    BY <1>1, ResetInvariant
  <1>2. CASE \E sw \in Switches, run, cont \in BOOLEAN : Clk(sw, run, cont)
    BY <1>2, ClkInvariant
  <1>3. CASE UNCHANGED vars
    BY <1>3, StutterInvariant
  <1> QED
    BY <1>1, <1>2, <1>3, NextIsAnEdge

\* The inductive invariant holds in every reachable state of the processor.
THEOREM Invariant == Spec => []IInv
  BY InitInvariant, NextInvariant, PTL DEF Spec

\* Every register holds a word of its width, and no bus that nobody drives is
\* ever latched by the processor (ISDU.sv, gatemux.sv, tristate.sv).
THEOREM TypeCorrect == Spec => []TypeOK
  <1>1. IInv => TypeOK
    BY DEF IInv
  <1> QED
    BY <1>1, Invariant, PTL

\* The two-cycle SRAM reads return the word at MAR, and the instruction executed
\* is the one in memory at its address (ISDU.sv, S_33 and S_25; tristate.sv).
THEOREM ReadsCorrect == Spec => []ReadsCurrentWord
  <1>1. IInv => ReadsCurrentWord
    BY DEF IInv
  <1> QED
    BY <1>1, Invariant, PTL

\* The branch-enable bit, latched in S_32 by a one-bit sum, is the documented
\* condition on the codes when BR tests it (BEN unit.sv).
THEOREM BranchCorrect == Spec => []BranchDecisionIsCurrent
  <1>1. IInv => BranchDecisionIsCurrent
    BY DEF IInv
  <1> QED
    BY <1>1, Invariant, PTL

\* After ADD, AND, NOT and LDR the codes describe the register written, until
\* the next instruction reaches IR (nzp register.sv, datapath.sv).
THEOREM CodesCorrect == Spec => []CodesDescribeResult
  <1>1. IInv => CodesDescribeResult
    BY DEF IInv
  <1> QED
    BY <1>1, Invariant, PTL

----
\* A store writes the cell it names, with the word of its source register, and
\* nothing else in memory changes, although the first of its two write cycles
\* drives an older word (ISDU.sv, S_16_1 and S_16_2; tristate.sv).
THEOREM StoreCorrect == Spec => StoreWritesItsOperand
  <1> DEFINE A == /\ \A a \in Address : mem_array'[a] # mem_array[a] =>
                        \/ Reset
                        \/ Opcode(IR) = 7 /\ a = StoreCell
                  /\ State = "S_16_2" => Reset \/ mem_array'[StoreCell] = R[IR_11_9(IR)]
  <1>1. ASSUME IInv, [Next]_vars
        PROVE  [A]_vars
    <2>1. CASE Reset
      BY <2>1
    <2>2. CASE UNCHANGED vars
      BY <2>2
    <2>3. ASSUME NEW sw \in Switches, NEW run, NEW cont, Clk(sw, run, cont)
          PROVE  A
      <3>1. CASE State \in {"S_16_1", "S_16_2"}
        <4>1. mem_array' = [mem_array EXCEPT ![Cell(MAR)] = Data_write_buffer]
          BY <2>3, <3>1, StoreStep DEF StoreStates
        <4>2. Cell(MAR) = StoreCell /\ Opcode(IR) = 7
          BY <1>1, <3>1 DEF IInv, TransferInFlight, OpcodeOfState, StoreCell, LoadStates,
             StoreStates
        <4>3. mem_array \in [Address -> Word] /\ StoreCell \in Address
          BY <1>1, <4>2, CellTyped DEF IInv, TypeOK
        <4>4. State = "S_16_2" => Data_write_buffer = R[IR_11_9(IR)]
          BY <1>1 DEF IInv, TransferInFlight
        <4> QED
          BY <4>1, <4>2, <4>3, <4>4
      <3>2. CASE State \notin {"S_16_1", "S_16_2"}
        BY <2>3, <3>2 DEF Clk, Mem_WE
      <3> QED
        BY <3>1, <3>2
    <2> QED
      BY <1>1, <2>1, <2>2, <2>3, NextIsAnEdge
  <1> QED
    BY <1>1, Invariant, PTL DEF Spec, StoreWritesItsOperand

----
(* The word operations of the instruction set are those of the datapath.        *)

\* Fields.
LEMMA SameFields ==
  \A w : /\ ISA!Opcode(w) = Opcode(w) /\ ISA!IR_11_9(w) = IR_11_9(w)
         /\ ISA!IR_8_6(w) = IR_8_6(w) /\ ISA!SR2(w) = SR2(w)
         /\ ISA!IR_5(w) = IR_5(w) /\ ISA!IR_11(w) = IR_11(w)
  BY DEF ISA!Opcode, Opcode, ISA!IR_11_9, IR_11_9, ISA!IR_8_6, IR_8_6, ISA!SR2, SR2,
         ISA!IR_5, IR_5, ISA!IR_11, IR_11

\* Sign extension.
LEMMA SameExtensions ==
  \A w : /\ ISA!Sext5(w) = Sext5(w) /\ ISA!Sext6(w) = Sext6(w)
         /\ ISA!Sext9(w) = Sext9(w) /\ ISA!Sext11(w) = Sext11(w)
  <1>1. ISA!WordMod = WordMod
    BY DEF ISA!WordMod, WordMod
  <1>2. \A w, half : ISA!SignExtend(w, half) = SignExtend(w, half)
    BY <1>1 DEF ISA!SignExtend, SignExtend
  <1> QED
    BY <1>2 DEF ISA!Sext5, Sext5, ISA!Sext6, Sext6, ISA!Sext9, Sext9, ISA!Sext11, Sext11

\* The adder and the ALU.
LEMMA SameArithmetic ==
  \A a, b : ISA!Add(a, b) = Add(a, b) /\ ISA!And(a, b) = And(a, b) /\ ISA!Not(a) = Not(a)
  <1>1. ISA!WordMod = WordMod
    BY DEF ISA!WordMod, WordMod
  <1>2. \A a, b, p : ISA!AndBit(a, b, p) = AndBit(a, b, p)
    BY DEF ISA!AndBit, AndBit
  <1> QED
    BY <1>1, <1>2 DEF ISA!Add, Add, ISA!And, And, ISA!Not, Not

\* The display's address, registers and condition codes.
LEMMA SameConditions ==
  /\ ISA!IOAddr = IOAddr /\ ISA!NoFlags = NoFlags /\ ISA!RegNum = RegNum
  /\ \A w : ISA!FlagsOf(w) = FlagsOf(w)
  /\ \A w, f : ISA!Condition(w, f) <=> Condition(w, f)
  BY DEF ISA!IOAddr, IOAddr, ISA!NoFlags, NoFlags, ISA!RegNum, RegNum, ISA!FlagsOf, FlagsOf,
         ISA!Condition, Condition, ISA!TestN, TestN, ISA!TestZ, TestZ, ISA!TestP, TestP,
         ISA!IR_11_9, IR_11_9

----
(* The invariant the steps need besides IInv: a branch under way is one whose    *)
(* condition held.                                                              *)
BranchTaken == State = "S_22" => Condition(IR, NZP)
RInv == IInv /\ BranchTaken

\* S_22 is entered from BR alone, where the decision is current.
LEMMA BranchTakenStep ==
  ASSUME IInv, [Next]_vars, BranchTaken
  PROVE  BranchTaken'
  <1>1. CASE Reset
    BY <1>1 DEF Reset, BranchTaken
  <1>2. CASE UNCHANGED vars
    BY <1>2 DEF vars, BranchTaken, Condition, TestN, TestZ, TestP
  <1>3. ASSUME NEW sw \in Switches, NEW run, NEW cont, Clk(sw, run, cont)
        PROVE  BranchTaken'
    <2>1. CASE State = "BR"
      <3>1. IR' = IR /\ NZP' = NZP /\ State' = IF BEN THEN "S_22" ELSE "S_18"
        BY <1>3, <2>1, IdleStep DEF IdleStates
      <3>2. BEN <=> Condition(IR, NZP)
        BY <2>1 DEF IInv, BranchDecisionIsCurrent
      <3> QED
        BY <3>1, <3>2 DEF BranchTaken, Condition, TestN, TestZ, TestP
    <2>2. CASE State # "BR"
      <3>1. State' # "S_22"
        BY <1>3, <2>2 DEF Clk, Next_state, Decode, Operation, Opcodes
      <3> QED
        BY <3>1 DEF BranchTaken
    <2> QED
      BY <2>1, <2>2
  <1> QED
    BY <1>1, <1>2, <1>3, NextIsAnEdge

\* The invariant of the refinement holds in every reachable state.
LEMMA RefinementInvariant == Spec => []RInv
  <1>1. Init => RInv
    BY InitInvariant DEF Init, RInv, BranchTaken
  <1>2. RInv /\ [Next]_vars => RInv'
    BY NextInvariant, BranchTakenStep DEF RInv
  <1> QED
    BY <1>1, <1>2, PTL DEF Spec

----
(* The state a program sees.                                                    *)

\* Incrementing undoes the decrement, at address zero too.
LEMMA NextOfFetched ==
  ASSUME TypeOK
  PROVE  Add(Fetched, 1) = PC /\ Fetched \in Word
  <1> DEFINE m == WordMod
  <1>1. m \in Nat \ {0} /\ PC \in 0 .. m - 1 /\ 1 \in 0 .. m
    BY WordModNat DEF TypeOK
  <1>2. CASE PC = 0
    <2>1. PC + (m - 1) = m - 1 /\ m - 1 \in 0 .. m - 1 /\ (m - 1) + 1 = 0 + m /\ 0 \in 0 .. m - 1
      BY <1>1, <1>2
    <2>2. (m - 1) % m = m - 1 /\ (0 + m) % m = 0
      BY <1>1, <2>1, ModSmall, ModOnce
    <2> QED
      BY <1>2, <2>1, <2>2, WordModNat DEF Fetched, Add
  <1>3. CASE PC # 0
    <2>1. PC - 1 \in 0 .. m - 1 /\ PC + (m - 1) = (PC - 1) + m /\ (PC - 1) + 1 = PC
      BY <1>1, <1>3
    <2>2. ((PC - 1) + m) % m = PC - 1 /\ PC % m = PC
      BY <1>1, <2>1, ModSmall, ModOnce
    <2> QED
      BY <2>1, <2>2, WordModNat DEF Fetched, Add
  <1> QED
    BY <1>2, <1>3

\* The instruction is in flight, has been fetched and has no effect yet.
InFlight == {"S_33_1", "S_33_2", "S_35", "S_32", "BR", "S_22", "JMP", "JSR", "STR", "S_23"}
            \cup OperateStates \cup LoadStates

\* What the mapping makes of the states, before an edge ...
LEMMA Bars ==
  /\ State \in InFlight =>
       modeBar = "running" /\ pcBar = Fetched /\ memBar = mem_array /\ hexBar = hex_data
  /\ State \in {"S_18", "Halted", "PAUSE1", "PAUSE2"} =>
       /\ modeBar = IF State = "S_18" THEN "running" ELSE IF State = "Halted" THEN "halted"
                    ELSE IF State = "PAUSE1" THEN "paused" ELSE "resuming"
       /\ pcBar = PC /\ memBar = mem_array /\ hexBar = hex_data
  /\ State = "S_21" =>
       /\ modeBar = "running" /\ pcBar = Add(PC, Sext11(IR))
       /\ memBar = mem_array /\ hexBar = hex_data
  /\ State \in {"S_16_1", "S_16_2"} =>
       /\ modeBar = "running" /\ pcBar = PC
       /\ memBar = [mem_array EXCEPT ![Cell(MAR)] = MDR]
       /\ hexBar = IF MAR = IOAddr THEN MDR ELSE hex_data
  BY DEF InFlight, OperateStates, LoadStates, modeBar, pcBar, Settled, memBar, hexBar, Storing

\* ... and after it.
LEMMA BarsAfter ==
  /\ State' \in InFlight =>
       /\ modeBar' = "running" /\ pcBar' = Fetched'
       /\ memBar' = mem_array' /\ hexBar' = hex_data'
  /\ State' \in {"S_18", "Halted", "PAUSE1", "PAUSE2"} =>
       /\ modeBar' = IF State' = "S_18" THEN "running" ELSE IF State' = "Halted" THEN "halted"
                     ELSE IF State' = "PAUSE1" THEN "paused" ELSE "resuming"
       /\ pcBar' = PC' /\ memBar' = mem_array' /\ hexBar' = hex_data'
  /\ State' = "S_21" =>
       /\ modeBar' = "running" /\ pcBar' = Add(PC', Sext11(IR'))
       /\ memBar' = mem_array' /\ hexBar' = hex_data'
  /\ State' \in {"S_16_1", "S_16_2"} =>
       /\ modeBar' = "running" /\ pcBar' = PC'
       /\ memBar' = [mem_array' EXCEPT ![Cell(MAR')] = MDR']
       /\ hexBar' = IF MAR' = IOAddr THEN MDR' ELSE hex_data'
  <1>1. Add(PC, Sext11(IR))' = Add(PC', Sext11(IR')) /\ Cell(MAR)' = Cell(MAR')
    BY DEF Add, Sext11, SignExtend, Cell
  <1> QED
    BY <1>1 DEF InFlight, OperateStates, LoadStates, modeBar, pcBar, Settled, memBar,
       hexBar, Storing

\* An edge that leaves PC alone leaves the address of the instruction alone.
LEMMA FetchedStays ==
  ASSUME PC' = PC
  PROVE  Fetched' = Fetched
  BY DEF Fetched, Add

\* The instruction that IR holds is one a read of its address returns: the effect of IR
\* is a step of the program.
LEMMA ExecutesIR ==
  ASSUME IInv, State \in InFlight, State \in BeforeWrite, image' = image, ISA!Execute(IR)
  PROVE  ISA!Step
  <1>1. modeBar = "running" /\ pcBar = Fetched /\ memBar = mem_array
    BY Bars
  <1>2. IR \in IF Fetched = IOAddr THEN Switches ELSE {mem_array[Fetched % MemSize]}
    BY DEF IInv, ReadsCurrentWord, SwitchReads, Cell
  <1>3. IR \in ISA!WordsAt(pcBar)
    BY <1>1, <1>2, SameConditions DEF ISA!WordsAt
  <1> QED
    BY <1>1, <1>3 DEF ISA!Step

\* PC already points past it.
LEMMA NextIsPC ==
  ASSUME TypeOK, State \in InFlight
  PROVE  ISA!Next1 = PC
  BY Bars, NextOfFetched, SameArithmetic DEF ISA!Next1

\* The address of a load or store.
LEMMA AddressIsMAR ==
  ASSUME TypeOK
  PROVE  ISA!EffectiveAddress(IR) = Add(R[IR_8_6(IR)], Sext6(IR))
  BY SameFields, SameExtensions, SameArithmetic DEF ISA!EffectiveAddress

----
(* The steps.                                                                   *)

\* A result reaches its register, the codes describe it, and the instruction ends.
LEMMA SetsRegister ==
  ASSUME TypeOK, State \in InFlight, State' = "S_18", NEW v,
         R' = [R EXCEPT ![IR_11_9(IR)] = v], NZP' = FlagsOf(v),
         PC' = PC, mem_array' = mem_array, hex_data' = hex_data
  PROVE  ISA!SetReg(IR, v)
  <1>1. modeBar' = modeBar /\ pcBar' = PC /\ memBar' = memBar /\ hexBar' = hexBar
    BY Bars, BarsAfter
  <1> QED
    BY <1>1, NextIsPC, SameFields, SameConditions DEF ISA!SetReg

\* ADD, AND and NOT.
LEMMA OperateRefines ==
  ASSUME IInv, NEW sw, NEW run, NEW cont, Clk(sw, run, cont), State \in OperateStates
  PROVE  ISA!Step
  <1>1. TypeOK /\ State \in InFlight /\ State \in BeforeWrite
    BY DEF IInv, InFlight, BeforeWrite
  <1>2. ISA!SetReg(IR, ALU_New)
    BY <1>1, OperateStep, SetsRegister
  <1>3. ISA!Operand2(IR) = IF IR_5(IR) THEN Sext5(IR) ELSE R[SR2(IR)]
    BY SameFields, SameExtensions DEF ISA!Operand2
  <1>4. CASE State = "S_01"
    <2>1. ALU_New = ISA!Add(R[ISA!IR_8_6(IR)], ISA!Operand2(IR))
      BY <1>3, <1>4, OperateStep, SameArithmetic, SameFields
    <2>2. ISA!Opcode(IR) = 1
      BY <1>4, SameFields DEF IInv, OpcodeOfState
    <2> QED
      BY <1>1, <1>2, <2>1, <2>2, ExecutesIR DEF ISA!Execute, ISA!opADD, Clk, Unreset
  <1>5. CASE State = "AND"
    <2>1. ALU_New = ISA!And(R[ISA!IR_8_6(IR)], ISA!Operand2(IR))
      BY <1>3, <1>5, OperateStep, SameArithmetic, SameFields
    <2>2. ISA!Opcode(IR) = 5
      BY <1>5, SameFields DEF IInv, OpcodeOfState
    <2> QED
      BY <1>1, <1>2, <2>1, <2>2, ExecutesIR DEF ISA!Execute, ISA!opAND, Clk, Unreset
  <1>6. CASE State = "NOT"
    <2>1. ALU_New = ISA!Not(R[ISA!IR_8_6(IR)])
      BY <1>6, OperateStep, SameArithmetic, SameFields
    <2>2. ISA!Opcode(IR) = 9
      BY <1>6, SameFields DEF IInv, OpcodeOfState
    <2> QED
      BY <1>1, <1>2, <2>1, <2>2, ExecutesIR DEF ISA!Execute, ISA!opNOT, Clk, Unreset
  <1> QED
    BY <1>4, <1>5, <1>6 DEF OperateStates

\* A load: nothing is seen of it until its last edge.
LEMMA LoadRefines ==
  ASSUME IInv, NEW sw, NEW run, NEW cont, Clk(sw, run, cont), State \in LoadStates
  PROVE  ISA!Step \/ UNCHANGED ISA!isavars
  <1>1. TypeOK /\ State \in InFlight /\ State \in BeforeWrite /\ image' = image
    BY DEF IInv, InFlight, BeforeWrite, Clk, Unreset
  <1>2. CASE State \in {"LDR", "S_25_1", "S_25_2"}
    <2>1. /\ State' \in LoadStates /\ PC' = PC /\ R' = R /\ NZP' = NZP
          /\ mem_array' = mem_array /\ hex_data' = hex_data
      BY <1>2, LoadStep DEF LoadStates
    <2>2. State' \in InFlight /\ Fetched' = Fetched
      BY <2>1, FetchedStays DEF InFlight
    <2> QED
      BY <1>1, <2>1, <2>2, Bars, BarsAfter DEF ISA!isavars
  <1>3. CASE State = "S_27"
    <2>1. ISA!SetReg(IR, MDR)
      BY <1>1, <1>3, LoadStep, SetsRegister
    <2>2. MAR = ISA!EffectiveAddress(IR)
      BY <1>1, <1>3, AddressIsMAR DEF IInv, TransferInFlight, LoadStates, StoreStates
    <2>3. MDR \in IF MAR = IOAddr THEN Switches ELSE {mem_array[MAR % MemSize]}
      BY <1>3 DEF IInv, ReadsCurrentWord, SwitchReads, Cell
    <2>4. MDR \in ISA!WordsAt(ISA!EffectiveAddress(IR))
      BY <1>1, <2>2, <2>3, Bars, SameConditions DEF ISA!WordsAt
    <2>5. ISA!Opcode(IR) = 6
      BY <1>3, SameFields DEF IInv, OpcodeOfState, LoadStates
    <2>6. ISA!Execute(IR)
      BY <2>1, <2>4, <2>5 DEF ISA!Execute, ISA!opLDR
    <2> QED
      BY <1>1, <2>6, ExecutesIR
  <1> QED
    BY <1>2, <1>3 DEF LoadStates

\* A store: the program sees it when its word is in MDR, and neither of the two write
\* cycles after that, although the first one drives an older word.
LEMMA StoreRefines ==
  ASSUME IInv, NEW sw, NEW run, NEW cont, Clk(sw, run, cont), State \in StoreStates
  PROVE  ISA!Step \/ UNCHANGED ISA!isavars
  <1>1. TypeOK /\ image' = image
    BY DEF IInv, Clk, Unreset
  <1>2. CASE State = "STR"
    <2>1. /\ State' = "S_23" /\ PC' = PC /\ R' = R /\ NZP' = NZP
          /\ mem_array' = mem_array /\ hex_data' = hex_data
      BY <1>2, StoreStep
    <2>2. State \in InFlight /\ State' \in InFlight /\ Fetched' = Fetched
      BY <1>2, <2>1, FetchedStays DEF InFlight
    <2> QED
      BY <1>1, <2>1, <2>2, Bars, BarsAfter DEF ISA!isavars
  <1>3. CASE State = "S_23"
    <2>1. /\ State' = "S_16_1" /\ PC' = PC /\ R' = R /\ NZP' = NZP /\ MAR' = MAR
          /\ MDR' = R[IR_11_9(IR)] /\ mem_array' = mem_array /\ hex_data' = hex_data
      BY <1>3, StoreStep
    <2>2. State \in InFlight /\ State \in BeforeWrite
      BY <1>3 DEF InFlight, BeforeWrite, StoreStates
    <2>3. MAR = ISA!EffectiveAddress(IR) /\ ISA!Opcode(IR) = 7
      BY <1>1, <1>3, AddressIsMAR, SameFields
      DEF IInv, TransferInFlight, OpcodeOfState, LoadStates, StoreStates
    <2>4. /\ modeBar' = modeBar /\ pcBar' = PC
          /\ memBar' = [memBar EXCEPT ![MAR % MemSize] = R[IR_11_9(IR)]]
          /\ hexBar' = IF MAR = IOAddr THEN R[IR_11_9(IR)] ELSE hexBar
      BY <2>1, <2>2, Bars, BarsAfter DEF Cell
    <2>5. ISA!opSTR(IR)
      BY <1>1, <2>1, <2>2, <2>3, <2>4, NextIsPC, SameFields, SameConditions DEF ISA!opSTR
    <2> QED
      BY <1>1, <2>2, <2>5, ExecutesIR DEF ISA!Execute
  <1>4. CASE State \in {"S_16_1", "S_16_2"}
    <2>1. /\ State' = IF State = "S_16_1" THEN "S_16_2" ELSE "S_18"
          /\ MAR' = MAR /\ MDR' = MDR /\ PC' = PC /\ R' = R /\ NZP' = NZP
          /\ hex_data' = IF MAR = IOAddr THEN MDR ELSE hex_data
          /\ mem_array' = [mem_array EXCEPT ![Cell(MAR)] = Data_write_buffer]
      BY <1>4, StoreStep
    <2>2. Cell(MAR) \in Address /\ mem_array \in [Address -> Word]
      BY <1>1, CellTyped DEF TypeOK
    <2>3. State = "S_16_2" => Data_write_buffer = MDR
      BY DEF IInv, TransferInFlight
    <2>4. memBar' = memBar
      BY <1>4, <2>1, <2>2, <2>3, Bars, BarsAfter
    <2>5. modeBar' = modeBar /\ pcBar' = pcBar /\ hexBar' = hexBar
      BY <1>4, <2>1, Bars, BarsAfter
    <2> QED
      BY <1>1, <2>1, <2>4, <2>5 DEF ISA!isavars
  <1> QED
    BY <1>2, <1>3, <1>4 DEF StoreStates

\* A fetch: the edge that leaves S_32 is the whole of a pause, or of an instruction the
\* sequencer does not know.
LEMMA FetchRefines ==
  ASSUME IInv, NEW sw, NEW run, NEW cont, Clk(sw, run, cont), State \in FetchStates
  PROVE  ISA!Step \/ UNCHANGED ISA!isavars
  <1>1. /\ TypeOK /\ image' = image
        /\ R' = R /\ NZP' = NZP /\ mem_array' = mem_array /\ hex_data' = hex_data
    BY FetchStep DEF IInv, Clk, Unreset
  <1>2. CASE State = "S_18"
    <2>1. State' = "S_33_1" /\ PC' = Add(PC, 1)
      BY <1>2, FetchStep
    <2>2. Fetched' = PC
      BY <1>1, <2>1, FetchedBack DEF Fetched, TypeOK
    <2> QED
      BY <1>1, <1>2, <2>1, <2>2, Bars, BarsAfter DEF ISA!isavars, InFlight
  <1>3. CASE State \in {"S_33_1", "S_33_2", "S_35"}
    <2>1. State' \in {"S_33_2", "S_35", "S_32"} /\ PC' = PC
      BY <1>3, FetchStep
    <2>2. State \in InFlight /\ State' \in InFlight /\ Fetched' = Fetched
      BY <1>3, <2>1, FetchedStays DEF InFlight
    <2> QED
      BY <1>1, <2>2, Bars, BarsAfter DEF ISA!isavars
  <1>4. CASE State = "S_32"
    <2>1. State' = Decode /\ PC' = PC /\ State \in InFlight /\ State \in BeforeWrite
      BY <1>4, FetchStep DEF InFlight, BeforeWrite
    <2>2. Fetched' = Fetched /\ ISA!Next1 = PC
      BY <1>1, <2>1, FetchedStays, NextIsPC
    <2>3. CASE Opcode(IR) \in Opcodes \ {13}
      <3>1. State' \in InFlight
        BY <2>1, <2>3 DEF Decode, Opcodes, Operation, InFlight, OperateStates, LoadStates
      <3> QED
        BY <1>1, <2>1, <2>2, <3>1, Bars, BarsAfter DEF ISA!isavars
    <2>4. CASE Opcode(IR) = 13
      <3>1. State' = "PAUSE1"
        BY <2>1, <2>4 DEF Decode, Opcodes, Operation
      <3>2. ISA!opPSE(IR)
        BY <1>1, <2>1, <2>2, <2>4, <3>1, Bars, BarsAfter, SameFields DEF ISA!opPSE
      <3> QED
        BY <1>1, <2>1, <3>2, ExecutesIR DEF ISA!Execute
    <2>5. CASE Opcode(IR) \notin Opcodes
      <3>1. State' = "S_18"
        BY <2>1, <2>5 DEF Decode
      <3>2. Opcode(IR) \in {2, 3, 8, 10, 11, 14, 15}
        BY <1>1, <2>5, FieldsTyped DEF TypeOK, Opcodes
      <3>3. ISA!Reserved(IR)
        BY <1>1, <2>1, <2>2, <3>1, <3>2, Bars, BarsAfter, SameFields DEF ISA!Reserved
      <3> QED
        BY <1>1, <2>1, <3>3, ExecutesIR DEF ISA!Execute
    <2> QED
      BY <2>3, <2>4, <2>5
  <1> QED
    BY <1>2, <1>3, <1>4 DEF FetchStates

\* Jumps.  A branch takes effect where it is decided or where it is taken, JSR where it
\* links: the jump that follows is nothing more.
LEMMA ControlRefines ==
  ASSUME IInv, BranchTaken, NEW sw, NEW run, NEW cont, Clk(sw, run, cont),
         State \in ControlStates
  PROVE  ISA!Step \/ UNCHANGED ISA!isavars
  <1>1. /\ TypeOK /\ State \in BeforeWrite /\ image' = image
        /\ NZP' = NZP /\ IR' = IR /\ mem_array' = mem_array /\ hex_data' = hex_data
    BY IdleStep, ControlStep DEF IInv, BeforeWrite, Clk, Unreset, IdleStates
  <1>2. CASE State = "BR"
    <2>1. /\ State \in InFlight /\ PC' = PC /\ R' = R
          /\ State' = IF BEN THEN "S_22" ELSE "S_18"
      BY <1>2, IdleStep DEF InFlight, IdleStates
    <2>2. CASE BEN
      BY <1>1, <2>1, <2>2, FetchedStays, Bars, BarsAfter DEF ISA!isavars, InFlight
    <2>3. CASE ~BEN
      <3>1. ~ISA!Condition(IR, NZP) /\ ISA!Opcode(IR) = 0
        BY <1>2, <2>3, SameConditions, SameFields
        DEF IInv, BranchDecisionIsCurrent, OpcodeOfState
      <3>2. ISA!opBR(IR)
        BY <1>1, <2>1, <2>3, <3>1, NextIsPC, Bars, BarsAfter DEF ISA!opBR
      <3> QED
        BY <1>1, <2>1, <3>2, ExecutesIR DEF ISA!Execute
    <2> QED
      BY <2>2, <2>3
  <1>3. CASE State = "S_22"
    <2>1. /\ State \in InFlight /\ State' = "S_18" /\ R' = R
          /\ PC' = Add(Sext9(IR), PC)
      BY <1>3, ControlStep DEF InFlight
    <2>2. PC' = ISA!Add(ISA!Next1, ISA!Sext9(IR))
      BY <1>1, <2>1, NextIsPC, AddCommutes, SextTyped, SameArithmetic, SameExtensions
      DEF TypeOK
    <2>3. ISA!Condition(IR, NZP) /\ ISA!Opcode(IR) = 0
      BY <1>3, SameConditions, SameFields DEF BranchTaken, IInv, OpcodeOfState
    <2>4. ISA!opBR(IR)
      BY <1>1, <2>1, <2>2, <2>3, Bars, BarsAfter DEF ISA!opBR
    <2> QED
      BY <1>1, <2>1, <2>4, ExecutesIR DEF ISA!Execute
  <1>4. CASE State = "JMP"
    <2>1. /\ State \in InFlight /\ State' = "S_18" /\ R' = R
          /\ PC' = Add(0, R[IR_8_6(IR)])
      BY <1>4, ControlStep DEF InFlight
    <2>2. PC' = R[IR_8_6(IR)]
      BY <1>1, <2>1, AddZero, FieldsTyped DEF TypeOK
    <2>3. ISA!Opcode(IR) = 12
      BY <1>4, SameFields DEF IInv, OpcodeOfState
    <2>4. ISA!opJMP(IR)
      BY <1>1, <2>1, <2>2, <2>3, Bars, BarsAfter, SameFields DEF ISA!opJMP
    <2> QED
      BY <1>1, <2>1, <2>4, ExecutesIR DEF ISA!Execute
  <1>5. CASE State = "JSR"
    <2>1. /\ State \in InFlight /\ State' = "S_21" /\ PC' = PC
          /\ R' = [R EXCEPT ![IF IR_11(IR) THEN 7 ELSE IR_11_9(IR)] = PC]
      BY <1>5, ControlStep DEF InFlight
    <2>2. pcBar' = ISA!Add(ISA!Next1, ISA!Sext11(IR))
      BY <1>1, <2>1, BarsAfter, NextIsPC, SameArithmetic, SameExtensions
    <2>3. ISA!Opcode(IR) = 4
      BY <1>5, SameFields DEF IInv, OpcodeOfState
    <2>4. modeBar' = modeBar /\ memBar' = memBar /\ hexBar' = hexBar
      BY <1>1, <2>1, Bars, BarsAfter
    <2>5. R' = [R EXCEPT ![IF ISA!IR_11(IR) THEN 7 ELSE ISA!IR_11_9(IR)] = ISA!Next1]
      BY <1>1, <2>1, NextIsPC, SameFields
    <2>6. ISA!opJSR(IR)
      BY <1>1, <2>2, <2>3, <2>4, <2>5 DEF ISA!opJSR
    <2> QED
      BY <1>1, <2>1, <2>6, ExecutesIR DEF ISA!Execute
  <1>6. CASE State = "S_21"
    <2>1. State' = "S_18" /\ R' = R /\ PC' = Add(Sext11(IR), PC)
      BY <1>6, ControlStep
    <2>2. PC' = Add(PC, Sext11(IR))
      BY <1>1, <2>1, AddCommutes, SextTyped DEF TypeOK
    <2> QED
      BY <1>1, <1>6, <2>1, <2>2, Bars, BarsAfter DEF ISA!isavars
  <1> QED
    BY <1>2, <1>3, <1>4, <1>5, <1>6 DEF ControlStates

\* The buttons.
LEMMA ButtonRefines ==
  ASSUME IInv, NEW sw, NEW run, NEW cont, Clk(sw, run, cont),
         State \in {"Halted", "PAUSE1", "PAUSE2"}
  PROVE  ISA!Run \/ ISA!Press \/ ISA!Release \/ UNCHANGED ISA!isavars
  <1>1. /\ image' = image /\ PC' = PC /\ R' = R /\ NZP' = NZP
        /\ mem_array' = mem_array /\ hex_data' = hex_data
        /\ State = "Halted" => State' = IF run THEN "S_18" ELSE "Halted"
        /\ State = "PAUSE1" => State' = IF cont THEN "PAUSE2" ELSE "PAUSE1"
        /\ State = "PAUSE2" => State' = IF cont THEN "PAUSE2" ELSE "S_18"
    BY IdleStep DEF Clk, Unreset, IdleStates
  <1> QED
    BY <1>1, Bars, BarsAfter DEF ISA!Run, ISA!Press, ISA!Release, ISA!Button, ISA!isavars

\* Reset, at any edge, even in the middle of an instruction.
LEMMA ResetRefines ==
  ASSUME IInv, Reset
  PROVE  ISA!Reset
  <1>1. /\ State' = "Halted" /\ PC' = 0 /\ R' = [r \in RegNum |-> 0] /\ hex_data' = 0
        /\ mem_array' = image /\ image' = image
        /\ NZP' = IF LD_CC THEN FlagsOf(Path) ELSE NZP
    BY DEF Reset, Unreset
  <1>2. FlagsOf(Path) \in {{"N"}, {"Z"}, {"P"}}
    BY DEF FlagsOf
  <1> QED
    BY <1>1, <1>2, BarsAfter, SameConditions DEF ISA!Reset

\* Every edge.
LEMMA StepRefines == RInv /\ [Next]_vars => [ISA!Next]_(ISA!isavars)
  <1> SUFFICES ASSUME RInv, [Next]_vars PROVE [ISA!Next]_(ISA!isavars)
    OBVIOUS
  <1>1. IInv /\ BranchTaken
    BY DEF RInv
  <1>2. CASE Reset
    BY <1>1, <1>2, ResetRefines DEF ISA!Next
  <1>3. ASSUME NEW sw \in Switches, NEW run, NEW cont, Clk(sw, run, cont)
        PROVE  [ISA!Next]_(ISA!isavars)
    <2>1. CASE State \in FetchStates
      BY <1>1, <1>3, <2>1, FetchRefines DEF ISA!Next
    <2>2. CASE State \in OperateStates
      BY <1>1, <1>3, <2>2, OperateRefines DEF ISA!Next
    <2>3. CASE State \in ControlStates
      BY <1>1, <1>3, <2>3, ControlRefines DEF ISA!Next
    <2>4. CASE State \in LoadStates
      BY <1>1, <1>3, <2>4, LoadRefines DEF ISA!Next
    <2>5. CASE State \in StoreStates
      BY <1>1, <1>3, <2>5, StoreRefines DEF ISA!Next
    <2>6. CASE State \in {"Halted", "PAUSE1", "PAUSE2"}
      BY <1>1, <1>3, <2>6, ButtonRefines DEF ISA!Next
    <2> QED
      BY <1>1, <2>1, <2>2, <2>3, <2>4, <2>5, <2>6
      DEF IInv, TypeOK, OpcodeOfState, States, PauseStates
  <1>4. CASE UNCHANGED vars
    <2>1. Fetched' = Fetched /\ Add(PC, Sext11(IR))' = Add(PC, Sext11(IR))
          /\ Cell(MAR)' = Cell(MAR)
      BY <1>4 DEF vars, Fetched, Add, Sext11, SignExtend, Cell
    <2> QED
      BY <1>4, <2>1 DEF vars, ISA!isavars, modeBar, pcBar, Settled, memBar, hexBar, Storing
  <1> QED
    BY <1>2, <1>3, <1>4, NextIsAnEdge

\* Power-up.
LEMMA InitRefines == Init => ISA!Init
  BY SameConditions DEF Init, ISA!Init, modeBar, pcBar, Settled, memBar, hexBar, Storing

\* Every run of the hardware, its buttons pressed at any edge and its switches in any
\* position, is a run of the instruction set that SLC3_2.sv documents for the programs
\* of memory_contents.sv.
THEOREM ImplementsISA == Spec => RefinesISA
  BY InitRefines, StepRefines, RefinementInvariant, PTL DEF Spec, RefinesISA, ISA!Spec
====
