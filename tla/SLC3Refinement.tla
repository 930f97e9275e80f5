---- MODULE SLC3Refinement ----
(* The clocked processor implements the instruction set: the mapping from its  *)
(* registers to the state a program sees.  An instruction takes effect at the  *)
(* edge that ends its last state, except that a store takes effect when S_23   *)
(* has its word in MDR and JSR when it has linked.                             *)
EXTENDS SLC3

Storing == State \in {"S_16_1", "S_16_2"}

modeBar == IF State = "Halted" THEN "halted"
           ELSE IF State = "PAUSE1" THEN "paused"
           ELSE IF State = "PAUSE2" THEN "resuming"
           ELSE "running"

\* PC points past the instruction while it is in flight.
Settled == {"Halted", "S_18", "PAUSE1", "PAUSE2", "S_16_1", "S_16_2"}
pcBar == IF State \in Settled THEN PC
         ELSE IF State = "S_21" THEN Add(PC, Sext11(IR))
         ELSE Fetched

\* The write in progress is already part of what the program sees.
memBar == IF Storing THEN [mem_array EXCEPT ![Cell(MAR)] = MDR] ELSE mem_array
hexBar == IF Storing /\ MAR = IOAddr THEN MDR ELSE hex_data

ISA == INSTANCE SLC3ISA WITH
  mode <- modeBar, pc <- pcBar, reg <- R, cc <- NZP,
  mem <- memBar, hex <- hexBar, img <- image

\* Every run of the hardware is a run of the instruction set architecture that
\* SLC3_2.sv documents for the programs of memory_contents.sv.
RefinesISA == ISA!Spec
====
