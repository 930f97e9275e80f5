---- MODULE Multiplier ----
(* The 8-bit two's complement multiplier of Lab5, clock edge by clock edge: the *)
(* controller (controller.sv), registers A, B and X, the nine-bit adder and the *)
(* button synchronizers (Multiplier.sv).  The switches S are the multiplicand   *)
(* and are not latched; B holds the multiplier and receives the low byte of the *)
(* product.                                                                     *)
EXTENDS Integers

CONSTANTS
  Switches,      \* positions of the switches S
  MaxMoves       \* bound: interferences with multiplications in progress

Byte == 0 .. 255

ASSUME SwitchesAssumption == Switches \subseteq Byte
ASSUME MovesAssumption == MaxMoves \in Nat

VARIABLES
  curr_state,                            \* control
  A, B, X,                               \* registers
  Reset_New, Run_New, ClearA_LoadB_New,  \* synchronizers of the buttons
  S,                                     \* the switches
  multiplicand,  \* history: the switches when the multiplication began
  factor,        \* history: the multiplier, B when the multiplication began
  steady,        \* history: neither S nor B was touched since
  released,      \* history: Run was up since the last multiplication began
  moves          \* edges at which someone interfered with a multiplication

registers == <<curr_state, A, B, X>>
buttons == <<Reset_New, Run_New, ClearA_LoadB_New>>
vars == <<registers, buttons, S, multiplicand, factor, steady, released, moves>>

Idle == {"A", "S"}
AddStates == {"B", "D", "F", "H", "K", "M", "O"}
ShiftStates == {"C", "E", "G", "I", "L", "N", "P", "R"}
States == Idle \cup {"A1", "Q"} \cup AddStates \cup ShiftStates

----
\* controller.sv, second case statement.  Check is the low bit of B.
Check == B % 2 = 1
Clear_Ld == curr_state = "A1" \/ (curr_state = "A" /\ ClearA_LoadB_New)
Shift == curr_state \in ShiftStates
Add == curr_state \in AddStates /\ Check
MutSub == FALSE                                    \* mutant: the sign bit ignored
Sub == curr_state = "Q" /\ Check

\* The states follow each other in the order of the first case statement.
Successor ==
  [A1 |-> "B", B |-> "C", C |-> "D", D |-> "E", E |-> "F", F |-> "G", G |-> "H",
   H |-> "I", I |-> "K", K |-> "L", L |-> "M", M |-> "N", N |-> "O", O |-> "P",
   P |-> "Q", Q |-> "R", R |-> "S"]

MutAfterS == "A"                                   \* mutant: does not wait
AfterS == IF Run_New THEN "S" ELSE "A"
next_state ==
  IF curr_state = "A" THEN IF Run_New THEN "A1" ELSE "A"
  ELSE IF curr_state = "S" THEN AfterS
  ELSE Successor[curr_state]

\* adder8.sv: nine bits, both operands sign-extended; fn subtracts.
Extended(w) == IF w < 128 THEN w ELSE w + 256
MutAddition_Boi ==                                 \* mutant: a tenth bit
  Extended(A) + IF Sub THEN Extended(255 - S) + 1 ELSE Extended(S)
Addition_Boi ==
  IF Sub THEN (Extended(A) + Extended(255 - S) + 1) % 512
  ELSE (Extended(A) + Extended(S)) % 512

----
\* What the edge does to the registers; load wins over shift, clear over both.
ClockA == A' = IF Reset_New \/ Clear_Ld THEN 0
               ELSE IF Add \/ Sub THEN Addition_Boi % 256
               ELSE IF Shift THEN 128 * X + A \div 2
               ELSE A

ClockB == B' = IF Reset_New THEN 0
               ELSE IF ClearA_LoadB_New THEN S
               ELSE IF Shift THEN 128 * (A % 2) + B \div 2
               ELSE B

\* The reset of the controller is asynchronous: it acts as Reset_New rises.
ClockState == curr_state' = IF Reset_New \/ Reset_New' THEN "A" ELSE next_state

\* So is the clear of X, which acts as soon as the new state raises Clear_Ld.
ClockX == X' = IF Clear_Ld \/ Reset_New \/ Clear_Ld' \/ Reset_New' THEN 0
               ELSE IF Add \/ Sub THEN Addition_Boi \div 256
               ELSE X

\* What disturbs a multiplication: the switches move between two additions, or
\* the load button, which the controller does not guard, replaces B.
Moved == curr_state \in AddStates \cup (ShiftStates \ {"R"}) /\ S' # S
Loaded == ClearA_LoadB_New /\ curr_state # "A1"
Undisturbed == ~Moved /\ ~Loaded /\ ~Reset_New /\ ~Reset_New'

History ==
  /\ IF curr_state = "A1" THEN multiplicand' = S' /\ factor' = B'
     ELSE UNCHANGED <<multiplicand, factor>>
  /\ steady' = (Undisturbed /\ (steady \/ curr_state = "A1"))
  /\ released' = (~Run_New' \/ Reset_New' \/ (released /\ curr_state' # "A1"))
  /\ moves' = IF Moved \/ (ClearA_LoadB_New' /\ curr_state \notin Idle \cup {"A1"})
              THEN moves + 1 ELSE moves
  /\ moves' <= MaxMoves

\* A rising edge of Clk.  Buttons and switches may be in any position.
Clk(reset, run, load, s) ==
  /\ Reset_New' = reset /\ Run_New' = run /\ ClearA_LoadB_New' = load
  /\ S' = s
  /\ ClockState /\ ClockA /\ ClockB /\ ClockX
  /\ History

Edge == \E reset, run, load \in BOOLEAN, s \in Switches : Clk(reset, run, load, s)

Rest == curr_state \in Idle /\ Edge
Clear == curr_state = "A1" /\ Edge
AddOrSubtract == curr_state \in AddStates \cup {"Q"} /\ Edge
ShiftRight == curr_state \in ShiftStates /\ Edge

Init ==
  /\ curr_state = "A" /\ A = 0 /\ B = 0 /\ X = 0
  /\ Reset_New = FALSE /\ Run_New = FALSE /\ ClearA_LoadB_New = FALSE
  /\ S \in Switches
  /\ multiplicand = S /\ factor = 0 /\ steady = FALSE /\ released = TRUE
  /\ moves = 0

Next == Rest \/ Clear \/ AddOrSubtract \/ ShiftRight

Spec == Init /\ [][Next]_vars

----
TypeOK ==
  /\ curr_state \in States
  /\ A \in Byte /\ B \in Byte /\ X \in {0, 1}
  /\ Reset_New \in BOOLEAN /\ Run_New \in BOOLEAN /\ ClearA_LoadB_New \in BOOLEAN
  /\ S \in Switches /\ multiplicand \in Switches /\ factor \in Byte
  /\ steady \in BOOLEAN /\ released \in BOOLEAN /\ moves \in 0 .. MaxMoves

\* A multiplication that nobody disturbed leaves in A and B the product of the
\* signed bytes on the switches and in B, and keeps it until a button changes
\* it.  This holds for a second press of Run on the low byte of a product, and
\* for -128 times -128 (Multiplier.sv, adder8.sv).
Signed(w) == IF w < 128 THEN w ELSE w - 256
ProductIsShown ==
  curr_state \in Idle /\ steady =>
    256 * Signed(A) + B = Signed(multiplicand) * Signed(factor)

\* However long Run is held, it starts one multiplication: without a Reset, a
\* second one begins only after Run has been up (controller.sv, state S).
OneProductPerPress == [][curr_state = "A" /\ curr_state' = "A1" => released]_vars

----
\* The inductive invariant of the proofs.  After k rounds A and B hold the product
\* of the multiplicand with the low k bits of the factor, weighted by 256 / 2^k,
\* and the bits of the factor still to come; Weight is 2^k.
Weight ==
  [B |-> 1, C |-> 1, D |-> 2, E |-> 2, F |-> 4, G |-> 4, H |-> 8, I |-> 8,
   K |-> 16, L |-> 16, M |-> 32, N |-> 32, O |-> 64, P |-> 64, Q |-> 128, R |-> 128]

Partial(a, p, low) ==
  256 * a + B = (256 \div p) * (Signed(multiplicand) * low) + factor \div p

\* Before the addition of a round X repeats the sign of A.
BeforeAdd(p) == X = A \div 128 /\ Partial(Signed(A), p, factor % p)

\* After it X and A are a nine-bit number; the last bit counts negative.
Low(p, f) == IF p = 128 THEN Signed(f) ELSE f % (2 * p)
AfterAdd(p) == Partial(A - 256 * X, p, Low(p, factor))

Rounds ==
  steady =>
    /\ curr_state \in AddStates \cup {"Q"} => BeforeAdd(Weight[curr_state])
    /\ curr_state \in ShiftStates => AfterAdd(Weight[curr_state])
    /\ curr_state \in AddStates \cup (ShiftStates \ {"R"}) \cup {"Q"} => S = multiplicand

RunWasUp == ~Run_New \/ Reset_New \/ curr_state = "A" => released

IInv == TypeOK /\ Rounds /\ ProductIsShown /\ RunWasUp
====
