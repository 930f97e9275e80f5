---- MODULE MultiplierProofs ----
(* Proofs about the multiplier: for every set of switch positions and whatever *)
(* is done with the buttons, an undisturbed multiplication shows the product.  *)
EXTENDS Multiplier, TLAPS

Powers == {1, 2, 4, 8, 16, 32, 64, 128}

----
\* Bits 7:0 and bit 8 of sum represent the number t.
IsSigned9(sum, t) ==
  /\ sum % 256 \in Byte /\ sum \div 256 \in {0, 1}
  /\ (sum % 256) - 256 * (sum \div 256) = t

\* A number that fits nine bits survives the truncation to nine bits.
LEMMA NineBits ==
  ASSUME NEW t \in -256 .. 255,
         NEW e \in Nat, e = t \/ e = t + 512 \/ e = t + 1024
  PROVE  IsSigned9(e % 512, t)
<1>1. CASE t >= 0
  <2>1. e % 512 = t
    BY <1>1
  <2>2. t % 256 = t /\ t \div 256 = 0
    BY <1>1
  <2> QED BY <1>1, <2>1, <2>2 DEF IsSigned9, Byte
<1>2. CASE t < 0
  <2>1. e % 512 = t + 512
    BY <1>2
  <2>2. (t + 512) % 256 = t + 256 /\ (t + 512) \div 256 = 1
    BY <1>2
  <2> QED BY <1>2, <2>1, <2>2 DEF IsSigned9, Byte
<1> QED BY <1>1, <1>2

\* The nine-bit sum of two sign-extended bytes does not overflow.
LEMMA SumIsExact ==
  ASSUME NEW a \in Byte, NEW s \in Byte
  PROVE  IsSigned9((Extended(a) + Extended(s)) % 512, Signed(a) + Signed(s))
<1> DEFINE t == Signed(a) + Signed(s)
           e == Extended(a) + Extended(s)
<1>1. t \in -256 .. 255
  BY DEF Byte, Signed
<1>2. e \in Nat /\ (e = t \/ e = t + 512 \/ e = t + 1024)
  BY DEF Byte, Signed, Extended
<1> HIDE DEF t, e
<1>3. IsSigned9(e % 512, t)
  BY <1>1, <1>2, NineBits
<1> QED BY <1>3 DEF t, e

\* Nor does the difference, -128 - 127 and 127 - -128 included.
LEMMA DifferenceIsExact ==
  ASSUME NEW a \in Byte, NEW s \in Byte
  PROVE  IsSigned9((Extended(a) + Extended(255 - s) + 1) % 512, Signed(a) - Signed(s))
<1> DEFINE t == Signed(a) - Signed(s)
           e == Extended(a) + Extended(255 - s) + 1
<1>1. t \in -256 .. 255
  <2>1. CASE a < 128 /\ s < 128 BY <2>1 DEF Byte, Signed
  <2>2. CASE a < 128 /\ s >= 128 BY <2>2 DEF Byte, Signed
  <2>3. CASE a >= 128 /\ s < 128 BY <2>3 DEF Byte, Signed
  <2>4. CASE a >= 128 /\ s >= 128 BY <2>4 DEF Byte, Signed
  <2> QED BY <2>1, <2>2, <2>3, <2>4 DEF Byte
<1>2. e \in Nat /\ (e = t \/ e = t + 512 \/ e = t + 1024)
  BY DEF Byte, Signed, Extended
<1> HIDE DEF t, e
<1>3. IsSigned9(e % 512, t)
  BY <1>1, <1>2, NineBits
<1> QED BY <1>3 DEF t, e

\* The shift halves the nine-bit number and hands its low bit to B.
LEMMA ShiftIsExact ==
  ASSUME NEW a \in Byte, NEW b \in Byte, NEW x \in {0, 1},
         NEW a1, a1 = 128 * x + a \div 2,
         NEW b1, b1 = 128 * (a % 2) + b \div 2
  PROVE  /\ a1 \in Byte /\ b1 \in Byte /\ x = a1 \div 128
         /\ 2 * (256 * Signed(a1) + b1) = 256 * (a - 256 * x) + b - (b % 2)
  BY DEF Byte, Signed

\* The low bit of B is the next bit of the factor.
LEMMA CheckIsNextBit ==
  ASSUME NEW p \in Powers, NEW a \in Int, NEW t \in Int, NEW f \in Byte, NEW b \in Byte,
         256 * a + b = (256 \div p) * t + f \div p
  PROVE  b % 2 = (f \div p) % 2
<1>1. CASE p = 1 BY <1>1 DEF Byte
<1>2. CASE p = 2 BY <1>2 DEF Byte
<1>3. CASE p = 4 BY <1>3 DEF Byte
<1>4. CASE p = 8 BY <1>4 DEF Byte
<1>5. CASE p = 16 BY <1>5 DEF Byte
<1>6. CASE p = 32 BY <1>6 DEF Byte
<1>7. CASE p = 64 BY <1>7 DEF Byte
<1>8. CASE p = 128 BY <1>8 DEF Byte
<1> QED BY <1>1, <1>2, <1>3, <1>4, <1>5, <1>6, <1>7, <1>8 DEF Powers

\* The addition of a round, or its omission, adds the next bit's share.
LEMMA RoundAdds ==
  ASSUME NEW p \in Powers, NEW m \in Int, NEW f \in Byte
  PROVE  /\ (f \div p) % 2 = 0 => m * Low(p, f) = m * (f % p)
         /\ (f \div p) % 2 = 1 =>
              (256 \div p) * (m * Low(p, f)) =
                (256 \div p) * (m * (f % p)) + (IF p = 128 THEN -256 * m ELSE 256 * m)
<1>1. CASE p = 1 BY <1>1 DEF Byte, Low, Signed
<1>2. CASE p = 2 BY <1>2 DEF Byte, Low, Signed
<1>3. CASE p = 4 BY <1>3 DEF Byte, Low, Signed
<1>4. CASE p = 8 BY <1>4 DEF Byte, Low, Signed
<1>5. CASE p = 16 BY <1>5 DEF Byte, Low, Signed
<1>6. CASE p = 32 BY <1>6 DEF Byte, Low, Signed
<1>7. CASE p = 64 BY <1>7 DEF Byte, Low, Signed
<1>8. CASE p = 128 BY <1>8 DEF Byte, Low, Signed
<1> QED BY <1>1, <1>2, <1>3, <1>4, <1>5, <1>6, <1>7, <1>8 DEF Powers

\* The shift of a round halves the weights.
LEMMA RoundShifts ==
  ASSUME NEW p \in Powers, NEW t \in Int, NEW f \in Byte, NEW n \in Int,
         2 * n = (256 \div p) * t + f \div p - ((f \div p) % 2)
  PROVE  n = IF p = 128 THEN t ELSE (256 \div (2 * p)) * t + f \div (2 * p)
<1>1. CASE p = 1 BY <1>1 DEF Byte
<1>2. CASE p = 2 BY <1>2 DEF Byte
<1>3. CASE p = 4 BY <1>3 DEF Byte
<1>4. CASE p = 8 BY <1>4 DEF Byte
<1>5. CASE p = 16 BY <1>5 DEF Byte
<1>6. CASE p = 32 BY <1>6 DEF Byte
<1>7. CASE p = 64 BY <1>7 DEF Byte
<1>8. CASE p = 128 BY <1>8 DEF Byte
<1> QED BY <1>1, <1>2, <1>3, <1>4, <1>5, <1>6, <1>7, <1>8 DEF Powers

----
\* The addition of the round with weight p, as the registers see it.
RoundAdd(p) ==
  /\ S = multiplicand
  /\ Sub <=> Check /\ p = 128
  /\ IF Check THEN A' = Addition_Boi % 256 /\ X' = Addition_Boi \div 256
     ELSE A' = A /\ X' = X
  /\ B' = B /\ UNCHANGED <<factor, multiplicand>>

\* It turns the state before the addition into the state after it.
LEMMA AddPreserves ==
  ASSUME TypeOK, NEW p \in Powers, BeforeAdd(p), RoundAdd(p)
  PROVE  AfterAdd(p)'
<1> DEFINE a == Signed(A)  m == Signed(multiplicand)  bit == (factor \div p) % 2
           before == m * (factor % p)  after == m * Low(p, factor)
<1>1. /\ A \in Byte /\ B \in Byte /\ S \in Byte /\ factor \in Byte
      /\ multiplicand \in Byte /\ a \in Int /\ m \in Int
  BY SwitchesAssumption DEF TypeOK, Byte, Signed
<1>2. factor % p \in Int /\ Low(p, factor) \in Int /\ before \in Int /\ after \in Int
  BY <1>1 DEF Powers, Byte, Low, Signed
<1>3. 256 * a + B = (256 \div p) * before + factor \div p
  BY DEF BeforeAdd, Partial
<1>4. B % 2 = bit
  <2> HIDE DEF a, m, before
  <2> QED BY <1>1, <1>2, <1>3, CheckIsNextBit
<1>5. CASE Check
  <2>1. A' - 256 * X' = IF p = 128 THEN a - m ELSE a + m
    <3>1. CASE p = 128
      BY <1>1, <1>5, <3>1, DifferenceIsExact DEF RoundAdd, Addition_Boi, IsSigned9
    <3>2. CASE p # 128
      BY <1>1, <1>5, <3>2, SumIsExact DEF RoundAdd, Addition_Boi, IsSigned9
    <3> QED BY <3>1, <3>2
  <2>2. (256 \div p) * after =
          (256 \div p) * before + (IF p = 128 THEN -256 * m ELSE 256 * m)
    BY <1>1, <1>4, <1>5, RoundAdds DEF Check
  <2>3. 256 * (A' - 256 * X') + B = (256 \div p) * after + factor \div p
    <3>1. (256 \div p) * before \in Int /\ (256 \div p) * after \in Int
          /\ factor \div p \in Int /\ B \in Int
      BY <1>1, <1>2 DEF Powers, Byte
    <3> HIDE DEF a, m, before, after
    <3> QED BY <1>1, <1>3, <2>1, <2>2, <3>1
  <2> QED BY <2>3 DEF RoundAdd, AfterAdd, Partial, Signed, Low
<1>6. CASE ~Check
  <2>1. A - 256 * X = a
    BY <1>1 DEF BeforeAdd, Byte, Signed
  <2>2. after = before
    <3>1. bit = 0
      BY <1>1, <1>4, <1>6 DEF Check, Byte
    <3> HIDE DEF m
    <3> QED BY <1>1, <3>1, RoundAdds
  <2>3. 256 * (A' - 256 * X') + B = (256 \div p) * after + factor \div p
    BY <1>3, <1>6, <2>1, <2>2 DEF RoundAdd
  <2> QED BY <2>3 DEF RoundAdd, AfterAdd, Partial, Signed, Low
<1> QED BY <1>5, <1>6

\* The shift of a round, as the registers see it.
RoundShift ==
  /\ A' = 128 * X + A \div 2
  /\ B' = 128 * (A % 2) + B \div 2
  /\ X' = X /\ UNCHANGED <<factor, multiplicand>>

\* It leads to the next round, and the last one to the product.
LEMMA ShiftPreserves ==
  ASSUME TypeOK, NEW p \in Powers, AfterAdd(p), RoundShift
  PROVE  /\ p # 128 => BeforeAdd(2 * p)'
         /\ p = 128 =>
              (256 * Signed(A) + B = Signed(multiplicand) * Signed(factor))'
<1> DEFINE m == Signed(multiplicand)  t == m * Low(p, factor)
           n == 256 * Signed(A') + B'
<1>1. /\ A \in Byte /\ B \in Byte /\ X \in {0, 1} /\ factor \in Byte
      /\ m \in Int /\ t \in Int
  BY SwitchesAssumption DEF TypeOK, Byte, Signed, Low, Powers
<1> DEFINE nine == A - 256 * X
<1>2. nine \in Int /\ 256 * nine + B = (256 \div p) * t + factor \div p
  BY <1>1 DEF AfterAdd, Partial, Byte
<1>3. B % 2 = (factor \div p) % 2
  <2> HIDE DEF t, nine
  <2> QED BY <1>1, <1>2, CheckIsNextBit
<1>4. /\ A' \in Byte /\ B' \in Byte /\ X = A' \div 128
      /\ 2 * n = 256 * nine + B - (B % 2)
  BY <1>1, ShiftIsExact DEF RoundShift
<1>5. n \in Int
  BY <1>4 DEF Byte, Signed
<1>6. 2 * n = (256 \div p) * t + factor \div p - ((factor \div p) % 2)
  <2>1. (256 \div p) * t \in Int /\ factor \div p \in Int /\ B \in Int
    BY <1>1 DEF Powers, Byte
  <2>2. (factor \div p) % 2 \in Int
    BY <2>1
  <2> HIDE DEF t, nine, n
  <2>3. 256 * nine = (256 \div p) * t + factor \div p - B
    BY <1>2, <2>1
  <2> QED BY <1>2, <1>3, <1>4, <1>5, <2>1, <2>2, <2>3
<1>7. n = IF p = 128 THEN t ELSE (256 \div (2 * p)) * t + factor \div (2 * p)
  <2> HIDE DEF t, n
  <2> QED BY <1>1, <1>5, <1>6, RoundShifts
<1>8. CASE p = 128
  BY <1>7, <1>8 DEF RoundShift, Low, Signed
<1>9. CASE p # 128
  BY <1>4, <1>7, <1>9 DEF RoundShift, BeforeAdd, Partial, Low, Signed
<1> QED BY <1>8, <1>9

----
\* The states go through the rounds in order, an addition and a shift in each.
LEMMA OrderOfStates ==
  /\ \A q \in AddStates :
       /\ Successor[q] \in ShiftStates \ {"R"}
       /\ Weight[q] \in Powers \ {128} /\ Weight[Successor[q]] = Weight[q]
  /\ \A q \in ShiftStates \ {"R"} :
       /\ Successor[q] \in AddStates \cup {"Q"}
       /\ Weight[q] \in Powers \ {128} /\ Weight[Successor[q]] = 2 * Weight[q]
  /\ Successor["A1"] = "B" /\ Successor["Q"] = "R" /\ Successor["R"] = "S"
  /\ Weight["B"] = 1 /\ Weight["Q"] = 128 /\ Weight["R"] = 128
BY DEF Successor, Weight, AddStates, ShiftStates, Powers

\* The sum the adder delivers has nine bits.
LEMMA AdderRange ==
  ASSUME TypeOK
  PROVE  Addition_Boi % 256 \in Byte /\ Addition_Boi \div 256 \in {0, 1}
<1>1. A \in Byte /\ S \in Byte
  BY SwitchesAssumption DEF TypeOK
<1>2. Addition_Boi \in 0 .. 511
  BY <1>1 DEF Addition_Boi, Extended, Byte
<1> QED BY <1>2 DEF Byte

\* An edge leaves every register in its range.
LEMMA TypePreserved ==
  ASSUME TypeOK, Edge
  PROVE  TypeOK'
<1> PICK reset, run, load \in BOOLEAN, s \in Switches : Clk(reset, run, load, s)
  BY DEF Edge
<1>1. curr_state' \in States
  <2>1. next_state \in States
    BY DEF TypeOK, next_state, AfterS, Successor, States, Idle, AddStates, ShiftStates
  <2> QED BY <2>1 DEF Clk, ClockState, States, Idle
<1>2. A' \in Byte
  <2>1. 128 * X + A \div 2 \in Byte
    BY DEF TypeOK, Byte
  <2> QED BY <2>1, AdderRange DEF TypeOK, Clk, ClockA, Byte
<1>3. B' \in Byte
  <2>1. 128 * (A % 2) + B \div 2 \in Byte
    BY DEF TypeOK, Byte
  <2> QED BY <2>1, SwitchesAssumption DEF TypeOK, Clk, ClockB, Byte
<1>4. X' \in {0, 1}
  BY AdderRange DEF TypeOK, Clk, ClockX
<1>5. Reset_New' \in BOOLEAN /\ Run_New' \in BOOLEAN /\ ClearA_LoadB_New' \in BOOLEAN
      /\ S' \in Switches
  BY DEF Clk
<1>6. multiplicand' \in Switches /\ factor' \in Byte
  BY <1>3, <1>5 DEF TypeOK, Clk, History
<1>7. steady' \in BOOLEAN /\ released' \in BOOLEAN
  BY DEF Clk, History
<1>8. moves' \in 0 .. MaxMoves
  BY MovesAssumption DEF TypeOK, Clk, History
<1> QED BY <1>1, <1>2, <1>3, <1>4, <1>5, <1>6, <1>7, <1>8 DEF TypeOK

\* The edges of an undisturbed multiplication, one phase at a time.  Nothing
\* below depends on the positions of the buttons.
LEMMA UndisturbedEdge ==
  ASSUME TypeOK, Edge, steady'
  PROVE  /\ ~Reset_New /\ curr_state' = next_state
         /\ curr_state = "A1" \/ (steady /\ ~ClearA_LoadB_New /\ ~Moved)
         /\ curr_state # "A1" => UNCHANGED <<multiplicand, factor>>
         /\ ClockA /\ ClockB /\ ClockX /\ History
  BY DEF TypeOK, Edge, Clk, History, Undisturbed, Loaded, ClockState

LEMMA ClearStarts ==
  ASSUME TypeOK, TypeOK', Edge, steady', curr_state = "A1"
  PROVE  Rounds' /\ ProductIsShown'
<1>1. curr_state' = "B"
  BY UndisturbedEdge, OrderOfStates DEF next_state
<1>2. A' = 0 /\ X' = 0 /\ multiplicand' = S' /\ factor' = B'
  BY UndisturbedEdge DEF ClockA, ClockX, Clear_Ld, History
<1>3. BeforeAdd(1)'
  <2>1. B' \in Byte /\ S' \in Byte
    BY SwitchesAssumption DEF TypeOK
  <2>2. B' % 1 = 0 /\ B' \div 1 = B' /\ Signed(S') \in Int /\ Signed(0) = 0
    <3>1. \A b \in Nat : b % 1 = 0 /\ b \div 1 = b
      OBVIOUS
    <3>2. \A w \in Byte : Signed(w) \in Int
      BY DEF Byte, Signed
    <3>3. Signed(0) = 0
      BY DEF Signed
    <3>4. B' % 1 = 0 /\ B' \div 1 = B'
      <4>1. B' \in Nat
        BY <2>1 DEF Byte
      <4> QED BY <3>1, <4>1
    <3>5. Signed(S') \in Int
      BY <2>1, <3>2
    <3> QED BY <3>3, <3>4, <3>5
  <2>3. Signed(S') * (B' % 1) = 0
    BY <2>2
  <2>4. 256 * Signed(0) + B' = (256 \div 1) * (Signed(S') * (B' % 1)) + B' \div 1
    BY <2>1, <2>2, <2>3 DEF Byte
  <2> QED BY <1>2, <2>4 DEF BeforeAdd, Partial, Signed
<1> QED BY <1>1, <1>2, <1>3, OrderOfStates
        DEF Rounds, ProductIsShown, ShiftStates, Idle

LEMMA AddAdds ==
  ASSUME TypeOK, Rounds, Edge, steady', curr_state \in AddStates \cup {"Q"}
  PROVE  Rounds' /\ ProductIsShown'
<1> DEFINE p == Weight[curr_state]
<1>1. /\ steady /\ ~ClearA_LoadB_New /\ ~Reset_New /\ ~Moved
      /\ UNCHANGED <<multiplicand, factor>>
  BY UndisturbedEdge DEF AddStates
<1>2. BeforeAdd(p) /\ S = multiplicand
  BY <1>1 DEF Rounds
<1>3. /\ curr_state' \in ShiftStates /\ Weight[curr_state'] = p /\ p \in Powers
      /\ p = 128 <=> curr_state = "Q"
      /\ curr_state' = "R" <=> curr_state = "Q"
  <2>1. curr_state' = Successor[curr_state]
    BY UndisturbedEdge DEF next_state, AddStates
  <2> QED BY <2>1, OrderOfStates DEF ShiftStates, Powers, AddStates
<1>4. RoundAdd(p)
  <2>1. ~Clear_Ld /\ ~Clear_Ld' /\ ~Shift
    BY <1>3 DEF Clear_Ld, Shift, AddStates, ShiftStates
  <2>2. Add \/ Sub <=> Check
    BY DEF Add, Sub
  <2>3. ~Reset_New'
    BY DEF Edge, Clk, History, Undisturbed
  <2> QED BY <1>1, <1>2, <1>3, <2>1, <2>2, <2>3, UndisturbedEdge
          DEF RoundAdd, ClockA, ClockB, ClockX, Sub
<1>5. AfterAdd(p)'
  BY <1>2, <1>3, <1>4, AddPreserves
<1>6. curr_state' # "R" => S' = multiplicand'
  BY <1>1, <1>2, <1>3 DEF Moved
<1> QED BY <1>3, <1>5, <1>6 DEF Rounds, ProductIsShown, ShiftStates, AddStates, Idle

LEMMA ShiftShifts ==
  ASSUME TypeOK, Rounds, Edge, steady', curr_state \in ShiftStates
  PROVE  Rounds' /\ ProductIsShown'
<1> PICK p \in Powers : p = Weight[curr_state]
  BY OrderOfStates DEF ShiftStates, Powers
<1>1. /\ steady /\ ~ClearA_LoadB_New /\ ~Reset_New /\ ~Moved
      /\ UNCHANGED <<multiplicand, factor>>
  BY UndisturbedEdge DEF ShiftStates
<1>2. AfterAdd(p)
  BY <1>1 DEF Rounds
<1>3. curr_state' = Successor[curr_state]
  BY UndisturbedEdge DEF next_state, ShiftStates
<1>4. RoundShift
  <2>1. ~Clear_Ld /\ ~Add /\ ~Sub /\ Shift
    BY DEF Clear_Ld, Shift, Add, Sub, AddStates, ShiftStates
  <2>2. ~Clear_Ld' /\ ~Reset_New'
    <3>1. ~Reset_New'
      BY DEF Edge, Clk, History, Undisturbed
    <3>2. curr_state' \notin {"A", "A1"}
      BY <1>3, OrderOfStates DEF AddStates
    <3> QED BY <3>1, <3>2 DEF Clear_Ld
  <2> QED BY <1>1, <2>1, <2>2, UndisturbedEdge DEF RoundShift, ClockA, ClockB, ClockX
<1>5. CASE curr_state # "R"
  <2>1. /\ curr_state' \in AddStates \cup {"Q"} /\ Weight[curr_state'] = 2 * p
        /\ p # 128
    BY <1>3, <1>5, OrderOfStates
  <2>2. BeforeAdd(2 * p)'
    BY <1>2, <1>3, <1>4, <2>1, ShiftPreserves
  <2>3. S' = multiplicand'
    BY <1>1, <1>5 DEF Moved, Rounds
  <2> QED BY <2>1, <2>2, <2>3 DEF Rounds, ProductIsShown, ShiftStates, AddStates, Idle
<1>6. CASE curr_state = "R"
  <2>1. curr_state' = "S" /\ p = 128
    BY <1>3, <1>6, OrderOfStates
  <2>2. (256 * Signed(A) + B = Signed(multiplicand) * Signed(factor))'
    BY <1>2, <1>3, <1>4, <2>1, ShiftPreserves
  <2> QED BY <2>1, <2>2 DEF Rounds, ProductIsShown, ShiftStates, AddStates, Idle
<1> QED BY <1>5, <1>6

LEMMA RestKeeps ==
  ASSUME TypeOK, ProductIsShown, Edge, steady', curr_state \in Idle
  PROVE  Rounds' /\ ProductIsShown'
<1>1. steady /\ ~ClearA_LoadB_New /\ ~Reset_New /\ UNCHANGED <<multiplicand, factor>>
  BY UndisturbedEdge DEF Idle
<1>2. A' = A /\ B' = B
  BY <1>1, UndisturbedEdge DEF ClockA, ClockB, Clear_Ld, Add, Sub, Shift, Idle,
                               AddStates, ShiftStates
<1>3. curr_state' \in Idle \cup {"A1"}
  BY UndisturbedEdge DEF next_state, AfterS, Idle
<1> QED BY <1>1, <1>2, <1>3 DEF Rounds, ProductIsShown, Idle, AddStates, ShiftStates, Signed

\* A press of Run is used up by the multiplication it starts.
LEMMA PressPreserved ==
  ASSUME TypeOK, RunWasUp, Edge
  PROVE  RunWasUp'
<1>1. ClockState /\ History
  BY DEF Edge, Clk
<1>2. CASE curr_state' = "A" /\ ~Reset_New' /\ Run_New'
  <2>1. next_state = "A" \/ Reset_New
    BY <1>1, <1>2 DEF ClockState
  <2>2. next_state = "A" => ~Run_New
    BY DEF TypeOK, next_state, AfterS, Successor, States, Idle, AddStates, ShiftStates
  <2>3. released
    BY <2>1, <2>2 DEF RunWasUp
  <2> QED BY <1>1, <1>2, <2>3 DEF History, RunWasUp
<1>3. CASE ~Run_New' \/ Reset_New'
  BY <1>1, <1>3 DEF History, RunWasUp
<1> QED BY <1>2, <1>3 DEF RunWasUp

----
LEMMA InitInvariant == Init => IInv
<1> SUFFICES ASSUME Init PROVE IInv
  OBVIOUS
<1>1. TypeOK
  <2>1. A \in Byte /\ B \in Byte /\ X \in {0, 1} /\ factor \in Byte /\ moves \in 0 .. MaxMoves
    BY MovesAssumption DEF Init, Byte
  <2> QED BY <2>1 DEF Init, TypeOK, States, Idle
<1>2. Rounds /\ ProductIsShown /\ RunWasUp
  BY DEF Init, Rounds, ProductIsShown, RunWasUp
<1> QED BY <1>1, <1>2 DEF IInv

LEMMA NextInvariant ==
  ASSUME IInv, [Next]_vars
  PROVE  IInv'
<1>1. CASE Edge
  <2>1. TypeOK' /\ RunWasUp'
    BY <1>1, TypePreserved, PressPreserved DEF IInv
  <2>2. CASE steady'
    <3>1. curr_state \in Idle \cup {"A1"} \cup (AddStates \cup {"Q"}) \cup ShiftStates
      BY DEF IInv, TypeOK, States
    <3> QED BY <1>1, <2>1, <2>2, <3>1, ClearStarts, AddAdds, ShiftShifts, RestKeeps
            DEF IInv
  <2>3. CASE ~steady'
    BY <2>1, <2>3 DEF IInv, Rounds, ProductIsShown
  <2>4. steady' \in BOOLEAN
    BY <2>1 DEF TypeOK
  <2> QED BY <2>1, <2>2, <2>3 DEF IInv
<1>2. CASE UNCHANGED vars
  BY <1>2 DEF IInv, TypeOK, Rounds, ProductIsShown, RunWasUp, BeforeAdd, AfterAdd,
              Partial, Low, Signed, vars, registers, buttons
<1> QED BY <1>1, <1>2 DEF Next, Rest, Clear, AddOrSubtract, ShiftRight

\* The inductive invariant holds whatever is done with buttons and switches.
THEOREM Invariant == Spec => []IInv
  BY InitInvariant, NextInvariant, PTL DEF Spec

\* Every register of the multiplier keeps its width, the ninth bit X included.
THEOREM TypeCorrect == Spec => []TypeOK
<1>1. IInv => TypeOK
  BY DEF IInv
<1> QED BY Invariant, <1>1, PTL

\* An undisturbed multiplication shows the product of any two signed bytes, for
\* as long as no button is pressed.
THEOREM ProductCorrect == Spec => []ProductIsShown
<1>1. IInv => ProductIsShown
  BY DEF IInv
<1> QED BY Invariant, <1>1, PTL

\* A press of Run, however long, starts one multiplication.
THEOREM OnePress == Spec => OneProductPerPress
<1>1. IInv => [curr_state = "A" /\ curr_state' = "A1" => released]_vars
  BY DEF IInv, RunWasUp
<1> QED BY Invariant, <1>1, PTL DEF OneProductPerPress
====
