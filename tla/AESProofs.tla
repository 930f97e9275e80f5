---- MODULE AESProofs ----
(* What is proved of the decryption core and its driver: for every key schedule *)
(* and byte transformation, every request and any spacing of the bus accesses,  *)
(* the core computes the inverse cipher and the program is never more than one  *)
(* request behind, unless a start was held into DONE; how far that moves the    *)
(* round counter is proved too.                                                 *)
EXTENDS AESDriver, TLAPS

\* The first n ROM stages hold the keys they have under a settled schedule.
Settled(key, n) == \A i \in 1 .. n : rom[i] = RoundKeys(key)[i - 1]

----
\* What the registers of the core hold in each state of the controller, when the
\* decryption under way is that of msg under key and began with the counters at
\* their start.
InExpansion(key, msg) ==
  /\ count9 = 0 /\ elapsed = countkey
  /\ \A n \in 1 .. 10 : n <= countkey + 1 => Settled(key, n)
InFirstKey(key, msg) == count9 = 0 /\ elapsed = 25 /\ Hold = msg

\* Round count9: the block before it, and the block once the round's key is added.
\* Edge d of the eight edges of the round is that of the d-th state after ISR_LOOP.
Done(key, msg) == Rounds(key, msg)[count9 - 1]
Keyed(key, msg) == Unrolled(Done(key, msg), RoundKeys(key)[10 - count9])
RoundEdge(d) == count9 \in 1 .. 9 /\ elapsed = 18 + 8 * count9 + d
InISRLoop(key, msg) == RoundEdge(0) /\ Hold = Done(key, msg)
InISBLoop(key, msg) == RoundEdge(1) /\ Hold = InvShiftRows(Done(key, msg))
InARKLoop(key, msg) == RoundEdge(2) /\ Hold = InvSubBytes(InvShiftRows(Done(key, msg)))
\* The columns are mixed from the last to the first, one in each state.
InIMCLoop(key, msg, i) ==
  /\ RoundEdge(3 + i) /\ Hold = Keyed(key, msg)
  /\ \A w \in 1 .. 4 : w > 4 - i => IMC_reg[w] = InvMixColumns(Hold[w])
InPauseLoop(key, msg) ==
  count9 \in 2 .. 9 /\ elapsed = 17 + 8 * count9 /\ IMC_reg = Done(key, msg)

\* The last round, which mixes no columns.
InLast(edge) == count9 = 10 /\ elapsed = edge
InPause(key, msg) == InLast(97) /\ IMC_reg = Rounds(key, msg)[9]
InISR(key, msg) == InLast(98) /\ Hold = Rounds(key, msg)[9]
InISB(key, msg) == InLast(99) /\ Hold = InvShiftRows(Rounds(key, msg)[9])
InARK2(key, msg) == InLast(100) /\ Hold = InvSubBytes(InvShiftRows(Rounds(key, msg)[9]))
InDone(key, msg) == Hold = Decrypt(key, msg)

Working(key, msg) ==
  /\ State = "KeyExpansion" => InExpansion(key, msg)
  /\ State \notin {"WAIT", "KeyExpansion"} => countkey = 0 /\ Settled(key, 10)
  /\ State = "ARK1" => InFirstKey(key, msg)
  /\ State = "ISR_LOOP" => InISRLoop(key, msg)
  /\ State = "ISB_LOOP" => InISBLoop(key, msg)
  /\ State = "ARK_LOOP" => InARKLoop(key, msg)
  /\ State = "IMC_LOOP0" => InIMCLoop(key, msg, 0)
  /\ State = "IMC_LOOP1" => InIMCLoop(key, msg, 1)
  /\ State = "IMC_LOOP2" => InIMCLoop(key, msg, 2)
  /\ State = "IMC_LOOP3" => InIMCLoop(key, msg, 3)
  /\ State = "PAUSE_LOOP" => InPauseLoop(key, msg)
  /\ State = "PAUSE" => InPause(key, msg)
  /\ State = "ISR" => InISR(key, msg)
  /\ State = "ISB" => InISB(key, msg)
  /\ State = "ARK2" => InARK2(key, msg)
  /\ State = "DONE" => InDone(key, msg)

\* What the counters do in any decryption, a late one included: the last round is
\* left with the round counter at 10, and DONE counts on while start is held.
CountInv ==
  /\ State \notin {"WAIT", "KeyExpansion"} => countkey = 0
  /\ State \notin {"WAIT", "DONE"} => held = 0
  /\ State \in {"PAUSE", "ISR", "ISB", "ARK2"} => count9 = 10
  /\ State = "DONE" => count9 = IF held = 0 THEN 10 ELSE held - 1

----
\* The first n accesses of Program but the last three have been done.
Loaded(n) == \A i \in 1 .. 8 : i < n => REG[i - 1] = Program[i].data
Result == [i \in 1 .. 4 |-> REG[i + 7]]

ResetInv ==
  resetting # 0 => /\ State = "WAIT" /\ pc = Enter /\ calls = 0
                   /\ REG = [a \in 0 .. 15 |-> Zero]
StartInv ==
  /\ REG[14] = IF pc = StartWrite + 1 THEN One ELSE Zero
  /\ State # "WAIT" => pc \notin 1 .. 8
LateInv ==
  calls = 0 => /\ ~late /\ ~lateBefore
               /\ pc <= StartWrite + 1 /\ State = "WAIT" => held = 0
FlagInv ==
  /\ REG[15] = Zero => calls = 0
  /\ pc > Poll => REG[15] # Zero
  /\ calls = 0 /\ pc < Poll =>
       /\ State # "WAIT" => pc = StartWrite + 1
       /\ REG[15] # Zero => State = "DONE"
  /\ calls = 0 /\ pc = Poll =>
       IF REG[15] = Zero THEN State # "WAIT" ELSE State \in {"WAIT", "DONE"}
  /\ calls = 0 /\ pc > Poll => State = "WAIT"
CallsInv == pc # Enter => calls < MaxCalls
RequestInv ==
  run_mode = 0 =>
    /\ pc # Enter \/ calls > 0 => request \in Requests
    /\ pc # Enter => Loaded(pc)
    /\ State # "WAIT" => pc \notin 1 .. StartWrite /\ Loaded(9)
\* Whether the core has taken the start of the call at hand, or of the last one.
Started == pc \notin 1 .. StartWrite /\ (pc = StartWrite + 1 => State # "WAIT")
ResultInv ==
  run_mode = 0 =>
    /\ calls > 0 /\ ~Started /\ ~late => Result = previous.msg
    /\ calls > 0 /\ Started /\ State = "WAIT" /\ ~late => Result = request.msg
    /\ calls > 0 /\ Started /\ State # "WAIT" /\ ~lateBefore =>
         \/ Result = previous.msg
         \/ State = "DONE" /\ pc \in {StartWrite + 1, Poll}
    /\ calls = 0 /\ REG[15] # Zero => Result = request.msg
\* The words read so far are the request's up to word j, the one's before after it.
Mixed(j) == \A i \in 1 .. 4 : i > Return - pc =>
              msg_dec[i] = IF i <= j THEN request.msg[i] ELSE previous.msg[i]
ReadInv ==
  run_mode = 0 /\ pc > Poll =>
    /\ calls = 0 => Mixed(4)
    /\ calls > 0 /\ ~late /\ ~lateBefore =>
         (\E j \in 0 .. 4 : Mixed(j)) /\ (State # "WAIT" => Mixed(0))

IInv ==
  /\ TypeOK /\ previous.msg \in Block /\ request.msg \in Block
  /\ (~late => Working(KEY, MSG_ENC)) /\ CountInv /\ CountersRest
  /\ ResetInv /\ StartInv /\ LateInv /\ FlagInv /\ CallsInv
  /\ RequestInv /\ ResultInv /\ ReadInv

----
(* The key schedule and the rounds.                                             *)

LEMMA BlockWords ==
  ASSUME NEW b \in Block
  PROVE  /\ b[1] \in Col /\ b[2] \in Col /\ b[3] \in Col /\ b[4] \in Col
         /\ b = <<b[1], b[2], b[3], b[4]>>
BY DEF Block

LEMMA WordsBlock ==
  ASSUME NEW v \in Col, NEW w \in Col, NEW x \in Col, NEW y \in Col
  PROVE  <<v, w, x, y>> \in Block
BY DEF Block

LEMMA ZeroBlockType == ZeroBlock \in Block
BY WordsBlock, CoreAssumption DEF ZeroBlock

LEMMA XorType ==
  ASSUME NEW a \in Block, NEW b \in Block
  PROVE  Xor(a, b) \in Block
BY BlockWords, WordsBlock, CoreAssumption DEF Xor

LEMMA ExpandType ==
  ASSUME NEW i \in 1 .. 10, NEW old \in Block, NEW sample \in Block
  PROVE  Expand(i, old, sample) \in Block
<1>1. /\ old[1] \in Col /\ old[2] \in Col /\ old[3] \in Col /\ old[4] \in Col
      /\ sample[4] \in Col
  BY BlockWords
<1>2. PICK v1 : v1 = XorWord(old[1], SubWordRcon(i, sample[4]))
  OBVIOUS
<1>3. PICK v2 : v2 = XorWord(old[2], v1)
  OBVIOUS
<1>4. PICK v3 : v3 = XorWord(old[3], v2)
  OBVIOUS
<1>5. PICK v4 : v4 = XorWord(old[4], v3)
  OBVIOUS
<1>6. v1 \in Col
  BY <1>1, <1>2, CoreAssumption
<1>7. v2 \in Col
  BY <1>1, <1>3, <1>6, CoreAssumption
<1>8. v3 \in Col
  BY <1>1, <1>4, <1>7, CoreAssumption
<1>9. v4 \in Col
  BY <1>1, <1>5, <1>8, CoreAssumption
<1>10. Expand(i, old, sample) = <<v1, v2, v3, v4>>
  BY <1>2, <1>3, <1>4, <1>5 DEF Expand
<1> QED  BY <1>6, <1>7, <1>8, <1>9, <1>10, WordsBlock

LEMMA MixColumnsType ==
  ASSUME NEW b \in Block
  PROVE  MixColumns(b) \in Block
BY BlockWords, WordsBlock, CoreAssumption DEF MixColumns

LEMMA UnrolledType ==
  ASSUME NEW b \in Block, NEW key \in Block
  PROVE  Unrolled(b, key) \in Block
BY XorType, CoreAssumption DEF Unrolled

\* RoundKeys is the function its recursive definition speaks of: the schedule
\* written out is a solution of the equation, so the solution chosen is one.
LEMMA RoundKeysUnfold ==
  ASSUME NEW key
  PROVE  RoundKeys(key) = [i \in 0 .. 10 |-> IF i = 0 THEN key
           ELSE Expand(i, RoundKeys(key)[i - 1], RoundKeys(key)[i - 1])]
<1> DEFINE Eq(f) == f = [i \in 0 .. 10 |-> IF i = 0 THEN key
                                           ELSE Expand(i, f[i - 1], f[i - 1])]
<1>e1. PICK e1 : e1 = Expand(1, key, key)
  OBVIOUS
<1>e2. PICK e2 : e2 = Expand(2, e1, e1)
  OBVIOUS
<1>e3. PICK e3 : e3 = Expand(3, e2, e2)
  OBVIOUS
<1>e4. PICK e4 : e4 = Expand(4, e3, e3)
  OBVIOUS
<1>e5. PICK e5 : e5 = Expand(5, e4, e4)
  OBVIOUS
<1>e6. PICK e6 : e6 = Expand(6, e5, e5)
  OBVIOUS
<1>e7. PICK e7 : e7 = Expand(7, e6, e6)
  OBVIOUS
<1>e8. PICK e8 : e8 = Expand(8, e7, e7)
  OBVIOUS
<1>e9. PICK e9 : e9 = Expand(9, e8, e8)
  OBVIOUS
<1>e10. PICK e10 : e10 = Expand(10, e9, e9)
  OBVIOUS
<1> DEFINE written == [i \in 0 .. 10 |->
                         <<key, e1, e2, e3, e4, e5, e6, e7, e8, e9, e10>>[i + 1]]
<1>1. /\ e1 = Expand(1, key, key)
      /\ e2 = Expand(2, e1, e1) /\ e3 = Expand(3, e2, e2) /\ e4 = Expand(4, e3, e3)
      /\ e5 = Expand(5, e4, e4) /\ e6 = Expand(6, e5, e5) /\ e7 = Expand(7, e6, e6)
      /\ e8 = Expand(8, e7, e7) /\ e9 = Expand(9, e8, e8) /\ e10 = Expand(10, e9, e9)
  BY <1>e1, <1>e2, <1>e3, <1>e4, <1>e5, <1>e6, <1>e7, <1>e8, <1>e9, <1>e10
<1>2. /\ written[0] = key /\ written[1] = e1 /\ written[2] = e2 /\ written[3] = e3
      /\ written[4] = e4 /\ written[5] = e5 /\ written[6] = e6 /\ written[7] = e7
      /\ written[8] = e8 /\ written[9] = e9 /\ written[10] = e10
      /\ written = [i \in 0 .. 10 |-> written[i]]
  OBVIOUS
<1> HIDE DEF written
<1> DEFINE unfolded == [i \in 0 .. 10 |-> IF i = 0 THEN key
                          ELSE Expand(i, written[i - 1], written[i - 1])]
<1>3. unfolded = written
  <2>1. unfolded[0] = key
    OBVIOUS
  <2>2. unfolded[1] = e1
    BY <1>e1, <1>2
  <2>3. unfolded[2] = e2
    BY <1>e2, <1>2
  <2>4. unfolded[3] = e3
    BY <1>e3, <1>2
  <2>5. unfolded[4] = e4
    BY <1>e4, <1>2
  <2>6. unfolded[5] = e5
    BY <1>e5, <1>2
  <2>7. unfolded[6] = e6
    BY <1>e6, <1>2
  <2>8. unfolded[7] = e7
    BY <1>e7, <1>2
  <2>9. unfolded[8] = e8
    BY <1>e8, <1>2
  <2>10. unfolded[9] = e9
    BY <1>e9, <1>2
  <2>11. unfolded[10] = e10
    BY <1>e10, <1>2
  <2> HIDE DEF unfolded
  <2>12. \A i \in 0 .. 10 : i \in {0, 1, 2, 3, 4, 5, 6, 7, 8, 9, 10}
    OBVIOUS
  <2>13. \A i \in 0 .. 10 : unfolded[i] = written[i]
    BY <1>2, <2>1, <2>2, <2>3, <2>4, <2>5, <2>6, <2>7, <2>8, <2>9, <2>10, <2>11, <2>12
  <2>14. unfolded = [i \in 0 .. 10 |-> unfolded[i]]
    BY DEF unfolded
  <2> QED  BY <1>2, <2>13, <2>14
<1>4. Eq(written)
  BY <1>3
<1>5. Eq(CHOOSE f : Eq(f))
  <2> HIDE DEF Eq
  <2> QED  BY <1>4, Zenon
<1>6. RoundKeys(key) = CHOOSE f : Eq(f)
  BY DEF RoundKeys
<1> QED  BY <1>5, <1>6

LEMMA RoundKeysStep ==
  ASSUME NEW key \in Block
  PROVE  /\ RoundKeys(key)[0] = key
         /\ \A i \in 1 .. 10 : RoundKeys(key)[i] =
              Expand(i, RoundKeys(key)[i - 1], RoundKeys(key)[i - 1])
         /\ \A i \in 0 .. 10 : RoundKeys(key)[i] \in Block
<1> DEFINE rk == RoundKeys(key)
<1>1. rk = [i \in 0 .. 10 |-> IF i = 0 THEN key ELSE Expand(i, rk[i - 1], rk[i - 1])]
  BY RoundKeysUnfold
<1> HIDE DEF rk
<1>2. rk[0] = key /\ \A i \in 1 .. 10 : rk[i] = Expand(i, rk[i - 1], rk[i - 1])
  BY <1>1
<1>3. \A i \in 1 .. 10 : rk[i - 1] \in Block => rk[i] \in Block
  BY <1>2, ExpandType
<1>4. /\ rk[0] \in Block /\ rk[1] \in Block /\ rk[2] \in Block /\ rk[3] \in Block
      /\ rk[4] \in Block
  BY <1>2, <1>3
<1>5. rk[5] \in Block /\ rk[6] \in Block /\ rk[7] \in Block
  BY <1>3, <1>4
<1>6. rk[8] \in Block /\ rk[9] \in Block /\ rk[10] \in Block
  BY <1>3, <1>5
<1>7. \A i \in 0 .. 10 : i \in {0, 1, 2, 3, 4, 5, 6, 7, 8, 9, 10}
  OBVIOUS
<1>8. \A i \in 0 .. 10 : rk[i] \in Block
  BY <1>4, <1>5, <1>6, <1>7
<1> QED  BY <1>2, <1>8 DEF rk

LEMMA KeysUnfold ==
  ASSUME NEW key, NEW sample
  PROVE  Keys(key, sample) = [i \in 1 .. 11 |-> IF i = 1 THEN key
           ELSE Expand(i - 1, Keys(key, sample)[i - 1], sample[i - 1])]
<1> DEFINE Eq(f) == f = [i \in 1 .. 11 |-> IF i = 1 THEN key
                                ELSE Expand(i - 1, f[i - 1], sample[i - 1])]
<1>e1. PICK e1 : e1 = key
  OBVIOUS
<1>e2. PICK e2 : e2 = Expand(2 - 1, e1, sample[2 - 1])
  OBVIOUS
<1>e3. PICK e3 : e3 = Expand(3 - 1, e2, sample[3 - 1])
  OBVIOUS
<1>e4. PICK e4 : e4 = Expand(4 - 1, e3, sample[4 - 1])
  OBVIOUS
<1>e5. PICK e5 : e5 = Expand(5 - 1, e4, sample[5 - 1])
  OBVIOUS
<1>e6. PICK e6 : e6 = Expand(6 - 1, e5, sample[6 - 1])
  OBVIOUS
<1>e7. PICK e7 : e7 = Expand(7 - 1, e6, sample[7 - 1])
  OBVIOUS
<1>e8. PICK e8 : e8 = Expand(8 - 1, e7, sample[8 - 1])
  OBVIOUS
<1>e9. PICK e9 : e9 = Expand(9 - 1, e8, sample[9 - 1])
  OBVIOUS
<1>e10. PICK e10 : e10 = Expand(10 - 1, e9, sample[10 - 1])
  OBVIOUS
<1>e11. PICK e11 : e11 = Expand(11 - 1, e10, sample[11 - 1])
  OBVIOUS
<1> DEFINE written == [i \in 1 .. 11 |->
                         <<e1, e2, e3, e4, e5, e6, e7, e8, e9, e10, e11>>[i]]
<1>2. /\ written[1] = e1 /\ written[2] = e2 /\ written[3] = e3 /\ written[4] = e4
      /\ written[5] = e5 /\ written[6] = e6 /\ written[7] = e7 /\ written[8] = e8
      /\ written[9] = e9 /\ written[10] = e10 /\ written[11] = e11
      /\ written = [i \in 1 .. 11 |-> written[i]]
  OBVIOUS
<1> HIDE DEF written
<1> DEFINE unfolded == [i \in 1 .. 11 |-> IF i = 1 THEN key
                          ELSE Expand(i - 1, written[i - 1], sample[i - 1])]
<1>3. unfolded = written
  <2>1. unfolded[1] = e1
    BY <1>e1, <1>2
  <2>2. unfolded[2] = e2
    BY <1>e2, <1>2
  <2>3. unfolded[3] = e3
    BY <1>e3, <1>2
  <2>4. unfolded[4] = e4
    BY <1>e4, <1>2
  <2>5. unfolded[5] = e5
    BY <1>e5, <1>2
  <2>6. unfolded[6] = e6
    BY <1>e6, <1>2
  <2>7. unfolded[7] = e7
    BY <1>e7, <1>2
  <2>8. unfolded[8] = e8
    BY <1>e8, <1>2
  <2>9. unfolded[9] = e9
    BY <1>e9, <1>2
  <2>10. unfolded[10] = e10
    BY <1>e10, <1>2
  <2>11. unfolded[11] = e11
    BY <1>e11, <1>2
  <2> HIDE DEF unfolded
  <2>12. \A i \in 1 .. 11 : i \in {1, 2, 3, 4, 5, 6, 7, 8, 9, 10, 11}
    OBVIOUS
  <2>13. \A i \in 1 .. 11 : unfolded[i] = written[i]
    BY <1>2, <2>1, <2>2, <2>3, <2>4, <2>5, <2>6, <2>7, <2>8, <2>9, <2>10, <2>11, <2>12
  <2>14. unfolded = [i \in 1 .. 11 |-> unfolded[i]]
    BY DEF unfolded
  <2> QED  BY <1>2, <2>13, <2>14
<1>4. Eq(written)
  BY <1>3
<1>5. Eq(CHOOSE f : Eq(f))
  <2> HIDE DEF Eq
  <2> QED  BY <1>4, Zenon
<1>6. Keys(key, sample) = CHOOSE f : Eq(f)
  BY DEF Keys
<1> QED  BY <1>5, <1>6

LEMMA RoundsUnfold ==
  ASSUME NEW key, NEW msg
  PROVE  Rounds(key, msg) = [i \in 0 .. 9 |-> IF i = 0 THEN Xor(msg, RoundKeys(key)[10])
           ELSE MixColumns(Unrolled(Rounds(key, msg)[i - 1], RoundKeys(key)[10 - i]))]
<1> DEFINE Eq(f) == f = [i \in 0 .. 9 |-> IF i = 0 THEN Xor(msg, RoundKeys(key)[10])
                                ELSE MixColumns(Unrolled(f[i - 1], RoundKeys(key)[10 - i]))]
<1>e0. PICK e0 : e0 = Xor(msg, RoundKeys(key)[10])
  OBVIOUS
<1>e1. PICK e1 : e1 = MixColumns(Unrolled(e0, RoundKeys(key)[10 - 1]))
  OBVIOUS
<1>e2. PICK e2 : e2 = MixColumns(Unrolled(e1, RoundKeys(key)[10 - 2]))
  OBVIOUS
<1>e3. PICK e3 : e3 = MixColumns(Unrolled(e2, RoundKeys(key)[10 - 3]))
  OBVIOUS
<1>e4. PICK e4 : e4 = MixColumns(Unrolled(e3, RoundKeys(key)[10 - 4]))
  OBVIOUS
<1>e5. PICK e5 : e5 = MixColumns(Unrolled(e4, RoundKeys(key)[10 - 5]))
  OBVIOUS
<1>e6. PICK e6 : e6 = MixColumns(Unrolled(e5, RoundKeys(key)[10 - 6]))
  OBVIOUS
<1>e7. PICK e7 : e7 = MixColumns(Unrolled(e6, RoundKeys(key)[10 - 7]))
  OBVIOUS
<1>e8. PICK e8 : e8 = MixColumns(Unrolled(e7, RoundKeys(key)[10 - 8]))
  OBVIOUS
<1>e9. PICK e9 : e9 = MixColumns(Unrolled(e8, RoundKeys(key)[10 - 9]))
  OBVIOUS
<1> DEFINE written == [i \in 0 .. 9 |->
                         <<e0, e1, e2, e3, e4, e5, e6, e7, e8, e9>>[i + 1]]
<1>2. /\ written[0] = e0 /\ written[1] = e1 /\ written[2] = e2 /\ written[3] = e3
      /\ written[4] = e4 /\ written[5] = e5 /\ written[6] = e6 /\ written[7] = e7
      /\ written[8] = e8 /\ written[9] = e9
      /\ written = [i \in 0 .. 9 |-> written[i]]
  OBVIOUS
<1> HIDE DEF written
<1> DEFINE unfolded == [i \in 0 .. 9 |-> IF i = 0 THEN Xor(msg, RoundKeys(key)[10])
                          ELSE MixColumns(Unrolled(written[i - 1], RoundKeys(key)[10 - i]))]
<1>3. unfolded = written
  <2>1. unfolded[0] = e0
    BY <1>e0, <1>2
  <2>2. unfolded[1] = e1
    BY <1>e1, <1>2
  <2>3. unfolded[2] = e2
    BY <1>e2, <1>2
  <2>4. unfolded[3] = e3
    BY <1>e3, <1>2
  <2>5. unfolded[4] = e4
    BY <1>e4, <1>2
  <2>6. unfolded[5] = e5
    BY <1>e5, <1>2
  <2>7. unfolded[6] = e6
    BY <1>e6, <1>2
  <2>8. unfolded[7] = e7
    BY <1>e7, <1>2
  <2>9. unfolded[8] = e8
    BY <1>e8, <1>2
  <2>10. unfolded[9] = e9
    BY <1>e9, <1>2
  <2> HIDE DEF unfolded
  <2>11. \A i \in 0 .. 9 : i \in {0, 1, 2, 3, 4, 5, 6, 7, 8, 9}
    OBVIOUS
  <2>12. \A i \in 0 .. 9 : unfolded[i] = written[i]
    BY <1>2, <2>1, <2>2, <2>3, <2>4, <2>5, <2>6, <2>7, <2>8, <2>9, <2>10, <2>11
  <2>13. unfolded = [i \in 0 .. 9 |-> unfolded[i]]
    BY DEF unfolded
  <2> QED  BY <1>2, <2>12, <2>13
<1>4. Eq(written)
  BY <1>3
<1>5. Eq(CHOOSE f : Eq(f))
  <2> HIDE DEF Eq
  <2> QED  BY <1>4, Zenon
<1>6. Rounds(key, msg) = CHOOSE f : Eq(f)
  BY DEF Rounds
<1> QED  BY <1>5, <1>6

LEMMA RoundsStep ==
  ASSUME NEW key \in Block, NEW msg \in Block
  PROVE  /\ Rounds(key, msg)[0] = Xor(msg, RoundKeys(key)[10])
         /\ \A r \in 1 .. 9 : Rounds(key, msg)[r] =
              MixColumns(Unrolled(Rounds(key, msg)[r - 1], RoundKeys(key)[10 - r]))
         /\ \A r \in 0 .. 9 : Rounds(key, msg)[r] \in Block
<1> DEFINE done == Rounds(key, msg)
<1> DEFINE rk == RoundKeys(key)
<1>1. done = [r \in 0 .. 9 |-> IF r = 0 THEN Xor(msg, rk[10])
                ELSE MixColumns(Unrolled(done[r - 1], rk[10 - r]))]
  BY RoundsUnfold
<1>2. \A i \in 0 .. 10 : rk[i] \in Block
  BY RoundKeysStep
<1> HIDE DEF done, rk
<1>3. /\ done[0] = Xor(msg, rk[10])
      /\ \A r \in 1 .. 9 : done[r] = MixColumns(Unrolled(done[r - 1], rk[10 - r]))
  BY <1>1
<1>4. done[0] \in Block
  BY <1>2, <1>3, XorType
<1>5. \A r \in 1 .. 9 : done[r - 1] \in Block => done[r] \in Block
  <2> TAKE r \in 1 .. 9
  <2>1. rk[10 - r] \in Block
    BY <1>2
  <2> QED  BY <1>3, <2>1, UnrolledType, MixColumnsType
<1>6. done[1] \in Block /\ done[2] \in Block /\ done[3] \in Block
  BY <1>4, <1>5
<1>7. done[4] \in Block /\ done[5] \in Block /\ done[6] \in Block
  BY <1>5, <1>6
<1>8. done[7] \in Block /\ done[8] \in Block /\ done[9] \in Block
  BY <1>5, <1>7
<1>9. \A r \in 0 .. 9 : r \in {0, 1, 2, 3, 4, 5, 6, 7, 8, 9}
  OBVIOUS
<1>10. \A r \in 0 .. 9 : done[r] \in Block
  BY <1>4, <1>6, <1>7, <1>8, <1>9
<1> QED  BY <1>3, <1>10 DEF done, rk

LEMMA KeysStep ==
  ASSUME NEW key \in Block, NEW sample \in [1 .. 10 -> Block]
  PROVE  /\ Keys(key, sample)[1] = key
         /\ \A i \in 1 .. 10 : Keys(key, sample)[i + 1] =
              Expand(i, Keys(key, sample)[i], sample[i])
         /\ Keys(key, sample) \in [1 .. 11 -> Block]
<1> DEFINE k == Keys(key, sample)
<1>1. k = [i \in 1 .. 11 |-> IF i = 1 THEN key ELSE Expand(i - 1, k[i - 1], sample[i - 1])]
  BY KeysUnfold
<1> HIDE DEF k
<1>2. k[1] = key
  BY <1>1
<1>3. \A i \in 1 .. 10 : k[i + 1] = Expand(i, k[i], sample[i])
  <2> TAKE i \in 1 .. 10
  <2>1. i + 1 \in 1 .. 11 /\ i + 1 # 1 /\ (i + 1) - 1 = i
    OBVIOUS
  <2> QED  BY <1>1, <2>1
<1>4. \A i \in 1 .. 10 : k[i] \in Block => k[i + 1] \in Block
  BY <1>3, ExpandType
<1>5. /\ k[1] \in Block /\ k[2] \in Block /\ k[3] \in Block /\ k[4] \in Block
  BY <1>2, <1>4
<1>6. k[5] \in Block /\ k[6] \in Block /\ k[7] \in Block
  BY <1>4, <1>5
<1>7. k[8] \in Block /\ k[9] \in Block /\ k[10] \in Block /\ k[11] \in Block
  BY <1>4, <1>6
<1>8. \A i \in 1 .. 11 : i \in {1, 2, 3, 4, 5, 6, 7, 8, 9, 10, 11}
  OBVIOUS
<1>9. \A i \in 1 .. 11 : k[i] \in Block
  BY <1>5, <1>6, <1>7, <1>8
<1>10. k \in [1 .. 11 -> Block]
  BY <1>1, <1>9
<1> QED  BY <1>2, <1>3, <1>10 DEF k

\* What the ROMs sample: one more stage of the schedule settles with every edge.
LEMMA SampledIs ==
  ASSUME NEW key \in Block, rom \in [1 .. 10 -> Block]
  PROVE  /\ Sampled(key) \in [1 .. 10 -> Block]
         /\ \A i \in 1 .. 10 : Sampled(key)[i] = Keys(key, rom)[i]
<1> DEFINE k == Keys(key, rom)
<1>1. k \in [1 .. 11 -> Block]
  BY KeysStep
<1> HIDE DEF k
<1>2. Sampled(key) = [i \in 1 .. 10 |-> k[i]]
  BY <1>1 DEF Sampled, k
<1> QED  BY <1>1, <1>2 DEF k

LEMMA SettledKeys ==
  ASSUME NEW key \in Block, NEW sample \in [1 .. 10 -> Block], NEW n \in 0 .. 10,
         \A i \in 1 .. n : sample[i] = RoundKeys(key)[i - 1]
  PROVE  \A i \in 1 .. n + 1 : Keys(key, sample)[i] = RoundKeys(key)[i - 1]
<1> DEFINE k == Keys(key, sample)
<1> DEFINE rk == RoundKeys(key)
<1>1. k[1] = key /\ \A i \in 1 .. 10 : k[i + 1] = Expand(i, k[i], sample[i])
  BY KeysStep
<1>2. rk[0] = key /\ \A i \in 1 .. 10 : rk[i] = Expand(i, rk[i - 1], rk[i - 1])
  BY RoundKeysStep
<1>3. \A i \in 1 .. n : sample[i] = rk[i - 1]
  OBVIOUS
<1> HIDE DEF k, rk
<1>4. \A i \in 1 .. n : k[i] = rk[i - 1] => k[i + 1] = rk[i]
  BY <1>1, <1>2, <1>3
<1>5. k[1] = rk[0]
  BY <1>1, <1>2
<1> DEFINE Same(i) == i <= n + 1 => k[i] = rk[i - 1]
<1>6. \A i \in 1 .. 10 : Same(i) => Same(i + 1)
  <2> SUFFICES ASSUME NEW i \in 1 .. 10, Same(i), i + 1 <= n + 1
               PROVE  k[i + 1] = rk[(i + 1) - 1]
    OBVIOUS
  <2>1. i \in 1 .. n /\ (i + 1) - 1 = i
    OBVIOUS
  <2>2. k[i] = rk[i - 1]
    BY <2>1
  <2> QED  BY <1>4, <2>1, <2>2
<1>7. Same(1)
  BY <1>5
<1> HIDE DEF Same
<1>8. Same(2) /\ Same(3) /\ Same(4)
  BY <1>6, <1>7
<1>9. Same(5) /\ Same(6) /\ Same(7)
  BY <1>6, <1>8
<1>10. Same(8) /\ Same(9) /\ Same(10) /\ Same(11)
  BY <1>6, <1>9
<1>11. \A i \in 1 .. 11 : i \in {1, 2, 3, 4, 5, 6, 7, 8, 9, 10, 11}
  OBVIOUS
<1>12. \A i \in 1 .. 11 : Same(i)
  BY <1>7, <1>8, <1>9, <1>10, <1>11
<1> QED  BY <1>12 DEF Same, k, rk

----
(* The core at a rising edge.                                                   *)

LEMMA IMCStatesAre ==
  /\ IMCStates[1] = "IMC_LOOP0" /\ IMCStates[2] = "IMC_LOOP1"
  /\ IMCStates[3] = "IMC_LOOP2" /\ IMCStates[4] = "IMC_LOOP3"
BY DEF IMCStates

LEMMA StatesAre ==
  States = {"WAIT", "DONE", "KeyExpansion", "ARK1", "ARK2", "ARK_LOOP", "ISR_LOOP",
            "ISB_LOOP", "ISR", "ISB", "PAUSE", "PAUSE_LOOP", "IMC_LOOP0", "IMC_LOOP1",
            "IMC_LOOP2", "IMC_LOOP3"}
<1>1. {IMCStates[i] : i \in 1 .. 4} = {IMCStates[1], IMCStates[2], IMCStates[3], IMCStates[4]}
  <2> \A i \in 1 .. 4 : i \in {1, 2, 3, 4}
    OBVIOUS
  <2> QED  OBVIOUS
<1> QED  BY <1>1, IMCStatesAre DEF States

LEMMA RomSettles ==
  ASSUME NEW key \in Block, rom \in [1 .. 10 -> Block], rom' = Sampled(key),
         NEW n \in 0 .. 10, Settled(key, n)
  PROVE  \A m \in 1 .. 10 : m <= n + 1 => Settled(key, m)'
<1>1. \A i \in 1 .. n + 1 : Keys(key, rom)[i] = RoundKeys(key)[i - 1]
  BY SettledKeys DEF Settled
<1>2. \A i \in 1 .. 10 : rom'[i] = Keys(key, rom)[i]
  BY SampledIs
<1>3. \A i \in 1 .. 10 : i <= n + 1 => rom'[i] = RoundKeys(key)[i - 1]
  BY <1>1, <1>2
<1> QED  BY <1>3 DEF Settled

\* Once the schedule has settled the round counter picks the keys from the last on.
LEMMA RoundKeyIs ==
  ASSUME NEW key \in Block, rom \in [1 .. 10 -> Block], count9 \in 0 .. 10, Settled(key, 10)
  PROVE  RoundKey(Keys(key, Sampled(key))) = RoundKeys(key)[10 - count9]
<1>1. \A i \in 1 .. 11 : Keys(key, rom)[i] = RoundKeys(key)[i - 1]
  BY SettledKeys DEF Settled
<1>2. PICK sample \in [1 .. 10 -> Block] : sample = Sampled(key)
  BY SampledIs
<1>3. \A i \in 1 .. 10 : sample[i] = RoundKeys(key)[i - 1]
  BY <1>1, <1>2, SampledIs
<1>4. \A i \in 1 .. 11 : Keys(key, sample)[i] = RoundKeys(key)[i - 1]
  BY <1>3, SettledKeys
<1>5. 11 - count9 \in 1 .. 11 /\ (11 - count9) - 1 = 10 - count9
  OBVIOUS
<1> QED  BY <1>2, <1>4, <1>5 DEF RoundKey

LEMMA RoundKeyType ==
  ASSUME NEW keys \in [1 .. 11 -> Block], count9 \in 0 .. 10
  PROVE  RoundKey(keys) \in Block
<1>1. 11 - count9 \in 1 .. 11
  OBVIOUS
<1> QED  BY <1>1 DEF RoundKey

LEMMA StateNewType ==
  ASSUME NEW key \in Block, CoreTypeOK
  PROVE  State_New(key) \in Block
<1>1. count9 \in 0 .. 10 /\ Hold \in Block /\ IMC_reg \in Block /\ rom \in [1 .. 10 -> Block]
  BY DEF CoreTypeOK
<1>2. Keys(key, Sampled(key)) \in [1 .. 11 -> Block]
  BY <1>1, SampledIs, KeysStep
<1>3. RoundKey(Keys(key, Sampled(key))) \in Block
  BY <1>1, <1>2, RoundKeyType
<1>4. Xor(Hold, RoundKey(Keys(key, Sampled(key)))) \in Block
  BY <1>1, <1>3, XorType
<1>5. InvShiftRows(Hold) \in Block /\ InvSubBytes(Hold) \in Block
  BY <1>1, CoreAssumption
<1> QED  BY <1>1, <1>4, <1>5 DEF State_New

LEMMA CountedType ==
  ASSUME NEW last \in Nat, NEW count \in 0 .. last, NEW enabled, NEW reset
  PROVE  Counted(enabled, reset, count, last) \in 0 .. last
BY DEF Counted

LEMMA CoreTypeStep ==
  ASSUME NEW start, NEW reset, NEW key \in Block, NEW msg \in Block, CoreTypeOK,
         CoreEdge(start, key, msg, reset)
  PROVE  CoreTypeOK'
<1>1. State \in States /\ count9 \in 0 .. 10 /\ countkey \in 0 .. 24 /\ Hold \in Block
      /\ IMC_reg \in Block /\ rom \in [1 .. 10 -> Block]
  BY DEF CoreTypeOK
<1>2. State' \in States
  BY <1>1, StatesAre, IMCStatesAre DEF CoreEdge, Next_state
<1>3. count9' \in 0 .. 10 /\ countkey' \in 0 .. 24
  BY <1>1, CountedType DEF CoreEdge
<1>4. Hold' \in Block
  BY <1>1, StateNewType, ZeroBlockType DEF CoreEdge
<1>5. IMC_reg' \in Block
  <2>1. \A w \in 1 .. 4 : Hold[w] \in Col /\ IMC_reg[w] \in Col
    BY <1>1 DEF Block
  <2>2. \A w \in 1 .. 4 : InvMixColumns(Hold[w]) \in Col
    BY <2>1, CoreAssumption
  <2>3. CASE reset
    BY <2>3, ZeroBlockType DEF CoreEdge
  <2>4. CASE ~reset
    <3>1. IMC_reg' = [w \in 1 .. 4 |-> IF State = IMCStates[5 - w]
                                       THEN InvMixColumns(Hold[w]) ELSE IMC_reg[w]]
      BY <2>4 DEF CoreEdge
    <3> QED  BY <2>1, <2>2, <3>1 DEF Block
  <2> QED  BY <2>3, <2>4
<1>6. rom' \in [1 .. 10 -> Block]
  BY <1>1, SampledIs DEF CoreEdge
<1> QED  BY <1>2, <1>3, <1>4, <1>5, <1>6 DEF CoreTypeOK

\* An edge without a reset takes the core from where Working says it is to where
\* Working says it is next.
LEMMA WorkingStep ==
  ASSUME NEW start, NEW key \in Block, NEW msg \in Block, CoreTypeOK,
         elapsed \in 0 .. Latency + 1, Working(key, msg),
         CoreEdge(start, key, msg, FALSE), Clocked,
         State = "WAIT" /\ start => count9 = 0 /\ countkey = 0
  PROVE  Working(key, msg)'
<1>1. /\ State \in States /\ count9 \in 0 .. 10 /\ countkey \in 0 .. 24 /\ Hold \in Block
      /\ IMC_reg \in Block /\ rom \in [1 .. 10 -> Block] /\ elapsed \in 0 .. 102
  BY DEF CoreTypeOK, Latency
<1>2. Next_state(start) /\ rom' = Sampled(key)
  BY DEF CoreEdge
<1>3. /\ count9' = IF countEnable9 THEN IF count9 = 10 THEN 0 ELSE count9 + 1 ELSE count9
      /\ countkey' = IF countEnablekey THEN IF countkey = 24 THEN 0 ELSE countkey + 1
                     ELSE countkey
  BY DEF CoreEdge, Counted
<1>4. Hold' = IF Load_Reg THEN State_New(key) ELSE IF checkFirst THEN msg ELSE Hold
  BY DEF CoreEdge
<1>5. \A w \in 1 .. 4 : IMC_reg'[w] = IF State = IMCStates[5 - w]
                                      THEN InvMixColumns(Hold[w]) ELSE IMC_reg[w]
  BY DEF CoreEdge
<1>6. elapsed' = IF State = "WAIT" THEN 0 ELSE IF elapsed <= 101 THEN elapsed + 1 ELSE elapsed
  BY DEF Clocked, Latency
<1>7. /\ Rounds(key, msg)[0] = Xor(msg, RoundKeys(key)[10])
      /\ \A r \in 1 .. 9 : Rounds(key, msg)[r] =
           MixColumns(Unrolled(Rounds(key, msg)[r - 1], RoundKeys(key)[10 - r]))
      /\ \A r \in 0 .. 9 : Rounds(key, msg)[r] \in Block
  BY RoundsStep
<1>8. State \notin {"WAIT", "KeyExpansion"} =>
        /\ countkey = 0 /\ Settled(key, 10) /\ Settled(key, 10)'
        /\ RoundKey(Keys(key, Sampled(key))) = RoundKeys(key)[10 - count9]
  <2> SUFFICES ASSUME State \notin {"WAIT", "KeyExpansion"}
               PROVE  /\ countkey = 0 /\ Settled(key, 10) /\ Settled(key, 10)'
                      /\ RoundKey(Keys(key, Sampled(key))) = RoundKeys(key)[10 - count9]
    OBVIOUS
  <2>1. countkey = 0 /\ Settled(key, 10)
    BY DEF Working
  <2>2. \A m \in 1 .. 10 : m <= 10 + 1 => Settled(key, m)'
    BY <1>1, <1>2, <2>1, RomSettles
  <2>3. Settled(key, 10)'
    BY <2>2
  <2> QED  BY <1>1, <2>1, <2>3, RoundKeyIs
<1>9. CASE State = "WAIT"
  <2>1. State' = IF start THEN "KeyExpansion" ELSE "WAIT"
    BY <1>9, <1>2, IMCStatesAre DEF Next_state
  <2>2. start => count9' = 0 /\ countkey' = 0
    BY <1>9, <1>3 DEF countEnable9, countEnablekey
  <2>3. elapsed' = 0
    BY <1>9, <1>6
  <2>4. \A m \in 1 .. 10 : m <= 0 + 1 => Settled(key, m)'
    BY <1>1, <1>2, RomSettles DEF Settled
  <2>5. start => InExpansion(key, msg)'
    BY <2>2, <2>3, <2>4 DEF InExpansion
  <2> QED  BY <1>9, <2>1, <2>2, <2>3, <2>5 DEF Working
<1>10. CASE State = "KeyExpansion"
  <2>1. InExpansion(key, msg)
    BY <1>10 DEF Working
  <2>2. State' = IF countkey = 24 THEN "ARK1" ELSE "KeyExpansion"
    BY <1>10, <1>2, IMCStatesAre DEF Next_state, LastExpansion
  <2>3. count9' = 0 /\ countkey' = IF countkey = 24 THEN 0 ELSE countkey + 1
    BY <1>10, <1>3, <2>1 DEF countEnable9, countEnablekey, InExpansion
  <2>4. Hold' = msg
    BY <1>10, <1>4 DEF Load_Reg, checkFirst
  <2>5. elapsed = countkey /\ elapsed' = elapsed + 1
    BY <1>10, <1>1, <1>6, <2>1 DEF InExpansion
  <2>6. \A m \in 1 .. 10 : m <= countkey + 2 => Settled(key, m)'
    <3>1. PICK n \in 1 .. 10 : n = IF countkey < 10 THEN countkey + 1 ELSE 10
      BY <1>1
    <3>2. Settled(key, n)
      BY <1>1, <2>1, <3>1 DEF InExpansion
    <3>3. \A m \in 1 .. 10 : m <= n + 1 => Settled(key, m)'
      BY <1>1, <1>2, <3>2, RomSettles
    <3> QED  BY <1>1, <3>1, <3>3
  <2>7. CASE countkey = 24
    <3>1. State' = "ARK1" /\ countkey' = 0 /\ Settled(key, 10)'
      BY <2>2, <2>3, <2>6, <2>7
    <3>2. InFirstKey(key, msg)'
      BY <2>3, <2>4, <2>5, <2>7 DEF InFirstKey
    <3> QED  BY <1>10, <2>5, <3>1, <3>2 DEF Working
  <2>8. CASE countkey # 24
    <3>1. State' = "KeyExpansion"
      BY <2>2, <2>8
    <3>2. InExpansion(key, msg)'
      <4>1. count9' = 0 /\ countkey' = countkey + 1 /\ elapsed' = countkey'
        BY <2>3, <2>5, <2>8
      <4>2. \A m \in 1 .. 10 : m <= countkey' + 1 => Settled(key, m)'
        BY <1>1, <2>6, <4>1
      <4> QED  BY <4>1, <4>2 DEF InExpansion
    <3> QED  BY <1>10, <2>5, <3>1, <3>2 DEF Working
  <2> QED  BY <2>7, <2>8
<1>11. CASE State = "ARK1"
  <2>1. InFirstKey(key, msg)
    BY <1>11 DEF Working
  <2>2. State' = "ISR_LOOP"
    BY <1>11, <1>2, IMCStatesAre DEF Next_state
  <2>3. count9' = 1 /\ countkey' = 0
    BY <1>11, <1>3, <1>8, <2>1 DEF countEnable9, countEnablekey, InFirstKey
  <2>4. elapsed' = elapsed + 1
    BY <1>11, <1>1, <1>6, <2>1 DEF InFirstKey
  <2>5. Hold' = Rounds(key, msg)[0]
    <3>1. Hold' = Xor(Hold, RoundKey(Keys(key, Sampled(key))))
      BY <1>11, <1>4 DEF Load_Reg, State_New
    <3> QED  BY <1>11, <1>7, <1>8, <2>1, <3>1 DEF InFirstKey
  <2>6. InISRLoop(key, msg)'
    BY <2>1, <2>3, <2>4, <2>5 DEF InFirstKey, InISRLoop, RoundEdge, Done
  <2> QED  BY <1>11, <1>8, <2>2, <2>3, <2>4, <2>6 DEF Working
<1>12. CASE State = "ISR_LOOP"
  <2>1. InISRLoop(key, msg)
    BY <1>12 DEF Working
  <2>2. State' = "ISB_LOOP"
    BY <1>12, <1>2, IMCStatesAre DEF Next_state
  <2>3. count9' = count9 /\ countkey' = 0
    BY <1>12, <1>3, <1>8 DEF countEnable9, countEnablekey
  <2>4. elapsed' = elapsed + 1
    BY <1>12, <1>1, <1>6, <2>1 DEF InISRLoop, RoundEdge
  <2>5. Hold' = InvShiftRows(Hold)
    BY <1>12, <1>4 DEF Load_Reg, State_New
  <2>6. InISBLoop(key, msg)'
    BY <1>1, <2>1, <2>3, <2>4, <2>5 DEF InISRLoop, InISBLoop, RoundEdge, Done
  <2> QED  BY <1>12, <1>8, <2>2, <2>3, <2>4, <2>6 DEF Working
<1>13. CASE State = "ISB_LOOP"
  <2>1. InISBLoop(key, msg)
    BY <1>13 DEF Working
  <2>2. State' = "ARK_LOOP"
    BY <1>13, <1>2, IMCStatesAre DEF Next_state
  <2>3. count9' = count9 /\ countkey' = 0
    BY <1>13, <1>3, <1>8 DEF countEnable9, countEnablekey
  <2>4. elapsed' = elapsed + 1
    BY <1>13, <1>1, <1>6, <2>1 DEF InISBLoop, RoundEdge
  <2>5. Hold' = InvSubBytes(Hold)
    BY <1>13, <1>4 DEF Load_Reg, State_New
  <2>6. InARKLoop(key, msg)'
    BY <1>1, <2>1, <2>3, <2>4, <2>5 DEF InISBLoop, InARKLoop, RoundEdge, Done
  <2> QED  BY <1>13, <1>8, <2>2, <2>3, <2>4, <2>6 DEF Working
<1>14. CASE State = "ARK_LOOP"
  <2>1. InARKLoop(key, msg)
    BY <1>14 DEF Working
  <2>2. State' = "IMC_LOOP0"
    BY <1>14, <1>2, IMCStatesAre DEF Next_state
  <2>3. count9' = count9 /\ countkey' = 0
    BY <1>14, <1>3, <1>8 DEF countEnable9, countEnablekey
  <2>4. elapsed' = elapsed + 1
    BY <1>14, <1>1, <1>6, <2>1 DEF InARKLoop, RoundEdge
  <2>5. Hold' = Xor(Hold, RoundKeys(key)[10 - count9])
    BY <1>14, <1>4, <1>8 DEF Load_Reg, State_New
  <2>6. InIMCLoop(key, msg, 0)'
    BY <1>1, <2>1, <2>3, <2>4, <2>5 DEF InARKLoop, InIMCLoop, RoundEdge, Done, Keyed, Unrolled
  <2> QED  BY <1>14, <1>8, <2>2, <2>3, <2>4, <2>6 DEF Working
<1>15. CASE State = "IMC_LOOP0"
  <2>1. InIMCLoop(key, msg, 0)
    BY <1>15 DEF Working
  <2>2. State' = "IMC_LOOP1"
    BY <1>15, <1>2, IMCStatesAre DEF Next_state
  <2>3. count9' = count9 /\ countkey' = 0
    BY <1>15, <1>3, <1>8 DEF countEnable9, countEnablekey
  <2>4. elapsed' = elapsed + 1
    BY <1>15, <1>1, <1>6, <2>1 DEF InIMCLoop, RoundEdge
  <2>5. Hold' = Hold /\ \A w \in 1 .. 4 : IMC_reg'[w] = IF w = 4 THEN InvMixColumns(Hold[w])
                                                     ELSE IMC_reg[w]
    <3>1. Hold' = Hold
      BY <1>15, <1>4 DEF Load_Reg, checkFirst
    <3>2. ASSUME NEW w \in 1 .. 4
          PROVE  (State = IMCStates[5 - w]) <=> w = 4
      <4>1. w \in {1, 2, 3, 4}
        OBVIOUS
      <4> QED  BY <1>15, <4>1, IMCStatesAre
    <3> QED  BY <1>5, <3>1, <3>2
  <2>6. InIMCLoop(key, msg, 1)'
    BY <1>1, <2>1, <2>3, <2>4, <2>5 DEF InIMCLoop, InIMCLoop, RoundEdge, Done, Keyed
  <2> QED  BY <1>15, <1>8, <2>2, <2>3, <2>4, <2>6 DEF Working
<1>16. CASE State = "IMC_LOOP1"
  <2>1. InIMCLoop(key, msg, 1)
    BY <1>16 DEF Working
  <2>2. State' = "IMC_LOOP2"
    BY <1>16, <1>2, IMCStatesAre DEF Next_state
  <2>3. count9' = count9 /\ countkey' = 0
    BY <1>16, <1>3, <1>8 DEF countEnable9, countEnablekey
  <2>4. elapsed' = elapsed + 1
    BY <1>16, <1>1, <1>6, <2>1 DEF InIMCLoop, RoundEdge
  <2>5. Hold' = Hold /\ \A w \in 1 .. 4 : IMC_reg'[w] = IF w = 3 THEN InvMixColumns(Hold[w])
                                                     ELSE IMC_reg[w]
    <3>1. Hold' = Hold
      BY <1>16, <1>4 DEF Load_Reg, checkFirst
    <3>2. ASSUME NEW w \in 1 .. 4
          PROVE  (State = IMCStates[5 - w]) <=> w = 3
      <4>1. w \in {1, 2, 3, 4}
        OBVIOUS
      <4> QED  BY <1>16, <4>1, IMCStatesAre
    <3> QED  BY <1>5, <3>1, <3>2
  <2>6. InIMCLoop(key, msg, 2)'
    BY <1>1, <2>1, <2>3, <2>4, <2>5 DEF InIMCLoop, InIMCLoop, RoundEdge, Done, Keyed
  <2> QED  BY <1>16, <1>8, <2>2, <2>3, <2>4, <2>6 DEF Working
<1>17. CASE State = "IMC_LOOP2"
  <2>1. InIMCLoop(key, msg, 2)
    BY <1>17 DEF Working
  <2>2. State' = "IMC_LOOP3"
    BY <1>17, <1>2, IMCStatesAre DEF Next_state
  <2>3. count9' = count9 /\ countkey' = 0
    BY <1>17, <1>3, <1>8 DEF countEnable9, countEnablekey
  <2>4. elapsed' = elapsed + 1
    BY <1>17, <1>1, <1>6, <2>1 DEF InIMCLoop, RoundEdge
  <2>5. Hold' = Hold /\ \A w \in 1 .. 4 : IMC_reg'[w] = IF w = 2 THEN InvMixColumns(Hold[w])
                                                     ELSE IMC_reg[w]
    <3>1. Hold' = Hold
      BY <1>17, <1>4 DEF Load_Reg, checkFirst
    <3>2. ASSUME NEW w \in 1 .. 4
          PROVE  (State = IMCStates[5 - w]) <=> w = 2
      <4>1. w \in {1, 2, 3, 4}
        OBVIOUS
      <4> QED  BY <1>17, <4>1, IMCStatesAre
    <3> QED  BY <1>5, <3>1, <3>2
  <2>6. InIMCLoop(key, msg, 3)'
    BY <1>1, <2>1, <2>3, <2>4, <2>5 DEF InIMCLoop, InIMCLoop, RoundEdge, Done, Keyed
  <2> QED  BY <1>17, <1>8, <2>2, <2>3, <2>4, <2>6 DEF Working
<1>18. CASE State = "IMC_LOOP3"
  <2>1. InIMCLoop(key, msg, 3)
    BY <1>18 DEF Working
  <2>2. State' = IF count9 = 9 THEN "PAUSE" ELSE "PAUSE_LOOP"
    BY <1>18, <1>2, IMCStatesAre DEF Next_state, LastRound
  <2>3. count9 \in 1 .. 9 /\ elapsed = 24 + 8 * count9
    BY <1>1, <2>1 DEF InIMCLoop, RoundEdge
  <2>4. count9' = count9 + 1 /\ countkey' = 0
    BY <1>18, <1>3, <1>8, <2>3 DEF countEnable9, countEnablekey
  <2>5. elapsed' = elapsed + 1
    BY <1>18, <1>6, <2>3
  <2>6. IMC_reg' = MixColumns(Hold)
    <3>1. \A w \in 2 .. 4 : IMC_reg[w] = InvMixColumns(Hold[w])
      BY <2>1 DEF InIMCLoop
    <3>2. IMC_reg'[1] = InvMixColumns(Hold[1])
      <4>1. State = IMCStates[5 - 1]
        BY <1>18, IMCStatesAre
      <4> QED  BY <1>5, <4>1
    <3>3. \A w \in 2 .. 4 : IMC_reg'[w] = IMC_reg[w]
      <4> TAKE w \in 2 .. 4
      <4>1. w \in {2, 3, 4} /\ w \in 1 .. 4
        OBVIOUS
      <4>2. State # IMCStates[5 - w]
        BY <1>18, <4>1, IMCStatesAre
      <4> QED  BY <1>5, <4>1, <4>2
    <3>4. IMC_reg' \in Block
      BY CoreTypeStep DEF CoreTypeOK
    <3>5. IMC_reg' = <<IMC_reg'[1], IMC_reg'[2], IMC_reg'[3], IMC_reg'[4]>>
      BY <3>4 DEF Block
    <3> QED  BY <3>1, <3>2, <3>3, <3>5 DEF MixColumns
  <2>7. IMC_reg' = Rounds(key, msg)[count9]
    <3>1. Hold = Keyed(key, msg)
      BY <2>1 DEF InIMCLoop
    <3> QED  BY <1>7, <2>3, <2>6, <3>1 DEF Keyed, Done
  <2>8. CASE count9 = 9
    <3>1. InPause(key, msg)'
      BY <2>3, <2>4, <2>5, <2>7, <2>8 DEF InPause, InLast
    <3>2. State' = "PAUSE"
      BY <2>2, <2>8
    <3> QED  BY <1>18, <1>8, <2>4, <2>5, <3>1, <3>2 DEF Working
  <2>9. CASE count9 # 9
    <3>1. State' = "PAUSE_LOOP"
      BY <2>2, <2>9
    <3>2. count9' \in 2 .. 9 /\ elapsed' = 17 + 8 * count9' /\ count9' - 1 = count9
      BY <2>3, <2>4, <2>5, <2>9
    <3>3. InPauseLoop(key, msg)'
      BY <2>7, <3>2 DEF InPauseLoop, Done
    <3> QED  BY <1>18, <1>8, <2>4, <2>5, <3>1, <3>3 DEF Working
  <2> QED  BY <2>8, <2>9
<1>19. CASE State = "PAUSE_LOOP"
  <2>1. InPauseLoop(key, msg)
    BY <1>19 DEF Working
  <2>2. State' = "ISR_LOOP"
    BY <1>19, <1>2, IMCStatesAre DEF Next_state
  <2>3. count9' = count9 /\ countkey' = 0
    BY <1>19, <1>3, <1>8 DEF countEnable9, countEnablekey
  <2>4. elapsed' = elapsed + 1
    BY <1>19, <1>1, <1>6, <2>1 DEF InPauseLoop, RoundEdge
  <2>5. Hold' = IMC_reg
    BY <1>19, <1>4 DEF Load_Reg, State_New
  <2>6. InISRLoop(key, msg)'
    BY <1>1, <2>1, <2>3, <2>4, <2>5 DEF InPauseLoop, InISRLoop, RoundEdge, Done
  <2> QED  BY <1>19, <1>8, <2>2, <2>3, <2>4, <2>6 DEF Working
<1>20. CASE State = "PAUSE"
  <2>1. InPause(key, msg)
    BY <1>20 DEF Working
  <2>2. State' = "ISR"
    BY <1>20, <1>2, IMCStatesAre DEF Next_state
  <2>3. count9' = count9 /\ countkey' = 0
    BY <1>20, <1>3, <1>8 DEF countEnable9, countEnablekey
  <2>4. elapsed' = elapsed + 1
    BY <1>20, <1>1, <1>6, <2>1 DEF InPause, InLast
  <2>5. Hold' = IMC_reg
    BY <1>20, <1>4 DEF Load_Reg, State_New
  <2>6. InISR(key, msg)'
    BY <1>1, <2>1, <2>3, <2>4, <2>5 DEF InPause, InISR, InLast
  <2> QED  BY <1>20, <1>8, <2>2, <2>3, <2>4, <2>6 DEF Working
<1>21. CASE State = "ISR"
  <2>1. InISR(key, msg)
    BY <1>21 DEF Working
  <2>2. State' = "ISB"
    BY <1>21, <1>2, IMCStatesAre DEF Next_state
  <2>3. count9' = count9 /\ countkey' = 0
    BY <1>21, <1>3, <1>8 DEF countEnable9, countEnablekey
  <2>4. elapsed' = elapsed + 1
    BY <1>21, <1>1, <1>6, <2>1 DEF InISR, InLast
  <2>5. Hold' = InvShiftRows(Hold)
    BY <1>21, <1>4 DEF Load_Reg, State_New
  <2>6. InISB(key, msg)'
    BY <1>1, <2>1, <2>3, <2>4, <2>5 DEF InISR, InISB, InLast
  <2> QED  BY <1>21, <1>8, <2>2, <2>3, <2>4, <2>6 DEF Working
<1>22. CASE State = "ISB"
  <2>1. InISB(key, msg)
    BY <1>22 DEF Working
  <2>2. State' = "ARK2"
    BY <1>22, <1>2, IMCStatesAre DEF Next_state
  <2>3. count9' = count9 /\ countkey' = 0
    BY <1>22, <1>3, <1>8 DEF countEnable9, countEnablekey
  <2>4. elapsed' = elapsed + 1
    BY <1>22, <1>1, <1>6, <2>1 DEF InISB, InLast
  <2>5. Hold' = InvSubBytes(Hold)
    BY <1>22, <1>4 DEF Load_Reg, State_New
  <2>6. InARK2(key, msg)'
    BY <1>1, <2>1, <2>3, <2>4, <2>5 DEF InISB, InARK2, InLast
  <2> QED  BY <1>22, <1>8, <2>2, <2>3, <2>4, <2>6 DEF Working
<1>23. CASE State = "ARK2"
  <2>1. InARK2(key, msg)
    BY <1>23 DEF Working
  <2>2. State' = "DONE"
    BY <1>23, <1>2, IMCStatesAre DEF Next_state
  <2>3. count9' = count9 /\ countkey' = 0
    BY <1>23, <1>3, <1>8 DEF countEnable9, countEnablekey
  <2>4. elapsed' = elapsed + 1
    BY <1>23, <1>1, <1>6, <2>1 DEF InARK2, InLast
  <2>5. Hold' = Xor(Hold, RoundKeys(key)[10 - count9])
    BY <1>23, <1>4, <1>8 DEF Load_Reg, State_New
  <2>6. InDone(key, msg)'
    BY <1>1, <2>1, <2>3, <2>4, <2>5 DEF InARK2, InDone, InLast, Decrypt, Unrolled
  <2> QED  BY <1>23, <1>8, <2>2, <2>3, <2>4, <2>6 DEF Working
<1>24. CASE State = "DONE"
  <2>1. State' = IF start THEN "DONE" ELSE "WAIT"
    BY <1>24, <1>2, IMCStatesAre DEF Next_state
  <2>2. countkey' = 0
    BY <1>24, <1>3, <1>8 DEF countEnablekey
  <2>3. Hold' = Hold
    BY <1>24, <1>4 DEF Load_Reg, checkFirst
  <2>4. InDone(key, msg)'
    BY <1>24, <2>3 DEF Working, InDone
  <2> QED  BY <1>24, <1>8, <2>1, <2>2, <2>4 DEF Working
<1> QED  BY <1>1, StatesAre, <1>9, <1>10, <1>11, <1>12, <1>13, <1>14, <1>15, <1>16,
         <1>17, <1>18, <1>19, <1>20, <1>21, <1>22, <1>23, <1>24

----
(* The driver.                                                                  *)

LEMMA DecryptType ==
  ASSUME NEW key \in Block, NEW msg \in Block
  PROVE  Decrypt(key, msg) \in Block
<1>1. Rounds(key, msg)[9] \in Block /\ RoundKeys(key)[0] \in Block
  BY RoundsStep, RoundKeysStep
<1> QED  BY <1>1, UnrolledType DEF Decrypt

LEMMA RequestType ==
  ASSUME NEW r \in Requests
  PROVE  r.key \in Block /\ r.msg_enc \in Block /\ r.msg \in Block
BY RequestsAssumption, DecryptType

LEMMA Facts ==
  ASSUME IInv
  PROVE  /\ CoreTypeOK /\ State \in States /\ Hold \in Block
         /\ REG \in [0 .. 15 -> Col] /\ KEY \in Block /\ MSG_ENC \in Block
         /\ request.key \in Block /\ request.msg_enc \in Block /\ request.msg \in Block
         /\ previous.msg \in Block /\ msg_dec \in Block
         /\ run_mode \in RunModes /\ pc \in 0 .. 17
         /\ calls \in Nat /\ calls <= MaxCalls /\ MaxCalls \in Nat
         /\ gap \in Nat /\ gap <= MaxGap /\ MaxGap \in Nat
         /\ elapsed \in 0 .. 102 /\ Latency = 101 /\ held \in 0 .. 10
         /\ late \in BOOLEAN /\ lateBefore \in BOOLEAN
         /\ resetting \in {0, 1, 2} /\ resets \in Nat /\ resets <= MaxResets
         /\ MaxResets \in Nat
<1>1. TypeOK /\ previous.msg \in Block /\ request.msg \in Block
  BY DEF IInv
<1>2. REG \in [0 .. 15 -> Col]
  BY <1>1 DEF TypeOK
<1>3. KEY \in Block /\ MSG_ENC \in Block
  BY <1>2, WordsBlock DEF KEY, MSG_ENC
<1>4. Latency = 101 /\ MaxCalls \in Nat /\ MaxResets \in Nat /\ MaxGap \in Nat
  BY BoundsAssumption DEF Latency
<1>5. resetting \in {0, 1, 2}
  BY <1>1 DEF TypeOK
<1> QED  BY <1>1, <1>2, <1>3, <1>4, <1>5 DEF TypeOK, CoreTypeOK, Enter, Return

LEMMA ProgramIs ==
  /\ \A i \in 1 .. 4 : Program[i].addr = i - 1 /\ Program[i].data = request.key[i]
  /\ \A i \in 5 .. 8 : Program[i].addr = i - 1 /\ Program[i].data = request.msg_enc[i - 4]
  /\ Program[9].addr = 12 /\ Program[9].data = DEADBEEF
  /\ Program[10].addr = 14 /\ Program[10].data = One
  /\ Program[11].addr = 14 /\ Program[11].data = Zero
  /\ DOMAIN Program = 1 .. 11
BY DEF Program

\* The core is started by the write of One only.
LEMMA StartIs ==
  ASSUME IInv
  PROVE  AES_START <=> pc = 11
<1>1. REG[14] = IF pc = 11 THEN One ELSE Zero
  BY DEF IInv, StartInv, StartWrite
<1>2. CASE pc = 11
  BY <1>1, <1>2, WordsAssumption DEF AES_START
<1>3. CASE pc # 11
  BY <1>1, <1>3, WordsAssumption DEF AES_START
<1> QED  BY <1>2, <1>3

\* In testing mode the block the core is done with is the request's.
LEMMA DoneIsRequest ==
  ASSUME IInv, State = "DONE", run_mode = 0, ~late
  PROVE  Hold = request.msg
<1>1. Loaded(9) /\ pc \notin 1 .. 10
  BY DEF IInv, RequestInv, StartWrite
<1>2. pc # 0 \/ calls > 0
  BY Facts DEF IInv, FlagInv, StartWrite, Poll
<1>3. request \in Requests
  BY <1>2 DEF IInv, RequestInv, Enter
<1>4. Hold = Decrypt(KEY, MSG_ENC)
  BY DEF IInv, Working, InDone
<1>5. /\ REG[0] = request.key[1] /\ REG[1] = request.key[2]
      /\ REG[2] = request.key[3] /\ REG[3] = request.key[4]
  BY <1>1, ProgramIs DEF Loaded
<1>6. /\ REG[4] = request.msg_enc[1] /\ REG[5] = request.msg_enc[2]
      /\ REG[6] = request.msg_enc[3] /\ REG[7] = request.msg_enc[4]
  BY <1>1, ProgramIs DEF Loaded
<1>7. KEY = request.key
  BY <1>5, Facts, BlockWords DEF KEY
<1>8. MSG_ENC = request.msg_enc
  BY <1>6, Facts, BlockWords DEF MSG_ENC
<1> QED  BY <1>3, <1>4, <1>7, <1>8, RequestsAssumption

\* What an edge without a reset does to the core and to the histories: it starts
\* while the start register is up, and leaves DONE when that is down again.
EdgeFacts ==
  /\ CoreTypeOK' /\ CountInv' /\ CountersRest'
  /\ ~late' => Working(KEY, MSG_ENC)'
  /\ elapsed' \in 0 .. Latency + 1 /\ held' \in 0 .. 10
  /\ late' \in BOOLEAN /\ lateBefore' \in BOOLEAN
  /\ State = "WAIT" => (State' = "WAIT" <=> pc # 11)
  /\ State # "WAIT" => (State' = "WAIT" <=> State = "DONE" /\ pc # 11)
  /\ State = "DONE" /\ pc = 11 => State' = "DONE"
  /\ State = "WAIT" /\ pc # 11 => held' = held
  /\ IF State = "WAIT" /\ pc = 11 THEN lateBefore' = late /\ late' = (held # 0)
                                  ELSE lateBefore' = lateBefore /\ late' = late

LEMMA ClockedIs ==
  ASSUME IInv, Clocked
  PROVE  /\ held' = IF State = "DONE" /\ pc = 11 THEN (held + 1) % 11
                    ELSE IF State = "WAIT" /\ pc = 11 THEN 0 ELSE held
         /\ IF State = "WAIT" /\ pc = 11 THEN lateBefore' = late /\ late' = (held # 0)
                                         ELSE lateBefore' = lateBefore /\ late' = late
         /\ elapsed' \in 0 .. 102
<1>1. held' = IF State = "DONE" /\ pc = 11 THEN (held + 1) % 11
              ELSE IF State = "WAIT" /\ pc = 11 THEN 0 ELSE held
  BY StartIs DEF Clocked
<1>2. IF State = "WAIT" /\ pc = 11 THEN lateBefore' = late /\ late' = (held # 0)
                                   ELSE lateBefore' = lateBefore /\ late' = late
  BY StartIs DEF Clocked
<1>3. elapsed' \in 0 .. 102
  BY Facts DEF Clocked
<1> QED  BY <1>1, <1>2, <1>3

\* The counters in any decryption: a start held into DONE moves the round counter
\* by as many edges, and nothing else leaves it away from its start.
LEMMA CountStep ==
  ASSUME IInv, resetting \in {0, 2}, Clocked,
         NEW key, NEW msg, CoreEdge(AES_START, key, msg, FALSE)
  PROVE  /\ CountInv' /\ held' \in 0 .. 10
         /\ State' = "WAIT" => countkey' = 0 /\ count9' = held'
<1>1. /\ count9 \in 0 .. 10 /\ countkey \in 0 .. 24 /\ held \in 0 .. 10 /\ State \in States
  BY Facts DEF CoreTypeOK
<1>2. /\ State \notin {"WAIT", "KeyExpansion"} => countkey = 0
      /\ State \notin {"WAIT", "DONE"} => held = 0
      /\ State \in {"PAUSE", "ISR", "ISB", "ARK2"} => count9 = 10
      /\ State = "DONE" => count9 = IF held = 0 THEN 10 ELSE held - 1
      /\ State = "WAIT" => countkey = 0 /\ count9 = held
  BY DEF IInv, CountInv, CountersRest
<1>3. held' = IF State = "DONE" /\ pc = 11 THEN (held + 1) % 11
              ELSE IF State = "WAIT" /\ pc = 11 THEN 0 ELSE held
  BY ClockedIs
<1>4. PICK start \in BOOLEAN : start = (pc = 11)
  OBVIOUS
<1>5. IF start THEN pc = 11 ELSE pc # 11
  BY <1>4
<1>6. Next_state(start)
  BY <1>5, StartIs DEF CoreEdge, Next_state
<1>7. /\ count9' = IF State \in {"DONE", "ARK1", "IMC_LOOP3"}
                   THEN IF count9 = 10 THEN 0 ELSE count9 + 1 ELSE count9
      /\ countkey' = IF State = "KeyExpansion"
                     THEN IF countkey = 24 THEN 0 ELSE countkey + 1 ELSE countkey
  BY DEF CoreEdge, Counted, countEnable9, countEnablekey
<1>8. CASE State = "DONE" /\ start
  <2>1. State' = "DONE" /\ held' = IF held = 10 THEN 0 ELSE held + 1
    BY <1>1, <1>3, <1>5, <1>6, <1>8, IMCStatesAre DEF Next_state
  <2>2. count9' = held /\ countkey' = 0
    BY <1>1, <1>2, <1>7, <1>8
  <2> QED  BY <1>1, <2>1, <2>2 DEF CountInv
<1>9. CASE State = "DONE" /\ ~start
  <2>1. State' = "WAIT" /\ held' = held
    BY <1>3, <1>5, <1>6, <1>9, IMCStatesAre DEF Next_state
  <2>2. count9' = held /\ countkey' = 0
    BY <1>1, <1>2, <1>7, <1>9
  <2> QED  BY <1>1, <2>1, <2>2 DEF CountInv
<1>10. CASE State = "WAIT"
  <2>1. State' = IF start THEN "KeyExpansion" ELSE "WAIT"
    BY <1>6, <1>10, IMCStatesAre DEF Next_state
  <2>2. held' = IF start THEN 0 ELSE held
    BY <1>3, <1>5, <1>10
  <2>3. count9' = count9 /\ countkey' = countkey
    BY <1>7, <1>10
  <2> QED  BY <1>1, <1>2, <1>10, <2>1, <2>2, <2>3 DEF CountInv
<1>11. CASE State \notin {"WAIT", "DONE"}
  <2>1. held' = 0
    BY <1>2, <1>3, <1>11
  <2>2. /\ State' # "WAIT"
        /\ State = "KeyExpansion" /\ State' # "KeyExpansion" => countkey = 24
        /\ State' \in {"ISR", "ISB", "ARK2", "DONE"} => State \in {"PAUSE", "ISR", "ISB", "ARK2"}
        /\ State' = "PAUSE" => State = "IMC_LOOP3" /\ count9 = 9
    BY <1>6, <1>11, IMCStatesAre DEF Next_state, LastExpansion, LastRound
  <2>3. State' \notin {"WAIT", "KeyExpansion"} => countkey' = 0
    BY <1>2, <1>7, <1>11, <2>2
  <2>4. State' \in {"PAUSE", "ISR", "ISB", "ARK2", "DONE"} => count9' = 10
    BY <1>2, <1>7, <2>2
  <2> QED  BY <2>1, <2>2, <2>3, <2>4 DEF CountInv
<1> QED  BY <1>8, <1>9, <1>10, <1>11

\* An edge that leaves the key and the message alone while the core reads them.
LEMMA EdgeStep ==
  ASSUME IInv, resetting \in {0, 2}, CoreEdge(AES_START, KEY, MSG_ENC, FALSE), Clocked,
         pc \notin 1 .. 8 => \A a \in 0 .. 7 : REG'[a] = REG[a]
  PROVE  EdgeFacts
<1>1. PICK key \in Block, msg \in Block : key = KEY /\ msg = MSG_ENC
  BY Facts
<1>2. CoreTypeOK /\ elapsed \in 0 .. Latency + 1
  BY Facts
<1>3. CoreEdge(AES_START, key, msg, FALSE)
  BY <1>1, Zenon
<1>4. CoreTypeOK'
  BY <1>2, <1>3, CoreTypeStep
<1>5. CountInv' /\ held' \in 0 .. 10 /\ (State' = "WAIT" => countkey' = 0 /\ count9' = held')
  BY <1>3, CountStep
<1>6. CountersRest'
  BY <1>5 DEF CountersRest
<1>7. /\ State = "WAIT" => (State' = "WAIT" <=> pc # 11)
      /\ State # "WAIT" => (State' = "WAIT" <=> State = "DONE" /\ pc # 11)
      /\ State = "DONE" /\ pc = 11 => State' = "DONE"
  BY <1>3, StartIs, IMCStatesAre DEF CoreEdge, Next_state
<1>8. /\ State = "WAIT" /\ pc # 11 => held' = held
      /\ IF State = "WAIT" /\ pc = 11 THEN lateBefore' = late /\ late' = (held # 0)
                                      ELSE lateBefore' = lateBefore /\ late' = late
      /\ elapsed' \in 0 .. Latency + 1 /\ late' \in BOOLEAN /\ lateBefore' \in BOOLEAN
  <2>1. /\ State = "WAIT" /\ pc # 11 => held' = held
        /\ IF State = "WAIT" /\ pc = 11 THEN lateBefore' = late /\ late' = (held # 0)
                                        ELSE lateBefore' = lateBefore /\ late' = late
    BY ClockedIs
  <2>2. elapsed' \in 0 .. Latency + 1
    BY ClockedIs DEF Latency
  <2>3. late' \in BOOLEAN /\ lateBefore' \in BOOLEAN
    <3>1. late \in BOOLEAN /\ lateBefore \in BOOLEAN /\ (held # 0) \in BOOLEAN
      BY Facts
    <3> QED  BY <2>1, <3>1, Zenon
  <2> QED  BY <2>1, <2>2, <2>3
<1>9. ASSUME ~late'
      PROVE  Working(key, msg)'
  <2>1. Working(key, msg)
    <3>1. CASE State = "WAIT"
      BY <3>1 DEF Working
    <3>2. CASE State # "WAIT"
      <4>1. Working(KEY, MSG_ENC)
        BY <1>8, <1>9, <3>2 DEF IInv
      <4> QED  BY <1>1, <4>1, Zenon
    <3> QED  BY <3>1, <3>2
  <2>2. State = "WAIT" /\ AES_START => count9 = 0 /\ countkey = 0
    <3>1. State = "WAIT" /\ AES_START => held = 0
      BY <1>8, <1>9, StartIs
    <3> QED  BY <3>1 DEF IInv, CountersRest
  <2> QED  BY <1>2, <1>3, <2>1, <2>2, WorkingStep
<1>10. ASSUME ~late'
       PROVE  Working(KEY, MSG_ENC)'
  <2>1. CASE pc \in 1 .. 8
    <3>1. State' = "WAIT"
      BY <1>7, <2>1 DEF IInv, StartInv
    <3> QED  BY <3>1 DEF Working
  <2>2. CASE pc \notin 1 .. 8
    <3>1. KEY' = key /\ MSG_ENC' = msg
      BY <1>1, <2>2 DEF KEY, MSG_ENC
    <3> QED  BY <1>9, <1>10, <3>1
  <2> QED  BY <2>1, <2>2
<1> QED  BY <1>4, <1>5, <1>6, <1>7, <1>8, <1>10 DEF EdgeFacts

LEMMA InitHolds == Init => IInv
<1> SUFFICES ASSUME Init PROVE IInv
  OBVIOUS
<1>1. State = "WAIT" /\ count9 = 0 /\ countkey = 0 /\ Hold = ZeroBlock /\ IMC_reg = ZeroBlock
  BY DEF Init, BusInit, CoreInit
<1>2. rom \in [1 .. 10 -> Block]
  <2>1. \A i \in 1 .. 10 : RoundKeys(ZeroBlock)[i - 1] \in Block
    BY ZeroBlockType, RoundKeysStep
  <2> QED  BY <2>1 DEF Init, BusInit, CoreInit
<1>3. CoreTypeOK
  BY <1>1, <1>2, ZeroBlockType, StatesAre DEF CoreTypeOK
<1>4. REG = [a \in 0 .. 15 |-> Zero] /\ Zero \in Col
  BY CoreAssumption DEF Init, BusInit
<1>5. /\ run_mode \in RunModes /\ pc = 0 /\ calls = 0 /\ gap = 0 /\ elapsed = 0
      /\ resetting = 0 /\ resets = 0 /\ previous = request /\ msg_dec = ZeroBlock
      /\ held = 0 /\ ~late /\ ~lateBefore /\ late \in BOOLEAN /\ lateBefore \in BOOLEAN
      /\ request.key = ZeroBlock /\ request.msg_enc = ZeroBlock /\ request.msg = ZeroBlock
  BY DEF Init, Enter, NoRequest
<1>6. TypeOK
  BY <1>3, <1>4, <1>5, ZeroBlockType, BoundsAssumption DEF TypeOK, Enter, Return, Latency
<1>7. Working(KEY, MSG_ENC) /\ CountInv /\ CountersRest
  BY <1>1, <1>5 DEF Working, CountInv, CountersRest
<1>8. ResetInv /\ StartInv /\ LateInv /\ FlagInv /\ CallsInv
  BY <1>1, <1>4, <1>5, WordsAssumption
  DEF ResetInv, StartInv, LateInv, FlagInv, CallsInv, Enter, StartWrite, Poll
<1>9. RequestInv /\ ResultInv /\ ReadInv
  BY <1>1, <1>4, <1>5 DEF RequestInv, ResultInv, ReadInv, Enter, Poll
<1> QED  BY <1>5, <1>6, <1>7, <1>8, <1>9, ZeroBlockType DEF IInv

----
(* Every action keeps the invariant.                                            *)

\* An edge without a bus write: the result registers change when the core is done.
LEMMA NoWriteIs ==
  ASSUME IInv, resetting \in {0, 2}, NoWrite(One), Clocked
  PROVE  /\ EdgeFacts
         /\ REG' \in [0 .. 15 -> Col] /\ \A a \in 0 .. 7 : REG'[a] = REG[a]
         /\ REG'[14] = REG[14] /\ REG'[15] = IF State = "DONE" THEN One ELSE REG[15]
         /\ Result' = IF State = "DONE" THEN Hold ELSE Result
<1>1. REG \in [0 .. 15 -> Col] /\ Hold \in Block /\ One \in Col /\ Hold = [i \in 1 .. 4 |-> Hold[i]]
  BY Facts, WordsAssumption DEF Block
<1>2. CoreEdge(AES_START, KEY, MSG_ENC, FALSE)
  BY DEF NoWrite
<1>3. CASE State = "DONE"
  <2>1. REG' = [a \in 0 .. 15 |-> IF a \in 8 .. 11 THEN Hold[a - 7]
                                  ELSE IF a = 15 THEN One ELSE REG[a]]
    BY <1>3 DEF NoWrite, Captured, AES_DONE
  <2>2. \A a \in 0 .. 15 : REG'[a] \in Col
    BY <1>1, <2>1 DEF Block
  <2>3. \A i \in 1 .. 4 : REG'[i + 7] = Hold[i]
    <3> TAKE i \in 1 .. 4
    <3>1. i + 7 \in 0 .. 15 /\ i + 7 \in 8 .. 11 /\ (i + 7) - 7 = i
      OBVIOUS
    <3> QED  BY <2>1, <3>1
  <2>4. Result' = Hold
    BY <1>1, <2>3 DEF Result
  <2>5. /\ REG' \in [0 .. 15 -> Col] /\ \A a \in 0 .. 7 : REG'[a] = REG[a]
        /\ REG'[14] = REG[14] /\ REG'[15] = One
    BY <2>1, <2>2
  <2> QED  BY <1>2, <1>3, <2>4, <2>5, EdgeStep
<1>4. CASE State # "DONE"
  <2>1. REG' = REG
    BY <1>4 DEF NoWrite, AES_DONE
  <2>2. Result' = Result
    BY <2>1 DEF Result
  <2> QED  BY <1>1, <1>2, <1>4, <2>1, <2>2, EdgeStep
<1> QED  BY <1>3, <1>4

\* From DecryptWrite on all eight words are loaded.
LEMMA Loadeds ==
  ASSUME NEW n \in 9 .. 17, NEW k \in 9 .. 17
  PROVE  Loaded(n) <=> Loaded(k)
<1>1. \A i \in 1 .. 8 : i < n /\ i < k
  OBVIOUS
<1> QED  BY <1>1 DEF Loaded

LEMMA LoadedKept ==
  ASSUME NEW n \in 0 .. 17, request' = request, \A a \in 0 .. 7 : REG'[a] = REG[a], Loaded(n)
  PROVE  Loaded(n)'
<1>1. Program' = Program
  BY DEF Program
<1>2. \A i \in 1 .. 8 : i - 1 \in 0 .. 7
  OBVIOUS
<1> QED  BY <1>1, <1>2 DEF Loaded

LEMMA IdleStep == ASSUME IInv, Idle PROVE IInv'
<1>1. /\ Clocked /\ resetting \in {0, 2} /\ resetting' = 0 /\ NoWrite(One)
      /\ gap' = IF gap < MaxGap THEN gap + 1 ELSE gap
      /\ run_mode' = run_mode /\ pc' = pc /\ request' = request /\ msg_dec' = msg_dec
      /\ calls' = calls /\ previous' = previous /\ resets' = resets
  BY DEF Idle
<1>2. /\ TypeOK /\ ResetInv /\ StartInv /\ LateInv /\ FlagInv /\ CallsInv /\ RequestInv /\ ResultInv
      /\ ReadInv /\ pc \in 0 .. 17 /\ calls \in Nat /\ calls <= MaxCalls /\ gap \in Nat
      /\ gap <= MaxGap /\ MaxGap \in Nat /\ elapsed \in 0 .. 102 /\ One # Zero
      /\ request.msg \in Block /\ previous.msg \in Block
  BY Facts, WordsAssumption DEF IInv
<1>3. /\ EdgeFacts
      /\ REG' \in [0 .. 15 -> Col] /\ \A a \in 0 .. 7 : REG'[a] = REG[a]
      /\ REG'[14] = REG[14] /\ REG'[15] = IF State = "DONE" THEN One ELSE REG[15]
      /\ Result' = IF State = "DONE" THEN Hold ELSE Result
  BY <1>1, NoWriteIs
<1>4. TypeOK'
  BY <1>1, <1>2, <1>3, BoundsAssumption DEF TypeOK, Enter, Return, EdgeFacts
<1>5. StartInv'
  <2>1. REG'[14] = IF pc' = 11 THEN One ELSE Zero
    BY <1>1, <1>2, <1>3 DEF StartInv, StartWrite
  <2>2. State' # "WAIT" => pc' \notin 1 .. 8
    BY <1>1, <1>2, <1>3 DEF StartInv, EdgeFacts
  <2> QED  BY <2>1, <2>2 DEF StartInv, StartWrite
<1>6. FlagInv' /\ LateInv'
  <2>1. FlagInv'
    BY <1>1, <1>2, <1>3, WordsAssumption DEF FlagInv, StartWrite, Poll, EdgeFacts
  <2>2. LateInv'
    BY <1>1, <1>2, <1>3 DEF LateInv, FlagInv, StartWrite, Poll, EdgeFacts
  <2> QED  BY <2>1, <2>2
<1>7. ResetInv' /\ CallsInv'
  BY <1>1, <1>2 DEF ResetInv, CallsInv
<1>8. RequestInv'
  <2> SUFFICES ASSUME run_mode = 0 PROVE RequestInv'
    BY <1>1 DEF RequestInv
  <2>1. pc # 0 => Loaded(pc)'
    BY <1>1, <1>2, <1>3, LoadedKept DEF RequestInv, Enter, EdgeFacts
  <2>2. State' # "WAIT" => pc \notin 1 .. 10 /\ Loaded(9)'
    <3>1. CASE State = "WAIT" /\ pc = 11
      BY <2>1, <3>1, Loadeds, <1>1, <1>2, <1>3, LoadedKept DEF RequestInv, Enter, EdgeFacts
    <3>2. CASE State # "WAIT"
      BY <1>1, <1>2, <1>3, <3>2, LoadedKept DEF RequestInv, StartWrite, EdgeFacts
    <3> QED  BY <1>3, <3>1, <3>2 DEF EdgeFacts
  <2> QED  BY <1>1, <1>2, <2>1, <2>2 DEF RequestInv, Enter, StartWrite
<1>9. ResultInv'
  <2> SUFFICES ASSUME run_mode = 0 PROVE ResultInv'
    BY <1>1 DEF ResultInv
  <2>1. State = "DONE" /\ ~late => Result' = request.msg
    BY <1>3, DoneIsRequest
  <2>2. State # "WAIT" => pc \notin 1 .. 10
    BY <1>2 DEF RequestInv, StartWrite
  <2>3. /\ pc' = pc /\ calls' = calls /\ request' = request /\ previous' = previous
        /\ State = "DONE" \/ Result' = Result
        /\ REG'[15] = IF State = "DONE" THEN One ELSE REG[15]
    BY <1>1, <1>3
  <2>4. calls = 0 => ~late
    BY <1>2 DEF LateInv
  <2>5. (calls > 0 /\ ~Started /\ ~late => Result = previous.msg)'
    BY <1>2, <1>3, <2>2, <2>3 DEF ResultInv, Started, StartWrite, EdgeFacts
  <2>6. (calls > 0 /\ Started /\ State = "WAIT" /\ ~late => Result = request.msg)'
    BY <1>2, <1>3, <2>1, <2>2, <2>3 DEF ResultInv, Started, StartWrite, EdgeFacts
  <2>7. (calls > 0 /\ Started /\ State # "WAIT" /\ ~lateBefore =>
           \/ Result = previous.msg
           \/ State = "DONE" /\ pc \in {StartWrite + 1, Poll})'
    BY <1>2, <1>3, <2>2, <2>3 DEF ResultInv, Started, StartWrite, EdgeFacts
  <2>8. (calls = 0 /\ REG[15] # Zero => Result = request.msg)'
    BY <1>2, <2>1, <2>3, <2>4 DEF ResultInv
  <2> QED  BY <2>5, <2>6, <2>7, <2>8 DEF ResultInv
<1>10. ReadInv'
  <2>1. \A j \in 0 .. 4 : Mixed(j)' <=> Mixed(j)
    BY <1>1 DEF Mixed
  <2> QED  BY <1>1, <1>2, <1>3, <2>1 DEF ReadInv, Poll, EdgeFacts
<1> QED  BY <1>1, <1>2, <1>3, <1>4, <1>5, <1>6, <1>7, <1>8, <1>9, <1>10 DEF IInv, EdgeFacts

LEMMA PollStep == ASSUME IInv, PollDone PROVE IInv'
<1>1. /\ Clocked /\ resetting \in {0, 2} /\ resetting' = 0 /\ gap' = 0 /\ NoWrite(One)
      /\ pc = 12 /\ pc' = IF REG[15] # Zero THEN 13 ELSE 12
      /\ run_mode' = run_mode /\ request' = request /\ previous' = previous
      /\ resets' = resets /\ msg_dec' = msg_dec /\ calls' = calls
  BY DEF PollDone, Access, Poll
<1>2. /\ TypeOK /\ ResetInv /\ StartInv /\ LateInv /\ FlagInv /\ CallsInv /\ RequestInv /\ ResultInv
      /\ ReadInv /\ pc \in 0 .. 17 /\ calls \in Nat /\ calls <= MaxCalls /\ gap \in Nat
      /\ gap <= MaxGap /\ MaxGap \in Nat /\ MaxCalls \in Nat /\ One # Zero
      /\ request.msg \in Block /\ previous.msg \in Block /\ msg_dec \in Block
  BY Facts, WordsAssumption DEF IInv
<1>3. /\ EdgeFacts
      /\ REG' \in [0 .. 15 -> Col] /\ \A a \in 0 .. 7 : REG'[a] = REG[a]
      /\ REG'[14] = REG[14] /\ REG'[15] = IF State = "DONE" THEN One ELSE REG[15]
      /\ Result' = IF State = "DONE" THEN Hold ELSE Result
  BY <1>1, NoWriteIs
<1>4. TypeOK'
  BY <1>1, <1>2, <1>3, BoundsAssumption DEF TypeOK, Enter, Return, EdgeFacts
<1>5. StartInv'
  BY <1>1, <1>2, <1>3 DEF StartInv, StartWrite, EdgeFacts
<1>6. FlagInv' /\ LateInv'
  <2>1. FlagInv'
    BY <1>1, <1>2, <1>3 DEF FlagInv, StartWrite, Poll, EdgeFacts
  <2>2. LateInv'
    BY <1>1, <1>2, <1>3 DEF LateInv, FlagInv, StartWrite, Poll, EdgeFacts
  <2> QED  BY <2>1, <2>2
<1>7. ResetInv' /\ CallsInv'
  BY <1>1, <1>2 DEF ResetInv, CallsInv, Enter
<1>8. RequestInv'
  <2> SUFFICES ASSUME run_mode = 0 PROVE RequestInv'
    BY <1>1 DEF RequestInv
  <2>1. Loaded(12)' /\ Loaded(13)' /\ Loaded(9)'
    BY <1>1, <1>2, <1>3, Loadeds, LoadedKept DEF RequestInv, Enter, EdgeFacts
  <2> QED  BY <1>1, <1>2, <2>1 DEF RequestInv, Enter, StartWrite
<1>9. ResultInv'
  <2> SUFFICES ASSUME run_mode = 0 PROVE ResultInv'
    BY <1>1 DEF ResultInv
  <2>1. State = "DONE" /\ ~late => Result' = request.msg
    BY <1>3, DoneIsRequest
  <2>2. calls = 0 => ~late
    BY <1>2 DEF LateInv
  <2>3. /\ pc \notin 0 .. 11 /\ pc' \notin 0 .. 11
        /\ calls' = calls /\ request' = request /\ previous' = previous
        /\ State = "DONE" \/ Result' = Result
        /\ REG'[15] = IF State = "DONE" THEN One ELSE REG[15]
        /\ late' = late /\ lateBefore' = lateBefore
        /\ State' = "WAIT" <=> State \in {"WAIT", "DONE"}
    BY <1>1, <1>3 DEF EdgeFacts
  <2> QED  BY <1>2, <2>1, <2>2, <2>3 DEF ResultInv, Started, StartWrite
<1>10. ReadInv'
  <2>1. pc' > 12 => \A j \in 0 .. 4 : Mixed(j)'
    BY <1>1 DEF Mixed, Return
  <2> QED  BY <2>1 DEF ReadInv, Poll
<1> QED  BY <1>1, <1>2, <1>3, <1>4, <1>5, <1>6, <1>7, <1>8, <1>9, <1>10 DEF IInv, EdgeFacts

LEMMA ReadStep == ASSUME IInv, ReadResult PROVE IInv'
<1>1. /\ Clocked /\ resetting \in {0, 2} /\ resetting' = 0 /\ gap' = 0 /\ NoWrite(One)
      /\ pc \in 13 .. 16 /\ pc' = pc + 1
      /\ run_mode' = run_mode /\ request' = request /\ previous' = previous
      /\ resets' = resets /\ calls' = calls
      /\ msg_dec' = [msg_dec EXCEPT ![17 - pc] = REG[24 - pc]]
  BY DEF ReadResult, Access, Read
<1>2. /\ TypeOK /\ ResetInv /\ StartInv /\ LateInv /\ FlagInv /\ CallsInv /\ RequestInv /\ ResultInv
      /\ ReadInv /\ pc \in 0 .. 17 /\ calls \in Nat /\ calls <= MaxCalls /\ gap \in Nat
      /\ gap <= MaxGap /\ MaxGap \in Nat /\ MaxCalls \in Nat /\ One # Zero
      /\ request.msg \in Block /\ previous.msg \in Block /\ msg_dec \in Block
  BY Facts, WordsAssumption DEF IInv
<1>3. /\ EdgeFacts
      /\ REG' \in [0 .. 15 -> Col] /\ \A a \in 0 .. 7 : REG'[a] = REG[a]
      /\ REG'[14] = REG[14] /\ REG'[15] = IF State = "DONE" THEN One ELSE REG[15]
      /\ Result' = IF State = "DONE" THEN Hold ELSE Result
  BY <1>1, NoWriteIs
<1>4. TypeOK'
  <2>1. REG[24 - pc] \in Col
    BY <1>1, <1>2 DEF TypeOK
  <2>2. msg_dec' \in Block
    BY <1>1, <1>2, <2>1 DEF Block
  <2> QED  BY <1>1, <1>2, <1>3, <2>2, BoundsAssumption DEF TypeOK, Enter, Return, EdgeFacts
<1>5. StartInv'
  <2>1. REG'[14] = Zero /\ pc' \notin 1 .. 11
    BY <1>1, <1>2, <1>3 DEF StartInv, StartWrite, EdgeFacts
  <2> QED  BY <2>1 DEF StartInv, StartWrite
<1>6. FlagInv' /\ LateInv'
  <2>1. FlagInv'
    BY <1>1, <1>2, <1>3 DEF FlagInv, StartWrite, Poll, EdgeFacts
  <2>2. LateInv'
    BY <1>1, <1>2, <1>3 DEF LateInv, FlagInv, StartWrite, Poll, EdgeFacts
  <2> QED  BY <2>1, <2>2
<1>7. ResetInv' /\ CallsInv'
  BY <1>1, <1>2 DEF ResetInv, CallsInv, Enter
<1>8. RequestInv'
  <2> SUFFICES ASSUME run_mode = 0 PROVE RequestInv'
    BY <1>1 DEF RequestInv
  <2>1. Loaded(9)'
    BY <1>1, <1>2, <1>3, Loadeds, LoadedKept DEF RequestInv, Enter, EdgeFacts
  <2>2. Loaded(pc)'
    BY <1>1, <2>1 DEF Loaded
  <2> QED  BY <1>1, <1>2, <2>1, <2>2 DEF RequestInv, Enter, StartWrite
<1>9. ResultInv'
  <2> SUFFICES ASSUME run_mode = 0 PROVE ResultInv'
    BY <1>1 DEF ResultInv
  <2>1. State = "DONE" /\ ~late => Result' = request.msg
    BY <1>3, DoneIsRequest
  <2>2. calls = 0 => ~late
    BY <1>2 DEF LateInv
  <2>3. /\ pc \notin 0 .. 11 /\ pc' \notin 0 .. 11
        /\ calls' = calls /\ request' = request /\ previous' = previous
        /\ State = "DONE" \/ Result' = Result
        /\ REG'[15] = IF State = "DONE" THEN One ELSE REG[15]
        /\ late' = late /\ lateBefore' = lateBefore
        /\ State' = "WAIT" <=> State \in {"WAIT", "DONE"}
    BY <1>1, <1>3 DEF EdgeFacts
  <2> QED  BY <1>2, <2>1, <2>2, <2>3 DEF ResultInv, Started, StartWrite
<1>10. ReadInv'
  <2> SUFFICES ASSUME run_mode = 0 PROVE ReadInv'
    BY <1>1 DEF ReadInv
  <2>0. PICK k \in 1 .. 4 : k = 17 - pc
    BY <1>1
  <2>1. k \in 1 .. 4 /\ REG[24 - pc] = Result[k] /\ 17 - pc' = k - 1
    <3>1. k + 7 = 24 - pc
      BY <1>1, <2>0
    <3> QED  BY <1>1, <2>0, <3>1 DEF Result
  <2>2. \A i \in 1 .. 4 : msg_dec'[i] = IF i = k THEN Result[k] ELSE msg_dec[i]
    BY <1>1, <1>2, <2>0, <2>1 DEF Block
  <2>3. \A j \in 0 .. 4 : Mixed(j) <=> \A i \in 1 .. 4 : i > k =>
          msg_dec[i] = IF i <= j THEN request.msg[i] ELSE previous.msg[i]
    BY <2>0 DEF Mixed, Return
  <2>4. \A j \in 0 .. 4 : Mixed(j)' <=> \A i \in 1 .. 4 : i > k - 1 =>
          msg_dec'[i] = IF i <= j THEN request.msg[i] ELSE previous.msg[i]
    BY <1>1, <2>1 DEF Mixed, Return
  <2>5. CASE calls = 0
    <3>1. Result = request.msg
      BY <1>1, <1>2, <2>5 DEF ResultInv, FlagInv, Poll
    <3>2. Mixed(4)
      BY <1>1, <1>2, <2>5 DEF ReadInv, Poll
    <3>3. Mixed(4)'
      BY <2>1, <2>2, <2>3, <2>4, <3>1, <3>2
    <3> QED  BY <1>1, <2>5, <3>3 DEF ReadInv
  <2>6. CASE calls > 0 /\ ~late /\ ~lateBefore /\ State = "WAIT"
    <3>1. Result = request.msg
      BY <1>1, <1>2, <2>6 DEF ResultInv, Started, StartWrite
    <3>2. PICK j \in 0 .. 4 : Mixed(j)
      BY <1>1, <1>2, <2>6 DEF ReadInv, Poll
    <3>3. CASE j >= k
      <4>1. Mixed(j)'
        BY <2>1, <2>2, <2>3, <2>4, <3>1, <3>2, <3>3
      <4> QED  BY <1>1, <1>3, <2>6, <4>1 DEF ReadInv, EdgeFacts
    <3>4. CASE j < k
      <4>1. Mixed(k)'
        <5>1. k \in 0 .. 4
          BY <2>1
        <5>2. ASSUME NEW i \in 1 .. 4, i > k - 1
              PROVE  msg_dec'[i] = IF i <= k THEN request.msg[i] ELSE previous.msg[i]
          <6>1. CASE i = k
            BY <2>1, <2>2, <3>1, <6>1
          <6>2. CASE i # k
            <7>1. i > k /\ ~(i <= j) /\ ~(i <= k)
              BY <2>1, <3>4, <5>2, <6>2
            <7> QED  BY <2>2, <2>3, <3>2, <6>2, <7>1
          <6> QED  BY <6>1, <6>2
        <5> QED  BY <2>4, <5>1, <5>2
      <4> QED  BY <1>1, <1>3, <2>1, <2>6, <4>1 DEF ReadInv, EdgeFacts
    <3> QED  BY <2>1, <3>3, <3>4
  <2>7. CASE calls > 0 /\ ~late /\ ~lateBefore /\ State # "WAIT"
    <3>1. Result = previous.msg /\ Mixed(0)
      BY <1>1, <1>2, <2>7 DEF ResultInv, Started, ReadInv, StartWrite, Poll
    <3>2. Mixed(0)'
      BY <2>1, <2>2, <2>3, <2>4, <3>1
    <3> QED  BY <1>1, <2>7, <3>2 DEF ReadInv
  <2>8. CASE calls > 0 /\ (late \/ lateBefore)
    BY <1>1, <1>3, <2>8 DEF ReadInv, EdgeFacts
  <2> QED  BY <1>2, <2>5, <2>6, <2>7, <2>8
<1> QED  BY <1>1, <1>2, <1>3, <1>4, <1>5, <1>6, <1>7, <1>8, <1>9, <1>10 DEF IInv, EdgeFacts

LEMMA ReturnStep == ASSUME IInv, ReturnResult PROVE IInv'
<1>1. /\ Clocked /\ resetting \in {0, 2} /\ resetting' = 0 /\ gap' = 0 /\ NoWrite(One)
      /\ pc = 17 /\ pc' = 0
      /\ run_mode' = run_mode /\ request' = request /\ previous' = previous
      /\ resets' = resets /\ msg_dec' = msg_dec /\ calls' = calls + 1
  BY DEF ReturnResult, Access, Return, Enter
<1>2. /\ TypeOK /\ ResetInv /\ StartInv /\ LateInv /\ FlagInv /\ CallsInv /\ RequestInv /\ ResultInv
      /\ ReadInv /\ pc \in 0 .. 17 /\ calls \in Nat /\ calls <= MaxCalls /\ gap \in Nat
      /\ gap <= MaxGap /\ MaxGap \in Nat /\ MaxCalls \in Nat /\ One # Zero
      /\ request.msg \in Block /\ previous.msg \in Block /\ msg_dec \in Block
  BY Facts, WordsAssumption DEF IInv
<1>3. /\ EdgeFacts
      /\ REG' \in [0 .. 15 -> Col] /\ \A a \in 0 .. 7 : REG'[a] = REG[a]
      /\ REG'[14] = REG[14] /\ REG'[15] = IF State = "DONE" THEN One ELSE REG[15]
      /\ Result' = IF State = "DONE" THEN Hold ELSE Result
  BY <1>1, NoWriteIs
<1>4. TypeOK'
  <2>1. calls' \in 0 .. MaxCalls
    BY <1>1, <1>2 DEF CallsInv, Enter
  <2> QED  BY <1>1, <1>2, <1>3, <2>1, BoundsAssumption DEF TypeOK, Enter, Return, EdgeFacts
<1>5. StartInv'
  BY <1>1, <1>2, <1>3 DEF StartInv, StartWrite, EdgeFacts
<1>6. FlagInv' /\ LateInv'
  <2>1. FlagInv'
    BY <1>1, <1>2, <1>3 DEF FlagInv, StartWrite, Poll, EdgeFacts
  <2>2. LateInv'
    BY <1>1, <1>2, <1>3 DEF LateInv, FlagInv, StartWrite, Poll, EdgeFacts
  <2> QED  BY <2>1, <2>2
<1>7. ResetInv' /\ CallsInv'
  BY <1>1, <1>2 DEF ResetInv, CallsInv, Enter
<1>8. RequestInv'
  <2> SUFFICES ASSUME run_mode = 0 PROVE RequestInv'
    BY <1>1 DEF RequestInv
  <2>1. Loaded(9)'
    BY <1>1, <1>2, <1>3, Loadeds, LoadedKept DEF RequestInv, Enter, EdgeFacts
  <2> QED  BY <1>1, <1>2, <2>1 DEF RequestInv, Enter, StartWrite
<1>9. ResultInv'
  <2> SUFFICES ASSUME run_mode = 0 PROVE ResultInv'
    BY <1>1 DEF ResultInv
  <2>1. State = "DONE" /\ ~late => Result' = request.msg
    BY <1>3, DoneIsRequest
  <2>2. calls = 0 => State = "WAIT" /\ Result = request.msg
    BY <1>1, <1>2 DEF FlagInv, ResultInv, Poll
  <2>3. /\ calls > 0 /\ State = "WAIT" /\ ~late => Result = request.msg
        /\ calls > 0 /\ State # "WAIT" /\ ~lateBefore => Result = previous.msg
    BY <1>1, <1>2 DEF ResultInv, Started, StartWrite, Poll
  <2>4. /\ pc' = 0 /\ calls' > 0 /\ request' = request /\ previous' = previous
        /\ State = "DONE" \/ Result' = Result
        /\ late' = late /\ lateBefore' = lateBefore
        /\ State' = "WAIT" <=> State \in {"WAIT", "DONE"}
    BY <1>1, <1>2, <1>3 DEF EdgeFacts
  <2> QED  BY <1>2, <2>1, <2>2, <2>3, <2>4 DEF ResultInv, Started, StartWrite
<1>10. ReadInv'
  BY <1>1 DEF ReadInv, Poll
<1> QED  BY <1>1, <1>2, <1>3, <1>4, <1>5, <1>6, <1>7, <1>8, <1>9, <1>10 DEF IInv, EdgeFacts

LEMMA EnterStep == ASSUME IInv, EnterRequest PROVE IInv'
<1>1. /\ Clocked /\ resetting \in {0, 2} /\ resetting' = 0 /\ gap' = 0 /\ NoWrite(One)
      /\ pc = 0 /\ calls < MaxCalls /\ run_mode' = run_mode /\ resets' = resets
      /\ msg_dec' = msg_dec /\ calls' = calls
      /\ run_mode = 0 => State = "WAIT" /\ request' \in Requests /\ previous' = request /\ pc' = 1
      /\ run_mode # 0 => pc' = 9 /\ request' = request /\ previous' = previous
  BY DEF EnterRequest, Access, Slow, Enter, FirstWrite, DecryptWrite
<1>2. /\ TypeOK /\ ResetInv /\ StartInv /\ LateInv /\ FlagInv /\ CallsInv /\ RequestInv /\ ResultInv
      /\ ReadInv /\ pc \in 0 .. 17 /\ calls \in Nat /\ calls <= MaxCalls /\ gap \in Nat
      /\ gap <= MaxGap /\ MaxGap \in Nat /\ MaxCalls \in Nat /\ One # Zero
      /\ request.msg \in Block /\ previous.msg \in Block /\ msg_dec \in Block
  BY Facts, WordsAssumption DEF IInv
<1>3. /\ EdgeFacts
      /\ REG' \in [0 .. 15 -> Col] /\ \A a \in 0 .. 7 : REG'[a] = REG[a]
      /\ REG'[14] = REG[14] /\ REG'[15] = IF State = "DONE" THEN One ELSE REG[15]
      /\ Result' = IF State = "DONE" THEN Hold ELSE Result
  BY <1>1, NoWriteIs
<1>4. TypeOK' /\ request.msg' \in Block /\ previous.msg' \in Block
  <2>1. CASE run_mode = 0
    <3>1. request'.key \in Block /\ request'.msg_enc \in Block /\ request'.msg \in Block
      BY <1>1, <2>1, RequestType
    <3> QED  BY <1>1, <1>2, <1>3, <2>1, <3>1, BoundsAssumption DEF TypeOK, Enter, Return, EdgeFacts
  <2>2. CASE run_mode # 0
    BY <1>1, <1>2, <1>3, <2>2, BoundsAssumption DEF TypeOK, Enter, Return, EdgeFacts
  <2> QED  BY <2>1, <2>2
<1>5. StartInv'
  <2>1. REG'[14] = Zero /\ pc' # 11
    BY <1>1, <1>2, <1>3 DEF StartInv, StartWrite, EdgeFacts
  <2>2. State' # "WAIT" => pc' \notin 1 .. 8
    BY <1>1, <1>3 DEF EdgeFacts
  <2> QED  BY <2>1, <2>2 DEF StartInv, StartWrite
<1>6. FlagInv' /\ LateInv'
  <2>1. FlagInv'
    BY <1>1, <1>2, <1>3 DEF FlagInv, StartWrite, Poll, EdgeFacts
  <2>2. LateInv'
    BY <1>1, <1>2, <1>3 DEF LateInv, FlagInv, StartWrite, Poll, EdgeFacts
  <2> QED  BY <2>1, <2>2
<1>7. ResetInv' /\ CallsInv'
  BY <1>1, <1>2 DEF ResetInv, CallsInv, Enter
<1>8. RequestInv'
  <2>1. Loaded(1)'
    BY DEF Loaded
  <2> QED  BY <1>1, <1>2, <1>3, <2>1 DEF RequestInv, Enter, StartWrite, EdgeFacts
<1>9. ResultInv'
  <2> SUFFICES ASSUME run_mode = 0 PROVE ResultInv'
    BY <1>1 DEF ResultInv
  <2>1. calls > 0 /\ ~late => Result = request.msg
    BY <1>1, <1>2 DEF ResultInv, Started, StartWrite
  <2>2. calls = 0 => REG[15] = Zero
    BY <1>1, <1>2 DEF FlagInv, Poll
  <2>3. /\ pc' = 1 /\ calls' = calls /\ previous' = request /\ Result' = Result
        /\ REG'[15] = REG[15] /\ State' = "WAIT" /\ late' = late
    BY <1>1, <1>2, <1>3 DEF EdgeFacts
  <2> QED  BY <1>2, <2>1, <2>2, <2>3 DEF ResultInv, Started, StartWrite
<1>10. ReadInv'
  BY <1>1 DEF ReadInv, Poll
<1> QED  BY <1>1, <1>2, <1>3, <1>4, <1>5, <1>6, <1>7, <1>8, <1>9, <1>10 DEF IInv, EdgeFacts

LEMMA WriteStep == ASSUME IInv, WriteRegister PROVE IInv'
<1>1. /\ Clocked /\ resetting \in {0, 2} /\ resetting' = 0 /\ gap' = 0 /\ pc \in 1 .. 11
      /\ REG' = [REG EXCEPT ![Program[pc].addr] = Program[pc].data]
      /\ CoreEdge(AES_START, KEY, MSG_ENC, FALSE)
      /\ pc = 10 => State = "WAIT"
      /\ pc' = pc + 1 /\ run_mode' = run_mode /\ request' = request /\ msg_dec' = msg_dec
      /\ calls' = calls /\ previous' = previous /\ resets' = resets
  BY ProgramIs DEF WriteRegister, Access, Slow, StartWrite, Write
<1>2. /\ TypeOK /\ ResetInv /\ StartInv /\ LateInv /\ FlagInv /\ CallsInv /\ RequestInv /\ ResultInv
      /\ ReadInv /\ pc \in 0 .. 17 /\ calls \in Nat /\ One # Zero
      /\ REG \in [0 .. 15 -> Col] /\ request.key \in Block /\ request.msg_enc \in Block
      /\ request.msg \in Block /\ previous.msg \in Block
      /\ One \in Col /\ Zero \in Col /\ DEADBEEF \in Col
  BY Facts, WordsAssumption, CoreAssumption DEF IInv
\* The register written, by the number of the access.
<1>3. /\ pc \in 1 .. 8 => Program[pc].addr = pc - 1
      /\ pc = 9 => Program[pc].addr = 12
      /\ pc = 10 => Program[pc].addr = 14 /\ Program[pc].data = One
      /\ pc = 11 => Program[pc].addr = 14 /\ Program[pc].data = Zero
      /\ Program[pc].data \in Col
  <2>1. CASE pc \in 1 .. 4
    <3>1. request.key[pc] \in Col
      BY <1>2, <2>1 DEF Block
    <3> QED  BY <2>1, <3>1, ProgramIs
  <2>2. CASE pc \in 5 .. 8
    <3>1. request.msg_enc[pc - 4] \in Col
      BY <1>2, <2>2 DEF Block
    <3> QED  BY <2>2, <3>1, ProgramIs
  <2>3. CASE pc \in 9 .. 11
    BY <1>2, <2>3, ProgramIs
  <2> QED  BY <1>1, <2>1, <2>2, <2>3
<1>4. /\ REG' \in [0 .. 15 -> Col]
      /\ \A a \in 8 .. 11 : REG'[a] = REG[a]
      /\ REG'[15] = REG[15]
      /\ REG'[14] = IF pc = 10 THEN One ELSE Zero
      /\ pc \notin 1 .. 8 => \A a \in 0 .. 7 : REG'[a] = REG[a]
      /\ pc \in 1 .. 8 => /\ REG'[pc - 1] = Program[pc].data
                          /\ \A a \in 0 .. 7 : a # pc - 1 => REG'[a] = REG[a]
  <2>1. REG[14] = IF pc = 11 THEN One ELSE Zero
    BY <1>2 DEF StartInv, StartWrite
  <2>2. CASE pc \in 1 .. 8
    BY <1>1, <1>2, <1>3, <2>1, <2>2
  <2>3. CASE pc = 9
    BY <1>1, <1>2, <1>3, <2>1, <2>3
  <2>4. CASE pc = 10
    BY <1>1, <1>2, <1>3, <2>1, <2>4
  <2>5. CASE pc = 11
    BY <1>1, <1>2, <1>3, <2>1, <2>5
  <2> QED  BY <1>1, <2>2, <2>3, <2>4, <2>5
<1>5. EdgeFacts
  BY <1>1, <1>4, EdgeStep
<1>6. Result' = Result
  <2>1. \A i \in 1 .. 4 : i + 7 \in 8 .. 11
    OBVIOUS
  <2> QED  BY <1>4, <2>1 DEF Result
<1>7. pc = 11 => State' # "WAIT"
  BY <1>5 DEF EdgeFacts
<1>8. TypeOK' /\ request.msg' \in Block /\ previous.msg' \in Block
  BY <1>1, <1>2, <1>4, <1>5, BoundsAssumption DEF TypeOK, Enter, Return, EdgeFacts
<1>9. StartInv'
  <2>1. pc' = 11 => State' = "WAIT"
    BY <1>1, <1>5 DEF EdgeFacts
  <2>2. State' # "WAIT" => pc' \notin 1 .. 8
    BY <1>1, <1>2, <1>5 DEF StartInv, EdgeFacts
  <2>3. REG'[14] = IF pc' = 11 THEN One ELSE Zero
    BY <1>1, <1>4
  <2> QED  BY <1>1, <2>1, <2>2, <2>3 DEF StartInv, StartWrite
<1>10. FlagInv' /\ LateInv'
  <2>1. FlagInv'
    BY <1>1, <1>2, <1>4, <1>5, <1>7 DEF FlagInv, StartWrite, Poll, EdgeFacts
  <2>2. LateInv'
    BY <1>1, <1>2, <1>5 DEF LateInv, FlagInv, StartWrite, Poll, EdgeFacts
  <2> QED  BY <2>1, <2>2
<1>11. ResetInv' /\ CallsInv'
  BY <1>1, <1>2 DEF ResetInv, CallsInv, Enter
<1>12. RequestInv'
  <2> SUFFICES ASSUME run_mode = 0 PROVE RequestInv'
    BY <1>1 DEF RequestInv
  <2>1. request' \in Requests
    BY <1>1, <1>2 DEF RequestInv, Enter
  <2>2. Program' = Program
    BY <1>1 DEF Program
  <2>3. \A i \in 1 .. 8 : i < pc => REG[i - 1] = Program[i].data
    BY <1>1, <1>2 DEF RequestInv, Enter, Loaded
  <2>4. \A i \in 1 .. 8 : i < pc + 1 => REG'[i - 1] = Program[i].data
    <3> SUFFICES ASSUME NEW i \in 1 .. 8, i < pc + 1
                 PROVE  REG'[i - 1] = Program[i].data
      OBVIOUS
    <3>1. CASE i = pc
      BY <1>4, <3>1
    <3>2. CASE i < pc
      <4>1. i - 1 \in 0 .. 7 /\ i - 1 # pc - 1
        BY <1>1, <3>2
      <4>2. REG'[i - 1] = REG[i - 1]
        BY <1>1, <1>4, <4>1
      <4> QED  BY <2>3, <3>2, <4>2
    <3> QED  BY <1>1, <3>1, <3>2
  <2>5. Loaded(pc)'
    BY <1>1, <2>2, <2>4 DEF Loaded
  <2>6. State' # "WAIT" => pc = 11 /\ Loaded(9)'
    <3>1. State' # "WAIT" => pc = 11
      BY <1>1, <1>2, <1>5 DEF RequestInv, StartWrite, EdgeFacts
    <3>2. pc = 11 => Loaded(9)'
      BY <2>2, <2>4 DEF Loaded
    <3> QED  BY <3>1, <3>2
  <2> QED  BY <1>1, <2>1, <2>5, <2>6 DEF RequestInv, Enter, StartWrite
<1>13. ResultInv'
  <2> SUFFICES ASSUME run_mode = 0 PROVE ResultInv'
    BY <1>1 DEF ResultInv
  <2>1. /\ calls' = calls /\ request' = request /\ previous' = previous
        /\ Result' = Result /\ REG'[15] = REG[15] /\ pc' = pc + 1
    BY <1>1, <1>4, <1>6
  <2>2. State # "WAIT" => pc = 11
    BY <1>1, <1>2 DEF RequestInv, StartWrite
  <2>3. CASE pc = 11
    <3>1. State' # "WAIT" /\ (State = "DONE" => State' = "DONE")
      BY <1>5, <1>7, <2>3 DEF EdgeFacts
    <3>2. IF State = "WAIT" THEN lateBefore' = late ELSE lateBefore' = lateBefore
      BY <1>5, <2>3 DEF EdgeFacts
    <3> QED  BY <1>2, <2>1, <2>3, <3>1, <3>2 DEF ResultInv, Started, StartWrite, Poll
  <2>4. CASE pc # 11
    <3>1. State = "WAIT" /\ State' = "WAIT" /\ late' = late /\ pc \in 1 .. 10
      BY <1>1, <1>5, <2>2, <2>4 DEF EdgeFacts
    <3> QED  BY <1>2, <2>1, <2>4, <3>1 DEF ResultInv, Started, StartWrite
  <2> QED  BY <2>3, <2>4
<1>14. ReadInv'
  BY <1>1 DEF ReadInv, Poll
<1> QED  BY <1>5, <1>8, <1>9, <1>10, <1>11, <1>12, <1>13, <1>14 DEF IInv, EdgeFacts

\* A reset takes the core to WAIT; only its second edge is sure to clear the counters.
LEMMA ResetStep == ASSUME IInv, Reset PROVE IInv'
<1>1. /\ resetting > 0 \/ resets < MaxResets
      /\ resetting' = IF resetting = 0 THEN 1 ELSE 2
      /\ resets' = IF resetting = 0 THEN resets + 1 ELSE resets
      /\ REG' = [a \in 0 .. 15 |-> Zero] /\ CoreEdge(AES_START, KEY, MSG_ENC, TRUE)
      /\ elapsed' = 0 /\ held' = 0 /\ late' = FALSE /\ lateBefore' = FALSE
      /\ run_mode' \in RunModes /\ pc' = 0 /\ calls' = 0 /\ gap' = 0
      /\ msg_dec' = ZeroBlock /\ request'.key = ZeroBlock /\ request'.msg_enc = ZeroBlock
      /\ request'.msg = ZeroBlock /\ previous'.msg = ZeroBlock
  BY DEF Reset, ResetEdge, Enter, NoRequest
<1>2. CoreTypeOK'
  BY <1>1, Facts, CoreTypeStep
<1>3. State' = "WAIT"
  BY <1>1 DEF CoreEdge
<1>4. CountInv' /\ CountersRest'
  <2>1. ASSUME resetting' \in {0, 2}
        PROVE  count9' = 0 /\ countkey' = 0
    <3>1. resetting # 0
      BY <1>1, <2>1
    <3>2. State = "WAIT"
      BY <3>1 DEF IInv, ResetInv
    <3> QED  BY <1>1, <3>2 DEF CoreEdge, Counted, countEnable9, countEnablekey
  <2> QED  BY <1>1, <1>3, <2>1 DEF CountInv, CountersRest
<1>5. REG' \in [0 .. 15 -> Col] /\ REG'[14] = Zero /\ REG'[15] = Zero
  BY <1>1, CoreAssumption
<1>6. TypeOK' /\ request.msg' \in Block /\ previous.msg' \in Block
  <2>1. resetting' \in 0 .. 2 /\ resets' \in 0 .. MaxResets
    BY <1>1, Facts
  <2>2. elapsed' \in 0 .. Latency + 1 /\ held' \in 0 .. 10
    BY <1>1 DEF Latency
  <2>3. calls' \in 0 .. MaxCalls /\ gap' \in 0 .. MaxGap /\ pc' \in 0 .. 17
    BY <1>1, BoundsAssumption
  <2>4. late' \in BOOLEAN /\ lateBefore' \in BOOLEAN
    BY <1>1
  <2>5. /\ request'.key \in Block /\ request'.msg_enc \in Block /\ msg_dec' \in Block
        /\ request'.msg \in Block /\ previous'.msg \in Block
    BY <1>1, ZeroBlockType
  <2> QED  BY <1>1, <1>2, <1>5, <2>1, <2>2, <2>3, <2>4, <2>5 DEF TypeOK, Enter, Return
<1>7. Working(KEY, MSG_ENC)'
  BY <1>3 DEF Working
<1>8. ResetInv' /\ StartInv' /\ CallsInv'
  BY <1>1, <1>3, <1>5 DEF ResetInv, StartInv, CallsInv, Enter, StartWrite
<1>9. FlagInv' /\ LateInv'
  BY <1>1, <1>3, <1>5 DEF FlagInv, LateInv, Poll
<1>10. RequestInv' /\ ResultInv' /\ ReadInv'
  BY <1>1, <1>3, <1>5 DEF RequestInv, ResultInv, ReadInv, Enter, Poll
<1> QED  BY <1>4, <1>6, <1>7, <1>8, <1>9, <1>10 DEF IInv

LEMMA StutterStep == ASSUME IInv, UNCHANGED vars PROVE IInv'
<1>1. /\ State' = State /\ count9' = count9 /\ countkey' = countkey /\ Hold' = Hold
      /\ IMC_reg' = IMC_reg /\ rom' = rom /\ REG' = REG /\ run_mode' = run_mode /\ pc' = pc
      /\ request' = request /\ msg_dec' = msg_dec /\ calls' = calls
      /\ previous' = previous /\ elapsed' = elapsed /\ gap' = gap
      /\ resetting' = resetting /\ resets' = resets
      /\ held' = held /\ late' = late /\ lateBefore' = lateBefore
  BY DEF vars, busvars, corevars
<1>2. TypeOK' /\ previous.msg' \in Block /\ request.msg' \in Block
  BY <1>1 DEF IInv, TypeOK, CoreTypeOK
<1>3. Working(KEY, MSG_ENC)' = Working(KEY, MSG_ENC)
  BY <1>1 DEF Working, InExpansion, InFirstKey, InISRLoop, InISBLoop, InARKLoop, InIMCLoop,
              InPauseLoop, InPause, InISR, InISB, InARK2, InDone, InLast, RoundEdge, Done,
              Keyed, Settled, KEY, MSG_ENC
<1>4. ResetInv' /\ StartInv' /\ LateInv' /\ FlagInv' /\ CallsInv' /\ CountInv' /\ CountersRest'
  BY <1>1 DEF IInv, ResetInv, StartInv, LateInv, FlagInv, CallsInv, CountInv, CountersRest
<1>5. RequestInv'
  BY <1>1 DEF IInv, RequestInv, Loaded, Program
<1>6. ResultInv' /\ ReadInv'
  <2>1. Result' = Result /\ (Started' <=> Started)
    BY <1>1 DEF Result, Started
  <2>2. ResultInv'
    BY <1>1, <2>1 DEF IInv, ResultInv
  <2>3. \A j \in 0 .. 4 : Mixed(j)' <=> Mixed(j)
    BY <1>1 DEF Mixed
  <2> QED  BY <1>1, <2>2, <2>3 DEF IInv, ReadInv
<1>7. (~late => Working(KEY, MSG_ENC))'
  <2>1. ~late => Working(KEY, MSG_ENC)
    BY DEF IInv
  <2> QED  BY <1>1, <1>3, <2>1
<1> QED  BY <1>2, <1>4, <1>5, <1>6, <1>7 DEF IInv

LEMMA Inductive == IInv /\ [Next]_vars => IInv'
BY IdleStep, PollStep, ReadStep, ReturnStep, EnterStep, WriteStep, ResetStep, StutterStep
DEF Next

\* The inductive invariant holds in every reachable state: what the core has computed so
\* far, how far a start held into DONE has moved its counter, and where the program of
\* main.c stands relative to it.  There may be any number of edges between two accesses.
THEOREM Invariance == Spec => []IInv
BY InitHolds, Inductive, PTL DEF Spec

----
(* The theorems.                                                                *)

\* Types: of the controller, of its counters and registers, and of the driver; the
\* counters never leave their range, not even when a reset finds them counting.
THEOREM TypeCorrect == Spec => []TypeOK
<1>1. IInv => TypeOK
  BY DEF IInv
<1> QED  BY <1>1, Invariance, PTL

\* Whenever controller.sv raises AES_DONE the state register holds the inverse cipher of
\* the message under the key in the registers, whatever the byte transformations are,
\* unless the start of the decryption before was held into DONE.
THEOREM DoneIsDecrypted == Spec => []DoneHoldsPlaintext
<1>1. IInv => DoneHoldsPlaintext
  BY DEF IInv, Working, InDone, DoneHoldsPlaintext, AES_DONE
<1> QED  BY <1>1, Invariance, PTL

\* In WAIT the key counter of counters.sv is at its start, and the round counter as many
\* steps past its own as the last decryption found start still high in DONE: that alone
\* moves it, a reset at any edge does not.
THEOREM RestingCounters == Spec => []CountersRest
<1>1. IInv => CountersRest
  BY DEF IInv
<1> QED  BY <1>1, Invariance, PTL

\* The first decrypt() of main.c after a reset returns the plaintext of its request.
THEOREM FirstCallCorrect == Spec => []FirstCallDecrypts
<1>1. IInv => FirstCallDecrypts
  <2> SUFFICES ASSUME IInv, pc = 17, calls = 0, run_mode = 0
               PROVE  msg_dec = request.msg
    BY DEF FirstCallDecrypts, Return
  <2>1. Mixed(4)
    BY DEF IInv, ReadInv, Poll
  <2>2. \A i \in 1 .. 4 : msg_dec[i] = request.msg[i]
    BY <2>1 DEF Mixed, Return
  <2> QED  BY <2>2, Facts DEF Block
<1> QED  BY <1>1, Invariance, PTL

\* A later decrypt() returns words of its request before words of the one before, unless
\* the start of one of the two decryptions came after one that was held into DONE.
THEOREM OneRequestLate == Spec => []AtMostOneRequestLate
<1>1. IInv => AtMostOneRequestLate
  <2> SUFFICES ASSUME IInv, pc = 17, calls > 0, run_mode = 0, ~late, ~lateBefore
               PROVE  \E j \in 0 .. 4 : msg_dec = [i \in 1 .. 4 |->
                        IF i <= j THEN request.msg[i] ELSE previous.msg[i]]
    BY DEF AtMostOneRequestLate, Return
  <2>1. PICK j \in 0 .. 4 : Mixed(j)
    BY DEF IInv, ReadInv, Poll
  <2>2. \A i \in 1 .. 4 : msg_dec[i] = IF i <= j THEN request.msg[i] ELSE previous.msg[i]
    BY <2>1 DEF Mixed, Return
  <2>3. msg_dec = [i \in 1 .. 4 |-> msg_dec[i]]
    BY Facts DEF Block
  <2>4. msg_dec = [i \in 1 .. 4 |-> IF i <= j THEN request.msg[i] ELSE previous.msg[i]]
    BY <2>2, <2>3
  <2> QED  BY <2>4
<1> QED  BY <1>1, Invariance, PTL

\* While decrypt() finds the done register clear the core is at work, for 101 edges at
\* most, or is done and about to set it.
THEOREM PollAnswered == Spec => []PollIsAnswered
<1>1. IInv => PollIsAnswered
  <2> SUFFICES ASSUME IInv, pc = 12, REG[15] = Zero
               PROVE  State = "DONE" \/ (State # "WAIT" /\ elapsed <= 101)
    BY Facts DEF PollIsAnswered, Poll
  <2>1. State # "WAIT"
    BY Facts DEF IInv, FlagInv, Poll
  <2>2. State \in States /\ Working(KEY, MSG_ENC) /\ countkey \in 0 .. 24
    BY Facts DEF IInv, CoreTypeOK, FlagInv, LateInv
  <2>3. State # "DONE" => elapsed <= 101
    BY <2>1, <2>2, StatesAre
    DEF Working, InExpansion, InFirstKey, InISRLoop, InISBLoop, InARKLoop, InIMCLoop,
        InPauseLoop, InPause, InISR, InISB, InARK2, InLast, RoundEdge
  <2> QED  BY <2>1, <2>3
<1> QED  BY <1>1, Invariance, PTL
====
