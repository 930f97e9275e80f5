---- MODULE AESCore ----
(* The AES decryption core of Lab9, clock edge by clock edge: the state        *)
(* machine and counters of controller.sv and counters.sv, the registers and    *)
(* the multiplexer of AES.sv, and the key schedule whose S-boxes are ROMs read *)
(* on the falling edge.  A block is a sequence of four 32-bit words, bits   *)
(* 127:96 first.  What the byte transformations compute is a parameter here.   *)
EXTENDS Integers, Sequences

CONSTANTS
  Col,                \* 32-bit words: a column of the AES state, a bus word
  Zero,               \* the word 0
  XorWord(_, _),      \* exclusive or of two words
  InvShiftRows(_),    \* of a block
  InvSubBytes(_),     \* of a block
  InvMixColumns(_),   \* of a word
  SubWordRcon(_, _)   \* of round 1 .. 10 and a word: rotated, substituted by the
                      \* S-box ROMs, the round constant added

Block == [1 .. 4 -> Col]
ZeroBlock == <<Zero, Zero, Zero, Zero>>

ASSUME CoreAssumption ==
  /\ Zero \in Col
  /\ \A v, w \in Col : XorWord(v, w) \in Col
  /\ \A w \in Col : InvMixColumns(w) \in Col
  /\ \A i \in 1 .. 10 : \A w \in Col : SubWordRcon(i, w) \in Col
  /\ \A b \in Block : InvShiftRows(b) \in Block /\ InvSubBytes(b) \in Block

VARIABLES
  State, count9, countkey,       \* controller
  Hold,                          \* state_reg
  IMC_reg,                       \* the four columns of the last InvMixColumns
  rom                            \* rom[i]: the key whose last word the ROMs of
                                 \* key expansion step i sampled

corevars == <<State, count9, countkey, Hold, IMC_reg, rom>>

IMCStates == <<"IMC_LOOP0", "IMC_LOOP1", "IMC_LOOP2", "IMC_LOOP3">>
States == {"WAIT", "DONE", "KeyExpansion", "ARK1", "ARK2", "ARK_LOOP", "ISR_LOOP",
           "ISB_LOOP", "ISR", "ISB", "PAUSE", "PAUSE_LOOP"}
          \cup {IMCStates[i] : i \in 1 .. 4}

----
\* controller.sv: what each state raises.
AES_DONE == State = "DONE"
checkFirst == State = "KeyExpansion"
Load_Reg == State \in {"ARK1", "ARK2", "ARK_LOOP", "ISR_LOOP", "ISB_LOOP", "ISR",
                       "ISB", "PAUSE", "PAUSE_LOOP"}
MutcountEnable9 == State \in {"ARK1", "IMC_LOOP3"}     \* mutant: DONE forgotten
countEnable9 == State \in {"DONE", "ARK1", "IMC_LOOP3"}
countEnablekey == State = "KeyExpansion"

MutLastExpansion == 0                                  \* mutant: no wait
LastExpansion == 24          \* 5'b11000: the last edge spent expanding the key
MutLastRound == 10                                     \* mutant: one round more
LastRound == 9               \* 4'b1001

Next_state(start) ==
  \/ State = "WAIT"         /\ State' = IF start THEN "KeyExpansion" ELSE "WAIT"
  \/ State = "DONE"         /\ State' = IF start THEN "DONE" ELSE "WAIT"
  \/ State = "KeyExpansion" /\ State' = IF countkey = LastExpansion THEN "ARK1"
                                        ELSE "KeyExpansion"
  \/ State \in {"ARK1", "PAUSE_LOOP"} /\ State' = "ISR_LOOP"
  \/ State = "ISR_LOOP"     /\ State' = "ISB_LOOP"
  \/ State = "ISB_LOOP"     /\ State' = "ARK_LOOP"
  \/ State = "ARK_LOOP"     /\ State' = "IMC_LOOP0"
  \/ \E i \in 1 .. 3 : State = IMCStates[i] /\ State' = IMCStates[i + 1]
  \/ State = "IMC_LOOP3"    /\ State' = IF count9 = LastRound THEN "PAUSE"
                                        ELSE "PAUSE_LOOP"
  \/ State = "PAUSE"        /\ State' = "ISR"
  \/ State = "ISR"          /\ State' = "ISB"
  \/ State = "ISB"          /\ State' = "ARK2"
  \/ State = "ARK2"         /\ State' = "DONE"

\* counters.sv: an enabled counter counts even while RESET is high, for the
\* second of two nonblocking assignments wins.
MutCounted(enabled, reset, count, last) ==             \* mutant: no wrap
  IF enabled THEN count + 1 ELSE IF reset THEN 0 ELSE count
Counted(enabled, reset, count, last) ==
  IF enabled THEN IF count = last THEN 0 ELSE count + 1
  ELSE IF reset THEN 0 ELSE count

----
\* KeyExpansionOne of KeyExpansion.sv: the key of round i from the one before it,
\* old, when the ROMs last sampled the last word of sample.
Expand(i, old, sample) ==
  LET w1 == XorWord(old[1], SubWordRcon(i, sample[4]))
      w2 == XorWord(old[2], w1)
      w3 == XorWord(old[3], w2)
  IN  <<w1, w2, w3, XorWord(old[4], w3)>>

\* KeyExpansion.sv: the wires of the key schedule when the ROMs hold sample.
\* Keys(k, s)[1] is the cipher key, Keys(k, s)[11] is key9.
Keys(key, sample) ==
  LET k[i \in 1 .. 11] ==
        IF i = 1 THEN key ELSE Expand(i - 1, k[i - 1], sample[i - 1])
  IN  k

\* What the ROMs sample at the falling edge before this rising edge.
Sampled(key) == SubSeq(Keys(key, rom), 1, 10)

MutRoundKey(keys) == keys[count9 + 1]                  \* mutant: encryption order
RoundKey(keys) == IF count9 \in 0 .. 10 THEN keys[11 - count9] ELSE ZeroBlock

\* InvAddRoundKey.sv: exclusive or of two blocks.
Xor(a, b) == <<XorWord(a[1], b[1]), XorWord(a[2], b[2]),
               XorWord(a[3], b[3]), XorWord(a[4], b[4])>>

\* The multiplexer in front of state_reg.
State_New(key) ==
  IF State \in {"ISR_LOOP", "ISR"} THEN InvShiftRows(Hold)
  ELSE IF State \in {"ISB_LOOP", "ISB"} THEN InvSubBytes(Hold)
  ELSE IF State \in {"ARK1", "ARK_LOOP", "ARK2"}
       THEN Xor(Hold, RoundKey(Keys(key, Sampled(key))))
  ELSE IMC_reg

\* A rising edge of CLK, with the wires AES_START, AES_KEY, AES_MSG_ENC and RESET.
CoreEdge(start, key, msg, reset) ==
  /\ IF reset THEN State' = "WAIT" ELSE Next_state(start)
  /\ count9' = Counted(countEnable9, reset, count9, 10)
  /\ countkey' = Counted(countEnablekey, reset, countkey, 24)
  /\ Hold' = IF reset THEN ZeroBlock
             ELSE IF Load_Reg THEN State_New(key)
             ELSE IF checkFirst THEN msg
             ELSE Hold
  /\ IMC_reg' = IF reset THEN ZeroBlock
                ELSE [w \in 1 .. 4 |-> IF State = IMCStates[5 - w]
                                       THEN InvMixColumns(Hold[w]) ELSE IMC_reg[w]]
  /\ rom' = Sampled(key)

----
\* What the core is to compute: the key schedule with its ROMs settled, and the
\* inverse cipher, round by round.
RoundKeys(key) ==
  LET rk[i \in 0 .. 10] ==
        IF i = 0 THEN key ELSE LET old == rk[i - 1] IN Expand(i, old, old)
  IN  rk

MixColumns(block) == <<InvMixColumns(block[1]), InvMixColumns(block[2]),
                       InvMixColumns(block[3]), InvMixColumns(block[4])>>
Unrolled(block, key) == Xor(InvSubBytes(InvShiftRows(block)), key)

\* Rounds(key, msg)[r]: the block after r of the nine full rounds.
Rounds(key, msg) ==
  LET rk == RoundKeys(key)
      after[r \in 0 .. 9] ==
        IF r = 0 THEN Xor(msg, rk[10])
        ELSE MixColumns(Unrolled(after[r - 1], rk[10 - r]))
  IN  after
Decrypt(key, msg) == Unrolled(Rounds(key, msg)[9], RoundKeys(key)[0])

\* After a reset long enough for the ROMs to settle on the key.
CoreInit(key) ==
  /\ State = "WAIT" /\ count9 = 0 /\ countkey = 0
  /\ Hold = ZeroBlock /\ IMC_reg = ZeroBlock
  /\ rom = [i \in 1 .. 10 |-> RoundKeys(key)[i - 1]]

CoreTypeOK ==
  /\ State \in States /\ count9 \in 0 .. 10 /\ countkey \in 0 .. 24
  /\ Hold \in Block /\ IMC_reg \in Block /\ rom \in [1 .. 10 -> Block]
====
