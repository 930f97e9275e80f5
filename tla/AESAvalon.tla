---- MODULE AESAvalon ----
(* The Avalon interface of the decryption core (avalon_aes_interface.sv): the  *)
(* register file through which software hands over key and message, starts the *)
(* core and collects the result.  One step is one rising edge of CLK.          *)
EXTENDS AESCore

CONSTANT Bit0(_)        \* the least significant bit of a word

VARIABLE REG

busvars == <<corevars, REG>>

KEY == <<REG[0], REG[1], REG[2], REG[3]>>
MSG_ENC == <<REG[4], REG[5], REG[6], REG[7]>>
AES_START == Bit0(REG[14])

\* REG after a done edge: the whole block at once, and the done flag.
MutCaptured(one) == [a \in 0 .. 15 |-> IF a \in 8 .. 10 THEN Hold[a - 7]
                                       ELSE IF a = 15 THEN one ELSE REG[a]]
Captured(one) == [a \in 0 .. 15 |-> IF a \in 8 .. 11 THEN Hold[a - 7]
                                    ELSE IF a = 15 THEN one ELSE REG[a]]

\* A bus write takes the edge: the result of that edge, if any, is not stored.
Write(a, data) ==
  /\ REG' = [REG EXCEPT ![a] = data]
  /\ CoreEdge(AES_START, KEY, MSG_ENC, FALSE)

\* An edge without a bus write; a read changes nothing.
NoWrite(one) ==
  /\ REG' = IF AES_DONE THEN Captured(one) ELSE REG
  /\ CoreEdge(AES_START, KEY, MSG_ENC, FALSE)

ResetEdge ==
  /\ REG' = [a \in 0 .. 15 |-> Zero]
  /\ CoreEdge(AES_START, KEY, MSG_ENC, TRUE)

BusInit == REG = [a \in 0 .. 15 |-> Zero] /\ CoreInit(ZeroBlock)
====
