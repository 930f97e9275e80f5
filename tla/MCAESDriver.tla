---- MODULE MCAESDriver ----
(* The decryption core and its driver with small words: the integers modulo 17, *)
(* over which the transformations are permutations chosen so that leaving one   *)
(* out, doing two in the other order or taking another round's key is seen.     *)
EXTENDS AESDriver

MCCol == 0 .. 16
MCXorWord(v, w) == (v + w) % 17
MCInvShiftRows(b) == <<(b[2] + 3 * b[1]) % 17, b[3], b[4], b[1]>>
Cube(x) == (x * x * x + 5) % 17
MCInvSubBytes(b) == <<Cube(b[1]), Cube(b[2]), Cube(b[3]), Cube(b[4])>>
MCInvMixColumns(w) == (3 * w + 1) % 17
MCSubWordRcon(i, w) == (2 * w + i) % 17
MCBit0(w) == w % 2 = 1

MCRequest(k, m) == [key |-> k, msg_enc |-> m, msg |-> Decrypt(k, m)]
MCRequests == {MCRequest(<<3, 11, 0, 7>>, <<1, 2, 3, 4>>),
               MCRequest(<<16, 5, 5, 9>>, <<12, 0, 8, 8>>)}
====
