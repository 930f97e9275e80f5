---- MODULE SLC3WordProofs ----
(* What the word operations of SLC3Words return: results stay within 16 bits,   *)
(* fields within their width, at most one condition code is set, and AND and NOT *)
(* act on each bit of a word.                                                   *)
EXTENDS SLC3Words, TLAPS

\* A remainder is below its modulus.
LEMMA ModRange ==
  ASSUME NEW a \in Int, NEW m \in Nat \ {0}
  PROVE  a % m \in 0 .. m - 1
  OBVIOUS

\* A number below the modulus is its own remainder.
LEMMA ModSmall ==
  ASSUME NEW m \in Nat \ {0}, NEW a \in 0 .. m - 1
  PROVE  a % m = a
  OBVIOUS

\* One subtraction of the modulus is all a 16-bit carry costs.
LEMMA ModOnce ==
  ASSUME NEW m \in Nat \ {0}, NEW a \in 0 .. m - 1
  PROVE  (a + m) % m = a
  OBVIOUS

\* The word size as the lemmas above use it.
LEMMA WordModNat == WordMod \in Nat \ {0} /\ Word = 0 .. WordMod - 1
  BY DEF Word, WordMod

LEMMA WordModIs == WordMod = 65536
  BY DEF WordMod

\* A word is a number below 2^16, and each such number is a word.  The two facts are
\* split: with both definitions expanded in one leaf the prover spells 0 .. 65535 out.
LEMMA WordBounds ==
  ASSUME WordMod \in Int
  PROVE  \A v : v \in Word <=> v \in Int /\ v >= 0 /\ v <= WordMod - 1
  BY DEF Word

LEMMA WordIs ==
  ASSUME NEW v \in Word
  PROVE  v \in Int /\ v >= 0 /\ v < 65536
  BY WordModIs, WordBounds

LEMMA IsWord ==
  ASSUME NEW v \in Int, v >= 0, v < 65536
  PROVE  v \in Word
  BY WordModIs, WordBounds

\* The adder wraps; negation complements.
LEMMA AddTyped ==
  ASSUME NEW a \in Word, NEW b \in Word
  PROVE  Add(a, b) \in Word
  <1>1. a + b \in Int
    BY WordModNat
  <1> QED
    BY <1>1, WordModNat, ModRange DEF Add

\* The complement of a word is a word.
LEMMA NotTyped ==
  ASSUME NEW a \in Word
  PROVE  Not(a) \in Word
  <1>1. \A m \in Nat \ {0} : \A x \in 0 .. m - 1 : m - 1 - x \in 0 .. m - 1
    OBVIOUS
  <1> QED
    BY <1>1, WordModNat DEF Not

\* The adder does not mind the order of its operands.
LEMMA AddCommutes ==
  ASSUME NEW a \in Word, NEW b \in Word
  PROVE  Add(a, b) = Add(b, a)
  <1>1. a + b = b + a
    BY WordModNat
  <1> QED
    BY <1>1 DEF Add

\* Adding zero changes nothing: JMP passes BaseR through the address adder.
LEMMA AddZero ==
  ASSUME NEW a \in Word
  PROVE  Add(0, a) = a
  <1>1. 0 + a = a
    BY WordModNat
  <1> QED
    BY <1>1, WordModNat, ModSmall DEF Add

\* Decrementing undoes the increment of S_18, at the top of memory too.
LEMMA FetchedBack ==
  ASSUME NEW w \in Word
  PROVE  Add(Add(w, 1), WordMod - 1) = w
  <1> DEFINE m == WordMod
  <1>1. m \in Nat \ {0} /\ w \in 0 .. m - 1 /\ 1 \in 0 .. m
    BY WordModNat
  <1>2. CASE w = m - 1
    <2>1. 0 \in 0 .. m - 1 /\ w + 1 = 0 + m
      BY <1>1, <1>2
    <2>2. (w + 1) % m = 0
      BY <1>1, <2>1, ModOnce
    <2>3. 0 + (m - 1) = w
      BY <1>1, <1>2
    <2>4. (0 + (m - 1)) % m = w
      BY <1>1, <2>3, ModSmall
    <2> QED
      BY <2>2, <2>4 DEF Add
  <1>3. CASE w # m - 1
    <2>1. w + 1 \in 0 .. m - 1
      BY <1>1, <1>3
    <2>2. (w + 1) % m = w + 1
      BY <1>1, <2>1, ModSmall
    <2>3. (w + 1) + (m - 1) = w + m
      BY <1>1
    <2>4. (w + m) % m = w
      BY <1>1, ModOnce
    <2> QED
      BY <2>2, <2>3, <2>4 DEF Add
  <1> QED
    BY <1>2, <1>3

----
\* Sign extension.
LEMMA SignExtendTyped ==
  ASSUME NEW w \in Word, NEW half \in Nat \ {0}, 2 * half <= WordMod
  PROVE  SignExtend(w, half) \in Word
  <1> DEFINE low == w % (2 * half)
  <1>1. low \in 0 .. 2 * half - 1
    <2>1. w \in Int /\ 2 * half \in Nat \ {0}
      BY WordModNat
    <2> QED
      BY <2>1, ModRange
  <1>2. \A m \in Nat \ {0} : \A h \in Nat \ {0} : \A x \in 0 .. 2 * h - 1 :
          2 * h <= m => (IF x >= h THEN x + m - 2 * h ELSE x) \in 0 .. m - 1
    OBVIOUS
  <1>3. SignExtend(w, half) = IF low >= half THEN low + WordMod - 2 * half ELSE low
    BY DEF SignExtend
  <1> HIDE DEF low
  <1> QED
    BY <1>1, <1>2, <1>3, WordModNat

\* The four sign extenders of the datapath yield words.
LEMMA SextTyped ==
  ASSUME NEW w \in Word
  PROVE  Sext5(w) \in Word /\ Sext6(w) \in Word /\ Sext9(w) \in Word /\ Sext11(w) \in Word
  <1>1. 2 * 16 <= WordMod /\ 2 * 32 <= WordMod /\ 2 * 256 <= WordMod /\ 2 * 1024 <= WordMod
    BY DEF WordMod
  <1> QED
    BY <1>1, SignExtendTyped DEF Sext5, Sext6, Sext9, Sext11

----
\* The fields of an instruction.
LEMMA FieldsTyped ==
  ASSUME NEW w \in Word
  PROVE  /\ IR_11_9(w) \in RegNum /\ IR_8_6(w) \in RegNum /\ SR2(w) \in RegNum
         /\ Opcode(w) \in 0 .. 15
  <1>1. w \in Nat
    BY WordModNat
  <1>2. (w \div 512) % 8 \in 0 .. 7
    BY <1>1
  <1>3. (w \div 64) % 8 \in 0 .. 7
    BY <1>1
  <1>4. w % 8 \in 0 .. 7
    BY <1>1
  <1>5. w \div 4096 \in 0 .. 15
    BY WordIs
  <1> QED
    BY <1>2, <1>3, <1>4, <1>5 DEF IR_11_9, IR_8_6, SR2, Opcode, RegNum

----
\* Bitwise and: a sum of distinct powers of two.
Below(x, q) == x \in Int /\ 0 <= x /\ x < q

\* A sum of distinct powers of two stays below the next power.
LEMMA AddBit ==
  ASSUME NEW q \in Nat, NEW x, Below(x, q), NEW y \in {0, q}
  PROVE  Below(x + y, 2 * q)
  BY DEF Below

\* A natural below 2^16 is a word.
LEMMA BelowInWord ==
  ASSUME NEW x, Below(x, WordMod)
  PROVE  x \in Word
  <1>1. \A m \in Nat : Below(x, m) => x \in 0 .. m - 1
    BY DEF Below
  <1> QED
    BY <1>1, WordModNat

\* Sixteen distinct powers of two, each taken or not, add to a word.
LEMMA AndTyped ==
  ASSUME NEW a \in Word, NEW b \in Word
  PROVE  And(a, b) \in Word
  <1> DEFINE x0 == AndBit(a, b, 1)
             x1 == AndBit(a, b, 2)
             x2 == AndBit(a, b, 4)
             x3 == AndBit(a, b, 8)
             x4 == AndBit(a, b, 16)
             x5 == AndBit(a, b, 32)
             x6 == AndBit(a, b, 64)
             x7 == AndBit(a, b, 128)
             x8 == AndBit(a, b, 256)
             x9 == AndBit(a, b, 512)
             x10 == AndBit(a, b, 1024)
             x11 == AndBit(a, b, 2048)
             x12 == AndBit(a, b, 4096)
             x13 == AndBit(a, b, 8192)
             x14 == AndBit(a, b, 16384)
             x15 == AndBit(a, b, 32768)
  <1>a. /\ x0 \in {0, 1} /\ x1 \in {0, 2} /\ x2 \in {0, 4} /\ x3 \in {0, 8}
        /\ x4 \in {0, 16} /\ x5 \in {0, 32} /\ x6 \in {0, 64} /\ x7 \in {0, 128}
        /\ x8 \in {0, 256} /\ x9 \in {0, 512} /\ x10 \in {0, 1024} /\ x11 \in {0, 2048}
        /\ x12 \in {0, 4096} /\ x13 \in {0, 8192} /\ x14 \in {0, 16384} /\ x15 \in {0, 32768}
    BY DEF AndBit
  <1>b. And(a, b) = x0 + x1 + x2 + x3 + x4 + x5 + x6 + x7 + x8 + x9 + x10 + x11
                    + x12 + x13 + x14 + x15
    BY DEF And
  <1> HIDE DEF x0, x1, x2, x3, x4, x5, x6, x7, x8, x9, x10, x11, x12, x13, x14, x15
  <1>1. Below(x0, 2)
    BY <1>a DEF Below
  <1>2. Below(x0 + x1, 4)
    BY <1>1, <1>a, AddBit, 2 \in Nat, 2 * 2 = 4
  <1>3. Below(x0 + x1 + x2, 8)
    BY <1>2, <1>a, AddBit, 4 \in Nat, 2 * 4 = 8
  <1>4. Below(x0 + x1 + x2 + x3, 16)
    BY <1>3, <1>a, AddBit, 8 \in Nat, 2 * 8 = 16
  <1>5. Below(x0 + x1 + x2 + x3 + x4, 32)
    BY <1>4, <1>a, AddBit, 16 \in Nat, 2 * 16 = 32
  <1>6. Below(x0 + x1 + x2 + x3 + x4 + x5, 64)
    BY <1>5, <1>a, AddBit, 32 \in Nat, 2 * 32 = 64
  <1>7. Below(x0 + x1 + x2 + x3 + x4 + x5 + x6, 128)
    BY <1>6, <1>a, AddBit, 64 \in Nat, 2 * 64 = 128
  <1>8. Below(x0 + x1 + x2 + x3 + x4 + x5 + x6 + x7, 256)
    BY <1>7, <1>a, AddBit, 128 \in Nat, 2 * 128 = 256
  <1>9. Below(x0 + x1 + x2 + x3 + x4 + x5 + x6 + x7 + x8, 512)
    BY <1>8, <1>a, AddBit, 256 \in Nat, 2 * 256 = 512
  <1>10. Below(x0 + x1 + x2 + x3 + x4 + x5 + x6 + x7 + x8 + x9, 1024)
    BY <1>9, <1>a, AddBit, 512 \in Nat, 2 * 512 = 1024
  <1>11. Below(x0 + x1 + x2 + x3 + x4 + x5 + x6 + x7 + x8 + x9 + x10, 2048)
    BY <1>10, <1>a, AddBit, 1024 \in Nat, 2 * 1024 = 2048
  <1>12. Below(x0 + x1 + x2 + x3 + x4 + x5 + x6 + x7 + x8 + x9 + x10 + x11,
              4096)
    BY <1>11, <1>a, AddBit, 2048 \in Nat, 2 * 2048 = 4096
  <1>13. Below(x0 + x1 + x2 + x3 + x4 + x5 + x6 + x7 + x8 + x9 + x10 + x11 +
              x12, 8192)
    BY <1>12, <1>a, AddBit, 4096 \in Nat, 2 * 4096 = 8192
  <1>14. Below(x0 + x1 + x2 + x3 + x4 + x5 + x6 + x7 + x8 + x9 + x10 + x11 +
              x12 + x13, 16384)
    BY <1>13, <1>a, AddBit, 8192 \in Nat, 2 * 8192 = 16384
  <1>15. Below(x0 + x1 + x2 + x3 + x4 + x5 + x6 + x7 + x8 + x9 + x10 + x11 +
              x12 + x13 + x14, 32768)
    BY <1>14, <1>a, AddBit, 16384 \in Nat, 2 * 16384 = 32768
  <1>16. Below(x0 + x1 + x2 + x3 + x4 + x5 + x6 + x7 + x8 + x9 + x10 + x11 +
              x12 + x13 + x14 + x15, 65536)
    BY <1>15, <1>a, AddBit, 32768 \in Nat, 2 * 32768 = 65536
  <1>17. WordMod = 65536
    BY DEF WordMod
  <1> QED
    BY <1>16, <1>17, <1>b, BelowInWord

----
\* The condition codes.
LEMMA FlagsTyped ==
  ASSUME NEW w
  PROVE  FlagsOf(w) \in Flags /\ FlagsOf(w) \in {NoFlags, {"N"}, {"Z"}, {"P"}}
  BY DEF FlagsOf, Flags, NoFlags

\* With at most one code set, adding the three products in one bit is their
\* disjunction.
LEMMA OneBitSum ==
  ASSUME NEW w, NEW f \in {NoFlags, {"N"}, {"Z"}, {"P"}}
  PROVE  (((TestN(w) /\ "N" \in f) # (TestZ(w) /\ "Z" \in f)) # (TestP(w) /\ "P" \in f))
           <=> Condition(w, f)
  <1>1. TestN(w) \in BOOLEAN /\ TestZ(w) \in BOOLEAN /\ TestP(w) \in BOOLEAN
    BY DEF TestN, TestZ, TestP
  <1> QED
    BY <1>1 DEF Condition, NoFlags

----
(* Bits: what the bits of sums, complements and AND are.                        *)

\* Division rounds down.
LEMMA DivBounds ==
  ASSUME NEW p \in Nat \ {0}, NEW a \in Int
  PROVE  a \div p \in Int /\ a - p * (a \div p) \in 0 .. p - 1
  OBVIOUS

\* A quotient that is larger makes a number that is larger by p at least.
LEMMA MoreTimes ==
  ASSUME NEW p \in Nat \ {0}, NEW h \in Int, NEW q \in Int, h > q
  PROVE  p * h >= p * q + p
  <1>1. PICK d \in Nat : h = q + 1 + d
    <2>1. h - q - 1 \in Nat
      OBVIOUS
    <2> QED  BY <2>1, h = q + 1 + (h - q - 1)
  <1>2. p * h = p * q + p + p * d
    BY <1>1
  <1>3. p * d >= 0
    OBVIOUS
  <1> QED  BY <1>2, <1>3

\* There is one way to write a number as so many times p and a rest.
LEMMA DivUnique ==
  ASSUME NEW p \in Nat \ {0}, NEW h \in Int, NEW r \in 0 .. p - 1, NEW a, a = p * h + r
  PROVE  a \div p = h
  <1> DEFINE q == a \div p
  <1>1. q \in Int /\ a - p * q \in 0 .. p - 1 /\ a \in Int
    BY DivBounds
  <1> HIDE DEF q
  <1>2. h > q => p * h >= p * q + p
    BY <1>1, MoreTimes
  <1>3. q > h => p * q >= p * h + p
    BY <1>1, MoreTimes
  <1>4. p * h \in Int /\ p * q \in Int
    BY <1>1
  <1>5. q = h
    BY <1>1, <1>2, <1>3, <1>4
  <1> QED  BY <1>5 DEF q

\* Bit p of a number, p a power of two, and the powers in a word.
Bit(a, p) == (a \div p) % 2
Powers == {1, 2, 4, 8, 16, 32, 64, 128, 256, 512, 1024, 2048, 4096, 8192, 16384, 32768}

\* A bit is 0 or 1.
LEMMA BitTyped ==
  ASSUME NEW p \in Nat \ {0}, NEW a \in Int
  PROVE  Bit(a, p) \in {0, 1}
  <1>1. \A h \in Int : h % 2 \in {0, 1}
    OBVIOUS
  <1> QED  BY <1>1, DivBounds DEF Bit

\* What is left above a bit.
LEMMA PeelBit ==
  ASSUME NEW p \in Nat \ {0}, NEW a \in Int, NEW e \in {0, 1}, NEW t \in Int,
         a \div p = e + 2 * t
  PROVE  Bit(a, p) = e /\ a \div (2 * p) = t
  <1>1. Bit(a, p) = e
    BY DEF Bit
  <1> DEFINE r == a - p * (e + 2 * t)
  <1>2. r \in 0 .. p - 1
    BY DivBounds
  <1>3. a = (2 * p) * t + (p * e + r)
    <2>1. p * (e + 2 * t) = p * e + (2 * p) * t
      OBVIOUS
    <2>2. p * e \in Int /\ (2 * p) * t \in Int
      OBVIOUS
    <2> QED  BY <2>1, <2>2
  <1>4. p * e + r \in 0 .. 2 * p - 1
    <2>1. p * e = 0 \/ p * e = p
      OBVIOUS
    <2> HIDE DEF r
    <2> QED  BY <1>2, <2>1
  <1> HIDE DEF r
  <1>5. a \div (2 * p) = t
    BY <1>3, <1>4, 2 * p \in Nat \ {0}, DivUnique
  <1> QED  BY <1>1, <1>5

\* Halving peels the lowest bit off.
LEMMA HalfStep ==
  ASSUME NEW p \in Nat \ {0}, NEW a \in Int
  PROVE  a \div p = Bit(a, p) + 2 * (a \div (2 * p))
  <1> DEFINE h == a \div p
  <1>1. h \in Int
    BY DivBounds
  <1> HIDE DEF h
  <1>2. h = (h % 2) + 2 * (h \div 2) /\ h % 2 \in {0, 1} /\ h \div 2 \in Int
    BY <1>1
  <1>3. a \div (2 * p) = h \div 2
    BY <1>2, PeelBit DEF h
  <1> QED  BY <1>2, <1>3 DEF Bit, h

\* A complement has the other bits.
LEMMA BitOfComplement ==
  ASSUME NEW p \in Nat \ {0}, NEW a \in Int, NEW b, \E m \in Int : b = p * (2 * m) - 1 - a
  PROVE  Bit(b, p) = 1 - Bit(a, p)
  <1>0. PICK m \in Int : b = p * (2 * m) - 1 - a
    OBVIOUS
  <1> DEFINE h == a \div p
             r == a - p * h
             g == 2 * m - 1 - h
             s == p - 1 - r
  <1>1. h \in Int /\ r \in 0 .. p - 1
    BY DivBounds
  <1>2. b = p * g + s
    <2>1. p * (2 * m - 1 - h) = p * (2 * m) - p - p * h /\ p * h \in Int /\ p * (2 * m) \in Int
      BY <1>1
    <2> HIDE DEF h
    <2> QED  BY <1>0, <2>1
  <1>3. s \in 0 .. p - 1 /\ g \in Int
    <2> HIDE DEF h, r
    <2> QED  BY <1>1
  <1>4. g % 2 = 1 - (h % 2)
    <2> HIDE DEF h, r
    <2> QED  BY <1>1
  <1> HIDE DEF h, r, g, s
  <1>5. b \div p = g
    BY <1>2, <1>3, DivUnique
  <1> QED  BY <1>4, <1>5 DEF Bit, h

\* NOT turns each bit over.
LEMMA BitOfNot ==
  ASSUME NEW a \in Word, NEW p \in Powers
  PROVE  Bit(Not(a), p) = 1 - Bit(a, p) /\ Bit(a, p) \in {0, 1} /\ p \in Nat \ {0}
  <1>1. a \in Int /\ Not(a) = 65536 - 1 - a
    BY WordIs, WordModIs DEF Not
  <1>2. p \in Nat \ {0} /\ p * (2 * (32768 \div p)) = 65536 /\ 32768 \div p \in Int
    BY DEF Powers
  <1>3. \E m \in Int : Not(a) = p * (2 * m) - 1 - a
    BY <1>1, <1>2
  <1>4. Bit(Not(a), p) = 1 - Bit(a, p)
    <2>1. a \in Int /\ p \in Nat \ {0}
      BY <1>1, <1>2
    <2> QED  BY <2>1, <1>3, BitOfComplement
  <1>5. Bit(a, p) \in {0, 1}
    <2>1. a \in Int /\ p \in Nat \ {0}
      BY <1>1, <1>2
    <2> QED  BY <2>1, BitTyped
  <1> QED  BY <1>2, <1>4, <1>5

\* The sum of what each bit contributes.
BitSum(f) ==
  f[1] + f[2] + f[4] + f[8] + f[16] + f[32] + f[64] + f[128] + f[256] + f[512] + f[1024] +
  f[2048] + f[4096] + f[8192] + f[16384] + f[32768]

\* AND is the sum of its bits.
LEMMA AndIsSum ==
  ASSUME NEW a, NEW b
  PROVE  And(a, b) = BitSum([p \in Powers |-> AndBit(a, b, p)])
  BY DEF And, BitSum, Powers

\* Sums are added term by term.
LEMMA SumsAdd ==
  ASSUME NEW x \in [Powers -> Int], NEW y \in [Powers -> Int], NEW s \in [Powers -> Int],
         \A p \in Powers : s[p] = x[p] + y[p]
  PROVE  BitSum(s) = BitSum(x) + BitSum(y)
  <1>1. PICK x0 \in Int, y0 \in Int : x[1] = x0 /\ y[1] = y0 /\ s[1] = x0 + y0
    BY DEF Powers
  <1>2. PICK x1 \in Int, y1 \in Int : x[2] = x1 /\ y[2] = y1 /\ s[2] = x1 + y1
    BY DEF Powers
  <1>3. PICK x2 \in Int, y2 \in Int : x[4] = x2 /\ y[4] = y2 /\ s[4] = x2 + y2
    BY DEF Powers
  <1>4. PICK x3 \in Int, y3 \in Int : x[8] = x3 /\ y[8] = y3 /\ s[8] = x3 + y3
    BY DEF Powers
  <1>5. PICK x4 \in Int, y4 \in Int : x[16] = x4 /\ y[16] = y4 /\ s[16] = x4 + y4
    BY DEF Powers
  <1>6. PICK x5 \in Int, y5 \in Int : x[32] = x5 /\ y[32] = y5 /\ s[32] = x5 + y5
    BY DEF Powers
  <1>7. PICK x6 \in Int, y6 \in Int : x[64] = x6 /\ y[64] = y6 /\ s[64] = x6 + y6
    BY DEF Powers
  <1>8. PICK x7 \in Int, y7 \in Int : x[128] = x7 /\ y[128] = y7 /\ s[128] = x7 + y7
    BY DEF Powers
  <1>9. PICK x8 \in Int, y8 \in Int : x[256] = x8 /\ y[256] = y8 /\ s[256] = x8 + y8
    BY DEF Powers
  <1>10. PICK x9 \in Int, y9 \in Int : x[512] = x9 /\ y[512] = y9 /\ s[512] = x9 + y9
    BY DEF Powers
  <1>11. PICK x10 \in Int, y10 \in Int : x[1024] = x10 /\ y[1024] = y10 /\ s[1024] = x10 + y10
    BY DEF Powers
  <1>12. PICK x11 \in Int, y11 \in Int : x[2048] = x11 /\ y[2048] = y11 /\ s[2048] = x11 + y11
    BY DEF Powers
  <1>13. PICK x12 \in Int, y12 \in Int : x[4096] = x12 /\ y[4096] = y12 /\ s[4096] = x12 + y12
    BY DEF Powers
  <1>14. PICK x13 \in Int, y13 \in Int : x[8192] = x13 /\ y[8192] = y13 /\ s[8192] = x13 + y13
    BY DEF Powers
  <1>15. PICK x14 \in Int, y14 \in Int : x[16384] = x14 /\ y[16384] = y14 /\ s[16384] = x14 + y14
    BY DEF Powers
  <1>16. PICK x15 \in Int, y15 \in Int : x[32768] = x15 /\ y[32768] = y15 /\ s[32768] = x15 + y15
    BY DEF Powers
  <1>a. BitSum(s) = (x0 + y0) + (x1 + y1) + (x2 + y2) + (x3 + y3) + (x4 + y4) + (x5 + y5) +
        (x6 + y6) + (x7 + y7) + (x8 + y8) + (x9 + y9) + (x10 + y10) + (x11 + y11) + (x12 +
        y12) + (x13 + y13) + (x14 + y14) + (x15 + y15)
    BY <1>1, <1>2, <1>3, <1>4, <1>5, <1>6, <1>7, <1>8, <1>9, <1>10, <1>11, <1>12,
       <1>13, <1>14, <1>15, <1>16 DEF BitSum
  <1>b. BitSum(x) = x0 + x1 + x2 + x3 + x4 + x5 + x6 + x7 + x8 + x9 + x10 + x11 + x12 + x13
        + x14 + x15
    BY <1>1, <1>2, <1>3, <1>4, <1>5, <1>6, <1>7, <1>8, <1>9, <1>10, <1>11, <1>12,
       <1>13, <1>14, <1>15, <1>16 DEF BitSum
  <1>c. BitSum(y) = y0 + y1 + y2 + y3 + y4 + y5 + y6 + y7 + y8 + y9 + y10 + y11 + y12 + y13
        + y14 + y15
    BY <1>1, <1>2, <1>3, <1>4, <1>5, <1>6, <1>7, <1>8, <1>9, <1>10, <1>11, <1>12,
       <1>13, <1>14, <1>15, <1>16 DEF BitSum
  <1> QED  BY <1>a, <1>b, <1>c

\* The same for the bits of a word.
LEMMA BitOfWord ==
  ASSUME NEW a \in Word, NEW p \in Powers
  PROVE  /\ a \in Int /\ p \in Nat \ {0} /\ a \div p \in Int /\ Bit(a, p) \in {0, 1}
         /\ a \div p = Bit(a, p) + 2 * (a \div (2 * p))
  <1>1. \A x \in Int, y \in Nat \ {0} :
          x \div y \in Int /\ Bit(x, y) \in {0, 1} /\ x \div y = Bit(x, y) + 2 * (x \div (2 * y))
    <2> TAKE x \in Int, y \in Nat \ {0}
    <2>1. x \div y \in Int
      BY DivBounds
    <2> QED  BY <2>1, BitTyped, HalfStep
  <1>2. a \in Int
    BY WordModNat
  <1>3. p \in Nat \ {0}
    BY DEF Powers
  <1> QED  BY <1>1, <1>2, <1>3

\* A word is the sum of its bits, so AND of a word with itself is the word.
LEMMA AndSelf ==
  ASSUME NEW a \in Word
  PROVE  And(a, a) = a
  <1>a. a \in Int /\ a \div 1 = a /\ a \div 65536 = 0
    BY WordIs
  <1>b. \A p \in Powers : /\ a \div p = Bit(a, p) + 2 * (a \div (2 * p)) /\ a \div p \in Int
                         /\ Bit(a, p) \in {0, 1} /\ AndBit(a, a, p) = p * Bit(a, p)
    <2> SUFFICES ASSUME NEW p \in Powers
                 PROVE  /\ a \div p = Bit(a, p) + 2 * (a \div (2 * p)) /\ a \div p \in Int
                        /\ Bit(a, p) \in {0, 1} /\ AndBit(a, a, p) = p * Bit(a, p)
      OBVIOUS
    <2>1. p \in Nat \ {0}
      BY DEF Powers
    <2>2. Bit(a, p) \in {0, 1} /\ a \div p \in Int /\ a \div p = Bit(a, p) + 2 * (a \div (2 * p))
      BY BitOfWord
    <2>3. AndBit(a, a, p) = p * Bit(a, p)
      BY <2>1, <2>2 DEF AndBit, Bit
    <2> QED  BY <2>2, <2>3
  <1> DEFINE h(p) == a \div p
             e(p) == Bit(a, p)
  <1>h0. PICK h0 \in Int : h0 = h(1)
    BY <1>b DEF Powers
  <1>e0. PICK e0 \in Int : e0 = e(1) /\ AndBit(a, a, 1) = 1 * e0
    BY <1>b DEF Powers
  <1>h1. PICK h1 \in Int : h1 = h(2)
    BY <1>b DEF Powers
  <1>e1. PICK e1 \in Int : e1 = e(2) /\ AndBit(a, a, 2) = 2 * e1
    BY <1>b DEF Powers
  <1>h2. PICK h2 \in Int : h2 = h(4)
    BY <1>b DEF Powers
  <1>e2. PICK e2 \in Int : e2 = e(4) /\ AndBit(a, a, 4) = 4 * e2
    BY <1>b DEF Powers
  <1>h3. PICK h3 \in Int : h3 = h(8)
    BY <1>b DEF Powers
  <1>e3. PICK e3 \in Int : e3 = e(8) /\ AndBit(a, a, 8) = 8 * e3
    BY <1>b DEF Powers
  <1>h4. PICK h4 \in Int : h4 = h(16)
    BY <1>b DEF Powers
  <1>e4. PICK e4 \in Int : e4 = e(16) /\ AndBit(a, a, 16) = 16 * e4
    BY <1>b DEF Powers
  <1>h5. PICK h5 \in Int : h5 = h(32)
    BY <1>b DEF Powers
  <1>e5. PICK e5 \in Int : e5 = e(32) /\ AndBit(a, a, 32) = 32 * e5
    BY <1>b DEF Powers
  <1>h6. PICK h6 \in Int : h6 = h(64)
    BY <1>b DEF Powers
  <1>e6. PICK e6 \in Int : e6 = e(64) /\ AndBit(a, a, 64) = 64 * e6
    BY <1>b DEF Powers
  <1>h7. PICK h7 \in Int : h7 = h(128)
    BY <1>b DEF Powers
  <1>e7. PICK e7 \in Int : e7 = e(128) /\ AndBit(a, a, 128) = 128 * e7
    BY <1>b DEF Powers
  <1>h8. PICK h8 \in Int : h8 = h(256)
    BY <1>b DEF Powers
  <1>e8. PICK e8 \in Int : e8 = e(256) /\ AndBit(a, a, 256) = 256 * e8
    BY <1>b DEF Powers
  <1>h9. PICK h9 \in Int : h9 = h(512)
    BY <1>b DEF Powers
  <1>e9. PICK e9 \in Int : e9 = e(512) /\ AndBit(a, a, 512) = 512 * e9
    BY <1>b DEF Powers
  <1>h10. PICK h10 \in Int : h10 = h(1024)
    BY <1>b DEF Powers
  <1>e10. PICK e10 \in Int : e10 = e(1024) /\ AndBit(a, a, 1024) = 1024 * e10
    BY <1>b DEF Powers
  <1>h11. PICK h11 \in Int : h11 = h(2048)
    BY <1>b DEF Powers
  <1>e11. PICK e11 \in Int : e11 = e(2048) /\ AndBit(a, a, 2048) = 2048 * e11
    BY <1>b DEF Powers
  <1>h12. PICK h12 \in Int : h12 = h(4096)
    BY <1>b DEF Powers
  <1>e12. PICK e12 \in Int : e12 = e(4096) /\ AndBit(a, a, 4096) = 4096 * e12
    BY <1>b DEF Powers
  <1>h13. PICK h13 \in Int : h13 = h(8192)
    BY <1>b DEF Powers
  <1>e13. PICK e13 \in Int : e13 = e(8192) /\ AndBit(a, a, 8192) = 8192 * e13
    BY <1>b DEF Powers
  <1>h14. PICK h14 \in Int : h14 = h(16384)
    BY <1>b DEF Powers
  <1>e14. PICK e14 \in Int : e14 = e(16384) /\ AndBit(a, a, 16384) = 16384 * e14
    BY <1>b DEF Powers
  <1>h15. PICK h15 \in Int : h15 = h(32768)
    BY <1>b DEF Powers
  <1>e15. PICK e15 \in Int : e15 = e(32768) /\ AndBit(a, a, 32768) = 32768 * e15
    BY <1>b DEF Powers
  <1>x. /\ h(1) = e(1) + 2 * h(2)
        /\ h(2) = e(2) + 2 * h(4)
        /\ h(4) = e(4) + 2 * h(8)
        /\ h(8) = e(8) + 2 * h(16)
        /\ h(16) = e(16) + 2 * h(32)
        /\ h(32) = e(32) + 2 * h(64)
        /\ h(64) = e(64) + 2 * h(128)
        /\ h(128) = e(128) + 2 * h(256)
        /\ h(256) = e(256) + 2 * h(512)
        /\ h(512) = e(512) + 2 * h(1024)
        /\ h(1024) = e(1024) + 2 * h(2048)
        /\ h(2048) = e(2048) + 2 * h(4096)
        /\ h(4096) = e(4096) + 2 * h(8192)
        /\ h(8192) = e(8192) + 2 * h(16384)
        /\ h(16384) = e(16384) + 2 * h(32768)
        /\ h(32768) = e(32768) + 2 * h(65536)
    BY <1>b DEF Powers
  <1> HIDE DEF h, e
  <1>s0. h0 = e0 + 2 * h1
    BY <1>x, <1>h0, <1>h1, <1>e0
  <1>s1. h1 = e1 + 2 * h2
    BY <1>x, <1>h1, <1>h2, <1>e1
  <1>s2. h2 = e2 + 2 * h3
    BY <1>x, <1>h2, <1>h3, <1>e2
  <1>s3. h3 = e3 + 2 * h4
    BY <1>x, <1>h3, <1>h4, <1>e3
  <1>s4. h4 = e4 + 2 * h5
    BY <1>x, <1>h4, <1>h5, <1>e4
  <1>s5. h5 = e5 + 2 * h6
    BY <1>x, <1>h5, <1>h6, <1>e5
  <1>s6. h6 = e6 + 2 * h7
    BY <1>x, <1>h6, <1>h7, <1>e6
  <1>s7. h7 = e7 + 2 * h8
    BY <1>x, <1>h7, <1>h8, <1>e7
  <1>s8. h8 = e8 + 2 * h9
    BY <1>x, <1>h8, <1>h9, <1>e8
  <1>s9. h9 = e9 + 2 * h10
    BY <1>x, <1>h9, <1>h10, <1>e9
  <1>s10. h10 = e10 + 2 * h11
    BY <1>x, <1>h10, <1>h11, <1>e10
  <1>s11. h11 = e11 + 2 * h12
    BY <1>x, <1>h11, <1>h12, <1>e11
  <1>s12. h12 = e12 + 2 * h13
    BY <1>x, <1>h12, <1>h13, <1>e12
  <1>s13. h13 = e13 + 2 * h14
    BY <1>x, <1>h13, <1>h14, <1>e13
  <1>s14. h14 = e14 + 2 * h15
    BY <1>x, <1>h14, <1>h15, <1>e14
  <1>s15. h15 = e15
    BY <1>a, <1>x, <1>h15, <1>e15 DEF h
  <1>y. h0 = 1 * e0 + 2 * e1 + 4 * e2 + 8 * e3 + 16 * e4 + 32 * e5 + 64 * e6 + 128 * e7 +
             256 * e8 + 512 * e9 + 1024 * e10 + 2048 * e11 + 4096 * e12 + 8192 * e13 + 16384
             * e14 + 32768 * e15
    BY <1>s0, <1>s1, <1>s2, <1>s3, <1>s4, <1>s5, <1>s6, <1>s7, <1>s8, <1>s9, <1>s10, <1>s11,
       <1>s12, <1>s13, <1>s14, <1>s15
  <1>z. And(a, a) = 1 * e0 + 2 * e1 + 4 * e2 + 8 * e3 + 16 * e4 + 32 * e5 + 64 * e6 + 128 *
             e7 + 256 * e8 + 512 * e9 + 1024 * e10 + 2048 * e11 + 4096 * e12 + 8192 * e13 +
             16384 * e14 + 32768 * e15
    BY <1>e0, <1>e1, <1>e2, <1>e3, <1>e4, <1>e5, <1>e6, <1>e7, <1>e8, <1>e9, <1>e10, <1>e11,
       <1>e12, <1>e13, <1>e14, <1>e15 DEF And
  <1> QED  BY <1>a, <1>y, <1>z, <1>h0 DEF h

\* A word has sixteen bits.
LEMMA NothingAbove ==
  ASSUME NEW a \in Word
  PROVE  a \div 65536 = 0
  BY WordIs

\* A number has one lowest bit and one half.
LEMMA SameParity ==
  ASSUME NEW b \in {0, 1}, NEW e \in {0, 1}, NEW h \in Int, NEW t \in Int,
         b + 2 * h = e + 2 * t
  PROVE  b = e /\ h = t
  OBVIOUS

\* A bit of AND is set if both are.
LEMMA BitOfAnd ==
  ASSUME NEW a \in Word, NEW b \in Word
  PROVE  \A q \in Powers : Bit(And(a, b), q) = IF Bit(a, q) = 1 /\ Bit(b, q) = 1 THEN 1 ELSE 0
  <1> DEFINE both(p) == IF Bit(a, p) = 1 /\ Bit(b, p) = 1 THEN 1 ELSE 0
             w == And(a, b)
  <1>a. \A p \in Powers : AndBit(a, b, p) = p * both(p) /\ both(p) \in {0, 1}
    BY DEF AndBit, Bit, Powers
  <1> HIDE DEF both
  <1>e0. PICK e0 \in {0, 1} : e0 = both(1)
    BY <1>a DEF Powers
  <1>e1. PICK e1 \in {0, 1} : e1 = both(2)
    BY <1>a DEF Powers
  <1>e2. PICK e2 \in {0, 1} : e2 = both(4)
    BY <1>a DEF Powers
  <1>e3. PICK e3 \in {0, 1} : e3 = both(8)
    BY <1>a DEF Powers
  <1>e4. PICK e4 \in {0, 1} : e4 = both(16)
    BY <1>a DEF Powers
  <1>e5. PICK e5 \in {0, 1} : e5 = both(32)
    BY <1>a DEF Powers
  <1>e6. PICK e6 \in {0, 1} : e6 = both(64)
    BY <1>a DEF Powers
  <1>e7. PICK e7 \in {0, 1} : e7 = both(128)
    BY <1>a DEF Powers
  <1>e8. PICK e8 \in {0, 1} : e8 = both(256)
    BY <1>a DEF Powers
  <1>e9. PICK e9 \in {0, 1} : e9 = both(512)
    BY <1>a DEF Powers
  <1>e10. PICK e10 \in {0, 1} : e10 = both(1024)
    BY <1>a DEF Powers
  <1>e11. PICK e11 \in {0, 1} : e11 = both(2048)
    BY <1>a DEF Powers
  <1>e12. PICK e12 \in {0, 1} : e12 = both(4096)
    BY <1>a DEF Powers
  <1>e13. PICK e13 \in {0, 1} : e13 = both(8192)
    BY <1>a DEF Powers
  <1>e14. PICK e14 \in {0, 1} : e14 = both(16384)
    BY <1>a DEF Powers
  <1>e15. PICK e15 \in {0, 1} : e15 = both(32768)
    BY <1>a DEF Powers
  <1>m. /\ AndBit(a, b, 1) = 1 * e0
        /\ AndBit(a, b, 2) = 2 * e1
        /\ AndBit(a, b, 4) = 4 * e2
        /\ AndBit(a, b, 8) = 8 * e3
        /\ AndBit(a, b, 16) = 16 * e4
        /\ AndBit(a, b, 32) = 32 * e5
        /\ AndBit(a, b, 64) = 64 * e6
        /\ AndBit(a, b, 128) = 128 * e7
        /\ AndBit(a, b, 256) = 256 * e8
        /\ AndBit(a, b, 512) = 512 * e9
        /\ AndBit(a, b, 1024) = 1024 * e10
        /\ AndBit(a, b, 2048) = 2048 * e11
        /\ AndBit(a, b, 4096) = 4096 * e12
        /\ AndBit(a, b, 8192) = 8192 * e13
        /\ AndBit(a, b, 16384) = 16384 * e14
        /\ AndBit(a, b, 32768) = 32768 * e15
    BY <1>a, <1>e0, <1>e1, <1>e2, <1>e3, <1>e4, <1>e5, <1>e6, <1>e7, <1>e8, <1>e9, <1>e10,
       <1>e11, <1>e12, <1>e13, <1>e14, <1>e15 DEF Powers
  <1>t15. PICK t15 \in Int : t15 = e15
    OBVIOUS
  <1>t14. PICK t14 \in Int : t14 = e14 + 2 * t15
    OBVIOUS
  <1>t13. PICK t13 \in Int : t13 = e13 + 2 * t14
    OBVIOUS
  <1>t12. PICK t12 \in Int : t12 = e12 + 2 * t13
    OBVIOUS
  <1>t11. PICK t11 \in Int : t11 = e11 + 2 * t12
    OBVIOUS
  <1>t10. PICK t10 \in Int : t10 = e10 + 2 * t11
    OBVIOUS
  <1>t9. PICK t9 \in Int : t9 = e9 + 2 * t10
    OBVIOUS
  <1>t8. PICK t8 \in Int : t8 = e8 + 2 * t9
    OBVIOUS
  <1>t7. PICK t7 \in Int : t7 = e7 + 2 * t8
    OBVIOUS
  <1>t6. PICK t6 \in Int : t6 = e6 + 2 * t7
    OBVIOUS
  <1>t5. PICK t5 \in Int : t5 = e5 + 2 * t6
    OBVIOUS
  <1>t4. PICK t4 \in Int : t4 = e4 + 2 * t5
    OBVIOUS
  <1>t3. PICK t3 \in Int : t3 = e3 + 2 * t4
    OBVIOUS
  <1>t2. PICK t2 \in Int : t2 = e2 + 2 * t3
    OBVIOUS
  <1>t1. PICK t1 \in Int : t1 = e1 + 2 * t2
    OBVIOUS
  <1>t0. PICK t0 \in Int : t0 = e0 + 2 * t1
    OBVIOUS
  <1>b. w = 1 * e0 + 2 * e1 + 4 * e2 + 8 * e3 + 16 * e4 + 32 * e5 + 64 * e6 + 128 * e7 + 256
          * e8 + 512 * e9 + 1024 * e10 + 2048 * e11 + 4096 * e12 + 8192 * e13 + 16384 * e14
          + 32768 * e15
    BY <1>m, <1>e0, <1>e1, <1>e2, <1>e3, <1>e4, <1>e5, <1>e6, <1>e7, <1>e8, <1>e9, <1>e10,
       <1>e11, <1>e12, <1>e13, <1>e14, <1>e15 DEF And
  <1>c. t0 = 1 * e0 + 2 * e1 + 4 * e2 + 8 * e3 + 16 * e4 + 32 * e5 + 64 * e6 + 128 * e7 +
          256 * e8 + 512 * e9 + 1024 * e10 + 2048 * e11 + 4096 * e12 + 8192 * e13 + 16384 *
          e14 + 32768 * e15
    BY <1>t0, <1>t1, <1>t2, <1>t3, <1>t4, <1>t5, <1>t6, <1>t7, <1>t8, <1>t9, <1>t10, <1>t11,
       <1>t12, <1>t13, <1>t14, <1>t15
  <1> DEFINE h(p) == w \div p
             bit(p) == Bit(w, p)
  <1>d. h(1) = t0
    <2>1. w = t0
      BY <1>b, <1>c
    <2>2. t0 \div 1 = t0
      BY <1>t0
    <2> QED  BY <2>1, <2>2
  <1>w. w \in Word
    BY AndTyped
  <1>x. \A p \in Powers : h(p) = bit(p) + 2 * h(2 * p) /\ bit(p) \in {0, 1}
    BY <1>w, BitOfWord
  <1>y. \A p \in Powers : h(p) \in Int
    BY <1>w, BitOfWord
  <1>z. h(65536) = 0
    BY <1>w, NothingAbove
  <1> HIDE DEF w, h, bit
  <1>x0. h(1) = bit(1) + 2 * h(2) /\ bit(1) \in {0, 1} /\ h(2) \in Int
    BY <1>x, <1>y, <1>z, 1 \in Powers, 2 \in Powers \cup {65536}, 2 * 1 = 2 DEF Powers
  <1>x1. h(2) = bit(2) + 2 * h(4) /\ bit(2) \in {0, 1} /\ h(4) \in Int
    BY <1>x, <1>y, <1>z, 2 \in Powers, 4 \in Powers \cup {65536}, 2 * 2 = 4 DEF Powers
  <1>x2. h(4) = bit(4) + 2 * h(8) /\ bit(4) \in {0, 1} /\ h(8) \in Int
    BY <1>x, <1>y, <1>z, 4 \in Powers, 8 \in Powers \cup {65536}, 2 * 4 = 8 DEF Powers
  <1>x3. h(8) = bit(8) + 2 * h(16) /\ bit(8) \in {0, 1} /\ h(16) \in Int
    BY <1>x, <1>y, <1>z, 8 \in Powers, 16 \in Powers \cup {65536}, 2 * 8 = 16 DEF Powers
  <1>x4. h(16) = bit(16) + 2 * h(32) /\ bit(16) \in {0, 1} /\ h(32) \in Int
    BY <1>x, <1>y, <1>z, 16 \in Powers, 32 \in Powers \cup {65536}, 2 * 16 = 32 DEF Powers
  <1>x5. h(32) = bit(32) + 2 * h(64) /\ bit(32) \in {0, 1} /\ h(64) \in Int
    BY <1>x, <1>y, <1>z, 32 \in Powers, 64 \in Powers \cup {65536}, 2 * 32 = 64 DEF Powers
  <1>x6. h(64) = bit(64) + 2 * h(128) /\ bit(64) \in {0, 1} /\ h(128) \in Int
    BY <1>x, <1>y, <1>z, 64 \in Powers, 128 \in Powers \cup {65536}, 2 * 64 = 128 DEF Powers
  <1>x7. h(128) = bit(128) + 2 * h(256) /\ bit(128) \in {0, 1} /\ h(256) \in Int
    BY <1>x, <1>y, <1>z, 128 \in Powers, 256 \in Powers \cup {65536}, 2 * 128 = 256 DEF Powers
  <1>x8. h(256) = bit(256) + 2 * h(512) /\ bit(256) \in {0, 1} /\ h(512) \in Int
    BY <1>x, <1>y, <1>z, 256 \in Powers, 512 \in Powers \cup {65536}, 2 * 256 = 512 DEF Powers
  <1>x9. h(512) = bit(512) + 2 * h(1024) /\ bit(512) \in {0, 1} /\ h(1024) \in Int
    BY <1>x, <1>y, <1>z, 512 \in Powers, 1024 \in Powers \cup {65536}, 2 * 512 = 1024 DEF
       Powers
  <1>x10. h(1024) = bit(1024) + 2 * h(2048) /\ bit(1024) \in {0, 1} /\ h(2048) \in Int
    BY <1>x, <1>y, <1>z, 1024 \in Powers, 2048 \in Powers \cup {65536}, 2 * 1024 = 2048 DEF
       Powers
  <1>x11. h(2048) = bit(2048) + 2 * h(4096) /\ bit(2048) \in {0, 1} /\ h(4096) \in Int
    BY <1>x, <1>y, <1>z, 2048 \in Powers, 4096 \in Powers \cup {65536}, 2 * 2048 = 4096 DEF
       Powers
  <1>x12. h(4096) = bit(4096) + 2 * h(8192) /\ bit(4096) \in {0, 1} /\ h(8192) \in Int
    BY <1>x, <1>y, <1>z, 4096 \in Powers, 8192 \in Powers \cup {65536}, 2 * 4096 = 8192 DEF
       Powers
  <1>x13. h(8192) = bit(8192) + 2 * h(16384) /\ bit(8192) \in {0, 1} /\ h(16384) \in Int
    BY <1>x, <1>y, <1>z, 8192 \in Powers, 16384 \in Powers \cup {65536}, 2 * 8192 = 16384 DEF
       Powers
  <1>x14. h(16384) = bit(16384) + 2 * h(32768) /\ bit(16384) \in {0, 1} /\ h(32768) \in Int
    BY <1>x, <1>y, <1>z, 16384 \in Powers, 32768 \in Powers \cup {65536}, 2 * 16384 = 32768
       DEF Powers
  <1>x15. h(32768) = bit(32768) + 2 * h(65536) /\ bit(32768) \in {0, 1} /\ h(65536) \in Int
    BY <1>x, <1>y, <1>z, 32768 \in Powers, 65536 \in Powers \cup {65536}, 2 * 32768 = 65536
       DEF Powers
  <1>p0. bit(1) = e0 /\ h(2) = t1
    <2>1. bit(1) + 2 * h(2) = e0 + 2 * t1
      BY <1>d, <1>x0, <1>t0
    <2>2. PICK e \in {0, 1}, k \in Int : e = bit(1) /\ k = h(2)
      BY <1>x0
    <2>3. e + 2 * k = e0 + 2 * t1
      BY <2>1, <2>2
    <2>4. e = e0 /\ k = t1
      BY <2>2, <2>3, <1>e0, <1>t1, SameParity
    <2> QED  BY <2>2, <2>4
  <1>p1. bit(2) = e1 /\ h(4) = t2
    <2>1. bit(2) + 2 * h(4) = e1 + 2 * t2
      BY <1>p0, <1>x1, <1>t1
    <2> QED  BY <2>1, <1>x1, <1>e1, <1>t2, SameParity
  <1>p2. bit(4) = e2 /\ h(8) = t3
    <2>1. bit(4) + 2 * h(8) = e2 + 2 * t3
      BY <1>p1, <1>x2, <1>t2
    <2> QED  BY <2>1, <1>x2, <1>e2, <1>t3, SameParity
  <1>p3. bit(8) = e3 /\ h(16) = t4
    <2>1. bit(8) + 2 * h(16) = e3 + 2 * t4
      BY <1>p2, <1>x3, <1>t3
    <2> QED  BY <2>1, <1>x3, <1>e3, <1>t4, SameParity
  <1>p4. bit(16) = e4 /\ h(32) = t5
    <2>1. bit(16) + 2 * h(32) = e4 + 2 * t5
      BY <1>p3, <1>x4, <1>t4
    <2> QED  BY <2>1, <1>x4, <1>e4, <1>t5, SameParity
  <1>p5. bit(32) = e5 /\ h(64) = t6
    <2>1. bit(32) + 2 * h(64) = e5 + 2 * t6
      BY <1>p4, <1>x5, <1>t5
    <2> QED  BY <2>1, <1>x5, <1>e5, <1>t6, SameParity
  <1>p6. bit(64) = e6 /\ h(128) = t7
    <2>1. bit(64) + 2 * h(128) = e6 + 2 * t7
      BY <1>p5, <1>x6, <1>t6
    <2> QED  BY <2>1, <1>x6, <1>e6, <1>t7, SameParity
  <1>p7. bit(128) = e7 /\ h(256) = t8
    <2>1. bit(128) + 2 * h(256) = e7 + 2 * t8
      BY <1>p6, <1>x7, <1>t7
    <2> QED  BY <2>1, <1>x7, <1>e7, <1>t8, SameParity
  <1>p8. bit(256) = e8 /\ h(512) = t9
    <2>1. bit(256) + 2 * h(512) = e8 + 2 * t9
      BY <1>p7, <1>x8, <1>t8
    <2> QED  BY <2>1, <1>x8, <1>e8, <1>t9, SameParity
  <1>p9. bit(512) = e9 /\ h(1024) = t10
    <2>1. bit(512) + 2 * h(1024) = e9 + 2 * t10
      BY <1>p8, <1>x9, <1>t9
    <2> QED  BY <2>1, <1>x9, <1>e9, <1>t10, SameParity
  <1>p10. bit(1024) = e10 /\ h(2048) = t11
    <2>1. bit(1024) + 2 * h(2048) = e10 + 2 * t11
      BY <1>p9, <1>x10, <1>t10
    <2> QED  BY <2>1, <1>x10, <1>e10, <1>t11, SameParity
  <1>p11. bit(2048) = e11 /\ h(4096) = t12
    <2>1. bit(2048) + 2 * h(4096) = e11 + 2 * t12
      BY <1>p10, <1>x11, <1>t11
    <2> QED  BY <2>1, <1>x11, <1>e11, <1>t12, SameParity
  <1>p12. bit(4096) = e12 /\ h(8192) = t13
    <2>1. bit(4096) + 2 * h(8192) = e12 + 2 * t13
      BY <1>p11, <1>x12, <1>t12
    <2> QED  BY <2>1, <1>x12, <1>e12, <1>t13, SameParity
  <1>p13. bit(8192) = e13 /\ h(16384) = t14
    <2>1. bit(8192) + 2 * h(16384) = e13 + 2 * t14
      BY <1>p12, <1>x13, <1>t13
    <2> QED  BY <2>1, <1>x13, <1>e13, <1>t14, SameParity
  <1>p14. bit(16384) = e14 /\ h(32768) = t15
    <2>1. bit(16384) + 2 * h(32768) = e14 + 2 * t15
      BY <1>p13, <1>x14, <1>t14
    <2> QED  BY <2>1, <1>x14, <1>e14, <1>t15, SameParity
  <1>p15. bit(32768) = e15
    BY <1>p14, <1>x15, <1>z, <1>t15, <1>e15
  <1> QED
    BY <1>p0, <1>e0, <1>p1, <1>e1, <1>p2, <1>e2, <1>p3, <1>e3, <1>p4, <1>e4, <1>p5, <1>e5,
       <1>p6, <1>e6, <1>p7, <1>e7, <1>p8, <1>e8, <1>p9, <1>e9, <1>p10, <1>e10, <1>p11,
       <1>e11, <1>p12, <1>e12, <1>p13, <1>e13, <1>p14, <1>e14, <1>p15, <1>e15 DEF Powers,
       both, bit, w

\* AND with a complement leaves what AND takes.
LEMMA AndWithNot ==
  ASSUME NEW a \in Word, NEW b \in Word
  PROVE  And(Not(a), b) = b - And(a, b)
  <1> DEFINE x == [p \in Powers |-> AndBit(Not(a), b, p)]
             y == [p \in Powers |-> AndBit(a, b, p)]
             s == [p \in Powers |-> AndBit(b, b, p)]
  <1>1. x \in [Powers -> Int] /\ y \in [Powers -> Int] /\ s \in [Powers -> Int]
    BY DEF AndBit, Powers
  <1>2. \A p \in Powers : s[p] = x[p] + y[p]
    <2> SUFFICES ASSUME NEW p \in Powers
                 PROVE  AndBit(b, b, p) = AndBit(Not(a), b, p) + AndBit(a, b, p)
      OBVIOUS
    <2>1. Bit(Not(a), p) = 1 - Bit(a, p) /\ Bit(a, p) \in {0, 1} /\ p \in Nat
      BY BitOfNot
    <2>2. \A v, w : AndBit(v, w, p) = IF Bit(v, p) = 1 /\ Bit(w, p) = 1 THEN p ELSE 0
      BY DEF AndBit, Bit
    <2> QED  BY <2>1, <2>2
  <1> HIDE DEF x, y, s
  <1>3. BitSum(s) = BitSum(x) + BitSum(y)
    BY <1>1, <1>2, SumsAdd
  <1>4. And(b, b) = And(Not(a), b) + And(a, b)
    BY <1>3, AndIsSum DEF x, y, s
  <1>5. And(Not(a), b) \in Int /\ And(a, b) \in Int
    <2>1. And(Not(a), b) \in Word /\ And(a, b) \in Word
      BY NotTyped, AndTyped
    <2> QED  BY <2>1, WordModNat
  <1> QED  BY <1>4, <1>5, AndSelf

\* AND does not mind the order of its operands.
LEMMA AndSymmetric ==
  ASSUME NEW a, NEW b
  PROVE  And(a, b) = And(b, a)
  <1>1. \A p : AndBit(a, b, p) = AndBit(b, a, p)
    BY DEF AndBit
  <1> QED  BY <1>1 DEF And

\* The exclusive or as the test program computes it, with AND and NOT alone.
LEMMA ExclusiveOr ==
  ASSUME NEW a \in Word, NEW b \in Word
  PROVE  Not(And(Not(And(Not(a), b)), Not(And(Not(b), a)))) = a + b - 2 * And(a, b)
  <1> DEFINE c == And(Not(a), b)
             d == And(Not(b), a)
  <1>1. c \in Word /\ d \in Word /\ Not(d) \in Word /\ And(a, b) \in Word
    BY NotTyped, AndTyped
  <1>2. c = b - And(a, b) /\ d = a - And(a, b)
    BY AndWithNot, AndSymmetric
  <1>3. And(d, c) = 0
    <2>1. \A p \in Powers : AndBit(d, c, p) = 0
      <3> SUFFICES ASSUME NEW p \in Powers  PROVE AndBit(d, c, p) = 0
        OBVIOUS
      <3>1. /\ Bit(c, p) = IF Bit(Not(a), p) = 1 /\ Bit(b, p) = 1 THEN 1 ELSE 0
            /\ Bit(d, p) = IF Bit(Not(b), p) = 1 /\ Bit(a, p) = 1 THEN 1 ELSE 0
        BY NotTyped, BitOfAnd
      <3>2. /\ Bit(Not(a), p) = 1 - Bit(a, p) /\ Bit(a, p) \in {0, 1}
            /\ Bit(Not(b), p) = 1 - Bit(b, p) /\ Bit(b, p) \in {0, 1}
        BY BitOfNot
      <3> HIDE DEF c, d
      <3>3. ~(Bit(d, p) = 1 /\ Bit(c, p) = 1)
        BY <3>1, <3>2
      <3> QED  BY <3>3 DEF AndBit, Bit
    <2> HIDE DEF c, d
    <2> QED  BY <2>1 DEF And, Powers
  <1> HIDE DEF c, d
  <1>4. And(Not(c), Not(d)) = Not(d) - And(c, Not(d))
    BY <1>1, AndWithNot
  <1>5. And(c, Not(d)) = c - And(d, c)
    BY <1>1, AndWithNot, AndSymmetric
  <1>6. And(Not(c), Not(d)) = Not(d) - c
    <2>1. c \in Int
      BY <1>1, WordModNat
    <2> QED  BY <1>3, <1>4, <1>5, <2>1
  <1>7. Not(Not(d) - c) = c + d
    <2>1. c \in Int /\ d \in Int
      BY <1>1, WordModNat
    <2> QED  BY <2>1 DEF Not, WordMod
  <1>8. And(a, b) \in Int /\ a \in Int /\ b \in Int
    BY <1>1, WordModNat
  <1> QED  BY <1>2, <1>6, <1>7, <1>8 DEF c, d
====
