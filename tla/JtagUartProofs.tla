---- MODULE JtagUartProofs ----
(* For buffers and FIFOs of any size and any threshold: characters stay in       *)
(* order, and no interrupt is left disabled with work for it.                   *)
EXTENDS JtagUart, SequenceTheorems, TLAPS

----
(* Arithmetic of indices, of which no sum wraps twice, and of numbered          *)
(* characters.                                                                  *)

LEMMA Sizes ==
  /\ BUF_LEN \in Nat /\ BUF_LEN >= 2 /\ RxDepth \in Nat /\ TxDepth \in Nat
  /\ Threshold \in Nat /\ Threshold < RxDepth /\ Threshold < TxDepth
  /\ Numbers \in Nat /\ Numbers >= 1 /\ MaxCount \in Nat
  /\ Index \subseteq Nat /\ Char \subseteq Nat
BY SizesAssumption DEF Index, Char

LEMMA WrapsOnce ==
  ASSUME NEW m \in Nat \ {0}, NEW a \in 0 .. 2 * m - 1
  PROVE  a % m = IF a < m THEN a ELSE a - m
<1>1. CASE a < m
  BY <1>1
<1>2. CASE a >= m
  <2>1. a - m \in 0 .. m - 1
    BY <1>2
  <2>2. ((a - m) + m) % m = a - m
    BY <2>1
  <2>3. (a - m) + m = a
    OBVIOUS
  <2> QED  BY <2>2, <2>3, <1>2
<1> QED  BY <1>1, <1>2

LEMMA IndexWraps ==
  ASSUME NEW i \in Index, NEW n \in 0 .. BUF_LEN
  PROVE  /\ (i + n) % BUF_LEN \in Index
         /\ (i + n) % BUF_LEN = IF i + n < BUF_LEN THEN i + n ELSE i + n - BUF_LEN
<1>1. BUF_LEN \in Nat \ {0} /\ i \in Nat /\ n \in Nat /\ i + n \in 0 .. 2 * BUF_LEN - 1
  BY SizesAssumption DEF Index
<1> DEFINE a == i + n
<1>2. a % BUF_LEN = IF a < BUF_LEN THEN a ELSE a - BUF_LEN
  BY <1>1, WrapsOnce
<1> QED  BY <1>1, <1>2 DEF Index

LEMMA FilledIs ==
  ASSUME NEW i \in Index, NEW o \in Index
  PROVE  /\ Filled(i, o) \in Index
         /\ Filled(i, o) = IF i >= o THEN i - o ELSE i - o + BUF_LEN
<1>1. BUF_LEN \in Nat \ {0} /\ i \in Nat /\ o \in Nat
  BY SizesAssumption DEF Index
<1>2. CASE i >= o
  <2>1. (i - o) % BUF_LEN = i - o
    BY <1>1, <1>2 DEF Index
  <2> QED  BY <1>1, <1>2, <2>1 DEF Filled, Index
<1>3. CASE i < o
  <2>1. (i - o) % BUF_LEN = i - o + BUF_LEN
    BY <1>1, <1>3 DEF Index
  <2> QED  BY <1>1, <1>3, <2>1 DEF Filled, Index
<1> QED  BY <1>1, <1>2, <1>3

\* One cell stays free.
LEMMA FilledNat ==
  ASSUME NEW i \in Index, NEW o \in Index
  PROVE  Filled(i, o) \in Nat /\ Filled(i, o) <= BUF_LEN - 1
<1>1. Filled(i, o) \in Index
  BY FilledIs
<1> QED  BY <1>1, Sizes DEF Index

\* Quotient and remainder are unique.
LEMMA Parts ==
  ASSUME NEW m \in Nat \ {0}, NEW a \in Nat
  PROVE  a \div m \in Nat /\ a % m \in 0 .. m - 1 /\ a = m * (a \div m) + (a % m)
OBVIOUS

LEMMA Products ==
  ASSUME NEW m \in Nat \ {0}, NEW d \in Int, NEW e \in Int
  PROVE  /\ m * d - m * e = m * (d - e) /\ m * d + m * e = m * (d + e)
         /\ d >= 1 => m * d >= m
OBVIOUS

LEMMA RemainderUnique ==
  ASSUME NEW m \in Nat \ {0}, NEW p \in Int, NEW q \in Int,
         NEW r \in 0 .. m - 1, NEW s \in 0 .. m - 1, m * p + r = m * q + s
  PROVE  r = s
<1>1. m * (p - q) = s - r /\ m * (q - p) = r - s
  BY Products
<1>2. CASE p - q >= 1
  BY <1>1, <1>2, Products
<1>3. CASE q - p >= 1
  BY <1>1, <1>3, Products
<1> QED  BY <1>1, <1>2, <1>3

LEMMA ModPlus ==
  ASSUME NEW m \in Nat \ {0}, NEW a \in Nat, NEW n \in Nat
  PROVE  ((a % m) + n) % m = (a + n) % m
<1> DEFINE r == a % m
           s == (r + n) % m
           t == (a + n) % m
           p == a \div m
           q == (r + n) \div m
           u == (a + n) \div m
<1>1. p \in Nat /\ r \in 0 .. m - 1 /\ a = m * p + r
  BY Parts
<1>2. q \in Nat /\ s \in 0 .. m - 1 /\ r + n = m * q + s
  <2>1. r + n \in Nat
    BY <1>1
  <2> QED  BY <2>1, Parts
<1>3. u \in Nat /\ t \in 0 .. m - 1 /\ a + n = m * u + t
  <2>1. a + n \in Nat
    OBVIOUS
  <2> QED  BY <2>1, Parts
<1> HIDE DEF r, s, t, p, q, u
<1>4. m * p + m * q = m * (p + q)
  BY <1>1, <1>2, Products
<1>5. m * (p + q) + s = m * u + t
  <2>1. a + n = m * p + (m * q + s)
    BY <1>1, <1>2
  <2> QED  BY <2>1, <1>1, <1>2, <1>3, <1>4
<1>6. s = t
  <2>1. p + q \in Int /\ u \in Int
    BY <1>1, <1>2, <1>3
  <2> QED  BY <2>1, <1>2, <1>3, <1>5, RemainderUnique
<1> QED  BY <1>6 DEF r, s, t

LEMMA PlusIs ==
  ASSUME NEW c \in Char, NEW n \in Nat
  PROVE  Plus(c, n) \in Char
<1>1. Numbers \in Nat \ {0} /\ c + n \in Nat
  BY SizesAssumption DEF Char
<1> QED  BY <1>1, Parts DEF Plus, Char

LEMMA PlusPlus ==
  ASSUME NEW c \in Char, NEW m \in Nat, NEW n \in Nat
  PROVE  Plus(Plus(c, m), n) = Plus(c, m + n)
<1>1. Numbers \in Nat \ {0} /\ c + m \in Nat
  BY SizesAssumption DEF Char
<1>2. (((c + m) % Numbers) + n) % Numbers = ((c + m) + n) % Numbers
  BY <1>1, ModPlus
<1>3. (c + m) + n = c + (m + n)
  BY SizesAssumption DEF Char
<1> QED  BY <1>2, <1>3 DEF Plus

----
(* Ring buffers.                                                                *)

\* What a buffer holds is numbered from first on.
Numbered(buf, i, o, first) ==
  \A k \in 0 .. Filled(i, o) - 1 : buf[(o + k) % BUF_LEN] = Plus(first, k)

\* Taking n characters out of it.
LEMMA RingTakes ==
  ASSUME NEW buf, NEW i \in Index, NEW o \in Index, NEW first \in Char,
         NEW n \in 0 .. Filled(i, o), Numbered(buf, i, o, first)
  PROVE  /\ (o + n) % BUF_LEN \in Index
         /\ Filled(i, (o + n) % BUF_LEN) = Filled(i, o) - n
         /\ Numbered(buf, i, (o + n) % BUF_LEN, Plus(first, n))
<1> DEFINE p == (o + n) % BUF_LEN
           f == Filled(i, o)
<1>1. BUF_LEN \in Nat /\ BUF_LEN >= 2
  BY SizesAssumption
<1>2. f \in Index /\ f = IF i >= o THEN i - o ELSE i - o + BUF_LEN
  BY FilledIs
<1>3. n \in Nat /\ n <= f /\ n \in 0 .. BUF_LEN
  BY <1>1, <1>2 DEF Index
<1>4. p \in Index /\ p = IF o + n < BUF_LEN THEN o + n ELSE o + n - BUF_LEN
  BY <1>3, IndexWraps
<1>5. Filled(i, p) = IF i >= p THEN i - p ELSE i - p + BUF_LEN
  BY <1>4, FilledIs
<1> HIDE DEF p, f
<1>6. Filled(i, p) = f - n
  BY <1>1, <1>2, <1>3, <1>4, <1>5 DEF Index
<1>7. ASSUME NEW k \in 0 .. f - n - 1
      PROVE  buf[(p + k) % BUF_LEN] = Plus(Plus(first, n), k)
  <2>1. k \in Nat /\ n + k \in 0 .. f - 1 /\ k \in 0 .. BUF_LEN /\ n + k \in 0 .. BUF_LEN
    BY <1>1, <1>2, <1>3, <1>7 DEF Index
  <2>2. (p + k) % BUF_LEN = IF p + k < BUF_LEN THEN p + k ELSE p + k - BUF_LEN
    BY <2>1, <1>4, IndexWraps
  <2>3. (o + (n + k)) % BUF_LEN = IF o + (n + k) < BUF_LEN THEN o + (n + k)
                                  ELSE o + (n + k) - BUF_LEN
    BY <2>1, IndexWraps
  <2>4. (p + k) % BUF_LEN = (o + (n + k)) % BUF_LEN
    BY <1>1, <1>3, <1>4, <2>1, <2>2, <2>3 DEF Index
  <2>5. buf[(o + (n + k)) % BUF_LEN] = Plus(first, n + k)
    BY <2>1 DEF Numbered, f
  <2>6. Plus(Plus(first, n), k) = Plus(first, n + k)
    BY <1>1, <1>3, <2>1, PlusPlus
  <2> QED  BY <2>4, <2>5, <2>6
<1>8. Numbered(buf, i, p, Plus(first, n))
  BY <1>6, <1>7 DEF Numbered
<1> QED  BY <1>4, <1>6, <1>8 DEF p, f

\* Putting n characters into it, the next ones by number.
LEMMA RingPuts ==
  ASSUME NEW buf, NEW new, NEW i \in Index, NEW o \in Index, NEW first \in Char,
         NEW n \in 0 .. BUF_LEN - 1 - Filled(i, o), Numbered(buf, i, o, first),
         \A j \in Index : new[j] = IF Filled(j, i) < n
                                   THEN Plus(first, Filled(i, o) + Filled(j, i)) ELSE buf[j]
  PROVE  /\ (i + n) % BUF_LEN \in Index
         /\ Filled((i + n) % BUF_LEN, o) = Filled(i, o) + n
         /\ Numbered(new, (i + n) % BUF_LEN, o, first)
<1> DEFINE p == (i + n) % BUF_LEN
           f == Filled(i, o)
<1>1. BUF_LEN \in Nat /\ BUF_LEN >= 2
  BY SizesAssumption
<1>2. f \in Index /\ f = IF i >= o THEN i - o ELSE i - o + BUF_LEN
  BY FilledIs
<1>3. n \in Nat /\ f + n <= BUF_LEN - 1 /\ n \in 0 .. BUF_LEN
  BY <1>1, <1>2 DEF Index
<1>4. p \in Index /\ p = IF i + n < BUF_LEN THEN i + n ELSE i + n - BUF_LEN
  BY <1>3, IndexWraps
<1>5. Filled(p, o) = IF p >= o THEN p - o ELSE p - o + BUF_LEN
  BY <1>4, FilledIs
<1> HIDE DEF p, f
<1>6. Filled(p, o) = f + n
  BY <1>1, <1>2, <1>3, <1>4, <1>5 DEF Index
<1>7. ASSUME NEW k \in 0 .. f + n - 1
      PROVE  new[(o + k) % BUF_LEN] = Plus(first, k)
  <2> DEFINE j == (o + k) % BUF_LEN
  <2>1. k \in Nat /\ k \in 0 .. BUF_LEN
    BY <1>1, <1>2, <1>3, <1>7 DEF Index
  <2>2. j \in Index /\ j = IF o + k < BUF_LEN THEN o + k ELSE o + k - BUF_LEN
    BY <2>1, IndexWraps
  <2>3. Filled(j, i) = IF j >= i THEN j - i ELSE j - i + BUF_LEN
    BY <2>2, FilledIs
  <2>4. new[j] = IF Filled(j, i) < n THEN Plus(first, f + Filled(j, i)) ELSE buf[j]
    BY <2>2 DEF f
  <2>5. k < f => buf[j] = Plus(first, k)
    BY <2>1, <1>2 DEF Numbered, f, Index
  <2> HIDE DEF j
  <2>6. CASE k < f
    <3>1. ~(Filled(j, i) < n)
      BY <1>1, <1>2, <1>3, <2>1, <2>2, <2>3, <2>6 DEF Index
    <3> QED  BY <3>1, <2>4, <2>5, <2>6 DEF j
  <2>7. CASE k >= f
    <3>1. Filled(j, i) = k - f /\ k - f < n
      BY <1>1, <1>2, <1>3, <1>7, <2>1, <2>2, <2>3, <2>7 DEF Index
    <3>2. f + (k - f) = k
      BY <1>2, <2>1 DEF Index
    <3> QED  BY <3>1, <3>2, <2>4 DEF j
  <2> QED  BY <2>1, <2>6, <2>7, <1>2 DEF Index
<1>8. Numbered(new, p, o, first)
  <2>1. Filled(p, o) - 1 = f + n - 1
    BY <1>2, <1>3, <1>6 DEF Index
  <2>2. \A k \in 0 .. f + n - 1 : new[(o + k) % BUF_LEN] = Plus(first, k)
    BY <1>7
  <2> QED  BY <2>1, <2>2, Zenon DEF Numbered
<1> QED  BY <1>4, <1>6, <1>8 DEF p, f

----
(* Sequences of characters numbered from a on.                                  *)

Run(s, a) == \A k \in 1 .. Len(s) : s[k] = Plus(a, k - 1)

LEMMA HeldRuns ==
  ASSUME NEW buf \in [Index -> Char], NEW i \in Index, NEW o \in Index, NEW first \in Char,
         Numbered(buf, i, o, first)
  PROVE  /\ Held(buf, i, o) \in Seq(Char) /\ Len(Held(buf, i, o)) = Filled(i, o)
         /\ Run(Held(buf, i, o), first)
<1> DEFINE f == Filled(i, o)
<1>1. f \in Nat /\ f < BUF_LEN /\ BUF_LEN \in Nat
  <2>1. f \in Nat /\ f <= BUF_LEN - 1 /\ BUF_LEN \in Nat
    BY FilledNat, Sizes
  <2> HIDE DEF f
  <2> QED  BY <2>1
<1>2. ASSUME NEW k \in 1 .. f
      PROVE  /\ buf[(o + k - 1) % BUF_LEN] \in Char
             /\ buf[(o + k - 1) % BUF_LEN] = Plus(first, k - 1)
  <2>1. k - 1 \in 0 .. f - 1 /\ k - 1 \in 0 .. BUF_LEN
    BY <1>1
  <2>2. o + (k - 1) = o + k - 1
    BY <1>1 DEF Index
  <2>3. (o + (k - 1)) % BUF_LEN \in Index
    BY <2>1, IndexWraps
  <2>4. buf[(o + (k - 1)) % BUF_LEN] = Plus(first, k - 1)
    BY <2>1 DEF Numbered
  <2> QED  BY <2>2, <2>3, <2>4
<1> HIDE DEF f
<1>3. Held(buf, i, o) = [k \in 1 .. f |-> buf[(o + k - 1) % BUF_LEN]]
  BY DEF Held, f
<1>4. Held(buf, i, o) \in [1 .. f -> Char]
  BY <1>2, <1>3
<1>5. Held(buf, i, o) \in Seq(Char) /\ Len(Held(buf, i, o)) = f
  BY <1>1, <1>4
<1>6. Run(Held(buf, i, o), first)
  BY <1>2, <1>3, <1>5 DEF Run
<1> QED  BY <1>5, <1>6 DEF f

LEMMA ConcatRuns ==
  ASSUME NEW s \in Seq(Char), NEW t \in Seq(Char), NEW a \in Char,
         Run(s, a), Run(t, Plus(a, Len(s)))
  PROVE  /\ s \o t \in Seq(Char) /\ Len(s \o t) = Len(s) + Len(t)
         /\ Run(s \o t, a)
<1>1. Len(s) \in Nat /\ Len(t) \in Nat
  OBVIOUS
<1>2. s \o t \in Seq(Char) /\ Len(s \o t) = Len(s) + Len(t)
  BY ConcatProperties
<1>3. ASSUME NEW k \in 1 .. Len(s) + Len(t)
      PROVE  (s \o t)[k] = Plus(a, k - 1)
  <2>1. (s \o t)[k] = IF k <= Len(s) THEN s[k] ELSE t[k - Len(s)]
    BY ConcatProperties
  <2>2. CASE k <= Len(s)
    BY <2>1, <2>2, <1>1 DEF Run
  <2>3. CASE k > Len(s)
    <3>1. k - Len(s) \in 1 .. Len(t) /\ k - Len(s) - 1 \in Nat
      BY <1>1, <2>3
    <3>2. t[k - Len(s)] = Plus(Plus(a, Len(s)), k - Len(s) - 1)
      BY <3>1 DEF Run
    <3>3. Len(s) + (k - Len(s) - 1) = k - 1
      BY <1>1
    <3>4. Plus(Plus(a, Len(s)), k - Len(s) - 1) = Plus(a, k - 1)
      BY <1>1, <3>1, <3>3, PlusPlus
    <3> QED  BY <2>1, <2>3, <3>2, <3>4, <1>1
  <2> QED  BY <2>2, <2>3, <1>1
<1> QED  BY <1>2, <1>3 DEF Run

LEMMA SubSeqRuns ==
  ASSUME NEW s \in Seq(Char), NEW a \in Char, Run(s, a),
         NEW n \in 0 .. Len(s)
  PROVE  /\ SubSeq(s, n + 1, Len(s)) \in Seq(Char) /\ Len(SubSeq(s, n + 1, Len(s))) = Len(s) - n
         /\ Run(SubSeq(s, n + 1, Len(s)), Plus(a, n))
         /\ SubSeq(s, 1, n) \in Seq(Char) /\ Len(SubSeq(s, 1, n)) = n
         /\ Run(SubSeq(s, 1, n), a)
<1>1. Len(s) \in Nat /\ n \in Nat
  OBVIOUS
<1> DEFINE t == SubSeq(s, n + 1, Len(s))
           u == SubSeq(s, 1, n)
<1>2. /\ t \in Seq(Char) /\ Len(t) = Len(s) - n
      /\ \A k \in 1 .. Len(s) - n : t[k] = s[n + k]
  BY <1>1
<1>3. u \in Seq(Char) /\ Len(u) = n /\ \A k \in 1 .. n : u[k] = s[k]
  BY <1>1
<1> HIDE DEF t, u
<1>4. ASSUME NEW k \in 1 .. Len(s) - n
      PROVE  t[k] = Plus(Plus(a, n), k - 1)
  <2>1. n + k \in 1 .. Len(s) /\ k - 1 \in Nat /\ n + (k - 1) = n + k - 1
    BY <1>1
  <2>2. s[n + k] = Plus(a, n + k - 1)
    BY <2>1 DEF Run
  <2>3. Plus(Plus(a, n), k - 1) = Plus(a, n + (k - 1))
    BY <1>1, <2>1, PlusPlus
  <2> QED  BY <1>2, <2>1, <2>2, <2>3
<1>5. Run(t, Plus(a, n))
  BY <1>2, <1>4 DEF Run
<1>6. Run(u, a)
  BY <1>1, <1>3 DEF Run
<1> QED  BY <1>2, <1>3, <1>5, <1>6 DEF t, u

----
(* The inductive invariant.                                                     *)

\* TypeOK in parts, for the provers.
Characters ==
  /\ rx_fifo \in Seq(Char) /\ Len(rx_fifo) <= RxDepth
  /\ tx_fifo \in Seq(Char) /\ Len(tx_fifo) <= TxDepth
  /\ sent \in Char /\ received \in Char /\ put \in Char /\ got \in Char
  /\ rx_buf \in [Index -> Char] /\ tx_buf \in [Index -> Char]
Indices == rx_in \in Index /\ rx_out \in Index /\ tx_in \in Index /\ tx_out \in Index
Alarm ==
  /\ host_inactive \in 0 .. INT_MAX - 2 /\ timeout \in 1 .. INT_MAX
  /\ ac \in BOOLEAN /\ pause_irq \in BOOLEAN
Routine ==
  /\ irq_enable \subseteq {"RE", "WE"}
  /\ isr \in {"none", "control", "receive", "transmit"}
  /\ control \in [wi : BOOLEAN, space : 0 .. TxDepth, ravail : BOOLEAN]
CallRecord ==
  call \in [pc : Labels, nonblock : BOOLEAN, count : 0 .. MaxCount, moved : BOOLEAN,
            in : Index, out : Index]

\* CharactersInOrder, on indices.
RxOrder ==
  /\ Numbered(rx_buf, rx_in, rx_out, got)
  /\ Run(rx_fifo, Plus(got, Filled(rx_in, rx_out)))
  /\ sent = Plus(got, Filled(rx_in, rx_out) + Len(rx_fifo))
TxOrder ==
  /\ Run(tx_fifo, received)
  /\ Numbered(tx_buf, tx_in, tx_out, Plus(received, Len(tx_fifo)))
  /\ put = Plus(received, Len(tx_fifo) + Filled(tx_in, tx_out))

\* The piece a call is about to move was there, or free, when it looked, and still is:
\* the routine moves the other index only, and only away.
ReadPiece ==
  call.pc = "read_advance" =>
    /\ call.out = rx_out /\ call.in # call.out /\ call.count > 0
    /\ Filled(call.in, call.out) <= Filled(rx_in, rx_out)
WritePiece ==
  call.pc = "write_advance" =>
    call.in = tx_in /\ Filled(tx_in, tx_out) <= Filled(call.in, call.out)
\* The space that CONTROL spoke of only grows until it is used.
SpaceIsLeft ==
  isr \in {"receive", "transmit"} /\ control.wi => control.space <= TxDepth - Len(tx_fifo)

\* A call that finds the buffer empty with the interrupt off has moved characters, and
\* therefore will turn it on.
Armed ==
  /\ "RE" \notin irq_enable =>
       rx_in # rx_out \/ (call.pc = "read" /\ call.moved) \/ call.pc = "read_enable"
  /\ "WE" \notin irq_enable =>
       tx_in = tx_out \/ call.pc \in {"write", "write_enable", "write_advance"}

\* The receive interrupt speaks of characters: there are some in the FIFO, or the routine
\* has moved some to the buffer since.
Receives ==
  /\ pause_irq => rx_fifo # <<>>
  /\ isr = "receive" => rx_fifo # <<>> \/ rx_in # rx_out

Types == Characters /\ Indices /\ Alarm /\ Routine /\ CallRecord
IInv == Types /\ RxOrder /\ TxOrder /\ ReadPiece /\ WritePiece /\ SpaceIsLeft /\ Receives
        /\ Armed

----
(* What the actions do to the channels.                                         *)

\* A buffer is empty exactly if its indices are equal.
LEMMA EmptyIs ==
  ASSUME NEW i \in Index, NEW o \in Index
  PROVE  Filled(i, o) = 0 <=> i = o
<1>1. BUF_LEN \in Nat /\ i \in 0 .. BUF_LEN - 1 /\ o \in 0 .. BUF_LEN - 1
  BY SizesAssumption DEF Index
<1> QED  BY <1>1, FilledIs

LEMMA LeastIs ==
  ASSUME NEW a \in Nat, NEW b \in Nat
  PROVE  /\ Least(a, b) \in Nat /\ Least(a, b) <= a /\ Least(a, b) <= b
         /\ Least(a, b) = a \/ Least(a, b) = b
BY DEF Least

\* A full buffer is not empty.
LEMMA FullIs ==
  ASSUME Indices
  PROVE  /\ RxFull => rx_in # rx_out
         /\ ~RxFull => Filled(rx_in, rx_out) + 1 <= BUF_LEN - 1
<1>1. rx_in \in Index /\ rx_out \in Index
  BY DEF Indices
<1>2. BUF_LEN \in Nat /\ BUF_LEN >= 2 /\ 1 \in 0 .. BUF_LEN
  BY SizesAssumption
<1>3. (rx_in + 1) % BUF_LEN = IF rx_in + 1 < BUF_LEN THEN rx_in + 1 ELSE rx_in + 1 - BUF_LEN
  BY <1>1, <1>2, IndexWraps
<1>4. Filled(rx_in, rx_out) = IF rx_in >= rx_out THEN rx_in - rx_out
                              ELSE rx_in - rx_out + BUF_LEN
  BY <1>1, FilledIs
<1> QED  BY <1>1, <1>2, <1>3, <1>4 DEF RxFull, Index

\* A character passes from the FIFO to the buffer.
LEMMA ReceivePasses ==
  ASSUME Characters, Indices, RxOrder, ReceiveCharacter
  PROVE  /\ rx_fifo' \in Seq(Char) /\ Len(rx_fifo') < Len(rx_fifo)
         /\ rx_buf' \in [Index -> Char] /\ rx_in' \in Index
         /\ RxOrder'
         /\ Filled(rx_in', rx_out) = Filled(rx_in, rx_out) + 1
<1> DEFINE f == Filled(rx_in, rx_out)
           l == Len(rx_fifo)
           c == Head(rx_fifo)
<1>1. UNCHANGED <<rx_out, got, sent>>
  BY DEF ReceiveCharacter, host, program
<1>2. /\ rx_buf' = [rx_buf EXCEPT ![rx_in] = c]
      /\ rx_in' = (rx_in + 1) % BUF_LEN
      /\ rx_fifo' = Tail(rx_fifo) /\ rx_fifo # <<>>
  BY DEF ReceiveCharacter
<1>3. /\ rx_in \in Index /\ rx_out \in Index /\ got \in Char /\ rx_fifo \in Seq(Char)
      /\ l \in Nat /\ rx_buf \in [Index -> Char]
  BY DEF Characters, Indices
<1>4. f \in Nat /\ f + 1 <= BUF_LEN - 1
  BY <1>3, FilledNat, FullIs DEF ReceiveCharacter
<1>5. /\ rx_fifo' \in Seq(Char) /\ Len(rx_fifo') = l - 1 /\ l >= 1
      /\ \A k \in 1 .. l - 1 : rx_fifo'[k] = rx_fifo[k + 1]
      /\ c = rx_fifo[1] /\ c \in Char
  BY <1>2, <1>3
<1> HIDE DEF f, l, c
<1>6. /\ \A k \in 1 .. l : rx_fifo[k] = Plus(Plus(got, f), k - 1)
      /\ sent = Plus(got, f + l)
      /\ Numbered(rx_buf, rx_in, rx_out, got)
  BY DEF RxOrder, Run, f, l
<1>7. \A k \in 1 .. l : rx_fifo[k] = Plus(got, f + (k - 1))
  <2> SUFFICES ASSUME NEW k \in 1 .. l  PROVE rx_fifo[k] = Plus(got, f + (k - 1))
    OBVIOUS
  <2>1. k - 1 \in Nat
    BY <1>3
  <2> QED  BY <2>1, <1>3, <1>4, <1>6, PlusPlus
<1>8. c = Plus(got, f)
  <2>1. 1 \in 1 .. l /\ f + (1 - 1) = f
    BY <1>3, <1>4, <1>5
  <2>2. rx_fifo[1] = Plus(got, f + (1 - 1))
    BY <2>1, <1>7
  <2> QED  BY <2>1, <2>2, <1>5
<1>9. \A j \in Index : rx_buf'[j] = IF Filled(j, rx_in) < 1
                                     THEN Plus(got, f + Filled(j, rx_in)) ELSE rx_buf[j]
  <2> SUFFICES ASSUME NEW j \in Index
               PROVE  rx_buf'[j] = IF Filled(j, rx_in) < 1
                                   THEN Plus(got, f + Filled(j, rx_in)) ELSE rx_buf[j]
    OBVIOUS
  <2> DEFINE k == Filled(j, rx_in)
  <2>1. k \in Nat /\ (k = 0 <=> j = rx_in)
    BY <1>3, FilledNat, EmptyIs
  <2>2. rx_buf'[j] = IF j = rx_in THEN c ELSE rx_buf[j]
    BY <1>2, <1>3
  <2> HIDE DEF k
  <2>3. CASE k = 0
    <3>1. f + k = f /\ k < 1
      BY <2>3, <1>4
    <3> QED  BY <3>1, <2>1, <2>2, <2>3, <1>8 DEF k
  <2>4. CASE k # 0
    <3>1. ~(k < 1)
      BY <2>1, <2>4
    <3> QED  BY <3>1, <2>1, <2>2, <2>4 DEF k
  <2> QED  BY <2>3, <2>4
<1>10. /\ rx_in' \in Index /\ Filled(rx_in', rx_out) = f + 1
       /\ Numbered(rx_buf', rx_in', rx_out, got)
  <2> DEFINE new == rx_buf'
             n == 1
  <2>1. n \in 0 .. BUF_LEN - 1 - Filled(rx_in, rx_out)
    BY <1>4, Sizes DEF f
  <2> HIDE DEF new, n
  <2>2. \A j \in Index : new[j] = IF Filled(j, rx_in) < n
                                   THEN Plus(got, Filled(rx_in, rx_out) + Filled(j, rx_in))
                                   ELSE rx_buf[j]
    BY <1>9 DEF f, new, n
  <2>3. Numbered(rx_buf, rx_in, rx_out, got)
    BY <1>6
  <2>4. rx_in \in Index /\ rx_out \in Index /\ got \in Char
    BY <1>3
  <2>5. /\ (rx_in + n) % BUF_LEN \in Index
        /\ Filled((rx_in + n) % BUF_LEN, rx_out) = Filled(rx_in, rx_out) + n
        /\ Numbered(new, (rx_in + n) % BUF_LEN, rx_out, got)
    BY <2>1, <2>2, <2>3, <2>4, RingPuts
  <2> QED  BY <2>5, <1>2 DEF f, new, n
<1>11. Plus(got, f + 1) \in Char /\ f + 1 \in Nat
  BY <1>3, <1>4, PlusIs
<1>12. Run(rx_fifo', Plus(got, f + 1))
  <2> SUFFICES ASSUME NEW k \in 1 .. l - 1
               PROVE  rx_fifo'[k] = Plus(Plus(got, f + 1), k - 1)
    BY <1>5 DEF Run
  <2>1. /\ k + 1 \in 1 .. l /\ k - 1 \in Nat
        /\ f + ((k + 1) - 1) = (f + 1) + (k - 1)
    BY <1>3, <1>4
  <2>2. rx_fifo[k + 1] = Plus(got, f + ((k + 1) - 1))
    BY <2>1, <1>7
  <2>3. Plus(Plus(got, f + 1), k - 1) = Plus(got, (f + 1) + (k - 1))
    BY <2>1, <1>3, <1>11, PlusPlus
  <2> QED  BY <2>1, <2>2, <2>3, <1>5
<1>13. (f + 1) + (l - 1) = f + l
  BY <1>3, <1>4
<1>14. RxOrder'
  BY <1>1, <1>5, <1>6, <1>10, <1>12, <1>13 DEF RxOrder
<1>15. rx_buf' \in [Index -> Char] /\ Len(rx_fifo') < Len(rx_fifo)
  BY <1>2, <1>3, <1>5 DEF l
<1> QED  BY <1>5, <1>10, <1>14, <1>15 DEF f

\* Characters pass from the buffer to the FIFO; WE goes off with the buffer empty.
LEMMA TransmitPasses ==
  ASSUME Characters, Indices, Routine, TxOrder, SpaceIsLeft, Transmit
  PROVE  /\ tx_fifo' \in Seq(Char) /\ Len(tx_fifo') <= TxDepth
         /\ tx_out' \in Index
         /\ TxOrder'
         /\ Filled(tx_in, tx_out') <= Filled(tx_in, tx_out)
         /\ irq_enable' = irq_enable
              \/ (irq_enable' = irq_enable \ {"WE"} /\ tx_in = tx_out')
<1> DEFINE f == Filled(tx_in, tx_out)
           h == Held(tx_buf, tx_in, tx_out)
           n == Least(control.space, f)
           l == Len(tx_fifo)
<1>1. UNCHANGED <<tx_in, tx_buf, put, received>>
  BY DEF Transmit, host, program
<1>t. /\ tx_in \in Index /\ tx_out \in Index /\ received \in Char /\ tx_fifo \in Seq(Char)
      /\ l \in Nat /\ l <= TxDepth
      /\ tx_buf \in [Index -> Char]
  BY DEF Characters, Indices
<1>f. f \in Index /\ f \in Nat /\ f <= BUF_LEN - 1
  <2>1. f \in Index
    BY <1>t, FilledIs
  <2> QED  BY <2>1, Sizes DEF Index
<1>2. CASE ~control.wi
  <2>1. UNCHANGED <<tx_fifo, tx_out, irq_enable>>
    BY <1>2 DEF Transmit
  <2>2. TxOrder'
    BY <1>1, <2>1 DEF TxOrder
  <2> QED  BY <1>1, <1>t, <1>f, <2>1, <2>2
<1>3. CASE control.wi
  <2>1. control.space \in Nat /\ control.space <= TxDepth - l
    BY <1>3, Sizes DEF Routine, SpaceIsLeft, Transmit
  <2>2. /\ n \in Nat /\ n \in 0 .. f /\ n <= control.space
        /\ n < control.space => n = f
    <3> DEFINE c == control.space
    <3> HIDE DEF c, f
    <3>1. c \in Nat /\ f \in Nat
      BY <1>f, <2>1 DEF c
    <3>2. /\ Least(c, f) \in Nat /\ Least(c, f) \in 0 .. f /\ Least(c, f) <= c
          /\ Least(c, f) < c => Least(c, f) = f
      BY <3>1, LeastIs
    <3> QED  BY <3>2 DEF c
  <2>3. /\ tx_fifo' = tx_fifo \o SubSeq(h, 1, n)
        /\ tx_out' = (tx_out + n) % BUF_LEN
        /\ irq_enable' = IF n < control.space THEN irq_enable \ {"WE"} ELSE irq_enable
    BY <1>3 DEF Transmit
  <2> HIDE DEF n, h
  <2>4. Plus(received, l) \in Char
    BY <1>t, Sizes, PlusIs
  <2>5. h \in Seq(Char) /\ Len(h) = f /\ Run(h, Plus(received, l))
    <3>1. Numbered(tx_buf, tx_in, tx_out, Plus(received, l))
      BY DEF TxOrder
    <3> QED  BY <1>t, <2>4, <3>1, HeldRuns DEF h
  <2>6. /\ SubSeq(h, 1, n) \in Seq(Char) /\ Len(SubSeq(h, 1, n)) = n
        /\ Run(SubSeq(h, 1, n), Plus(received, l))
    BY <2>2, <2>4, <2>5, SubSeqRuns
  <2>7. /\ tx_fifo' \in Seq(Char) /\ Len(tx_fifo') = l + n /\ Run(tx_fifo', received)
    <3>1. Run(tx_fifo, received)
      BY DEF TxOrder
    <3> QED  BY <1>t, <2>3, <2>6, <3>1, ConcatRuns
  <2>8. /\ (tx_out + n) % BUF_LEN \in Index
        /\ Filled(tx_in, (tx_out + n) % BUF_LEN) = f - n
        /\ Numbered(tx_buf, tx_in, (tx_out + n) % BUF_LEN, Plus(Plus(received, l), n))
    <3>1. Numbered(tx_buf, tx_in, tx_out, Plus(received, l))
      BY DEF TxOrder
    <3> QED  BY <1>t, <2>2, <2>4, <3>1, RingTakes
  <2>9. Plus(Plus(received, l), n) = Plus(received, l + n)
    BY <1>t, <2>2, PlusPlus
  <2>10. (l + n) + (f - n) = l + f
    BY <1>t, <1>f, <2>2
  <2>11. TxOrder'
    BY <1>1, <2>3, <2>7, <2>8, <2>9, <2>10 DEF TxOrder
  <2>12. n < control.space => tx_in = tx_out'
    <3> SUFFICES ASSUME n < control.space  PROVE tx_in = tx_out'
      OBVIOUS
    <3>1. tx_out' \in Index /\ Filled(tx_in, tx_out') = 0
      BY <1>f, <2>2, <2>3, <2>8
    <3> QED  BY <3>1, <1>t, EmptyIs
  <2>13. Len(tx_fifo') <= TxDepth /\ Filled(tx_in, tx_out') <= f
    BY <1>f, <1>t, <2>1, <2>2, <2>3, <2>7, <2>8, Sizes
  <2> QED  BY <2>3, <2>7, <2>8, <2>11, <2>12, <2>13
<1> QED  BY <1>2, <1>3

\* read() takes the oldest characters, and some.
LEMMA ReadAdvanceTakes ==
  ASSUME Characters, Indices, CallRecord, RxOrder, ReadPiece, ReadAdvance
  PROVE  /\ rx_out' \in Index /\ got' \in Char
         /\ RxOrder'
         /\ \E n \in 1 .. call.count :
              call' = [call EXCEPT !.pc = "read", !.count = @ - n, !.in = 0, !.out = 0,
                                   !.moved = TRUE]
<1> DEFINE f == Filled(rx_in, rx_out)
           l == Len(rx_fifo)
           c == call.count
           piece == IF call.in >= call.out THEN call.in - call.out ELSE BUF_LEN - call.out
           n == Least(c, piece)
<1>1. /\ rx_out' = (call.out + n) % BUF_LEN
      /\ call' = [call EXCEPT !.pc = "read", !.count = @ - n, !.in = 0, !.out = 0,
                              !.moved = @ \/ ("read" = "read" /\ n > 0)]
      /\ got' = Plus(got, n)
      /\ UNCHANGED <<rx_in, rx_buf, rx_fifo, sent>>
  BY DEF ReadAdvance, Again, device, host
<1>2. /\ rx_in \in Index /\ rx_out \in Index /\ got \in Char
      /\ l \in Nat
  BY DEF Characters, Indices
<1>3. /\ call.out = rx_out /\ call.in \in Index /\ call.in # rx_out
      /\ c \in Nat /\ c > 0 /\ Filled(call.in, rx_out) <= f
  <2>1. call.pc = "read_advance"
    BY DEF ReadAdvance, At
  <2> QED  BY <2>1, Sizes DEF ReadPiece, CallRecord
<1>4. f \in Nat /\ f <= BUF_LEN - 1
  BY <1>2, FilledNat
<1>5. piece \in Nat /\ piece > 0 /\ piece <= f
  <2>1. Filled(call.in, rx_out) = IF call.in >= rx_out THEN call.in - rx_out
                                  ELSE call.in - rx_out + BUF_LEN
    BY <1>2, <1>3, FilledIs
  <2> QED  BY <2>1, <1>2, <1>3, <1>4, Sizes DEF Index
<1> HIDE DEF piece, c, f
<1>6. n \in Nat /\ n > 0 /\ n <= f /\ n <= c
  <2>1. c \in Nat /\ piece \in Nat
    BY <1>3, <1>5
  <2>2. /\ Least(c, piece) \in Nat /\ Least(c, piece) <= c /\ Least(c, piece) <= piece
        /\ Least(c, piece) = c \/ Least(c, piece) = piece
    BY <2>1, LeastIs
  <2> QED  BY <2>1, <2>2, <1>3, <1>4, <1>5
<1> HIDE DEF n
<1>7. n \in 0 .. Filled(rx_in, rx_out)
  BY <1>4, <1>6 DEF f
<1>8. /\ (rx_out + n) % BUF_LEN \in Index
      /\ Filled(rx_in, (rx_out + n) % BUF_LEN) = f - n
      /\ Numbered(rx_buf, rx_in, (rx_out + n) % BUF_LEN, Plus(got, n))
  BY <1>2, <1>7, RingTakes DEF RxOrder, f
<1>9. f - n \in Nat /\ n + (f - n) = f
  BY <1>4, <1>6
<1>10. Plus(Plus(got, n), f - n) = Plus(got, f)
  BY <1>2, <1>6, <1>9, PlusPlus
<1>11. (f - n) + l \in Nat /\ n + ((f - n) + l) = f + l
  BY <1>2, <1>4, <1>6
<1>12. Plus(Plus(got, n), (f - n) + l) = Plus(got, f + l)
  BY <1>2, <1>6, <1>11, PlusPlus
<1>13. RxOrder'
  BY <1>1, <1>3, <1>8, <1>10, <1>12 DEF RxOrder, f
<1>14. Plus(got, n) \in Char
  BY <1>2, <1>6, PlusIs
<1>15. n \in 1 .. c /\ (call.moved \/ ("read" = "read" /\ n > 0)) = TRUE
  BY <1>3, <1>6
<1> QED  BY <1>1, <1>3, <1>8, <1>13, <1>14, <1>15 DEF c

\* write() adds the next characters, where there is space for them.
LEMMA WriteAdvancePuts ==
  ASSUME Characters, Indices, CallRecord, TxOrder, WritePiece, WriteAdvance
  PROVE  /\ tx_in' \in Index /\ put' \in Char /\ tx_buf' \in [Index -> Char]
         /\ TxOrder'
         /\ \E n \in 0 .. call.count :
              call' = [call EXCEPT !.pc = "write", !.count = @ - n, !.in = 0, !.out = 0]
<1> DEFINE f == Filled(tx_in, tx_out)
           l == Len(tx_fifo)
           c == call.count
           free == Free(tx_in, call.out)
           n == Least(c, free)
           first == Plus(received, l)
<1>1. call.in = tx_in /\ f <= Filled(tx_in, call.out)
  BY DEF WriteAdvance, At, WritePiece
<1>2. /\ tx_buf' = [i \in Index |-> IF i \in tx_in .. tx_in + n - 1
                                    THEN Plus(put, i - tx_in) ELSE tx_buf[i]]
      /\ tx_in' = (tx_in + n) % BUF_LEN
      /\ call' = [call EXCEPT !.pc = "write", !.count = @ - n, !.in = 0, !.out = 0,
                              !.moved = @ \/ ("write" = "read" /\ n > 0)]
      /\ put' = Plus(put, n)
      /\ UNCHANGED <<tx_out, tx_fifo, received>>
  BY <1>1 DEF WriteAdvance, Again, device, host
<1>3. /\ tx_in \in Index /\ tx_out \in Index /\ received \in Char /\ put \in Char
      /\ l \in Nat /\ tx_buf \in [Index -> Char]
  BY DEF Characters, Indices
<1>4. call.out \in Index /\ c \in Nat /\ call \in [pc : Labels, nonblock : BOOLEAN,
        count : 0 .. MaxCount, moved : BOOLEAN, in : Index, out : Index]
  BY Sizes DEF CallRecord
<1>5. f \in Nat /\ f <= BUF_LEN - 1
  BY <1>3, FilledNat
<1>6. free \in Nat /\ tx_in + free <= BUF_LEN /\ f + free <= BUF_LEN - 1
  <2>1. Filled(tx_in, call.out) = IF tx_in >= call.out THEN tx_in - call.out
                                  ELSE tx_in - call.out + BUF_LEN
    BY <1>3, <1>4, FilledIs
  <2> DEFINE o == call.out
  <2> HIDE DEF o
  <2>2. o \in 0 .. BUF_LEN - 1 /\ tx_in \in 0 .. BUF_LEN - 1 /\ BUF_LEN \in Nat
    BY <1>3, <1>4, Sizes DEF Index, o
  <2>3. f <= IF tx_in >= o THEN tx_in - o ELSE tx_in - o + BUF_LEN
    BY <2>1, <1>1 DEF o
  <2>4. free = IF tx_in < o THEN o - 1 - tx_in
               ELSE IF o > 0 THEN BUF_LEN - tx_in ELSE BUF_LEN - 1 - tx_in
    BY DEF Free, o
  <2> HIDE DEF free, f
  <2> QED  BY <2>2, <2>3, <2>4, <1>5
<1> HIDE DEF free, c
<1>7. n \in Nat /\ n <= free /\ n <= c
  BY <1>4, <1>6, LeastIs
<1> HIDE DEF n, f, first
<1>8. first \in Char /\ put = Plus(first, f)
  BY <1>3, <1>5, PlusIs, PlusPlus DEF TxOrder, first, f
<1>9. ASSUME NEW j \in Index
      PROVE  tx_buf'[j] = IF Filled(j, tx_in) < n THEN Plus(first, f + Filled(j, tx_in))
                          ELSE tx_buf[j]
  <2> DEFINE k == Filled(j, tx_in)
  <2>1. k \in Nat /\ k = IF j >= tx_in THEN j - tx_in ELSE j - tx_in + BUF_LEN
    BY <1>3, FilledIs, Sizes
  <2> HIDE DEF k
  <2>2. k < n <=> j \in tx_in .. tx_in + n - 1
    BY <2>1, <1>3, <1>6, <1>7, Sizes DEF Index
  <2>3. k < n => j - tx_in = k
    BY <2>1, <1>3, <1>5, <1>6, <1>7, Sizes DEF Index
  <2>4. k < n => Plus(put, j - tx_in) = Plus(first, f + k)
    BY <2>1, <2>3, <1>5, <1>8, PlusPlus
  <2>5. tx_buf'[j] = IF j \in tx_in .. tx_in + n - 1 THEN Plus(put, j - tx_in) ELSE tx_buf[j]
    BY <1>2
  <2> QED  BY <2>2, <2>4, <2>5 DEF k
<1>10. n \in 0 .. BUF_LEN - 1 - Filled(tx_in, tx_out)
  BY <1>5, <1>6, <1>7, Sizes DEF f
<1>11. /\ (tx_in + n) % BUF_LEN \in Index
       /\ Filled((tx_in + n) % BUF_LEN, tx_out) = f + n
       /\ Numbered(tx_buf', (tx_in + n) % BUF_LEN, tx_out, first)
  <2>1. Numbered(tx_buf, tx_in, tx_out, first)
    BY DEF TxOrder, first
  <2>2. \A j \in Index : tx_buf'[j] = IF Filled(j, tx_in) < n
                                       THEN Plus(first, Filled(tx_in, tx_out) + Filled(j, tx_in))
                                       ELSE tx_buf[j]
    BY <1>9 DEF f
  <2>3. first \in Char
    BY <1>8
  <2> DEFINE new == tx_buf'
  <2> HIDE DEF new
  <2>4. \A j \in Index : new[j] = IF Filled(j, tx_in) < n
                                  THEN Plus(first, Filled(tx_in, tx_out) + Filled(j, tx_in))
                                  ELSE tx_buf[j]
    BY <2>2 DEF new
  <2>5. /\ (tx_in + n) % BUF_LEN \in Index
        /\ Filled((tx_in + n) % BUF_LEN, tx_out) = Filled(tx_in, tx_out) + n
        /\ Numbered(new, (tx_in + n) % BUF_LEN, tx_out, first)
    <3>1. n \in 0 .. BUF_LEN - 1 - Filled(tx_in, tx_out) /\ tx_in \in Index /\ tx_out \in Index
      BY <1>3, <1>10
    <3> QED  BY <2>1, <2>4, <2>3, <3>1, RingPuts
  <2> QED  BY <2>5 DEF f, new
<1>12. Plus(put, n) = Plus(received, l + (f + n)) /\ Plus(put, n) \in Char
  <2>1. l + f \in Nat /\ l + f + n = l + (f + n)
    BY <1>3, <1>5, <1>7
  <2>2. put = Plus(received, l + f)
    BY DEF TxOrder, f
  <2> QED  BY <2>1, <2>2, <1>3, <1>7, PlusIs, PlusPlus
<1>13. TxOrder'
  BY <1>2, <1>11, <1>12 DEF TxOrder, first
<1>14. tx_buf' \in [Index -> Char]
  <2>1. \A j \in Index : tx_buf'[j] \in Char
    <3> SUFFICES ASSUME NEW j \in Index  PROVE tx_buf'[j] \in Char
      OBVIOUS
    <3> DEFINE k == Filled(j, tx_in)
    <3>1. k \in Nat
      BY <1>3, FilledIs, Sizes
    <3> HIDE DEF k
    <3>2. Plus(first, f + k) \in Char
      BY <3>1, <1>5, <1>8, PlusIs
    <3> QED  BY <3>2, <1>3, <1>9 DEF k
  <2> QED  BY <2>1, <1>2
<1>15. call' = [call EXCEPT !.pc = "write", !.count = @ - n, !.in = 0, !.out = 0]
  <2>1. (call.moved \/ ("write" = "read" /\ n > 0)) = call.moved
    BY <1>4, Zenon
  <2> QED  BY <2>1, <1>2, <1>4
<1>16. n \in 0 .. call.count
  BY <1>4, <1>7 DEF c
<1> QED  BY <1>2, <1>11, <1>12, <1>13, <1>14, <1>15, <1>16

\* The host's characters enter in their order.
LEMMA SentAppends ==
  ASSUME Characters, Indices, RxOrder, Len(rx_fifo) < RxDepth,
         rx_fifo' = Append(rx_fifo, sent), sent' = Plus(sent, 1),
         UNCHANGED <<rx_in, rx_out, rx_buf, got>>
  PROVE  /\ rx_fifo' \in Seq(Char) /\ Len(rx_fifo') <= RxDepth /\ sent' \in Char
         /\ rx_fifo' # <<>>
         /\ RxOrder'
<1> DEFINE f == Filled(rx_in, rx_out)
           l == Len(rx_fifo)
<1>1. /\ rx_in \in Index /\ rx_out \in Index /\ got \in Char /\ rx_fifo \in Seq(Char)
      /\ l \in Nat /\ sent \in Char
  BY DEF Characters, Indices
<1>3. f \in Nat /\ f <= BUF_LEN - 1
  BY <1>1, FilledNat
<1>4. /\ sent = Plus(Plus(got, f), l) /\ Plus(got, f) \in Char
  BY <1>1, <1>3, PlusIs, PlusPlus DEF RxOrder
<1>5. /\ rx_fifo' \in Seq(Char) /\ Len(rx_fifo') = l + 1
      /\ \A k \in 1 .. l : rx_fifo'[k] = rx_fifo[k]
      /\ rx_fifo'[l + 1] = sent
  BY <1>1
<1>6. Run(rx_fifo', Plus(got, f))
  <2> SUFFICES ASSUME NEW k \in 1 .. l + 1
               PROVE  rx_fifo'[k] = Plus(Plus(got, f), k - 1)
    BY <1>5 DEF Run
  <2>1. CASE k \in 1 .. l
    BY <2>1, <1>5 DEF RxOrder, Run
  <2>2. CASE k = l + 1
    <3>1. k - 1 = l
      BY <2>2, <1>1
    <3> QED  BY <2>2, <3>1, <1>4, <1>5
  <2> QED  BY <2>1, <2>2, <1>1
<1>7. sent' = Plus(got, f + (l + 1)) /\ sent' \in Char
  <2>1. (f + l) + 1 = f + (l + 1) /\ f + l \in Nat
    BY <1>1, <1>3
  <2>2. sent = Plus(got, f + l)
    BY DEF RxOrder
  <2> QED  BY <2>1, <2>2, <1>1, PlusIs, PlusPlus
<1>8. RxOrder'
  BY <1>5, <1>6, <1>7 DEF RxOrder
<1>9. Len(rx_fifo') <= RxDepth /\ rx_fifo' # <<>>
  BY <1>1, <1>5, Sizes
<1> QED  BY <1>5, <1>7, <1>8, <1>9

\* The host receives the oldest character.
LEMMA HostReceiveTakes ==
  ASSUME Characters, Indices, TxOrder, HostReceive
  PROVE  /\ tx_fifo' \in Seq(Char) /\ Len(tx_fifo') < Len(tx_fifo) /\ received' \in Char
         /\ TxOrder'
<1> DEFINE f == Filled(tx_in, tx_out)
           l == Len(tx_fifo)
<1>1. /\ tx_in \in Index /\ tx_out \in Index /\ received \in Char /\ tx_fifo \in Seq(Char)
      /\ l \in Nat
  BY DEF Characters, Indices
<1>2. /\ tx_fifo # <<>> /\ tx_fifo' = Tail(tx_fifo) /\ received' = Plus(received, 1)
      /\ UNCHANGED <<tx_in, tx_out, tx_buf, put>>
  BY DEF HostReceive, driver, tx, program
<1>3. f \in Nat /\ f <= BUF_LEN - 1
  BY <1>1, FilledNat
<1>4. /\ tx_fifo' \in Seq(Char) /\ Len(tx_fifo') = l - 1 /\ l >= 1
      /\ \A k \in 1 .. l - 1 : tx_fifo'[k] = tx_fifo[k + 1]
  BY <1>1, <1>2
<1>5. Plus(received, 1) \in Char
  BY <1>1, PlusIs
<1>6. \A k \in Nat : Plus(Plus(received, 1), k) = Plus(received, 1 + k)
  BY <1>1, PlusPlus
<1>7. Run(tx_fifo', received')
  <2> SUFFICES ASSUME NEW k \in 1 .. l - 1
               PROVE  tx_fifo'[k] = Plus(Plus(received, 1), k - 1)
    BY <1>2, <1>4 DEF Run
  <2>1. k + 1 \in 1 .. l /\ k - 1 \in Nat /\ 1 + (k - 1) = k /\ (k + 1) - 1 = k
    BY <1>1
  <2>2. tx_fifo[k + 1] = Plus(received, k)
    BY <2>1 DEF TxOrder, Run
  <2> QED  BY <1>4, <1>6, <2>1, <2>2
<1> HIDE DEF l, f
<1>8. /\ l - 1 \in Nat /\ 1 + (l - 1) = l
      /\ (l - 1) + f \in Nat /\ 1 + ((l - 1) + f) = l + f
  BY <1>1, <1>3, <1>4
<1>9. /\ Plus(Plus(received, 1), l - 1) = Plus(received, l)
      /\ Plus(Plus(received, 1), (l - 1) + f) = Plus(received, l + f)
  BY <1>6, <1>8
<1>10. TxOrder'
  BY <1>2, <1>4, <1>7, <1>9 DEF TxOrder, l, f
<1> QED  BY <1>1, <1>2, <1>4, <1>5, <1>10 DEF l

----
(* Every step keeps the invariant.                                              *)

\* What a channel's order and a piece depend on.
LEMMA RxFrame ==
  ASSUME RxOrder, UNCHANGED <<rx_buf, rx_in, rx_out, rx_fifo, got, sent>>
  PROVE  RxOrder'
BY DEF RxOrder

LEMMA TxFrame ==
  ASSUME TxOrder, UNCHANGED <<tx_buf, tx_in, tx_out, tx_fifo, put, received>>
  PROVE  TxOrder'
BY DEF TxOrder

LEMMA PieceFrame ==
  ASSUME ReadPiece, WritePiece, UNCHANGED <<rx_in, rx_out, tx_in, tx_out, call>>
  PROVE  ReadPiece' /\ WritePiece'
BY DEF ReadPiece, WritePiece

LEMMA ReceivesFrame ==
  ASSUME Receives, UNCHANGED <<rx_fifo, pause_irq>>,
         isr' = "receive" => isr = "receive" /\ UNCHANGED <<rx_in, rx_out>>
  PROVE  Receives'
BY DEF Receives

LEMMA StutterKeeps ==
  ASSUME IInv, UNCHANGED vars
  PROVE  IInv'
<1>1. UNCHANGED <<rx_fifo, tx_fifo, ac, pause_irq, sent, received, irq_enable, rx_buf,
                  rx_in, rx_out, tx_buf, tx_in, tx_out, host_inactive, timeout, isr, control, call, put, got>>
  BY DEF vars, device, host, rx, tx, inactivity, routine, program
<1>2. Types'
  BY <1>1 DEF IInv, Types, Characters, Indices, Alarm, Routine, CallRecord
<1>3. SpaceIsLeft' /\ Armed'
  BY <1>1 DEF IInv, SpaceIsLeft, Armed
<1> QED  BY <1>1, <1>2, <1>3, RxFrame, TxFrame, PieceFrame, ReceivesFrame DEF IInv

LEMMA ReadControlKeeps ==
  ASSUME IInv, ReadControl
  PROVE  IInv'
<1>1. UNCHANGED <<rx_fifo, tx_fifo, ac, pause_irq, sent, received, irq_enable, rx_buf,
                  rx_in, rx_out, tx_buf, tx_in, tx_out, host_inactive, timeout, call, put, got>>
  BY DEF ReadControl, device, host, rx, tx, inactivity, program
<1>2. Characters' /\ Indices' /\ Alarm' /\ CallRecord'
  BY <1>1 DEF IInv, Types, Characters, Indices, Alarm, CallRecord
<1>3. /\ irq_enable' \subseteq {"RE", "WE"}
      /\ isr' \in {"none", "control", "receive", "transmit"}
  BY <1>1 DEF ReadControl, IInv, Types, Routine
<1>4. /\ control'.space \in Nat /\ control'.space <= TxDepth
      /\ control'.wi => control'.space <= TxDepth - Len(tx_fifo)
      /\ control' \in [wi : BOOLEAN, space : 0 .. TxDepth, ravail : BOOLEAN]
  <2>1. Len(tx_fifo) \in Nat /\ Len(tx_fifo) <= TxDepth /\ TxDepth \in Nat
    BY Sizes DEF IInv, Types, Characters
  <2> DEFINE l == Len(tx_fifo)
  <2> HIDE DEF l
  <2>2. CASE WI
    <3>1. control' = [NoControl EXCEPT !.wi = TRUE, !.space = TxDepth - l]
      BY <2>2 DEF ReadControl, l
    <3>2. control' = [wi |-> TRUE, space |-> TxDepth - l, ravail |-> TRUE]
      BY <3>1 DEF NoControl
    <3> QED  BY <2>1, <3>2 DEF l
  <2>3. CASE ~WI
    <3>1. control' = NoControl
      BY <2>3 DEF ReadControl
    <3> QED  BY <2>1, <3>1 DEF NoControl
  <2> QED  BY <2>2, <2>3
<1>5. Routine' /\ SpaceIsLeft'
  BY <1>1, <1>3, <1>4 DEF Routine, SpaceIsLeft
<1>6. Armed'
  BY <1>1 DEF IInv, Armed
<1>7. Receives'
  <2>1. RI => rx_fifo # <<>>
    <3>1. RxDepth - Len(rx_fifo) <= Threshold => Len(rx_fifo) # 0
      BY Sizes DEF IInv, Types, Characters
    <3>2. rx_fifo = <<>> => Len(rx_fifo) = 0
      OBVIOUS
    <3> QED  BY <3>1, <3>2 DEF IInv, Receives, RI
  <2>2. isr' = "receive" => RI
    BY DEF ReadControl
  <2> QED  BY <1>1, <2>1, <2>2 DEF IInv, Receives
<1> QED  BY <1>1, <1>2, <1>5, <1>6, <1>7, RxFrame, TxFrame, PieceFrame DEF IInv, Types

LEMMA ReceiveCharacterKeeps ==
  ASSUME IInv, ReceiveCharacter
  PROVE  IInv'
<1>1. /\ UNCHANGED <<tx_fifo, ac, sent, received, irq_enable, rx_out, tx_buf, tx_in, tx_out,
                     host_inactive, timeout, isr, call, put, got>>
      /\ pause_irq' = FALSE
  BY DEF ReceiveCharacter, host, tx, inactivity, program
<1>2. /\ rx_fifo' \in Seq(Char) /\ Len(rx_fifo') < Len(rx_fifo)
      /\ rx_buf' \in [Index -> Char] /\ rx_in' \in Index
      /\ RxOrder'
      /\ Filled(rx_in', rx_out) = Filled(rx_in, rx_out) + 1
  BY ReceivePasses DEF IInv, Types
<1>3. Len(rx_fifo) \in Nat /\ Len(rx_fifo) <= RxDepth /\ Len(rx_fifo') \in Nat
  BY <1>2 DEF IInv, Types, Characters
<1>4. Characters'
  BY <1>1, <1>2, <1>3, Sizes DEF IInv, Types, Characters
<1>5. Indices' /\ Alarm' /\ CallRecord'
  BY <1>1, <1>2 DEF IInv, Types, Indices, Alarm, CallRecord
<1>6. Routine' /\ control'.wi = control.wi /\ control'.space = control.space
  <2> DEFINE b == Tail(rx_fifo) # <<>>
  <2>1. control' = [control EXCEPT !.ravail = b]
    BY DEF ReceiveCharacter
  <2>2. b \in BOOLEAN
    OBVIOUS
  <2> HIDE DEF b
  <2> QED  BY <1>1, <2>1, <2>2 DEF IInv, Types, Routine
<1>t. rx_in \in Index /\ rx_out \in Index
  BY DEF IInv, Types, Indices
<1>7. Filled(rx_in, rx_out) \in Nat /\ Filled(rx_in', rx_out) \in Nat
  BY <1>2, <1>t, FilledNat
<1>8. rx_in' # rx_out
  <2>1. Filled(rx_in', rx_out) # 0
    BY <1>2, <1>7
  <2> QED  BY <1>2, <1>t, <2>1, EmptyIs
<1>9. ReadPiece'
  <2>1. call.in \in Index /\ call.out \in Index
    BY DEF IInv, Types, CallRecord
  <2>2. Filled(call.in, call.out) \in Nat
    BY <2>1, FilledNat
  <2>3. Filled(call.in, call.out) <= Filled(rx_in, rx_out)
          => Filled(call.in, call.out) <= Filled(rx_in', rx_out)
    BY <1>2, <1>7, <2>2
  <2> QED  BY <1>1, <2>3 DEF IInv, ReadPiece
<1>10. WritePiece' /\ SpaceIsLeft'
  BY <1>1, <1>6 DEF IInv, WritePiece, SpaceIsLeft
<1>11. Receives' /\ Armed'
  BY <1>1, <1>8 DEF IInv, Receives, Armed
<1> QED  BY <1>1, <1>2, <1>4, <1>5, <1>6, <1>9, <1>10, <1>11, TxFrame DEF IInv, Types

\* The routine goes on to the transmit half, and CONTROL's space remains.
LEMMA ControlRemains ==
  ASSUME IInv, isr = "receive", isr' = "transmit", control' = [control EXCEPT !.ravail = TRUE],
         irq_enable' = irq_enable \/ irq_enable' = irq_enable \ {"RE"}, tx_fifo' = tx_fifo
  PROVE  Routine' /\ SpaceIsLeft'
<1>1. control \in [wi : BOOLEAN, space : 0 .. TxDepth, ravail : BOOLEAN]
  BY DEF IInv, Types, Routine
<1>2. /\ control' \in [wi : BOOLEAN, space : 0 .. TxDepth, ravail : BOOLEAN]
      /\ control'.wi = control.wi /\ control'.space = control.space
  BY <1>1
<1>3. irq_enable' \subseteq {"RE", "WE"}
  BY DEF IInv, Types, Routine
<1> QED  BY <1>2, <1>3 DEF IInv, Routine, SpaceIsLeft

LEMMA ReceiveNothingKeeps ==
  ASSUME IInv, ReceiveNothing
  PROVE  IInv'
<1>1. /\ UNCHANGED <<tx_fifo, received, rx_buf, rx_in, rx_out, tx_buf, tx_in, tx_out,
                     host_inactive, timeout, call, put, got>>
      /\ isr = "receive" /\ isr' = "transmit" /\ control' = [control EXCEPT !.ravail = TRUE]
      /\ pause_irq' = FALSE /\ rx_fifo = <<>>
  BY DEF ReceiveNothing, rx, tx, inactivity, program
<1>2. /\ irq_enable' = irq_enable \/ irq_enable' = irq_enable \ {"RE"}
      /\ ac' \in BOOLEAN
  BY DEF ReceiveNothing, IInv, Types, Alarm
<1>3. /\ rx_fifo' \in Seq(Char) /\ Len(rx_fifo') <= RxDepth /\ sent' \in Char
      /\ RxOrder'
  <2>1. CASE UNCHANGED <<rx_fifo, sent>>
    BY <1>1, <2>1, RxFrame DEF IInv, Types, Characters
  <2>2. CASE rx_fifo' = <<sent>> /\ sent' = Plus(sent, 1)
    <3>1. rx_fifo' = Append(rx_fifo, sent)
      BY <1>1, <2>2
    <3>2. Len(rx_fifo) < RxDepth
      BY <1>1, Sizes
    <3>3. Characters /\ Indices /\ RxOrder
      BY DEF IInv, Types
    <3> QED  BY <1>1, <2>2, <3>1, <3>2, <3>3, SentAppends
  <2> QED  BY <2>1, <2>2 DEF ReceiveNothing
<1>4. Characters' /\ Indices' /\ Alarm' /\ CallRecord'
  BY <1>1, <1>2, <1>3 DEF IInv, Types, Characters, Indices, Alarm, CallRecord
<1>5. Routine' /\ SpaceIsLeft'
  BY <1>1, <1>2, ControlRemains
<1>6. Receives' /\ Armed'
  BY <1>1, <1>2 DEF IInv, Receives, Armed
<1> QED  BY <1>1, <1>3, <1>4, <1>5, <1>6, TxFrame, PieceFrame DEF IInv, Types

LEMMA ReceiveFullKeeps ==
  ASSUME IInv, ReceiveFull
  PROVE  IInv'
<1>1. /\ UNCHANGED <<rx_fifo, tx_fifo, ac, pause_irq, sent, received, rx_buf, rx_in, rx_out,
                     tx_buf, tx_in, tx_out, host_inactive, timeout, call, put, got>>
      /\ isr = "receive" /\ isr' = "transmit" /\ control' = [control EXCEPT !.ravail = TRUE]
      /\ irq_enable' = irq_enable \/ irq_enable' = irq_enable \ {"RE"}
  BY DEF ReceiveFull, device, host, rx, tx, inactivity, program
<1>2. Characters' /\ Indices' /\ Alarm' /\ CallRecord'
  BY <1>1 DEF IInv, Types, Characters, Indices, Alarm, CallRecord
<1>3. Routine' /\ SpaceIsLeft'
  BY <1>1, ControlRemains
<1>4. rx_in # rx_out
  BY FullIs DEF ReceiveFull, IInv, Types
<1>5. Receives' /\ Armed'
  BY <1>1, <1>4 DEF IInv, Receives, Armed
<1> QED  BY <1>1, <1>2, <1>3, <1>5, RxFrame, TxFrame, PieceFrame DEF IInv, Types

LEMMA TransmitKeeps ==
  ASSUME IInv, Transmit
  PROVE  IInv'
<1>1. /\ UNCHANGED <<rx_fifo, ac, pause_irq, sent, received, rx_buf, rx_in, rx_out, tx_buf,
                     tx_in, host_inactive, timeout, call, put, got>>
      /\ isr' = "control" /\ control' = NoControl
  BY DEF Transmit, host, rx, inactivity, program
<1>2. /\ tx_fifo' \in Seq(Char) /\ Len(tx_fifo') <= TxDepth
      /\ tx_out' \in Index
      /\ TxOrder'
      /\ Filled(tx_in, tx_out') <= Filled(tx_in, tx_out)
      /\ irq_enable' = irq_enable
           \/ (irq_enable' = irq_enable \ {"WE"} /\ tx_in = tx_out')
  BY TransmitPasses DEF IInv, Types
<1>3. Characters' /\ Indices' /\ Alarm' /\ CallRecord'
  BY <1>1, <1>2 DEF IInv, Types, Characters, Indices, Alarm, CallRecord
<1>4. Routine'
  <2>1. NoControl \in [wi : BOOLEAN, space : 0 .. TxDepth, ravail : BOOLEAN]
    BY Sizes DEF NoControl
  <2>2. irq_enable' \subseteq {"RE", "WE"}
    BY <1>2 DEF IInv, Types, Routine
  <2> QED  BY <1>1, <2>1, <2>2 DEF Routine
<1>t. tx_in \in Index /\ tx_out \in Index
  BY DEF IInv, Types, Indices
<1>5. tx_in = tx_out => tx_in = tx_out'
  <2>1. Filled(tx_in, tx_out) \in Nat /\ Filled(tx_in, tx_out') \in Nat
    BY <1>2, <1>t, FilledNat
  <2>2. Filled(tx_in, tx_out) = 0 => Filled(tx_in, tx_out') = 0
    BY <1>2, <2>1
  <2> QED  BY <1>2, <1>t, <2>2, EmptyIs
<1>6. WritePiece'
  <2>1. call.in \in Index /\ call.out \in Index
    BY DEF IInv, Types, CallRecord
  <2>2. /\ Filled(tx_in, tx_out) \in Nat /\ Filled(tx_in, tx_out') \in Nat
        /\ Filled(call.in, call.out) \in Nat
    BY <1>2, <1>t, <2>1, FilledNat
  <2>3. Filled(tx_in, tx_out) <= Filled(call.in, call.out)
          => Filled(tx_in, tx_out') <= Filled(call.in, call.out)
    BY <1>2, <2>2
  <2> QED  BY <1>1, <2>3 DEF IInv, WritePiece
<1>7. ReadPiece' /\ SpaceIsLeft' /\ Receives'
  BY <1>1 DEF IInv, ReadPiece, SpaceIsLeft, Receives
<1>8. Armed'
  BY <1>1, <1>2, <1>5 DEF IInv, Armed
<1> QED  BY <1>1, <1>2, <1>3, <1>4, <1>6, <1>7, <1>8, RxFrame DEF IInv, Types

\* The alarm, and ioctl(), change nothing the channels depend on.
LEMMA AlarmKeeps ==
  ASSUME IInv, Timeout \/ SetTimeout
  PROVE  IInv'
<1>1. UNCHANGED <<rx_fifo, tx_fifo, pause_irq, sent, received, irq_enable, rx_buf,
                  rx_in, rx_out, tx_buf, tx_in, tx_out, isr, control, call, put, got>>
  BY DEF Timeout, SetTimeout, device, host, rx, tx, routine, program
<1>2. Characters' /\ Indices' /\ Routine' /\ CallRecord'
  BY <1>1 DEF IInv, Types, Characters, Indices, Routine, CallRecord
<1>3. SpaceIsLeft' /\ Receives' /\ Armed'
  BY <1>1 DEF IInv, SpaceIsLeft, Receives, Armed
<1>4. INT_MAX \in Nat /\ INT_MAX >= 3 /\ Timeouts \subseteq Nat
  BY TimeoutsAssumption
<1>5. Alarm'
  <2>1. CASE Timeout
    <3>1. ac' \in BOOLEAN /\ timeout' = timeout
      BY <2>1 DEF Timeout
    <3>2. host_inactive' \in 0 .. INT_MAX - 2
      BY <2>1, <1>4 DEF Timeout, IInv, Types, Alarm
    <3> QED  BY <1>1, <3>1, <3>2 DEF IInv, Types, Alarm
  <2>2. CASE SetTimeout
    <3>1. UNCHANGED <<ac, host_inactive>>
      BY <2>2 DEF SetTimeout, device
    <3>2. PICK t \in Timeouts : timeout' = IF t >= 2 /\ t < INT_MAX THEN t ELSE INT_MAX - 1
      BY <2>2 DEF SetTimeout
    <3>3. timeout' \in 1 .. INT_MAX
      BY <3>2, <1>4
    <3> QED  BY <1>1, <3>1, <3>3 DEF IInv, Types, Alarm
  <2> QED  BY <2>1, <2>2
<1> QED  BY <1>1, <1>2, <1>3, <1>5, RxFrame, TxFrame, PieceFrame DEF IInv, Types

\* A step that only changes the call's locals.
LEMMA LocalKeeps ==
  ASSUME IInv, Local, CallRecord', ReadPiece', WritePiece', Armed'
  PROVE  IInv'
<1>1. UNCHANGED <<rx_fifo, tx_fifo, ac, pause_irq, sent, received, irq_enable, rx_buf,
                  rx_in, rx_out, tx_buf, tx_in, tx_out, host_inactive, timeout, isr, control, put, got>>
  BY DEF Local, device, host, rx, tx, inactivity, routine
<1>2. Characters' /\ Indices' /\ Alarm' /\ Routine'
  BY <1>1 DEF IInv, Types, Characters, Indices, Alarm, Routine
<1>3. SpaceIsLeft' /\ Receives'
  BY <1>1 DEF IInv, SpaceIsLeft, Receives
<1> QED  BY <1>1, <1>2, <1>3, RxFrame, TxFrame DEF IInv, Types

\* A call's record after n characters.
LEMMA RecordOfCall ==
  ASSUME CallRecord, NEW l \in Labels, NEW i \in Index, NEW o \in Index,
         NEW n \in 0 .. call.count, NEW b \in BOOLEAN
  PROVE  /\ [call EXCEPT !.pc = l, !.count = @ - n, !.in = i, !.out = o, !.moved = b] \in
              [pc : Labels, nonblock : BOOLEAN, count : 0 .. MaxCount, moved : BOOLEAN,
               in : Index, out : Index]
         /\ [call EXCEPT !.pc = l, !.count = @ - n, !.in = i, !.out = o] \in
              [pc : Labels, nonblock : BOOLEAN, count : 0 .. MaxCount, moved : BOOLEAN,
               in : Index, out : Index]
<1>1. call.count - n \in 0 .. MaxCount
  BY Sizes DEF CallRecord
<1> QED  BY <1>1 DEF CallRecord

LEMMA NoCallRecord ==
  NoCall \in [pc : Labels, nonblock : BOOLEAN, count : 0 .. MaxCount, moved : BOOLEAN,
              in : Index, out : Index]
<1>1. 0 \in Index /\ 0 \in 0 .. MaxCount
  BY SizesAssumption DEF Index
<1> QED  BY <1>1 DEF NoCall, Labels

\* A call begins.
LEMMA BeginKeeps ==
  ASSUME IInv, NEW l \in {"read", "write", "close"}, NEW counts \in SUBSET (0 .. MaxCount),
         Begin(l, counts)
  PROVE  IInv'
<1>1. Local /\ call.pc = "idle"
  BY DEF Begin, At, Local
<1>2. PICK n \in counts, b \in BOOLEAN :
        call' = [NoCall EXCEPT !.pc = l, !.count = n, !.nonblock = b]
  BY DEF Begin
<1>3. CallRecord' /\ call'.pc = l
  BY <1>2, NoCallRecord DEF CallRecord, Labels, NoCall
<1>4. ReadPiece' /\ WritePiece'
  BY <1>3 DEF ReadPiece, WritePiece
<1>5. Armed'
  BY <1>1, <1>3 DEF IInv, Armed, Local, rx, tx
<1> QED  BY <1>1, <1>3, <1>4, <1>5, LocalKeeps

\* read() looks at the indices.
LEMMA ReadCopyKeeps ==
  ASSUME IInv, ReadCopy
  PROVE  IInv'
<1>1. Local /\ call.pc = "read" /\ CallRecord /\ rx_in \in Index /\ rx_out \in Index
      /\ UNCHANGED <<rx_in, rx_out, tx_in, tx_out, irq_enable>>
  BY DEF ReadCopy, At, Local, IInv, Types, Indices, rx, tx
<1>2. CASE rx_in # rx_out /\ call.count > 0
  <2>1. call' = [call EXCEPT !.pc = "read_advance", !.in = rx_in, !.out = rx_out]
    BY <1>2 DEF ReadCopy
  <2>2. CallRecord'
    BY <1>1, <2>1 DEF CallRecord, Labels
  <2>3. call'.pc = "read_advance" /\ call'.in = rx_in /\ call'.out = rx_out
        /\ call'.count = call.count
    BY <1>1, <2>1 DEF CallRecord
  <2>4. ReadPiece'
    <3>1. Filled(rx_in, rx_out) \in Nat
      BY <1>1, FilledNat
    <3> QED  BY <1>1, <1>2, <2>3, <3>1 DEF ReadPiece
  <2>5. WritePiece' /\ Armed'
    BY <1>1, <1>2, <2>3 DEF IInv, WritePiece, Armed
  <2> QED  BY <1>1, <2>2, <2>4, <2>5, LocalKeeps
<1>3. CASE ~(rx_in # rx_out /\ call.count > 0)
  <2>1. \/ call' = [call EXCEPT !.pc = "read_enable"]
        \/ call' = NoCall /\ ~call.moved
        \/ call' = [call EXCEPT !.pc = "read_spin", !.in = rx_in] /\ ~call.moved
    BY <1>3 DEF ReadCopy, Goto, Return
  <2>2. CallRecord'
    <3>1. CASE call' = [call EXCEPT !.pc = "read_enable"]
      BY <1>1, <3>1 DEF CallRecord, Labels
    <3>2. CASE call' = NoCall
      BY <3>2, NoCallRecord DEF CallRecord
    <3>3. CASE call' = [call EXCEPT !.pc = "read_spin", !.in = rx_in]
      BY <1>1, <3>3 DEF CallRecord, Labels
    <3> QED  BY <2>1, <3>1, <3>2, <3>3
  <2>3. \/ call'.pc = "read_enable"
        \/ call'.pc \in {"idle", "read_spin"} /\ ~call.moved
    <3>1. CASE call' = [call EXCEPT !.pc = "read_enable"]
      BY <1>1, <3>1 DEF CallRecord
    <3>2. CASE call' = NoCall /\ ~call.moved
      BY <3>2 DEF NoCall
    <3>3. CASE call' = [call EXCEPT !.pc = "read_spin", !.in = rx_in] /\ ~call.moved
      <4>1. call'.pc = "read_spin"
        BY <1>1, <3>3 DEF CallRecord
      <4> QED  BY <3>3, <4>1
    <3> QED  BY <2>1, <3>1, <3>2, <3>3, Zenon
  <2>4. ReadPiece' /\ WritePiece'
    BY <2>3 DEF ReadPiece, WritePiece
  <2>5. Armed'
    BY <1>1, <2>3 DEF IInv, Armed
  <2> QED  BY <1>1, <2>2, <2>4, <2>5, LocalKeeps
<1> QED  BY <1>2, <1>3

\* A call spins, stops spinning, or returns.
LEMMA WaitKeeps ==
  ASSUME IInv, ReadSpin \/ ReadCheck \/ WriteSpin \/ WriteCheck \/ CloseWait
  PROVE  IInv'
<1>1. /\ Local /\ CallRecord
      /\ call.pc \in {"read_spin", "read_check", "write_spin", "write_check", "close"}
      /\ UNCHANGED <<rx_in, rx_out, tx_in, tx_out, irq_enable>>
  BY DEF ReadSpin, ReadCheck, WriteSpin, WriteCheck, CloseWait, At, Local, IInv, Types, rx, tx
<1>2. \/ call' = NoCall
      \/ \E l \in {"read_check", "write_check"} : call' = [call EXCEPT !.pc = l]
      \/ \E l \in {"read", "write"} :
           call' = [call EXCEPT !.pc = l, !.count = @ - 0, !.in = 0, !.out = 0,
                                !.moved = @ \/ (l = "read" /\ 0 > 0)]
  BY DEF ReadSpin, ReadCheck, WriteSpin, WriteCheck, CloseWait, Goto, Return, Again
<1>3. CallRecord' /\ call'.pc \in {"idle", "read_check", "write_check", "read", "write"}
  <2>1. CASE call' = NoCall
    BY <2>1, NoCallRecord DEF CallRecord, NoCall
  <2>2. CASE \E l \in {"read_check", "write_check"} : call' = [call EXCEPT !.pc = l]
    BY <2>2, <1>1 DEF CallRecord, Labels
  <2>3. ASSUME NEW l \in {"read", "write"},
               call' = [call EXCEPT !.pc = l, !.count = @ - 0, !.in = 0, !.out = 0,
                                    !.moved = @ \/ (l = "read" /\ 0 > 0)]
        PROVE  CallRecord' /\ call'.pc = l
    <3> DEFINE b == call.moved \/ (l = "read" /\ 0 > 0)
    <3>1. b \in BOOLEAN /\ l \in Labels /\ 0 \in Index
      BY SizesAssumption DEF Labels, Index
    <3>2. 0 \in 0 .. call.count
      BY <1>1, Sizes DEF CallRecord
    <3>3. call' = [call EXCEPT !.pc = l, !.count = @ - 0, !.in = 0, !.out = 0, !.moved = b]
      BY <2>3
    <3> HIDE DEF b
    <3>4. CallRecord'
      BY <1>1, <3>1, <3>2, <3>3, RecordOfCall DEF CallRecord
    <3>5. call'.pc = l
      BY <1>1, <3>3 DEF CallRecord
    <3> QED  BY <3>4, <3>5
  <2> QED  BY <1>2, <2>1, <2>2, <2>3
<1>4. ReadPiece' /\ WritePiece'
  BY <1>3 DEF ReadPiece, WritePiece
<1>5. Armed'
  BY <1>1 DEF IInv, Armed
<1> QED  BY <1>1, <1>3, <1>4, <1>5, LocalKeeps

\* write() looks at the indices.
LEMMA WriteLookKeeps ==
  ASSUME IInv, WriteLook
  PROVE  IInv'
<1>1. Local /\ call.pc = "write" /\ CallRecord /\ tx_in \in Index /\ tx_out \in Index
      /\ UNCHANGED <<rx_in, rx_out, tx_in, tx_out, irq_enable>>
  BY DEF WriteLook, At, Local, IInv, Types, Indices, rx, tx
<1>2. \/ \E l \in {"write_advance", "write_enable"} :
           call' = [call EXCEPT !.in = tx_in, !.out = tx_out, !.pc = l]
      \/ call' = [call EXCEPT !.pc = "write_enable"]
  BY DEF WriteLook
<1>3. /\ CallRecord'
      /\ call'.pc \in {"write_advance", "write_enable"}
      /\ call'.pc = "write_advance" => call'.in = tx_in /\ call'.out = tx_out
  BY <1>1, <1>2 DEF CallRecord, Labels
<1>4. ReadPiece'
  BY <1>3 DEF ReadPiece
<1>5. WritePiece'
  <2>1. Filled(tx_in, tx_out) \in Nat
    BY <1>1, FilledNat
  <2> QED  BY <1>1, <1>3, <2>1 DEF WritePiece
<1>6. Armed'
  BY <1>1, <1>3 DEF IInv, Armed
<1> QED  BY <1>1, <1>3, <1>4, <1>5, <1>6, LocalKeeps

\* read() moves the index past the piece.
LEMMA ReadAdvanceKeeps ==
  ASSUME IInv, ReadAdvance
  PROVE  IInv'
<1>1. UNCHANGED <<rx_fifo, tx_fifo, ac, pause_irq, sent, received, irq_enable, rx_buf,
                  rx_in, tx_buf, tx_in, tx_out, host_inactive, timeout, isr, control, put>>
  BY DEF ReadAdvance, device, host, tx, inactivity, routine
<1>2. /\ rx_out' \in Index /\ got' \in Char /\ RxOrder'
      /\ \E n \in 1 .. call.count :
           call' = [call EXCEPT !.pc = "read", !.count = @ - n, !.in = 0, !.out = 0,
                                !.moved = TRUE]
  BY ReadAdvanceTakes DEF IInv, Types
<1>3. CallRecord' /\ call'.pc = "read" /\ call'.moved
  <2>1. PICK n \in 1 .. call.count :
          call' = [call EXCEPT !.pc = "read", !.count = @ - n, !.in = 0, !.out = 0,
                               !.moved = TRUE]
    BY <1>2
  <2>2. CallRecord /\ n \in 0 .. call.count /\ 0 \in Index
    BY Sizes, SizesAssumption DEF IInv, Types, CallRecord, Index
  <2> DEFINE R == [pc : Labels, nonblock : BOOLEAN, count : 0 .. MaxCount,
                  moved : BOOLEAN, in : Index, out : Index]
  <2>3. [call EXCEPT !.pc = "read", !.count = @ - n, !.in = 0, !.out = 0, !.moved = TRUE] \in R
    <3>1. "read" \in Labels /\ TRUE \in BOOLEAN
      BY DEF Labels
    <3> HIDE DEF R
    <3> QED  BY <2>2, <3>1, RecordOfCall DEF R
  <2>4. CallRecord'
    BY <2>1, <2>3 DEF CallRecord
  <2> QED  BY <2>1, <2>2, <2>4 DEF CallRecord
<1>4. Characters' /\ Indices' /\ Alarm' /\ Routine'
  BY <1>1, <1>2 DEF IInv, Types, Characters, Indices, Alarm, Routine
<1>5. ReadPiece' /\ WritePiece'
  BY <1>3 DEF ReadPiece, WritePiece
<1>6. SpaceIsLeft' /\ Receives'
  <2>1. isr = "none"
    BY DEF ReadAdvance, At, Running
  <2> QED  BY <1>1, <2>1 DEF IInv, SpaceIsLeft, Receives
<1>7. Armed'
  <2>1. call.pc = "read_advance"
    BY DEF ReadAdvance, At
  <2> QED  BY <1>1, <1>3, <2>1 DEF IInv, Armed
<1> QED  BY <1>1, <1>2, <1>3, <1>4, <1>5, <1>6, <1>7, TxFrame DEF IInv, Types

\* write() fills the piece and moves the index past it.
LEMMA WriteAdvanceKeeps ==
  ASSUME IInv, WriteAdvance
  PROVE  IInv'
<1>1. UNCHANGED <<rx_fifo, tx_fifo, ac, pause_irq, sent, received, irq_enable, rx_buf,
                  rx_in, rx_out, tx_out, host_inactive, timeout, isr, control, got>>
  BY DEF WriteAdvance, device, host, rx, inactivity, routine
<1>2. /\ tx_in' \in Index /\ put' \in Char /\ tx_buf' \in [Index -> Char] /\ TxOrder'
      /\ \E n \in 0 .. call.count :
           call' = [call EXCEPT !.pc = "write", !.count = @ - n, !.in = 0, !.out = 0]
  BY WriteAdvancePuts DEF IInv, Types
<1>3. CallRecord' /\ call'.pc = "write"
  <2>1. PICK n \in 0 .. call.count :
          call' = [call EXCEPT !.pc = "write", !.count = @ - n, !.in = 0, !.out = 0]
    BY <1>2
  <2>2. CallRecord /\ 0 \in Index
    BY SizesAssumption DEF IInv, Types, Index
  <2> DEFINE R == [pc : Labels, nonblock : BOOLEAN, count : 0 .. MaxCount,
                  moved : BOOLEAN, in : Index, out : Index]
  <2>3. [call EXCEPT !.pc = "write", !.count = @ - n, !.in = 0, !.out = 0] \in R
    <3>1. "write" \in Labels /\ TRUE \in BOOLEAN
      BY DEF Labels
    <3> HIDE DEF R
    <3> QED  BY <2>2, <3>1, RecordOfCall DEF R
  <2>4. CallRecord'
    BY <2>1, <2>3 DEF CallRecord
  <2> QED  BY <2>1, <2>2, <2>4 DEF CallRecord
<1>4. Characters' /\ Indices' /\ Alarm' /\ Routine'
  BY <1>1, <1>2 DEF IInv, Types, Characters, Indices, Alarm, Routine
<1>5. ReadPiece' /\ WritePiece'
  BY <1>3 DEF ReadPiece, WritePiece
<1>6. SpaceIsLeft' /\ Receives'
  BY <1>1 DEF IInv, SpaceIsLeft, Receives
<1>7. Armed'
  <2>1. call.pc = "write_advance"
    BY DEF WriteAdvance, At
  <2> QED  BY <1>1, <1>3, <2>1 DEF IInv, Armed
<1> QED  BY <1>1, <1>2, <1>3, <1>4, <1>5, <1>6, <1>7, RxFrame DEF IInv, Types

\* A call turns its interrupt on.
LEMMA EnableKeeps ==
  ASSUME IInv, ReadEnable \/ WriteEnable
  PROVE  IInv'
<1>1. UNCHANGED <<rx_fifo, tx_fifo, ac, pause_irq, sent, received, rx_buf, rx_in, rx_out,
                  tx_buf, tx_in, tx_out, host_inactive, timeout, isr, control, put, got>>
  BY DEF ReadEnable, WriteEnable, device, host, rx, tx, inactivity, routine
<1>2. CallRecord /\ Routine
  BY DEF IInv, Types
<1>3. \/ call.pc = "read_enable" /\ irq_enable' = irq_enable \cup {"RE"}
      \/ call.pc = "write_enable" /\ irq_enable' = irq_enable \cup {"WE"}
  BY DEF ReadEnable, WriteEnable, At
<1>4. call' = NoCall \/ call' = [call EXCEPT !.pc = "write_spin"]
  BY DEF ReadEnable, WriteEnable, Return, Goto
<1>5. CallRecord' /\ call'.pc \in {"idle", "write_spin"}
  <2>1. CASE call' = NoCall
    BY <2>1, NoCallRecord DEF CallRecord, NoCall
  <2>2. CASE call' = [call EXCEPT !.pc = "write_spin"]
    BY <2>2, <1>2 DEF CallRecord, Labels
  <2> QED  BY <1>4, <2>1, <2>2
<1>6. Characters' /\ Indices' /\ Alarm'
  BY <1>1 DEF IInv, Types, Characters, Indices, Alarm
<1>7. Routine'
  BY <1>1, <1>2, <1>3 DEF Routine
<1>8. ReadPiece' /\ WritePiece'
  BY <1>5 DEF ReadPiece, WritePiece
<1>9. SpaceIsLeft' /\ Receives'
  BY <1>1 DEF IInv, SpaceIsLeft, Receives
<1>10. Armed'
  BY <1>1, <1>3 DEF IInv, Armed
<1> QED  BY <1>1, <1>5, <1>6, <1>7, <1>8, <1>9, <1>10, RxFrame, TxFrame DEF IInv, Types

\* The host sends, pauses or receives.
LEMMA HostKeeps ==
  ASSUME IInv, HostSend \/ HostPause \/ HostReceive
  PROVE  IInv'
<1>1. /\ UNCHANGED <<irq_enable, rx_buf, rx_in, rx_out, tx_buf, tx_in, tx_out,
                     host_inactive, timeout, isr, control, call, put, got>>
      /\ ac' = TRUE \/ ac' = ac
      /\ pause_irq' = pause_irq \/ (pause_irq' = TRUE /\ rx_fifo # <<>>)
  <2>1. HostPause /\ rx_fifo # <<>> => pause_irq' = TRUE
    BY DEF HostPause
  <2>2. HostPause /\ rx_fifo = <<>> => pause_irq' = pause_irq
    BY DEF HostPause, IInv, Types, Alarm
  <2> QED  BY <2>1, <2>2 DEF HostSend, HostPause, HostReceive, driver, rx, tx, inactivity,
              routine, program
<1>2. Indices' /\ Alarm' /\ Routine' /\ CallRecord'
  BY <1>1 DEF IInv, Types, Indices, Alarm, Routine, CallRecord
<1>3. Armed'
  BY <1>1 DEF IInv, Armed
<1>4. CASE HostSend
  <2>1. UNCHANGED <<tx_fifo, received>>
    BY <1>4 DEF HostSend
  <2>2. /\ rx_fifo' \in Seq(Char) /\ Len(rx_fifo') <= RxDepth /\ sent' \in Char
        /\ rx_fifo' # <<>> /\ RxOrder'
    <3>1. /\ Len(rx_fifo) < RxDepth
          /\ rx_fifo' = Append(rx_fifo, sent) /\ sent' = Plus(sent, 1)
      BY <1>4 DEF HostSend
    <3>2. Characters /\ Indices /\ RxOrder
      BY DEF IInv, Types
    <3> QED  BY <1>1, <3>1, <3>2, SentAppends
  <2>3. Characters' /\ SpaceIsLeft' /\ Receives'
    BY <1>1, <2>1, <2>2 DEF IInv, Types, Characters, SpaceIsLeft, Receives
  <2> QED  BY <1>1, <1>2, <1>3, <2>1, <2>2, <2>3, TxFrame, PieceFrame DEF IInv, Types
<1>5. CASE HostReceive
  <2>1. UNCHANGED <<rx_fifo, pause_irq, sent>>
    BY <1>5 DEF HostReceive
  <2>2. /\ tx_fifo' \in Seq(Char) /\ Len(tx_fifo') < Len(tx_fifo) /\ received' \in Char
        /\ TxOrder'
    BY <1>5, HostReceiveTakes DEF IInv, Types
  <2>3. Len(tx_fifo) \in Nat /\ Len(tx_fifo) <= TxDepth /\ Len(tx_fifo') \in Nat
    BY <2>2 DEF IInv, Types, Characters
  <2>4. Characters'
    BY <1>1, <2>1, <2>2, <2>3, Sizes DEF IInv, Types, Characters
  <2>5. SpaceIsLeft'
    <3>1. control.space \in Nat
      BY Sizes DEF IInv, Types, Routine
    <3> DEFINE c == control.space
    <3> HIDE DEF c
    <3>2. c <= TxDepth - Len(tx_fifo) => c <= TxDepth - Len(tx_fifo')
      BY <2>2, <2>3, <3>1, Sizes DEF c
    <3> QED  BY <1>1, <3>2 DEF IInv, SpaceIsLeft, c
  <2>6. Receives'
    BY <1>1, <2>1, ReceivesFrame DEF IInv
  <2> QED  BY <1>1, <1>2, <1>3, <2>1, <2>2, <2>4, <2>5, <2>6, RxFrame, PieceFrame
           DEF IInv, Types
<1>6. CASE HostPause
  <2>1. UNCHANGED <<rx_fifo, tx_fifo, sent, received>>
    BY <1>6 DEF HostPause, host
  <2>2. Characters' /\ SpaceIsLeft' /\ Receives'
    BY <1>1, <2>1 DEF IInv, Types, Characters, SpaceIsLeft, Receives
  <2> QED  BY <1>1, <1>2, <1>3, <2>1, <2>2, RxFrame, TxFrame, PieceFrame DEF IInv, Types
<1> QED  BY <1>4, <1>5, <1>6

LEMMA NextKeeps ==
  ASSUME IInv, [Next]_vars
  PROVE  IInv'
<1>1. CASE Irq
  BY <1>1, ReadControlKeeps, ReceiveCharacterKeeps, ReceiveNothingKeeps, ReceiveFullKeeps,
     TransmitKeeps DEF Irq
<1>2. CASE Timeout \/ SetTimeout
  BY <1>2, AlarmKeeps
<1>3. CASE Read \/ Write \/ Close
  <2>1. (1 .. MaxCount) \in SUBSET (0 .. MaxCount) /\ {0} \in SUBSET (0 .. MaxCount)
    BY Sizes
  <2> QED  BY <1>3, <2>1, BeginKeeps DEF Read, Write, Close
<1>4. CASE Working
  BY <1>4, ReadCopyKeeps, ReadAdvanceKeeps, WaitKeeps, EnableKeeps, WriteLookKeeps,
     WriteAdvanceKeeps DEF Working
<1>5. CASE HostSend \/ HostPause \/ HostReceive
  BY <1>5, HostKeeps
<1>6. CASE UNCHANGED vars
  BY <1>6, StutterKeeps
<1> QED  BY <1>1, <1>2, <1>3, <1>4, <1>5, <1>6 DEF Next, Program

----
(* The first state, and the theorems.                                           *)

LEMMA InitHolds ==
  ASSUME Init
  PROVE  IInv
<1>1. /\ 0 \in Index /\ 0 \in Char /\ <<>> \in Seq(Char) /\ Len(<<>>) = 0
      /\ 0 <= RxDepth /\ 0 <= TxDepth /\ 0 \in 0 .. TxDepth
  BY SizesAssumption DEF Index, Char
<1>2. Characters /\ Indices
  BY <1>1 DEF Init, Characters, Indices
<1>3. Alarm
  <2>1. /\ INT_MAX \in Nat /\ INT_MAX >= 3 /\ Default \in 1 .. INT_MAX
        /\ 0 \in 0 .. INT_MAX - 2 /\ INT_MAX \in 1 .. INT_MAX
    BY TimeoutsAssumption
  <2> QED  BY <2>1 DEF Init, Alarm
<1>4. Routine
  BY <1>1 DEF Init, Routine, NoControl
<1>5. CallRecord
  BY NoCallRecord DEF Init, CallRecord
<1>6. Filled(0, 0) = 0
  BY <1>1, EmptyIs
<1>7. Plus(0, 0) = 0
  BY Sizes DEF Plus
<1>8. RxOrder /\ TxOrder
  BY <1>1, <1>6, <1>7 DEF Init, RxOrder, TxOrder, Numbered, Run
<1>9. ReadPiece /\ WritePiece /\ SpaceIsLeft /\ Receives /\ Armed
  BY DEF Init, NoCall, ReadPiece, WritePiece, SpaceIsLeft, Receives, Armed
<1> QED  BY <1>2, <1>3, <1>4, <1>5, <1>8, <1>9 DEF IInv, Types

\* The inductive invariant, for buffers and FIFOs of every size (init.c, read.c, write.c).
THEOREM Invariance == Spec => []IInv
<1>1. Init => IInv
  BY InitHolds
<1>2. IInv /\ [Next]_vars => IInv'
  BY NextKeeps
<1> QED  BY <1>1, <1>2, PTL DEF Spec

\* Indices stay in their buffers, the FIFOs in their depths and the count of missed
\* seconds below INT_MAX - 1 (altera_avalon_jtag_uart_state).
THEOREM TypeCorrect == Spec => []TypeOK
<1>1. IInv => TypeOK
  BY DEF IInv, Types, Characters, Indices, Alarm, Routine, CallRecord, TypeOK
<1> QED  BY <1>1, Invariance, PTL

\* The enable bit of an interrupt is off only while there is something in the buffer that
\* ends in its being set, or a call on its way to set it (init.c:156-166, 186-194).
THEOREM StaysArmed == Spec => []InterruptsStayArmed
<1>1. IInv => InterruptsStayArmed
  BY DEF IInv, Armed, InterruptsStayArmed
<1> QED  BY <1>1, Invariance, PTL

LEMMA OrderOfIndices ==
  ASSUME IInv
  PROVE  CharactersInOrder
<1> DEFINE h == Held(rx_buf, rx_in, rx_out)
           g == Held(tx_buf, tx_in, tx_out)
           f == Filled(rx_in, rx_out)
           e == Filled(tx_in, tx_out)
<1>1. /\ rx_fifo \in Seq(Char) /\ Len(rx_fifo) \in Nat
      /\ tx_fifo \in Seq(Char) /\ Len(tx_fifo) \in Nat
      /\ got \in Char /\ received \in Char
      /\ rx_buf \in [Index -> Char] /\ tx_buf \in [Index -> Char]
      /\ rx_in \in Index /\ rx_out \in Index /\ tx_in \in Index /\ tx_out \in Index
  BY DEF IInv, Types, Characters, Indices
<1>2. RxOrder /\ TxOrder
  BY DEF IInv
<1>3. f \in Nat /\ f <= BUF_LEN - 1 /\ e \in Nat /\ e <= BUF_LEN - 1
  BY <1>1, FilledNat
<1>4. Consecutive(Inbound, got, sent)
  <2>1. h \in Seq(Char) /\ Len(h) = f /\ Run(h, got)
    BY <1>1, <1>2, HeldRuns DEF RxOrder
  <2>2. Run(rx_fifo, Plus(got, f)) /\ sent = Plus(got, f + Len(rx_fifo))
    BY <1>2 DEF RxOrder
  <2> HIDE DEF h, f
  <2>4. /\ h \o rx_fifo \in Seq(Char) /\ Len(h \o rx_fifo) = f + Len(rx_fifo)
        /\ Run(h \o rx_fifo, got)
    BY <1>1, <2>1, <2>2, ConcatRuns
  <2>5. Inbound = h \o rx_fifo
    BY DEF Inbound, h
  <2> DEFINE s == h \o rx_fifo
  <2> HIDE DEF s
  <2>6. s \in Seq(Char) /\ Run(s, got) /\ sent = Plus(got, Len(s))
    BY <2>2, <2>4 DEF s
  <2> QED  BY <2>5, <2>6 DEF Consecutive, Run, s
<1>5. Consecutive(Outbound, received, put)
  <2> DEFINE l == Len(tx_fifo)
  <2>0. Plus(received, l) \in Char
    BY <1>1, Sizes, PlusIs
  <2>1. /\ Run(tx_fifo, received) /\ Numbered(tx_buf, tx_in, tx_out, Plus(received, l))
        /\ put = Plus(received, l + e)
    BY <1>2 DEF TxOrder
  <2>2. g \in Seq(Char) /\ Len(g) = e /\ Run(g, Plus(received, l))
    BY <1>1, <2>0, <2>1, HeldRuns
  <2> HIDE DEF g, e
  <2>4. /\ tx_fifo \o g \in Seq(Char) /\ Len(tx_fifo \o g) = l + e
        /\ Run(tx_fifo \o g, received)
    BY <1>1, <2>1, <2>2, ConcatRuns
  <2>5. Outbound = tx_fifo \o g
    BY DEF Outbound, g
  <2> DEFINE s == tx_fifo \o g
  <2> HIDE DEF s, l
  <2>6. s \in Seq(Char) /\ Run(s, received) /\ put = Plus(received, Len(s))
    BY <2>1, <2>4 DEF s
  <2> QED  BY <2>5, <2>6 DEF Consecutive, Run, s
<1> QED  BY <1>4, <1>5 DEF CharactersInOrder

\* Nothing is lost, repeated or reordered in either direction (read.c:122-140,
\* write.c:106-126, init.c:125-184).
THEOREM Ordered == Spec => []CharactersInOrder
<1>1. IInv => CharactersInOrder
  BY OrderOfIndices
<1> QED  BY <1>1, Invariance, PTL
====
