---- MODULE SLC3ProgramRun ----
(* The test programs of memory_contents.sv running on the instruction set that *)
(* the processor implements: each checkpoint pause shows what the program's    *)
(* comments promise.                                                           *)
EXTENDS SLC3ISA, FiniteSets, Sequences

CONSTANT Starts      \* addresses of the programs to run

P == INSTANCE SLC3Programs

\* The SRAM model holds 256 words: the image of memory_contents.sv, in which the data
\* of the sort may be others, as if a user had entered them.
ASSUME MemSizeAssumption == MemSize = 256
ASSUME ImagesAssumption ==
  \A i \in Images : /\ i \in [0 .. 255 -> Word]
                    /\ \A a \in 0 .. 255 : a \notin P!SortData => i[a] = P!memory_contents[a]
ASSUME SwitchesAssumption == Switches \subseteq Word

VARIABLES
  operand,           \* history: the multiplier's first operand
  shown,             \* history: the words displayed by the display function
  unsorted           \* history: the data when the sort function was called

pvars == <<isavars, operand, shown, unsorted>>

DataOf(m) == [a \in P!SortData |-> m[a]]

\* Instructions 0 to 2 loaded the start address from the switches into R1 and
\* jumped to it; nothing else has run since Reset.
ProgramInit ==
  /\ mode = "running" /\ pc \in Starts
  /\ reg = [r \in RegNum |-> IF r = 1 THEN pc ELSE 0]
  /\ cc = FlagsOf(pc) /\ hex = 0 /\ img \in Images /\ mem = img
  /\ operand = 0 /\ shown = <<>> /\ unsorted = DataOf(mem)

History ==
  /\ operand' = IF pc = P!MultiplierOperand1 THEN reg'[1] ELSE operand
  /\ shown' = IF mode = "running" /\ pc = P!DisplayCheckpoint THEN Append(shown, hex)
              ELSE IF pc = P!SortMenu THEN <<>>
              ELSE shown
  /\ unsorted' = IF pc = P!SortFunction THEN DataOf(mem) ELSE unsorted

\* One instruction or one button; a Reset would start over.
ProgramStep == (Step \/ Press \/ Release) /\ History

\* The clock drives the running program; nobody is obliged to press Continue.
ProgramSpec ==
  ProgramInit /\ [][ProgramStep]_pvars /\ WF_pvars(Step /\ History)

----
\* The XOR test uses only AND and NOT (memory_contents.sv:69): at its read-output
\* checkpoint the display holds the exclusive or of the two operands, which are
\* still in R1 and R2.
Xor(a, b) == a + b - 2 * And(a, b)
XorIsDisplayed ==
  mode = "running" /\ pc = P!XorCheckpoint => hex = Xor(reg[1], reg[2])

\* The multiplier shifts and adds over the low eight bits of its first operand,
\* negating after the sign bit: at its last checkpoint the display holds the
\* 16-bit product of that signed byte and the second operand.
SignedByte(w) == IF w % 256 >= 128 THEN (w % 256) - 256 ELSE w % 256
ProductIsDisplayed ==
  mode = "running" /\ pc = P!MultiplierCheckpoint
    => hex = (SignedByte(operand) * reg[2]) % WordMod

\* When the sort function returns, the data are in order and they are the data
\* that were there (the swap of words 128 to 130 loses none).
Signed(w) == IF w >= 32768 THEN w - WordMod ELSE w
Ordered(f(_)) == \A a, b \in P!SortData : a < b => f(mem[a]) <= f(mem[b])
Unsigned(w) == w
Occurrences(m, v) == Cardinality({a \in P!SortData : m[a] = v})

AtSortReturn == mode = "running" /\ pc = P!SortReturn
SortKeepsData ==
  AtSortReturn =>
    \A a \in P!SortData : Occurrences(mem, unsorted[a]) = Occurrences(unsorted, unsorted[a])

\* "if data[j-1] > data[j]" (memory_contents.sv:167): the result is ascending,
\* whether the comment means signed or unsigned words.
SortOrdersData == AtSortReturn => Ordered(Unsigned) \/ Ordered(Signed)

\* The display function shows the sixteen words in order, one at each pause,
\* although it rewrites the pause instruction between two of them.
DisplayShowsData ==
  mode = "running" /\ pc = 108 =>
    shown = [i \in 1 .. 16 |-> mem[73 + i]]

\* The sort function needs no button and always returns to its caller.
SortReturns == (mode = "running" /\ pc = P!SortFunction) ~> AtSortReturn
====
