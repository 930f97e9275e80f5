---- MODULE MCSLC3Programs ----
(* The test programs with operands at the edges of the byte and the word, and   *)
(* bubble sort on data that is sorted, reversed, equal, and mixed.              *)
EXTENDS SLC3ProgramRun

MCMemSize == 256
MCStarts == {P!XorStart, P!MultiplierStart, P!SortStart}

\* 2 and 3 choose sort and display in the menu of bubble sort; 1, which lets
\* the user enter sixteen words, is left to the images below.
MCSwitches == {0, 2, 3, 128, 255, 40000}

WithData(f(_)) ==
  [a \in 0 .. 255 |-> IF a \in P!SortData THEN f(a - 74) ELSE P!memory_contents[a]]

Descending(i) == 32767 - 2000 * i
Equal(i) == 7
Zigzag(i) == IF i % 2 = 0 THEN i ELSE 30000 - 7 * i
MCImages == {P!memory_contents, WithData(Descending), WithData(Equal), WithData(Zigzag)}

\* Words more than 2^15 apart, which the entry function accepts from the switches.
Wide(i) == <<24576, 49152, 0>>[(i % 3) + 1]
WideStarts == {P!SortStart}
WideSwitches == {2}
WideImages == {WithData(Wide)}
====
