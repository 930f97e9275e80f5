---- MODULE LPHashTableProofs ----
(* For every hash function, load limit and number of entries within the         *)
(* assumptions of LPHashTable: probing finds every entry, elems counts them, the *)
(* loops that look for an empty slot find one, and the table implements the bag  *)
(* of pairs of Multimap.  The first half has the inductive invariant and what    *)
(* follows from it; the second counts the pairs of an array, shows that a        *)
(* rebuild keeps the counts, and maps every action to one of Multimap.           *)
EXTENDS LPHashTable, FiniteSetTheorems, WellFoundedInduction, TLAPS

----
(* Probing.                                                                     *)

\* A non-empty set of numbers has a least element.
LEMMA LeastElement ==
  ASSUME NEW T \in SUBSET Nat, T # {}
  PROVE  \E x \in T : \A y \in T : x <= y
<1>1. PICK x \in T : \A y \in T : ~ (<<y, x>> \in OpToRel(<, Nat))
  BY WFMin, NatLessThanWellFounded
<1>2. \A y \in T : ~ (y < x)
  BY <1>1 DEF OpToRel
<1> QED  BY <1>2, x \in Nat, T \subseteq Nat

\* Probing stays in the table, and comes to every slot of it.
LEMMA SlotInTable ==
  ASSUME NEW n \in TableSizes, NEW k \in Keys, NEW d \in Nat
  PROVE  Slot(k, d, n) \in 0 .. n - 1
<1>1. n \in Nat \ {0} /\ hash(k, n) \in Int
  BY SizesAssumption, HashAssumption
<1> QED  BY <1>1, hash(k, n) + d \in Int DEF Slot

LEMMA SlotReachesAll ==
  ASSUME NEW n \in TableSizes, NEW k \in Keys, NEW i \in 0 .. n - 1
  PROVE  \E d \in 0 .. n - 1 : Slot(k, d, n) = i
<1> DEFINE h == hash(k, n)
<1>1. n \in Nat \ {0} /\ h \in 0 .. n - 1
  BY SizesAssumption, HashAssumption
<1> HIDE DEF h
<1>2. CASE h <= i
  <2>1. (h + (i - h)) % n = i
    <3>1. h + (i - h) = i  BY <1>1
    <3>2. i % n = i  BY <1>1
    <3> QED  BY <3>1, <3>2
  <2> QED  BY <2>1, <1>1, <1>2, i - h \in 0 .. n - 1 DEF Slot, h
<1>3. CASE h > i
  <2>1. (h + (i - h + n)) % n = i
    <3>1. h + (i - h + n) = i + n  BY <1>1
    <3>2. (i + n) % n = i  BY <1>1
    <3> QED  BY <3>1, <3>2
  <2> QED  BY <2>1, <1>1, <1>3, i - h + n \in 0 .. n - 1 DEF Slot, h
<1> QED  BY <1>1, <1>2, <1>3

\* Where there is a slot without an entry, every key's probing comes to one.
LEMMA FreeSlotIsReached ==
  ASSUME NEW n \in TableSizes, NEW k \in Keys, NEW t,
         NEW i \in 0 .. n - 1, ~IsEntry(t[i])
  PROVE  HasRoom(t, n, k)
<1> DEFINE T == {d \in 0 .. n - 1 : ~IsEntry(t[Slot(k, d, n)])}
<1>1. T # {} /\ T \in SUBSET Nat
  BY SlotReachesAll
<1>2. PICK d \in T : \A e \in T : d <= e
  BY <1>1, LeastElement
<1>3. d \in 0 .. n - 1 /\ n \in Nat
  BY SizesAssumption
<1>4. \A e \in 0 .. d - 1 : e \in 0 .. n - 1 /\ ~(d <= e)
  BY <1>3
<1>5. \A e \in 0 .. d - 1 : IsEntry(t[Slot(k, e, n)])
  BY <1>2, <1>4
<1> QED  BY <1>2, <1>3, <1>5 DEF HasRoom, FreeAt

\* The slot an entry is put into.
LEMMA FirstFreeIsFree ==
  ASSUME NEW n \in TableSizes, NEW k \in Keys, NEW t, HasRoom(t, n, k)
  PROVE  \E d \in 0 .. n - 1 :
           /\ FirstFree(t, n, k) = Slot(k, d, n)
           /\ FirstFree(t, n, k) \in 0 .. n - 1
           /\ ~IsEntry(t[FirstFree(t, n, k)])
           /\ \A e \in 0 .. d - 1 : IsEntry(t[Slot(k, e, n)])
<1> DEFINE d == CHOOSE d \in 0 .. n - 1 : FreeAt(t, n, k, d)
<1>1. d \in 0 .. n - 1 /\ FreeAt(t, n, k, d)
  BY DEF HasRoom
<1>2. FirstFree(t, n, k) = Slot(k, d, n)
  BY DEF FirstFree
<1>3. d \in Nat
  BY <1>1
<1> HIDE DEF d
<1>4. Slot(k, d, n) \in 0 .. n - 1
  BY <1>3, SlotInTable
<1> QED  BY <1>1, <1>2, <1>4 DEF FreeAt

\* Every entry is reached from its key's hash over slots marked in should_probe.
ReachedAt(t, p, n, k, i) ==
  \E d \in 0 .. n - 1 : i = Slot(k, d, n) /\ \A e \in 0 .. d : p[Slot(k, e, n)]
Reached(t, p, n) == \A i \in 0 .. n - 1 : IsEntry(t[i]) => ReachedAt(t, p, n, t[i].key, i)

\* findIndex() finds an entry with the key exactly if there is one.
LEMMA FindIndexFinds ==
  ASSUME TypeOK, pc \notin {"resize", "undefined"}, Reached(table, should_probe, size),
         NEW k \in Keys
  PROVE  /\ findIndex(k) = -1 =>
              \A i \in EntriesOf(table) : table[i].key # k
         /\ findIndex(k) # -1 => /\ findIndex(k) \in EntriesOf(table)
                                 /\ table[findIndex(k)].key = k
<1> DEFINE T == {d \in 0 .. size - 1 : FoundAt(k, d)}
<1>0. size \in TableSizes /\ size \in Nat /\ DOMAIN table = 0 .. size - 1
  BY SizesAssumption DEF TypeOK
<1>1. CASE T = {}
  <2>1. findIndex(k) = -1
    BY <1>1 DEF findIndex
  <2>2. ASSUME NEW i \in EntriesOf(table), table[i].key = k
        PROVE  FALSE
    <3>1. i \in 0 .. size - 1 /\ IsEntry(table[i])
      BY <1>0 DEF EntriesOf
    <3>2. PICK d \in 0 .. size - 1 :
            i = Slot(k, d, size) /\ \A e \in 0 .. d : should_probe[Slot(k, e, size)]
      BY <2>2, <3>1 DEF Reached, ReachedAt
    <3>3. FoundAt(k, d)
      BY <2>2, <3>1, <3>2 DEF FoundAt
    <3> QED  BY <1>1, <3>3
  <2> QED  BY <2>1, <2>2
<1>2. CASE T # {}
  <2>1. PICK d \in T : \A e \in T : d <= e
    BY <1>2, LeastElement, T \in SUBSET Nat
  <2>2. \A e \in 0 .. d - 1 : ~FoundAt(k, e)
    <3>1. \A e \in 0 .. d - 1 : e \in 0 .. size - 1 /\ ~(d <= e)
      BY <1>0, <2>1
    <3> QED  BY <2>1, <3>1
  <2> DEFINE c == CHOOSE c \in 0 .. size - 1 : FoundAt(k, c) /\ \A e \in 0 .. c - 1 : ~FoundAt(k, e)
  <2>3. c \in 0 .. size - 1 /\ FoundAt(k, c)
    BY <2>1, <2>2
  <2>4. findIndex(k) = Slot(k, c, size)
    BY <1>2 DEF findIndex
  <2>5. c \in Nat
    BY <2>3
  <2> HIDE DEF c
  <2>6. Slot(k, c, size) \in 0 .. size - 1
    BY <1>0, <2>5, SlotInTable
  <2>7. findIndex(k) # -1
    BY <1>0, <2>4, <2>6
  <2> QED  BY <1>0, <2>3, <2>4, <2>6, <2>7 DEF FoundAt, EntriesOf
<1> QED  BY <1>1, <1>2

\* An entry put into the first free slot of its key is reached, and so are the others.
LEMMA PutKeepsReached ==
  ASSUME NEW n \in TableSizes, NEW t, DOMAIN t = 0 .. n - 1, NEW p \in [0 .. n - 1 -> BOOLEAN],
         NEW x \in Entry, Reached(t, p, n), HasRoom(t, n, x.key),
         NEW i, i = FirstFree(t, n, x.key)
  PROVE  Reached([t EXCEPT ![i] = x], [p EXCEPT ![i] = TRUE], n)
<1> DEFINE u == [t EXCEPT ![i] = x]
           q == [p EXCEPT ![i] = TRUE]
<1>0. x.key \in Keys /\ n \in Nat \ {0}
  BY SizesAssumption DEF Entry
<1>1. PICK d \in 0 .. n - 1 :
        /\ i = Slot(x.key, d, n) /\ i \in 0 .. n - 1 /\ ~IsEntry(t[i])
        /\ \A e \in 0 .. d - 1 : IsEntry(t[Slot(x.key, e, n)])
  BY <1>0, FirstFreeIsFree
<1>2. \A j \in 0 .. n - 1 : p[j] => q[j]
  BY <1>1
<1>3. q[i]
  BY <1>1
<1>4. \A j \in 0 .. n - 1 : IsEntry(t[j]) => p[j]
  <2> SUFFICES ASSUME NEW j \in 0 .. n - 1, IsEntry(t[j])  PROVE p[j]
    OBVIOUS
  <2>1. PICK c \in 0 .. n - 1 :
          j = Slot(t[j].key, c, n) /\ \A e \in 0 .. c : p[Slot(t[j].key, e, n)]
    BY DEF Reached, ReachedAt
  <2>2. c \in 0 .. c
    BY <2>1
  <2> QED  BY <2>1, <2>2
<1>5. ASSUME NEW j \in 0 .. n - 1, IsEntry(u[j])
      PROVE  ReachedAt(u, q, n, u[j].key, j)
  <2>1. CASE j = i
    <3>1. u[j] = x
      BY <1>1, <2>1
    <3>2. ASSUME NEW e \in 0 .. d  PROVE q[Slot(x.key, e, n)]
      <4>1. CASE e = d
        BY <1>1, <1>3, <4>1
      <4>2. CASE e # d
        <5>1. e \in 0 .. d - 1 /\ e \in Nat
          BY <1>1, <4>2
        <5>2. Slot(x.key, e, n) \in 0 .. n - 1
          BY <1>0, <5>1, SlotInTable
        <5> QED  BY <1>1, <1>2, <1>4, <5>1, <5>2
      <4> QED  BY <4>1, <4>2
    <3> QED  BY <1>1, <2>1, <3>1, <3>2 DEF ReachedAt
  <2>2. CASE j # i
    <3>1. u[j] = t[j]
      BY <2>2
    <3>2. PICK c \in 0 .. n - 1 :
            j = Slot(t[j].key, c, n) /\ \A e \in 0 .. c : p[Slot(t[j].key, e, n)]
      BY <1>5, <3>1 DEF Reached, ReachedAt
    <3>3. ASSUME NEW e \in 0 .. c  PROVE q[Slot(t[j].key, e, n)]
      <4>1. p[Slot(t[j].key, e, n)]
        BY <3>2
      <4>2. Slot(t[j].key, e, n) = i => q[Slot(t[j].key, e, n)]
        BY <1>3
      <4>3. Slot(t[j].key, e, n) # i => q[Slot(t[j].key, e, n)] = p[Slot(t[j].key, e, n)]
        OBVIOUS
      <4> QED  BY <4>1, <4>2, <4>3
    <3> QED  BY <3>1, <3>2, <3>3 DEF ReachedAt
  <2> QED  BY <2>1, <2>2
<1> QED  BY <1>5 DEF Reached

----
(* Counting.                                                                    *)

LEMMA EntriesAreFinite ==
  ASSUME NEW n \in TableSizes, NEW t, DOMAIN t = 0 .. n - 1
  PROVE  /\ IsFiniteSet(EntriesOf(t)) /\ EntriesOf(t) \subseteq 0 .. n - 1
         /\ Cardinality(EntriesOf(t)) \in Nat
<1>1. n \in Nat /\ IsFiniteSet(0 .. n - 1)
  BY SizesAssumption, FS_Interval
<1>2. EntriesOf(t) \in SUBSET (0 .. n - 1)
  BY DEF EntriesOf
<1>3. IsFiniteSet(EntriesOf(t))
  BY <1>1, <1>2, FS_Subset
<1> QED  BY <1>2, <1>3, FS_CardinalityType

\* A table with fewer entries than slots has a slot without one.
LEMMA FewEntriesLeaveRoom ==
  ASSUME NEW n \in TableSizes, NEW t, DOMAIN t = 0 .. n - 1,
         Cardinality(EntriesOf(t)) < n, NEW k \in Keys
  PROVE  HasRoom(t, n, k)
<1>1. n \in Nat /\ Cardinality(0 .. n - 1) = n
  <2>1. n \in Nat \ {0}  BY SizesAssumption
  <2> QED  BY <2>1, FS_Interval
<1>2. EntriesOf(t) # 0 .. n - 1
  BY <1>1
<1>3. \E i \in 0 .. n - 1 : ~IsEntry(t[i])
  BY <1>2 DEF EntriesOf
<1> QED  BY <1>3, FreeSlotIsReached

LEMMA PutCounts ==
  ASSUME NEW n \in TableSizes, NEW t, DOMAIN t = 0 .. n - 1, NEW x \in Entry,
         NEW i \in 0 .. n - 1, ~IsEntry(t[i])
  PROVE  Cardinality(EntriesOf([t EXCEPT ![i] = x])) = Cardinality(EntriesOf(t)) + 1
<1>1. IsEntry(x)
  BY ValuesAssumption
<1>2. EntriesOf([t EXCEPT ![i] = x]) = EntriesOf(t) \cup {i} /\ i \notin EntriesOf(t)
  BY <1>1 DEF EntriesOf
<1> QED  BY <1>2, EntriesAreFinite, FS_AddElement

LEMMA RemoveCounts ==
  ASSUME NEW n \in TableSizes, NEW t, DOMAIN t = 0 .. n - 1, NEW i \in EntriesOf(t)
  PROVE  /\ Cardinality(EntriesOf([t EXCEPT ![i] = NULL])) = Cardinality(EntriesOf(t)) - 1
         /\ Cardinality(EntriesOf(t)) > 0
<1>1. ~IsEntry(NULL)
  BY DEF IsEntry
<1>2. EntriesOf([t EXCEPT ![i] = NULL]) = EntriesOf(t) \ {i}
  BY <1>1 DEF EntriesOf
<1>3. IsFiniteSet(EntriesOf(t)) /\ Cardinality(EntriesOf(t)) \in Nat
  BY EntriesAreFinite
<1>4. Cardinality(EntriesOf(t)) # 0
  BY <1>3, FS_EmptySet
<1>5. Cardinality(EntriesOf(t) \ {i}) = Cardinality(EntriesOf(t)) - 1
  BY <1>3, FS_RemoveElement
<1>6. Cardinality(EntriesOf([t EXCEPT ![i] = NULL])) = Cardinality(EntriesOf(t)) - 1
  BY <1>2, <1>5, Zenon
<1>7. Cardinality(EntriesOf(t)) > 0
  BY <1>3, <1>4
<1> QED  BY <1>6, <1>7

----
(* The inductive invariant.  TypeOK needs Counting (elems is positive when an   *)
(* entry is removed), the counts need Probing (remove() finds what is there),    *)
(* and Probing needs the counts (there is room to put an entry).                 *)

Rest == EntriesOf(table) \ (0 .. next - 1)    \* not moved yet
Counting ==
  /\ pc \in {"ready", "index"} => elems = Cardinality(EntriesOf(table)) /\ elems <= size
  /\ pc = "place" => elems = Cardinality(EntriesOf(table)) + 1 /\ elems <= size
  /\ pc = "resize" => /\ elems = Cardinality(Rest) + Cardinality(EntriesOf(newTable)) + 1
                      /\ elems <= changedSize
Probing ==
  /\ pc \in {"ready", "place", "index"} => next = 0 /\ Reached(table, should_probe, size)
  /\ pc = "resize" => Reached(newTable, should_probe, changedSize)
  /\ pc = "index" => /\ assign \in Values
                     /\ \E i \in EntriesOf(table) : table[i].key = pending.key
IInv == TypeOK /\ Counting /\ Probing

USE SizesAssumption DEF object, resizing, inserting, vars

LEMMA InitEstablishes == Init => IInv
<1> SUFFICES ASSUME Init  PROVE IInv
  OBVIOUS
<1> USE DEF Init
<1>1. size \in TableSizes /\ size \in Nat \ {0}
  OBVIOUS
<1>2. ~IsEntry(NULL)
  BY DEF IsEntry
<1>3. EntriesOf(table) = {} /\ \A i \in 0 .. size - 1 : ~IsEntry(table[i])
  BY <1>2 DEF EntriesOf, Empty
<1>4. NoPair \in Entry /\ MaxElems \in Nat
  BY ValuesAssumption DEF NoPair, Entry
<1>5. TypeOK
  BY <1>1, <1>4 DEF TypeOK, Empty, NoProbe
<1>6. Counting
  BY <1>1, <1>3, FS_EmptySet DEF Counting
<1>7. Probing
  BY <1>3 DEF Probing, Reached
<1> QED  BY <1>5, <1>6, <1>7 DEF IInv

\* A step into undefined behaviour changes nothing but pc.
LEMMA UndefinedPreserves == IInv /\ Undefined => IInv'
<1> SUFFICES ASSUME IInv, Undefined  PROVE IInv'
  OBVIOUS
<1>1. TypeOK'
  BY DEF IInv, Undefined, TypeOK
<1> QED  BY <1>1 DEF IInv, Undefined, Counting, Probing

LEMMA BeginInsertPreserves ==
  ASSUME IInv, NEW k \in Keys, NEW v \in Values, NEW a \in Values \cup {NULL},
         pc = "ready", BeginInsert(k, v, a)
  PROVE  IInv'
<1> USE DEF IInv, BeginInsert
<1>1. /\ size \in TableSizes /\ size \in Nat \ {0} /\ elems \in Nat /\ MaxElems \in Nat
      /\ elems' = elems + 1 /\ elems' \in 1 .. MaxElems /\ elems <= size
      /\ table' = table /\ size' = size /\ next = 0
      /\ elems = Cardinality(EntriesOf(table))
  BY DEF TypeOK, Counting, Probing
<1>2. pending' \in Entry /\ assign' \in Values \cup {NULL} /\ last' = InCall
  BY DEF Entry
<1>3. CASE shouldResize(elems + 1, size)
  <2>1. /\ pc' = "resize" /\ changedSize' = findPrime(2 * size) /\ next' = 0
        /\ newTable' = Empty(changedSize') /\ should_probe' = NoProbe(changedSize')
    BY <1>3
  <2>2. changedSize' \in TableSizes /\ changedSize' \in Nat /\ changedSize' >= 2 * size
    BY <1>1, <1>3, <2>1, ResizeAssumption
  <2>3. ~IsEntry(NULL)
    BY DEF IsEntry
  <2>4. EntriesOf(newTable') = {} /\ \A i \in 0 .. changedSize' - 1 : ~IsEntry(newTable'[i])
    BY <2>1, <2>3 DEF EntriesOf, Empty
  <2>5. TypeOK'
    BY <1>1, <1>2, <2>1, <2>2 DEF TypeOK, Empty, NoProbe
  <2>6. Counting'
    <3>1. Rest' = EntriesOf(table)
      BY <1>1, <2>1, 0 .. 0 - 1 = {} DEF Rest, EntriesOf
    <3>2. Cardinality(EntriesOf(newTable')) = 0
      BY <2>4, FS_EmptySet
    <3>3. elems' <= changedSize'
      BY <1>1, <2>2
    <3> QED  BY <1>1, <2>1, <3>1, <3>2, <3>3 DEF Counting
  <2>7. Probing'
    BY <2>1, <2>4 DEF Probing, Reached
  <2> QED  BY <2>5, <2>6, <2>7
<1>4. CASE ~shouldResize(elems + 1, size)
  <2>1. pc' = "place" /\ UNCHANGED <<newTable, changedSize, next, should_probe>>
    BY <1>4
  <2>2. elems' <= size'
    BY <1>1, <1>4, ResizeAssumption
  <2>3. TypeOK'
    BY <1>1, <1>2, <2>1 DEF TypeOK
  <2>4. Counting' /\ Probing'
    BY <1>1, <2>1, <2>2 DEF Counting, Probing
  <2> QED  BY <2>3, <2>4
<1> QED  BY <1>3, <1>4

LEMMA MoveEntryPreserves == IInv /\ MoveEntry => IInv'
<1> SUFFICES ASSUME IInv, MoveEntry, ~Undefined  PROVE IInv'
  BY UndefinedPreserves
<1> USE DEF IInv
<1>1. /\ pc = "resize" /\ pc' = "resize" /\ next \in Nat /\ next' = next + 1 /\ next < size
      /\ table[next] # Uninitialised
      /\ UNCHANGED <<size, table, elems, pending, assign, changedSize, last>>
  BY DEF MoveEntry, TypeOK
<1>2. /\ size \in Nat \ {0} /\ size \in TableSizes
      /\ changedSize \in Nat \ {0} /\ changedSize \in TableSizes
      /\ DOMAIN table = 0 .. size - 1 /\ DOMAIN newTable = 0 .. changedSize - 1
      /\ next \in 0 .. size - 1
      /\ should_probe \in [0 .. changedSize - 1 -> BOOLEAN]
  BY <1>1 DEF TypeOK
<1>3. CASE table[next] = NULL
  <2>1. UNCHANGED <<newTable, should_probe>>
    BY <1>1, <1>3 DEF MoveEntry
  <2>2. TypeOK'
    BY <1>1, <1>2, <2>1 DEF TypeOK
  <2>3. Rest' = Rest
    <3>1. ~IsEntry(table[next])
      BY <1>3 DEF IsEntry
    <3>2. 0 .. next' - 1 = (0 .. next - 1) \cup {next}
      BY <1>1
    <3> QED  BY <1>1, <3>1, <3>2 DEF Rest, EntriesOf
  <2>4. Counting' /\ Probing'
    BY <1>1, <2>1, <2>3 DEF Counting, Probing
  <2> QED  BY <2>2, <2>4
<1>4. CASE table[next] # NULL
  <2> DEFINE x == table[next]
             i == FirstFree(newTable, changedSize, x.key)
  <2>1. x \in Entry /\ x.key \in Keys
    BY <1>1, <1>2, <1>4 DEF TypeOK, Entry
  <2>2. /\ HasRoom(newTable, changedSize, x.key)
        /\ newTable' = [newTable EXCEPT ![i] = x]
        /\ should_probe' = [should_probe EXCEPT ![i] = TRUE]
    BY <1>1, <1>4 DEF MoveEntry
  <2>3. i \in 0 .. changedSize - 1 /\ ~IsEntry(newTable[i])
    BY <1>2, <2>1, <2>2, FirstFreeIsFree
  <2>4. Reached(newTable', should_probe', changedSize)
    BY <1>1, <1>2, <2>1, <2>2, PutKeepsReached DEF Probing
  <2>5. Cardinality(EntriesOf(newTable')) = Cardinality(EntriesOf(newTable)) + 1
    BY <1>2, <2>1, <2>2, <2>3, PutCounts
  <2> HIDE DEF i
  <2>6. TypeOK'
    <3>1. newTable' \in [0 .. changedSize' - 1 -> Entry \cup {NULL}]
      BY <1>1, <1>2, <2>1, <2>2, <2>3 DEF TypeOK
    <3>2. should_probe' \in [0 .. changedSize' - 1 -> BOOLEAN]
      BY <1>1, <1>2, <2>2, <2>3
    <3> QED  BY <1>1, <1>2, <3>1, <3>2 DEF TypeOK
  <2>7. Cardinality(Rest') = Cardinality(Rest) - 1 /\ Cardinality(Rest) \in Nat
    <3>1. next \in Rest
      BY <1>2, <2>1, ValuesAssumption DEF Rest, EntriesOf
    <3>2. 0 .. next' - 1 = (0 .. next - 1) \cup {next}
      BY <1>1
    <3>3. Rest' = Rest \ {next}
      BY <1>1, <3>2 DEF Rest, EntriesOf
    <3>4. IsFiniteSet(EntriesOf(table)) /\ Rest \in SUBSET EntriesOf(table)
      BY <1>2, EntriesAreFinite DEF Rest
    <3>5. IsFiniteSet(Rest)
      BY <3>4, FS_Subset
    <3>6. Cardinality(Rest \ {next}) = Cardinality(Rest) - 1
      BY <3>1, <3>5, FS_RemoveElement
    <3> QED  BY <3>3, <3>5, <3>6, FS_CardinalityType
  <2>8. Counting'
    <3>1. Cardinality(EntriesOf(newTable)) \in Nat
      BY <1>2, EntriesAreFinite
    <3>2. /\ elems = Cardinality(Rest) + Cardinality(EntriesOf(newTable)) + 1
          /\ elems <= changedSize
      BY <1>1 DEF Counting
    <3> QED  BY <1>1, <2>5, <2>7, <3>1, <3>2 DEF Counting
  <2>9. Probing'
    BY <1>1, <2>4 DEF Probing
  <2> QED  BY <2>6, <2>8, <2>9
<1> QED  BY <1>3, <1>4

LEMMA EndResizePreserves == IInv /\ EndResize => IInv'
<1> SUFFICES ASSUME IInv, EndResize  PROVE IInv'
  OBVIOUS
<1> USE DEF IInv
<1>1. /\ pc = "resize" /\ pc' = "place" /\ next = size /\ next' = 0
      /\ table' = newTable /\ size' = changedSize /\ newTable' = Empty(changedSize)
      /\ UNCHANGED <<should_probe, elems, pending, assign, changedSize, last>>
  BY DEF EndResize
<1>2. size \in Nat \ {0} /\ changedSize \in Nat \ {0} /\ DOMAIN table = 0 .. size - 1
  BY DEF TypeOK
<1>3. TypeOK'
  BY <1>1, <1>2 DEF TypeOK, Empty
<1>4. Rest = {}
  BY <1>1, <1>2 DEF Rest, EntriesOf
<1>5. Counting'
  <2>1. Cardinality(Rest) = 0
    BY <1>4, FS_EmptySet
  <2>2. elems = Cardinality(Rest) + Cardinality(EntriesOf(newTable)) + 1 /\ elems <= changedSize
    BY <1>1 DEF Counting
  <2>3. Cardinality(EntriesOf(newTable)) \in Nat
    BY EntriesAreFinite DEF TypeOK
  <2>4. Cardinality(EntriesOf(table')) = Cardinality(EntriesOf(newTable))
    BY <1>1
  <2> QED  BY <1>1, <2>1, <2>2, <2>3, <2>4 DEF Counting
<1>6. Probing'
  BY <1>1 DEF Probing
<1> QED  BY <1>3, <1>5, <1>6

LEMMA PlacePreserves == IInv /\ Place => IInv'
<1> SUFFICES ASSUME IInv, Place, ~Undefined  PROVE IInv'
  BY UndefinedPreserves
<1> USE DEF IInv
<1> DEFINE i == FirstFree(table, size, pending.key)
<1>1. /\ pc = "place" /\ HasRoom(table, size, pending.key)
      /\ table' = [table EXCEPT ![i] = pending]
      /\ should_probe' = [should_probe EXCEPT ![i] = TRUE]
      /\ UNCHANGED <<size, elems, newTable, changedSize, next>>
      /\ last' = <<"insert", pending.key, pending.value>>
  BY DEF Place
<1>2. \/ Return
      \/ pc' = "index" /\ pending' = pending /\ assign' = assign /\ assign # NULL
  BY DEF Place
<1>3. /\ size \in Nat \ {0} /\ size \in TableSizes /\ DOMAIN table = 0 .. size - 1
      /\ pending \in Entry /\ pending.key \in Keys /\ pending.value \in Values
      /\ should_probe \in [0 .. size - 1 -> BOOLEAN] /\ next = 0
  BY <1>1 DEF TypeOK, Entry, Probing
<1>4. i \in 0 .. size - 1 /\ ~IsEntry(table[i])
  BY <1>1, <1>3, FirstFreeIsFree
<1>5. Reached(table', should_probe', size)
  BY <1>1, <1>3, PutKeepsReached DEF Probing
<1>6. Cardinality(EntriesOf(table')) = Cardinality(EntriesOf(table)) + 1
  BY <1>1, <1>3, <1>4, PutCounts
<1> HIDE DEF i
<1>7. table'[i] = pending /\ i \in EntriesOf(table')
  BY <1>1, <1>3, <1>4, ValuesAssumption DEF EntriesOf
<1>8. /\ pc' \in {"ready", "index"} /\ pending' \in Entry /\ assign' \in Values \cup {NULL}
      /\ pc' = "index" => pending' = pending /\ assign' \in Values
  BY <1>1, <1>2, <1>3, ValuesAssumption DEF Return, NoPair, Entry, TypeOK
<1>9. TypeOK'
  <2>1. table' \in [0 .. size' - 1 -> Entry \cup {NULL, Uninitialised}]
    BY <1>1, <1>3, <1>4 DEF TypeOK
  <2>2. should_probe' \in [0 .. size' - 1 -> BOOLEAN]
    BY <1>1, <1>3, <1>4
  <2>3. last' \in {"insert", "assign", "find"} \X Keys \X Values
    BY <1>1, <1>3
  <2> QED  BY <1>1, <1>3, <1>8, <2>1, <2>2, <2>3 DEF TypeOK
<1>10. Counting'
  BY <1>1, <1>6, <1>8 DEF Counting
<1>11. Probing'
  BY <1>1, <1>3, <1>5, <1>7, <1>8 DEF Probing
<1> QED  BY <1>9, <1>10, <1>11

LEMMA AssignPreserves ==
  ASSUME IInv, pc \in {"ready", "index"}, NEW k \in Keys, NEW v \in Values,
         NEW i, i = findIndex(k), AssignAt(i, k, v)
  PROVE  IInv'
<1> SUFFICES ASSUME ~Undefined  PROVE IInv'
  BY UndefinedPreserves
<1> USE DEF IInv
<1>1. /\ i # -1 /\ table' = [table EXCEPT ![i].value = v] /\ Return
      /\ last' = <<"assign", k, v>>
      /\ UNCHANGED <<size, should_probe, elems, newTable, changedSize, next>>
  BY DEF AssignAt
<1>2. /\ size \in Nat \ {0} /\ DOMAIN table = 0 .. size - 1 /\ next = 0
      /\ should_probe \in [0 .. size - 1 -> BOOLEAN]
      /\ table \in [0 .. size - 1 -> Entry \cup {NULL, Uninitialised}]
      /\ Reached(table, should_probe, size)
  BY DEF TypeOK, Probing
<1>3. i \in EntriesOf(table)
  BY <1>1, <1>2, FindIndexFinds
<1>4. i \in 0 .. size - 1 /\ table[i] \in Entry
  BY <1>2, <1>3 DEF EntriesOf, IsEntry
<1>5. table'[i] \in Entry /\ table'[i].key = table[i].key /\ IsEntry(table'[i])
  <2>1. table'[i] = [table[i] EXCEPT !.value = v]
    BY <1>1, <1>2, <1>4
  <2>2. table'[i] \in Entry /\ table'[i].key = table[i].key
    BY <2>1, <1>4 DEF Entry
  <2> QED  BY <2>2, ValuesAssumption
<1>6. \A j \in 0 .. size - 1 : j # i => table'[j] = table[j]
  BY <1>1, <1>2
<1>7. DOMAIN table' = 0 .. size - 1
  BY <1>1, <1>2
<1>8. TypeOK'
  <2>1. table' \in [0 .. size - 1 -> Entry \cup {NULL, Uninitialised}]
    <3>1. \A j \in 0 .. size - 1 : table'[j] \in Entry \cup {NULL, Uninitialised}
      BY <1>2, <1>5, <1>6
    <3>2. table' = [j \in 0 .. size - 1 |-> table'[j]]
      BY <1>1, <1>2
    <3> QED  BY <3>1, <3>2
  <2>2. pc' = "ready" /\ pending' \in Entry /\ assign' = NULL
    BY <1>1, ValuesAssumption DEF Return, NoPair, Entry
  <2>3. last' \in {"insert", "assign", "find"} \X Keys \X Values
    BY <1>1
  <2> QED  BY <1>1, <1>2, <2>1, <2>2, <2>3 DEF TypeOK
<1>9. EntriesOf(table') = EntriesOf(table)
  BY <1>2, <1>3, <1>5, <1>6, <1>7 DEF EntriesOf
<1>10. Counting'
  BY <1>1, <1>9 DEF Counting, Return
<1>11. Reached(table', should_probe', size')
  <2> SUFFICES ASSUME NEW j \in 0 .. size - 1, IsEntry(table'[j])
               PROVE  ReachedAt(table', should_probe, size, table'[j].key, j)
    BY <1>1 DEF Reached, ReachedAt
  <2>1. IsEntry(table[j]) /\ table'[j].key = table[j].key
    BY <1>3, <1>5, <1>6 DEF EntriesOf
  <2> QED  BY <1>2, <2>1 DEF Reached, ReachedAt
<1>12. Probing'
  BY <1>1, <1>2, <1>11 DEF Probing, Return
<1> QED  BY <1>8, <1>10, <1>12

LEMMA SubscriptPreserves ==
  ASSUME IInv, NEW k \in Keys, NEW v \in Values, Subscript(k, v)
  PROVE  IInv'
<1>1. CASE findIndex(k) # -1
  BY <1>1, AssignPreserves DEF Subscript
<1>2. CASE findIndex(k) = -1
  BY <1>2, BeginInsertPreserves, ValuesAssumption DEF Subscript
<1> QED  BY <1>1, <1>2

LEMMA SubscriptInsertedPreserves == IInv /\ SubscriptInserted => IInv'
<1> SUFFICES ASSUME IInv, SubscriptInserted  PROVE IInv'
  OBVIOUS
<1>1. pc = "index" /\ pending.key \in Keys /\ assign \in Values
  BY DEF SubscriptInserted, IInv, TypeOK, Entry, Probing
<1> QED  BY <1>1, AssignPreserves DEF SubscriptInserted

LEMMA RemovePreserves ==
  ASSUME IInv, NEW k \in Keys, Remove(k)
  PROVE  IInv'
<1> USE DEF IInv
<1>1. /\ pc = "ready" /\ last' = <<"remove", k>>
      /\ UNCHANGED <<size, should_probe, pc, pending, assign, newTable, changedSize, next>>
  BY DEF Remove
<1>2. /\ size \in Nat \ {0} /\ size \in TableSizes /\ DOMAIN table = 0 .. size - 1 /\ next = 0
      /\ Reached(table, should_probe, size)
      /\ elems = Cardinality(EntriesOf(table)) /\ elems <= size /\ elems \in Nat
  BY <1>1 DEF TypeOK, Probing, Counting
<1>3. last' \in {<<"remove", kk>> : kk \in Keys}
  BY <1>1
<1>4. CASE findIndex(k) = -1
  <2>1. UNCHANGED <<table, elems>>
    BY <1>4 DEF Remove
  <2>2. TypeOK'
    BY <1>1, <1>3, <2>1 DEF TypeOK
  <2> QED  BY <1>1, <2>1, <2>2 DEF Counting, Probing
<1>5. CASE findIndex(k) # -1
  <2> DEFINE i == findIndex(k)
  <2>1. i \in EntriesOf(table) /\ i \in 0 .. size - 1
    BY <1>1, <1>2, <1>5, FindIndexFinds DEF EntriesOf
  <2>2. table' = [table EXCEPT ![i] = NULL] /\ elems' = elems - 1
    BY <1>5 DEF Remove
  <2> HIDE DEF i
  <2>3. /\ Cardinality(EntriesOf(table')) = Cardinality(EntriesOf(table)) - 1
        /\ Cardinality(EntriesOf(table)) > 0
    BY <1>2, <2>1, <2>2, RemoveCounts
  <2>4. elems' \in Nat /\ elems' < elems /\ elems' = Cardinality(EntriesOf(table'))
    BY <1>2, <2>2, <2>3
  <2>5. TypeOK'
    <3>1. table' \in [0 .. size - 1 -> Entry \cup {NULL, Uninitialised}]
      BY <2>2 DEF TypeOK
    <3>2. elems' \in 0 .. MaxElems
      BY <2>4 DEF TypeOK
    <3> QED  BY <1>1, <1>3, <3>1, <3>2 DEF TypeOK
  <2>6. Counting'
    BY <1>1, <1>2, <2>4 DEF Counting
  <2>7. Probing'
    <3>1. ~IsEntry(NULL)
      BY DEF IsEntry
    <3>2. \A j \in 0 .. size - 1 : IsEntry(table'[j]) => table'[j] = table[j]
      BY <1>2, <2>2, <3>1
    <3>3. Reached(table', should_probe, size)
      BY <1>2, <3>2 DEF Reached, ReachedAt
    <3> QED  BY <1>1, <1>2, <3>3 DEF Probing
  <2> QED  BY <2>5, <2>6, <2>7
<1> QED  BY <1>4, <1>5

LEMMA LookPreserves ==
  ASSUME IInv, NEW k \in Keys, Find(k) \/ KeyExists(k)
  PROVE  IInv'
<1> USE DEF IInv
<1>1. pc = "ready" /\ UNCHANGED <<object, pc, inserting, resizing>>
  BY DEF Find, KeyExists
<1>2. last' \in ({"find"} \X Keys \X Values) \cup ({"keyExists"} \X Keys \X BOOLEAN)
  <2>1. CASE Find(k)
    <3>1. findIndex(k) # -1 => table[findIndex(k)].value \in Values
      <4> SUFFICES ASSUME findIndex(k) # -1  PROVE table[findIndex(k)].value \in Values
        OBVIOUS
      <4>1. findIndex(k) \in EntriesOf(table)
        BY <1>1, FindIndexFinds DEF Probing
      <4>2. table[findIndex(k)] \in Entry
        BY <1>1, <4>1 DEF TypeOK, EntriesOf, IsEntry
      <4> QED  BY <4>2 DEF Entry
    <3> DEFINE answer == IF findIndex(k) # -1 THEN table[findIndex(k)].value ELSE Default
    <3>2. answer \in Values
      BY <3>1, ValuesAssumption
    <3>3. last' = <<"find", k, answer>>
      BY <2>1 DEF Find
    <3> HIDE DEF answer
    <3> QED  BY <3>2, <3>3
  <2>2. CASE KeyExists(k)
    <3> DEFINE answer == findIndex(k) # -1
    <3>1. answer \in BOOLEAN /\ last' = <<"keyExists", k, answer>>
      BY <2>2 DEF KeyExists
    <3> HIDE DEF answer
    <3> QED  BY <3>1
  <2> QED  BY <2>1, <2>2
<1>3. TypeOK'
  BY <1>1, <1>2 DEF TypeOK
<1> QED  BY <1>1, <1>3 DEF Counting, Probing

LEMMA ClearPreserves == IInv /\ Clear => IInv'
<1> SUFFICES ASSUME IInv, Clear, ~Undefined  PROVE IInv'
  BY UndefinedPreserves
<1> USE DEF IInv
<1>1. /\ pc = "ready" /\ size' = 17 /\ elems' = 0 /\ last' = <<"clear">>
      /\ table' = [i \in 0 .. 16 |-> Uninitialised] /\ should_probe' = NoProbe(17)
      /\ UNCHANGED <<pc, pending, assign, newTable, changedSize, next>>
  BY DEF Clear
<1>2. ~IsEntry(Uninitialised)
  BY DEF IsEntry
<1>3. EntriesOf(table') = {} /\ \A i \in 0 .. 16 : ~IsEntry(table'[i])
  BY <1>1, <1>2 DEF EntriesOf
<1>4. next = 0 /\ 17 - 1 = 16
  BY <1>1 DEF Probing
<1>5. TypeOK'
  BY <1>1, <1>4 DEF TypeOK, NoProbe
<1>6. Counting'
  <2>1. Cardinality(EntriesOf(table')) = 0
    BY <1>3, FS_EmptySet
  <2>2. pc' = "ready" /\ elems' = 0 /\ elems' <= size'
    BY <1>1
  <2>3. elems' = Cardinality(EntriesOf(table'))
    BY <2>1, <2>2
  <2> HIDE DEF IInv
  <2> QED  BY <2>2, <2>3 DEF Counting
<1>7. Probing'
  BY <1>1, <1>3, <1>4 DEF Probing, Reached
<1> QED  BY <1>5, <1>6, <1>7

\* Every action keeps the invariant.
LEMMA NextPreserves == IInv /\ [Next]_vars => IInv'
<1> SUFFICES ASSUME IInv, [Next]_vars  PROVE IInv'
  OBVIOUS
<1>1. ASSUME NEW k \in Keys, NEW v \in Values, Insert(k, v)  PROVE IInv'
  BY <1>1, BeginInsertPreserves DEF Insert
<1>2. ASSUME NEW k \in Keys, NEW v \in Values, Subscript(k, v)  PROVE IInv'
  BY <1>2, SubscriptPreserves
<1>3. ASSUME NEW k \in Keys, Remove(k)  PROVE IInv'
  BY <1>3, RemovePreserves
<1>4. ASSUME NEW k \in Keys, Find(k) \/ KeyExists(k)  PROVE IInv'
  BY <1>4, LookPreserves
<1>5. CASE UNCHANGED vars
  BY <1>5 DEF IInv, TypeOK, Counting, Probing, Rest
<1> QED
  BY <1>1, <1>2, <1>3, <1>4, <1>5, MoveEntryPreserves, EndResizePreserves, PlacePreserves,
     SubscriptInsertedPreserves, ClearPreserves DEF Next

\* Types, counts and probing hold together in every reachable state.
THEOREM Invariance == Spec => []IInv
<1> QED  BY InitEstablishes, NextPreserves, PTL DEF Spec

----
(* What follows from it.                                                        *)

\* The table keeps its shape: its arrays have the size it has, elems is never negative.
THEOREM TypeCorrect == Spec => []TypeOK
<1> QED  BY Invariance, PTL DEF IInv

\* Every lookup finds a key exactly if an entry has it, and operator[] finds what it
\* has just inserted.
THEOREM EntriesFound == Spec => []EveryEntryIsFound
<1>1. IInv => EveryEntryIsFound
  <2> SUFFICES ASSUME IInv  PROVE EveryEntryIsFound
    OBVIOUS
  <2>1. ASSUME pc \in {"ready", "index"}, NEW k \in Keys
        PROVE  findIndex(k) # -1 <=> \E i \in EntriesOf(table) : table[i].key = k
    BY <2>1, FindIndexFinds DEF IInv, Probing
  <2>2. pc = "index" => pending.key \in Keys /\ \E i \in EntriesOf(table) : table[i].key = pending.key
    BY DEF IInv, TypeOK, Entry, Probing
  <2> QED  BY <2>1, <2>2 DEF EveryEntryIsFound
<1> QED  BY <1>1, Invariance, PTL

\* elems is the number of entries, after any sequence of calls.
THEOREM ElemsCorrect == Spec => []ElemsCountsEntries
<1>1. IInv => ElemsCountsEntries
  BY DEF IInv, Counting, ElemsCountsEntries
<1> QED  BY <1>1, Invariance, PTL

\* The loops that look for an empty slot find one.
THEOREM SlotsLeft == Spec => []SlotIsLeft
<1>1. IInv => SlotIsLeft
  <2> SUFFICES ASSUME IInv  PROVE SlotIsLeft
    OBVIOUS
  <2>1. CASE pc = "place"
    <3>1. /\ size \in TableSizes /\ size \in Nat /\ DOMAIN table = 0 .. size - 1
          /\ pending.key \in Keys
      BY DEF IInv, TypeOK, Entry
    <3>2. Cardinality(EntriesOf(table)) < size
      <4>1. Cardinality(EntriesOf(table)) \in Nat
        BY <3>1, EntriesAreFinite
      <4>2. elems = Cardinality(EntriesOf(table)) + 1 /\ elems <= size
        BY <2>1 DEF IInv, Counting
      <4> QED  BY <3>1, <4>1, <4>2
    <3> QED  BY <2>1, <3>1, <3>2, FewEntriesLeaveRoom DEF SlotIsLeft
  <2>2. CASE pc = "resize"
    <3>1. /\ changedSize \in TableSizes /\ changedSize \in Nat
          /\ DOMAIN newTable = 0 .. changedSize - 1
          /\ size \in TableSizes /\ DOMAIN table = 0 .. size - 1
      BY DEF IInv, TypeOK
    <3>2. Cardinality(EntriesOf(newTable)) < changedSize
      <4>1. Cardinality(EntriesOf(newTable)) \in Nat
        BY <3>1, EntriesAreFinite
      <4>2. IsFiniteSet(EntriesOf(table)) /\ Rest \in SUBSET EntriesOf(table)
        BY <3>1, EntriesAreFinite DEF Rest
      <4>3. Cardinality(Rest) \in Nat
        BY <4>2, FS_Subset, FS_CardinalityType
      <4>4. /\ elems = Cardinality(Rest) + Cardinality(EntriesOf(newTable)) + 1
            /\ elems <= changedSize
        BY <2>2 DEF IInv, Counting
      <4> QED  BY <3>1, <4>1, <4>3, <4>4
    <3> QED  BY <2>2, <3>1, <3>2, FewEntriesLeaveRoom DEF SlotIsLeft
  <2> QED  BY <2>1, <2>2 DEF SlotIsLeft
<1> QED  BY <1>1, Invariance, PTL

----
(* The table implements a bag of pairs.                                         *)

\* A bag, from the number of times it has each pair.
Pairs == Keys \X Values
Counts == [Pairs -> Nat]
AsBag(c) == [x \in {y \in Pairs : c[y] > 0} |-> c[x]]
PairOf(p) == <<p.key, p.value>>
EntryOf(x) == [key |-> x[1], value |-> x[2]]
More(c, x) == [c EXCEPT ![x] = @ + 1]
Less(c, x) == [c EXCEPT ![x] = @ - 1]
PutAt(t, i, s) == [t EXCEPT ![i] = s]

\* One more, and one less.
LEMMA AddsToBag ==
  ASSUME NEW c \in Counts, NEW x \in Pairs
  PROVE  AsBag(More(c, x)) = M!BE!BagAdd(AsBag(c), x) /\ More(c, x) \in Counts
<1> DEFINE d == More(c, x)
<1>1. /\ d[x] = c[x] + 1 /\ d[x] > 0 /\ d \in Counts
      /\ \A y \in Pairs : y # x => d[y] = c[y]
      /\ \A y \in Pairs : c[y] \in Nat
  BY DEF Counts, More
<1> HIDE DEF d
<1>2. DOMAIN AsBag(c) = {y \in Pairs : c[y] > 0}
  BY DEF AsBag
<1>3. CASE c[x] > 0
  <2>1. {y \in Pairs : d[y] > 0} = {y \in Pairs : c[y] > 0}
    BY <1>1, <1>3
  <2> QED  BY <1>1, <1>2, <1>3, <2>1 DEF AsBag, M!BE!BagAdd, d
<1>4. CASE ~(c[x] > 0)
  <2>1. {y \in Pairs : d[y] > 0} = {y \in Pairs : c[y] > 0} \cup {x}
    BY <1>1, <1>4
  <2>2. c[x] = 0
    BY <1>1, <1>4
  <2> DEFINE D == {y \in Pairs : c[y] > 0}
  <2>3. x \notin DOMAIN AsBag(c)
    BY <1>2, <2>2
  <2>4. AsBag(d) = [y \in D \cup {x} |-> d[y]]
    BY <2>1 DEF AsBag
  <2>5. M!BE!BagAdd(AsBag(c), x) = [y \in D \cup {x} |-> IF y = x THEN 1 ELSE AsBag(c)[y]]
    BY <1>2, <2>3 DEF M!BE!BagAdd
  <2>6. \A y \in D \cup {x} : d[y] = IF y = x THEN 1 ELSE AsBag(c)[y]
    BY <1>1, <2>2 DEF AsBag
  <2> HIDE DEF D
  <2>7. AsBag(d) = M!BE!BagAdd(AsBag(c), x)
    BY <2>4, <2>5, <2>6
  <2> QED  BY <1>1, <2>7 DEF d
<1> QED  BY <1>1, <1>3, <1>4 DEF d

LEMMA TakesFromBag ==
  ASSUME NEW c \in Counts, NEW x \in Pairs, c[x] > 0
  PROVE  AsBag(Less(c, x)) = M!BE!BagRemove(AsBag(c), x) /\ Less(c, x) \in Counts
<1> DEFINE d == Less(c, x)
<1>1. /\ d[x] = c[x] - 1 /\ d \in Counts
      /\ \A y \in Pairs : y # x => d[y] = c[y]
      /\ \A y \in Pairs : c[y] \in Nat
  BY DEF Counts, Less
<1> HIDE DEF d
<1>2. DOMAIN AsBag(c) = {y \in Pairs : c[y] > 0}
  BY DEF AsBag
<1>3. CASE c[x] = 1
  <2>1. {y \in Pairs : d[y] > 0} = {y \in Pairs : c[y] > 0} \ {x}
    BY <1>1, <1>3
  <2> QED  BY <1>1, <1>2, <1>3, <2>1 DEF AsBag, M!BE!BagRemove, d
<1>4. CASE c[x] # 1
  <2>1. {y \in Pairs : d[y] > 0} = {y \in Pairs : c[y] > 0}
    BY <1>1, <1>4
  <2> QED  BY <1>1, <1>2, <1>4, <2>1 DEF AsBag, M!BE!BagRemove, d
<1> QED  BY <1>1, <1>3, <1>4 DEF d

\* How often an array has each pair.
Holding(t, x) == {i \in EntriesOf(t) : t[i] = EntryOf(x)}
CountOf(t) == [x \in Pairs |-> Cardinality(Holding(t, x))]

\* Pairs and entries are the same thing.
LEMMA PairsAndEntries ==
  /\ \A p \in Entry : PairOf(p) \in Pairs /\ EntryOf(PairOf(p)) = p
  /\ \A x \in Pairs : EntryOf(x) \in Entry /\ PairOf(EntryOf(x)) = x
BY DEF Entry, Pairs, PairOf, EntryOf

\* An array has every pair finitely often.
LEMMA HoldingIsFinite ==
  ASSUME NEW n \in TableSizes, NEW t, DOMAIN t = 0 .. n - 1
  PROVE  /\ \A x : IsFiniteSet(Holding(t, x)) /\ Cardinality(Holding(t, x)) \in Nat
         /\ CountOf(t) \in Counts
<1>1. IsFiniteSet(EntriesOf(t)) /\ \A x : Holding(t, x) \in SUBSET EntriesOf(t)
  BY EntriesAreFinite DEF Holding
<1>2. \A x : IsFiniteSet(Holding(t, x)) /\ Cardinality(Holding(t, x)) \in Nat
  BY <1>1, FS_Subset, FS_CardinalityType
<1> QED  BY <1>2 DEF CountOf, Counts

\* An entry put into a slot that has none is one more.
LEMMA PutCountsPair ==
  ASSUME NEW n \in TableSizes, NEW t, DOMAIN t = 0 .. n - 1, NEW p \in Entry,
         NEW i \in 0 .. n - 1, ~IsEntry(t[i])
  PROVE  /\ CountOf(PutAt(t, i, p)) = More(CountOf(t), PairOf(p))
         /\ DOMAIN PutAt(t, i, p) = 0 .. n - 1
<1> DEFINE u == PutAt(t, i, p)
<1>1. /\ DOMAIN u = 0 .. n - 1 /\ u[i] = p /\ IsEntry(u[i])
      /\ \A j \in 0 .. n - 1 : j # i => u[j] = t[j]
  BY ValuesAssumption DEF PutAt
<1> HIDE DEF u
<1>2. ASSUME NEW x \in Pairs, x # PairOf(p)
      PROVE  Holding(u, x) = Holding(t, x)
  <2>1. u[i] # EntryOf(x)
    BY <1>1, <1>2, PairsAndEntries
  <2> QED  BY <1>1, <2>1 DEF Holding, EntriesOf
<1>3. PairOf(p) \in Pairs /\ EntryOf(PairOf(p)) = p
  BY PairsAndEntries
<1>4. Holding(u, PairOf(p)) = Holding(t, PairOf(p)) \cup {i} /\ i \notin Holding(t, PairOf(p))
  BY <1>1, <1>3 DEF Holding, EntriesOf
<1>5. Cardinality(Holding(u, PairOf(p))) = Cardinality(Holding(t, PairOf(p))) + 1
  BY <1>4, HoldingIsFinite, FS_AddElement
<1>6. CountOf(u) = More(CountOf(t), PairOf(p))
  BY <1>2, <1>3, <1>5 DEF CountOf, More
<1> QED  BY <1>1, <1>6 DEF u

\* A slot emptied is one less.
LEMMA TakeCountsPair ==
  ASSUME NEW n \in TableSizes, NEW t, DOMAIN t = 0 .. n - 1,
         NEW i \in EntriesOf(t), t[i] \in Entry
  PROVE  /\ CountOf(PutAt(t, i, NULL)) = Less(CountOf(t), PairOf(t[i]))
         /\ CountOf(t)[PairOf(t[i])] > 0
         /\ DOMAIN PutAt(t, i, NULL) = 0 .. n - 1
<1> DEFINE u == PutAt(t, i, NULL)
           p == t[i]
<1>1. /\ DOMAIN u = 0 .. n - 1 /\ i \in 0 .. n - 1 /\ ~IsEntry(u[i])
      /\ \A j \in 0 .. n - 1 : j # i => u[j] = t[j]
  BY DEF EntriesOf, IsEntry, PutAt
<1>2. ASSUME NEW x \in Pairs, x # PairOf(p)
      PROVE  Holding(u, x) = Holding(t, x)
  <2>1. t[i] # EntryOf(x)
    BY <1>2, PairsAndEntries
  <2> HIDE DEF u
  <2> QED  BY <1>1, <2>1 DEF Holding, EntriesOf
<1>3. PairOf(p) \in Pairs /\ EntryOf(PairOf(p)) = p
  BY PairsAndEntries
<1>4. Holding(u, PairOf(p)) = Holding(t, PairOf(p)) \ {i} /\ i \in Holding(t, PairOf(p))
  <2> HIDE DEF u
  <2> QED  BY <1>1, <1>3 DEF Holding, EntriesOf
<1>5. /\ Cardinality(Holding(u, PairOf(p))) = Cardinality(Holding(t, PairOf(p))) - 1
      /\ Cardinality(Holding(t, PairOf(p))) \in Nat
      /\ Cardinality(Holding(t, PairOf(p))) # 0
  <2>1. IsFiniteSet(Holding(t, PairOf(p))) /\ Cardinality(Holding(t, PairOf(p))) \in Nat
    BY HoldingIsFinite
  <2>2. Cardinality(Holding(t, PairOf(p)) \ {i}) = Cardinality(Holding(t, PairOf(p))) - 1
    BY <1>4, <2>1, FS_RemoveElement
  <2>3. Cardinality(Holding(t, PairOf(p))) # 0
    BY <1>4, <2>1, FS_EmptySet
  <2>4. Cardinality(Holding(u, PairOf(p))) = Cardinality(Holding(t, PairOf(p)) \ {i})
    BY <1>4, Zenon
  <2> HIDE DEF u, p
  <2> QED  BY <2>1, <2>2, <2>3, <2>4
<1>6. \A x \in Pairs : CountOf(u)[x] = IF x = PairOf(p) THEN CountOf(t)[x] - 1 ELSE CountOf(t)[x]
  <2> HIDE DEF u, p
  <2> QED  BY <1>2, <1>5 DEF CountOf
<1>7. CountOf(u) = Less(CountOf(t), PairOf(p))
  <2>1. DOMAIN CountOf(u) = Pairs /\ DOMAIN CountOf(t) = Pairs
    BY DEF CountOf
  <2>2. CountOf(u) = [x \in Pairs |-> CountOf(u)[x]]
    BY DEF CountOf
  <2> HIDE DEF u, p
  <2> QED  BY <1>3, <1>6, <2>1, <2>2 DEF Less
<1>8. CountOf(t)[PairOf(p)] > 0
  <2> HIDE DEF u, p
  <2> QED  BY <1>3, <1>5 DEF CountOf
<1> QED  BY <1>1, <1>7, <1>8

----
(* While the table is rebuilt, the bag stays what it was.                       *)

TimesNow == [x \in Pairs |-> Times(EntryOf(x))]
Rebuilding == pc = "resize" => TimesNow = CountOf(table)
BInv == IInv /\ Rebuilding

\* Contents, by how often each pair is there.
LEMMA ContentsIsTimes == Contents = AsBag(TimesNow)
<1> DEFINE held == {p \in Entry : Times(p) > 0}
<1>1. {<<p.key, p.value>> : p \in held} = {y \in Pairs : TimesNow[y] > 0}
  BY PairsAndEntries DEF TimesNow, PairOf
<1>2. \A y \in Pairs : TimesNow[y] = Times([key |-> y[1], value |-> y[2]])
  BY DEF TimesNow, EntryOf
<1> QED  BY <1>1, <1>2 DEF Contents, AsBag

\* Times, of arrays and slots that are named.
TimesIn(S, t, W, w) ==
  [x \in Pairs |-> Cardinality({i \in S : t[i] = EntryOf(x)})
                   + Cardinality({i \in W : w[i] = EntryOf(x)})]

\* One array alone.
LEMMA TimesOfArray ==
  ASSUME NEW n \in TableSizes, NEW t, DOMAIN t = 0 .. n - 1, NEW w
  PROVE  /\ TimesIn(EntriesOf(t), t, {}, w) = CountOf(t)
         /\ TimesIn({}, w, EntriesOf(t), t) = CountOf(t)
<1>1. Cardinality({}) = 0
  BY FS_EmptySet
<1>2. \A x : /\ {i \in EntriesOf(t) : t[i] = EntryOf(x)} = Holding(t, x)
             /\ {i \in {} : w[i] = EntryOf(x)} = {}
             /\ Cardinality(Holding(t, x)) \in Nat
  BY HoldingIsFinite DEF Holding
<1>3. \A x : /\ Cardinality(Holding(t, x)) + Cardinality({}) = Cardinality(Holding(t, x))
             /\ Cardinality({}) + Cardinality(Holding(t, x)) = Cardinality(Holding(t, x))
  BY <1>1, <1>2
<1>4. \A x \in Pairs : /\ TimesIn(EntriesOf(t), t, {}, w)[x] = Cardinality(Holding(t, x))
                       /\ TimesIn({}, w, EntriesOf(t), t)[x] = Cardinality(Holding(t, x))
  BY <1>2, <1>3 DEF TimesIn
<1> QED  BY <1>4 DEF TimesIn, CountOf

\* Outside a rebuild only the table counts.
LEMMA TimesIsCount ==
  ASSUME TypeOK, pc # "resize"
  PROVE  TimesNow = CountOf(table)
<1>1. Slots = EntriesOf(table) /\ Moved = {}
  BY DEF Slots, Moved
<1>2. TimesNow = TimesIn(EntriesOf(table), table, {}, newTable)
  BY <1>1 DEF TimesNow, TimesIn, Times
<1> QED  BY <1>2, TimesOfArray DEF TypeOK

\* So the table is the bag of its array, in every state.
TableIsBag == Contents = AsBag(CountOf(table)) /\ CountOf(table) \in Counts
LEMMA ContentsIsTable == BInv => TableIsBag
<1> SUFFICES ASSUME BInv  PROVE TableIsBag
  OBVIOUS
<1>1. TimesNow = CountOf(table)
  BY TimesIsCount DEF BInv, IInv, Rebuilding
<1> QED  BY <1>1, ContentsIsTimes, HoldingIsFinite DEF BInv, IInv, TypeOK, TableIsBag

LEMMA ContentsIsTableAfter ==
  BInv' => TableIsBag'
BY ContentsIsTable, PTL

\* The rebuild moves an entry from one array to the other.
IsArray(t) == \E n \in TableSizes : DOMAIN t = 0 .. n - 1
LEMMA MovesOne ==
  ASSUME NEW t, IsArray(t), NEW S, S \subseteq EntriesOf(t), NEW j, j \in S, t[j] \in Entry,
         NEW w, IsArray(w), NEW i, i \in DOMAIN w, ~IsEntry(w[i])
  PROVE  TimesIn(S \ {j}, t, EntriesOf(PutAt(w, i, t[j])), PutAt(w, i, t[j]))
           = TimesIn(S, t, EntriesOf(w), w)
<1> DEFINE p == t[j]
           u == PutAt(w, i, p)
           Of(x) == {h \in S : t[h] = EntryOf(x)}
           Left(x) == {h \in S \ {j} : t[h] = EntryOf(x)}
<1>0. PICK n \in TableSizes, m \in TableSizes : DOMAIN t = 0 .. n - 1 /\ DOMAIN w = 0 .. m - 1
  BY DEF IsArray
<1>1. CountOf(u) = More(CountOf(w), PairOf(p)) /\ DOMAIN u = 0 .. m - 1
  BY <1>0, PutCountsPair
<1>2. PairOf(p) \in Pairs /\ EntryOf(PairOf(p)) = p
  BY PairsAndEntries
<1> HIDE DEF p, u
<1>3. \A x \in Pairs : Of(x) \in SUBSET EntriesOf(t)
  OBVIOUS
<1>4. \A x \in Pairs : IsFiniteSet(Of(x)) /\ Cardinality(Of(x)) \in Nat
  BY <1>0, <1>3, EntriesAreFinite, FS_Subset, FS_CardinalityType
<1>5. ASSUME NEW x \in Pairs
      PROVE  Cardinality(Left(x)) + CountOf(u)[x] = Cardinality(Of(x)) + CountOf(w)[x]
  <2>1. CountOf(w)[x] \in Nat
    BY <1>0, HoldingIsFinite DEF Counts
  <2>2. CASE x = PairOf(p)
    <3>1. j \in Of(x) /\ Left(x) = Of(x) \ {j}
      BY <1>2, <2>2 DEF p
    <3>2. Cardinality(Left(x)) = Cardinality(Of(x)) - 1
      <4>1. IsFiniteSet(Of(x))
        BY <1>4
      <4> HIDE DEF Of, Left
      <4>2. Cardinality(Of(x) \ {j}) = Cardinality(Of(x)) - 1
        BY <3>1, <4>1, FS_RemoveElement
      <4> QED  BY <3>1, <4>2, Zenon
    <3>3. CountOf(u)[x] = CountOf(w)[x] + 1
      BY <1>1, <2>2 DEF CountOf, More
    <3>4. Cardinality(Of(x)) \in Nat
      BY <1>4
    <3> HIDE DEF Of, Left
    <3> QED  BY <2>1, <3>2, <3>3, <3>4
  <2>3. CASE x # PairOf(p)
    <3>1. t[j] # EntryOf(x)
      BY <2>3, PairsAndEntries DEF p
    <3>2. Left(x) = Of(x)
      BY <3>1
    <3>3. CountOf(u)[x] = CountOf(w)[x]
      BY <1>1, <2>3 DEF CountOf, More
    <3> HIDE DEF Of, Left
    <3> QED  BY <3>2, <3>3
  <2> QED  BY <2>2, <2>3
<1>6. \A x \in Pairs : /\ TimesIn(S \ {j}, t, EntriesOf(u), u)[x] = Cardinality(Left(x)) + CountOf(u)[x]
                       /\ TimesIn(S, t, EntriesOf(w), w)[x] = Cardinality(Of(x)) + CountOf(w)[x]
  BY DEF TimesIn, CountOf, Holding
<1> HIDE DEF Of, Left
<1>7. \A x \in Pairs : TimesIn(S \ {j}, t, EntriesOf(u), u)[x] = TimesIn(S, t, EntriesOf(w), w)[x]
  BY <1>5, <1>6
<1>8. TimesIn(S \ {j}, t, EntriesOf(u), u) = TimesIn(S, t, EntriesOf(w), w)
  BY <1>7 DEF TimesIn
<1> QED  BY <1>8 DEF u, p

\* No step of a rebuild changes what the two arrays hold together.
LEMMA RebuildingKept ==
  ASSUME BInv, [Next]_vars, IInv'
  PROVE  Rebuilding'
<1> SUFFICES ASSUME pc' = "resize"  PROVE TimesNow' = CountOf(table)'
  BY DEF Rebuilding
<1>0. TimesNow' = TimesIn(Slots', table', Moved', newTable') /\ CountOf(table)' = CountOf(table')
  BY DEF TimesNow, TimesIn, Times, CountOf, Holding, EntriesOf
<1>1. CASE pc = "resize"
  <2>1. MoveEntry \/ UNCHANGED vars
    BY <1>1 DEF Next, Insert, Subscript, Remove, Find, KeyExists, EndResize, Place,
                SubscriptInserted, Clear
  <2>2. TimesIn(Slots, table, Moved, newTable) = CountOf(table)
    BY <1>1 DEF BInv, Rebuilding, TimesNow, TimesIn, Times
  <2>3. CASE UNCHANGED vars
    <3>1. Slots' = Slots /\ Moved' = Moved /\ table' = table /\ newTable' = newTable
      BY <2>3 DEF Slots, Moved, EntriesOf
    <3> QED  BY <1>0, <2>2, <3>1
  <2>4. CASE MoveEntry
    <3>1. /\ next \in 0 .. size - 1 /\ next' = next + 1 /\ table' = table
          /\ table[next] # Uninitialised
          /\ size \in TableSizes /\ DOMAIN table = 0 .. size - 1
          /\ changedSize \in TableSizes /\ DOMAIN newTable = 0 .. changedSize - 1
      BY <1>1, <2>4 DEF MoveEntry, Undefined, BInv, IInv, TypeOK
    <3>2. 0 .. next' - 1 = (0 .. next - 1) \cup {next}
      BY <3>1
    <3>3. /\ Slots = EntriesOf(table) \ (0 .. next - 1) /\ Moved = EntriesOf(newTable)
          /\ Slots' = Slots \ {next} /\ Moved' = EntriesOf(newTable')
      BY <1>1, <3>1, <3>2 DEF Slots, Moved, EntriesOf
    <3>4. CASE table[next] = NULL
      <4>1. newTable' = newTable /\ next \notin Slots
        BY <1>1, <2>4, <3>1, <3>3, <3>4 DEF MoveEntry, EntriesOf, IsEntry
      <4> QED  BY <1>0, <2>2, <3>1, <3>3, <4>1
    <3>5. CASE table[next] # NULL
      <4> DEFINE i == FirstFree(newTable, changedSize, table[next].key)
      <4>1. /\ newTable' = PutAt(newTable, i, table[next])
            /\ HasRoom(newTable, changedSize, table[next].key)
        BY <1>1, <2>4, <3>1, <3>5 DEF MoveEntry, PutAt
      <4>2. table[next] \in Entry /\ table[next].key \in Keys /\ next \in Slots
        BY <3>1, <3>3, <3>5 DEF BInv, IInv, TypeOK, Entry, EntriesOf, IsEntry
      <4>3. i \in 0 .. changedSize - 1 /\ ~IsEntry(newTable[i])
        BY <3>1, <4>1, <4>2, FirstFreeIsFree
      <4> HIDE DEF i
      <4>4. Slots \in SUBSET EntriesOf(table)
        BY <3>3
      <4> DEFINE u == PutAt(newTable, i, table[next])
      <4>5. TimesIn(Slots \ {next}, table, EntriesOf(u), u)
              = TimesIn(Slots, table, EntriesOf(newTable), newTable)
        <5>1. IsArray(table) /\ IsArray(newTable) /\ i \in DOMAIN newTable
          BY <3>1, <4>3 DEF IsArray
        <5> QED  BY <4>2, <4>3, <4>4, <5>1, MovesOne
      <4> HIDE DEF u
      <4>6. newTable' = u
        BY <4>1 DEF u
      <4> QED  BY <1>0, <2>2, <3>1, <3>3, <4>5, <4>6
    <3> QED  BY <3>4, <3>5
  <2> QED  BY <2>1, <2>3, <2>4
<1>2. CASE pc # "resize"
  <2>1. /\ next' = 0 /\ newTable' = Empty(changedSize') /\ table' = table
    BY <1>2 DEF Next, Insert, Subscript, AssignAt, BeginInsert, Remove, Find, KeyExists, MoveEntry,
                EndResize, Place, Return, Undefined, SubscriptInserted, Clear
  <2>2. EntriesOf(newTable') = {}
    BY <2>1 DEF EntriesOf, Empty, IsEntry
  <2>3. Slots' = EntriesOf(table) /\ Moved' = {}
    BY <2>1, <2>2, 0 .. 0 - 1 = {} DEF Slots, Moved, EntriesOf
  <2> QED  BY <1>0, <2>1, <2>3, TimesOfArray DEF BInv, IInv, TypeOK
<1> QED  BY <1>1, <1>2

LEMMA BagInvariantKept == BInv /\ [Next]_vars => BInv'
BY NextPreserves, RebuildingKept DEF BInv

\* While the table is rebuilt, the old table and the new one together hold what the
\* old one held: the pairs are counted once each.
THEOREM BagInvariance == Spec => []BInv
<1>1. Init => BInv
  BY InitEstablishes DEF BInv, Rebuilding, Init
<1> QED  BY <1>1, BagInvariantKept, PTL DEF Spec

----
(* Every step is a step of the bag.                                             *)

\* A pair is in the bag if an entry is that pair.
LEMMA PairIsHeld ==
  ASSUME NEW t, IsArray(t), NEW x, x \in Pairs
  PROVE  CountOf(t)[x] > 0 <=> \E i \in EntriesOf(t) : t[i] = EntryOf(x)
<1>1. IsFiniteSet(Holding(t, x)) /\ Cardinality(Holding(t, x)) \in Nat
  BY HoldingIsFinite DEF IsArray
<1>2. Cardinality(Holding(t, x)) = 0 <=> Holding(t, x) = {}
  BY <1>1, FS_EmptySet
<1>3. CountOf(t)[x] = Cardinality(Holding(t, x))
  BY DEF CountOf
<1>4. CountOf(t)[x] > 0 <=> Holding(t, x) # {}
  BY <1>1, <1>2, <1>3
<1> QED  BY <1>4 DEF Holding

\* A key has the values its entries have, so that findIndex() finds one of them.
LEMMA ValuesHeld ==
  ASSUME BInv, NEW k \in Keys
  PROVE  M!ValuesOf(k) = {v \in Values : \E i \in EntriesOf(table) : table[i] = EntryOf(<<k, v>>)}
<1>1. IsArray(table) /\ Contents = AsBag(CountOf(table))
  BY ContentsIsTable DEF BInv, IInv, TypeOK, IsArray, TableIsBag
<1>2. ASSUME NEW v \in Values
      PROVE  M!BagIn(<<k, v>>, Contents) <=> \E i \in EntriesOf(table) : table[i] = EntryOf(<<k, v>>)
  <2>1. <<k, v>> \in Pairs
    BY DEF Pairs
  <2>2. M!BagIn(<<k, v>>, Contents) <=> <<k, v>> \in DOMAIN AsBag(CountOf(table))
    BY <1>1 DEF M!BagIn, M!BagToSet
  <2>3. DOMAIN AsBag(CountOf(table)) = {y \in Pairs : CountOf(table)[y] > 0}
    BY DEF AsBag
  <2> QED  BY <1>1, <2>1, <2>2, <2>3, PairIsHeld
<1> QED  BY <1>2 DEF M!ValuesOf

\* findIndex() and the bag agree on the values of a key.
LEMMA FoundIsHeld ==
  ASSUME BInv, pc \in {"ready", "index"}, NEW k \in Keys
  PROVE  /\ findIndex(k) = -1 => M!ValuesOf(k) = {}
         /\ findIndex(k) # -1 =>
              /\ findIndex(k) \in EntriesOf(table) /\ table[findIndex(k)] \in Entry
              /\ PairOf(table[findIndex(k)]) = <<k, table[findIndex(k)].value>>
              /\ table[findIndex(k)].value \in M!ValuesOf(k)
<1>1. /\ findIndex(k) = -1 => \A i \in EntriesOf(table) : table[i].key # k
      /\ findIndex(k) # -1 => findIndex(k) \in EntriesOf(table) /\ table[findIndex(k)].key = k
  BY FindIndexFinds DEF BInv, IInv, Probing
<1>2. \A i \in EntriesOf(table) : table[i] \in Entry
  BY DEF BInv, IInv, TypeOK, EntriesOf, IsEntry
<1>3. ASSUME findIndex(k) = -1  PROVE M!ValuesOf(k) = {}
  <2>1. \A v : EntryOf(<<k, v>>).key = k
    BY DEF EntryOf
  <2>2. \A i \in EntriesOf(table), v \in Values : table[i] # EntryOf(<<k, v>>)
    BY <1>1, <1>3, <2>1
  <2> QED  BY <2>2, ValuesHeld
<1>4. ASSUME findIndex(k) # -1
      PROVE  /\ findIndex(k) \in EntriesOf(table) /\ table[findIndex(k)] \in Entry
             /\ PairOf(table[findIndex(k)]) = <<k, table[findIndex(k)].value>>
             /\ table[findIndex(k)].value \in M!ValuesOf(k)
  <2> DEFINE p == table[findIndex(k)]
  <2>1. p \in Entry /\ p.key = k /\ findIndex(k) \in EntriesOf(table)
    BY <1>1, <1>2, <1>4
  <2> HIDE DEF p
  <2>2. PairOf(p) = <<k, p.value>> /\ p.value \in Values /\ p = EntryOf(<<k, p.value>>)
    BY <2>1 DEF Entry, PairOf, EntryOf
  <2>3. p.value \in M!ValuesOf(k)
    BY <2>1, <2>2, ValuesHeld DEF p
  <2> QED  BY <2>1, <2>2, <2>3 DEF p
<1> QED  BY <1>3, <1>4

\* What a change of the table makes of the bag.
LEMMA BagAfter ==
  ASSUME BInv'
  PROVE  Contents' = AsBag(CountOf(table')) /\ CountOf(table') \in Counts
<1>1. TableIsBag'
  BY ContentsIsTableAfter
<1> QED  BY <1>1 DEF TableIsBag, AsBag, CountOf, Holding, EntriesOf

\* Contents follows the table alone.
LEMMA BagStays ==
  ASSUME BInv, BInv', CountOf(table') = CountOf(table)
  PROVE  Contents' = Contents
BY BagAfter, ContentsIsTable DEF TableIsBag

\* An entry put is a pair added.
LEMMA BagGrows ==
  ASSUME BInv, BInv', NEW p \in Entry, NEW i \in DOMAIN table, ~IsEntry(table[i]),
         table' = PutAt(table, i, p)
  PROVE  Contents' = M!BE!BagAdd(Contents, PairOf(p))
<1>1. Contents = AsBag(CountOf(table)) /\ CountOf(table) \in Counts
  BY ContentsIsTable DEF TableIsBag
<1>2. size \in TableSizes /\ DOMAIN table = 0 .. size - 1
  BY DEF BInv, IInv, TypeOK
<1>3. CountOf(table') = More(CountOf(table), PairOf(p))
  BY <1>2, PutCountsPair
<1>4. PairOf(p) \in Pairs
  BY PairsAndEntries
<1>5. AsBag(More(CountOf(table), PairOf(p))) = M!BE!BagAdd(AsBag(CountOf(table)), PairOf(p))
  BY <1>1, <1>4, AddsToBag
<1> QED  BY <1>1, <1>3, <1>5, BagAfter

\* An entry removed is a pair taken away.
LEMMA BagShrinks ==
  ASSUME BInv, BInv', NEW i \in EntriesOf(table), table' = PutAt(table, i, NULL)
  PROVE  Contents' = M!BE!BagRemove(Contents, PairOf(table[i]))
<1>1. Contents = AsBag(CountOf(table)) /\ CountOf(table) \in Counts
  BY ContentsIsTable DEF TableIsBag
<1>2. size \in TableSizes /\ DOMAIN table = 0 .. size - 1 /\ table[i] \in Entry
  BY DEF BInv, IInv, TypeOK, EntriesOf, IsEntry
<1>3. /\ CountOf(table') = Less(CountOf(table), PairOf(table[i]))
      /\ CountOf(table)[PairOf(table[i])] > 0
  BY <1>2, TakeCountsPair
<1>4. PairOf(table[i]) \in Pairs
  BY <1>2, PairsAndEntries
<1>5. AsBag(Less(CountOf(table), PairOf(table[i])))
        = M!BE!BagRemove(AsBag(CountOf(table)), PairOf(table[i]))
  BY <1>1, <1>3, <1>4, TakesFromBag
<1> QED  BY <1>1, <1>3, <1>5, BagAfter

\* An entry overwritten is one taken and one put.
LEMMA BagExchanges ==
  ASSUME BInv, BInv', NEW p \in Entry, NEW i \in EntriesOf(table), table' = PutAt(table, i, p)
  PROVE  Contents' = M!BE!BagAdd(M!BE!BagRemove(Contents, PairOf(table[i])), PairOf(p))
<1> DEFINE t == PutAt(table, i, NULL)
           c == CountOf(table)
           x == PairOf(table[i])
           d == Less(c, x)
<1>1. Contents = AsBag(c) /\ c \in Counts
  BY ContentsIsTable DEF TableIsBag
<1>2. size \in TableSizes /\ DOMAIN table = 0 .. size - 1 /\ table[i] \in Entry
  BY DEF BInv, IInv, TypeOK, EntriesOf, IsEntry
<1>3. CountOf(t) = d /\ c[x] > 0 /\ DOMAIN t = 0 .. size - 1
  BY <1>2, TakeCountsPair
<1>4. x \in Pairs /\ PairOf(p) \in Pairs
  BY <1>2, PairsAndEntries
<1>5. AsBag(d) = M!BE!BagRemove(AsBag(c), x) /\ d \in Counts
  BY <1>1, <1>3, <1>4, TakesFromBag
<1>6. ~IsEntry(t[i]) /\ i \in 0 .. size - 1
  BY <1>2 DEF PutAt, EntriesOf, IsEntry
<1>7. PutAt(t, i, p) = PutAt(table, i, p)
  BY <1>2 DEF PutAt
<1> HIDE DEF t, c, d, x
<1>8. CountOf(PutAt(t, i, p)) = More(CountOf(t), PairOf(p))
  BY <1>2, <1>3, <1>6, PutCountsPair
<1>9. AsBag(More(d, PairOf(p))) = M!BE!BagAdd(AsBag(d), PairOf(p))
  BY <1>4, <1>5, AddsToBag
<1>10. Contents' = AsBag(CountOf(PutAt(t, i, p)))
  BY <1>7, BagAfter
<1> QED  BY <1>1, <1>3, <1>5, <1>8, <1>9, <1>10 DEF x

\* One lemma for each kind of step; the bag of the abstract specification is Contents.
BagStep == M!Next \/ UNCHANGED M!vars

LEMMA BeginInsertIsCall ==
  ASSUME BInv, BInv', NEW k, NEW v, NEW a, BeginInsert(k, v, a)
  PROVE  BagStep
<1>1. last' = InCall /\ table' = table
  BY DEF BeginInsert
<1>2. Contents' = Contents
  BY <1>1, BagStays
<1> QED  BY <1>1, <1>2 DEF BagStep, M!Next, M!Call

LEMMA UndefinedIsStutter ==
  ASSUME BInv, BInv', Undefined
  PROVE  BagStep
<1>1. last' = last /\ table' = table
  BY DEF Undefined
<1>2. Contents' = Contents
  BY <1>1, BagStays
<1> QED  BY <1>1, <1>2 DEF BagStep, M!vars

\* Nothing of a rebuild shows in the bag.
LEMMA ResizeIsStutter ==
  ASSUME BInv, BInv', MoveEntry \/ EndResize
  PROVE  BagStep
<1>1. CASE MoveEntry /\ ~Undefined
  <2>1. last' = last /\ table' = table
    BY <1>1 DEF MoveEntry
  <2>2. Contents' = Contents
    BY <2>1, BagStays
  <2> QED  BY <2>1, <2>2 DEF BagStep, M!vars
<1>2. CASE EndResize
  <2>1. /\ pc = "resize" /\ next = size /\ last' = last /\ table' = newTable
        /\ size \in Nat /\ DOMAIN table = 0 .. size - 1
        /\ changedSize \in TableSizes /\ DOMAIN newTable = 0 .. changedSize - 1
    BY <1>2 DEF EndResize, BInv, IInv, TypeOK
  <2>2. Slots = {} /\ Moved = EntriesOf(newTable)
    BY <2>1 DEF Slots, Moved, EntriesOf
  <2>3. TimesIn(Slots, table, Moved, newTable) = CountOf(table)
    BY <2>1 DEF BInv, Rebuilding, TimesNow, TimesIn, Times
  <2>4. TimesIn({}, table, EntriesOf(newTable), newTable) = CountOf(newTable)
    <3>1. \A t, w : TimesIn({}, t, EntriesOf(w), w) = TimesIn({}, w, EntriesOf(w), w)
      BY DEF TimesIn
    <3> QED  BY <2>1, <3>1, TimesOfArray
  <2>5. Contents' = Contents
    BY <2>1, <2>2, <2>3, <2>4, BagStays
  <2> QED  BY <2>1, <2>5 DEF BagStep, M!vars
<1> QED  BY <1>1, <1>2, UndefinedIsStutter

\* insert() adds its pair when it writes the slot.
LEMMA PlaceIsInsert ==
  ASSUME BInv, BInv', Place
  PROVE  BagStep
<1> SUFFICES ASSUME ~Undefined  PROVE BagStep
  BY UndefinedIsStutter
<1> DEFINE i == FirstFree(table, size, pending.key)
<1>1. /\ HasRoom(table, size, pending.key) /\ table' = PutAt(table, i, pending)
      /\ last' = <<"insert", pending.key, pending.value>>
  BY DEF Place, PutAt
<1>2. /\ size \in TableSizes /\ DOMAIN table = 0 .. size - 1
      /\ pending \in Entry /\ pending.key \in Keys /\ pending.value \in Values
  BY DEF BInv, IInv, TypeOK, Entry
<1>3. i \in DOMAIN table /\ ~IsEntry(table[i])
  BY <1>1, <1>2, FirstFreeIsFree
<1> HIDE DEF i
<1>4. Contents' = M!BE!BagAdd(Contents, PairOf(pending))
  BY <1>1, <1>2, <1>3, BagGrows
<1>5. M!Insert(pending.key, pending.value)
  BY <1>1, <1>4 DEF M!Insert, PairOf
<1> QED  BY <1>2, <1>5 DEF BagStep, M!Next

\* operator[] exchanges one value of its key.
LEMMA AssignIsAssign ==
  ASSUME BInv, BInv', pc \in {"ready", "index"}, NEW k \in Keys, NEW v \in Values,
         AssignAt(findIndex(k), k, v)
  PROVE  BagStep
<1> SUFFICES ASSUME ~Undefined  PROVE BagStep
  BY UndefinedIsStutter
<1> DEFINE i == findIndex(k)
           old == table[i].value
           p == [table[i] EXCEPT !.value = v]
<1>1. i # -1 /\ last' = <<"assign", k, v>> /\ table' = PutAt(table, i, p)
  <2>1. DOMAIN table = 0 .. size - 1 /\ table' = [table EXCEPT ![i].value = v]
    BY DEF AssignAt, BInv, IInv, TypeOK
  <2> QED  BY <2>1 DEF AssignAt, PutAt
<1>2. /\ i \in EntriesOf(table) /\ table[i] \in Entry
      /\ PairOf(table[i]) = <<k, old>> /\ old \in M!ValuesOf(k)
  BY <1>1, FoundIsHeld
<1>3. p \in Entry /\ PairOf(p) = <<k, v>>
  BY <1>2 DEF Entry, PairOf
<1> HIDE DEF i, old, p
<1>4. Contents' = M!BE!BagAdd(M!BE!BagRemove(Contents, <<k, old>>), <<k, v>>)
  BY <1>1, <1>2, <1>3, BagExchanges
<1>5. M!Assign(k, v)
  BY <1>1, <1>2, <1>4 DEF M!Assign
<1> QED  BY <1>5 DEF BagStep, M!Next

\* remove() takes one pair of its key, if there is one.
LEMMA RemoveIsRemove ==
  ASSUME BInv, BInv', NEW k \in Keys, Remove(k)
  PROVE  BagStep
<1>1. pc = "ready" /\ last' = <<"remove", k>>
  BY DEF Remove
<1>2. CASE findIndex(k) = -1
  <2>1. M!ValuesOf(k) = {} /\ table' = table
    BY <1>1, <1>2, FoundIsHeld DEF Remove
  <2>2. Contents' = Contents
    BY <2>1, BagStays
  <2>3. M!Remove(k)
    BY <1>1, <2>1, <2>2 DEF M!Remove
  <2> QED  BY <2>3 DEF BagStep, M!Next
<1>3. CASE findIndex(k) # -1
  <2> DEFINE i == findIndex(k)
             old == table[i].value
  <2>1. /\ i \in EntriesOf(table) /\ PairOf(table[i]) = <<k, old>>
        /\ old \in M!ValuesOf(k)
    BY <1>1, <1>3, FoundIsHeld
  <2>2. table' = PutAt(table, i, NULL)
    BY <1>3 DEF Remove, PutAt
  <2> HIDE DEF i, old
  <2>3. Contents' = M!BE!BagRemove(Contents, <<k, old>>)
    BY <2>1, <2>2, BagShrinks
  <2>4. M!Remove(k)
    BY <1>1, <2>1, <2>3 DEF M!Remove
  <2> QED  BY <2>4 DEF BagStep, M!Next
<1> QED  BY <1>2, <1>3

\* A lookup answers from the bag.
LEMMA FindIsFind ==
  ASSUME BInv, BInv', NEW k \in Keys, Find(k)
  PROVE  BagStep
<1> DEFINE answer == IF findIndex(k) # -1 THEN table[findIndex(k)].value ELSE Default
<1>1. pc = "ready" /\ last' = <<"find", k, answer>> /\ table' = table
  BY DEF Find
<1>2. answer \in IF M!ValuesOf(k) = {} THEN {Default} ELSE M!ValuesOf(k)
  BY <1>1, FoundIsHeld
<1> HIDE DEF answer
<1>3. Contents' = Contents
  BY <1>1, BagStays
<1>4. M!Find(k)
  BY <1>1, <1>2, <1>3 DEF M!Find
<1> QED  BY <1>4 DEF BagStep, M!Next

LEMMA KeyExistsIsKeyExists ==
  ASSUME BInv, BInv', NEW k \in Keys, KeyExists(k)
  PROVE  BagStep
<1>1. pc = "ready" /\ last' = <<"keyExists", k, findIndex(k) # -1>> /\ table' = table
  BY DEF KeyExists
<1>2. (findIndex(k) # -1) = (M!ValuesOf(k) # {})
  BY <1>1, FoundIsHeld
<1>3. Contents' = Contents
  BY <1>1, BagStays
<1>4. M!KeyExists(k)
  BY <1>1, <1>2, <1>3 DEF M!KeyExists
<1> QED  BY <1>4 DEF BagStep, M!Next

\* The bag of a table without entries.
LEMMA NoEntriesNoPairs ==
  ASSUME NEW t, EntriesOf(t) = {}
  PROVE  AsBag(CountOf(t)) = M!EmptyBag
<1>1. \A x \in Pairs : CountOf(t)[x] = 0
  <2>1. \A x : Holding(t, x) = {}
    BY DEF Holding
  <2> QED  BY <2>1, FS_EmptySet DEF CountOf
<1>2. {y \in Pairs : CountOf(t)[y] > 0} = {}
  BY <1>1
<1> QED  BY <1>2 DEF AsBag, M!EmptyBag, M!SetToBag

\* clear() leaves the empty bag, though its slots are uninitialised.
LEMMA ClearIsClear ==
  ASSUME BInv, BInv', Clear
  PROVE  BagStep
<1> SUFFICES ASSUME ~Undefined  PROVE BagStep
  BY UndefinedIsStutter
<1>1. last' = <<"clear">> /\ table' = [i \in 0 .. 16 |-> Uninitialised]
  BY DEF Clear
<1>2. EntriesOf(table') = {}
  BY <1>1 DEF EntriesOf, IsEntry
<1>3. Contents' = M!EmptyBag
  BY <1>2, NoEntriesNoPairs, BagAfter
<1> QED  BY <1>1, <1>3 DEF BagStep, M!Next, M!Clear

LEMMA NextIsBagStep ==
  ASSUME BInv, BInv', [Next]_vars
  PROVE  BagStep
<1>1. ASSUME NEW k \in Keys, NEW v \in Values, Insert(k, v)  PROVE BagStep
  BY <1>1, BeginInsertIsCall DEF Insert
<1>2. ASSUME NEW k \in Keys, NEW v \in Values, Subscript(k, v)  PROVE BagStep
  BY <1>2, BeginInsertIsCall, AssignIsAssign DEF Subscript
<1>3. ASSUME SubscriptInserted  PROVE BagStep
  <2>1. pc = "index" /\ pending.key \in Keys /\ assign \in Values
    BY <1>3 DEF SubscriptInserted, BInv, IInv, TypeOK, Entry, Probing
  <2> QED  BY <1>3, <2>1, AssignIsAssign DEF SubscriptInserted
<1>4. CASE UNCHANGED vars
  <2>1. Contents' = Contents
    BY <1>4, BagStays
  <2> QED  BY <1>4, <2>1 DEF BagStep, M!vars
<1> QED
  BY <1>1, <1>2, <1>3, <1>4, ResizeIsStutter, PlaceIsInsert, RemoveIsRemove, FindIsFind,
     KeyExistsIsKeyExists, ClearIsClear DEF Next

\* The table is a bag of pairs: every call's answer and effect is one the bag allows,
\* and the steps of a rebuild do not show.
THEOREM ImplementsMultimap == Spec => RefinesMultimap
<1>1. Init => M!Init
  <2> SUFFICES ASSUME Init  PROVE M!Init
    OBVIOUS
  <2>1. BInv
    BY InitEstablishes DEF BInv, Rebuilding, Init
  <2>2. EntriesOf(table) = {}
    BY DEF Init, EntriesOf, IsEntry, Empty
  <2>3. Contents = M!EmptyBag
    BY <2>1, <2>2, NoEntriesNoPairs, ContentsIsTable DEF TableIsBag
  <2> QED  BY <2>3 DEF M!Init, Init
<1>2. BInv /\ BInv' /\ [Next]_vars => [M!Next]_(M!vars)
  BY NextIsBagStep DEF BagStep
<1> QED  BY <1>1, <1>2, BagInvariance, PTL DEF Spec, RefinesMultimap, M!Spec
====
