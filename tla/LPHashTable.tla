---- MODULE LPHashTable ----
(* The hash table with linear probing of Linearprobe.cpp.  A slot that was ever *)
(* used stays marked in should_probe, so that lookups go on past slots emptied   *)
(* by remove().  A public function is an action; insert() and operator[], which  *)
(* may rebuild the table, take several.  The hash function, findPrime() and      *)
(* shouldResize() come from headers that are not part of the repository.         *)
EXTENDS Integers, FiniteSets, Bags

CONSTANTS
  Keys, Values,
  Default,          \* V()
  NULL,             \* an empty slot
  Uninitialised,    \* a slot of a new array nobody wrote to
  InCall,           \* last while a call has not returned
  hash(_, _), findPrime(_), shouldResize(_, _),
  TableSizes,       \* sizes that occur
  InitialSizes,     \* the constructor's argument
  MaxElems          \* bound: entries

IsEntry(s) == s \notin {NULL, Uninitialised}
Entry == [key : Keys, value : Values]

ASSUME ValuesAssumption ==
  Keys # {} /\ Default \in Values /\ \A e \in Entry : IsEntry(e)
ASSUME SizesAssumption ==
  /\ MaxElems \in Nat /\ TableSizes \subseteq Nat \ {0} /\ 17 \in TableSizes
  /\ \A s \in InitialSizes : findPrime(IF s <= 0 THEN 17 ELSE s) \in TableSizes
  /\ \A n \in TableSizes, e \in 1 .. MaxElems :
       shouldResize(e, n) => findPrime(2 * n) \in TableSizes
ASSUME HashAssumption == \A n \in TableSizes, k \in Keys : hash(k, n) \in 0 .. n - 1
\* The table is enlarged before it is full.
ASSUME ResizeAssumption ==
  \A n \in TableSizes, e \in 1 .. MaxElems :
    IF shouldResize(e, n) THEN findPrime(2 * n) >= 2 * n ELSE e <= n

VARIABLES
  size, table, should_probe, elems,
  pc,                 \* "ready" between two calls
  pending,            \* the pair insert() was called with
  assign,             \* what the caller of operator[] will assign, or NULL
  newTable, changedSize, next,  \* resizeTable()'s locals, next its second i
  last                \* history: the last call that returned, with its answer

object == <<size, table, should_probe, elems>>
resizing == <<newTable, changedSize, next>>
inserting == <<pending, assign>>
vars == <<object, pc, inserting, resizing, last>>

Empty(n) == [i \in 0 .. n - 1 |-> NULL]
NoProbe(n) == [i \in 0 .. n - 1 |-> FALSE]
NoPair == [key |-> CHOOSE k \in Keys : TRUE, value |-> Default]
EntriesOf(t) == {i \in DOMAIN t : IsEntry(t[i])}

TypeOK ==
  /\ size \in TableSizes /\ elems \in 0 .. MaxElems
  /\ table \in [0 .. size - 1 -> Entry \cup {NULL, Uninitialised}]
  /\ pc \in {"ready", "resize", "place", "index", "undefined"}
  /\ pending \in Entry /\ assign \in Values \cup {NULL}
  /\ changedSize \in TableSizes /\ next \in 0 .. size
  /\ newTable \in [0 .. changedSize - 1 -> Entry \cup {NULL}]
  /\ pc # "undefined" =>
       should_probe \in [0 .. (IF pc = "resize" THEN changedSize ELSE size) - 1 -> BOOLEAN]
  /\ last \in {InCall, <<"clear">>} \cup {<<"remove", k>> : k \in Keys}
              \cup ({"insert", "assign", "find"} \X Keys \X Values)
              \cup ({"keyExists"} \X Keys \X BOOLEAN)

----
(* Probing: the slots from a key's hash on, around the end of the table.         *)

Slot(k, d, n) == (hash(k, n) + d) % n

\* while (table[i] != NULL) i = (i + 1) % size: the first slot without an entry.
FreeAt(t, n, k, d) ==
  ~IsEntry(t[Slot(k, d, n)]) /\ \A e \in 0 .. d - 1 : IsEntry(t[Slot(k, e, n)])
HasRoom(t, n, k) == \E d \in 0 .. n - 1 : FreeAt(t, n, k, d)
FirstFree(t, n, k) == Slot(k, CHOOSE d \in 0 .. n - 1 : FreeAt(t, n, k, d), n)

\* findIndex().
FoundAt(k, d) ==
  /\ \A e \in 0 .. d : should_probe[Slot(k, e, size)]
  /\ IsEntry(table[Slot(k, d, size)]) /\ table[Slot(k, d, size)].key = k
findIndex(k) ==
  IF \E d \in 0 .. size - 1 : FoundAt(k, d)
  THEN Slot(k, CHOOSE d \in 0 .. size - 1 : FoundAt(k, d) /\ \A e \in 0 .. d - 1 : ~FoundAt(k, e),
            size)
  ELSE -1

----
\* The program has read memory it never wrote to, and anything may follow.
Undefined == pc' = "undefined" /\ UNCHANGED <<object, inserting, resizing, last>>

Return == pc' = "ready" /\ pending' = NoPair /\ assign' = NULL

\* insert(), up to its loop; resizeTable(), up to its second loop.
MutBeginInsert(k, v, a) ==                       \* mutant: the new table is no larger
  /\ elems < MaxElems
  /\ elems' = elems + 1
  /\ pending' = [key |-> k, value |-> v] /\ assign' = a
  /\ IF shouldResize(elems + 1, size)
     THEN /\ pc' = "resize"
          /\ changedSize' = findPrime(size)
          /\ newTable' = Empty(changedSize')
          /\ should_probe' = NoProbe(changedSize')
          /\ next' = 0
     ELSE pc' = "place" /\ UNCHANGED <<resizing, should_probe>>
  /\ last' = InCall
  /\ UNCHANGED <<size, table>>
BeginInsert(k, v, a) ==
  /\ elems < MaxElems
  /\ elems' = elems + 1
  /\ pending' = [key |-> k, value |-> v] /\ assign' = a
  /\ IF shouldResize(elems + 1, size)
     THEN /\ pc' = "resize"
          /\ changedSize' = findPrime(2 * size)
          /\ newTable' = Empty(changedSize')
          /\ should_probe' = NoProbe(changedSize')
          /\ next' = 0
     ELSE pc' = "place" /\ UNCHANGED <<resizing, should_probe>>
  /\ last' = InCall
  /\ UNCHANGED <<size, table>>
Insert(k, v) == pc = "ready" /\ BeginInsert(k, v, NULL)

\* One turn of the second loop of resizeTable().
MoveEntry ==
  /\ pc = "resize" /\ next < size
  /\ IF table[next] = Uninitialised THEN Undefined
     ELSE /\ IF table[next] = NULL THEN UNCHANGED <<newTable, should_probe>>
             ELSE LET index == FirstFree(newTable, changedSize, table[next].key)
                  IN  /\ HasRoom(newTable, changedSize, table[next].key)
                      /\ newTable' = [newTable EXCEPT ![index] = table[next]]
                      /\ should_probe' = [should_probe EXCEPT ![index] = TRUE]
          /\ next' = next + 1
          /\ UNCHANGED <<size, table, elems, pc, inserting, changedSize, last>>
MutEndResize ==                                  \* mutant: the last slot is left out
  /\ pc = "resize" /\ next = size - 1
  /\ table' = newTable /\ size' = changedSize
  /\ newTable' = Empty(changedSize) /\ next' = 0
  /\ pc' = "place"
  /\ UNCHANGED <<should_probe, elems, inserting, changedSize, last>>
EndResize ==
  /\ pc = "resize" /\ next = size
  /\ table' = newTable /\ size' = changedSize
  /\ newTable' = Empty(changedSize) /\ next' = 0
  /\ pc' = "place"
  /\ UNCHANGED <<should_probe, elems, inserting, changedSize, last>>

\* The end of insert().
Place ==
  LET i == FirstFree(table, size, pending.key)
  IN  /\ pc = "place" /\ HasRoom(table, size, pending.key)
      /\ IF table[i] = Uninitialised THEN Undefined
         ELSE /\ table' = [table EXCEPT ![i] = pending]
              /\ should_probe' = [should_probe EXCEPT ![i] = TRUE]
              /\ IF assign = NULL THEN Return ELSE pc' = "index" /\ UNCHANGED inserting
              /\ last' = <<"insert", pending.key, pending.value>>
              /\ UNCHANGED <<size, elems, resizing>>

\* operator[], and the assignment of v by its caller.
AssignAt(i, k, v) ==
  IF i = -1 THEN Undefined
  ELSE /\ table' = [table EXCEPT ![i].value = v]
       /\ Return
       /\ last' = <<"assign", k, v>>
       /\ UNCHANGED <<size, should_probe, elems, resizing>>
Subscript(k, v) ==
  /\ pc = "ready"
  /\ IF findIndex(k) # -1 THEN AssignAt(findIndex(k), k, v) ELSE BeginInsert(k, Default, v)
SubscriptInserted == pc = "index" /\ AssignAt(findIndex(pending.key), pending.key, assign)

MutRemoveMissing(k) ==                           \* mutant: counts a key that is not there
  /\ pc = "ready"
  /\ IF findIndex(k) = -1 THEN UNCHANGED table
     ELSE table' = [table EXCEPT ![findIndex(k)] = NULL]
  /\ elems' = elems - 1
  /\ last' = <<"remove", k>>
  /\ UNCHANGED <<size, should_probe, pc, inserting, resizing>>
MutRemoveCount(k) ==                             \* mutant: elems is not decremented
  /\ pc = "ready"
  /\ IF findIndex(k) = -1 THEN UNCHANGED table
     ELSE table' = [table EXCEPT ![findIndex(k)] = NULL]
  /\ last' = <<"remove", k>>
  /\ UNCHANGED <<size, should_probe, elems, pc, inserting, resizing>>
MutRemoveProbe(k) ==                             \* mutant: the slot is not probed past
  /\ pc = "ready"
  /\ IF findIndex(k) = -1 THEN UNCHANGED <<table, elems, should_probe>>
     ELSE /\ table' = [table EXCEPT ![findIndex(k)] = NULL] /\ elems' = elems - 1
          /\ should_probe' = [should_probe EXCEPT ![findIndex(k)] = FALSE]
  /\ last' = <<"remove", k>>
  /\ UNCHANGED <<size, pc, inserting, resizing>>
Remove(k) ==
  /\ pc = "ready"
  /\ IF findIndex(k) = -1 THEN UNCHANGED <<table, elems>>
     ELSE table' = [table EXCEPT ![findIndex(k)] = NULL] /\ elems' = elems - 1
  /\ last' = <<"remove", k>>
  /\ UNCHANGED <<size, should_probe, pc, inserting, resizing>>

Find(k) ==
  /\ pc = "ready"
  /\ last' = <<"find", k, IF findIndex(k) # -1 THEN table[findIndex(k)].value ELSE Default>>
  /\ UNCHANGED <<object, pc, inserting, resizing>>
KeyExists(k) ==
  /\ pc = "ready"
  /\ last' = <<"keyExists", k, findIndex(k) # -1>>
  /\ UNCHANGED <<object, pc, inserting, resizing>>

\* The new table's slots are not set to NULL, and deleting such a slot is undefined.
Clear ==
  /\ pc = "ready"
  /\ IF \E i \in DOMAIN table : table[i] = Uninitialised THEN Undefined
     ELSE /\ size' = 17 /\ elems' = 0
          /\ table' = [i \in 0 .. 16 |-> Uninitialised]
          /\ should_probe' = NoProbe(17)
          /\ last' = <<"clear">>
          /\ UNCHANGED <<pc, inserting, resizing>>

\* The constructor.
Init ==
  /\ \E tsize \in InitialSizes : size = findPrime(IF tsize <= 0 THEN 17 ELSE tsize)
  /\ table = Empty(size) /\ should_probe = NoProbe(size) /\ elems = 0
  /\ pc = "ready" /\ pending = NoPair /\ assign = NULL
  /\ changedSize = size /\ newTable = Empty(size) /\ next = 0
  /\ last = InCall

Next ==
  \/ \E k \in Keys :
       \/ \E v \in Values : Insert(k, v) \/ Subscript(k, v)
       \/ Remove(k) \/ Find(k) \/ KeyExists(k)
  \/ MoveEntry \/ EndResize \/ Place \/ SubscriptInserted \/ Clear

Spec == Init /\ [][Next]_vars

----
\* Between two calls, findIndex() finds a key exactly if an entry has it, whatever was
\* removed, rebuilt or wrapped around before, and operator[] finds what it has just
\* inserted (Linearprobe.cpp:105-113, 134).
EveryEntryIsFound ==
  /\ pc = "ready" =>
       \A k \in Keys : findIndex(k) # -1 <=> \E i \in EntriesOf(table) : table[i].key = k
  /\ pc = "index" => findIndex(pending.key) # -1

\* Between two calls elems counts the entries (Linearprobe.cpp:76, 95, 157).
ElemsCountsEntries == pc = "ready" => elems = Cardinality(EntriesOf(table))

\* The loops that look for an empty slot end (Linearprobe.cpp:81, 175).
SlotIsLeft ==
  /\ pc = "place" => HasRoom(table, size, pending.key)
  /\ pc = "resize" => \A k \in Keys : HasRoom(newTable, changedSize, k)

\* The table behaves as a bag of pairs.  While it is rebuilt, the entries not yet moved
\* are in the old table (Linearprobe.cpp:172-181).
Slots == EntriesOf(table) \ (IF pc = "resize" THEN 0 .. next - 1 ELSE {})
Moved == IF pc = "resize" THEN EntriesOf(newTable) ELSE {}
Times(p) == Cardinality({i \in Slots : table[i] = p}) + Cardinality({i \in Moved : newTable[i] = p})
Contents ==
  LET held == {p \in Entry : Times(p) > 0}
  IN  [kv \in {<<p.key, p.value>> : p \in held} |-> Times([key |-> kv[1], value |-> kv[2]])]
M == INSTANCE Multimap WITH pairs <- Contents
RefinesMultimap == M!Spec
====
