---- MODULE Multimap ----
(* What LPHashTable (Linearprobe.cpp) promises: a bag of pairs.  insert() does  *)
(* not look for the key, so that a key may have several values; the others take *)
(* one of them, nobody says which.                                              *)
EXTENDS Bags

CONSTANTS Keys, Values, Default, InCall

BE == INSTANCE BagsExt

VARIABLES
  pairs,     \* what the table holds
  last       \* the last call that returned, with its answer, or InCall

vars == <<pairs, last>>
ValuesOf(k) == {v \in Values : BagIn(<<k, v>>, pairs)}

Call == last' = InCall /\ UNCHANGED pairs
Insert(k, v) == last' = <<"insert", k, v>> /\ pairs' = BE!BagAdd(pairs, <<k, v>>)
\* Assignment through the reference operator[] returns, to a key that is there.
Assign(k, v) ==
  /\ last' = <<"assign", k, v>>
  /\ \E old \in ValuesOf(k) : pairs' = BE!BagAdd(BE!BagRemove(pairs, <<k, old>>), <<k, v>>)
Remove(k) ==
  /\ last' = <<"remove", k>>
  /\ IF ValuesOf(k) = {} THEN pairs' = pairs
     ELSE \E v \in ValuesOf(k) : pairs' = BE!BagRemove(pairs, <<k, v>>)
Find(k) ==
  /\ \E v \in IF ValuesOf(k) = {} THEN {Default} ELSE ValuesOf(k) : last' = <<"find", k, v>>
  /\ UNCHANGED pairs
KeyExists(k) ==
  /\ last' = <<"keyExists", k, ValuesOf(k) # {}>>
  /\ UNCHANGED pairs
Clear == last' = <<"clear">> /\ pairs' = EmptyBag

Init == pairs = EmptyBag /\ last = InCall
Next ==
  \/ Call \/ Clear
  \/ \E k \in Keys :
       \/ Remove(k) \/ Find(k) \/ KeyExists(k)
       \/ \E v \in Values : Insert(k, v) \/ Assign(k, v)
Spec == Init /\ [][Next]_vars
====
