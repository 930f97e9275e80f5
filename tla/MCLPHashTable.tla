---- MODULE MCLPHashTable ----
(* Three keys that start at the same slot of 2 and of 5, and at neighbouring     *)
(* slots of 11, and the usual load factor of 0.7.                                *)
EXTENDS LPHashTable

MCKeys == {4, 14, 24}
CONSTANTS v0, v1
MCValues == {v0, v1}
MChash(k, n) == k % n
MCfindPrime(n) == CHOOSE p \in {2, 5, 11, 17, 37} : p >= n /\ \A q \in {2, 5, 11, 17, 37} : q >= n => p <= q
MCshouldResize(e, n) == 10 * e >= 7 * n
MCTableSizes == {2, 5, 11, 17}
MCInitialSizes == {2}
====
