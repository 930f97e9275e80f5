---- MODULE MCMultiplier ----
(* The multiplier with operands at the edges of the signed byte.               *)
EXTENDS Multiplier

MCSwitches == {2, 128, 255}
====
