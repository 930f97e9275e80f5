---- MODULE MCJtagUart ----
(* A timeout that is too short, and becomes the longest.                        *)
EXTENDS JtagUart
MCTimeouts == {0}
====
