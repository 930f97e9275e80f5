---- MODULE MCUSBHost ----
(* One key to press, and two looks at the port instead of five and seven.      *)
EXTENDS USBHost
MCKeys == {26}
====
