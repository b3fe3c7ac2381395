----------------------------- MODULE MCSlotFile -----------------------------
(* An instance of SlotFile for TLC: 2, 6 and 10 share a first slot, the    *)
(* probes of 2 and 3 overlap and wrap around, and there is one slot less   *)
(* within reach than pages want it.                                        *)
EXTENDS SlotFile

SomeSnapshots == {<<2, 6, 2>>, <<3, 10>>, <<10, 6>>}
=============================================================================
