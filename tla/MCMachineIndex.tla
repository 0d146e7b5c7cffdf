--------------------------- MODULE MCMachineIndex ----------------------------
(* Instances of MachineIndex.                                                *)
EXTENDS MachineIndex, TLC

CONSTANTS p1, p2, p3, m1, m2, f1, f2, f3, f4
===============================================================================
