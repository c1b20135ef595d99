------------------------------ MODULE MCStreamOut ------------------------------
(* Two output streams over one A2DP software session, with the device-wide     *)
(* A2dpSuspended parameter and a stack that may die.                           *)
EXTENDS BluetoothStreamOut, TLC

MCSymmetry == Permutations(Ports)
================================================================================
