----------------------------- MODULE MCStreamIn -----------------------------
(* The input stream with two threads over one session of each kind.           *)
EXTENDS BluetoothStreamIn
=============================================================================
