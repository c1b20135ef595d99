----------------------------- MODULE MCAudioStreams -----------------------------
(* One output and one input stream of a device, before and after version 6.   *)
EXTENDS AudioHalStreams
=================================================================================
