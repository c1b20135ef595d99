------------------------------ MODULE MCAudioCalls ------------------------------
(* Calls to one device and one stream of a legacy HAL that may refuse any.    *)
EXTENDS AudioHalCalls
=================================================================================
