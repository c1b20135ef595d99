--------------------------------- MODULE MCPcm ---------------------------------
(* The data path of one output stream, in stereo or mixed to mono.             *)
EXTENDS PcmDataPath
================================================================================
