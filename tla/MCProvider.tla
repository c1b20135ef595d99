------------------------------- MODULE MCProvider -------------------------------
(* Providers, session and crashes of the Bluetooth process, for the session     *)
(* types whose providers differ: software, A2DP offload and LE unicast offload. *)
EXTENDS BluetoothAudioProvider

MCTypes == { "A2DP_SOFTWARE_ENCODING", "A2DP_HARDWARE_OFFLOAD_ENCODING",
             "LE_AUDIO_HARDWARE_OFFLOAD_DECODING" }
=================================================================================
