-------------------------- MODULE AudioStreamContract --------------------------
(***************************************************************************)
(* What the HIDL audio service promises the client of a stream, whatever   *)
(* the version of the interface: a command put to a stream is answered     *)
(* exactly once, by a legacy HAL stream that is still open, and a stream   *)
(* is closed under a command only when the client, or the service, is gone.*)
(***************************************************************************)
CONSTANT Streams

VARIABLES life,      \* life[s]: the legacy HAL stream is "open" or "closed"
          request    \* request[s]: the client's command is "idle", "pending" or "done"

contractVars == << life, request >>

ContractInit ==
  /\ life = [s \in Streams |-> "closed"]
  /\ request = [s \in Streams |-> "idle"]

Open(s) ==
  /\ life[s] = "closed" /\ request[s] = "idle"
  /\ life' = [life EXCEPT ![s] = "open"]
  /\ UNCHANGED request

Ask(s) ==
  /\ life[s] = "open" /\ request[s] = "idle"
  /\ request' = [request EXCEPT ![s] = "pending"]
  /\ UNCHANGED life

Serve(s) ==
  /\ life[s] = "open" /\ request[s] = "pending"
  /\ request' = [request EXCEPT ![s] = "done"]
  /\ UNCHANGED life

Take(s) ==
  /\ request[s] = "done"
  /\ request' = [request EXCEPT ![s] = "idle"]
  /\ UNCHANGED life

Close(s) ==
  /\ life[s] = "open" /\ request[s] = "idle"
  /\ life' = [life EXCEPT ![s] = "closed"]
  /\ UNCHANGED request

(* The client dies: none of its commands is of interest any more.          *)
Abandon ==
  /\ request' = [s \in Streams |-> "idle"]
  /\ UNCHANGED life

(* The service dies: no stream is left, and no client waits for one.       *)
Vanish ==
  /\ life' = [s \in Streams |-> "closed"]
  /\ request' = [s \in Streams |-> "idle"]

ContractNext ==
  \/ \E s \in Streams : Open(s) \/ Ask(s) \/ Serve(s) \/ Take(s) \/ Close(s)
  \/ Abandon \/ Vanish

ContractSafety == ContractInit /\ [][ContractNext]_contractVars

ContractSpec ==
  /\ ContractSafety
  /\ \A s \in Streams : WF_contractVars(Serve(s))
================================================================================
