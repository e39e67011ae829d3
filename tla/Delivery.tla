------------------------------ MODULE Delivery ------------------------------
(***************************************************************************)
(* What sending a file promises, without links, chunks or folders: a file  *)
(* is stored at most once, the sender is told at most one outcome, and     *)
(* "ok" means that the file has been stored.  "failed" promises nothing:   *)
(* the acknowledgement of a stored file can be lost.                       *)
(***************************************************************************)
CONSTANT Transfers

VARIABLES
  stored,   \* the transfers whose file was stored
  outcome   \* outcome[t]: what SendFile returned, or "none" so far

dVars == <<stored, outcome>>

DeliveryInit ==
  /\ stored = {}
  /\ outcome = [t \in Transfers |-> "none"]

Store(t) ==
  /\ t \notin stored
  /\ stored' = stored \cup {t}
  /\ UNCHANGED outcome

Return(t, result) ==
  /\ outcome[t] = "none"
  /\ outcome' = [outcome EXCEPT ![t] = result]
  /\ UNCHANGED stored

Confirm(t) == t \in stored /\ Return(t, "ok")

GiveUp(t) == Return(t, "failed")

DeliveryNext == \E t \in Transfers : Store(t) \/ Confirm(t) \/ GiveUp(t)

DeliverySpec == DeliveryInit /\ [][DeliveryNext]_dVars
=============================================================================
