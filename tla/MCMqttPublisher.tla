---------------------------- MODULE MCMqttPublisher ----------------------------
(***************************************************************************)
(* MqttPublisher for TLC: the calls of the manager, the lost connections.  *)
(***************************************************************************)
EXTENDS MqttPublisher

CONSTANTS Sets, Losses

-------------------------------------------------------------------------------
MCBudget == [kind \in {"set", "loss"} |-> IF kind = "set" THEN Sets ELSE Losses]
===============================================================================
