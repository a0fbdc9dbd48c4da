--------------------------------- MODULE MCEventBus ---------------------------------
(***************************************************************************)
(* Three subscriptions on a channel of two.                                  *)
(***************************************************************************)
EXTENDS EventBus
=============================================================================
