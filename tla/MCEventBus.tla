----------------------------- MODULE MCEventBus ------------------------------
(* One browser and two sessions. *)
EXTENDS EventBus

CONSTANTS a, b

=============================================================================
