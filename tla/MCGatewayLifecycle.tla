-------------------------- MODULE MCGatewayLifecycle --------------------------
(* Model-checking instances of GatewayLifecycle. *)
EXTENDS GatewayLifecycle, TLC
===============================================================================
