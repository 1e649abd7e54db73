-------------------------- MODULE MCUpstreamClient --------------------------
(* Model-checking instances of UpstreamClient.  Nothing has to be defined:   *)
(* the configurations give two interchangeable callers and small delays.     *)
EXTENDS UpstreamClient
=============================================================================
