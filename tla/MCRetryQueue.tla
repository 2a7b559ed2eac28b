---------------------------- MODULE MCRetryQueue ----------------------------
(* Two users; the bounds are in the configuration. *)
EXTENDS RetryQueue

CONSTANTS anna, ben
=============================================================================
