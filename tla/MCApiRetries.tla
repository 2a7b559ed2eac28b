---------------------------- MODULE MCApiRetries ----------------------------
(* Two turns, two retries.                                                 *)
EXTENDS ApiRetries
=============================================================================
