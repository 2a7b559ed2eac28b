-------------------------- MODULE MCAssistantTurn --------------------------
(* Up to three blocks in all answers together, and one failed stream.       *)
EXTENDS AssistantTurn
=============================================================================
