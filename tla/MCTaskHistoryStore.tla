------------------------- MODULE MCTaskHistoryStore -------------------------
(* Two windows and one task.                                               *)
EXTENDS TaskHistoryStore

CONSTANTS w1, w2, t
=============================================================================
