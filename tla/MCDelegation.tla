---------------------------- MODULE MCDelegation ----------------------------
(* A root task and the child it may open.                                  *)
EXTENDS Delegation

CONSTANTS A, B

Pair == {A, B}

(* The user cancels at any moment but opens and resumes tasks only when no *)
(* file access is pending.                                                 *)
Careful == {"cancel"}
=============================================================================
