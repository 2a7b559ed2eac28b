-------------------------- MODULE MCParallelSubtask --------------------------
(* Two subtasks; fan-out f may run two at once, g one; the local profile *)
(* takes one subagent.                                                     *)
EXTENDS ParallelSubtask

CONSTANTS s1, s2, f, g, local, cloud

Req(global, profile, limit, fanOut, fanOutLimit) ==
  [globalLimit |-> global, profileKey |-> profile, profileLimit |-> limit,
   fanOutKey |-> fanOut, fanOutLimit |-> fanOutLimit]

MCSlotRequests ==
  {Req(2, local, 1, f, 2), Req(2, cloud, Unset, f, 2), Req(2, local, 1, g, 1)}
=============================================================================
