------------------------- MODULE MCSubagentSlotPool -------------------------
(* Two fan-outs that compete for two profiles under provider-wide caps of  *)
(* 2 and, as the user had set it to 0 at the time of one call, of 1.  The  *)
(* local profile takes one subagent at a time, or two when its setting     *)
(* changed between the calls; the cloud profile has no limit, so that the  *)
(* cloud request of f1 is unbeatable.                                      *)
EXTENDS SubagentSlotPool

CONSTANTS w1, w2, w3, f1, f2, local, cloud

Req(g, p, pl, f, fl) ==
  [globalLimit |-> g, profileKey |-> p, profileLimit |-> pl,
   fanOutKey |-> f, fanOutLimit |-> fl]

MCSlotRequests ==
  {Req(2, local, 1, f1, 2), Req(2, cloud, Unset, f1, 2),
   Req(0, local, 2, f2, 2), Req(2, cloud, Unset, f2, 1)}

=============================================================================
