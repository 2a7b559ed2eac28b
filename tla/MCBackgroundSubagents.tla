------------------------ MODULE MCBackgroundSubagents ------------------------
(* One parent task with two fan-outs of one subagent each; the parent is   *)
(* built twice, so that the first instance can start what the second one   *)
(* collects.                                                               *)
EXTENDS BackgroundSubagents, TLC

CONSTANTS a, b

TwoFanOuts == a :> 1 @@ b :> 2
=============================================================================
