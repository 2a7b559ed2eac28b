--------------------------- MODULE ParallelSubtask ---------------------------
(***************************************************************************)
(* The life of the subtasks of run_parallel_tasks: runOneSubtask           *)
(* (src/core/tools/RunParallelTasksTool.ts) with the headless child it     *)
(* creates and awaits (src/core/webview/BackgroundTaskRunner.ts), its row  *)
(* in the subagents panel (SubagentRegistry.ts) and its slot.  The slot    *)
(* pool is the abstract one that SubagentSlotPool implements.              *)
(*                                                                         *)
(* An action is what runs between two awaits of the code; an event of a    *)
(* child runs all its listeners in one step.                               *)
(***************************************************************************)
EXTENDS Integers, FiniteSets

CONSTANTS
  Subtask,       \* the subtasks of all fan-outs
  FanOut,        \* run_parallel_tasks calls, each with an AbortController
  SlotRequests,  \* what the subtasks ask the pool for
  Unset          \* the limit of a profile without one

ASSUME SubtasksAssumption ==
  /\ IsFiniteSet(Subtask)
  /\ \A q \in SlotRequests : q.fanOutKey \in FanOut

VARIABLES
  phase, request,  \* the slot pool: where the call of acquire stands
  step,            \* the await at which runOneSubtask stands
  child,           \* the child Task: "none", "live", "completed", "aborted"
  tracked,         \* the children in BackgroundTaskRunner.backgroundTasks
  outcome,         \* what awaitTaskCompletion resolved with
  row,             \* the status of the panel row
  result,          \* the status of the ParallelSubtaskResult
  aborted,         \* the fan-outs whose signal aborted
  reported         \* the subtasks whose result went to the tracker

slots == <<phase, request>>
vars == <<slots, step, child, tracked, outcome, row, result, aborted, reported>>

Pool == INSTANCE SlotAllocation WITH Waiter <- Subtask

(* slot: acquire; worktree: createWorktree; create: createBackgroundTask;  *)
(* persist: persistParallelChildId; await: awaitTaskCompletion; settled:   *)
(* it has resolved; ending: finalize; done: reported to the tracker.       *)
Step == {"slot", "worktree", "create", "persist", "await", "settled",
         "ending", "done"}
Terminal == {"completed", "failed", "cancelled"}

Signalled(s) == request[s].fanOutKey \in aborted
InFanOut(f) == {s \in Subtask : request[s].fanOutKey = f}

(* SubagentRegistry.markTerminal: the first terminal status stays, only a  *)
(* failure is refined to a cancellation.                                   *)
MarkTerminal(old, status) ==
  IF old \in Terminal /\ ~(old = "failed" /\ status = "cancelled")
  THEN old ELSE status

(* The listeners of awaitTaskCompletion are attached. *)
Heard(s) == step[s] = "await"

Init ==
  /\ phase = [s \in Subtask |-> "waiting"]
  /\ request \in [Subtask -> SlotRequests]
  /\ step = [s \in Subtask |-> "slot"]
  /\ child = [s \in Subtask |-> "none"]
  /\ tracked = {}
  /\ outcome = [s \in Subtask |-> "none"]
  /\ row = [s \in Subtask |-> "queued"]
  /\ result = [s \in Subtask |-> "none"]
  /\ aborted = {}
  /\ reported = {}

-----------------------------------------------------------------------------
(* runOneSubtask.                                                          *)

(* end(status): the row turns terminal, the result goes to finalize.       *)
EndWith(s, status) ==
  /\ row' = [row EXCEPT ![s] = MarkTerminal(@, status)]
  /\ result' = [result EXCEPT ![s] = status]
  /\ step' = [step EXCEPT ![s] = "ending"]

SlotGranted(s) ==
  /\ step[s] = "slot"
  /\ ~Signalled(s)
  /\ Pool!Grant(s)
  /\ step' = [step EXCEPT ![s] = "worktree"]
  /\ UNCHANGED <<child, tracked, outcome, row, result, aborted, reported>>

SlotRejected(s) ==
  /\ step[s] = "slot"
  /\ Signalled(s)
  /\ Pool!GiveUp(s)
  /\ EndWith(s, "cancelled")
  /\ UNCHANGED <<child, tracked, outcome, aborted, reported>>

WorktreeFails(s) ==
  /\ step[s] = "worktree"
  /\ EndWith(s, "failed")
  /\ UNCHANGED <<slots, child, tracked, outcome, aborted, reported>>

WorktreeCreated(s) ==
  /\ step[s] = "worktree"
  /\ IF Signalled(s)
     THEN EndWith(s, "cancelled")
     ELSE /\ step' = [step EXCEPT ![s] = "create"]
          /\ UNCHANGED <<row, result>>
  /\ UNCHANGED <<slots, child, tracked, outcome, aborted, reported>>

(* createBackgroundTask throws: the profile is not allowed, for example.   *)
CreateFails(s) ==
  /\ step[s] = "create"
  /\ EndWith(s, "failed")
  /\ UNCHANGED <<slots, child, tracked, outcome, aborted, reported>>

(* createBackgroundTask: the child is tracked, its row replaces the queued *)
(* placeholder, and it starts.                                             *)
ChildCreated(s) ==
  /\ step[s] = "create"
  /\ child' = [child EXCEPT ![s] = "live"]
  /\ tracked' = tracked \cup {s}
  /\ row' = [row EXCEPT ![s] = "running"]
  /\ step' = [step EXCEPT ![s] = "persist"]
  /\ UNCHANGED <<slots, outcome, result, aborted, reported>>

(* Fault: the signal is not looked at when awaitTaskCompletion begins.     *)
AwaitWithoutSignal(s) ==
  /\ step[s] = "persist"
  /\ step' = [step EXCEPT ![s] = "await"]
  /\ UNCHANGED <<slots, child, tracked, outcome, row, result, aborted, reported>>

(* The start of awaitTaskCompletion: its listeners, and the abort of a     *)
(* child whose signal has aborted, which settles it at once.               *)
StartAwait(s) ==
  /\ step[s] = "persist"
  /\ IF Signalled(s)
     THEN /\ child' = [child EXCEPT ![s] = "aborted"]
          /\ row' = [row EXCEPT ![s] = MarkTerminal(@, "failed")]
          /\ outcome' = [outcome EXCEPT ![s] = "aborted"]
          /\ tracked' = tracked \ {s}
          /\ step' = [step EXCEPT ![s] = "settled"]
     ELSE /\ step' = [step EXCEPT ![s] = "await"]
          /\ UNCHANGED <<child, row, outcome, tracked>>
  /\ UNCHANGED <<slots, result, aborted, reported>>

(* Fault: the signal decides, the row is not looked at.                    *)
JudgeOutcomeBySignal(s) ==
  /\ step[s] = "settled"
  /\ EndWith(s, CASE outcome[s] = "completed" -> "completed"
                  [] outcome[s] # "completed" /\ Signalled(s) -> "cancelled"
                  [] OTHER -> "failed")
  /\ UNCHANGED <<slots, child, tracked, outcome, aborted, reported>>

(* The code after awaitTaskCompletion. *)
JudgeOutcome(s) ==
  /\ step[s] = "settled"
  /\ EndWith(s, CASE outcome[s] = "completed" -> "completed"
                  [] outcome[s] # "completed" /\ (Signalled(s) \/ row[s] = "cancelled")
                       -> "cancelled"
                  [] OTHER -> "failed")
  /\ UNCHANGED <<slots, child, tracked, outcome, aborted, reported>>

(* The finally block; a call that was never granted holds no slot. *)
GiveSlotBack(s) == IF phase[s] = "holding" THEN Pool!GiveBack(s) ELSE UNCHANGED slots

(* Fault: the slot is not in a finally block: a failure keeps it.          *)
FinishKeepsSlot(s) ==
  /\ step[s] = "ending"
  /\ step' = [step EXCEPT ![s] = "done"]
  /\ IF phase[s] = "holding" /\ result[s] # "failed"
     THEN Pool!GiveBack(s) ELSE UNCHANGED slots
  /\ reported' = IF Signalled(s) THEN reported ELSE reported \cup {s}
  /\ UNCHANGED <<child, tracked, outcome, row, result, aborted>>

(* finalize has ended and runOneSubtask returns; the tracker gets the      *)
(* result unless the fan-out was cancelled.                                *)
Finish(s) ==
  /\ step[s] = "ending"
  /\ step' = [step EXCEPT ![s] = "done"]
  /\ GiveSlotBack(s)
  /\ reported' = IF Signalled(s) THEN reported ELSE reported \cup {s}
  /\ UNCHANGED <<child, tracked, outcome, row, result, aborted>>

-----------------------------------------------------------------------------
(* The child, and those who stop it.                                       *)

(* TaskCompleted or TaskAborted of the children `ended`: the rows, and     *)
(* `finish` of awaitTaskCompletion where it listens.                       *)
Emit(ended, event, status) ==
  LET settling == {s \in ended : Heard(s)}
  IN /\ child' = [s \in Subtask |-> IF s \in ended THEN event ELSE child[s]]
     /\ row' = [s \in Subtask |->
                  IF s \in ended THEN MarkTerminal(row[s], status) ELSE row[s]]
     /\ outcome' = [s \in Subtask |-> IF s \in settling THEN event ELSE outcome[s]]
     /\ tracked' = tracked \ settling
     /\ step' = [s \in Subtask |-> IF s \in settling THEN "settled" ELSE step[s]]

(* attempt_completion of the child. *)
ChildCompletes(s) ==
  /\ child[s] = "live"
  /\ Emit({s}, "completed", "completed")
  /\ UNCHANGED <<slots, result, aborted, reported>>

(* stopBackgroundTask (stuck, budget), an API error that no retry fixes,   *)
(* or abortTasks when its history is deleted.                              *)
ChildAborts(s) ==
  /\ child[s] = "live"
  /\ Emit({s}, "aborted", "failed")
  /\ UNCHANGED <<slots, result, aborted, reported>>

(* cancelSubagent: the row turns cancelled first, then the child aborts,   *)
(* again if it has ended and is still tracked.                             *)
RowStop(s) ==
  /\ s \in tracked
  /\ Emit({s}, "aborted", "cancelled")
  /\ UNCHANGED <<slots, result, aborted, reported>>

(* Fault: the children that run are left alone. *)
AbortFanOutWaiters(f) ==
  /\ f \notin aborted
  /\ aborted' = aborted \cup {f}
  /\ UNCHANGED <<slots, step, child, tracked, outcome, row, result, reported>>

(* The controller of a fan-out aborts: onSignalAbort aborts the child of   *)
(* every subtask that awaits one, the pool rejects those that wait.        *)
AbortFanOut(f) ==
  /\ f \notin aborted
  /\ aborted' = aborted \cup {f}
  /\ Emit({s \in InFanOut(f) : Heard(s)}, "aborted", "failed")
  /\ UNCHANGED <<slots, result, reported>>

Next ==
  \/ \E s \in Subtask :
       \/ SlotGranted(s) \/ SlotRejected(s)
       \/ WorktreeFails(s) \/ WorktreeCreated(s)
       \/ CreateFails(s) \/ ChildCreated(s)
       \/ StartAwait(s) \/ JudgeOutcome(s) \/ Finish(s)
       \/ ChildCompletes(s) \/ ChildAborts(s) \/ RowStop(s)
  \/ \E f \in FanOut : AbortFanOut(f)

Spec == Init /\ [][Next]_vars

(* I/O ends, and every child ends: it completes or is stopped (stuck, over *)
(* its request budget, out of retries).  A waiter is not overtaken for     *)
(* ever, as the subtasks call once each (EveryWaiterServed with CallsStop  *)
(* of SubagentSlotPool).  Users need not act.                              *)
Fairness ==
  \A s \in Subtask :
    /\ SF_vars(SlotGranted(s))
    /\ WF_vars(SlotRejected(s))
    /\ WF_vars(WorktreeFails(s) \/ WorktreeCreated(s))
    /\ WF_vars(CreateFails(s) \/ ChildCreated(s))
    /\ WF_vars(StartAwait(s))
    /\ WF_vars(JudgeOutcome(s))
    /\ WF_vars(Finish(s))
    /\ WF_vars(ChildCompletes(s) \/ ChildAborts(s))

FairSpec == Spec /\ Fairness
-----------------------------------------------------------------------------

TypeOK ==
  /\ phase \in [Subtask -> Pool!Phase]
  /\ request \in [Subtask -> SlotRequests]
  /\ step \in [Subtask -> Step]
  /\ child \in [Subtask -> {"none", "live", "completed", "aborted"}]
  /\ tracked \subseteq Subtask
  /\ outcome \in [Subtask -> {"none", "completed", "aborted"}]
  /\ row \in [Subtask -> {"queued", "running"} \cup Terminal]
  /\ result \in [Subtask -> {"none"} \cup Terminal]
  /\ aborted \subseteq FanOut
  /\ reported \subseteq Subtask

(* Only subtasks that hold a slot have a running child, so the limits of   *)
(* the pool bound the children, and a subtask that is done keeps none.     *)
SlotsMatchChildren ==
  \A s \in Subtask :
    /\ child[s] = "live" => phase[s] = "holding"
    /\ phase[s] = "holding" <=> step[s] \notin {"slot", "done"} /\ phase[s] # "rejected"

(* A parent abort orphans no child: one that runs in an aborted fan-out is *)
(* about to be aborted (runOneSubtask reaches awaitTaskCompletion).        *)
NoOrphanedChild ==
  \A s \in Subtask : Signalled(s) /\ child[s] = "live" => step[s] = "persist"

(* What the panel shows as failed or cancelled is what the parent model is *)
(* told, whoever stopped the child; a result "completed" is shown as such. *)
(* A row shown as completed says less: a child that completes before       *)
(* anybody listens leaves such a row, and its parent is told "cancelled"   *)
(* or "failed" when the fan-out is cancelled or the row stopped later.     *)
RowMatchesResult ==
  \A s \in Subtask :
    step[s] \in {"ending", "done"} =>
      /\ row[s] \in Terminal
      /\ row[s] \in {"failed", "cancelled"} => result[s] = row[s]
      /\ result[s] = "completed" => row[s] = "completed"

(* A subtask whose child ended before awaitTaskCompletion listened. *)
Unheard(s) == step[s] = "await" /\ child[s] # "live"

(* Every subtask of a fan-out ends, as long as no child ends unheard.      *)
EverySubtaskEnds ==
  \A s \in Subtask : <>(step[s] = "done" \/ \E t \in Subtask : Unheard(t))

(* A cancelled fan-out ends, also with a child that had ended unheard.     *)
CancelledFanOutEnds ==
  \A f \in FanOut :
    f \in aborted ~> \A s \in InFanOut(f) : step[s] = "done"

(* Whatever fails, is stopped or is cancelled, no call of runOneSubtask is *)
(* left hanging, except for a child that ended before anybody listened.    *)
SubtasksEnd == EverySubtaskEnds /\ CancelledFanOutEnds

-----------------------------------------------------------------------------
(* What the repository's comments say and the code does not do.            *)

(* An abort of a child settles awaitTaskCompletion, and the fan-out        *)
(* reports it instead of hanging (BackgroundTaskRunner.ts:265-268).        *)
AbortSettles == \A s \in Subtask : child[s] = "aborted" ~> step[s] = "done"
=============================================================================
