------------------------ MODULE ParallelSubtaskProofs ------------------------
(***************************************************************************)
(* Proofs about ParallelSubtask, for any subtasks, fan-outs and requests:  *)
(* slots match children, no child is orphaned, and rows match results.     *)
(***************************************************************************)
EXTENDS ParallelSubtask, TLAPS

(* Where the call of acquire stands at each await of runOneSubtask. *)
SlotOf(s) ==
  /\ step[s] = "slot" => phase[s] = "waiting"
  /\ step[s] \in {"worktree", "create", "persist", "await", "settled"}
       => phase[s] = "holding"
  /\ step[s] = "ending" => phase[s] \in {"holding", "rejected"}
  /\ step[s] = "done" => phase[s] \in {"released", "rejected"}

(* What the child, its row and its outcome can be at each await. *)
ChildOf(s) ==
  /\ step[s] \in {"slot", "worktree", "create"} => child[s] = "none" /\ row[s] = "queued"
  /\ child[s] = "live" => step[s] \in {"persist", "await"} /\ row[s] = "running"
  /\ s \in tracked => step[s] \in {"persist", "await"}
  /\ step[s] \in {"persist", "await"} /\ child[s] # "live" => row[s] \in Terminal
  /\ step[s] = "settled" =>
       /\ row[s] \in Terminal
       /\ outcome[s] = "completed" => row[s] = "completed"
  /\ Signalled(s) /\ child[s] = "live" => step[s] = "persist"

RowOf(s) ==
  step[s] \in {"ending", "done"} =>
    /\ row[s] \in Terminal
    /\ row[s] \in {"failed", "cancelled"} => result[s] = row[s]
    /\ result[s] = "completed" => row[s] = "completed"

SubtaskInv == TypeOK /\ \A s \in Subtask : SlotOf(s) /\ ChildOf(s) /\ RowOf(s)

-----------------------------------------------------------------------------
(* The events of children: what Emit does to one subtask. *)
LEMMA EmitOne ==
  ASSUME TypeOK, NEW ended \in SUBSET Subtask, NEW event, NEW status,
         Emit(ended, event, status), NEW s \in Subtask
  PROVE  /\ child'[s] = IF s \in ended THEN event ELSE child[s]
         /\ row'[s] = IF s \in ended THEN MarkTerminal(row[s], status) ELSE row[s]
         /\ outcome'[s] = IF s \in ended /\ step[s] = "await" THEN event ELSE outcome[s]
         /\ step'[s] = IF s \in ended /\ step[s] = "await" THEN "settled" ELSE step[s]
         /\ s \in tracked' => s \in tracked /\ ~(s \in ended /\ step[s] = "await")
BY DEF Emit, Heard

LEMMA EmitTypes ==
  ASSUME TypeOK, NEW ended \in SUBSET Subtask,
         NEW event \in {"completed", "aborted"}, NEW status \in Terminal,
         Emit(ended, event, status),
         phase' = phase, request' = request, result' = result,
         aborted' \subseteq FanOut, reported' = reported
  PROVE  TypeOK'
<1>1. \A s \in Subtask : MarkTerminal(row[s], status) \in {"queued", "running"} \cup Terminal
  BY DEF TypeOK, MarkTerminal
<1> QED BY <1>1 DEF TypeOK, Emit, Heard, Step, Terminal

LEMMA InvInit == Init => SubtaskInv
<1> SUFFICES ASSUME Init PROVE SubtaskInv
  OBVIOUS
<1>1. TypeOK BY DEF Init, TypeOK, Step, Pool!Phase
<1>2. ASSUME NEW s \in Subtask PROVE SlotOf(s) /\ ChildOf(s) /\ RowOf(s)
  BY <1>2 DEF Init, SlotOf, ChildOf, RowOf, Signalled
<1> QED BY <1>1, <1>2 DEF SubtaskInv

(* One lemma for each group of actions: the slot, the worktree and the     *)
(* child's creation, its end, and what follows.                            *)
LEMMA SlotStep ==
  ASSUME SubtaskInv, NEW t \in Subtask, SlotGranted(t) \/ SlotRejected(t)
  PROVE  SubtaskInv'
<1>1. TypeOK'
  BY DEF SubtaskInv, TypeOK, SlotGranted, SlotRejected, EndWith, MarkTerminal,
         Pool!Grant, Pool!GiveUp, Pool!Phase, Step, Terminal
<1>2. ASSUME NEW s \in Subtask PROVE SlotOf(s)' /\ ChildOf(s)' /\ RowOf(s)'
  BY <1>2 DEF SubtaskInv, TypeOK, SlotGranted, SlotRejected, EndWith, MarkTerminal,
              Pool!Grant, Pool!GiveUp, SlotOf, ChildOf, RowOf, Signalled, Terminal
<1> QED BY <1>1, <1>2 DEF SubtaskInv

LEMMA StartStep ==
  ASSUME SubtaskInv, NEW t \in Subtask,
         WorktreeFails(t) \/ WorktreeCreated(t) \/ CreateFails(t) \/ ChildCreated(t)
  PROVE  SubtaskInv'
<1>1. TypeOK'
  BY DEF SubtaskInv, TypeOK, WorktreeFails, WorktreeCreated, CreateFails, ChildCreated,
         EndWith, MarkTerminal, slots, Step, Terminal
<1>2. ASSUME NEW s \in Subtask PROVE SlotOf(s)' /\ ChildOf(s)' /\ RowOf(s)'
  BY <1>2 DEF SubtaskInv, TypeOK, WorktreeFails, WorktreeCreated, CreateFails,
              ChildCreated, EndWith, MarkTerminal, slots, SlotOf, ChildOf, RowOf,
              Signalled, Terminal
<1> QED BY <1>1, <1>2 DEF SubtaskInv

LEMMA AwaitStep ==
  ASSUME SubtaskInv, NEW t \in Subtask, StartAwait(t)
  PROVE  SubtaskInv'
<1>1. TypeOK'
  BY DEF SubtaskInv, TypeOK, StartAwait, MarkTerminal, slots, Step, Terminal
<1>2. ASSUME NEW s \in Subtask PROVE SlotOf(s)' /\ ChildOf(s)' /\ RowOf(s)'
  BY <1>2 DEF SubtaskInv, TypeOK, StartAwait, MarkTerminal, slots, SlotOf, ChildOf,
              RowOf, Signalled, Terminal
<1> QED BY <1>1, <1>2 DEF SubtaskInv

LEMMA JudgeStep ==
  ASSUME SubtaskInv, NEW t \in Subtask, JudgeOutcome(t)
  PROVE  SubtaskInv'
<1> PICK status \in Terminal :
      /\ EndWith(t, status)
      /\ status = "completed" <=> outcome[t] = "completed"
      /\ row[t] = "cancelled" => status # "failed"
  BY DEF JudgeOutcome, Terminal
<1>1. TypeOK'
  BY DEF SubtaskInv, TypeOK, JudgeOutcome, EndWith, MarkTerminal, slots, Step, Terminal
<1>2. ASSUME NEW s \in Subtask PROVE SlotOf(s)' /\ ChildOf(s)' /\ RowOf(s)'
  BY <1>2 DEF SubtaskInv, TypeOK, JudgeOutcome, EndWith, MarkTerminal, slots, SlotOf,
              ChildOf, RowOf, Signalled, Terminal
<1> QED BY <1>1, <1>2 DEF SubtaskInv

LEMMA FinishStep ==
  ASSUME SubtaskInv, NEW t \in Subtask, Finish(t)
  PROVE  SubtaskInv'
<1>1. TypeOK'
  BY DEF SubtaskInv, TypeOK, Finish, GiveSlotBack, Pool!GiveBack, Pool!Phase, slots,
         Step, Terminal
<1>2. ASSUME NEW s \in Subtask PROVE SlotOf(s)' /\ ChildOf(s)' /\ RowOf(s)'
  BY <1>2 DEF SubtaskInv, TypeOK, Finish, GiveSlotBack, Pool!GiveBack, slots, SlotOf,
              ChildOf, RowOf, Signalled, Terminal
<1> QED BY <1>1, <1>2 DEF SubtaskInv

(* The children `ended` run, or are tracked and have run. *)
LEMMA EventStep ==
  ASSUME SubtaskInv, NEW ended \in SUBSET Subtask,
         NEW event \in {"completed", "aborted"}, NEW status \in Terminal,
         Emit(ended, event, status),
         \A s \in ended : step[s] \in {"persist", "await"},
         \A s \in ended : child[s] # "live" => event = "aborted",
         event = "completed" => status = "completed",
         phase' = phase, request' = request, result' = result,
         aborted' \subseteq FanOut, reported' = reported,
         \A s \in Subtask : Signalled(s)' => Signalled(s) \/ step[s] # "await" \/ s \in ended
  PROVE  SubtaskInv'
<1>1. TypeOK' BY EmitTypes DEF SubtaskInv
<1>2. ASSUME NEW s \in Subtask PROVE SlotOf(s)' /\ ChildOf(s)' /\ RowOf(s)'
  <2>1. SlotOf(s) /\ ChildOf(s) /\ RowOf(s) /\ TypeOK
    BY <1>2 DEF SubtaskInv
  <2>2. /\ child'[s] = IF s \in ended THEN event ELSE child[s]
        /\ row'[s] = IF s \in ended THEN MarkTerminal(row[s], status) ELSE row[s]
        /\ outcome'[s] = IF s \in ended /\ step[s] = "await" THEN event ELSE outcome[s]
        /\ step'[s] = IF s \in ended /\ step[s] = "await" THEN "settled" ELSE step[s]
        /\ s \in tracked' => s \in tracked /\ ~(s \in ended /\ step[s] = "await")
    BY <1>2, <2>1, EmitOne
  <2>3. step[s] \in Step BY <2>1, <1>2 DEF TypeOK
  <2>4. SlotOf(s)' BY <2>1, <2>2 DEF SlotOf
  <2>5. RowOf(s)' BY <2>1, <2>2 DEF RowOf
  <2>6. s \in ended => row'[s] \in Terminal /\ (event = "completed" => row'[s] = "completed")
    BY <2>1, <2>2 DEF ChildOf, MarkTerminal, Terminal
  <2>7. ChildOf(s)'
    BY <1>2, <2>1, <2>2, <2>3, <2>6 DEF ChildOf, Step
  <2> QED BY <2>4, <2>5, <2>7
<1> QED BY <1>1, <1>2 DEF SubtaskInv

LEMMA ChildEvent ==
  ASSUME SubtaskInv, NEW t \in Subtask,
         ChildCompletes(t) \/ ChildAborts(t) \/ RowStop(t)
  PROVE  SubtaskInv'
<1>1. step[t] \in {"persist", "await"} /\ (child[t] = "live" \/ t \in tracked)
  BY DEF SubtaskInv, ChildOf, ChildCompletes, ChildAborts, RowStop
<1>2. /\ UNCHANGED <<phase, request, result, aborted, reported>>
      /\ aborted \subseteq FanOut
  BY DEF SubtaskInv, TypeOK, ChildCompletes, ChildAborts, RowStop, slots
<1>3. \A s \in Subtask : Signalled(s)' => Signalled(s)
  BY <1>2 DEF Signalled
<1>4. CASE ChildCompletes(t)
  <2>1. child[t] = "live" /\ Emit({t}, "completed", "completed")
    BY <1>4 DEF ChildCompletes
  <2> QED BY <1>1, <1>2, <1>3, <2>1, EventStep DEF Terminal
<1>5. CASE ChildAborts(t)
  <2>1. Emit({t}, "aborted", "failed")
    BY <1>5 DEF ChildAborts
  <2> QED BY <1>1, <1>2, <1>3, <2>1, EventStep DEF Terminal
<1>6. CASE RowStop(t)
  <2>1. Emit({t}, "aborted", "cancelled")
    BY <1>6 DEF RowStop
  <2> QED BY <1>1, <1>2, <1>3, <2>1, EventStep DEF Terminal
<1> QED BY <1>4, <1>5, <1>6

LEMMA FanOutAborts ==
  ASSUME SubtaskInv, NEW f \in FanOut, AbortFanOut(f)
  PROVE  SubtaskInv'
<1> DEFINE ended == {s \in InFanOut(f) : Heard(s)}
<1>1. /\ Emit(ended, "aborted", "failed")
      /\ UNCHANGED <<phase, request, result, reported>>
      /\ aborted' = aborted \cup {f}
      /\ aborted' \subseteq FanOut
  BY DEF AbortFanOut, SubtaskInv, TypeOK, slots
<1>2. ended \in SUBSET Subtask /\ \A s \in ended : step[s] \in {"persist", "await"}
  BY DEF InFanOut, Heard
<1>3. \A s \in Subtask : Signalled(s)' => Signalled(s) \/ step[s] # "await" \/ s \in ended
  BY <1>1 DEF Signalled, InFanOut, Heard
<1> HIDE DEF ended
<1> QED BY <1>1, <1>2, <1>3, EventStep DEF Terminal

(* SubtaskInv is inductive. *)
LEMMA InvNext == SubtaskInv /\ [Next]_vars => SubtaskInv'
<1> SUFFICES ASSUME SubtaskInv, [Next]_vars PROVE SubtaskInv'
  OBVIOUS
<1>1. ASSUME NEW t \in Subtask, SlotGranted(t) \/ SlotRejected(t) PROVE SubtaskInv'
  BY <1>1, SlotStep
<1>2. ASSUME NEW t \in Subtask,
             WorktreeFails(t) \/ WorktreeCreated(t) \/ CreateFails(t) \/ ChildCreated(t)
      PROVE  SubtaskInv'
  BY <1>2, StartStep
<1>3. ASSUME NEW t \in Subtask, StartAwait(t) PROVE SubtaskInv'
  BY <1>3, AwaitStep
<1>4. ASSUME NEW t \in Subtask, JudgeOutcome(t) PROVE SubtaskInv'
  BY <1>4, JudgeStep
<1>5. ASSUME NEW t \in Subtask, Finish(t) PROVE SubtaskInv'
  BY <1>5, FinishStep
<1>6. ASSUME NEW t \in Subtask, ChildCompletes(t) \/ ChildAborts(t) \/ RowStop(t)
      PROVE  SubtaskInv'
  BY <1>6, ChildEvent
<1>7. ASSUME NEW f \in FanOut, AbortFanOut(f) PROVE SubtaskInv'
  BY <1>7, FanOutAborts
<1>8. CASE UNCHANGED vars
  <2>1. TypeOK' BY <1>8 DEF SubtaskInv, TypeOK, vars, slots
  <2>2. ASSUME NEW s \in Subtask PROVE SlotOf(s)' /\ ChildOf(s)' /\ RowOf(s)'
    BY <1>8, <2>2 DEF SubtaskInv, SlotOf, ChildOf, RowOf, Signalled, vars, slots
  <2> QED BY <2>1, <2>2 DEF SubtaskInv
<1> QED BY <1>1, <1>2, <1>3, <1>4, <1>5, <1>6, <1>7, <1>8 DEF Next

LEMMA InvAlways == Spec => []SubtaskInv
BY InvInit, InvNext, PTL DEF Spec

-----------------------------------------------------------------------------
(* Every variable keeps its type, however many subtasks and fan-outs run.  *)
THEOREM SubtaskTypes == Spec => []TypeOK
<1>1. SubtaskInv => TypeOK BY DEF SubtaskInv
<1> QED BY <1>1, InvAlways, PTL

(* Only a subtask that holds a slot has a running child, and the finally   *)
(* block of runOneSubtask gives each slot back: none leaks, on any of its  *)
(* early returns.                                                          *)
THEOREM SlotsMatch == Spec => []SlotsMatchChildren
<1>1. SubtaskInv => SlotsMatchChildren
  BY DEF SubtaskInv, SlotsMatchChildren, SlotOf, ChildOf, TypeOK, Step
<1> QED BY <1>1, InvAlways, PTL

(* A child that runs in an aborted fan-out is about to be aborted: the     *)
(* controller's listeners and the check of the signal at the start of      *)
(* awaitTaskCompletion leave no gap.                                       *)
THEOREM NoOrphans == Spec => []NoOrphanedChild
<1>1. SubtaskInv => NoOrphanedChild
  BY DEF SubtaskInv, NoOrphanedChild, ChildOf
<1> QED BY <1>1, InvAlways, PTL

(* An ended subtask whose row shows "failed" or "cancelled" has that       *)
(* result, and one whose result is "completed" has such a row, whatever    *)
(* the order of the stop, the abort and the completion.  A row "completed" *)
(* with another result is possible (RowMatchesResult says when).           *)
THEOREM RowsMatchResults == Spec => []RowMatchesResult
<1>1. SubtaskInv => RowMatchesResult
  BY DEF SubtaskInv, RowMatchesResult, RowOf
<1> QED BY <1>1, InvAlways, PTL
=============================================================================
