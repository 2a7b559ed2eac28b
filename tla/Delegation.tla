----------------------------- MODULE Delegation -----------------------------
(***************************************************************************)
(* Delegation of a task to the child it opens with new_task: the state     *)
(* machine of DelegationService over the persisted history items, the      *)
(* single foreground slot and the off-screen tasks of TaskSlot, the        *)
(* attempt_completion tool of the child, and the user, who cancels, opens  *)
(* and leaves tasks while those run.  Every await between two writes is a  *)
(* boundary between two actions; Restart is the extension host dying at    *)
(* one of them.                                                            *)
(*                                                                         *)
(* A parent's API history is kept as where it stands relative to its last  *)
(* new_task call: "none", "frozen" (no tool_result yet), "answered" (the   *)
(* result is the last message) or "moved" (the conversation went on).      *)
(*                                                                         *)
(* The writes of the operations may fail, each as the code handles it; the *)
(* saves of a live task succeed.                                           *)
(***************************************************************************)
EXTENDS Naturals, FiniteSets

CONSTANTS Task,         \* the tasks, Root and those not yet opened
          Root,         \* the task the user started
          None,
          MaxRestarts,  \* how often the extension host dies
          Hurried       \* the user actions that may fall into the file
                        \* accesses of an operation in progress

ASSUME DelegationAssumption ==
    /\ Root \in Task /\ None \notin Task
    /\ MaxRestarts \in Nat /\ Hurried \subseteq {"open", "cancel", "resume"}

VARIABLES item,       \* the persisted HistoryItem of a task
          opener,     \* the parent id operations in flight carry
          log,        \* its persisted API history, see above
          on,         \* the occupant of the foreground slot
          off,        \* the detached tasks
          phase,      \* what the live instance of a task does
          stamp,      \* initialStatus and parentTaskId of the last instance
                      \* of a task: what every save of it writes
          handing,    \* parents disposed by delegate, child not open yet
          attach,     \* children whose reattach passed its five checks
          repair,     \* detach of a child's parent: due, or read and to write
          complete,   \* progress of DelegationService.complete, by child
          cancel,     \* the cancelTask in progress: its task and step
          cancelled,  \* cancelledChildIds
          restarts,
          returned,   \* children whose result is in their parent's history
          stray,      \* those whose result found the call answered already
          crossed     \* tasks whose delegation met another one or a write
                      \* that failed, see Sole

live == <<on, off, phase, stamp>>
ops == <<handing, attach, repair, complete, cancel>>
ghosts == <<returned, stray, crossed>>
others == <<opener, cancelled, restarts, ghosts>>
vars == <<item, log, live, ops, others>>

Status == {"absent", "unset", "active", "delegated", "completed"}
Item == [status : Status, awaiting : Task \cup {None},
         delegatedTo : Task \cup {None}, parent : Task \cup {None}]
Log == {"none", "frozen", "answered", "moved"}
Working == {"work", "tool", "approve", "finish"}
Phase == Working \cup {"closed", "view", "rest", "aborted"}
Completion == [step : {"no", "read", "saved", "closed", "marked", "written"},
               log : Log, place : {"on", "off"}]
Cancelling == [task : Task \cup {None}, step : {"no", "wait", "rehydrate"}, hist : Item]
Stamp == [status : Status \ {"absent"}, parent : Task \cup {None}]
Parent(t) == stamp[t].parent
IsLive(t) == t \in off \cup {on}
awaitsLiveTask(t) == item[t].awaiting # None /\ IsLive(item[t].awaiting)

ParentOf(c) == {Parent(c)} \ {None}

\* The completion gate; "completed" is the only status it rejects.
parentAwaitsChild(c) ==
    \E p \in ParentOf(c) : item[p].awaiting = c /\ item[p].status # "completed"

-----------------------------------------------------------------------------
\* An abort and every later save of a live task write its initialStatus, if it
\* has one, and its parentTaskId.
Saved(S) ==
    [t \in Task |->
       IF t \in S
       THEN [item[t] EXCEPT !.status = IF stamp[t].status = "unset" THEN @ ELSE stamp[t].status,
                            !.parent = stamp[t].parent]
       ELSE item[t]]

Closed(S) == [t \in Task |-> IF t \in S THEN "closed" ELSE phase[t]]

\* Fault: the end of a child leaves its parent as it is.
RepairNever(S) == repair

\* TaskSlot.destroy repairs the parent of a delegated child.
RepairDue(S) ==
    [t \in Task |-> IF t \in S /\ Parent(t) # None /\ repair[t] = "no"
                    THEN "due" ELSE repair[t]]

\* TaskSlot.clear with keepRunning: the occupant goes off screen while it
\* works and is destroyed otherwise.
Kept == IF on \in Task THEN {t \in {on} : phase[t] \in Working} ELSE {}
Left == {t \in Task : t = on} \ Kept

\* Takes a task that came to rest: on screen it stays in its ask, off screen
\* the end-of-work listeners destroy it.
ComesToRest(t) ==
    IF t \in off
    THEN /\ off' = off \ {t} /\ phase' = Closed({t})
         /\ item' = Saved({t}) /\ repair' = RepairDue({t})
         /\ UNCHANGED <<on, stamp>>
    ELSE /\ phase' = [phase EXCEPT ![t] = "rest"]
         /\ UNCHANGED <<item, repair, on, off, stamp>>

\* What an instance made from the history item hist remembers.
FromHistory(hist) == [status |-> hist.status, parent |-> hist.parent]

\* A new instance of t, made from hist, takes the slot in phase ph; the
\* occupant leaves first.
Install(t, ph, hist) ==
    /\ on' = t
    /\ off' = off \cup (Kept \ {t})
    /\ phase' = [Closed(Left) EXCEPT ![t] = ph]
    /\ stamp' = [stamp EXCEPT ![t] = FromHistory(hist)]
    /\ repair' = RepairDue(Left \ {t})

\* The slot goes to t, or is cleared for it, while a task it has nothing to do
\* with is on screen and ends.
Children(p) == {c \in Task : opener[c] = p}
Kin(t) == {t, opener[t]} \cup Children(t)
Crosses(t) == crossed' = crossed \cup (Left \ Kin(t))

\* The slot is cleared for a new instance of t, unless t has it, and then the
\* profile of t is not allowed: there is no new instance.
Refused(t) ==
    \/ on = t /\ UNCHANGED <<item, live, repair, crossed>>
    \/ /\ on # t
       /\ on' = None /\ off' = off \cup Kept
       /\ phase' = Closed(Left) /\ item' = Saved(Left) /\ repair' = RepairDue(Left)
       /\ Crosses(t)
       /\ UNCHANGED stamp

-----------------------------------------------------------------------------
At(c, step) == complete[c].step = step
Advance(c, step) == complete' = [complete EXCEPT ![c].step = step]
CompleteEnds(c) == complete' = [complete EXCEPT ![c].step = "no", ![c].log = "none"]

\* No operation is between two of its file accesses.  cancelTask may still be
\* in its wait of up to three seconds, which ends when its task leaves the slot.
Aborted(t) == on = t /\ phase[t] = "aborted"

Settled ==
    /\ attach = {} /\ cancel.step # "rehydrate"
    /\ cancel.step = "wait" => Aborted(cancel.task)
    /\ \A t \in Task : handing[t] = "no" /\ repair[t] = "no" /\ At(t, "no")
May(kind) == Settled \/ kind \in Hurried

NoItem == [status |-> "absent", awaiting |-> None, delegatedTo |-> None, parent |-> None]
NoCancel == [task |-> None, step |-> "no", hist |-> NoItem]
NotCompleting == [t \in Task |-> [step |-> "no", log |-> "none", place |-> "on"]]

Fresh == {c \in Task : item[c].status = "absent"}

Init ==
    /\ item = [[t \in Task |-> NoItem] EXCEPT ![Root].status = "unset"]
    /\ log = [t \in Task |-> "none"] /\ opener = [t \in Task |-> None]
    /\ on = Root /\ off = {}
    /\ phase = [t \in Task |-> IF t = Root THEN "work" ELSE "closed"]
    /\ stamp = [t \in Task |-> [status |-> "unset", parent |-> None]]
    /\ handing = [t \in Task |-> "no"] /\ attach = {}
    /\ repair = [t \in Task |-> "no"]
    /\ complete = NotCompleting
    /\ cancel = NoCancel
    /\ cancelled = {} /\ restarts = 0
    /\ returned = {} /\ stray = {} /\ crossed = {}

\* delegate, steps 1 to 3: flush the parent's history and dispose of it.  A
\* failing flush is only logged: the call may then be missing in the file.
DisposeParent(p) ==
    /\ phase[p] = "work" /\ IsLive(p) /\ Fresh # {}
    /\ handing' = [handing EXCEPT ![p] = IF on = p THEN "on" ELSE "off"]
    /\ \/ /\ log' = [log EXCEPT ![p] = "frozen"]
          /\ crossed' = crossed \cup {q \in {p} : Children(q) # {}}
       \/ log' = log /\ crossed' = crossed \cup {p}
    /\ item' = Saved({p})
    /\ phase' = Closed({p})
    /\ on' = IF on = p THEN None ELSE on
    /\ off' = off \ {p}
    /\ UNCHANGED <<stamp, attach, repair, complete, cancel, opener, cancelled, restarts,
                   returned, stray>>

\* delegate, steps 4 to 6.  Writing the parent may fail, which is only logged.
\* createTask with a parent does not clear the slot: the child overwrites
\* whatever the user put there meanwhile.
OpenChild(p, c) ==
    /\ handing[p] # "no" /\ c \in Fresh
    /\ \E written \in BOOLEAN :
         item' = [item EXCEPT
                    ![c] = [status |-> "active", awaiting |-> None,
                            delegatedTo |-> None, parent |-> p],
                    ![p] = IF written
                           THEN [@ EXCEPT !.status = "delegated", !.awaiting = c,
                                          !.delegatedTo = c]
                           ELSE @]
    /\ IF handing[p] = "on"
       THEN on' = c /\ off' = off
       ELSE off' = off \cup {c} /\ on' = on
    /\ phase' = [phase EXCEPT ![c] = "work"]
    /\ stamp' = [stamp EXCEPT ![c] = [status |-> "active", parent |-> p]]
    /\ handing' = [handing EXCEPT ![p] = "no"]
    /\ opener' = [opener EXCEPT ![c] = p]
    /\ crossed' = IF handing[p] = "on" THEN crossed \cup ({on} \cap Task) ELSE crossed
    /\ UNCHANGED <<log, attach, repair, complete, cancel, cancelled, restarts, returned, stray>>

\* Creating the child throws (its profile is not allowed); the parent is gone.
ChildRefused(p) ==
    /\ handing[p] # "no"
    /\ handing' = [handing EXCEPT ![p] = "no"]
    /\ UNCHANGED <<item, log, live, attach, repair, complete, cancel, others>>

-----------------------------------------------------------------------------
\* A turn of the task: its history moves on and is saved, with its status.
Turn(t) ==
    /\ phase[t] = "work"
    /\ log' = [log EXCEPT ![t] = IF @ = "none" THEN @ ELSE "moved"]
    /\ item' = Saved({t})
    /\ UNCHANGED <<live, ops, others>>

\* The work ends in an idle or resumable ask: a failed request, for example.
Stall(t) ==
    /\ phase[t] = "work"
    /\ ComesToRest(t)
    /\ UNCHANGED <<log, handing, attach, complete, cancel, others>>

\* Fault: the untouched-tail proof is left out.
ReattachableByMetadata(c) ==
    \E p \in ParentOf(c) :
        /\ item[p].status = "active"
        /\ item[p].awaiting = None
        /\ item[p].delegatedTo = c
        /\ on # p

\* The five conditions of reattach: active, awaiting nothing, this its last
\* delegation, not on screen, its new_task call unanswered.
Reattachable(c) ==
    \E p \in ParentOf(c) :
        /\ item[p].status = "active"
        /\ item[p].awaiting = None
        /\ item[p].delegatedTo = c
        /\ on # p
        /\ log[p] = "frozen"

\* attempt_completion: route the result to the parent, or end on screen.
Attempt(c) ==
    /\ phase[c] = "work"
    /\ LET routed == Parent(c) # None /\ item[c].status = "active"
           returns == routed /\ parentAwaitsChild(c)
           reattaches == routed /\ ~parentAwaitsChild(c) /\ Reattachable(c)
       IN \/ /\ returns
             /\ phase' = [phase EXCEPT ![c] = "approve"]
             /\ UNCHANGED <<item, on, off, stamp, repair, attach>>
          \/ /\ reattaches
             /\ attach' = attach \cup {c}
             /\ phase' = [phase EXCEPT ![c] = "tool"]
             /\ UNCHANGED <<item, on, off, stamp, repair>>
          \/ /\ ~returns /\ ~reattaches
             /\ ComesToRest(c)
             /\ UNCHANGED attach
    /\ UNCHANGED <<log, handing, complete, cancel, others>>

\* reattach writes the item it read, or fails and the child ends by itself.  An
\* aborted child no longer asks.
Reattach(c) ==
    /\ c \in attach
    /\ attach' = attach \ {c}
    /\ \/ /\ item' = [item EXCEPT ![opener[c]].status = "delegated",
                                  ![opener[c]].awaiting = c,
                                  ![opener[c]].delegatedTo = c]
          /\ phase' = [phase EXCEPT ![c] = IF @ = "tool" THEN "approve" ELSE @]
          /\ UNCHANGED <<on, off, stamp, repair>>
       \/ /\ phase[c] = "tool"
          /\ ComesToRest(c)
       \/ /\ phase[c] # "tool"
          /\ UNCHANGED <<item, live, repair>>
    /\ UNCHANGED <<log, handing, complete, cancel, others>>

Deny(c) ==
    /\ phase[c] = "approve"
    /\ phase' = [phase EXCEPT ![c] = "work"]
    /\ UNCHANGED <<item, log, on, off, stamp, ops, others>>

-----------------------------------------------------------------------------
\* Fault: the child is marked completed as soon as its end is approved.
ApproveMarksChild(c) ==
    /\ phase[c] = "approve" /\ At(c, "no")
    /\ c \notin cancelled /\ parentAwaitsChild(c)
    /\ complete' = [complete EXCEPT ![c].step = "read", ![c].log = log[Parent(c)]]
    /\ phase' = [phase EXCEPT ![c] = "finish"]
    /\ item' = [item EXCEPT ![c].status = "completed"]
    /\ UNCHANGED <<log, on, off, stamp, handing, attach, repair, cancel, others>>

\* The subtask's end is approved: complete checks the gate again and reads
\* the parent's item and histories.
Approve(c) ==
    /\ phase[c] = "approve" /\ At(c, "no")
    /\ \/ /\ c \notin cancelled /\ parentAwaitsChild(c)
          /\ complete' = [complete EXCEPT ![c].step = "read", ![c].log = log[Parent(c)]]
          /\ phase' = [phase EXCEPT ![c] = "finish"]
          /\ UNCHANGED <<item, on, off, stamp, repair>>
       \/ /\ c \in cancelled \/ ~parentAwaitsChild(c)
          /\ ComesToRest(c)
          /\ UNCHANGED complete
    /\ UNCHANGED <<log, handing, attach, cancel, others>>

\* The tool_result is appended, or replaces the one that is the last message.
\* When the parent's messages cannot be written, complete throws, which the
\* child's tool swallows: the child ends by itself, unless it is gone.
SaveResult(c) ==
    /\ At(c, "read")
    /\ \/ /\ log' = [log EXCEPT ![opener[c]] = "answered"]
          /\ returned' = returned \cup {c}
          /\ stray' = IF complete[c].log = "moved" THEN stray \cup {c} ELSE stray
          /\ Advance(c, "saved")
          /\ UNCHANGED <<item, live, repair>>
       \/ /\ CompleteEnds(c)
          /\ \/ phase[c] = "finish" /\ ComesToRest(c)
             \/ phase[c] # "finish" /\ UNCHANGED <<item, live, repair>>
          /\ UNCHANGED <<log, returned, stray>>
    /\ UNCHANGED <<handing, attach, cancel, opener, cancelled, restarts, crossed>>

\* Close the child, and the parent when it is the one on screen; the parent
\* comes back on screen only when one of the two was there.
CloseViews(c) ==
    /\ At(c, "saved")
    /\ LET childOff == on # c /\ IsLive(c)
           gone == ({on} \cap {c, opener[c]}) \cup (IF childOff THEN {c} ELSE {})
       IN /\ complete' = [complete EXCEPT ![c].step = "closed",
                            ![c].place = IF ~childOff \/ on = opener[c] THEN "on" ELSE "off"]
          /\ phase' = Closed(gone)
          /\ item' = Saved(gone)
          /\ on' = IF on \in gone THEN None ELSE on
          /\ off' = off \ (gone \ {opener[c]})
    /\ UNCHANGED <<log, stamp, handing, attach, repair, cancel, others>>

\* Marking the child may fail, which is only logged.
MarkChild(c) ==
    /\ At(c, "closed")
    /\ \/ item' = [item EXCEPT ![c].status = "completed"]
       \/ UNCHANGED item
    /\ Advance(c, "marked")
    /\ UNCHANGED <<log, live, handing, attach, repair, cancel, others>>

\* Fault: awaitingChildId is not cleared.
MarkParentActive(c) ==
    /\ At(c, "marked")
    /\ item' = [item EXCEPT ![opener[c]].status = "active",
                            ![opener[c]].delegatedTo = c]
    /\ Advance(c, "written")
    /\ UNCHANGED <<log, live, handing, attach, repair, cancel, others>>

\* The item read at the gate, made active; awaiting = c implies delegatedTo = c.
\* When it cannot be written, complete throws and the closed child's tool
\* swallows it: the parent still awaits the child and stays closed.
MarkParent(c) ==
    /\ At(c, "marked")
    /\ \/ /\ item' = [item EXCEPT ![opener[c]].status = "active",
                                  ![opener[c]].awaiting = None,
                                  ![opener[c]].delegatedTo = c]
          /\ Advance(c, "written") /\ UNCHANGED crossed
       \/ item' = item /\ CompleteEnds(c) /\ crossed' = crossed \cup {c}
    /\ UNCHANGED <<log, live, handing, attach, repair, cancel, opener, cancelled, restarts,
                   returned, stray>>

\* Reopen the parent where its delegation was seen, write back the histories
\* and resume it; or its profile is no longer allowed and it is not opened.
ReopenParent(c) ==
    LET p == opener[c] IN
    /\ At(c, "written")
    /\ CompleteEnds(c)
    /\ cancelled' = cancelled \ {c}
    /\ \/ /\ complete[c].place = "on"
          /\ Install(p, "work", [item[p] EXCEPT !.status = "active"])
          /\ item' = Saved(Left)
          /\ log' = [log EXCEPT ![p] = "answered"]
          /\ Crosses(p)
       \/ /\ complete[c].place = "off"
          /\ off' = off \cup {p}
          /\ phase' = [phase EXCEPT ![p] = "work"]
          /\ stamp' = [stamp EXCEPT ![p] = FromHistory([item[p] EXCEPT !.status = "active"])]
          /\ log' = [log EXCEPT ![p] = "answered"]
          /\ UNCHANGED <<item, on, repair, crossed>>
       \/ /\ complete[c].place = "off"
          /\ UNCHANGED <<item, log, live, repair, crossed>>
       \/ /\ complete[c].place = "on"
          /\ Refused(p) /\ UNCHANGED log
    /\ UNCHANGED <<handing, attach, cancel, opener, restarts, returned, stray>>

-----------------------------------------------------------------------------
\* detach: does the parent wait for the child, and did the child really go?
ReadForDetach(c) ==
    /\ repair[c] = "due"
    /\ LET p == opener[c]
           applies == /\ item[p].status = "delegated" /\ item[p].awaiting = c
                      /\ ~awaitsLiveTask(c)
       IN repair' = [repair EXCEPT ![c] = IF applies THEN "read" ELSE "no"]
    /\ UNCHANGED <<item, log, live, handing, attach, complete, cancel, others>>

\* detach writes the whole item it read.
DetachParent(c) ==
    /\ repair[c] = "read"
    /\ item' = [item EXCEPT ![opener[c]].status = "active",
                            ![opener[c]].awaiting = None,
                            ![opener[c]].delegatedTo = c]
    /\ repair' = [repair EXCEPT ![c] = "no"]
    /\ cancelled' = IF cancel.task = c THEN cancelled \ {c} ELSE cancelled
    /\ UNCHANGED <<log, live, handing, attach, complete, cancel, opener, restarts, ghosts>>

Rehydrates(t) == cancel.task = t /\ cancel.step = "rehydrate"

\* detach throws in its read or its write, which the end of the child only
\* logs: the parent stays as it is.
DetachFails(c) ==
    /\ repair[c] # "no" /\ ~Rehydrates(c)
    /\ repair' = [repair EXCEPT ![c] = "no"]
    /\ crossed' = crossed \cup {c}
    /\ UNCHANGED <<item, log, live, handing, attach, complete, cancel, opener, cancelled, restarts,
                   returned, stray>>

\* The same in a cancel fails closed: the child is fenced and written without its
\* parent.  When that fails too, cancelTask throws and rebuilds nothing.
FailClosed(c) ==
    /\ repair[c] # "no" /\ Rehydrates(c)
    /\ repair' = [repair EXCEPT ![c] = "no"]
    /\ cancelled' = cancelled \cup {c} /\ crossed' = crossed \cup {c}
    /\ \/ /\ item' = [item EXCEPT ![c] = [cancel.hist EXCEPT !.parent = None]]
          /\ cancel' = [cancel EXCEPT !.hist.parent = None]
       \/ item' = item /\ cancel' = NoCancel
    /\ UNCHANGED <<log, live, handing, attach, complete, opener, restarts, returned, stray>>

\* cancelTask reads the item and aborts; the wait for the stream follows.
Cancel(t) ==
    /\ May("cancel") /\ cancel.task = None /\ on = t /\ phase[t] \in Working
    /\ cancel' = [task |-> t, step |-> "wait", hist |-> item[t]]
    /\ phase' = [phase EXCEPT ![t] = "aborted"]
    /\ item' = Saved({t})
    /\ UNCHANGED <<log, on, off, stamp, handing, attach, repair, complete, others>>

\* Fault: the guard against another instance only returns, the cancel in
\* progress is never given up.
AfterAbortNoGuard(t) ==
    /\ cancel.task = t /\ cancel.step = "wait" /\ repair[t] = "no"
    /\ on = None \/ Aborted(t)
    /\ cancel' = [cancel EXCEPT !.step = "rehydrate"]
    /\ repair' = RepairDue({t})
    /\ UNCHANGED <<item, log, live, handing, attach, complete, others>>

\* After the wait: nothing more when another instance is on screen, else the
\* parent is detached.
AfterAbort(t) ==
    /\ cancel.task = t /\ cancel.step = "wait" /\ repair[t] = "no"
    /\ \/ /\ on # None /\ ~Aborted(t)
          /\ cancel' = NoCancel /\ repair' = repair
       \/ /\ on = None \/ Aborted(t)
          /\ cancel' = [cancel EXCEPT !.step = "rehydrate"] /\ repair' = RepairDue({t})
    /\ UNCHANGED <<item, log, live, handing, attach, complete, others>>

\* The task is rebuilt from the item cancelTask read, in its resume ask, or its
\* profile is no longer allowed and it stays on screen, aborted.
Rehydrate(t) ==
    /\ Rehydrates(t) /\ repair[t] = "no"
    /\ cancel' = NoCancel
    /\ \/ /\ Install(t, "rest", cancel.hist)
          /\ item' = Saved(Left)
          /\ Crosses(t)
       \/ Refused(t)
    /\ UNCHANGED <<log, handing, attach, complete, opener, cancelled, restarts, returned, stray>>

-----------------------------------------------------------------------------
\* Fault: the detached entry of the task stays.
ShowLiveTwice(t) ==
    /\ May("open") /\ t \in off /\ on # t
    /\ on' = t
    /\ off' = off \cup Kept
    /\ phase' = Closed(Left) /\ item' = Saved(Left) /\ repair' = RepairDue(Left)
    /\ UNCHANGED <<log, stamp, handing, attach, complete, cancel, others>>

\* showTaskWithId of a task that works off screen: its instance comes back.
ShowLive(t) ==
    /\ May("open") /\ t \in off /\ on # t
    /\ on' = t
    /\ off' = (off \cup Kept) \ {t}
    /\ phase' = Closed(Left) /\ item' = Saved(Left) /\ repair' = RepairDue(Left)
    /\ UNCHANGED <<log, stamp, handing, attach, complete, cancel, others>>

\* showTaskWithId of a task from history.  The item is read, and whether its
\* awaited child is live is decided, before the occupant leaves.
\* Fault: a parent is resumed next to the child it awaits.
OpenTaskStarted(t) ==
    /\ May("open") /\ ~IsLive(t) /\ item[t].status # "absent"
    /\ Install(t, "rest", item[t])
    /\ item' = Saved(Left)
    /\ UNCHANGED <<log, handing, attach, complete, cancel, others>>

OpenTask(t) ==
    /\ May("open") /\ ~IsLive(t) /\ item[t].status # "absent"
    /\ Install(t, IF awaitsLiveTask(t) THEN "view" ELSE "rest", item[t])
    /\ item' = Saved(Left)
    /\ UNCHANGED <<log, handing, attach, complete, cancel, others>>

\* The new instance saves its messages once it is on screen: its stamp too.
SaveOnOpen(t) ==
    /\ on = t /\ phase[t] \in {"view", "rest"}
    /\ item' = Saved({t}) /\ item' # item
    /\ UNCHANGED <<log, live, ops, others>>

\* The user answers the resume ask: an unanswered call is answered with
\* "interrupted" and the conversation goes on.
Resume(t) ==
    /\ May("resume") /\ on = t /\ phase[t] = "rest"
    /\ phase' = [phase EXCEPT ![t] = "work"]
    /\ log' = [log EXCEPT ![t] = IF @ = "none" THEN @ ELSE "moved"]
    /\ UNCHANGED <<item, on, off, stamp, ops, others>>

\* clearTask: the home screen.
CloseTask ==
    /\ May("open") /\ on # None
    /\ on' = None /\ off' = off \cup Kept
    /\ phase' = Closed(Left) /\ item' = Saved(Left) /\ repair' = RepairDue(Left)
    /\ UNCHANGED <<log, stamp, handing, attach, complete, cancel, others>>

\* The extension host dies: the files are all that is left.
Restart ==
    /\ restarts < MaxRestarts
    /\ restarts' = restarts + 1
    /\ on' = None /\ off' = {} /\ phase' = [t \in Task |-> "closed"]
    /\ handing' = [t \in Task |-> "no"] /\ attach' = {}
    /\ repair' = [t \in Task |-> "no"]
    /\ complete' = NotCompleting
    /\ cancel' = NoCancel /\ cancelled' = {}
    /\ UNCHANGED <<item, log, stamp, opener, ghosts>>

Completing(c) ==
    \/ SaveResult(c) \/ CloseViews(c) \/ MarkChild(c) \/ MarkParent(c) \/ ReopenParent(c)

Agent(t) ==
    \/ DisposeParent(t) \/ ChildRefused(t) \/ \E c \in Task : OpenChild(t, c)
    \/ Turn(t) \/ Stall(t) \/ Attempt(t) \/ Reattach(t) \/ Completing(t)
    \/ ReadForDetach(t) \/ DetachParent(t) \/ DetachFails(t) \/ FailClosed(t)
    \/ AfterAbort(t) \/ Rehydrate(t) \/ SaveOnOpen(t)

User(t) ==
    \/ Approve(t) \/ Deny(t) \/ Cancel(t) \/ ShowLive(t) \/ OpenTask(t) \/ Resume(t)

Next == (\E t \in Task : Agent(t) \/ User(t)) \/ CloseTask \/ Restart

Spec == Init /\ [][Next]_vars

\* Every started operation is carried on by the event loop; that the agent,
\* the model behind it or the user ever does anything is not assumed.
Fairness ==
    \A t \in Task :
        /\ WF_vars(Completing(t)) /\ WF_vars(Reattach(t))
        /\ WF_vars(ChildRefused(t) \/ \E c \in Task : OpenChild(t, c))
        /\ WF_vars(ReadForDetach(t)) /\ WF_vars(DetachParent(t))
        /\ WF_vars(AfterAbort(t)) /\ WF_vars(Rehydrate(t))

FairSpec == Spec /\ Fairness

-----------------------------------------------------------------------------
TypeOK ==
    /\ item \in [Task -> Item]
    /\ log \in [Task -> Log] /\ opener \in [Task -> Task \cup {None}]
    /\ on \in Task \cup {None} /\ off \subseteq Task
    /\ phase \in [Task -> Phase]
    /\ stamp \in [Task -> Stamp]
    /\ handing \in [Task -> {"no", "on", "off"}]
    /\ attach \subseteq Task
    /\ repair \in [Task -> {"no", "due", "read"}]
    /\ complete \in [Task -> Completion]
    /\ cancel \in Cancelling
    /\ cancelled \subseteq Task /\ restarts \in 0..MaxRestarts
    /\ returned \subseteq Task /\ stray \subseteq returned /\ crossed \subseteq Task

\* The six properties below are about one parent and its child and a user who
\* opens and resumes tasks only when the files are settled: the code looks at the
\* direct child and parent only.  A child is sole when it delegates nothing
\* itself, its parent calls new_task no second time, no operation of a third task
\* takes the slot from one of the two, and, of the writes of their delegation, none
\* failed whose failure the code only logs or swallows: the flush of the parent's
\* history, a detach of the parent, the last write of a completion (README,
\* section 4, says what the code does after each).
Sole(c) == opener[c] # None /\ log[c] = "none" /\ {c, opener[c]} \cap crossed = {}

\* No task but a sole child of its own meets the delegations of t.
Clear(t) == t \notin crossed /\ \A c \in Children(t) : Sole(c)

AtRest == Settled /\ cancel.task = None

\* The result of a child is appended to its parent's conversation only where
\* the new_task call is still unanswered, although the child may be cancelled,
\* left, re-attached and completed again: the gate and the five proofs of
\* reattach together keep it out of a conversation that went on.
\* (A restart detaches no parent, see the README: the claim is about one life
\* of the host.)
ResultAnswersOpenCall == restarts = 0 => \A c \in stray : ~Sole(c)

\* Whenever no operation is under way, the sole child a delegated parent awaits is
\* on screen or working off screen: nobody waits for a child that went away, as
\* long as no detach failed.  A failing re-attachment and a result that could not
\* be written leave nobody waiting either.
AwaitedChildAlive ==
    AtRest /\ restarts = 0 => \A p \in Task : LET c == item[p].awaiting IN
        item[p].status = "delegated" /\ c # None /\ Sole(c) => IsLive(c)

\* A parent never works next to the child whose result it awaits, wherever
\* the two are and in whatever order the user opens and leaves them.
NotBesideChild ==
    restarts = 0 => \A p \in Task : LET c == item[p].awaiting IN
        phase[p] \in Working /\ c # None /\ Sole(c) => phase[c] \notin Working

\* A sole child whose result was delivered is not awaited any more once the
\* operations have ended: neither a cancel that races the completion nor a
\* re-attachment makes its parent wait for a second result, as long as the last
\* write of the completion, of the parent's item, did not fail.
ReturnedNotAwaited ==
    AtRest /\ restarts = 0 => \A c \in returned : Sole(c) => item[opener[c]].awaiting # c

\* A task runs in one instance, in the slot or detached, and every instance
\* that is not closed is reachable through one of them.
OneInstance ==
    restarts = 0 => \A t \in Task : Clear(t) =>
        /\ ~(on = t /\ t \in off)
        /\ phase[t] # "closed" => IsLive(t)

\* The state is well formed and no instance of a task is lost or doubled.
WellFormed == TypeOK /\ OneInstance

\* After a restart, the cancel of a parent that is itself a child may write back
\* the item it read before that parent was answered.
StaleCancel(p) == restarts > 0 /\ cancel.task = p /\ Parent(p) # None

\* An existing child is awaited again only by a parent whose last new_task call
\* is unanswered when this is written, also after a restart in between.
ReattachOnlyFrozen ==
    [][\A p, c \in Task :
         /\ Sole(c) /\ ~StaleCancel(p)
         /\ item[c].status # "absent" /\ item'[p].awaiting = c /\ item[p].awaiting # c
         => log[p] = "frozen"]_vars

\* Whenever the host dies, a child is marked completed only once its result is
\* in its parent's history: no crash between the writes loses a result.
CompletedIsReturned ==
    \A c \in Task : item[c].status = "completed" => c \in returned

\* Every delegation, detach, re-attachment, completion and cancel ends.
EveryOperationEnds == []<>AtRest

=============================================================================
