------------------------- MODULE BackgroundSubagents -------------------------
(***************************************************************************)
(* How the results of parallel subagents reach the model of their parent   *)
(* task: the tracker (src/core/webview/BackgroundSubagents.ts), the two    *)
(* tools that start and await subagents (RunParallelTasksTool.ts,          *)
(* WaitForSubagentsTool.ts), the gate of attempt_completion, and the life  *)
(* of the parent in the panel: its asks, its message queue, Stop, failures,*)
(* leaving it and opening it again.                                        *)
(*                                                                         *)
(* One parent task id.  Every Instance is a Task object built for it, in   *)
(* order 1, 2, ...; `live` is the one TaskSlot.findLiveInstance returns.   *)
(* An action is what runs between two awaits of the code.                  *)
(***************************************************************************)
EXTENDS Integers, Sequences, FiniteSets

CONSTANTS
  Subagent,         \* the subtasks of all fan-outs of the parent
  FanOut,           \* its run_parallel_tasks calls, numbered as they start
  FanOutOf,         \* the fan-out of each subagent
  MaxInstances,     \* bound: Task objects built for the parent
  MaxUserMessages   \* bound: messages the user types

ASSUME SubagentsAssumption ==
  /\ IsFiniteSet(Subagent)
  /\ FanOut \subseteq Nat
  /\ FanOutOf \in [Subagent -> FanOut]
  /\ MaxInstances \in Nat \ {0}
  /\ MaxUserMessages \in Nat

Instance == 1 .. MaxInstances
NoInstance == 0

VARIABLES
  live,         \* the instance on screen or detached, or NoInstance
  detached,     \* `live` runs off screen (TaskSlot.detached)
  made,         \* how many instances were built so far
  typed,        \* how many messages the user typed so far
  pc,           \* where the promise chain of each instance stands
  ask,          \* the kind of ask an instance at "ask" blocks on
  rest,         \* "no", "armed" (2 s timer) or "shown" (idle or resumable)
  aborted,      \* task.abort
  userStopped,  \* task.abortReason is "user_cancelled"
  queue,        \* task.messageQueueService
  answer,       \* askResponse: <<>> or <<message>>
  launcher,     \* the instance whose call started a fan-out, or NoInstance
  cancelled,    \* the fan-outs whose AbortController aborted
  running,      \* entry.running
  unread,       \* entry.unread
  listeners,    \* entry.listeners: the instances that wait
  read          \* results in the conversation of the parent model

parent == <<live, detached, made, typed>>
tracker == <<running, unread, listeners>>
fanOuts == <<launcher, cancelled>>
vars == <<parent, pc, ask, rest, aborted, userStopped, queue, answer,
          fanOuts, tracker, read>>

(* "turn": the model runs and calls tools; "sweep": run_parallel_tasks     *)
(* awaits sweepOrphanedSubtaskWorktrees; "check": a turn of the loop of    *)
(* waitForSubagents is due; "asleep": it awaits nextChange.                *)
PC == {"unborn", "turn", "sweep", "check", "asleep", "ask", "completed", "ended"}

(* completion: completion_result.  resume: resume_task and                 *)
(* resume_completed_task.  guidance: mistake_limit_reached.  retry:        *)
(* api_req_failed and auto_approval_max_req_reached, which only the button *)
(* accepts.  approval: the interactive asks.                               *)
AskKind == {"completion", "resume", "guidance", "retry", "approval"}

(* A queued or typed text: the results it carries (none when the user      *)
(* typed it); or the click on the ask's first button.                      *)
Text(results) == [button |-> FALSE, results |-> results]
Button == [button |-> TRUE, results |-> {}]
Message == {Text(r) : r \in SUBSET Subagent} \cup {Button}

(* Fault: unread results do not count as work. *)
HasWorkRunning == running # {}

HasWork == running # {} \/ unread # {}
SubagentsOf(f) == {s \in Subagent : FanOutOf[s] = f}

(* TaskSlot.isWorking: not aborted, and not at an ask that ends the work.  *)
Working(i) ==
  /\ ~aborted[i]
  /\ pc[i] \notin {"completed", "ended"}
  /\ pc[i] = "ask" => ask[i] = "approval"

Init ==
  /\ live = 1 /\ detached = FALSE /\ made = 1 /\ typed = 0
  /\ pc = [i \in Instance |-> IF i = 1 THEN "turn" ELSE "unborn"]
  /\ ask = [i \in Instance |-> "resume"]
  /\ rest = [i \in Instance |-> "no"]
  /\ aborted = [i \in Instance |-> FALSE]
  /\ userStopped = [i \in Instance |-> FALSE]
  /\ queue = [i \in Instance |-> <<>>]
  /\ answer = [i \in Instance |-> <<>>]
  /\ launcher = [f \in FanOut |-> NoInstance]
  /\ cancelled = {}
  /\ running = {} /\ unread = {} /\ listeners = {}
  /\ read = {}

-----------------------------------------------------------------------------
(* The tracker.                                                            *)

(* deliverIfIdle: results u go to the live instance, whose turn has ended. *)
Deliverable(u, waiting, status) ==
  /\ u # {}
  /\ waiting = {}
  /\ live # NoInstance
  /\ ~aborted[live]
  /\ status[live] = "shown"

(* Fault: the results stay unread as well.                                 *)
DeliverAndKeep(u, waiting, status) ==
  /\ unread' = u
  /\ IF Deliverable(u, waiting, status)
     THEN queue' = [queue EXCEPT ![live] = Append(@, Text(u))]
     ELSE UNCHANGED queue

Deliver(u, waiting, status) ==
  IF Deliverable(u, waiting, status)
  THEN /\ unread' = {}
       /\ queue' = [queue EXCEPT ![live] = Append(@, Text(u))]
  ELSE /\ unread' = u
       /\ UNCHANGED queue

(* Fault: the listener unsubscribes and does not resolve. *)
WakeNobody(waiting) == pc

(* The listeners of nextChange: each leaves the set and resolves. *)
Wake(waiting) ==
  [i \in Instance |-> IF i \in waiting THEN "check" ELSE pc[i]]

(* finish: a cancelled fan-out reports nothing; everybody who waits wakes. *)
SubagentEnds(s) ==
  /\ s \in running
  /\ running' = running \ {s}
  /\ pc' = Wake(listeners)
  /\ listeners' = {}
  /\ Deliver(IF FanOutOf[s] \in cancelled THEN unread ELSE unread \cup {s},
             {}, rest)
  /\ UNCHANGED <<parent, ask, rest, aborted, userStopped, answer, fanOuts, read>>

-----------------------------------------------------------------------------
(* The tools of the parent.                                                *)

(* run_parallel_tasks, up to its last check of task.abort ... *)
CallRunParallel(i) ==
  /\ pc[i] = "turn"
  /\ ~aborted[i]
  /\ pc' = [pc EXCEPT ![i] = "sweep"]
  /\ UNCHANGED <<parent, ask, rest, aborted, userStopped, queue, answer,
                 fanOuts, tracker, read>>

(* ... and from the end of the sweep: startFanOut, then waitForSubagents.  *)
StartFanOut(i, f) ==
  /\ pc[i] = "sweep"
  /\ launcher[f] = NoInstance
  /\ \A g \in FanOut : g < f => launcher[g] # NoInstance
  /\ launcher' = [launcher EXCEPT ![f] = i]
  /\ running' = running \cup SubagentsOf(f)
  /\ pc' = [pc EXCEPT ![i] = "check"]
  /\ UNCHANGED <<parent, ask, rest, aborted, userStopped, queue, answer,
                 cancelled, unread, listeners, read>>

(* wait_for_subagents; without work it returns at once, and the turn goes  *)
(* on as it was.                                                           *)
CallWait(i) ==
  /\ pc[i] = "turn"
  /\ ~aborted[i]
  /\ HasWork
  /\ pc' = [pc EXCEPT ![i] = "check"]
  /\ UNCHANGED <<parent, ask, rest, aborted, userStopped, queue, answer,
                 fanOuts, tracker, read>>

(* One turn of the loop of waitForSubagents, by its returns. *)
WaitStopped(i) ==
  /\ pc[i] = "check"
  /\ aborted[i]
  /\ pc' = [pc EXCEPT ![i] = "ended"]
  /\ UNCHANGED <<parent, ask, rest, aborted, userStopped, queue, answer,
                 fanOuts, tracker, read>>

NothingToWaitFor(i) ==
  /\ pc[i] = "check"
  /\ ~aborted[i]
  /\ ~HasWork
  /\ pc' = [pc EXCEPT ![i] = "turn"]
  /\ UNCHANGED <<parent, ask, rest, aborted, userStopped, queue, answer,
                 fanOuts, tracker, read>>

(* Fault: the unread results are taken before the queue is looked at.      *)
ReturnUserMessageAfterTake(i) ==
  /\ pc[i] = "check"
  /\ ~aborted[i]
  /\ HasWork
  /\ queue[i] # <<>>
  /\ read' = read \cup Head(queue[i]).results
  /\ queue' = [queue EXCEPT ![i] = Tail(@)]
  /\ unread' = {}
  /\ pc' = [pc EXCEPT ![i] = "turn"]
  /\ UNCHANGED <<parent, ask, rest, aborted, userStopped, answer, fanOuts,
                 running, listeners>>

ReturnUserMessage(i) ==
  /\ pc[i] = "check"
  /\ ~aborted[i]
  /\ HasWork
  /\ queue[i] # <<>>
  /\ read' = read \cup Head(queue[i]).results
  /\ queue' = [queue EXCEPT ![i] = Tail(@)]
  /\ pc' = [pc EXCEPT ![i] = "turn"]
  /\ UNCHANGED <<parent, ask, rest, aborted, userStopped, answer, fanOuts, tracker>>

ReturnResults(i) ==
  /\ pc[i] = "check"
  /\ ~aborted[i]
  /\ queue[i] = <<>>
  /\ unread # {}
  /\ read' = read \cup unread
  /\ unread' = {}
  /\ pc' = [pc EXCEPT ![i] = "turn"]
  /\ UNCHANGED <<parent, ask, rest, aborted, userStopped, queue, answer, fanOuts,
                 running, listeners>>

Sleep(i) ==
  /\ pc[i] = "check"
  /\ ~aborted[i]
  /\ queue[i] = <<>>
  /\ unread = {}
  /\ running # {}
  /\ listeners' = listeners \cup {i}
  /\ pc' = [pc EXCEPT ![i] = "asleep"]
  /\ UNCHANGED <<parent, ask, rest, aborted, userStopped, queue, answer, fanOuts,
                 running, unread, read>>

-----------------------------------------------------------------------------
(* The asks of the parent.                                                 *)

(* ask(): a queued message answers it as it opens; otherwise the timer of  *)
(* the status is armed and the task blocks.                                *)
OpenAsk(i, kind) ==
  /\ pc[i] = "turn"
  /\ ~aborted[i]
  /\ pc' = [pc EXCEPT ![i] = "ask"]
  /\ ask' = [ask EXCEPT ![i] = kind]
  /\ IF queue[i] = <<>>
     THEN /\ rest' = [rest EXCEPT ![i] = "armed"]
          /\ UNCHANGED <<queue, answer>>
     ELSE /\ answer' = [answer EXCEPT ![i] = <<Head(queue[i])>>]
          /\ queue' = [queue EXCEPT ![i] = Tail(@)]
          /\ UNCHANGED rest
  /\ UNCHANGED <<parent, aborted, userStopped, fanOuts, tracker, read>>

(* attempt_completion: refused, without a change, while there is work. *)
AttemptCompletion(i) ==
  /\ ~HasWork
  /\ OpenAsk(i, "completion")

OtherAsk(i) ==
  \E kind \in AskKind \ {"completion", "resume"} : OpenAsk(i, kind)

(* Fault: nextChange does not listen to TaskAborted. *)
AbortKeepsListener(i, byUser) ==
  /\ aborted' = [aborted EXCEPT ![i] = TRUE]
  /\ userStopped' = [userStopped EXCEPT ![i] = @ \/ byUser]
  /\ cancelled' = IF userStopped'[i]
                  THEN cancelled \cup {f \in FanOut : launcher[f] = i}
                  ELSE cancelled
  /\ queue' = [queue EXCEPT ![i] = <<>>]
  /\ UNCHANGED <<pc, listeners>>

(* abortTask: the flag and TaskAborted, whose listeners cancel the         *)
(* fan-outs this instance started if the user stopped it and wake its      *)
(* wait; then dispose drops the queue.                                     *)
Abort(i, byUser) ==
  /\ aborted' = [aborted EXCEPT ![i] = TRUE]
  /\ userStopped' = [userStopped EXCEPT ![i] = @ \/ byUser]
  /\ cancelled' = IF userStopped'[i]
                  THEN cancelled \cup {f \in FanOut : launcher[f] = i}
                  ELSE cancelled
  /\ pc' = Wake(listeners \cap {i})
  /\ listeners' = listeners \ {i}
  /\ queue' = [queue EXCEPT ![i] = <<>>]

(* Fault: nothing listens to TaskIdle and TaskResumable. *)
TurnRestsUnheard(i) ==
  /\ rest[i] = "armed"
  /\ i = live /\ ~detached
  /\ ~aborted[i]
  /\ ask[i] # "approval"
  /\ rest' = [rest EXCEPT ![i] = "shown"]
  /\ UNCHANGED <<parent, pc, ask, aborted, userStopped, queue, answer, fanOuts,
                 tracker, read>>

(* The 2 s timer of an idle or resumable ask: the status changes and       *)
(* TaskIdle or TaskResumable delivers what is unread.                      *)
TurnRests(i) ==
  /\ rest[i] = "armed"
  /\ i = live /\ ~detached
  /\ ~aborted[i]
  /\ ask[i] # "approval"
  /\ rest' = [rest EXCEPT ![i] = "shown"]
  /\ Deliver(unread, listeners, rest')
  /\ UNCHANGED <<parent, pc, ask, aborted, userStopped, answer, fanOuts,
                 running, listeners, read>>

(* The same off screen: the listener that delivers runs first, then the    *)
(* one of TaskSlot.detach, which destroys the task.                        *)
DetachedRests(i) ==
  /\ rest[i] = "armed"
  /\ i = live /\ detached
  /\ ask[i] # "approval"
  /\ rest' = [rest EXCEPT ![i] = "shown"]
  /\ unread' = IF Deliverable(unread, listeners, rest') THEN {} ELSE unread
  /\ Abort(i, FALSE)
  /\ live' = NoInstance
  /\ detached' = FALSE
  /\ UNCHANGED <<made, typed, ask, answer, launcher, running, read>>

(* Fault: the queue is looked at only when an ask opens. *)
PollQueueNever(i) == pc[i] = "unborn" /\ UNCHANGED vars

(* The poll of pWaitFor: a queued message answers the ask.                 *)
PollQueue(i) ==
  /\ pc[i] = "ask"
  /\ answer[i] = <<>>
  /\ queue[i] # <<>>
  /\ answer' = [answer EXCEPT ![i] = <<Head(queue[i])>>]
  /\ queue' = [queue EXCEPT ![i] = Tail(@)]
  /\ UNCHANGED <<parent, pc, ask, rest, aborted, userStopped, fanOuts, tracker, read>>

(* The poll finds the answer and ask() returns it.  A typed completion     *)
(* answer is feedback and a declined retry ends the loop of the task.      *)
AskAnswered(i) ==
  /\ pc[i] = "ask"
  /\ ~aborted[i]
  /\ answer[i] # <<>>
  /\ LET m == answer[i][1]
         goesOn == ask[i] # "retry" \/ m.button
     IN /\ pc' = [pc EXCEPT ![i] = CASE ask[i] = "completion" /\ m.button -> "completed"
                                     [] goesOn -> "turn"
                                     [] OTHER -> "ended"]
        /\ read' = IF goesOn THEN read \cup m.results ELSE read
  /\ answer' = [answer EXCEPT ![i] = <<>>]
  /\ rest' = [rest EXCEPT ![i] = "no"]
  /\ UNCHANGED <<parent, ask, aborted, userStopped, queue, fanOuts, tracker>>

-----------------------------------------------------------------------------
(* The user, and the life of the parent in the panel.                      *)

OnScreen(i) == i = live /\ ~detached /\ ~aborted[i]

(* handleWebviewAskResponse writes over an answer that is still there.     *)
ClickButton(i) ==
  /\ OnScreen(i)
  /\ pc[i] = "ask"
  /\ answer' = [answer EXCEPT ![i] = <<Button>>]
  /\ UNCHANGED <<parent, pc, ask, rest, aborted, userStopped, queue, fanOuts,
                 tracker, read>>

TypeAnswer(i) ==
  /\ OnScreen(i)
  /\ pc[i] = "ask" /\ ask[i] # "retry"
  /\ typed < MaxUserMessages
  /\ typed' = typed + 1
  /\ answer' = [answer EXCEPT ![i] = <<Text({})>>]
  /\ UNCHANGED <<live, detached, made, pc, ask, rest, aborted, userStopped, queue,
                 fanOuts, tracker, read>>

(* Typed while the task runs or at an ask that takes no text: addMessage,  *)
(* whose stateChanged wakes the wait.                                      *)
QueueMessage(i) ==
  /\ OnScreen(i)
  /\ pc[i] = "ask" => ask[i] = "retry"
  /\ typed < MaxUserMessages
  /\ typed' = typed + 1
  /\ queue' = [queue EXCEPT ![i] = Append(@, Text({}))]
  /\ pc' = Wake(listeners \cap {i})
  /\ listeners' = listeners \ {i}
  /\ UNCHANGED <<live, detached, made, ask, rest, aborted, userStopped, answer,
                 fanOuts, running, unread, read>>

(* An abort of the live instance (Stop may be pressed again while one runs);*)
(* a detached instance leaves the detached set.                            *)
Stop(i, byUser) ==
  /\ i = live
  /\ Abort(i, byUser)
  /\ detached' = FALSE
  /\ live' = IF detached THEN NoInstance ELSE live
  /\ UNCHANGED <<made, typed, ask, rest, answer, launcher, running, unread, read>>

UserStops(i) == Stop(i, TRUE)

(* The stream of a request fails for good: abortReason "streaming_failed". *)
StreamFails(i) ==
  /\ ~aborted[i]
  /\ pc[i] \in {"turn", "sweep", "check", "asleep"}
  /\ Stop(i, FALSE)

(* The resume ask of an instance built from history, installed as live.    *)
BuildFromHistory ==
  /\ made < MaxInstances
  /\ made' = made + 1
  /\ live' = made + 1
  /\ ask' = [ask EXCEPT ![made + 1] = "resume"]
  /\ rest' = [rest EXCEPT ![made + 1] = "armed"]

(* cancelTask and rehydrateAfterStreamingFailure, after the abort:         *)
(* replaceInPlace aborts the old instance once more.                       *)
Rehydrate(i) ==
  /\ i = live /\ ~detached
  /\ aborted[i]
  /\ BuildFromHistory
  /\ cancelled' = IF userStopped[i]
                  THEN cancelled \cup {f \in FanOut : launcher[f] = i}
                  ELSE cancelled
  /\ pc' = [pc EXCEPT ![made + 1] = "ask"]
  /\ UNCHANGED <<detached, typed, aborted, userStopped, queue, answer, launcher,
                 tracker, read>>

(* leaveCurrentTask: a task that works is detached, another one destroyed. *)
LeaveWorking(i) ==
  /\ i = live /\ ~detached
  /\ Working(i)
  /\ detached' = TRUE
  /\ UNCHANGED <<live, made, typed, pc, ask, rest, aborted, userStopped, queue,
                 answer, fanOuts, tracker, read>>

LeaveResting(i) ==
  /\ i = live /\ ~detached
  /\ ~Working(i)
  /\ Abort(i, FALSE)
  /\ live' = NoInstance
  /\ UNCHANGED <<detached, made, typed, ask, rest, answer, launcher, running,
                 unread, read>>

(* showTaskWithId: a detached task is put back on screen, a closed one is  *)
(* built from history.                                                     *)
Reattach ==
  /\ detached
  /\ detached' = FALSE
  /\ UNCHANGED <<live, made, typed, pc, ask, rest, aborted, userStopped, queue,
                 answer, fanOuts, tracker, read>>

OpenFromHistory ==
  /\ live = NoInstance
  /\ BuildFromHistory
  /\ pc' = [pc EXCEPT ![made + 1] = "ask"]
  /\ UNCHANGED <<detached, typed, aborted, userStopped, queue, answer, fanOuts,
                 tracker, read>>

WaitLoop(i) ==
  WaitStopped(i) \/ NothingToWaitFor(i) \/ ReturnUserMessage(i)
    \/ ReturnResults(i) \/ Sleep(i)

Next ==
  \/ \E s \in Subagent : SubagentEnds(s)
  \/ \E i \in Instance :
       \/ CallRunParallel(i) \/ CallWait(i) \/ WaitLoop(i)
       \/ \E f \in FanOut : StartFanOut(i, f)
       \/ AttemptCompletion(i) \/ OtherAsk(i)
       \/ TurnRests(i) \/ DetachedRests(i) \/ PollQueue(i) \/ AskAnswered(i)
       \/ ClickButton(i) \/ TypeAnswer(i) \/ QueueMessage(i)
       \/ UserStops(i) \/ StreamFails(i) \/ Rehydrate(i)
       \/ LeaveWorking(i) \/ LeaveResting(i)
  \/ Reattach \/ OpenFromHistory

Spec == Init /\ [][Next]_vars

(* Subagents end (stuck ones are stopped, requests are bounded), a sweep   *)
(* ends, and the timers and promises of a task run on.  Nothing is assumed *)
(* of the model or of the user.                                            *)
Fairness ==
  /\ \A s \in Subagent : WF_vars(SubagentEnds(s))
  /\ \A i \in Instance :
       /\ WF_vars(WaitLoop(i))
       /\ WF_vars(TurnRests(i))
       /\ WF_vars(PollQueue(i))
       /\ WF_vars(AskAnswered(i))

FairSpec == Spec /\ Fairness
-----------------------------------------------------------------------------

TypeOK ==
  /\ live \in Instance \cup {NoInstance}
  /\ detached \in BOOLEAN
  /\ made \in Instance
  /\ typed \in 0 .. MaxUserMessages
  /\ pc \in [Instance -> PC]
  /\ ask \in [Instance -> AskKind]
  /\ rest \in [Instance -> {"no", "armed", "shown"}]
  /\ aborted \in [Instance -> BOOLEAN]
  /\ userStopped \in [Instance -> BOOLEAN]
  /\ queue \in [Instance -> Seq(Message)]
  /\ answer \in [Instance -> Seq(Message)] /\ \A i \in Instance : Len(answer[i]) <= 1
  /\ launcher \in [FanOut -> Instance \cup {NoInstance}]
  /\ cancelled \subseteq FanOut
  /\ running \subseteq Subagent /\ unread \subseteq Subagent
  /\ listeners \subseteq Instance
  /\ read \subseteq Subagent

(* Where the result of s is under way to the model of instance i: at 0 in  *)
(* the answer of its ask, at k in the k-th queued message.                 *)
UnderWay(s, i) ==
  {k \in 0 .. Len(queue[i]) :
     IF k = 0 THEN answer[i] # <<>> /\ s \in answer[i][1].results
              ELSE s \in queue[i][k].results}

(* A result that the parent can still get, or has. *)
Held(s) ==
  \/ s \in unread \cup read
  \/ \E i \in Instance : ~aborted[i] /\ UnderWay(s, i) # {}

(* Whatever the interleaving of waits, deliveries, stops and rebuilt       *)
(* instances, the model never gets the same result twice, and none of a    *)
(* subagent that still runs.                                               *)
NeverTwice ==
  \A s \in Subagent :
    LET copies == Cardinality({p \in Instance \X (0 .. 2 + MaxUserMessages) :
                                 p[2] \in UnderWay(s, p[1])})
    IN /\ s \in read => copies = 0 /\ s \notin unread
       /\ s \in unread => copies = 0
       /\ copies <= 1
       /\ s \in running => ~Held(s)

(* A wait never sleeps through what should end it: a result, a user        *)
(* message, a stop, or the last subagent ending.                           *)
NoLostWakeup ==
  \A i \in Instance :
    pc[i] = "asleep" =>
      /\ i \in listeners
      /\ running # {} /\ unread = {}
      /\ queue[i] = <<>>
      /\ ~aborted[i]

(* A listener keeps results from being queued to the parent, so no         *)
(* listener may outlive the wait of the live instance.                     *)
NoStaleListener ==
  listeners \subseteq {i \in Instance : i = live /\ pc[i] = "asleep"}

(* The state is well formed, and every listener is that of a live wait.    *)
WellFormed == TypeOK /\ NoStaleListener

(* A parent at rest (idle or resumable) never sits on unread results,      *)
(* whichever came first: the result or the rest.                           *)
RestingGetsResults ==
  live # NoInstance /\ ~aborted[live] /\ rest[live] = "shown" => unread = {}

(* A parent completes only after every subagent it started has reported.   *)
(* (Subagents an older instance starts behind its back are left out: a     *)
(* Stop during the sweep of old worktrees is not noticed.)                 *)
CompletesAfterItsSubagents ==
  \A i \in Instance, s \in Subagent :
    pc[i] = "completed" /\ launcher[FanOutOf[s]] = i => s \notin running \cup unread

(* Waking, waiting, resting and rebuilding never drop a result.  It can    *)
(* vanish only when its instance is aborted, or the user answers the ask   *)
(* it was about to answer, or it answers an ask that takes no text.        *)
DroppedOnlyWithItsAsk ==
  [][\A s \in Subagent :
       Held(s) /\ ~Held(s)' =>
         \E i \in Instance :
           \/ ~aborted[i] /\ aborted'[i]
           \/ pc[i] = "ask" /\ 0 \in UnderWay(s, i) /\ answer'[i] # answer[i]]_vars

(* A parent that waits for its subagents goes on in the end. *)
WaitEnds == \A i \in Instance : pc[i] = "asleep" ~> pc[i] # "asleep"

(* A parent that came to an idle or resumable ask on screen with unread    *)
(* results does not stay there.                                            *)
RestingGoesOn ==
  \A i \in Instance :
    pc[i] = "ask" /\ ask[i] # "approval" /\ i = live /\ ~detached /\ unread # {}
      ~> pc[i] # "ask" \/ aborted[i] \/ detached \/ i # live
=============================================================================
