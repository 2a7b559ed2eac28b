---------------------- MODULE BackgroundSubagentsProofs ----------------------
(***************************************************************************)
(* Proofs about BackgroundSubagents, for any subagents, fan-outs, instances*)
(* and messages: no wait sleeps through what should end it, no listener is *)
(* left behind, no parent at rest sits on unread results, and no result is *)
(* dropped but with the instance or the ask it was on its way to.          *)
(***************************************************************************)
EXTENDS BackgroundSubagents, FiniteSetTheorems, TLAPS

(* Only the live instance is not aborted. *)
Alone == \A i \in Instance : ~aborted[i] /\ pc[i] # "unborn" => i = live

WaitInv == TypeOK /\ Alone /\ NoStaleListener /\ NoLostWakeup /\ RestingGetsResults

USE SubagentsAssumption

-----------------------------------------------------------------------------
(* Types.                                                                  *)

LEMMA TextType == \A r \in SUBSET Subagent : Text(r) \in Message
BY DEF Message

LEMMA AppendType == \A q \in Seq(Message), m \in Message : Append(q, m) \in Seq(Message)
OBVIOUS

LEMMA InstanceFacts ==
  /\ Instance \subseteq Int /\ 1 \in Instance /\ NoInstance \notin Instance
  /\ \A m \in Instance : m < MaxInstances => m + 1 \in Instance
BY DEF Instance, NoInstance

LEMMA DeliverTypes ==
  ASSUME TypeOK, NEW u \in SUBSET Subagent, NEW waiting, NEW status, Deliver(u, waiting, status)
  PROVE  unread' \subseteq Subagent /\ queue' \in [Instance -> Seq(Message)]
<1>1. Text(u) \in Message BY TextType
<1>2. \A j \in Instance : Append(queue[j], Text(u)) \in Seq(Message)
  BY <1>1, AppendType DEF TypeOK
<1>3. [queue EXCEPT ![live] = Append(@, Text(u))] \in [Instance -> Seq(Message)]
  BY <1>2 DEF TypeOK
<1> QED BY <1>3 DEF TypeOK, Deliver

LEMMA TurnDelivers ==
  ASSUME TypeOK, Deliver(unread, listeners, rest')
  PROVE  unread' \subseteq Subagent /\ queue' \in [Instance -> Seq(Message)]
<1>1. Text(unread) \in Message BY TextType DEF TypeOK
<1>2. \A j \in Instance : Append(queue[j], Text(unread)) \in Seq(Message)
  BY <1>1, AppendType DEF TypeOK
<1>3. [queue EXCEPT ![live] = Append(@, Text(unread))] \in [Instance -> Seq(Message)]
  BY <1>2 DEF TypeOK
<1> QED BY <1>3 DEF TypeOK, Deliver

LEMMA WakeTypes ==
  ASSUME TypeOK, NEW waiting
  PROVE  Wake(waiting) \in [Instance -> PC]
BY DEF TypeOK, Wake, PC

LEMMA AbortTypes ==
  ASSUME TypeOK, NEW i \in Instance, NEW byUser \in BOOLEAN, Abort(i, byUser)
  PROVE  /\ aborted' \in [Instance -> BOOLEAN] /\ userStopped' \in [Instance -> BOOLEAN]
         /\ cancelled' \subseteq FanOut /\ listeners' \subseteq Instance
         /\ pc' \in [Instance -> PC] /\ queue' \in [Instance -> Seq(Message)]
<1>1. pc' \in [Instance -> PC]
  BY WakeTypes DEF Abort
<1>2. queue' \in [Instance -> Seq(Message)]
  BY DEF Abort, TypeOK
<1> QED BY <1>1, <1>2 DEF Abort, TypeOK

LEMMA BuildTypes ==
  ASSUME TypeOK, BuildFromHistory
  PROVE  /\ live' \in Instance /\ made' \in Instance /\ made + 1 \in Instance
         /\ ask' \in [Instance -> AskKind]
         /\ rest' \in [Instance -> {"no", "armed", "shown"}]
BY InstanceFacts DEF TypeOK, BuildFromHistory, AskKind

LEMMA HeadTail ==
  ASSUME NEW q \in Seq(Message), q # <<>>
  PROVE  /\ Head(q) \in Message /\ Tail(q) \in Seq(Message)
         /\ <<Head(q)>> \in Seq(Message) /\ Len(<<Head(q)>>) = 1
OBVIOUS

LEMMA MessageResults == \A m \in Message : m.results \subseteq Subagent
BY DEF Message, Text, Button

(* The actions that only move pc, the queues and answers, or the tracker.  *)
LEMMA ToolTypes ==
  ASSUME TypeOK, NEW i \in Instance,
         \/ CallRunParallel(i) \/ CallWait(i) \/ WaitLoop(i)
         \/ \E f \in FanOut : StartFanOut(i, f)
  PROVE  TypeOK'
<1>1. CASE CallRunParallel(i) BY <1>1 DEF CallRunParallel, TypeOK, PC, parent, tracker, fanOuts
<1>2. CASE CallWait(i) BY <1>2 DEF CallWait, TypeOK, PC, parent, tracker, fanOuts
<1>3. CASE WaitStopped(i) BY <1>3 DEF WaitStopped, TypeOK, PC, parent, tracker, fanOuts
<1>4. CASE NothingToWaitFor(i) BY <1>4 DEF NothingToWaitFor, TypeOK, PC, parent, tracker, fanOuts
<1>5. CASE ReturnUserMessage(i)
  <2>1. queue[i] \in Seq(Message) BY DEF TypeOK
  <2>2. Head(queue[i]).results \subseteq Subagent /\ Tail(queue[i]) \in Seq(Message)
    BY <1>5, <2>1, HeadTail, MessageResults DEF ReturnUserMessage
  <2> QED BY <1>5, <2>2 DEF ReturnUserMessage, TypeOK, PC, parent, tracker, fanOuts
<1>6. CASE ReturnResults(i) BY <1>6 DEF ReturnResults, TypeOK, PC, parent, tracker, fanOuts
<1>7. CASE Sleep(i) BY <1>7 DEF Sleep, TypeOK, PC, parent, tracker, fanOuts
<1>8. ASSUME NEW f \in FanOut, StartFanOut(i, f) PROVE TypeOK'
  BY <1>8 DEF StartFanOut, TypeOK, PC, SubagentsOf, parent, tracker, fanOuts
<1> QED BY <1>1, <1>2, <1>3, <1>4, <1>5, <1>6, <1>7, <1>8 DEF WaitLoop

LEMMA AskTypes ==
  ASSUME TypeOK, NEW i \in Instance,
         \/ AttemptCompletion(i) \/ OtherAsk(i) \/ PollQueue(i) \/ AskAnswered(i)
         \/ ClickButton(i) \/ TypeAnswer(i) \/ QueueMessage(i)
  PROVE  TypeOK'
<1>0. queue[i] \in Seq(Message) BY DEF TypeOK
<1>1. ASSUME NEW kind \in AskKind, OpenAsk(i, kind) PROVE TypeOK'
  <2>1. CASE queue[i] = <<>>
    BY <1>1, <2>1 DEF OpenAsk, TypeOK, PC, parent, tracker, fanOuts
  <2>2. CASE queue[i] # <<>>
    <3>1. Tail(queue[i]) \in Seq(Message) /\ <<Head(queue[i])>> \in Seq(Message)
          /\ Len(<<Head(queue[i])>>) = 1
      BY <1>0, <2>2, HeadTail
    <3>2. /\ queue' = [queue EXCEPT ![i] = Tail(queue[i])]
          /\ answer' = [answer EXCEPT ![i] = <<Head(queue[i])>>]
      BY <1>1, <2>2 DEF OpenAsk
    <3>3. /\ queue' \in [Instance -> Seq(Message)] /\ answer' \in [Instance -> Seq(Message)]
          /\ \A j \in Instance : Len(answer'[j]) <= 1
      BY <3>1, <3>2 DEF TypeOK
    <3> QED BY <1>1, <2>2, <3>3 DEF OpenAsk, TypeOK, PC, parent, tracker, fanOuts
  <2> QED BY <2>1, <2>2
<1>2. CASE PollQueue(i)
  BY <1>0, <1>2, HeadTail DEF PollQueue, TypeOK, parent, tracker, fanOuts
<1>3. CASE AskAnswered(i)
  <2>1. answer[i][1] \in Message
    BY <1>3 DEF AskAnswered, TypeOK
  <2>2. read' \subseteq Subagent
    BY <1>3, <2>1, MessageResults DEF AskAnswered, TypeOK
  <2>3. pc' \in [Instance -> PC]
    BY <1>3 DEF AskAnswered, TypeOK, PC
  <2>4. answer' \in [Instance -> Seq(Message)] /\ \A j \in Instance : Len(answer'[j]) <= 1
    BY <1>3 DEF AskAnswered, TypeOK
  <2> QED BY <1>3, <2>2, <2>3, <2>4 DEF AskAnswered, TypeOK, parent, tracker, fanOuts
<1>4. <<Button>> \in Seq(Message) /\ <<Text({})>> \in Seq(Message)
      /\ Len(<<Button>>) = 1 /\ Len(<<Text({})>>) = 1 /\ Text({}) \in Message
  BY TextType DEF Message
<1>5. CASE ClickButton(i) BY <1>4, <1>5 DEF ClickButton, TypeOK, parent, tracker, fanOuts
<1>6. CASE TypeAnswer(i) BY <1>4, <1>6 DEF TypeAnswer, TypeOK, parent, tracker, fanOuts
<1>7. CASE QueueMessage(i)
  <2>1. pc' \in [Instance -> PC] BY <1>7, WakeTypes DEF QueueMessage
  <2>2. queue' = [queue EXCEPT ![i] = Append(queue[i], Text({}))] BY <1>7 DEF QueueMessage
  <2>3. Append(queue[i], Text({})) \in Seq(Message) BY <1>0, <1>4, AppendType
  <2>4. queue' \in [Instance -> Seq(Message)] BY <2>2, <2>3 DEF TypeOK
  <2>5. typed' \in 0 .. MaxUserMessages /\ listeners' \subseteq Instance
    BY <1>7 DEF QueueMessage, TypeOK
  <2>6. /\ UNCHANGED <<live, detached, made, ask, rest, aborted, userStopped, answer>>
        /\ UNCHANGED <<launcher, cancelled, running, unread, read>>
    BY <1>7 DEF QueueMessage, fanOuts
  <2> QED BY <2>1, <2>4, <2>5, <2>6 DEF TypeOK
<1> QED BY <1>1, <1>2, <1>3, <1>5, <1>6, <1>7 DEF AttemptCompletion, OtherAsk, AskKind

LEMMA LifeTypes ==
  ASSUME TypeOK, NEW i \in Instance,
         \/ TurnRests(i) \/ DetachedRests(i) \/ UserStops(i) \/ StreamFails(i)
         \/ Rehydrate(i) \/ LeaveWorking(i) \/ LeaveResting(i)
         \/ Reattach \/ OpenFromHistory
         \/ \E s \in Subagent : SubagentEnds(s)
  PROVE  TypeOK'
<1>1. CASE TurnRests(i)
  <2>1. unread' \subseteq Subagent /\ queue' \in [Instance -> Seq(Message)]
    <3>1. Deliver(unread, listeners, rest') BY <1>1 DEF TurnRests
    <3> QED BY <3>1, TurnDelivers
  <2> QED BY <1>1, <2>1 DEF TurnRests, TypeOK, parent, fanOuts
<1>2. CASE DetachedRests(i)
  <2>1. Abort(i, FALSE) BY <1>2 DEF DetachedRests
  <2> QED BY <1>2, <2>1, AbortTypes DEF DetachedRests, TypeOK
<1>3. ASSUME NEW byUser \in BOOLEAN, Stop(i, byUser) PROVE TypeOK'
  <2>1. Abort(i, byUser) BY <1>3 DEF Stop
  <2> QED BY <1>3, <2>1, AbortTypes DEF Stop, TypeOK
<1>4. CASE Rehydrate(i)
  BY <1>4, BuildTypes DEF Rehydrate, TypeOK, PC, tracker
<1>5. CASE LeaveWorking(i) BY <1>5 DEF LeaveWorking, TypeOK, fanOuts, tracker
<1>6. CASE LeaveResting(i)
  <2>1. Abort(i, FALSE) BY <1>6 DEF LeaveResting
  <2> QED BY <1>6, <2>1, AbortTypes DEF LeaveResting, TypeOK
<1>7. CASE Reattach BY <1>7 DEF Reattach, TypeOK, fanOuts, tracker
<1>8. CASE OpenFromHistory
  BY <1>8, BuildTypes DEF OpenFromHistory, TypeOK, PC, fanOuts, tracker
<1>9. ASSUME NEW s \in Subagent, SubagentEnds(s) PROVE TypeOK'
  <2>1. pc' \in [Instance -> PC] BY <1>9, WakeTypes DEF SubagentEnds
  <2>2. PICK u \in SUBSET Subagent : Deliver(u, {}, rest)
    BY <1>9 DEF SubagentEnds, TypeOK
  <2>3. unread' \subseteq Subagent /\ queue' \in [Instance -> Seq(Message)]
    BY <2>2, DeliverTypes
  <2> QED BY <1>9, <2>1, <2>3 DEF SubagentEnds, TypeOK, parent, fanOuts
<1> QED BY <1>1, <1>2, <1>3, <1>4, <1>5, <1>6, <1>7, <1>8, <1>9 DEF UserStops, StreamFails

LEMMA TypesKept == TypeOK /\ [Next]_vars => TypeOK'
<1> SUFFICES ASSUME TypeOK, [Next]_vars PROVE TypeOK'
  OBVIOUS
<1>1. CASE UNCHANGED vars
  BY <1>1 DEF TypeOK, vars, parent, fanOuts, tracker
<1>2. CASE Next
  <2>1. 1 \in Instance BY InstanceFacts
  <2> QED BY <1>2, <2>1, ToolTypes, AskTypes, LifeTypes DEF Next
<1> QED BY <1>1, <1>2

-----------------------------------------------------------------------------
(* The safety of waits.  Every action is reduced to what it does to one    *)
(* instance.                                                               *)

LEMMA WaitInit == Init => WaitInv
<1> SUFFICES ASSUME Init PROVE WaitInv
  OBVIOUS
<1>1. TypeOK
  <2>1. queue \in [Instance -> Seq(Message)] /\ answer \in [Instance -> Seq(Message)]
        /\ \A i \in Instance : Len(answer[i]) <= 1
    BY DEF Init
  <2>2. /\ live \in Instance /\ made \in Instance /\ typed \in 0 .. MaxUserMessages
        /\ pc \in [Instance -> PC] /\ ask \in [Instance -> AskKind]
        /\ rest \in [Instance -> {"no", "armed", "shown"}]
    BY InstanceFacts DEF Init, PC, AskKind
  <2>3. /\ detached \in BOOLEAN
        /\ aborted \in [Instance -> BOOLEAN] /\ userStopped \in [Instance -> BOOLEAN]
        /\ launcher \in [FanOut -> Instance \cup {NoInstance}]
        /\ cancelled \subseteq FanOut /\ running \subseteq Subagent /\ unread \subseteq Subagent
        /\ listeners \subseteq Instance /\ read \subseteq Subagent
    BY DEF Init
  <2> QED BY <2>1, <2>2, <2>3 DEF TypeOK
<1>2. Alone /\ NoStaleListener /\ NoLostWakeup /\ RestingGetsResults
  BY DEF Init, Alone, NoStaleListener, NoLostWakeup, RestingGetsResults, NoInstance
<1> QED BY <1>1, <1>2 DEF WaitInv

LEMMA ToolWaits ==
  ASSUME WaitInv, NEW i \in Instance,
         \/ CallRunParallel(i) \/ CallWait(i) \/ WaitLoop(i)
         \/ \E f \in FanOut : StartFanOut(i, f)
  PROVE  (Alone /\ NoStaleListener /\ NoLostWakeup /\ RestingGetsResults)'
<1> DEFINE Goal == (Alone /\ NoStaleListener /\ NoLostWakeup /\ RestingGetsResults)'
<1> USE DEF WaitInv, TypeOK, Alone, NoStaleListener, NoLostWakeup, RestingGetsResults
<1>1. CASE CallRunParallel(i) BY <1>1 DEF CallRunParallel, parent, tracker, fanOuts
<1>2. CASE CallWait(i) BY <1>2 DEF CallWait, parent, tracker, fanOuts
<1>3. CASE WaitStopped(i) BY <1>3 DEF WaitStopped, parent, tracker, fanOuts
<1>4. CASE NothingToWaitFor(i) BY <1>4 DEF NothingToWaitFor, parent, tracker, fanOuts
<1>5. CASE ReturnUserMessage(i) BY <1>5 DEF ReturnUserMessage, parent, tracker, fanOuts
<1>6. CASE ReturnResults(i) BY <1>6 DEF ReturnResults, parent, tracker, fanOuts
<1>7. CASE Sleep(i) BY <1>7 DEF Sleep, parent, tracker, fanOuts
<1>8. ASSUME NEW f \in FanOut, StartFanOut(i, f) PROVE Goal
  BY <1>8 DEF StartFanOut, parent, tracker, fanOuts
<1> QED BY <1>1, <1>2, <1>3, <1>4, <1>5, <1>6, <1>7, <1>8 DEF WaitLoop

LEMMA AskWaits ==
  ASSUME WaitInv, NEW i \in Instance,
         \/ AttemptCompletion(i) \/ OtherAsk(i) \/ PollQueue(i) \/ AskAnswered(i)
         \/ ClickButton(i) \/ TypeAnswer(i) \/ QueueMessage(i)
  PROVE  (Alone /\ NoStaleListener /\ NoLostWakeup /\ RestingGetsResults)'
<1> DEFINE Goal == (Alone /\ NoStaleListener /\ NoLostWakeup /\ RestingGetsResults)'
<1> USE DEF WaitInv, TypeOK, Alone, NoStaleListener, NoLostWakeup, RestingGetsResults
<1>1. ASSUME NEW kind \in AskKind, OpenAsk(i, kind) PROVE Goal
  BY <1>1 DEF OpenAsk, parent, tracker, fanOuts
<1>2. CASE PollQueue(i) BY <1>2 DEF PollQueue, parent, tracker, fanOuts
<1>3. CASE AskAnswered(i)
  <2>1. \E where \in PC \ {"unborn", "asleep"} : pc' = [pc EXCEPT ![i] = where]
    BY <1>3 DEF AskAnswered, PC
  <2> QED BY <1>3, <2>1 DEF AskAnswered, parent, tracker, fanOuts
<1>4. CASE ClickButton(i) BY <1>4 DEF ClickButton, parent, tracker, fanOuts
<1>5. CASE TypeAnswer(i) BY <1>5 DEF TypeAnswer, tracker, fanOuts
<1>6. CASE QueueMessage(i) BY <1>6 DEF QueueMessage, Wake, fanOuts
<1> QED BY <1>1, <1>2, <1>3, <1>4, <1>5, <1>6 DEF AttemptCompletion, OtherAsk, AskKind

(* An abort leaves nobody asleep: only the live instance was.              *)
LEMMA AbortWakes ==
  ASSUME WaitInv, NEW i \in Instance, i = live, NEW byUser \in BOOLEAN, Abort(i, byUser)
  PROVE  /\ listeners' = {} /\ \A j \in Instance : pc'[j] # "asleep"
         /\ aborted'[i] /\ \A j \in Instance : j # i => aborted'[j] = aborted[j]
         /\ \A j \in Instance : pc'[j] # "unborn" => pc[j] # "unborn"
BY DEF WaitInv, TypeOK, NoStaleListener, NoLostWakeup, Abort, Wake

LEMMA LifeWaits ==
  ASSUME WaitInv, NEW i \in Instance,
         \/ TurnRests(i) \/ DetachedRests(i) \/ UserStops(i) \/ StreamFails(i)
         \/ Rehydrate(i) \/ LeaveWorking(i) \/ LeaveResting(i)
         \/ Reattach \/ OpenFromHistory
         \/ \E s \in Subagent : SubagentEnds(s)
  PROVE  (Alone /\ NoStaleListener /\ NoLostWakeup /\ RestingGetsResults)'
<1> DEFINE Goal == (Alone /\ NoStaleListener /\ NoLostWakeup /\ RestingGetsResults)'
<1> USE DEF WaitInv, TypeOK, Alone, NoStaleListener, NoLostWakeup, RestingGetsResults
<1>1. CASE TurnRests(i)
  BY <1>1 DEF TurnRests, Deliver, Deliverable, NoInstance, parent, fanOuts
<1>2. CASE DetachedRests(i)
  <2>1. Abort(i, FALSE) /\ i = live BY <1>2 DEF DetachedRests
  <2>2. live' = NoInstance BY <1>2 DEF DetachedRests
  <2>3. Alone' BY <2>1, <2>2, AbortWakes
  <2>4. NoStaleListener' /\ NoLostWakeup' BY <2>1, AbortWakes
  <2> QED BY <2>2, <2>3, <2>4
<1>3. ASSUME NEW byUser \in BOOLEAN, Stop(i, byUser) PROVE Goal
  <2>1. Abort(i, byUser) /\ i = live BY <1>3 DEF Stop
  <2> QED BY <1>3, <2>1, AbortWakes DEF Stop
<1>4. CASE Rehydrate(i)
  BY <1>4, BuildTypes DEF Rehydrate, BuildFromHistory, tracker
<1>5. CASE LeaveWorking(i) BY <1>5 DEF LeaveWorking, fanOuts, tracker
<1>6. CASE LeaveResting(i)
  <2>1. Abort(i, FALSE) /\ i = live BY <1>6 DEF LeaveResting
  <2> QED BY <1>6, <2>1, AbortWakes DEF LeaveResting
<1>7. CASE Reattach BY <1>7 DEF Reattach, fanOuts, tracker
<1>8. CASE OpenFromHistory
  <2>1. listeners = {} /\ \A j \in Instance : aborted[j] \/ pc[j] = "unborn"
    BY <1>8, InstanceFacts DEF OpenFromHistory
  <2> QED BY <1>8, <2>1, BuildTypes DEF OpenFromHistory, BuildFromHistory, fanOuts, tracker
<1>9. ASSUME NEW s \in Subagent, SubagentEnds(s) PROVE Goal
  <2>1. /\ listeners' = {} /\ \A j \in Instance : pc'[j] # "asleep"
        /\ \A j \in Instance : pc'[j] # "unborn" => pc[j] # "unborn"
    BY <1>9 DEF SubagentEnds, Wake
  <2>2. live # NoInstance /\ ~aborted[live] /\ rest[live] = "shown" => unread' = {}
    BY <1>9 DEF SubagentEnds, Deliver, Deliverable
  <2> QED BY <1>9, <2>1, <2>2 DEF SubagentEnds, parent, fanOuts
<1> QED BY <1>1, <1>2, <1>3, <1>4, <1>5, <1>6, <1>7, <1>8, <1>9 DEF UserStops, StreamFails

LEMMA WaitKept == WaitInv /\ [Next]_vars => WaitInv'
<1> SUFFICES ASSUME WaitInv, [Next]_vars PROVE WaitInv'
  OBVIOUS
<1>1. TypeOK' BY TypesKept DEF WaitInv
<1>2. CASE UNCHANGED vars
  BY <1>1, <1>2 DEF WaitInv, Alone, NoStaleListener, NoLostWakeup, RestingGetsResults,
                    vars, parent, fanOuts, tracker
<1>3. CASE Next
  <2>1. 1 \in Instance BY InstanceFacts
  <2> QED BY <1>1, <1>3, <2>1, ToolWaits, AskWaits, LifeWaits DEF Next, WaitInv
<1> QED BY <1>2, <1>3

LEMMA WaitCorrect == Spec => []WaitInv
BY WaitInit, WaitKept, PTL DEF Spec

-----------------------------------------------------------------------------
(* A result is in one place at a time: with its subagent, unread, in one   *)
(* message, or read.                                                       *)

Started(s) == launcher[FanOutOf[s]] # NoInstance

OnceInv ==
  \A s \in Subagent :
    /\ s \in running => Started(s)
    /\ s \in running \/ ~Started(s) =>
         s \notin unread \cup read /\ \A i \in Instance : UnderWay(s, i) = {}
    /\ s \in read => s \notin unread /\ \A i \in Instance : UnderWay(s, i) = {}
    /\ s \in unread => \A i \in Instance : UnderWay(s, i) = {}
    /\ \A i, j \in Instance : \A k \in UnderWay(s, i), l \in UnderWay(s, j) : i = j /\ k = l

(* Only an instance at an ask has an answer. *)
AnswersAsks == \A i \in Instance : answer[i] # <<>> => pc[i] = "ask"

ReadInv == WaitInv /\ AnswersAsks /\ OnceInv

LEMMA PlaceIs ==
  ASSUME TypeOK, NEW s \in Subagent, NEW i \in Instance, NEW k
  PROVE  k \in UnderWay(s, i) <=>
           \/ k = 0 /\ answer[i] # <<>> /\ s \in answer[i][1].results
           \/ k \in 1 .. Len(queue[i]) /\ s \in queue[i][k].results
<1>1. Len(queue[i]) \in Nat BY DEF TypeOK
<1> QED BY <1>1 DEF UnderWay

LEMMA PlaceWillBe ==
  ASSUME TypeOK', NEW s \in Subagent, NEW i \in Instance, NEW k
  PROVE  k \in UnderWay(s, i)' <=>
           \/ k = 0 /\ answer'[i] # <<>> /\ s \in answer'[i][1].results
           \/ k \in 1 .. Len(queue'[i]) /\ s \in queue'[i][k].results
<1>1. Len(queue'[i]) \in Nat BY DEF TypeOK
<1> QED BY <1>1 DEF UnderWay

(* Messages of instance i move up by d places, and others stay or go; what *)
(* is read was unread, or in a message of i that goes.                     *)
LEMMA PlacesMove ==
  ASSUME OnceInv, NEW i \in Instance, NEW d \in {0, 1},
         \A s \in Subagent, j \in Instance : j # i => UnderWay(s, j)' \subseteq UnderWay(s, j),
         \A s \in Subagent : \A k \in UnderWay(s, i)' : k \in Int /\ k + d \in UnderWay(s, i),
         running' = running, launcher' = launcher, unread' \subseteq unread,
         \A s \in Subagent \cap read' :
           \/ s \in read
           \/ s \in unread \ unread'
           \/ \E p \in UnderWay(s, i) : \A k \in UnderWay(s, i)' : k + d # p
  PROVE  OnceInv'
<1> SUFFICES ASSUME NEW s \in Subagent
             PROVE  /\ s \in running' => Started(s)'
                    /\ s \in running' \/ ~Started(s)' =>
                         s \notin unread' \cup read' /\ \A j \in Instance : UnderWay(s, j)' = {}
                    /\ s \in read' => s \notin unread' /\ \A j \in Instance : UnderWay(s, j)' = {}
                    /\ s \in unread' => \A j \in Instance : UnderWay(s, j)' = {}
                    /\ \A j, h \in Instance : \A k \in UnderWay(s, j)', l \in UnderWay(s, h)' :
                         j = h /\ k = l
  BY DEF OnceInv
<1>1. Started(s)' = Started(s) BY DEF Started
<1>2. (\A j \in Instance : UnderWay(s, j) = {}) => \A j \in Instance : UnderWay(s, j)' = {}
  OBVIOUS
<1>3. \A j, h \in Instance : \A k \in UnderWay(s, j)', l \in UnderWay(s, h)' : j = h /\ k = l
  <2> SUFFICES ASSUME NEW j \in Instance, NEW h \in Instance,
                      NEW k \in UnderWay(s, j)', NEW l \in UnderWay(s, h)'
               PROVE  j = h /\ k = l
    OBVIOUS
  <2>1. PICK m \in UnderWay(s, j) : m = IF j = i THEN k + d ELSE k OBVIOUS
  <2>2. PICK n \in UnderWay(s, h) : n = IF h = i THEN l + d ELSE l OBVIOUS
  <2>3. j = h /\ m = n BY DEF OnceInv
  <2>4. CASE j = i
    <3>1. k \in Int /\ l \in Int BY <2>3, <2>4
    <3>2. k + d = l + d BY <2>1, <2>2, <2>3, <2>4
    <3> QED BY <2>3, <3>1, <3>2
  <2>5. CASE j # i BY <2>1, <2>2, <2>3, <2>5
  <2> QED BY <2>4, <2>5
<1>4. ASSUME s \in read' PROVE s \notin unread' /\ \A j \in Instance : UnderWay(s, j)' = {}
  <2>1. CASE s \in read \/ s \in unread \ unread' BY <1>2, <2>1 DEF OnceInv
  <2>2. ASSUME NEW p \in UnderWay(s, i), \A k \in UnderWay(s, i)' : k + d # p
        PROVE  s \notin unread' /\ \A j \in Instance : UnderWay(s, j)' = {}
    <3>1. \A j \in Instance : \A k \in UnderWay(s, j) : j = i /\ k = p BY DEF OnceInv
    <3>2. s \notin unread BY DEF OnceInv
    <3>3. UnderWay(s, i)' = {} BY <2>2, <3>1
    <3>4. \A j \in Instance : j # i => UnderWay(s, j)' = {} BY <3>1
    <3> QED BY <3>2, <3>3, <3>4
  <2> QED BY <1>4, <2>1, <2>2
<1>5. s \in running' \/ ~Started(s)' =>
        s \notin unread' \cup read' /\ \A j \in Instance : UnderWay(s, j)' = {}
  BY <1>1, <1>2 DEF OnceInv
<1>6. s \in unread' => \A j \in Instance : UnderWay(s, j)' = {}
  BY <1>2 DEF OnceInv
<1> QED BY <1>1, <1>3, <1>4, <1>5, <1>6 DEF OnceInv

LEMMA AnswersInit == Init => AnswersAsks /\ OnceInv
<1> SUFFICES ASSUME Init PROVE AnswersAsks /\ OnceInv
  OBVIOUS
<1>1. \A s \in Subagent, i \in Instance : UnderWay(s, i) = {}
  <2> SUFFICES ASSUME NEW s \in Subagent, NEW i \in Instance, NEW k \in UnderWay(s, i)
               PROVE  FALSE
    OBVIOUS
  <2>1. WaitInv BY WaitInit
  <2>2. \/ k = 0 /\ answer[i] # <<>>
        \/ k \in 1 .. Len(queue[i])
    BY <2>1, PlaceIs DEF WaitInv
  <2> QED BY <2>2 DEF Init
<1> QED BY <1>1 DEF Init, AnswersAsks, OnceInv, Started

(* Only an ask that opens or is polled takes an answer, or the user gives  *)
(* one; nothing but the answer ends an ask.                                *)
LEMMA AnswersKept == WaitInv /\ AnswersAsks /\ [Next]_vars => AnswersAsks'
<1> SUFFICES ASSUME WaitInv, AnswersAsks, [Next]_vars PROVE AnswersAsks'
  OBVIOUS
<1> USE DEF WaitInv, TypeOK, AnswersAsks
<1>1. ASSUME NEW i \in Instance,
             \/ CallRunParallel(i) \/ CallWait(i) \/ WaitStopped(i) \/ NothingToWaitFor(i)
             \/ ReturnUserMessage(i) \/ ReturnResults(i) \/ Sleep(i)
             \/ \E f \in FanOut : StartFanOut(i, f)
      PROVE  AnswersAsks'
  <2>1. pc[i] # "ask" /\ answer' = answer /\ \E where \in PC : pc' = [pc EXCEPT ![i] = where]
    BY <1>1 DEF CallRunParallel, CallWait, WaitStopped, NothingToWaitFor, ReturnUserMessage,
                ReturnResults, Sleep, StartFanOut, PC
  <2> QED BY <2>1
<1>2. ASSUME NEW i \in Instance, NEW kind \in AskKind, OpenAsk(i, kind) PROVE AnswersAsks'
  BY <1>2 DEF OpenAsk
<1>3. ASSUME NEW i \in Instance, AskAnswered(i) PROVE AnswersAsks'
  <2>1. /\ answer' = [answer EXCEPT ![i] = <<>>]
        /\ \A j \in Instance : j # i => pc'[j] = pc[j]
    BY <1>3 DEF AskAnswered
  <2> QED BY <2>1
<1>4. ASSUME NEW i \in Instance, PollQueue(i) \/ ClickButton(i) \/ TypeAnswer(i)
      PROVE  AnswersAsks'
  BY <1>4 DEF PollQueue, ClickButton, TypeAnswer
<1>5. ASSUME NEW waiting \in SUBSET listeners, pc' = Wake(waiting), answer' = answer
      PROVE  AnswersAsks'
  BY <1>5 DEF Wake, NoStaleListener
<1>6. ASSUME NEW i \in Instance, NEW byUser \in BOOLEAN, Abort(i, byUser), answer' = answer
      PROVE  AnswersAsks'
  BY <1>5, <1>6 DEF Abort
<1>7. ASSUME pc' = pc \/ \E i \in Instance : pc' = [pc EXCEPT ![i] = "ask"],
             answer' = answer
      PROVE  AnswersAsks'
  BY <1>7
<1>8. ASSUME NEW i \in Instance,
             \/ QueueMessage(i) \/ TurnRests(i) \/ DetachedRests(i) \/ UserStops(i)
             \/ StreamFails(i) \/ Rehydrate(i) \/ LeaveWorking(i) \/ LeaveResting(i)
             \/ Reattach \/ OpenFromHistory
      PROVE  AnswersAsks'
  <2>1. CASE QueueMessage(i) BY <1>5, <2>1 DEF QueueMessage
  <2>2. CASE TurnRests(i) BY <1>7, <2>2 DEF TurnRests
  <2>3. CASE DetachedRests(i) BY <1>6, <2>3 DEF DetachedRests
  <2>4. CASE UserStops(i) \/ StreamFails(i)
    BY <1>6, <2>4 DEF UserStops, StreamFails, Stop
  <2>5. CASE Rehydrate(i)
    <3>1. made + 1 \in Instance BY <2>5, BuildTypes DEF Rehydrate
    <3> QED BY <1>7, <2>5, <3>1 DEF Rehydrate
  <2>6. CASE LeaveWorking(i) \/ Reattach BY <1>7, <2>6 DEF LeaveWorking, Reattach
  <2>7. CASE LeaveResting(i) BY <1>6, <2>7 DEF LeaveResting
  <2>8. CASE OpenFromHistory
    <3>1. made + 1 \in Instance BY <2>8, BuildTypes DEF OpenFromHistory
    <3> QED BY <1>7, <2>8, <3>1 DEF OpenFromHistory
  <2> QED BY <1>8, <2>1, <2>2, <2>3, <2>4, <2>5, <2>6, <2>7, <2>8
<1>9. ASSUME NEW s \in Subagent, SubagentEnds(s) PROVE AnswersAsks'
  BY <1>5, <1>9 DEF SubagentEnds
<1>10. CASE UNCHANGED vars BY <1>7, <1>10 DEF vars
<1>11. 1 \in Instance BY InstanceFacts
<1> QED
  BY <1>1, <1>2, <1>3, <1>4, <1>8, <1>9, <1>10, <1>11
  DEF Next, WaitLoop, AttemptCompletion, OtherAsk, AskKind

(* What an action leaves alone of the places, by what it does to the queue *)
(* and the answer of one instance.                                         *)
LEMMA PlacesKept ==
  ASSUME OnceInv, answer' = answer, queue' = queue,
         running' = running, launcher' = launcher, unread' \subseteq unread,
         \A s \in Subagent \cap read' : s \in read \/ s \in unread \ unread'
  PROVE  OnceInv'
<1>1. \A s \in Subagent, i \in Instance : UnderWay(s, i)' = UnderWay(s, i)
  BY DEF UnderWay
<1> QED BY <1>1 DEF OnceInv, Started

LEMMA TailAt ==
  ASSUME NEW q \in Seq(Message), q # <<>>, NEW k \in 1 .. Len(Tail(q))
  PROVE  k + 1 \in 1 .. Len(q) /\ Tail(q)[k] = q[k + 1]
OBVIOUS

LEMMA AppendAt ==
  ASSUME NEW q \in Seq(Message), NEW m \in Message, NEW k \in 1 .. Len(Append(q, m))
  PROVE  \/ k \in 1 .. Len(q) /\ Append(q, m)[k] = q[k]
         \/ k = Len(q) + 1 /\ Append(q, m)[k] = m
OBVIOUS

(* A message goes from the head of a queue to the ask.                     *)
LEMMA HeadAnswers ==
  ASSUME TypeOK, TypeOK', OnceInv, NEW i \in Instance,
         queue[i] # <<>>, answer[i] = <<>>,
         answer' = [answer EXCEPT ![i] = <<Head(queue[i])>>],
         queue' = [queue EXCEPT ![i] = Tail(queue[i])],
         running' = running, launcher' = launcher, unread' = unread, read' = read
  PROVE  OnceInv'
<1>1. ASSUME NEW s \in Subagent, NEW j \in Instance, j # i
      PROVE  UnderWay(s, j)' \subseteq UnderWay(s, j)
  BY <1>1 DEF TypeOK, UnderWay
<1>2. ASSUME NEW s \in Subagent, NEW k \in UnderWay(s, i)'
      PROVE  k \in Int /\ k + 1 \in UnderWay(s, i)
  <2>1. queue[i] \in Seq(Message) /\ queue'[i] = Tail(queue[i]) /\ answer'[i] = <<Head(queue[i])>>
    BY DEF TypeOK
  <2>2. \/ k = 0 /\ s \in answer'[i][1].results
        \/ k \in 1 .. Len(queue'[i]) /\ s \in queue'[i][k].results
    BY PlaceWillBe
  <2>3. CASE k = 0 /\ s \in answer'[i][1].results
    <3>1. 1 \in 1 .. Len(queue[i]) /\ s \in queue[i][1].results BY <2>1, <2>3
    <3> QED BY <2>3, <3>1, PlaceIs
  <2>4. CASE k \in 1 .. Len(queue'[i]) /\ s \in queue'[i][k].results
    <3>1. k + 1 \in 1 .. Len(queue[i]) /\ queue'[i][k] = queue[i][k + 1]
      BY <2>1, <2>4, TailAt
    <3> QED BY <2>4, <3>1, PlaceIs
  <2> QED BY <2>2, <2>3, <2>4
<1> QED BY <1>1, <1>2, PlacesMove

(* An answer goes and another one, without results, may come.              *)
LEMMA AnswerGoes ==
  ASSUME TypeOK, TypeOK', OnceInv, NEW i \in Instance,
         NEW a \in Seq(Message), a = <<>> \/ a[1].results = {},
         answer' = [answer EXCEPT ![i] = a], queue' = queue,
         running' = running, launcher' = launcher, unread' = unread,
         read' = read \/ (answer[i] # <<>> /\ read' = read \cup answer[i][1].results)
  PROVE  OnceInv'
<1>1. ASSUME NEW s \in Subagent, NEW j \in Instance, j # i
      PROVE  UnderWay(s, j)' \subseteq UnderWay(s, j)
  BY <1>1 DEF TypeOK, UnderWay
<1>2. ASSUME NEW s \in Subagent, NEW k \in UnderWay(s, i)'
      PROVE  k \in Int /\ k + 0 \in UnderWay(s, i) /\ k # 0
  <2>1. answer'[i] = a BY DEF TypeOK
  <2>2. k \in 1 .. Len(queue[i]) /\ s \in queue[i][k].results BY <2>1, PlaceWillBe
  <2>3. k \in UnderWay(s, i) BY <2>2, PlaceIs
  <2> QED BY <2>2, <2>3
<1>3. ASSUME NEW s \in Subagent, s \in read'
      PROVE  s \in read \/ \E p \in UnderWay(s, i) : \A k \in UnderWay(s, i)' : k + 0 # p
  <2>1. CASE answer[i] # <<>> /\ s \in answer[i][1].results
    <3>1. 0 \in UnderWay(s, i) BY <2>1, PlaceIs
    <3>2. \A k \in UnderWay(s, i)' : k + 0 # 0 BY <1>2
    <3> QED BY <3>1, <3>2
  <2> QED BY <1>3, <2>1
<1> QED BY <1>1, <1>2, <1>3, PlacesMove

(* The head of the queue is read by the wait.                              *)
LEMMA HeadRead ==
  ASSUME TypeOK, TypeOK', OnceInv, NEW i \in Instance,
         queue[i] # <<>>, answer[i] = <<>>, answer' = answer,
         queue' = [queue EXCEPT ![i] = Tail(queue[i])],
         read' = read \cup Head(queue[i]).results,
         running' = running, launcher' = launcher, unread' = unread
  PROVE  OnceInv'
<1>1. ASSUME NEW s \in Subagent, NEW j \in Instance, j # i
      PROVE  UnderWay(s, j)' \subseteq UnderWay(s, j)
  BY <1>1 DEF TypeOK, UnderWay
<1>0. queue[i] \in Seq(Message) /\ queue'[i] = Tail(queue[i]) BY DEF TypeOK
<1>2. ASSUME NEW s \in Subagent, NEW k \in UnderWay(s, i)'
      PROVE  k \in Int /\ k + 1 \in UnderWay(s, i) /\ k # 0
  <2>1. k \in 1 .. Len(queue'[i]) /\ s \in queue'[i][k].results BY PlaceWillBe
  <2>2. k + 1 \in 1 .. Len(queue[i]) /\ queue'[i][k] = queue[i][k + 1]
    BY <1>0, <2>1, TailAt
  <2> QED BY <2>1, <2>2, PlaceIs
<1>3. ASSUME NEW s \in Subagent, s \in read'
      PROVE  s \in read \/ \E p \in UnderWay(s, i) : \A k \in UnderWay(s, i)' : k + 1 # p
  <2>1. CASE s \in Head(queue[i]).results
    <3>1. 1 \in 1 .. Len(queue[i]) /\ s \in queue[i][1].results BY <1>0, <2>1
    <3>2. 1 \in UnderWay(s, i) BY <3>1, PlaceIs
    <3>3. \A k \in UnderWay(s, i)' : k + 1 # 1 BY <1>2
    <3> QED BY <3>2, <3>3
  <2> QED BY <1>3, <2>1
<1> QED BY <1>1, <1>2, <1>3, PlacesMove

(* The queue of an instance is emptied by its abort. *)
LEMMA QueueGoes ==
  ASSUME TypeOK, TypeOK', OnceInv, NEW i \in Instance,
         queue' = [queue EXCEPT ![i] = <<>>], answer' = answer,
         running' = running, launcher' = launcher, unread' \subseteq unread, read' = read
  PROVE  OnceInv'
<1>1. ASSUME NEW s \in Subagent, NEW j \in Instance, j # i
      PROVE  UnderWay(s, j)' \subseteq UnderWay(s, j)
  BY <1>1 DEF TypeOK, UnderWay
<1>2. ASSUME NEW s \in Subagent, NEW k \in UnderWay(s, i)'
      PROVE  k \in Int /\ k + 0 \in UnderWay(s, i)
  <2>1. queue'[i] = <<>> BY DEF TypeOK
  <2>2. k = 0 /\ answer[i] # <<>> /\ s \in answer[i][1].results BY <2>1, PlaceWillBe
  <2>3. k \in UnderWay(s, i) BY <2>2, PlaceIs
  <2> QED BY <2>2, <2>3
<1> QED BY <1>1, <1>2, PlacesMove

(* A message is queued: that of the user, without results, or one of       *)
(* results u that were unread or of a subagent that ends.                  *)
LEMMA MessageQueued ==
  ASSUME TypeOK, TypeOK', OnceInv, NEW i \in Instance, NEW m \in Message,
         queue' = [queue EXCEPT ![i] = Append(queue[i], m)], answer' = answer,
         launcher' = launcher, read' = read,
         running' \subseteq running, unread' \subseteq unread,
         \A s \in Subagent \cap m.results :
           s \in unread \ unread' \/ s \in running \ running'
  PROVE  OnceInv'
<1>0. queue[i] \in Seq(Message) /\ queue'[i] = Append(queue[i], m) BY DEF TypeOK
<1>1. ASSUME NEW s \in Subagent, NEW j \in Instance, j # i
      PROVE  UnderWay(s, j)' = UnderWay(s, j)
  BY <1>1 DEF TypeOK, UnderWay
<1>2. ASSUME NEW s \in Subagent, NEW k \in UnderWay(s, i)'
      PROVE  k \in UnderWay(s, i) \/ (s \in m.results /\ k = Len(queue[i]) + 1)
  <2>1. \/ k = 0 /\ answer[i] # <<>> /\ s \in answer[i][1].results
        \/ k \in 1 .. Len(queue'[i]) /\ s \in queue'[i][k].results
    BY PlaceWillBe
  <2>2. CASE k = 0 /\ answer[i] # <<>> /\ s \in answer[i][1].results
    BY <2>2, PlaceIs
  <2>3. CASE k \in 1 .. Len(queue'[i]) /\ s \in queue'[i][k].results
    <3>1. \/ k \in 1 .. Len(queue[i]) /\ queue'[i][k] = queue[i][k]
          \/ k = Len(queue[i]) + 1 /\ queue'[i][k] = m
      BY <1>0, <2>3, AppendAt
    <3> QED BY <2>3, <3>1, PlaceIs
  <2> QED BY <2>1, <2>2, <2>3
<1>3. \A s \in Subagent : Started(s)' = Started(s) BY DEF Started
<1>4. ASSUME NEW s \in Subagent, s \notin m.results
      PROVE  \A j \in Instance : UnderWay(s, j)' \subseteq UnderWay(s, j)
  BY <1>1, <1>2, <1>4
<1>5. ASSUME NEW s \in Subagent, s \in m.results
      PROVE  /\ s \in unread \/ s \in running
             /\ s \notin running' \cup unread' \cup read' /\ Started(s)'
             /\ \A j \in Instance : \A k \in UnderWay(s, j)' : j = i /\ k = Len(queue[i]) + 1
  <2>1. /\ s \notin read /\ Started(s)
        /\ \A j \in Instance : UnderWay(s, j) = {}
        /\ ~(s \in unread /\ s \in running)
    BY <1>5 DEF OnceInv
  <2> QED BY <1>1, <1>2, <1>3, <1>5, <2>1
<1>6. ASSUME NEW s \in Subagent
      PROVE  /\ s \in running' => Started(s)'
             /\ s \in running' \/ ~Started(s)' =>
                  s \notin unread' \cup read' /\ \A j \in Instance : UnderWay(s, j)' = {}
             /\ s \in read' => s \notin unread' /\ \A j \in Instance : UnderWay(s, j)' = {}
             /\ s \in unread' => \A j \in Instance : UnderWay(s, j)' = {}
             /\ \A j, h \in Instance : \A k \in UnderWay(s, j)', l \in UnderWay(s, h)' :
                  j = h /\ k = l
  <2>1. CASE s \in m.results BY <2>1, <1>5
  <2>2. CASE s \notin m.results
    <3>1. \A j \in Instance : UnderWay(s, j)' \subseteq UnderWay(s, j) BY <1>4, <2>2
    <3>2. \A j, h \in Instance : \A k \in UnderWay(s, j)', l \in UnderWay(s, h)' :
            j = h /\ k = l
      BY <3>1 DEF OnceInv
    <3>3. (\A j \in Instance : UnderWay(s, j) = {}) => \A j \in Instance : UnderWay(s, j)' = {}
      BY <3>1
    <3> QED BY <1>3, <3>2, <3>3 DEF OnceInv
  <2> QED BY <2>1, <2>2
<1> QED BY <1>6 DEF OnceInv

LEMMA ToolReads ==
  ASSUME ReadInv, TypeOK', NEW i \in Instance,
         \/ CallRunParallel(i) \/ CallWait(i) \/ WaitLoop(i)
         \/ \E f \in FanOut : StartFanOut(i, f)
  PROVE  OnceInv'
<1> USE DEF ReadInv, WaitInv
<1>1. CASE CallRunParallel(i) BY <1>1, PlacesKept DEF CallRunParallel, tracker, fanOuts
<1>2. CASE CallWait(i) BY <1>2, PlacesKept DEF CallWait, tracker, fanOuts
<1>3. CASE WaitStopped(i) BY <1>3, PlacesKept DEF WaitStopped, tracker, fanOuts
<1>4. CASE NothingToWaitFor(i) BY <1>4, PlacesKept DEF NothingToWaitFor, tracker, fanOuts
<1>5. CASE ReturnUserMessage(i)
  <2>1. answer[i] = <<>> BY <1>5 DEF ReturnUserMessage, AnswersAsks
  <2> QED BY <1>5, <2>1, HeadRead DEF ReturnUserMessage, tracker, fanOuts
<1>6. CASE ReturnResults(i) BY <1>6, PlacesKept DEF ReturnResults, fanOuts
<1>7. CASE Sleep(i) BY <1>7, PlacesKept DEF Sleep, fanOuts
<1>8. ASSUME NEW f \in FanOut, StartFanOut(i, f) PROVE OnceInv'
  <2>1. \A s \in Subagent, j \in Instance : UnderWay(s, j)' = UnderWay(s, j)
    BY <1>8 DEF StartFanOut, UnderWay
  <2>2. \A s \in Subagent :
          IF FanOutOf[s] = f THEN ~Started(s) /\ Started(s)'
          ELSE /\ Started(s)' <=> Started(s)
               /\ s \in running' => s \in running
    BY <1>8, InstanceFacts DEF StartFanOut, Started, SubagentsOf, TypeOK
  <2>3. unread' = unread /\ read' = read BY <1>8 DEF StartFanOut
  <2> QED BY <2>1, <2>2, <2>3 DEF OnceInv
<1> QED BY <1>1, <1>2, <1>3, <1>4, <1>5, <1>6, <1>7, <1>8 DEF WaitLoop

LEMMA AskReads ==
  ASSUME ReadInv, TypeOK', NEW i \in Instance,
         \/ AttemptCompletion(i) \/ OtherAsk(i) \/ PollQueue(i) \/ AskAnswered(i)
         \/ ClickButton(i) \/ TypeAnswer(i) \/ QueueMessage(i)
  PROVE  OnceInv'
<1> USE DEF ReadInv, WaitInv
<1>1. ASSUME NEW kind \in AskKind, OpenAsk(i, kind) PROVE OnceInv'
  <2>1. CASE queue[i] = <<>>
    BY <1>1, <2>1, PlacesKept DEF OpenAsk, tracker, fanOuts
  <2>2. CASE queue[i] # <<>>
    <3>1. answer[i] = <<>> BY <1>1 DEF OpenAsk, AnswersAsks
    <3> QED BY <1>1, <2>2, <3>1, HeadAnswers DEF OpenAsk, tracker, fanOuts
  <2> QED BY <2>1, <2>2
<1>2. CASE PollQueue(i) BY <1>2, HeadAnswers DEF PollQueue, tracker, fanOuts
<1>3. CASE AskAnswered(i)
  <2>1. /\ answer[i] # <<>>
        /\ answer' = [answer EXCEPT ![i] = <<>>] /\ queue' = queue
        /\ running' = running /\ launcher' = launcher /\ unread' = unread
    BY <1>3 DEF AskAnswered, tracker, fanOuts
  <2>2. read' = read \/ read' = read \cup answer[i][1].results
    BY <1>3 DEF AskAnswered
  <2>3. <<>> \in Seq(Message) OBVIOUS
  <2> QED BY <2>1, <2>2, <2>3, AnswerGoes
<1>4. <<Button>> \in Seq(Message) /\ <<Text({})>> \in Seq(Message)
      /\ <<Button>>[1].results = {} /\ <<Text({})>>[1].results = {}
      /\ Text({}) \in Message /\ Text({}).results = {}
  <2>1. Button \in Message /\ Text({}) \in Message BY TextType DEF Message
  <2>2. Button.results = {} /\ Text({}).results = {} BY DEF Button, Text
  <2> QED BY <2>1, <2>2
<1>5. CASE ClickButton(i) BY <1>4, <1>5, AnswerGoes DEF ClickButton, tracker, fanOuts
<1>6. CASE TypeAnswer(i) BY <1>4, <1>6, AnswerGoes DEF TypeAnswer, tracker, fanOuts
<1>7. CASE QueueMessage(i)
  <2>1. queue' = [queue EXCEPT ![i] = Append(queue[i], Text({}))] BY <1>7 DEF QueueMessage
  <2> QED BY <1>4, <1>7, <2>1, MessageQueued DEF QueueMessage, fanOuts
<1> QED BY <1>1, <1>2, <1>3, <1>5, <1>6, <1>7 DEF AttemptCompletion, OtherAsk, AskKind

(* A delivery moves what is unread, and what just ended, to one message.   *)
LEMMA DeliveryMoves ==
  ASSUME ReadInv, TypeOK', NEW u \in SUBSET Subagent, unread \subseteq u,
         \/ unread' = u /\ queue' = queue
         \/ /\ live \in Instance /\ unread' = {}
            /\ queue' = [queue EXCEPT ![live] = Append(queue[live], Text(u))],
         \A s \in u : s \in unread \/ s \in running \ running',
         answer' = answer, launcher' = launcher, read' = read, running' \subseteq running
  PROVE  OnceInv'
<1> USE DEF ReadInv, WaitInv
<1>1. CASE unread' = u /\ queue' = queue
  <2>1. \A s \in Subagent, j \in Instance : UnderWay(s, j)' = UnderWay(s, j)
    BY <1>1 DEF UnderWay
  <2>2. \A s \in Subagent : Started(s)' = Started(s) BY DEF Started
  <2>3. \A s \in Subagent : s \in u => s \notin running' BY DEF OnceInv
  <2> QED BY <1>1, <2>1, <2>2, <2>3 DEF OnceInv
<1>2. ASSUME live \in Instance, unread' = {},
             queue' = [queue EXCEPT ![live] = Append(queue[live], Text(u))]
      PROVE  OnceInv'
  <2>1. Text(u) \in Message /\ Text(u).results = u BY TextType DEF Text
  <2> QED BY <1>2, <2>1, MessageQueued
<1> QED BY <1>1, <1>2

LEMMA LifeReads ==
  ASSUME ReadInv, TypeOK', NEW i \in Instance,
         \/ TurnRests(i) \/ DetachedRests(i) \/ UserStops(i) \/ StreamFails(i)
         \/ Rehydrate(i) \/ LeaveWorking(i) \/ LeaveResting(i)
         \/ Reattach \/ OpenFromHistory
         \/ \E s \in Subagent : SubagentEnds(s)
  PROVE  OnceInv'
<1> USE DEF ReadInv, WaitInv
<1>1. CASE TurnRests(i)
  <2>1. \/ unread' = unread /\ queue' = queue
        \/ /\ live \in Instance /\ unread' = {}
           /\ queue' = [queue EXCEPT ![live] = Append(queue[live], Text(unread))]
    BY <1>1 DEF TurnRests, Deliver
  <2>2. unread \in SUBSET Subagent BY DEF TypeOK
  <2> QED BY <1>1, <2>1, <2>2, DeliveryMoves DEF TurnRests, fanOuts
<1>2. CASE DetachedRests(i)
  <2>1. queue' = [queue EXCEPT ![i] = <<>>] /\ unread' \subseteq unread
    BY <1>2 DEF DetachedRests, Abort
  <2> QED BY <1>2, <2>1, QueueGoes DEF DetachedRests
<1>3. ASSUME NEW byUser \in BOOLEAN, Stop(i, byUser) PROVE OnceInv'
  BY <1>3, QueueGoes DEF Stop, Abort
<1>4. CASE Rehydrate(i) BY <1>4, PlacesKept DEF Rehydrate, tracker
<1>5. CASE LeaveWorking(i) BY <1>5, PlacesKept DEF LeaveWorking, fanOuts, tracker
<1>6. CASE LeaveResting(i) BY <1>6, QueueGoes DEF LeaveResting, Abort
<1>7. CASE Reattach BY <1>7, PlacesKept DEF Reattach, fanOuts, tracker
<1>8. CASE OpenFromHistory BY <1>8, PlacesKept DEF OpenFromHistory, fanOuts, tracker
<1>9. ASSUME NEW s \in Subagent, SubagentEnds(s) PROVE OnceInv'
  <2> DEFINE u == IF FanOutOf[s] \in cancelled THEN unread ELSE unread \cup {s}
  <2>1. u \in SUBSET Subagent /\ unread \subseteq u BY DEF TypeOK
  <2>2. \/ unread' = u /\ queue' = queue
        \/ /\ live \in Instance /\ unread' = {}
           /\ queue' = [queue EXCEPT ![live] = Append(queue[live], Text(u))]
    BY <1>9 DEF SubagentEnds, Deliver, Deliverable, TypeOK
  <2>3. /\ \A r \in u : r \in unread \/ r \in running \ running'
        /\ answer' = answer /\ launcher' = launcher /\ read' = read
        /\ running' \subseteq running
    BY <1>9 DEF SubagentEnds, fanOuts
  <2> HIDE DEF u
  <2> QED BY <2>1, <2>2, <2>3, DeliveryMoves
<1> QED BY <1>1, <1>2, <1>3, <1>4, <1>5, <1>6, <1>7, <1>8, <1>9 DEF UserStops, StreamFails

LEMMA ReadKept == ReadInv /\ [Next]_vars => ReadInv'
<1> SUFFICES ASSUME ReadInv, [Next]_vars PROVE ReadInv'
  OBVIOUS
<1>1. WaitInv' /\ AnswersAsks' BY WaitKept, AnswersKept DEF ReadInv
<1>2. TypeOK' BY <1>1 DEF WaitInv
<1>3. CASE UNCHANGED vars
  <2>1. OnceInv' BY <1>3, PlacesKept DEF ReadInv, vars, tracker, fanOuts
  <2> QED BY <1>1, <2>1 DEF ReadInv
<1>4. CASE Next
  <2>1. 1 \in Instance BY InstanceFacts
  <2>2. OnceInv' BY <1>2, <1>4, <2>1, ToolReads, AskReads, LifeReads DEF Next
  <2> QED BY <1>1, <2>2 DEF ReadInv
<1> QED BY <1>3, <1>4

LEMMA ReadCorrect == Spec => []ReadInv
<1>1. Init => ReadInv BY WaitInit, AnswersInit DEF ReadInv
<1> QED BY <1>1, ReadKept, PTL DEF Spec

-----------------------------------------------------------------------------
(* A parent that asks for its completion has no subagents left.            *)

Completing(i) == pc[i] = "completed" \/ (pc[i] = "ask" /\ ask[i] = "completion")

CompletionInv ==
  \A i \in Instance, s \in Subagent :
    launcher[FanOutOf[s]] = i /\ Completing(i) => s \notin running \cup unread

(* No subagent starts, and only an instance without work begins to         *)
(* complete.                                                               *)
LEMMA CompletionStays ==
  ASSUME CompletionInv, launcher' = launcher,
         running' \cup unread' \subseteq running \cup unread,
         \A i \in Instance : Completing(i)' => Completing(i) \/ running' \cup unread' = {}
  PROVE  CompletionInv'
BY DEF CompletionInv

LEMMA DeliveryEmpties ==
  ASSUME NEW u, NEW waiting, NEW status, Deliver(u, waiting, status)
  PROVE  unread' \subseteq u
BY DEF Deliver

LEMMA CompletionKept == WaitInv /\ CompletionInv /\ [Next]_vars => CompletionInv'
<1> SUFFICES ASSUME WaitInv, CompletionInv, [Next]_vars PROVE CompletionInv'
  OBVIOUS
<1> USE DEF WaitInv, TypeOK, Completing
<1>1. ASSUME NEW i \in Instance, CallRunParallel(i) \/ CallWait(i) \/ WaitLoop(i)
      PROVE  CompletionInv'
  <2>1. launcher' = launcher /\ running' \cup unread' \subseteq running \cup unread
    BY <1>1 DEF CallRunParallel, CallWait, WaitLoop, WaitStopped, NothingToWaitFor,
                ReturnUserMessage, ReturnResults, Sleep, fanOuts, tracker
  <2>2. /\ ask' = ask
        /\ \E where \in PC \ {"ask", "completed"} : pc' = [pc EXCEPT ![i] = where]
    BY <1>1 DEF CallRunParallel, CallWait, WaitLoop, WaitStopped, NothingToWaitFor,
                ReturnUserMessage, ReturnResults, Sleep, PC
  <2> QED BY <2>1, <2>2, CompletionStays
<1>2. ASSUME NEW i \in Instance, NEW f \in FanOut, StartFanOut(i, f) PROVE CompletionInv'
  BY <1>2 DEF StartFanOut, SubagentsOf, CompletionInv
<1>3. ASSUME NEW i \in Instance, AttemptCompletion(i) PROVE CompletionInv'
  BY <1>3, CompletionStays DEF AttemptCompletion, OpenAsk, HasWork, fanOuts, tracker
<1>4. ASSUME NEW i \in Instance, OtherAsk(i) PROVE CompletionInv'
  BY <1>4, CompletionStays DEF OtherAsk, OpenAsk, fanOuts, tracker
<1>5. ASSUME NEW i \in Instance, AskAnswered(i) PROVE CompletionInv'
  <2>1. /\ ask' = ask /\ \A j \in Instance : j # i => pc'[j] = pc[j]
        /\ pc'[i] = "completed" => pc[i] = "ask" /\ ask[i] = "completion"
        /\ pc'[i] # "ask"
    BY <1>5 DEF AskAnswered
  <2>2. launcher' = launcher /\ running' = running /\ unread' = unread
    BY <1>5 DEF AskAnswered, fanOuts, tracker
  <2> QED BY <2>1, <2>2, CompletionStays
<1>6. ASSUME NEW waiting, pc' = Wake(waiting), ask' = ask, launcher' = launcher,
             running' \cup unread' \subseteq running \cup unread
      PROVE  CompletionInv'
  BY <1>6, CompletionStays DEF Wake
<1>7. ASSUME NEW s \in Subagent, SubagentEnds(s) PROVE CompletionInv'
  <2>1. unread' \subseteq unread \cup {s}
    BY <1>7, DeliveryEmpties DEF SubagentEnds
  <2> QED BY <1>6, <1>7, <2>1 DEF SubagentEnds, fanOuts
<1>8. ASSUME pc' = pc, ask' = ask, launcher' = launcher,
             running' \cup unread' \subseteq running \cup unread
      PROVE  CompletionInv'
  BY <1>8, CompletionStays
<1>9. ASSUME NEW i \in Instance,
             \/ TurnRests(i) \/ PollQueue(i) \/ ClickButton(i) \/ TypeAnswer(i)
             \/ LeaveWorking(i) \/ Reattach
      PROVE  CompletionInv'
  <2>1. CASE TurnRests(i)
    <3>1. unread' \subseteq unread BY <2>1, DeliveryEmpties DEF TurnRests
    <3> QED BY <1>8, <2>1, <3>1 DEF TurnRests, fanOuts
  <2>2. CASE PollQueue(i) \/ ClickButton(i) \/ TypeAnswer(i) \/ LeaveWorking(i) \/ Reattach
    BY <1>8, <2>2 DEF PollQueue, ClickButton, TypeAnswer, LeaveWorking, Reattach, fanOuts, tracker
  <2> QED BY <1>9, <2>1, <2>2
<1>10. ASSUME NEW i \in Instance,
              QueueMessage(i) \/ DetachedRests(i) \/ UserStops(i) \/ StreamFails(i) \/ LeaveResting(i)
       PROVE  CompletionInv'
  <2>1. /\ pc' = Wake(listeners \cap {i}) /\ ask' = ask /\ launcher' = launcher
        /\ running' = running /\ unread' \subseteq unread
    BY <1>10 DEF QueueMessage, DetachedRests, UserStops, StreamFails, LeaveResting, Stop, Abort,
                 fanOuts
  <2> QED BY <1>6, <2>1
<1>11. ASSUME Rehydrate(live) \/ OpenFromHistory PROVE CompletionInv'
  <2>1. /\ made + 1 \in Instance /\ ask' = [ask EXCEPT ![made + 1] = "resume"]
        /\ pc' = [pc EXCEPT ![made + 1] = "ask"]
        /\ launcher' = launcher /\ running' = running /\ unread' = unread
    BY <1>11, BuildTypes DEF Rehydrate, OpenFromHistory, BuildFromHistory, fanOuts, tracker
  <2> QED BY <2>1, CompletionStays
<1>12. ASSUME NEW i \in Instance, Rehydrate(i) PROVE CompletionInv'
  BY <1>11, <1>12 DEF Rehydrate
<1>13. CASE UNCHANGED vars BY <1>8, <1>13 DEF vars, fanOuts, tracker
<1>14. 1 \in Instance BY InstanceFacts
<1> QED
  BY <1>1, <1>2, <1>3, <1>4, <1>5, <1>7, <1>9, <1>10, <1>11, <1>12, <1>13, <1>14 DEF Next

-----------------------------------------------------------------------------
(* Every variable keeps its type, and a listener belongs to a wait of the  *)
(* live instance: none of a stopped or replaced Task object is left behind *)
(* to keep results from its successor.                                     *)
THEOREM WaitsWellFormed == Spec => []WellFormed
<1>1. WaitInv => WellFormed BY DEF WaitInv, WellFormed
<1> QED BY <1>1, WaitCorrect, PTL

(* A wait that sleeps is heard of by every end of a subagent, user message *)
(* and stop, and sleeps only while there is nothing to return.             *)
THEOREM NoWakeupLost == Spec => []NoLostWakeup
<1>1. WaitInv => NoLostWakeup BY DEF WaitInv
<1> QED BY <1>1, WaitCorrect, PTL

(* A parent at rest has no unread results, whichever came first.           *)
THEOREM RestingIsServed == Spec => []RestingGetsResults
<1>1. WaitInv => RestingGetsResults BY DEF WaitInv
<1> QED BY <1>1, WaitCorrect, PTL

(* The model of the parent never gets a result twice, nor one of a         *)
(* subagent that still runs.                                               *)
THEOREM ResultsReadOnce == Spec => []NeverTwice
<1>1. ReadInv => NeverTwice
  <2> SUFFICES ASSUME ReadInv, NEW s \in Subagent
               PROVE  LET copies == Cardinality({p \in Instance \X (0 .. 2 + MaxUserMessages) :
                                                   p[2] \in UnderWay(s, p[1])})
                      IN /\ s \in read => copies = 0 /\ s \notin unread
                         /\ s \in unread => copies = 0
                         /\ copies <= 1
                         /\ s \in running => ~Held(s)
    BY DEF NeverTwice
  <2> DEFINE places == {p \in Instance \X (0 .. 2 + MaxUserMessages) : p[2] \in UnderWay(s, p[1])}
  <2>1. \A p, q \in places : p = q
    <3> SUFFICES ASSUME NEW p \in places, NEW q \in places PROVE p = q
      OBVIOUS
    <3>1. p[1] = q[1] /\ p[2] = q[2] BY DEF ReadInv, OnceInv
    <3> QED BY <3>1
  <2>2. (\A i \in Instance : UnderWay(s, i) = {}) => places = {}
    OBVIOUS
  <2>3. Cardinality({}) = 0 BY FS_EmptySet
  <2>4. Cardinality(places) <= 1
    <3>1. CASE places = {} BY <2>3, <3>1
    <3>2. ASSUME NEW p \in places PROVE Cardinality(places) <= 1
      <4>1. places = {p} BY <2>1, <3>2
      <4>2. Cardinality({p}) = 1 BY FS_Singleton
      <4> HIDE DEF places
      <4> QED BY <4>1, <4>2
    <3> QED BY <3>1, <3>2
  <2>5. s \in running => ~Held(s) BY DEF ReadInv, OnceInv, Held
  <2>6. s \in read => places = {} /\ s \notin unread
    BY <2>2 DEF ReadInv, OnceInv
  <2>7. s \in unread => places = {} BY <2>2 DEF ReadInv, OnceInv
  <2> HIDE DEF places
  <2>8. /\ s \in read => Cardinality(places) = 0 /\ s \notin unread
        /\ s \in unread => Cardinality(places) = 0
    BY <2>3, <2>6, <2>7
  <2> QED BY <2>4, <2>5, <2>8 DEF places
<1> QED BY <1>1, ReadCorrect, PTL

(* A parent completes only after every subagent it started has reported.   *)
THEOREM CompletionIsLast == Spec => []CompletesAfterItsSubagents
<1>1. Init => WaitInv /\ CompletionInv
  BY WaitInit DEF Init, CompletionInv
<1>2. WaitInv /\ CompletionInv /\ [Next]_vars => (WaitInv /\ CompletionInv)'
  BY WaitKept, CompletionKept
<1>3. WaitInv /\ CompletionInv => CompletesAfterItsSubagents
  BY DEF CompletionInv, CompletesAfterItsSubagents, Completing
<1> QED BY <1>1, <1>2, <1>3, PTL DEF Spec
-----------------------------------------------------------------------------
(* No result is dropped but with the instance or the ask it was on its way *)
(* to.                                                                     *)

(* The steps that may drop the result of s. *)
Excused(s) ==
  \E i \in Instance :
    \/ ~aborted[i] /\ aborted'[i]
    \/ pc[i] = "ask" /\ 0 \in UnderWay(s, i) /\ answer'[i] # answer[i]

Safe(s) == Held(s)' \/ Excused(s)

(* An action that changes the messages of one instance has to account for  *)
(* those of that instance only.                                            *)
LEMMA OthersHold ==
  ASSUME NEW s \in Subagent, NEW i \in Instance, Held(s),
         \A j \in Instance : j # i =>
           queue'[j] = queue[j] /\ answer'[j] = answer[j] /\ aborted'[j] = aborted[j],
         s \in unread \cup read => Safe(s),
         ~aborted[i] /\ UnderWay(s, i) # {} => Safe(s)
  PROVE  Safe(s)
<1>1. ASSUME NEW j \in Instance, j # i, ~aborted[j], UnderWay(s, j) # {}
      PROVE  Held(s)'
  <2>1. UnderWay(s, j)' = UnderWay(s, j) BY <1>1 DEF UnderWay
  <2>2. ~aborted'[j] BY <1>1
  <2> QED BY <1>1, <2>1, <2>2 DEF Held
<1> QED BY <1>1 DEF Held, Safe

(* Nothing happens to the messages, and what is no longer unread is read.  *)
LEMMA MessagesStay ==
  ASSUME NEW s \in Subagent, Held(s),
         answer' = answer, queue' = queue, aborted' = aborted,
         unread \subseteq unread' \cup read', read \subseteq read'
  PROVE  Safe(s)
<1>1. \A i \in Instance : UnderWay(s, i)' = UnderWay(s, i) BY DEF UnderWay
<1> QED BY <1>1 DEF Held, Safe

LEMMA OneMessage == \A m : <<m>> # <<>> /\ <<m>>[1] = m
OBVIOUS

LEMMA HeadAt ==
  ASSUME NEW q \in Seq(Message), q # <<>>
  PROVE  q[1] = Head(q)
OBVIOUS

LEMMA TailFrom ==
  ASSUME NEW q \in Seq(Message), NEW k \in 1 .. Len(q), k # 1
  PROVE  k - 1 \in 1 .. Len(Tail(q)) /\ Tail(q)[k - 1] = q[k]
OBVIOUS

(* The head of a queue becomes the answer of the ask.                      *)
LEMMA HeadStays ==
  ASSUME TypeOK, TypeOK', NEW s \in Subagent, Held(s), NEW i \in Instance,
         queue[i] # <<>>, answer[i] = <<>>,
         answer' = [answer EXCEPT ![i] = <<Head(queue[i])>>],
         queue' = [queue EXCEPT ![i] = Tail(queue[i])],
         aborted' = aborted, unread' = unread, read' = read
  PROVE  Safe(s)
<1>1. /\ queue[i] \in Seq(Message)
      /\ queue'[i] = Tail(queue[i]) /\ answer'[i] = <<Head(queue[i])>>
  BY DEF TypeOK
<1>2. ASSUME NEW k \in UnderWay(s, i) PROVE k - 1 \in UnderWay(s, i)'
  <2>1. k \in 1 .. Len(queue[i]) /\ s \in queue[i][k].results BY PlaceIs
  <2>2. CASE k = 1
    <3>1. Head(queue[i]) = queue[i][1] BY <1>1, HeadAt
    <3>2. answer'[i] # <<>> /\ answer'[i][1] = queue[i][1] BY <1>1, <3>1, OneMessage
    <3> QED BY <2>1, <2>2, <3>2, PlaceWillBe
  <2>3. CASE k # 1
    <3>1. k - 1 \in 1 .. Len(queue'[i]) /\ queue'[i][k - 1] = queue[i][k]
      BY <1>1, <2>1, <2>3, TailFrom
    <3> QED BY <2>1, <3>1, PlaceWillBe
  <2> QED BY <2>2, <2>3
<1>3. ~aborted[i] /\ UnderWay(s, i) # {} => Held(s)' BY <1>2 DEF Held
<1>4. s \in unread \cup read => Held(s)' BY DEF Held
<1>5. \A j \in Instance : j # i =>
        queue'[j] = queue[j] /\ answer'[j] = answer[j] /\ aborted'[j] = aborted[j]
  BY DEF TypeOK
<1> QED BY <1>3, <1>4, <1>5, OthersHold DEF Safe

(* The head of a queue is read.                                            *)
LEMMA HeadIsRead ==
  ASSUME TypeOK, TypeOK', NEW s \in Subagent, Held(s), NEW i \in Instance,
         queue[i] # <<>>, answer[i] = <<>>, answer' = answer,
         queue' = [queue EXCEPT ![i] = Tail(queue[i])],
         read' = read \cup Head(queue[i]).results,
         aborted' = aborted, unread' = unread
  PROVE  Safe(s)
<1>1. queue[i] \in Seq(Message) /\ queue'[i] = Tail(queue[i])
  BY DEF TypeOK
<1>2. ASSUME NEW k \in UnderWay(s, i), ~aborted[i] PROVE Held(s)'
  <2>1. k \in 1 .. Len(queue[i]) /\ s \in queue[i][k].results BY PlaceIs
  <2>2. CASE k = 1
    <3>1. s \in Head(queue[i]).results BY <1>1, <2>1, <2>2, HeadAt
    <3> QED BY <3>1 DEF Held
  <2>3. CASE k # 1
    <3>1. k - 1 \in 1 .. Len(queue'[i]) /\ queue'[i][k - 1] = queue[i][k]
      BY <1>1, <2>1, <2>3, TailFrom
    <3>2. k - 1 \in UnderWay(s, i)' BY <2>1, <3>1, PlaceWillBe
    <3> QED BY <1>2, <3>2 DEF Held
  <2> QED BY <2>2, <2>3
<1>3. s \in unread \cup read => Held(s)' BY DEF Held
<1>4. \A j \in Instance : j # i =>
        queue'[j] = queue[j] /\ answer'[j] = answer[j] /\ aborted'[j] = aborted[j]
  BY DEF TypeOK
<1> QED BY <1>2, <1>3, <1>4, OthersHold DEF Safe

(* The answer of an ask changes: its results are read, or the user took    *)
(* the ask from it.                                                        *)
LEMMA AnswerChanges ==
  ASSUME TypeOK, TypeOK', NEW s \in Subagent, Held(s), NEW i \in Instance,
         pc[i] = "ask", NEW a, answer' = [answer EXCEPT ![i] = a],
         a = <<>> \/ a[1].results = {},
         queue' = queue, aborted' = aborted, unread' = unread, read \subseteq read'
  PROVE  Safe(s)
<1>1. answer'[i] = a BY DEF TypeOK
<1>2. ASSUME NEW k \in UnderWay(s, i), ~aborted[i] PROVE Safe(s)
  <2>1. CASE k = 0
    <3>1. answer[i] # <<>> /\ s \in answer[i][1].results BY <2>1, PlaceIs
    <3>2. answer'[i] # answer[i] BY <1>1, <3>1
    <3> QED BY <2>1, <3>2 DEF Safe, Excused
  <2>2. CASE k # 0
    <3>1. k \in 1 .. Len(queue'[i]) /\ s \in queue'[i][k].results BY <2>2, PlaceIs
    <3>2. k \in UnderWay(s, i)' BY <3>1, PlaceWillBe
    <3> QED BY <1>2, <3>2 DEF Held, Safe
  <2> QED BY <2>1, <2>2
<1>3. s \in unread \cup read => Safe(s) BY DEF Held, Safe
<1>4. \A j \in Instance : j # i =>
        queue'[j] = queue[j] /\ answer'[j] = answer[j] /\ aborted'[j] = aborted[j]
  BY DEF TypeOK
<1> QED BY <1>2, <1>3, <1>4, OthersHold

(* A message is queued to an instance that lives; it carries what is no    *)
(* longer unread.                                                          *)
LEMMA MessageAdded ==
  ASSUME TypeOK, TypeOK', NEW s \in Subagent, Held(s), NEW i \in Instance, ~aborted[i],
         NEW m \in Message, queue' = [queue EXCEPT ![i] = Append(queue[i], m)],
         answer' = answer, aborted' = aborted, read' = read,
         unread \subseteq unread' \cup m.results
  PROVE  Safe(s)
<1>1. queue[i] \in Seq(Message) /\ queue'[i] = Append(queue[i], m) BY DEF TypeOK
<1>2. ASSUME NEW k \in UnderWay(s, i) PROVE k \in UnderWay(s, i)'
  <2>1. CASE k = 0 BY <2>1, PlaceIs, PlaceWillBe
  <2>2. CASE k # 0
    <3>1. k \in 1 .. Len(queue[i]) /\ s \in queue[i][k].results BY <2>2, PlaceIs
    <3>2. k \in 1 .. Len(queue'[i]) /\ queue'[i][k] = queue[i][k] BY <1>1, <3>1
    <3> QED BY <3>1, <3>2, PlaceWillBe
  <2> QED BY <2>1, <2>2
<1>3. ASSUME s \in unread, s \notin unread' PROVE Held(s)'
  <2>1. s \in m.results BY <1>3
  <2>2. Len(queue[i]) + 1 \in 1 .. Len(queue'[i]) /\ queue'[i][Len(queue[i]) + 1] = m
    BY <1>1
  <2>3. Len(queue[i]) + 1 \in UnderWay(s, i)' BY <2>1, <2>2, PlaceWillBe
  <2> QED BY <2>3 DEF Held
<1>4. s \in unread \cup read => Held(s)' BY <1>3 DEF Held
<1>5. UnderWay(s, i) # {} => Held(s)' BY <1>2 DEF Held
<1>6. \A j \in Instance : j # i =>
        queue'[j] = queue[j] /\ answer'[j] = answer[j] /\ aborted'[j] = aborted[j]
  BY DEF TypeOK
<1> QED BY <1>4, <1>5, <1>6, OthersHold DEF Safe

(* An abort excuses what its instance had, and disturbs no other one.      *)
LEMMA AbortExcused ==
  ASSUME TypeOK, NEW s \in Subagent, Held(s), NEW i \in Instance,
         NEW byUser \in BOOLEAN, Abort(i, byUser), answer' = answer,
         ~aborted[i] \/ unread' = unread, read' = read
  PROVE  Safe(s)
<1>1. aborted'[i] /\ \A j \in Instance : j # i => aborted'[j] = aborted[j] /\ queue'[j] = queue[j]
  BY DEF Abort, TypeOK
<1>2. CASE ~aborted[i] BY <1>1, <1>2 DEF Safe, Excused
<1>3. CASE aborted[i]
  <2>1. s \in unread \cup read => Held(s)' BY <1>3 DEF Held
  <2> QED BY <1>1, <1>3, <2>1, OthersHold DEF Safe
<1> QED BY <1>2, <1>3

(* A delivery takes what is unread, and what just ended, to the live       *)
(* instance.                                                               *)
LEMMA DeliveryHolds ==
  ASSUME TypeOK, TypeOK', NEW s \in Subagent, Held(s),
         NEW u \in SUBSET Subagent, unread \subseteq u, NEW waiting, NEW status,
         \/ unread' = u /\ queue' = queue
         \/ /\ Deliverable(u, waiting, status) /\ unread' = {}
            /\ queue' = [queue EXCEPT ![live] = Append(queue[live], Text(u))],
         answer' = answer, aborted' = aborted, read' = read
  PROVE  Safe(s)
<1>1. CASE unread' = u /\ queue' = queue BY <1>1, MessagesStay
<1>2. CASE /\ Deliverable(u, waiting, status) /\ unread' = {}
           /\ queue' = [queue EXCEPT ![live] = Append(queue[live], Text(u))]
  <2>1. live \in Instance /\ ~aborted[live] BY <1>2 DEF Deliverable, TypeOK
  <2>2. Text(u) \in Message /\ Text(u).results = u BY TextType DEF Text
  <2> QED BY <1>2, <2>1, <2>2, MessageAdded
<1> QED BY <1>1, <1>2

-----------------------------------------------------------------------------
LEMMA ToolHolds ==
  ASSUME ReadInv, TypeOK', NEW s \in Subagent, Held(s), NEW i \in Instance,
         \/ CallRunParallel(i) \/ CallWait(i) \/ WaitLoop(i)
         \/ \E f \in FanOut : StartFanOut(i, f)
  PROVE  Safe(s)
<1>1. CASE \/ CallRunParallel(i) \/ CallWait(i) \/ WaitStopped(i) \/ NothingToWaitFor(i)
           \/ ReturnResults(i) \/ Sleep(i) \/ \E f \in FanOut : StartFanOut(i, f)
  <2>1. answer' = answer /\ queue' = queue /\ aborted' = aborted
        /\ unread \subseteq unread' \cup read' /\ read \subseteq read'
    BY <1>1 DEF CallRunParallel, CallWait, WaitStopped, NothingToWaitFor, ReturnResults, Sleep,
                StartFanOut, tracker
  <2> QED BY <2>1, MessagesStay
<1>2. CASE ReturnUserMessage(i)
  <2>1. answer[i] = <<>> BY <1>2 DEF ReturnUserMessage, ReadInv, AnswersAsks
  <2> QED BY <1>2, <2>1, HeadIsRead DEF ReturnUserMessage, tracker, ReadInv, WaitInv
<1> QED BY <1>1, <1>2 DEF WaitLoop

LEMMA AskHolds ==
  ASSUME ReadInv, TypeOK', NEW s \in Subagent, Held(s), NEW i \in Instance,
         \/ AttemptCompletion(i) \/ OtherAsk(i) \/ PollQueue(i) \/ AskAnswered(i)
         \/ ClickButton(i) \/ TypeAnswer(i) \/ QueueMessage(i)
  PROVE  Safe(s)
<1> USE DEF ReadInv, WaitInv
<1>1. ASSUME NEW kind \in AskKind, OpenAsk(i, kind) PROVE Safe(s)
  <2>1. CASE queue[i] = <<>>
    BY <1>1, <2>1, MessagesStay DEF OpenAsk, tracker
  <2>2. CASE queue[i] # <<>>
    <3>1. answer[i] = <<>> BY <1>1 DEF OpenAsk, AnswersAsks
    <3> QED BY <1>1, <2>2, <3>1, HeadStays DEF OpenAsk, tracker
  <2> QED BY <2>1, <2>2
<1>2. CASE PollQueue(i) BY <1>2, HeadStays DEF PollQueue, tracker
<1>3. CASE AskAnswered(i)
  <2>1. /\ pc[i] = "ask" /\ answer' = [answer EXCEPT ![i] = <<>>] /\ queue' = queue
        /\ aborted' = aborted /\ unread' = unread /\ read \subseteq read'
    BY <1>3 DEF AskAnswered, tracker
  <2> QED BY <2>1, AnswerChanges
<1>4. /\ <<Button>>[1].results = {} /\ <<Text({})>>[1].results = {}
      /\ Text({}) \in Message /\ Text({}).results = {}
  BY TextType DEF Button, Text
<1>5. CASE ClickButton(i) BY <1>4, <1>5, AnswerChanges DEF ClickButton, tracker
<1>6. CASE TypeAnswer(i) BY <1>4, <1>6, AnswerChanges DEF TypeAnswer, tracker
<1>7. CASE QueueMessage(i)
  <2>1. /\ ~aborted[i] /\ queue' = [queue EXCEPT ![i] = Append(queue[i], Text({}))]
        /\ answer' = answer /\ aborted' = aborted /\ read' = read /\ unread' = unread
    BY <1>7 DEF QueueMessage, OnScreen
  <2> QED BY <1>4, <2>1, MessageAdded
<1> QED BY <1>1, <1>2, <1>3, <1>5, <1>6, <1>7 DEF AttemptCompletion, OtherAsk, AskKind

LEMMA LifeHolds ==
  ASSUME ReadInv, TypeOK', NEW s \in Subagent, Held(s), NEW i \in Instance,
         \/ TurnRests(i) \/ DetachedRests(i) \/ UserStops(i) \/ StreamFails(i)
         \/ Rehydrate(i) \/ LeaveWorking(i) \/ LeaveResting(i)
         \/ Reattach \/ OpenFromHistory
         \/ \E r \in Subagent : SubagentEnds(r)
  PROVE  Safe(s)
<1> USE DEF ReadInv, WaitInv
<1>1. CASE TurnRests(i)
  <2>1. \/ unread' = unread /\ queue' = queue
        \/ /\ Deliverable(unread, listeners, rest') /\ unread' = {}
           /\ queue' = [queue EXCEPT ![live] = Append(queue[live], Text(unread))]
    BY <1>1 DEF TurnRests, Deliver
  <2>2. unread \in SUBSET Subagent BY DEF TypeOK
  <2>3. answer' = answer /\ aborted' = aborted /\ read' = read BY <1>1 DEF TurnRests
  <2> QED BY <2>1, <2>2, <2>3, DeliveryHolds
<1>2. CASE DetachedRests(i)
  <2>1. Abort(i, FALSE) /\ answer' = answer /\ read' = read
    BY <1>2 DEF DetachedRests
  <2>2. ~aborted[i] \/ unread' = unread BY <1>2 DEF DetachedRests, Deliverable
  <2> QED BY <2>1, <2>2, AbortExcused
<1>3. ASSUME NEW byUser \in BOOLEAN, Stop(i, byUser) PROVE Safe(s)
  BY <1>3, AbortExcused DEF Stop
<1>4. CASE LeaveResting(i) BY <1>4, AbortExcused DEF LeaveResting
<1>5. CASE Rehydrate(i) \/ LeaveWorking(i) \/ Reattach \/ OpenFromHistory
  BY <1>5, MessagesStay
  DEF Rehydrate, LeaveWorking, Reattach, OpenFromHistory, tracker
<1>6. ASSUME NEW r \in Subagent, SubagentEnds(r) PROVE Safe(s)
  <2> DEFINE u == IF FanOutOf[r] \in cancelled THEN unread ELSE unread \cup {r}
  <2>1. u \in SUBSET Subagent /\ unread \subseteq u BY DEF TypeOK
  <2>2. \/ unread' = u /\ queue' = queue
        \/ /\ Deliverable(u, {}, rest) /\ unread' = {}
           /\ queue' = [queue EXCEPT ![live] = Append(queue[live], Text(u))]
    BY <1>6 DEF SubagentEnds, Deliver
  <2>3. answer' = answer /\ aborted' = aborted /\ read' = read BY <1>6 DEF SubagentEnds
  <2> HIDE DEF u
  <2> QED BY <2>1, <2>2, <2>3, DeliveryHolds
<1> QED BY <1>1, <1>2, <1>3, <1>4, <1>5, <1>6 DEF UserStops, StreamFails

LEMMA HeldOrExcused ==
  ASSUME ReadInv, [Next]_vars, NEW s \in Subagent, Held(s)
  PROVE  Safe(s)
<1>1. TypeOK' BY TypesKept DEF ReadInv, WaitInv
<1>2. CASE UNCHANGED vars BY <1>2, MessagesStay DEF vars, tracker
<1>3. CASE Next
  <2>1. 1 \in Instance BY InstanceFacts
  <2> QED BY <1>1, <1>3, <2>1, ToolHolds, AskHolds, LifeHolds DEF Next
<1> QED BY <1>2, <1>3

(* A result that the parent can still get is lost only in a step that      *)
(* aborts an instance, or that changes the answer of the ask it was about  *)
(* to answer: no wait, delivery, rest, rebuilt instance or end of another  *)
(* subagent drops it.                                                      *)
THEOREM ResultsNotDropped == Spec => DroppedOnlyWithItsAsk
<1>1. ReadInv /\ [Next]_vars =>
        [\A s \in Subagent :
           Held(s) /\ ~Held(s)' =>
             \E i \in Instance :
               \/ ~aborted[i] /\ aborted'[i]
               \/ pc[i] = "ask" /\ 0 \in UnderWay(s, i) /\ answer'[i] # answer[i]]_vars
  BY HeldOrExcused DEF Safe, Excused
<1> QED BY <1>1, ReadCorrect, PTL DEF Spec, DroppedOnlyWithItsAsk
=============================================================================
