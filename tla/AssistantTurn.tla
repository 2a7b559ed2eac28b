--------------------------- MODULE AssistantTurn ---------------------------
(***************************************************************************)
(* The answer of the model while it streams in                             *)
(* (core/task/TaskStreamProcessor.ts, StreamToolCallHandler.ts): blocks    *)
(* are presented, and their tools run, one after the other while later     *)
(* blocks still arrive (core/assistant-message/presentAssistantMessage.ts);*)
(* the loop saves the answer, waits for the last tool and hands the        *)
(* results to the next request (TaskApiLoop.ts).  Nobody awaits a          *)
(* presentation: one of a stream that failed goes on beside the retry.     *)
(*                                                                         *)
(* Blocks are numbered as they arrive; the number is the tool call's id.   *)
(* Names, arguments and texts are left out, as are answers without any     *)
(* block and aborts (ApiRetries), and calls without an id.                 *)
(***************************************************************************)
EXTENDS Naturals, SequencesExt

CONSTANTS
  MaxBlocks,    \* bound on the blocks of all answers
  MaxFailures   \* bound on streams that fail

ASSUME TurnAssumption == MaxBlocks \in Nat /\ MaxFailures \in Nat

VARIABLES
  whole,      \* the provider yields each call in one chunk
  phase,      \* where the loop is
  turn,       \* the streaming fields of the Task, and its presentations
  calls,      \* the calls in the answer saved last
  arrived,    \* blocks so far
  failed,     \* streams that failed
  \* what happened
  ran,        \* tools that ran, in order
  overtaken   \* a request began while a tool of a failed stream ran

vars == <<whole, phase, turn, calls, arrived, failed, ran, overtaken>>

Tools == {"tool", "new_task", "attempt_completion"}
Kinds == Tools \cup {"text"}

(* Of a result: the call it names, and the call it comes from (0: none).   *)
ResultOf(call, from) == [call |-> call, from |-> from]

NoTurn ==
  [content |-> <<>>,      \* assistantMessageContent
   index |-> 1,           \* currentStreamingContentIndex
   locked |-> FALSE,      \* presentAssistantMessageLocked
   pending |-> FALSE,     \* presentAssistantMessageHasPendingUpdates
   ready |-> FALSE,       \* userMessageContentReady
   complete |-> FALSE,    \* didCompleteReadingStream
   rejected |-> FALSE,    \* didRejectTool
   saved |-> FALSE,       \* assistantMessageSavedToHistory
   held |-> FALSE,        \* partialBlocks is not empty
   results |-> <<>>,      \* the tool_results of userMessageContent
   running |-> <<>>]      \* presentations that have not returned

Init ==
  /\ whole \in BOOLEAN
  /\ phase = "stream" /\ turn = NoTurn /\ calls = <<>>
  /\ arrived = 0 /\ failed = 0 /\ ran = <<>> /\ overtaken = FALSE

-----------------------------------------------------------------------------
(* presentAssistantMessage, up to its first wait.  The presentation keeps  *)
(* a copy of the block; skip: a tool was rejected before.                  *)

Started(t) ==
  [t EXCEPT !.locked = TRUE, !.pending = FALSE,
            !.running = Append(@, [block |-> t.content[t.index], skip |-> t.rejected])]

PresentUnlocked(t) ==
  IF t.index > Len(t.content) THEN [t EXCEPT !.pending = FALSE, !.ready = @ \/ t.complete]
  ELSE Started(t)

Present(t) ==
  IF t.locked THEN [t EXCEPT !.pending = TRUE]
  ELSE IF t.index > Len(t.content) THEN [t EXCEPT !.pending = FALSE, !.ready = @ \/ t.complete]
  ELSE Started(t)

Passed(t) ==
  [t EXCEPT !.locked = FALSE, !.index = @ + 1,
            !.ready = @ \/ t.index = Len(t.content) \/ (t.complete /\ t.index > Len(t.content))]

(* What it does once the block is presented: the next one, or the same     *)
(* again when it grew meanwhile.                                           *)
AdvanceOnly(t, partial) ==
  LET now == IF ~partial \/ t.rejected THEN Passed(t) ELSE [t EXCEPT !.locked = FALSE]
  IN IF now.index > t.index /\ now.index <= Len(now.content) THEN Present(now) ELSE now

Advance(t, partial) ==
  LET now == IF ~partial \/ t.rejected THEN Passed(t) ELSE [t EXCEPT !.locked = FALSE]
      more == now.index > t.index /\ now.index <= Len(now.content)
  IN IF more \/ now.pending THEN Present(now) ELSE now

(* pushToolResultToUserContent: one result per call.                       *)
Push(results, result) ==
  IF \E i \in 1..Len(results) : results[i].call = result.call THEN results
  ELSE Append(results, result)

Runs(presentation) ==
  presentation.block.kind \in Tools /\ ~presentation.block.partial /\ ~presentation.skip

(* The completion is accepted: nothing is left to send back.               *)
Accepts(presentation) == Runs(presentation) /\ presentation.block.kind = "attempt_completion"

Stale(presentation) == \A i \in 1..Len(turn.content) : turn.content[i].id # presentation.block.id

(* A tool may begin with this. *)
TurnBecomes(t) ==
  /\ turn' = t
  /\ LET now == turn'.running
     IN ran' = IF now # <<>> /\ Runs(Last(now)) /\ ~Contains(turn.running, Last(now))
               THEN Append(ran, Last(now).block.id) ELSE ran

(* What a presentation may leave: the result of the tool, the user's denial*)
(* of it or that it was skipped; nothing of a text, of a partial block, of *)
(* a completion the user accepts or of a tool of a failed stream whose ask *)
(* a newer one replaced.  (A completion that is sent back rejects nothing.)*)
Outcomes(i) ==
  LET it == turn.running[i]
      rest == [turn EXCEPT !.running = RemoveAt(@, i)]
      result == ResultOf(it.block.id, it.block.id)
      silent == it.block.kind = "text" \/ (~it.skip /\ it.block.partial)
  IN (IF silent THEN {} ELSE {[rest EXCEPT !.results = Push(@, result)]})
     \cup (IF Runs(it) /\ ~Accepts(it)
           THEN {[rest EXCEPT !.results = Push(@, result), !.rejected = TRUE]} ELSE {})
     \cup (IF silent \/ Stale(it) \/ Accepts(it) THEN {rest} ELSE {})

Finish(i) ==
  /\ phase # "ended"
  /\ \E outcome \in Outcomes(i) : TurnBecomes(Advance(outcome, turn.running[i].block.partial))
  /\ UNCHANGED <<whole, phase, calls, arrived, failed, overtaken>>

(* new_task is approved: the results are flushed behind the saved answer   *)
(* and the task makes room for its child.  (waitForAssistantMessage gives  *)
(* up after 30 seconds, which is left out.)                                *)
HandOver(i) ==
  /\ phase # "ended"
  /\ Runs(turn.running[i]) /\ turn.running[i].block.kind = "new_task"
  /\ turn.results = <<>> \/ turn.saved
  /\ phase' = "ended"
  /\ UNCHANGED <<whole, turn, calls, arrived, failed, ran, overtaken>>

-----------------------------------------------------------------------------
(* processChunk.  After a chunk the loop stops reading if a tool was       *)
(* rejected meanwhile.                                                     *)

Block(kind, partial) == [id |-> arrived + 1, kind |-> kind, partial |-> partial]

WithBlock(t, block) == [t EXCEPT !.content = Append(@, block), !.ready = FALSE]

LastTextComplete(t) ==
  IF t.content # <<>> /\ Last(t.content).kind = "text"
  THEN [t EXCEPT !.content[Len(t.content)].partial = FALSE]
  ELSE t

Chunk(t) ==
  /\ phase = "stream"
  /\ phase' = IF turn.rejected THEN "broken" ELSE "stream"
  /\ TurnBecomes(t)
  /\ UNCHANGED <<whole, calls, failed, overtaken>>

NewBlock == arrived < MaxBlocks /\ arrived' = arrived + 1

Text ==
  IF turn.content # <<>> /\ Last(turn.content).kind = "text" /\ Last(turn.content).partial
  THEN Chunk(Present(turn)) /\ UNCHANGED arrived
  ELSE NewBlock /\ Chunk(Present(WithBlock(turn, Block("text", TRUE))))

ToolCall(kind) == whole /\ NewBlock /\ Chunk(Present(WithBlock(turn, Block(kind, FALSE))))

ToolCallStart(kind) ==
  ~whole /\ NewBlock /\ Chunk(Present(WithBlock(LastTextComplete(turn), Block(kind, TRUE))))

IsOpen(block) == block.kind \in Tools /\ block.partial

ToolCallDelta ==
  /\ \E i \in 1..Len(turn.content) : IsOpen(turn.content[i])
  /\ Chunk(Present(turn))
  /\ UNCHANGED arrived

Ended(t, S) ==
  [t EXCEPT !.content = [i \in 1..Len(@) |-> IF i \in S THEN [@[i] EXCEPT !.partial = FALSE] ELSE @[i]],
            !.ready = FALSE]

(* The open calls end and are presented one by one.  Once the first is,    *)
(* a presentation is under way or there is nothing left to present, and    *)
(* what the others do together one of them does.                           *)
ToolCallsEnd(t) ==
  LET open == {i \in 1..Len(t.content) : IsOpen(t.content[i])}
      first == Min(open)
      one == Present(Ended(t, {first}))
  IN IF open = {} THEN t ELSE IF open = {first} THEN one ELSE Present(Ended(one, open))

(* After the finish reason only the usage comes.                           *)
FinishReason ==
  /\ phase = "stream" /\ ~whole
  /\ phase' = "closed"
  /\ TurnBecomes(ToolCallsEnd(turn))
  /\ UNCHANGED <<whole, calls, arrived, failed, overtaken>>

-----------------------------------------------------------------------------
(* The loop after the stream.                                              *)

(* finalizeStream: the calls still open end, texts count as complete.      *)
StreamEnds ==
  /\ phase \in {"stream", "broken", "closed"} /\ turn.content # <<>>
  /\ phase' = "save"
  /\ LET t == ToolCallsEnd([turn EXCEPT !.complete = TRUE])
     IN TurnBecomes([t EXCEPT !.held = \E i \in 1..Len(t.content) : t.content[i].partial,
                              !.content = [i \in 1..Len(@) |-> [@[i] EXCEPT !.partial = FALSE]]])
  /\ UNCHANGED <<whole, calls, arrived, failed, overtaken>>

(* The elements of s that are in S, in order. *)
Among(s, S) ==
  LET kept[n \in 0..Len(s)] ==
        IF n = 0 THEN <<>>
        ELSE IF s[n] \in S THEN Append(kept[n - 1], s[n]) ELSE kept[n - 1]
  IN kept[Len(s)]

CallsOf(content) ==
  LET at == {i \in 1..Len(content) : content[i].kind \in Tools}
  IN Among([i \in 1..Len(content) |-> content[i].id], {content[i].id : i \in at})

(* No call may follow new_task: those that do are cut off, and answered.   *)
Cut(t) ==
  LET first == SelectInSeq(t.content, LAMBDA block : block.kind = "new_task")
      later == {i \in 1..Len(t.content) : i > first /\ t.content[i].kind \in Tools}
      pushed[n \in 0..Len(t.content)] ==
        IF n = 0 THEN t.results
        ELSE IF n \in later THEN Push(pushed[n - 1], ResultOf(t.content[n].id, 0)) ELSE pushed[n - 1]
  IN IF first = 0 \/ later = {} THEN t
     ELSE [t EXCEPT !.content = SubSeq(@, 1, first), !.results = pushed[Len(t.content)]]

(* assembleAndSave, and the texts that were partial are presented.         *)
SaveAnswer ==
  /\ phase = "save"
  /\ phase' = "wait"
  /\ LET t == [Cut(turn) EXCEPT !.saved = TRUE]
     IN TurnBecomes(IF t.held THEN Present(t) ELSE t) /\ calls' = CallsOf(t.content)
  /\ UNCHANGED <<whole, arrived, failed, overtaken>>

(* Calls without a result end the loop (their completion was accepted); an *)
(* answer of text alone is the completion, or goes back with the user's    *)
(* feedback or a reminder.                                                 *)
AfterTurn ==
  IF calls = <<>> THEN {"ended", "collected"}
  ELSE IF turn.results = <<>> THEN {"ended"} ELSE {"collected"}

CollectAtOnce ==
  /\ phase = "wait"
  /\ phase' \in AfterTurn
  /\ UNCHANGED <<whole, turn, calls, arrived, failed, ran, overtaken>>

(* The results are taken.                                                  *)
Collect ==
  /\ phase = "wait" /\ turn.ready
  /\ phase' \in AfterTurn
  /\ UNCHANGED <<whole, turn, calls, arrived, failed, ran, overtaken>>

(* The stream fails and is retried (ApiRetries); presentations go on.      *)
StreamFails ==
  /\ phase \in {"stream", "closed"} /\ failed < MaxFailures
  /\ phase' = "failed" /\ failed' = failed + 1
  /\ UNCHANGED <<whole, turn, calls, arrived, ran, overtaken>>

(* resetStreamingState.  *)
NextRequest ==
  /\ phase \in {"collected", "failed"}
  /\ phase' = "stream"
  /\ turn' = [NoTurn EXCEPT !.running = turn.running]
  /\ overtaken' = (overtaken \/ turn.running # <<>>)
  /\ UNCHANGED <<whole, calls, arrived, failed, ran>>

(* validateAndFixToolResultIds, on the results as the next user message    *)
(* has them: a result that names no call of the answer takes the call at   *)
(* its own position, calls without a result get a placeholder.             *)
Repaired ==
  LET ids == ToSet(calls)
      Corrected(acc, i) ==
        LET r == turn.results[i]
            call == IF r.call \in ids \ acc.used THEN r.call
                    ELSE IF i <= Len(calls) /\ calls[i] \notin acc.used THEN calls[i] ELSE 0
        IN IF call = 0 THEN acc
           ELSE [used |-> acc.used \cup {call}, results |-> Append(acc.results, ResultOf(call, r.from))]
      upTo[n \in 0..Len(turn.results)] ==
        IF n = 0 THEN [used |-> {}, results |-> <<>>] ELSE Corrected(upTo[n - 1], n)
      corrected == upTo[Len(turn.results)]
      missing == Among(calls, ids \ corrected.used)
  IN IF calls = <<>> THEN turn.results
     ELSE [i \in 1..Len(missing) |-> ResultOf(missing[i], 0)] \o corrected.results

Loop == StreamEnds \/ SaveAnswer \/ Collect \/ NextRequest
Presenters == \E i \in 1..Len(turn.running) : Finish(i) \/ HandOver(i)
Stream ==
  \/ Text \/ ToolCallDelta \/ FinishReason \/ StreamFails
  \/ \E kind \in Tools : ToolCall(kind) \/ ToolCallStart(kind)

Next == Loop \/ Presenters \/ Stream

Spec == Init /\ [][Next]_vars

(* The loop goes on by itself; tools end, and the user answers their asks. *)
(* A presentation that throws keeps the lock and never returns: that is    *)
(* one which runs and does not Finish.  The invariants cover it, as they   *)
(* ask for no fairness; TurnEnds is about turns in which none throws.      *)
Fairness == WF_vars(Loop) /\ WF_vars(Presenters)
FairSpec == Spec /\ Fairness
-----------------------------------------------------------------------------

Blocks == [id : 1..MaxBlocks, kind : Kinds, partial : BOOLEAN]

Turns ==
  [content : Seq(Blocks), index : 1..(MaxBlocks + 1),
   locked : BOOLEAN, pending : BOOLEAN, ready : BOOLEAN, complete : BOOLEAN,
   rejected : BOOLEAN, saved : BOOLEAN, held : BOOLEAN,
   results : Seq([call : 1..MaxBlocks, from : 0..MaxBlocks]),
   running : Seq([block : Blocks, skip : BOOLEAN])]

TypeOK ==
  /\ phase \in {"stream", "broken", "closed", "save", "wait", "collected", "failed", "ended"}
  /\ whole \in BOOLEAN /\ overtaken \in BOOLEAN
  /\ turn \in Turns
  /\ calls \in Seq(1..MaxBlocks) /\ ran \in Seq(1..MaxBlocks)
  /\ arrived \in 0..MaxBlocks /\ failed \in 0..MaxFailures

(* Unless a request was retried over a running tool: presentations do not  *)
(* overlap, and no tool runs twice or after a later one.                   *)
OneAtATime ==
  ~overtaken => /\ Len(turn.running) <= 1
                /\ \A i, j \in 1..Len(ran) : i < j => ran[i] < ran[j]

(* Types, and one presentation at a time.                                  *)
WellFormed == TypeOK /\ OneAtATime

(* The block has its own result, or is a completion that ran.              *)
Answered(t, r, block) ==
  \/ \E i \in 1..Len(t.results) : t.results[i] = ResultOf(block.id, block.id)
  \/ block.kind = "attempt_completion" /\ Contains(r, block.id)

(* The request after an answer carries one result for each of its calls    *)
(* and, if it has calls, for no other, whatever was running or cut.  Unless*)
(* a request was retried over a running tool, each call's own result was   *)
(* there before the repair, so that only an accepted completion beside     *)
(* other calls gets a placeholder.                                         *)
ResultsAnswerCalls ==
  phase = "collected" =>
    /\ calls # <<>> => /\ {Repaired[i].call : i \in 1..Len(Repaired)} = ToSet(calls)
                       /\ Len(Repaired) = Len(calls)
    /\ ~overtaken => \A i \in 1..Len(turn.content) :
                       turn.content[i].kind \in Tools => Answered(turn, ran, turn.content[i])

(* The wait for the last tool ends, and the loop goes on (unless a request *)
(* was retried over a running tool).                                       *)
TurnEnds == (phase = "wait" /\ ~overtaken) ~> (phase # "wait")

(* "If the ID is already valid and not yet used, keep it"                  *)
(* (validateToolResultIds.ts): the result of a call is not given up for    *)
(* another one.                                                            *)
ValidResultsKept ==
  phase = "collected" =>
    \A i \in 1..Len(turn.results) :
      turn.results[i].call \in ToSet(calls) => Contains(Repaired, turn.results[i])
=============================================================================
