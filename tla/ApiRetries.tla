----------------------------- MODULE ApiRetries -----------------------------
(***************************************************************************)
(* The request loop of a task (core/task/TaskApiLoop.ts,                   *)
(* core/task/RetryHandler.ts): one request after the other, each with the  *)
(* conversation so far; what becomes of a request that fails on the first  *)
(* chunk, in the middle of the stream, or with an empty answer; and where  *)
(* an abort is noticed.                                                    *)
(*                                                                         *)
(* What the user and the tools have to say arrives in contents 1, 2, ...,  *)
(* one per turn; a message of the conversation is its role and the         *)
(* contents it holds.  Retry notes, environment details and the condensing *)
(* of the conversation are left out; the mistake limit and the budget of a *)
(* mode, which may end the loop before a request, too.                     *)
(***************************************************************************)
EXTENDS Naturals, SequencesExt

CONSTANTS
  MaxRetries,   \* UNATTENDED_MAX_API_RETRIES
  MaxContext,   \* MAX_CONTEXT_WINDOW_RETRIES
  MaxTurns      \* bound on contents

ASSUME RetriesAssumption ==
  /\ {MaxRetries, MaxContext, MaxTurns} \subseteq Nat
  /\ MaxContext <= MaxRetries /\ MaxTurns > 0

VARIABLES
  background,  \* isBackground: nobody to ask
  resumed,     \* the task goes on after a subtask's result, content 1
  phase,       \* where the loop is
  item,        \* the StackItem
  attempt,     \* attemptApiRequest: its retries
  hist,        \* apiConversationHistory
  given,       \* contents so far
  abort,       \* abort
  failures     \* of a background task: failures in a row other than 429 so far

vars == <<background, resumed, phase, item, attempt, hist, given, abort, failures>>

Kinds == {"context", "refused", "limited", "other"}  \* refused: 401, 403, 404
(* made: retryAttempt.  counted: those that count for the cap, that is     *)
(* retryAttempt - rateLimitRetries.                                        *)
Tries == [made : Nat, counted : Nat]
Contents == SUBSET (1..MaxTurns)
Items == [contents : Contents, made : Nat, counted : Nat, removed : BOOLEAN]
Messages == [role : {"user", "assistant"}, contents : Contents]

Message(role, contents) == [role |-> role, contents |-> contents]
NewItem(contents) ==
  [contents |-> contents, made |-> 0, counted |-> 0, removed |-> FALSE]

Init ==
  /\ background \in BOOLEAN
  /\ resumed \in BOOLEAN
  /\ phase = "pop"
  /\ hist = IF resumed THEN <<Message("user", {1})>> ELSE <<>>
  /\ item = NewItem(IF resumed THEN {} ELSE {1})
  /\ attempt = [made |-> 0, counted |-> 0]
  /\ given = 1 /\ abort = FALSE /\ failures = 0

(* Neither the retries of a foreground task nor those after a 429 have a   *)
(* cap; once there are more than MaxRetries, nothing looks at their number.*)
OneMore(n) == IF n > MaxRetries THEN n ELSE n + 1

(* A retry after a failure of this kind; a 429 does not count.             *)
OneMoreCounted(kind, n) == IF kind = "limited" THEN n ELSE OneMore(n)

CappedLate(kind, counted) == background /\ kind # "limited" /\ counted > MaxRetries

Capped(kind, counted) == background /\ kind # "limited" /\ counted >= MaxRetries
FailFast(kind) == background /\ kind = "refused"

Ends == phase' = "ended"

Fails(kind) ==
  failures' = IF background /\ kind # "limited" THEN failures + 1 ELSE failures

-----------------------------------------------------------------------------
(* A cycle: the content becomes a message unless it is a retry, and the    *)
(* request goes out.  Nothing looks at abort between the two.              *)

Pop ==
  /\ phase = "pop" /\ ~abort
  /\ phase' = "prepare"
  /\ UNCHANGED <<background, resumed, item, attempt, hist, given, abort, failures>>

AddsFirstOnly == item.made = 0 /\ item.contents # {}

AddsMessage == item.removed \/ (item.made = 0 /\ item.contents # {})

AddUserMessage ==
  /\ phase = "prepare"
  /\ phase' = "send"
  /\ hist' = IF AddsMessage THEN Append(hist, Message("user", item.contents)) ELSE hist
  /\ attempt' = [made |-> item.made, counted |-> item.made]
  /\ UNCHANGED <<background, resumed, item, given, abort, failures>>

Send ==
  /\ phase = "send"
  /\ phase' = "await"
  /\ UNCHANGED <<background, resumed, item, attempt, hist, given, abort, failures>>

FirstChunk ==
  /\ phase = "await"
  /\ phase' = "stream"
  /\ UNCHANGED <<background, resumed, item, attempt, hist, given, abort, failures>>

(* The turn ends with results of tools, feedback or a reminder, as often   *)
(* as the model likes, or it has completed the task.                       *)
NextTurn ==
  \/ given < MaxTurns /\ given' = given + 1 /\ item' = NewItem({given + 1}) /\ phase' = "pop"
  \/ Ends /\ UNCHANGED <<given, item>>

Answered ==
  /\ phase = "stream" /\ ~abort
  /\ hist' = Append(hist, Message("assistant", {}))
  /\ failures' = 0
  /\ NextTurn
  /\ UNCHANGED <<background, resumed, attempt, abort>>

-----------------------------------------------------------------------------
(* handleApiRequestError: no first chunk.                                  *)

FirstChunkFails(kind, auto) ==
  /\ phase = "await"
  /\ Fails(kind)
  /\ \/ /\ kind = "context" /\ attempt.made < MaxContext
        /\ phase' = "send"
        /\ attempt' = [made |-> OneMore(attempt.made), counted |-> OneMore(attempt.counted)]
     \/ /\ ~(kind = "context" /\ attempt.made < MaxContext)
        /\ \/ /\ FailFast(kind) \/ Capped(kind, attempt.counted)
              /\ Ends /\ UNCHANGED attempt
           \/ /\ ~FailFast(kind) /\ ~Capped(kind, attempt.counted)
              /\ IF (auto \/ background) /\ kind # "refused"
                 THEN /\ phase' = "backoff"
                      /\ attempt' = [made |-> OneMore(attempt.made),
                                     counted |-> OneMoreCounted(kind, attempt.counted)]
                 ELSE phase' = "ask" /\ UNCHANGED attempt
  /\ UNCHANGED <<background, resumed, item, hist, given, abort>>

BackoffOver ==
  /\ phase = "backoff" /\ ~abort
  /\ phase' = "send"
  /\ UNCHANGED <<background, resumed, item, attempt, hist, given, abort, failures>>

(* api_req_failed: a retry starts the count over, anything else ends.      *)
AskAnswered(retry) ==
  /\ phase = "ask" /\ ~abort
  /\ IF retry THEN phase' = "send" /\ attempt' = [made |-> 0, counted |-> 0]
              ELSE Ends /\ UNCHANGED attempt
  /\ UNCHANGED <<background, resumed, item, hist, given, abort, failures>>

-----------------------------------------------------------------------------
(* handleStreamError: the stream fails after its first chunk, or the limit *)
(* of automatic approvals is refused before the request.                   *)

StreamFails(kind, auto) ==
  /\ ~abort
  /\ \/ phase = "stream" /\ Fails(kind)
     \/ phase = "send" /\ kind = "other" /\ UNCHANGED failures
  /\ IF FailFast(kind) \/ Capped(kind, item.counted)
     THEN Ends /\ UNCHANGED item
     ELSE /\ phase' = IF kind = "refused" THEN "askStream"
                      ELSE IF auto \/ background THEN "backoffStream" ELSE "pop"
          /\ item' = [item EXCEPT !.made = OneMore(@), !.removed = FALSE,
                                  !.counted = IF kind = "refused" THEN OneMore(item.made)
                                              ELSE OneMoreCounted(kind, @)]
  /\ UNCHANGED <<background, resumed, attempt, hist, given, abort>>

AskStreamAnswered(retry) ==
  /\ phase = "askStream" /\ ~abort
  /\ IF retry THEN phase' = "pop" ELSE Ends
  /\ UNCHANGED <<background, resumed, item, attempt, hist, given, abort, failures>>

-----------------------------------------------------------------------------
(* handleEmptyAssistantResponse: the last user message is taken out of the *)
(* conversation, and put back by the retry.                                *)

WithoutLastUser ==
  IF hist # <<>> /\ Last(hist).role = "user" THEN Front(hist) ELSE hist

Retried(it) == [it EXCEPT !.made = OneMore(@), !.counted = OneMore(@), !.removed = TRUE]

EmptyAnswer(auto) ==
  /\ phase = "stream" /\ ~abort
  /\ Fails("other")
  /\ hist' = WithoutLastUser
  /\ IF auto \/ background
     THEN IF Capped("other", item.counted) THEN Ends /\ UNCHANGED item
          ELSE phase' = "backoffStream" /\ item' = Retried(item)
     ELSE phase' = "askEmpty" /\ UNCHANGED item
  /\ UNCHANGED <<background, resumed, attempt, given, abort>>

(* Declined: the conversation goes on without an answer.                   *)
AskEmptyAnswered(retry) ==
  /\ phase = "askEmpty" /\ ~abort
  /\ IF retry
     THEN /\ item' = [Retried(item) EXCEPT !.counted = OneMore(item.made)]
          /\ phase' = "pop"
          /\ UNCHANGED <<hist, given>>
     ELSE /\ hist' = hist \o <<Message("user", item.contents), Message("assistant", {})>>
          /\ NextTurn
  /\ UNCHANGED <<background, resumed, attempt, abort, failures>>

BackoffStreamOver ==
  /\ phase = "backoffStream" /\ ~abort
  /\ phase' = "pop"
  /\ UNCHANGED <<background, resumed, item, attempt, hist, given, abort, failures>>

-----------------------------------------------------------------------------
(* abortTask closes the request in flight and rejects asks; countdowns and *)
(* the loop look at abort; what is prepared is still sent.                 *)

Abort ==
  /\ phase # "ended" /\ ~abort
  /\ abort' = TRUE
  /\ phase' = IF phase = "await" THEN "ended" ELSE phase
  /\ UNCHANGED <<background, resumed, item, attempt, hist, given, failures>>

NoticeAbortBetweenRequests ==
  /\ abort /\ phase \in {"pop", "backoff", "backoffStream"}
  /\ Ends
  /\ UNCHANGED <<background, resumed, item, attempt, hist, given, abort, failures>>

NoticeAbort ==
  /\ abort /\ phase \notin {"prepare", "send", "await", "ended"}
  /\ Ends
  /\ UNCHANGED <<background, resumed, item, attempt, hist, given, abort, failures>>

Outcome ==
  \/ FirstChunk \/ Answered
  \/ \E auto \in BOOLEAN :
       EmptyAnswer(auto) \/ \E kind \in Kinds : FirstChunkFails(kind, auto) \/ StreamFails(kind, auto)
Proceed == Pop \/ AddUserMessage \/ Send \/ BackoffOver \/ BackoffStreamOver \/ NoticeAbort
User ==
  \/ \E retry \in BOOLEAN :
       AskAnswered(retry) \/ AskStreamAnswered(retry) \/ AskEmptyAnswered(retry)
  \/ Abort

Next == Outcome \/ Proceed \/ User

Spec == Init /\ [][Next]_vars

(* The loop goes on by itself, and every request is answered, fails, or    *)
(* times out (getApiRequestTimeout).  The user need not answer.            *)
Fairness == WF_vars(Proceed) /\ WF_vars(Outcome)
FairSpec == Spec /\ Fairness
-----------------------------------------------------------------------------

TypeOK ==
  /\ background \in BOOLEAN /\ resumed \in BOOLEAN /\ abort \in BOOLEAN
  /\ phase \in {"pop", "prepare", "send", "await", "stream", "ask", "backoff", "askStream",
                "askEmpty", "backoffStream", "ended"}
  /\ item \in Items
  /\ attempt \in Tries
  /\ hist \in Seq(Messages)
  /\ given \in 1..MaxTurns /\ failures \in Nat

(* What the code keeps: a background task, whom nobody watches, does not   *)
(* fail for ever for another reason than 429.  It may fail more often than *)
(* its cap says, for each place where a request can fail has a count of    *)
(* its own: a retry of the loop has the retries before the first chunk     *)
(* that its own number leaves.                                             *)
FailuresBounded ==
  background => 2 * failures <= (MaxRetries + 1) * (MaxRetries + 2)

(* Types, and the bound on an unattended task's failures.                  *)
WellFormed == TypeOK /\ FailuresBounded

(* "In a mixed sequence a 429 retry does not count toward the cap: the     *)
(* task ends at the 7th failure that is not a 429"                         *)
(* (packages/core/src/backoff.ts, UNATTENDED_MAX_API_RETRIES).  Looked at  *)
(* where the last failure is one of the API, not an empty answer.          *)
EndsAtTheCap ==
  background /\ failures > MaxRetries /\ ~item.removed => phase = "ended"

Holding(c) == {i \in 1..Len(hist) : c \in hist[i].contents}

(* A request carries what the user and the tools said, each content in one *)
(* user message and in order, with the roles in turn, whatever requests    *)
(* failed before and however often messages were taken out and put back    *)
(* (of a resumed task: what came after the subtask's result).              *)
RequestsComplete ==
  phase = "await" =>
    /\ \A c \in (IF resumed THEN 2 ELSE 1)..given : \E i \in 1..Len(hist) : Holding(c) = {i}
    /\ \A c, d \in 1..given : \A i \in Holding(c), j \in Holding(d) : c < d => i < j
    /\ \A i \in 1..Len(hist) : hist[i].role = IF i % 2 = 1 THEN "user" ELSE "assistant"

(* The provider answers 429 only so often.                                 *)
LimitsCease ==
  <>[][\A auto \in BOOLEAN :
         ~FirstChunkFails("limited", auto) /\ ~StreamFails("limited", auto)]_vars

(* The loop ends once the task is aborted, wherever it is.  A background   *)
(* task may take any number of turns, and waits for as long as it gets     *)
(* 429s; but if these cease, each of its turns ends, with an answer or     *)
(* with the loop, however failures of other kinds mix.                     *)
LoopSettles ==
  /\ abort ~> (phase = "ended")
  /\ LimitsCease =>
       \A n \in 1..MaxTurns : (background /\ given = n) ~> (given > n \/ phase = "ended")

(* "The user message was popped above, so the retry re-adds it"            *)
(* (TaskApiLoop.ts, handleEmptyAssistantResponse).                         *)
ResultsSurviveRetries == phase = "await" => \E i \in 1..Len(hist) : 1 \in hist[i].contents
=============================================================================
