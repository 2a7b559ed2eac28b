----------------------------- MODULE RetryQueue -----------------------------
(***************************************************************************)
(* The queue of cloud requests that failed and are sent again: a cycle of  *)
(* retryAll, whose requests are answered one at a time while others are    *)
(* queued and the user signs in and out, which pauses or clears the queue; *)
(* the copy in the workspace storage; and the restarts that load it.       *)
(*                                                                         *)
(* Requests are numbered in the order they were queued, that of their      *)
(* timestamps.  Time is abstracted: a back-off (nextAttemptAt) or a rate   *)
(* limit (queuePausedUntil) lasts until it elapses.                        *)
(***************************************************************************)
EXTENDS Naturals, FiniteSets, SequencesExt

CONSTANTS MaxRetries,    \* 0 means unlimited
          MaxQueueSize,
          User, NoUser,  \* the users who sign in; undefined
          MaxRequests,   \* bounds: how many requests are queued, and how
          MaxEvents      \* often, in all, the auth state changes, the
                         \* storage refuses a write and the host ends

ASSUME RetryQueueAssumption ==
  /\ MaxRetries \in Nat /\ MaxQueueSize \in Nat \ {0}
  /\ MaxRequests \in Nat /\ MaxEvents \in Nat
  /\ NoUser \notin User

VARIABLES
  queue,      \* the queued requests, in the order of the Map
  count,      \* retryCount of each
  waiting,    \* those whose nextAttemptAt lies ahead
  cycle,      \* retryAll: "no", "sending" or "saving"
  due,        \* the requests of the cycle not answered; the first is sent
  limited,    \* queuePausedUntil lies ahead
  paused, currentUser, hadUser,
  stored,     \* the queue as the storage holds it
  made, changes, restarts, failures,  \* the bounded counters
  attempts,   \* failed attempts of each request, over all restarts
  dropped     \* the requests that were evicted or cleared

auth == <<paused, currentUser, hadUser>>
world == <<made, changes, restarts>>
storage == <<stored, failures>>
vars == <<queue, count, waiting, cycle, due, limited, auth, storage, world,
          attempts, dropped>>

Request == 1 .. MaxRequests
Queued == ToSet(queue)
EventsLeft == changes + restarts + failures < MaxEvents
Snapshot(q, c, w) ==
  [queue |-> q, count |-> [r \in ToSet(q) |-> c[r]], waiting |-> w \cap ToSet(q)]

(* persistQueue: storage.update with the queue as it is now; a refusal is  *)
(* only logged.                                                            *)
Persist ==
  \/ stored' = Snapshot(queue', count', waiting') /\ UNCHANGED failures
  \/ EventsLeft /\ failures' = failures + 1 /\ UNCHANGED stored

(* queue.set: a known id keeps its place, another one goes to the end.     *)
SetInMap(r) == IF r \in Queued THEN queue ELSE Append(queue, r)
DeleteFromMap(r) ==
  IF r \in Queued THEN RemoveAt(queue, CHOOSE i \in 1 .. Len(queue) : queue[i] = r)
                  ELSE queue

Init ==
  /\ queue = <<>> /\ count = [r \in Request |-> 0] /\ waiting = {}
  /\ cycle = "no" /\ due = {} /\ limited = FALSE
  /\ paused = FALSE /\ currentUser = NoUser /\ hadUser = FALSE
  /\ stored = Snapshot(<<>>, count, {}) /\ failures = 0
  /\ made = 0 /\ changes = 0 /\ restarts = 0
  /\ attempts = [r \in Request |-> 0] /\ dropped = {}
-----------------------------------------------------------------------------

(* Fault: the storage gets the queue as it was before. *)
EnqueueUnsaved ==
  /\ made < MaxRequests /\ Len(queue) < MaxQueueSize
  /\ made' = made + 1
  /\ queue' = Append(queue, made')
  /\ stored' = Snapshot(queue, count, waiting)
  /\ UNCHANGED <<count, waiting, cycle, due, limited, auth, failures, changes,
                 restarts, attempts, dropped>>

(* A full queue loses its first request, then the new one is added.        *)
Enqueue ==
  LET evicted == IF Len(queue) >= MaxQueueSize THEN {Head(queue)} ELSE {}
  IN /\ made < MaxRequests
     /\ made' = made + 1
     /\ queue' = Append(IF evicted = {} THEN queue ELSE Tail(queue), made')
     /\ dropped' = dropped \cup evicted
     /\ UNCHANGED <<count, waiting, cycle, due, limited, auth, changes, restarts,
                    attempts>>
     /\ Persist

(* The timer calls retryAll; requests in their own back-off are not due.   *)
StartCycle ==
  /\ cycle = "no" /\ ~paused /\ ~limited
  /\ Queued \ waiting # {}
  /\ cycle' = "sending"
  /\ due' = Queued \ waiting
  /\ UNCHANGED <<queue, count, waiting, limited, auth, storage, world, attempts,
                 dropped>>

(* The request in flight: the oldest of those not answered. *)
InFlight(r) == r \in due /\ \A x \in due : r <= x

(* The cycle sends its next request, or ends by saving the queue.          *)
Continue(rest) ==
  /\ due' = rest
  /\ IF rest = {} THEN cycle' = "saving" /\ Persist
                  ELSE UNCHANGED <<cycle, storage>>

(* Delivered or refused for good: 2xx, 4xx, or a 429 without Retry-After.  *)
(* Its count goes with it.                                                 *)
Settled(r) ==
  /\ InFlight(r)
  /\ queue' = DeleteFromMap(r)
  /\ count' = [count EXCEPT ![r] = 0]
  /\ UNCHANGED <<waiting, limited, auth, world, attempts, dropped>>
  /\ Continue(due \ {r})

(* A 429 with Retry-After pauses the whole queue and ends the cycle.       *)
RateLimited(r) ==
  /\ InFlight(r)
  /\ limited' = TRUE
  /\ queue' = SetInMap(r)
  /\ UNCHANGED <<count, waiting, auth, world, attempts, dropped>>
  /\ Continue({})

(* Fault: one attempt too many. *)
FailedOnceMore(r) ==
  /\ InFlight(r)
  /\ count' = [count EXCEPT ![r] = @ + 1]
  /\ attempts' = [attempts EXCEPT ![r] = @ + 1]
  /\ IF MaxRetries > 0 /\ count[r] >= MaxRetries
     THEN queue' = DeleteFromMap(r) /\ UNCHANGED waiting
     ELSE queue' = SetInMap(r) /\ waiting' = waiting \cup {r}
  /\ UNCHANGED <<limited, auth, world, dropped>>
  /\ Continue(due \ {r})

(* A server error, a network error or the timeout: the request backs off,  *)
(* or has been tried often enough.                                         *)
Failed(r) ==
  /\ InFlight(r)
  /\ count' = [count EXCEPT ![r] = @ + 1]
  /\ attempts' = [attempts EXCEPT ![r] = @ + 1]
  /\ IF MaxRetries > 0 /\ count'[r] >= MaxRetries
     THEN queue' = DeleteFromMap(r) /\ UNCHANGED waiting
     ELSE queue' = SetInMap(r) /\ waiting' = waiting \cup {r}
  /\ UNCHANGED <<limited, auth, world, dropped>>
  /\ Continue(due \ {r})

Answered(r) == Settled(r) \/ RateLimited(r) \/ Failed(r)

(* Fault: isProcessing is only reset when nothing is left. *)
EndCycleWhenEmpty ==
  /\ cycle = "saving" /\ queue = <<>>
  /\ cycle' = "no"
  /\ UNCHANGED <<queue, count, waiting, due, limited, auth, storage, world,
                 attempts, dropped>>

(* The write is done: isProcessing is reset. *)
EndCycle ==
  /\ cycle = "saving"
  /\ cycle' = "no"
  /\ UNCHANGED <<queue, count, waiting, due, limited, auth, storage, world,
                 attempts, dropped>>

BackoffElapses(r) ==
  /\ r \in waiting
  /\ waiting' = waiting \ {r}
  /\ UNCHANGED <<queue, count, cycle, due, limited, auth, storage, world,
                 attempts, dropped>>

LimitElapses ==
  /\ limited
  /\ limited' = FALSE
  /\ UNCHANGED <<queue, count, waiting, cycle, due, auth, storage, world,
                 attempts, dropped>>
-----------------------------------------------------------------------------

Clear ==
  /\ queue' = <<>>
  /\ dropped' = dropped \cup Queued
  /\ Persist

Keep == UNCHANGED <<queue, dropped, storage>>

AuthChanges ==
  /\ EventsLeft
  /\ changes' = changes + 1
  /\ UNCHANGED <<count, waiting, cycle, due, limited, made, restarts, attempts>>

(* "active-session": clearIfUserChanged, then resume.  The first user ever *)
(* keeps the queue, also one loaded from the storage.                      *)
SignIn(u) ==
  /\ AuthChanges
  /\ paused' = FALSE
  /\ currentUser' = u
  /\ hadUser' = (hadUser \/ u # NoUser)
  /\ IF currentUser = u \/ (~hadUser /\ u # NoUser) THEN Keep ELSE Clear

(* "logged-out": clear, clearIfUserChanged(undefined), pause. *)
SignOut ==
  /\ AuthChanges
  /\ paused' = TRUE
  /\ currentUser' = NoUser
  /\ UNCHANGED hadUser
  /\ Clear

(* "initializing", "attempting-session", "inactive-session". *)
SuspendSession ==
  /\ AuthChanges
  /\ paused' = TRUE
  /\ UNCHANGED <<currentUser, hadUser>>
  /\ Keep

(* The host ends; the next one loads what the storage holds.               *)
Restart ==
  /\ EventsLeft
  /\ restarts' = restarts + 1
  /\ queue' = stored.queue
  /\ count' = [r \in Request |-> IF r \in ToSet(queue') THEN stored.count[r] ELSE 0]
  /\ waiting' = waiting \cap stored.waiting
  /\ cycle' = "no" /\ due' = {} /\ limited' = FALSE
  /\ paused' = FALSE /\ currentUser' = NoUser /\ hadUser' = FALSE
  /\ UNCHANGED <<storage, made, changes, attempts, dropped>>

Next ==
  \/ Enqueue \/ StartCycle \/ EndCycle \/ LimitElapses
  \/ \E r \in Request : Answered(r) \/ BackoffElapses(r)
  \/ \E u \in User \cup {NoUser} : SignIn(u)
  \/ SignOut \/ SuspendSession \/ Restart

Spec == Init /\ [][Next]_vars

(* The timer fires, a request is answered or times out, a storage write    *)
(* ends and time passes.                                                   *)
Fairness ==
  /\ WF_vars(StartCycle) /\ WF_vars(EndCycle) /\ WF_vars(LimitElapses)
  /\ \A r \in Request : WF_vars(Answered(r)) /\ WF_vars(BackoffElapses(r))

FairSpec == Spec /\ Fairness
-----------------------------------------------------------------------------

(* Types; no request is queued twice, and a cycle sends until all its      *)
(* requests are answered.                                                  *)
TypeOK ==
  /\ queue \in Seq(Request) /\ IsInjective(queue)
  /\ count \in [Request -> Nat] /\ attempts \in [Request -> Nat]
  /\ waiting \subseteq Request /\ due \subseteq Request /\ dropped \subseteq Request
  /\ cycle \in {"no", "sending", "saving"} /\ (cycle = "sending" <=> due # {})
  /\ limited \in BOOLEAN /\ paused \in BOOLEAN /\ hadUser \in BOOLEAN
  /\ currentUser \in User \cup {NoUser}
  /\ stored.queue \in Seq(Request) /\ stored.waiting \subseteq ToSet(stored.queue)
  /\ stored.count \in [ToSet(stored.queue) -> Nat]
  /\ made \in 0 .. MaxRequests /\ changes \in 0 .. MaxEvents
  /\ restarts \in 0 .. MaxEvents /\ failures \in 0 .. MaxEvents

(* A failing request is given up after maxRetries attempts, although it    *)
(* may be evicted or cleared in flight and put back by its own cycle; a    *)
(* restart or a refused write forgets at most one attempt.                 *)
AttemptsBounded ==
  MaxRetries > 0 =>
    \A r \in Request : attempts[r] <= MaxRetries + restarts + failures

(* As long as the storage takes every write, a restart loses no request:   *)
(* each one still queued is stored, unless it was dropped in flight, and   *)
(* between two cycles the storage holds exactly the queue.                 *)
StorageFollowsQueue ==
  failures = 0 =>
    /\ Queued \ dropped \subseteq ToSet(stored.queue)
    /\ cycle # "sending" =>
         stored.queue = queue /\ \A r \in Queued : stored.count[r] = count[r]

(* The state is well formed, and the storage follows the queue. *)
WellFormed == TypeOK /\ StorageFollowsQueue

(* When the queue is neither paused nor limited for ever, every request is *)
(* delivered or given up: none starves behind one that fails or backs off. *)
QueueDrains ==
  MaxRetries > 0 /\ <>[](~paused /\ ~limited) => <>[](queue = <<>>)
=============================================================================
