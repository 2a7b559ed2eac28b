-------------------------- MODULE SubagentSlotPool --------------------------
(***************************************************************************)
(* src/core/webview/SubagentSlotPool.ts: the pool that bounds how many     *)
(* parallel subagents run at once, over all run_parallel_tasks calls of a  *)
(* provider.                                                               *)
(*                                                                         *)
(* A Waiter makes one call of acquire at a time, and any number of calls   *)
(* one after the other.  The module runs on one JavaScript thread: a call  *)
(* runs grantFreeSlots to its end, and an AbortSignal runs every abort     *)
(* listener to its end, before any other call starts.  Both loops are kept *)
(* step by step (`scan` is the loop index i, from 1), and Quiescent guards *)
(* the entry of every call.                                                *)
(***************************************************************************)
EXTENDS Integers, Sequences, FiniteSets

CONSTANTS
  Waiter,        \* the callers of acquire
  Profile,       \* API profile names: profileKey
  FanOut,        \* run_parallel_tasks calls: fanOutKey, and their AbortSignal
  SlotRequests,  \* the requests callers pass
  Unset          \* profileLimit of a profile without maxConcurrentRequests

SlotRequest ==
  [globalLimit : Nat, profileKey : Profile, profileLimit : Nat \cup {Unset},
   fanOutKey : FanOut, fanOutLimit : Nat]

ASSUME PoolAssumption ==
  /\ IsFiniteSet(Waiter)
  /\ SlotRequests \subseteq SlotRequest
  /\ Unset \notin Nat

(* placeSubtasks refuses a profile with no slot left and                   *)
(* validateParallelParams bounds maxConcurrency from below.  Only progress *)
(* needs this.                                                             *)
ASSUME LimitsAssumption ==
  \A q \in SlotRequests :
    q.fanOutLimit >= 1 /\ (q.profileLimit = Unset \/ q.profileLimit >= 1)

VARIABLES
  phase,             \* "new", "waiting", "holding", "released" or "rejected"
  request,           \* the SlotRequest the call of each caller passes
  queue,             \* this.queue
  runningCount,      \* this.runningCount
  runningByProfile,  \* this.runningByProfile; a key that is absent counts 0
  runningByFanOut,   \* this.runningByFanOut; a key that is absent counts 0
  scan,              \* 0, or the index grantFreeSlots looks at
  aborted            \* the fan-outs whose AbortSignal has aborted

counts == <<runningCount, runningByProfile, runningByFanOut>>
vars == <<phase, request, queue, counts, scan, aborted>>

Phase == {"new", "waiting", "holding", "released", "rejected"}

Holders == {w \in Waiter : phase[w] = "holding"}
OnProfile(p) == {h \in Holders : request[h].profileKey = p}
InFanOut(f)  == {h \in Holders : request[h].fanOutKey = f}

GlobalCap(q) == IF q.globalLimit < 1 THEN 1 ELSE q.globalLimit

(* Faults of fits: one slot too many; no profile limit.                    *)
FitsOneTooMany(q) ==
  /\ runningCount <= GlobalCap(q)
  /\ runningByFanOut[q.fanOutKey] < q.fanOutLimit
  /\ q.profileLimit # Unset => runningByProfile[q.profileKey] < q.profileLimit

FitsAnyProfile(q) ==
  /\ runningCount < GlobalCap(q)
  /\ runningByFanOut[q.fanOutKey] < q.fanOutLimit

Fits(q) ==
  /\ runningCount < GlobalCap(q)
  /\ runningByFanOut[q.fanOutKey] < q.fanOutLimit
  /\ q.profileLimit # Unset => runningByProfile[q.profileKey] < q.profileLimit

(* The sequence s without its element at index i: splice(i, 1). *)
Splice(s, i) == [j \in 1 .. Len(s) - 1 |-> IF j < i THEN s[j] ELSE s[j + 1]]

(* Fault: an abort reaches the queued waiters later, not at once. *)
QuiescentTooEarly == scan = 0

(* No loop of the pool is under way: grantFreeSlots has ended, and so have *)
(* the abort listeners of every aborted signal.                            *)
Quiescent ==
  /\ scan = 0
  /\ \A i \in 1 .. Len(queue) : request[queue[i]].fanOutKey \notin aborted

Init ==
  /\ phase = [w \in Waiter |-> "new"]
  /\ request \in [Waiter -> SlotRequests]
  /\ queue = <<>>
  /\ runningCount = 0
  /\ runningByProfile = [p \in Profile |-> 0]
  /\ runningByFanOut = [f \in FanOut |-> 0]
  /\ scan = 0
  /\ aborted = {}

-----------------------------------------------------------------------------
(* acquire: a signal that has aborted rejects at once; otherwise the       *)
(* waiter joins the queue and grantFreeSlots starts.                       *)

RejectAtOnce(w) ==
  /\ Quiescent
  /\ phase[w] = "new"
  /\ request[w].fanOutKey \in aborted
  /\ phase' = [phase EXCEPT ![w] = "rejected"]
  /\ UNCHANGED <<request, queue, counts, scan, aborted>>

Acquire(w) ==
  /\ Quiescent
  /\ phase[w] = "new"
  /\ request[w].fanOutKey \notin aborted
  /\ phase' = [phase EXCEPT ![w] = "waiting"]
  /\ queue' = Append(queue, w)
  /\ scan' = 1
  /\ UNCHANGED <<request, counts, aborted>>

(* take(request, delta) *)
Take(q, delta) ==
  /\ runningCount' = runningCount + delta
  /\ runningByProfile' = [runningByProfile EXCEPT ![q.profileKey] = @ + delta]
  /\ runningByFanOut' = [runningByFanOut EXCEPT ![q.fanOutKey] = @ + delta]

(* One turn of the loop of grantFreeSlots.  The index stays where it is    *)
(* when the waiter is granted: its successor has moved there.              *)
GrantSlot ==
  /\ scan \in 1 .. Len(queue)
  /\ Fits(request[queue[scan]])
  /\ Take(request[queue[scan]], 1)
  /\ phase' = [phase EXCEPT ![queue[scan]] = "holding"]
  /\ queue' = Splice(queue, scan)
  /\ UNCHANGED <<request, scan, aborted>>

SkipWaiter ==
  /\ scan \in 1 .. Len(queue)
  /\ ~Fits(request[queue[scan]])
  /\ scan' = scan + 1
  /\ UNCHANGED <<phase, request, queue, counts, aborted>>

EndScan ==
  /\ scan > Len(queue)
  /\ scan' = 0
  /\ UNCHANGED <<phase, request, queue, counts, aborted>>

(* Faults of the release function: no waiter is looked for; the newest     *)
(* waiter is looked at first.                                              *)
ReleaseOnly(w) ==
  /\ Quiescent
  /\ phase[w] = "holding"
  /\ Take(request[w], -1)
  /\ phase' = [phase EXCEPT ![w] = "released"]
  /\ UNCHANGED <<request, queue, scan, aborted>>

ReleaseToNewest(w) ==
  /\ Quiescent
  /\ phase[w] = "holding"
  /\ Take(request[w], -1)
  /\ phase' = [phase EXCEPT ![w] = "released"]
  /\ scan' = IF queue = <<>> THEN 1 ELSE Len(queue)
  /\ UNCHANGED <<request, queue, aborted>>

(* The function acquire resolved with: the first call gives the slot back  *)
(* and looks for waiters that fit now, a later call does nothing.          *)
Release(w) ==
  /\ Quiescent
  /\ phase[w] = "holding"
  /\ Take(request[w], -1)
  /\ phase' = [phase EXCEPT ![w] = "released"]
  /\ scan' = 1
  /\ UNCHANGED <<request, queue, aborted>>

ReleaseAgain(w) ==
  /\ Quiescent
  /\ phase[w] = "released"
  /\ UNCHANGED vars

(* The caller calls once more: the next subtask, of this or of a later     *)
(* run_parallel_tasks call, with the limits that are set by then.          *)
CallAgain(w) ==
  /\ phase[w] \in {"released", "rejected"}
  /\ phase' = [phase EXCEPT ![w] = "new"]
  /\ \E q \in SlotRequests : request' = [request EXCEPT ![w] = q]
  /\ UNCHANGED <<queue, counts, scan, aborted>>

(* The AbortController of fan-out f aborts its signal ... *)
AbortFanOut(f) ==
  /\ Quiescent
  /\ f \notin aborted
  /\ aborted' = aborted \cup {f}
  /\ UNCHANGED <<phase, request, queue, counts, scan>>

(* Fault: the aborted call is rejected, but stays in the queue. *)
OnAbortKeepsWaiter(i) ==
  /\ scan = 0
  /\ request[queue[i]].fanOutKey \in aborted
  /\ phase' = [phase EXCEPT ![queue[i]] = "rejected"]
  /\ UNCHANGED <<request, queue, counts, scan, aborted>>

(* ... and the onAbort listener of each of its queued waiters runs. *)
OnAbort(i) ==
  /\ scan = 0
  /\ request[queue[i]].fanOutKey \in aborted
  /\ phase' = [phase EXCEPT ![queue[i]] = "rejected"]
  /\ queue' = Splice(queue, i)
  /\ UNCHANGED <<request, counts, scan, aborted>>

Next ==
  \/ \E w \in Waiter :
       \/ RejectAtOnce(w) \/ Acquire(w) \/ Release(w) \/ ReleaseAgain(w)
       \/ CallAgain(w)
  \/ GrantSlot \/ SkipWaiter \/ EndScan
  \/ \E f \in FanOut : AbortFanOut(f)
  \/ \E i \in 1 .. Len(queue) : OnAbort(i)

Spec == Init /\ [][Next]_vars

(* A loop that has started runs to its end.  Nothing is assumed of the     *)
(* callers: whether holders end is a premise of EveryWaiterServed.         *)
Fairness ==
  /\ WF_vars(GrantSlot \/ SkipWaiter \/ EndScan)
  /\ WF_vars(\E i \in 1 .. Len(queue) : OnAbort(i))

FairSpec == Spec /\ Fairness
-----------------------------------------------------------------------------

(* Every variable has its type; in particular no counter is ever below 0.  *)
TypeOK ==
  /\ phase \in [Waiter -> Phase]
  /\ request \in [Waiter -> SlotRequests]
  /\ queue \in Seq(Waiter)
  /\ runningCount \in Nat
  /\ runningByProfile \in [Profile -> Nat]
  /\ runningByFanOut \in [FanOut -> Nat]
  /\ scan \in Nat
  /\ aborted \subseteq FanOut

(* The queue holds exactly the calls that wait, each once: no call is lost *)
(* in it after an abort, and none is granted twice.                        *)
QueueIsWaiters ==
  /\ \A i \in 1 .. Len(queue) : phase[queue[i]] = "waiting"
  /\ \A i, j \in 1 .. Len(queue) : queue[i] = queue[j] => i = j
  /\ \A w \in Waiter :
       phase[w] = "waiting" => \E i \in 1 .. Len(queue) : queue[i] = w

(* The three kinds of counter agree with the subagents that hold a slot,   *)
(* although every grant and release updates them one by one.               *)
CountsMatchHolders ==
  /\ runningCount = Cardinality(Holders)
  /\ \A p \in Profile : runningByProfile[p] = Cardinality(OnProfile(p))
  /\ \A f \in FanOut : runningByFanOut[f] = Cardinality(InFanOut(f))

(* The books of the pool agree with each other in every state: queue,      *)
(* phases and the three kinds of counter, each updated on its own by       *)
(* acquire, the grant scan, releases and aborts.                           *)
BookInv == TypeOK /\ QueueIsWaiters /\ CountsMatchHolders

(* Limits are read when a fan-out starts, so holders may carry different   *)
(* ones.  Whatever the order of grants and releases, the holders whose own *)
(* limit is at most L are never more than L: a fan-out started under a     *)
(* lower cap is never overrun by its own kind.                             *)
GlobalLimitHolds ==
  \A q \in SlotRequests :
    Cardinality({h \in Holders : GlobalCap(request[h]) <= GlobalCap(q)})
      <= GlobalCap(q)

(* The same for the holders of one profile that carry a profile limit.     *)
ProfileLimitHolds ==
  \A q \in SlotRequests :
    q.profileLimit # Unset =>
      Cardinality({h \in OnProfile(q.profileKey) :
                     /\ request[h].profileLimit # Unset
                     /\ request[h].profileLimit <= q.profileLimit})
        <= q.profileLimit

(* The same for the holders of one run_parallel_tasks call. *)
FanOutLimitHolds ==
  \A q \in SlotRequests :
    Cardinality({h \in InFanOut(q.fanOutKey) :
                   request[h].fanOutLimit <= q.fanOutLimit})
      <= q.fanOutLimit

(* All three limits: provider-wide, per profile and per call (fits). *)
LimitsHold == GlobalLimitHolds /\ ProfileLimitHolds /\ FanOutLimitHolds

(* A free slot is never left idle: between two calls no queued waiter fits.*)
NoIdleSlot ==
  Quiescent => \A i \in 1 .. Len(queue) : ~Fits(request[queue[i]])

(* First in, first out among those that fit: when a waiter is granted, no  *)
(* waiter that stands before it in the queue fits.                         *)
FirstFittingServed ==
  [][\A i \in 1 .. Len(queue) :
       phase[queue[i]] = "waiting" /\ phase'[queue[i]] = "holding"
         => \A j \in 1 .. i - 1 : ~Fits(request[queue[j]])]_vars

(* A fan-out that was aborted starts no further subagent. *)
AbortedNeverGranted ==
  [][\A w \in Waiter :
       phase[w] # "holding" /\ phase'[w] = "holding"
         => request[w].fanOutKey \notin aborted]_vars

(* Every holder gives its slot back at some time. *)
HoldersEnd == \A w \in Waiter : []<>(phase[w] # "holding")

(* From some time on nobody calls acquire. *)
CallsStop == <>[][\A w \in Waiter : ~Acquire(w)]_vars

(* Whatever fits another request fits this one as well: no limit of its    *)
(* own binds below the highest provider-wide limit in use.                 *)
Unbeatable(q) ==
  /\ \A r \in SlotRequests : GlobalCap(r) <= GlobalCap(q)
  /\ q.fanOutLimit >= GlobalCap(q)
  /\ q.profileLimit = Unset

(* If every holder gives its slot back at some time, then a call that      *)
(* waits is served or rejected in the end, provided that the stream of new *)
(* calls ends, and without that proviso when no limit of its request is    *)
(* below those of others.  A waiter with a lower limit may starve under a  *)
(* stream of calls that fit where it does not: the scan skips it each time.*)
EveryWaiterServed ==
  HoldersEnd =>
    \A w \in Waiter :
      /\ CallsStop => (phase[w] = "waiting" ~> phase[w] # "waiting")
      /\ phase[w] = "waiting" /\ Unbeatable(request[w]) ~> phase[w] # "waiting"

(* The pool implements the abstract allocation. *)
Allocation == INSTANCE SlotAllocation
AllocationSpec == Allocation!Spec
=============================================================================
