----------------------- MODULE SubagentSlotPoolProofs -----------------------
(***************************************************************************)
(* Proofs about SubagentSlotPool, for every set of callers and requests.   *)
(***************************************************************************)
EXTENDS SubagentSlotPool, FiniteSetTheorems, TLAPS

(* BookInv is inductive as it stands, its parts are not: TypeOK needs the  *)
(* counters to match the holders (a counter is lowered only for a holder), *)
(* and that needs the queue to hold waiting calls only.                    *)

-----------------------------------------------------------------------------
(* Splice removes one element and keeps the order of the others. *)
LEMMA SpliceSeq ==
  ASSUME NEW S, NEW s \in Seq(S), NEW i \in 1 .. Len(s)
  PROVE  /\ Splice(s, i) \in Seq(S)
         /\ Len(Splice(s, i)) = Len(s) - 1
         /\ \A j \in 1 .. Len(s) - 1 :
              Splice(s, i)[j] = IF j < i THEN s[j] ELSE s[j + 1]
BY DEF Splice

(* Removing an entry of the queue keeps it a queue of the waiting calls,   *)
(* when the call at that entry stops waiting.                              *)
LEMMA SpliceQueue ==
  ASSUME TypeOK, QueueIsWaiters, NEW i \in 1 .. Len(queue), NEW p \in Phase,
         p # "waiting", queue' = Splice(queue, i),
         phase' = [phase EXCEPT ![queue[i]] = p]
  PROVE  QueueIsWaiters'
<1> DEFINE w == queue[i]
<1>1. /\ queue \in Seq(Waiter) /\ w \in Waiter
      /\ phase \in [Waiter -> Phase]
      /\ Len(queue) \in Nat
  BY DEF TypeOK
<1>2. /\ Len(queue') = Len(queue) - 1
      /\ \A j \in 1 .. Len(queue) - 1 :
           queue'[j] = IF j < i THEN queue[j] ELSE queue[j + 1]
  BY <1>1, SpliceSeq
<1>3. \A j \in 1 .. Len(queue) - 1 : queue'[j] \in Waiter /\ queue'[j] # w
  BY <1>1, <1>2 DEF QueueIsWaiters
<1>4. \A j \in 1 .. Len(queue') : phase'[queue'[j]] = "waiting"
  <2>1. SUFFICES ASSUME NEW j \in 1 .. Len(queue) - 1
                 PROVE  phase'[queue'[j]] = "waiting"
    BY <1>2
  <2>2. phase'[queue'[j]] = phase[queue'[j]]
    BY <1>1, <1>3
  <2>3. \E k \in 1 .. Len(queue) : queue'[j] = queue[k]
    BY <1>1, <1>2
  <2> QED BY <2>2, <2>3 DEF QueueIsWaiters
<1>5. \A j, k \in 1 .. Len(queue') : queue'[j] = queue'[k] => j = k
  BY <1>1, <1>2 DEF QueueIsWaiters
<1>6. ASSUME NEW v \in Waiter, phase'[v] = "waiting"
      PROVE  \E j \in 1 .. Len(queue') : queue'[j] = v
  <2>1. v # w /\ phase[v] = "waiting"
    BY <1>1, <1>6
  <2>2. PICK k \in 1 .. Len(queue) : queue[k] = v
    BY <2>1 DEF QueueIsWaiters
  <2>3. k # i
    BY <2>1, <2>2
  <2>4. CASE k < i
    BY <1>1, <1>2, <2>2, <2>4
  <2>5. CASE k > i
    <3>1. k - 1 \in 1 .. Len(queue') /\ queue'[k - 1] = v
      BY <1>1, <1>2, <2>2, <2>5
    <3> QED BY <3>1
  <2> QED BY <2>2, <2>3, <2>4, <2>5
<1> QED BY <1>4, <1>5, <1>6 DEF QueueIsWaiters

-----------------------------------------------------------------------------
(* Granting a slot to w adds w to the holders, to those of its profile and *)
(* to those of its fan-out, and to no others.                              *)
LEMMA GrantHolders ==
  ASSUME TypeOK, NEW w \in Waiter, phase[w] # "holding", request' = request,
         phase' = [phase EXCEPT ![w] = "holding"]
  PROVE  /\ w \notin Holders
         /\ Holders' = Holders \cup {w}
         /\ \A p : OnProfile(p)' =
              IF request[w].profileKey = p THEN OnProfile(p) \cup {w} ELSE OnProfile(p)
         /\ \A f : InFanOut(f)' =
              IF request[w].fanOutKey = f THEN InFanOut(f) \cup {w} ELSE InFanOut(f)
BY DEF TypeOK, Holders, OnProfile, InFanOut

(* The release of w takes it out of the same sets. *)
LEMMA ReleaseHolders ==
  ASSUME TypeOK, NEW w \in Waiter, phase[w] = "holding", request' = request,
         phase' = [phase EXCEPT ![w] = "released"]
  PROVE  /\ w \in Holders
         /\ Holders' = Holders \ {w}
         /\ \A p : OnProfile(p)' =
              IF request[w].profileKey = p THEN OnProfile(p) \ {w} ELSE OnProfile(p)
         /\ \A f : InFanOut(f)' =
              IF request[w].fanOutKey = f THEN InFanOut(f) \ {w} ELSE InFanOut(f)
BY DEF TypeOK, Holders, OnProfile, InFanOut

(* A step between two phases other than "holding" keeps the holders. *)
LEMMA SameHolders ==
  ASSUME TypeOK, NEW w \in Waiter, NEW p \in Phase, p # "holding",
         phase[w] # "holding", request' = request,
         phase' = [phase EXCEPT ![w] = p]
  PROVE  /\ Holders' = Holders
         /\ \A q : OnProfile(q)' = OnProfile(q)
         /\ \A f : InFanOut(f)' = InFanOut(f)
BY DEF TypeOK, Holders, OnProfile, InFanOut

(* The next call of a caller that holds no slot, with whatever request,    *)
(* keeps the holders and what they asked for.                              *)
LEMMA AgainHolders ==
  ASSUME TypeOK, NEW w \in Waiter, CallAgain(w)
  PROVE  /\ Holders' = Holders /\ w \notin Holders
         /\ \A h \in Waiter : h # w => request'[h] = request[h]
         /\ \A q : OnProfile(q)' = OnProfile(q)
         /\ \A f : InFanOut(f)' = InFanOut(f)
<1>1. /\ phase[w] \in {"released", "rejected"}
      /\ phase' = [phase EXCEPT ![w] = "new"]
      /\ phase \in [Waiter -> Phase]
  BY DEF CallAgain, TypeOK
<1>2. Holders' = Holders /\ w \notin Holders
  BY <1>1 DEF Holders
<1>3. \A h \in Waiter : h # w => request'[h] = request[h]
  BY DEF CallAgain, TypeOK
<1>4. \A h \in Holders : request'[h] = request[h]
  BY <1>2, <1>3 DEF Holders
<1> QED BY <1>2, <1>3, <1>4 DEF OnProfile, InFanOut

LEMMA FrameHolders ==
  ASSUME phase' = phase, request' = request
  PROVE  /\ Holders' = Holders
         /\ \A q : OnProfile(q)' = OnProfile(q)
         /\ \A f : InFanOut(f)' = InFanOut(f)
BY DEF Holders, OnProfile, InFanOut

(* The sets that are counted are finite. *)
LEMMA HoldersFinite ==
  /\ IsFiniteSet(Holders)
  /\ \A p : IsFiniteSet(OnProfile(p))
  /\ \A f : IsFiniteSet(InFanOut(f))
<1>1. IsFiniteSet(Waiter) BY PoolAssumption
<1>2. Holders \subseteq Waiter /\ (\A p : OnProfile(p) \subseteq Waiter)
      /\ (\A f : InFanOut(f) \subseteq Waiter)
  BY DEF Holders, OnProfile, InFanOut
<1> QED BY <1>1, <1>2, FS_Subset

(* The fields of a request have their types. *)
LEMMA RequestFields ==
  ASSUME TypeOK, NEW w \in Waiter
  PROVE  /\ request[w] \in SlotRequests
         /\ request[w].profileKey \in Profile
         /\ request[w].fanOutKey \in FanOut
         /\ request[w].globalLimit \in Nat
         /\ request[w].fanOutLimit \in Nat
         /\ request[w].profileLimit \in Nat \cup {Unset}
BY PoolAssumption DEF TypeOK, SlotRequest

-----------------------------------------------------------------------------
(* A grant moves the three counters with the sets they count. *)
LEMMA GrantCounts ==
  ASSUME TypeOK, CountsMatchHolders, NEW w \in Waiter, NEW q, q = request[w],
         phase[w] # "holding", request' = request,
         phase' = [phase EXCEPT ![w] = "holding"], Take(q, 1)
  PROVE  /\ runningCount' \in Nat
         /\ runningByProfile' \in [Profile -> Nat]
         /\ runningByFanOut' \in [FanOut -> Nat]
         /\ CountsMatchHolders'
<1>1. q.profileKey \in Profile /\ q.fanOutKey \in FanOut
  BY RequestFields
<1>2. /\ w \notin Holders
      /\ Holders' = Holders \cup {w}
      /\ \A p : OnProfile(p)' = IF q.profileKey = p THEN OnProfile(p) \cup {w} ELSE OnProfile(p)
      /\ \A f : InFanOut(f)' = IF q.fanOutKey = f THEN InFanOut(f) \cup {w} ELSE InFanOut(f)
  BY GrantHolders
<1>3. \A p, f : w \notin OnProfile(p) /\ w \notin InFanOut(f)
  BY <1>2 DEF OnProfile, InFanOut
<1>4. /\ runningCount' \in Nat
      /\ runningByProfile' \in [Profile -> Nat]
      /\ runningByFanOut' \in [FanOut -> Nat]
  BY <1>1 DEF Take, TypeOK
<1>5. runningCount' = Cardinality(Holders')
  BY <1>2, HoldersFinite, FS_AddElement DEF Take, CountsMatchHolders
<1>6. ASSUME NEW p \in Profile
      PROVE  runningByProfile'[p] = Cardinality(OnProfile(p)')
  <2>1. Cardinality(OnProfile(p) \cup {w}) = Cardinality(OnProfile(p)) + 1
    BY <1>3, HoldersFinite, FS_AddElement
  <2> QED BY <1>1, <1>2, <2>1 DEF Take, TypeOK, CountsMatchHolders
<1>7. ASSUME NEW f \in FanOut
      PROVE  runningByFanOut'[f] = Cardinality(InFanOut(f)')
  <2>1. Cardinality(InFanOut(f) \cup {w}) = Cardinality(InFanOut(f)) + 1
    BY <1>3, HoldersFinite, FS_AddElement
  <2> QED BY <1>1, <1>2, <2>1 DEF Take, TypeOK, CountsMatchHolders
<1> QED BY <1>4, <1>5, <1>6, <1>7 DEF CountsMatchHolders

(* So does a release; and no counter is at 0 while there is a holder. *)
LEMMA ReleaseCounts ==
  ASSUME TypeOK, CountsMatchHolders, NEW w \in Waiter, NEW q, q = request[w],
         phase[w] = "holding", request' = request,
         phase' = [phase EXCEPT ![w] = "released"], Take(q, -1)
  PROVE  /\ runningCount' \in Nat
         /\ runningByProfile' \in [Profile -> Nat]
         /\ runningByFanOut' \in [FanOut -> Nat]
         /\ CountsMatchHolders'
<1>1. q.profileKey \in Profile /\ q.fanOutKey \in FanOut
  BY RequestFields
<1>2. /\ w \in Holders
      /\ Holders' = Holders \ {w}
      /\ \A p : OnProfile(p)' = IF q.profileKey = p THEN OnProfile(p) \ {w} ELSE OnProfile(p)
      /\ \A f : InFanOut(f)' = IF q.fanOutKey = f THEN InFanOut(f) \ {w} ELSE InFanOut(f)
  BY ReleaseHolders
<1>3. w \in OnProfile(q.profileKey) /\ w \in InFanOut(q.fanOutKey)
  BY <1>2 DEF OnProfile, InFanOut
<1>4. runningCount' = Cardinality(Holders')
  BY <1>2, HoldersFinite, FS_RemoveElement DEF Take, CountsMatchHolders
<1>5. ASSUME NEW p \in Profile
      PROVE  runningByProfile'[p] = Cardinality(OnProfile(p)')
  <2>1. w \in OnProfile(p) =>
          Cardinality(OnProfile(p) \ {w}) = Cardinality(OnProfile(p)) - 1
    BY HoldersFinite, FS_RemoveElement
  <2> QED BY <1>1, <1>2, <1>3, <2>1 DEF Take, TypeOK, CountsMatchHolders
<1>6. ASSUME NEW f \in FanOut
      PROVE  runningByFanOut'[f] = Cardinality(InFanOut(f)')
  <2>1. w \in InFanOut(f) =>
          Cardinality(InFanOut(f) \ {w}) = Cardinality(InFanOut(f)) - 1
    BY HoldersFinite, FS_RemoveElement
  <2> QED BY <1>1, <1>2, <1>3, <2>1 DEF Take, TypeOK, CountsMatchHolders
<1>7. /\ Cardinality(Holders') \in Nat
      /\ Cardinality(OnProfile(q.profileKey) \ {w}) \in Nat
      /\ Cardinality(InFanOut(q.fanOutKey) \ {w}) \in Nat
  BY <1>2, HoldersFinite, FS_RemoveElement, FS_CardinalityType
<1>8. /\ runningCount' \in Nat
      /\ runningByProfile'[q.profileKey] \in Nat
      /\ runningByFanOut'[q.fanOutKey] \in Nat
  BY <1>1, <1>2, <1>4, <1>5, <1>6, <1>7
<1>9. runningByProfile' \in [Profile -> Nat] /\ runningByFanOut' \in [FanOut -> Nat]
  BY <1>1, <1>8 DEF Take, TypeOK
<1> QED BY <1>4, <1>5, <1>6, <1>8, <1>9 DEF CountsMatchHolders

LEMMA BookInit == Init => BookInv
<1> SUFFICES ASSUME Init PROVE BookInv OBVIOUS
<1>1. TypeOK BY DEF Init, TypeOK, Phase
<1>2. QueueIsWaiters BY DEF Init, QueueIsWaiters
<1>3. Holders = {} /\ (\A p : OnProfile(p) = {}) /\ (\A f : InFanOut(f) = {})
  BY DEF Init, Holders, OnProfile, InFanOut
<1>4. CountsMatchHolders BY <1>3, FS_EmptySet DEF Init, CountsMatchHolders
<1> QED BY <1>1, <1>2, <1>4 DEF BookInv

(* A step that moves no call and no counter. *)
LEMMA BookFrame ==
  ASSUME BookInv, UNCHANGED <<phase, request, queue, counts>>,
         scan' \in Nat, aborted' \subseteq FanOut
  PROVE  BookInv'
<1>1. TypeOK' BY DEF BookInv, TypeOK, counts
<1>2. QueueIsWaiters' BY DEF BookInv, QueueIsWaiters
<1>3. CountsMatchHolders' BY FrameHolders DEF BookInv, CountsMatchHolders, counts
<1> QED BY <1>1, <1>2, <1>3 DEF BookInv

LEMMA BookNext == BookInv /\ [Next]_vars => BookInv'
<1> SUFFICES ASSUME BookInv, [Next]_vars PROVE BookInv'
  OBVIOUS
<1> USE DEF BookInv
<1>1. ASSUME NEW w \in Waiter, RejectAtOnce(w) PROVE BookInv'
  <2>1. TypeOK'
    BY <1>1 DEF RejectAtOnce, TypeOK, Phase, counts
  <2>2. QueueIsWaiters'
    BY <1>1 DEF RejectAtOnce, TypeOK, QueueIsWaiters
  <2>3. CountsMatchHolders'
    BY <1>1, SameHolders DEF RejectAtOnce, CountsMatchHolders, counts, Phase
  <2> QED BY <2>1, <2>2, <2>3
<1>2. ASSUME NEW w \in Waiter, Acquire(w) PROVE BookInv'
  <2>1. TypeOK'
    BY <1>2 DEF Acquire, TypeOK, Phase, counts
  <2>2. QueueIsWaiters'
    <3>1. /\ queue \in Seq(Waiter) /\ phase \in [Waiter -> Phase]
          /\ phase[w] = "new" /\ phase' = [phase EXCEPT ![w] = "waiting"]
      BY <1>2 DEF Acquire, TypeOK
    <3>2. /\ Len(queue) \in Nat
          /\ Len(queue') = Len(queue) + 1 /\ queue'[Len(queue) + 1] = w
          /\ \A i \in 1 .. Len(queue) : queue'[i] = queue[i] /\ queue[i] \in Waiter
      BY <1>2 DEF Acquire, TypeOK
    <3>3. \A i \in 1 .. Len(queue) : queue[i] # w
      BY <3>1 DEF QueueIsWaiters
    <3>4. \A i \in 1 .. Len(queue') : phase'[queue'[i]] = "waiting"
      BY <3>1, <3>2, <3>3 DEF QueueIsWaiters
    <3>5. \A i, j \in 1 .. Len(queue') : queue'[i] = queue'[j] => i = j
      BY <3>2, <3>3 DEF QueueIsWaiters
    <3>6. \A v \in Waiter : phase'[v] = "waiting" =>
            \E i \in 1 .. Len(queue') : queue'[i] = v
      BY <3>1, <3>2 DEF QueueIsWaiters
    <3> QED BY <3>4, <3>5, <3>6 DEF QueueIsWaiters
  <2>3. CountsMatchHolders'
    BY <1>2, SameHolders DEF Acquire, CountsMatchHolders, counts, Phase
  <2> QED BY <2>1, <2>2, <2>3
<1>3. ASSUME NEW w \in Waiter, Release(w) PROVE BookInv'
  <2>1. QueueIsWaiters'
    BY <1>3 DEF Release, TypeOK, QueueIsWaiters
  <2>2. /\ runningCount' \in Nat
        /\ runningByProfile' \in [Profile -> Nat]
        /\ runningByFanOut' \in [FanOut -> Nat]
        /\ CountsMatchHolders'
    BY <1>3, ReleaseCounts DEF Release
  <2>3. TypeOK'
    BY <1>3, <2>2 DEF Release, TypeOK, Phase
  <2> QED BY <2>1, <2>2, <2>3
<1>4. ASSUME NEW w \in Waiter, ReleaseAgain(w) PROVE BookInv'
  BY <1>4, BookFrame DEF ReleaseAgain, vars, TypeOK
<1>5. ASSUME GrantSlot PROVE BookInv'
  <2>1. /\ scan \in 1 .. Len(queue)
        /\ queue[scan] \in Waiter /\ phase[queue[scan]] = "waiting"
    BY <1>5 DEF GrantSlot, TypeOK, QueueIsWaiters
  <2>2. QueueIsWaiters'
    BY <1>5, <2>1, SpliceQueue DEF GrantSlot, Phase
  <2>3. /\ runningCount' \in Nat
        /\ runningByProfile' \in [Profile -> Nat]
        /\ runningByFanOut' \in [FanOut -> Nat]
        /\ CountsMatchHolders'
    BY <1>5, <2>1, GrantCounts DEF GrantSlot
  <2>4. queue' \in Seq(Waiter)
    BY <1>5, <2>1, SpliceSeq DEF GrantSlot, TypeOK
  <2>5. TypeOK'
    BY <1>5, <2>1, <2>3, <2>4 DEF GrantSlot, TypeOK, Phase
  <2> QED BY <2>2, <2>3, <2>5
<1>6. CASE SkipWaiter
  BY <1>6, BookFrame DEF SkipWaiter, TypeOK
<1>7. CASE EndScan
  BY <1>7, BookFrame DEF EndScan, TypeOK
<1>8. ASSUME NEW f \in FanOut, AbortFanOut(f) PROVE BookInv'
  BY <1>8, BookFrame DEF AbortFanOut, TypeOK
<1>9. ASSUME NEW i \in 1 .. Len(queue), OnAbort(i) PROVE BookInv'
  <2>1. queue[i] \in Waiter /\ phase[queue[i]] = "waiting"
    BY <1>9 DEF TypeOK, QueueIsWaiters
  <2>2. QueueIsWaiters'
    BY <1>9, <2>1, SpliceQueue DEF OnAbort, Phase
  <2>3. TypeOK'
    BY <1>9, <2>1, SpliceSeq DEF OnAbort, TypeOK, Phase, counts
  <2>4. CountsMatchHolders'
    BY <1>9, <2>1, SameHolders DEF OnAbort, CountsMatchHolders, counts, Phase
  <2> QED BY <2>2, <2>3, <2>4
<1>10. CASE UNCHANGED vars
  BY <1>10, BookFrame DEF vars, TypeOK
<1>11. ASSUME NEW w \in Waiter, CallAgain(w) PROVE BookInv'
  <2>1. TypeOK'
    <3>1. request' \in [Waiter -> SlotRequests]
      BY <1>11 DEF CallAgain, TypeOK
    <3> QED BY <1>11, <3>1 DEF CallAgain, TypeOK, Phase, counts
  <2>2. QueueIsWaiters'
    BY <1>11 DEF CallAgain, TypeOK, QueueIsWaiters
  <2>3. CountsMatchHolders'
    BY <1>11, AgainHolders DEF CallAgain, CountsMatchHolders, counts
  <2> QED BY <2>1, <2>2, <2>3
<1> QED
  BY <1>1, <1>2, <1>3, <1>4, <1>5, <1>6, <1>7, <1>8, <1>9, <1>10, <1>11 DEF Next

(* The type invariant, the queue and the counters are right in every       *)
(* reachable state.                                                        *)
THEOREM BookCorrect == Spec => []BookInv
<1>1. Init => BookInv BY BookInit
<1>2. BookInv /\ [Next]_vars => BookInv' BY BookNext
<1> QED BY <1>1, <1>2, PTL DEF Spec

THEOREM TypeCorrect == Spec => []TypeOK
<1>1. BookInv => TypeOK BY DEF BookInv
<1> QED BY <1>1, BookCorrect, PTL

(* No call is lost in the queue and none is queued twice. *)
THEOREM QueueCorrect == Spec => []QueueIsWaiters
<1>1. BookInv => QueueIsWaiters BY DEF BookInv
<1> QED BY <1>1, BookCorrect, PTL

(* The counters of the pool always agree with the set of slot holders. *)
THEOREM CountsCorrect == Spec => []CountsMatchHolders
<1>1. BookInv => CountsMatchHolders BY DEF BookInv
<1> QED BY <1>1, BookCorrect, PTL

-----------------------------------------------------------------------------
(* The limits.  No strengthening beyond BookInv is needed: when a waiter   *)
(* is granted, ALL holders together are at most its own limit, so in       *)
(* particular those whose limit is not above another request's limit.      *)

(* Taking holders away never breaks a limit. *)
LEMMA LimitsShrink ==
  ASSUME LimitsHold, Holders' \subseteq Holders, IsFiniteSet(Holders),
         \A h \in Holders' : request'[h] = request[h]
  PROVE  LimitsHold'
<1>1. ASSUME NEW q \in SlotRequests
      PROVE  Cardinality({h \in Holders : GlobalCap(request[h]) <= GlobalCap(q)})'
               <= GlobalCap(q)
  <2> DEFINE S == {h \in Holders : GlobalCap(request[h]) <= GlobalCap(q)}
             T == {h \in Holders' : GlobalCap(request'[h]) <= GlobalCap(q)}
  <2>0. \A r : GlobalCap(r)' = GlobalCap(r)
    BY DEF GlobalCap
  <2>1. IsFiniteSet(S) /\ T \subseteq S BY FS_Subset
  <2>2. Cardinality(S) \in Nat /\ Cardinality(T) \in Nat
        /\ Cardinality(T) <= Cardinality(S)
    BY <2>1, FS_Subset, FS_CardinalityType
  <2>3. Cardinality(S) <= GlobalCap(q)
    BY DEF LimitsHold, GlobalLimitHolds
  <2>4. GlobalCap(q) \in Nat
    BY PoolAssumption DEF GlobalCap, SlotRequest
  <2> QED BY <2>2, <2>3, <2>4
<1>2. ASSUME NEW q \in SlotRequests, q.profileLimit # Unset
      PROVE  Cardinality({h \in OnProfile(q.profileKey) :
                            /\ request[h].profileLimit # Unset
                            /\ request[h].profileLimit <= q.profileLimit})'
               <= q.profileLimit
  <2> DEFINE S == {h \in OnProfile(q.profileKey) :
                     /\ request[h].profileLimit # Unset
                     /\ request[h].profileLimit <= q.profileLimit}
             T == {h \in OnProfile(q.profileKey)' :
                     /\ request'[h].profileLimit # Unset
                     /\ request'[h].profileLimit <= q.profileLimit}
  <2>1. OnProfile(q.profileKey)' \subseteq OnProfile(q.profileKey)
        /\ OnProfile(q.profileKey) \subseteq Holders
        /\ OnProfile(q.profileKey)' \subseteq Holders'
    BY DEF OnProfile
  <2>2. IsFiniteSet(S) /\ T \subseteq S
    <3>1. S \subseteq Holders BY <2>1
    <3>2. T \subseteq S BY <2>1
    <3> QED BY <3>1, <3>2, FS_Subset
  <2>3. Cardinality(S) \in Nat /\ Cardinality(T) \in Nat
        /\ Cardinality(T) <= Cardinality(S)
    BY <2>2, FS_Subset, FS_CardinalityType
  <2>4. Cardinality(S) <= q.profileLimit
    BY <1>2 DEF LimitsHold, ProfileLimitHolds
  <2>5. q.profileLimit \in Nat
    BY <1>2, PoolAssumption DEF SlotRequest
  <2> QED BY <2>3, <2>4, <2>5
<1>3. ASSUME NEW q \in SlotRequests
      PROVE  Cardinality({h \in InFanOut(q.fanOutKey) :
                            request[h].fanOutLimit <= q.fanOutLimit})'
               <= q.fanOutLimit
  <2> DEFINE S == {h \in InFanOut(q.fanOutKey) : request[h].fanOutLimit <= q.fanOutLimit}
             T == {h \in InFanOut(q.fanOutKey)' : request'[h].fanOutLimit <= q.fanOutLimit}
  <2>1. InFanOut(q.fanOutKey)' \subseteq InFanOut(q.fanOutKey)
        /\ InFanOut(q.fanOutKey) \subseteq Holders
        /\ InFanOut(q.fanOutKey)' \subseteq Holders'
    BY DEF InFanOut
  <2>2. IsFiniteSet(S) /\ T \subseteq S
    <3>1. S \subseteq Holders BY <2>1
    <3>2. T \subseteq S BY <2>1
    <3> QED BY <3>1, <3>2, FS_Subset
  <2>3. Cardinality(S) \in Nat /\ Cardinality(T) \in Nat
        /\ Cardinality(T) <= Cardinality(S)
    BY <2>2, FS_Subset, FS_CardinalityType
  <2>4. Cardinality(S) <= q.fanOutLimit
    BY DEF LimitsHold, FanOutLimitHolds
  <2>5. q.fanOutLimit \in Nat
    BY PoolAssumption DEF SlotRequest
  <2> QED BY <2>3, <2>4, <2>5
<1> QED
  BY <1>1, <1>2, <1>3
  DEF LimitsHold, GlobalLimitHolds, ProfileLimitHolds, FanOutLimitHolds

(* A grant that fits keeps every limit. *)
LEMMA LimitsGrant ==
  ASSUME BookInv, BookInv', LimitsHold, GrantSlot
  PROVE  LimitsHold'
<1> DEFINE v == queue[scan]
<1>1. PICK w \in Waiter : w = v /\ phase[w] = "waiting"
  BY DEF GrantSlot, BookInv, TypeOK, QueueIsWaiters
<1>2. PICK r \in SlotRequests : r = request[w]
  BY <1>1 DEF BookInv, TypeOK
<1>3. /\ Fits(r) /\ Take(r, 1) /\ request' = request
      /\ phase' = [phase EXCEPT ![w] = "holding"]
  BY <1>1, <1>2 DEF GrantSlot
<1>4. /\ Holders' = Holders \cup {w}
      /\ \A p : OnProfile(p)' = IF r.profileKey = p THEN OnProfile(p) \cup {w} ELSE OnProfile(p)
      /\ \A f : InFanOut(f)' = IF r.fanOutKey = f THEN InFanOut(f) \cup {w} ELSE InFanOut(f)
  BY <1>1, <1>2, <1>3, GrantHolders DEF BookInv
<1>5. /\ r.globalLimit \in Nat /\ r.fanOutLimit \in Nat
      /\ r.profileLimit \in Nat \cup {Unset}
      /\ r.profileKey \in Profile /\ r.fanOutKey \in FanOut
  BY <1>1, <1>2, RequestFields DEF BookInv
<1>6. /\ IsFiniteSet(Holders') /\ (\A p : IsFiniteSet(OnProfile(p)'))
      /\ (\A f : IsFiniteSet(InFanOut(f)'))
  BY <1>4, HoldersFinite, FS_AddElement
<1>7. ASSUME NEW q \in SlotRequests
      PROVE  Cardinality({h \in Holders' : GlobalCap(request[h]) <= GlobalCap(q)})
               <= GlobalCap(q)
  <2> DEFINE S == {h \in Holders : GlobalCap(request[h]) <= GlobalCap(q)}
             T == {h \in Holders' : GlobalCap(request[h]) <= GlobalCap(q)}
  <2>1. GlobalCap(q) \in Nat /\ GlobalCap(r) \in Nat
    BY <1>5, PoolAssumption DEF GlobalCap, SlotRequest
  <2>2. CASE GlobalCap(r) <= GlobalCap(q)
    <3>1. Cardinality(Holders') <= GlobalCap(r)
      BY <1>3, <2>1 DEF Fits, Take, BookInv, CountsMatchHolders, TypeOK
    <3>2. T \subseteq Holders' OBVIOUS
    <3>3. /\ Cardinality(T) <= Cardinality(Holders')
          /\ Cardinality(T) \in Nat /\ Cardinality(Holders') \in Nat
      BY <3>2, <1>6, FS_Subset, FS_CardinalityType
    <3> QED BY <3>1, <3>3, <2>1, <2>2
  <2>3. CASE ~(GlobalCap(r) <= GlobalCap(q))
    <3>1. T = S BY <1>2, <1>4, <2>3
    <3> QED BY <3>1 DEF LimitsHold, GlobalLimitHolds
  <2> QED BY <2>2, <2>3
<1>8. ASSUME NEW q \in SlotRequests, q.profileLimit # Unset
      PROVE  Cardinality({h \in OnProfile(q.profileKey)' :
                            /\ request[h].profileLimit # Unset
                            /\ request[h].profileLimit <= q.profileLimit})
               <= q.profileLimit
  <2> DEFINE p == q.profileKey
             S == {h \in OnProfile(p) : /\ request[h].profileLimit # Unset
                                        /\ request[h].profileLimit <= q.profileLimit}
             T == {h \in OnProfile(p)' : /\ request[h].profileLimit # Unset
                                         /\ request[h].profileLimit <= q.profileLimit}
  <2>1. q.profileLimit \in Nat BY <1>8, PoolAssumption DEF SlotRequest
  <2>2. CASE r.profileKey = p /\ r.profileLimit # Unset /\ r.profileLimit <= q.profileLimit
    <3>1. Cardinality(OnProfile(p)') <= r.profileLimit
      BY <1>3, <1>5, <2>2 DEF Fits, Take, BookInv, CountsMatchHolders, TypeOK
    <3>2. T \subseteq OnProfile(p)' OBVIOUS
    <3>3. /\ Cardinality(T) <= Cardinality(OnProfile(p)')
          /\ Cardinality(T) \in Nat /\ Cardinality(OnProfile(p)') \in Nat
      BY <3>2, <1>6, FS_Subset, FS_CardinalityType
    <3> QED BY <3>1, <3>3, <1>5, <2>1, <2>2
  <2>3. CASE ~(r.profileKey = p /\ r.profileLimit # Unset /\ r.profileLimit <= q.profileLimit)
    <3>1. T = S BY <1>2, <1>4, <2>3
    <3> QED BY <3>1, <1>8 DEF LimitsHold, ProfileLimitHolds
  <2> QED BY <2>2, <2>3
<1>9. ASSUME NEW q \in SlotRequests
      PROVE  Cardinality({h \in InFanOut(q.fanOutKey)' :
                            request[h].fanOutLimit <= q.fanOutLimit})
               <= q.fanOutLimit
  <2> DEFINE f == q.fanOutKey
             S == {h \in InFanOut(f) : request[h].fanOutLimit <= q.fanOutLimit}
             T == {h \in InFanOut(f)' : request[h].fanOutLimit <= q.fanOutLimit}
  <2>1. q.fanOutLimit \in Nat BY PoolAssumption DEF SlotRequest
  <2>2. CASE r.fanOutKey = f /\ r.fanOutLimit <= q.fanOutLimit
    <3>1. Cardinality(InFanOut(f)') <= r.fanOutLimit
      BY <1>3, <1>5, <2>2 DEF Fits, Take, BookInv, CountsMatchHolders, TypeOK
    <3>2. T \subseteq InFanOut(f)' OBVIOUS
    <3>3. /\ Cardinality(T) <= Cardinality(InFanOut(f)')
          /\ Cardinality(T) \in Nat /\ Cardinality(InFanOut(f)') \in Nat
      BY <3>2, <1>6, FS_Subset, FS_CardinalityType
    <3> QED BY <3>1, <3>3, <1>5, <2>1, <2>2
  <2>3. CASE ~(r.fanOutKey = f /\ r.fanOutLimit <= q.fanOutLimit)
    <3>1. T = S BY <1>2, <1>4, <2>3
    <3> QED BY <3>1 DEF LimitsHold, FanOutLimitHolds
  <2> QED BY <2>2, <2>3
<1> QED
  BY <1>3, <1>7, <1>8, <1>9
  DEF LimitsHold, GlobalLimitHolds, ProfileLimitHolds, FanOutLimitHolds

LEMMA LimitsInit == Init => LimitsHold
<1> SUFFICES ASSUME Init PROVE LimitsHold OBVIOUS
<1>1. Holders = {} /\ (\A p : OnProfile(p) = {}) /\ (\A f : InFanOut(f) = {})
  BY DEF Init, Holders, OnProfile, InFanOut
<1>2. \A q \in SlotRequests :
        /\ GlobalCap(q) \in Nat /\ q.fanOutLimit \in Nat
        /\ q.profileLimit # Unset => q.profileLimit \in Nat
  BY PoolAssumption DEF GlobalCap, SlotRequest
<1>3. Cardinality({}) = 0 BY FS_EmptySet
<1>4. GlobalLimitHolds
  <2>1. ASSUME NEW q \in SlotRequests
        PROVE  Cardinality({h \in Holders : GlobalCap(request[h]) <= GlobalCap(q)}) <= GlobalCap(q)
    <3> DEFINE S == {h \in Holders : GlobalCap(request[h]) <= GlobalCap(q)}
    <3>1. S = {} BY <1>1
    <3>2. Cardinality(S) = 0 BY <3>1, <1>3
    <3> QED BY <1>2, <2>1, <3>2
  <2> QED BY <2>1 DEF GlobalLimitHolds
<1>5. ProfileLimitHolds
  <2>1. ASSUME NEW q \in SlotRequests, q.profileLimit # Unset
        PROVE  Cardinality({h \in OnProfile(q.profileKey) :
                              /\ request[h].profileLimit # Unset
                              /\ request[h].profileLimit <= q.profileLimit}) <= q.profileLimit
    <3> DEFINE S == {h \in OnProfile(q.profileKey) :
                              /\ request[h].profileLimit # Unset
                              /\ request[h].profileLimit <= q.profileLimit}
    <3>1. S = {} BY <1>1
    <3>2. Cardinality(S) = 0 BY <3>1, <1>3
    <3> QED BY <1>2, <2>1, <3>2
  <2> QED BY <2>1 DEF ProfileLimitHolds
<1>6. FanOutLimitHolds
  <2>1. ASSUME NEW q \in SlotRequests
        PROVE  Cardinality({h \in InFanOut(q.fanOutKey) : request[h].fanOutLimit <= q.fanOutLimit}) <= q.fanOutLimit
    <3> DEFINE S == {h \in InFanOut(q.fanOutKey) : request[h].fanOutLimit <= q.fanOutLimit}
    <3>1. S = {} BY <1>1
    <3>2. Cardinality(S) = 0 BY <3>1, <1>3
    <3> QED BY <1>2, <2>1, <3>2
  <2> QED BY <2>1 DEF FanOutLimitHolds
<1> QED BY <1>4, <1>5, <1>6 DEF LimitsHold

LEMMA LimitsNext == BookInv /\ BookInv' /\ LimitsHold /\ [Next]_vars => LimitsHold'
<1> SUFFICES ASSUME BookInv, BookInv', LimitsHold, [Next]_vars PROVE LimitsHold'
  OBVIOUS
<1>1. IsFiniteSet(Holders) BY HoldersFinite
<1>2. CASE GrantSlot BY <1>2, LimitsGrant
<1>3. ASSUME NEW w \in Waiter, RejectAtOnce(w) \/ Acquire(w) PROVE LimitsHold'
  <2>1. Holders' = Holders /\ request' = request
    BY <1>3 DEF RejectAtOnce, Acquire, Holders, BookInv, TypeOK
  <2> QED BY <1>1, <2>1, LimitsShrink
<1>4. ASSUME NEW w \in Waiter, Release(w) PROVE LimitsHold'
  <2>1. Holders' \subseteq Holders /\ request' = request
    BY <1>4 DEF Release, Holders, BookInv, TypeOK
  <2> QED BY <1>1, <2>1, LimitsShrink
<1>5. ASSUME NEW i \in 1 .. Len(queue), OnAbort(i) PROVE LimitsHold'
  <2>1. Holders' \subseteq Holders /\ request' = request
    BY <1>5 DEF OnAbort, Holders, BookInv, TypeOK
  <2> QED BY <1>1, <2>1, LimitsShrink
<1>6. ASSUME UNCHANGED <<phase, request>> PROVE LimitsHold'
  <2>1. Holders' \subseteq Holders /\ request' = request
    BY <1>6 DEF Holders
  <2> QED BY <1>1, <2>1, LimitsShrink
<1>7. ASSUME NEW w \in Waiter, ReleaseAgain(w) PROVE LimitsHold'
  BY <1>6, <1>7 DEF ReleaseAgain, vars
<1>8. CASE SkipWaiter \/ EndScan
  BY <1>6, <1>8 DEF SkipWaiter, EndScan
<1>9. ASSUME NEW f \in FanOut, AbortFanOut(f) PROVE LimitsHold'
  BY <1>6, <1>9 DEF AbortFanOut
<1>10. CASE UNCHANGED vars
  BY <1>6, <1>10 DEF vars
<1>11. ASSUME NEW w \in Waiter, CallAgain(w) PROVE LimitsHold'
  <2>1. Holders' = Holders /\ \A h \in Holders' : request'[h] = request[h]
    BY <1>11, AgainHolders DEF BookInv, Holders
  <2> QED BY <1>1, <2>1, LimitsShrink
<1> QED
  BY <1>2, <1>3, <1>4, <1>5, <1>7, <1>8, <1>9, <1>10, <1>11 DEF Next

(* The provider-wide, the per-profile and the per-call limits hold in      *)
(* every reachable state, for every mix of limits the callers pass.        *)
THEOREM LimitsCorrect == Spec => []LimitsHold
<1>1. Init => LimitsHold BY LimitsInit
<1>2. BookInv /\ BookInv' /\ LimitsHold /\ [Next]_vars => LimitsHold'
  BY LimitsNext
<1> QED BY <1>1, <1>2, BookCorrect, PTL DEF Spec

-----------------------------------------------------------------------------
(* No idle slot.  The scan leaves behind it only waiters that do not fit,  *)
(* and they stay so while it goes on, because a grant only takes room; at  *)
(* rest that covers the whole queue.                                       *)
ScanInv ==
  \A i \in 1 .. Len(queue) : scan = 0 \/ i < scan => ~Fits(request[queue[i]])

(* A grant never makes room for a request. *)
LEMMA GrantTakesRoom ==
  ASSUME BookInv, NEW r, NEW q \in SlotRequests, Take(r, 1), ~Fits(q),
         r.profileKey \in Profile, r.fanOutKey \in FanOut
  PROVE  ~Fits(q)'
<1>1. /\ q.globalLimit \in Nat /\ q.fanOutLimit \in Nat
      /\ q.profileLimit \in Nat \cup {Unset}
      /\ q.profileKey \in Profile /\ q.fanOutKey \in FanOut
  BY PoolAssumption DEF SlotRequest
<1>2. /\ runningCount \in Nat /\ runningCount' = runningCount + 1
      /\ runningByFanOut[q.fanOutKey] \in Nat
      /\ runningByFanOut'[q.fanOutKey] \in Nat
      /\ runningByFanOut'[q.fanOutKey] >= runningByFanOut[q.fanOutKey]
      /\ runningByProfile[q.profileKey] \in Nat
      /\ runningByProfile'[q.profileKey] \in Nat
      /\ runningByProfile'[q.profileKey] >= runningByProfile[q.profileKey]
  BY <1>1 DEF Take, BookInv, TypeOK
<1> QED BY <1>1, <1>2 DEF Fits, GlobalCap

LEMMA ScanNext == BookInv /\ ScanInv /\ [Next]_vars => ScanInv'
<1> SUFFICES ASSUME BookInv, ScanInv, [Next]_vars PROVE ScanInv'
  OBVIOUS
<1>1. /\ queue \in Seq(Waiter) /\ Len(queue) \in Nat /\ scan \in Nat
      /\ request \in [Waiter -> SlotRequests]
  BY DEF BookInv, TypeOK
<1>2. ASSUME UNCHANGED <<request, counts>> PROVE \A r : Fits(r)' <=> Fits(r)
  BY <1>2 DEF Fits, counts
<1>3. ASSUME NEW w \in Waiter, RejectAtOnce(w) \/ ReleaseAgain(w) PROVE ScanInv'
  BY <1>2, <1>3 DEF RejectAtOnce, ReleaseAgain, ScanInv, vars, counts, Fits
<1>4. ASSUME NEW w \in Waiter, Acquire(w) \/ Release(w) PROVE ScanInv'
  <2>1. scan' = 1 BY <1>4 DEF Acquire, Release
  <2>2. \A i \in 1 .. Len(queue') : ~(scan' = 0 \/ i < scan')
    BY <2>1
  <2> QED BY <2>2 DEF ScanInv
<1>5. CASE GrantSlot
  <2>1. /\ scan \in 1 .. Len(queue) /\ scan' = scan /\ request' = request
        /\ Take(request[queue[scan]], 1)
        /\ Len(queue') = Len(queue) - 1
        /\ \A j \in 1 .. Len(queue) - 1 :
             queue'[j] = IF j < scan THEN queue[j] ELSE queue[j + 1]
    BY <1>1, <1>5, SpliceSeq DEF GrantSlot
  <2>2. queue[scan] \in Waiter BY <1>1, <2>1
  <2>3. ASSUME NEW i \in 1 .. Len(queue'), scan' = 0 \/ i < scan'
        PROVE  ~Fits(request[queue[i]])'
    <3>1. i \in 1 .. Len(queue) /\ i < scan /\ queue'[i] = queue[i] /\ queue[i] \in Waiter
      BY <1>1, <2>1, <2>3
    <3>2. PICK q \in SlotRequests : q = request[queue[i]]
      BY <1>1, <3>1
    <3>3. ~Fits(q) BY <3>1, <3>2 DEF ScanInv
    <3>4. ~Fits(q)'
      BY <2>1, <2>2, <3>3, GrantTakesRoom, RequestFields DEF BookInv
    <3> QED BY <2>1, <3>1, <3>2, <3>4
  <2> QED BY <2>3 DEF ScanInv
<1>6. CASE SkipWaiter
  BY <1>1, <1>6 DEF SkipWaiter, ScanInv, Fits, counts
<1>7. CASE EndScan
  BY <1>1, <1>7 DEF EndScan, ScanInv, Fits, counts
<1>8. ASSUME NEW f \in FanOut, AbortFanOut(f) PROVE ScanInv'
  BY <1>8 DEF AbortFanOut, ScanInv, Fits, counts
<1>9. ASSUME NEW k \in 1 .. Len(queue), OnAbort(k) PROVE ScanInv'
  <2>1. /\ scan = 0 /\ UNCHANGED <<request, counts>>
        /\ Len(queue') = Len(queue) - 1
        /\ \A j \in 1 .. Len(queue) - 1 :
             queue'[j] = IF j < k THEN queue[j] ELSE queue[j + 1]
    BY <1>1, <1>9, SpliceSeq DEF OnAbort
  <2>2. ASSUME NEW i \in 1 .. Len(queue')
        PROVE  ~Fits(request[queue[i]])'
    <3>1. PICK j \in 1 .. Len(queue) : queue'[i] = queue[j]
      BY <1>1, <2>1
    <3> QED BY <2>1, <3>1 DEF ScanInv, Fits, counts
  <2> QED BY <2>2 DEF ScanInv
<1>10. CASE UNCHANGED vars
  BY <1>10 DEF vars, ScanInv, Fits, counts
<1>11. ASSUME NEW w \in Waiter, CallAgain(w) PROVE ScanInv'
  <2>1. \A i \in 1 .. Len(queue) : queue[i] \in Waiter /\ queue[i] # w
    BY <1>1, <1>11 DEF CallAgain, BookInv, QueueIsWaiters
  <2>2. \A i \in 1 .. Len(queue) : request'[queue[i]] = request[queue[i]]
    BY <2>1, <1>11, AgainHolders DEF BookInv
  <2> QED BY <2>2, <1>11 DEF CallAgain, ScanInv, Fits, counts
<1> QED
  BY <1>3, <1>4, <1>5, <1>6, <1>7, <1>8, <1>9, <1>10, <1>11 DEF Next

LEMMA ScanCorrect == Spec => []ScanInv
<1>1. Init => ScanInv BY DEF Init, ScanInv
<1>2. BookInv /\ ScanInv /\ [Next]_vars => ScanInv' BY ScanNext
<1> QED BY <1>1, <1>2, BookCorrect, PTL DEF Spec

(* A free slot is never left idle while a queued waiter could take it. *)
THEOREM NoIdleSlotCorrect == Spec => []NoIdleSlot
<1>1. ScanInv => NoIdleSlot BY DEF ScanInv, NoIdleSlot, Quiescent
<1> QED BY <1>1, ScanCorrect, PTL

(* First in, first out among those that fit. *)
THEOREM FirstFittingCorrect == Spec => FirstFittingServed
<1> DEFINE A == \A i \in 1 .. Len(queue) :
                  phase[queue[i]] = "waiting" /\ phase'[queue[i]] = "holding"
                    => \A j \in 1 .. i - 1 : ~Fits(request[queue[j]])
<1>1. BookInv /\ ScanInv /\ [Next]_vars => [A]_vars
  <2> SUFFICES ASSUME BookInv, ScanInv, Next,
                      NEW i \in 1 .. Len(queue),
                      phase[queue[i]] = "waiting", phase'[queue[i]] = "holding",
                      NEW j \in 1 .. i - 1
               PROVE  ~Fits(request[queue[j]])
    OBVIOUS
  <2>1. /\ queue \in Seq(Waiter) /\ Len(queue) \in Nat /\ queue[i] \in Waiter
        /\ phase \in [Waiter -> Phase]
    BY DEF BookInv, TypeOK
  <2>2. CASE GrantSlot
    <3>1. scan \in 1 .. Len(queue) /\ phase' = [phase EXCEPT ![queue[scan]] = "holding"]
      BY <2>2 DEF GrantSlot
    <3>2. i = scan
      BY <2>1, <3>1 DEF BookInv, QueueIsWaiters
    <3> QED BY <2>1, <3>1, <3>2 DEF ScanInv
  <2>3. CASE ~GrantSlot
    <3>1. phase'[queue[i]] # "holding"
      BY <2>1, <2>3
      DEF Next, RejectAtOnce, Acquire, Release, ReleaseAgain, CallAgain, SkipWaiter,
          EndScan, AbortFanOut, OnAbort, vars
    <3> QED BY <3>1
  <2> QED BY <2>2, <2>3
<1> QED
  BY <1>1, BookCorrect, ScanCorrect, PTL DEF Spec, FirstFittingServed

-----------------------------------------------------------------------------
(* While the scan runs, the queue holds no waiter of an aborted fan-out.   *)
LiveScan ==
  scan # 0 => \A i \in 1 .. Len(queue) : request[queue[i]].fanOutKey \notin aborted

LEMMA LiveScanCorrect == Spec => []LiveScan
<1>1. Init => LiveScan BY DEF Init, LiveScan
<1>2. BookInv /\ LiveScan /\ [Next]_vars => LiveScan'
  <2> SUFFICES ASSUME BookInv, LiveScan, [Next]_vars PROVE LiveScan'
    OBVIOUS
  <2>1. queue \in Seq(Waiter) /\ Len(queue) \in Nat /\ scan \in Nat
    BY DEF BookInv, TypeOK
  <2>2. ASSUME NEW w \in Waiter, RejectAtOnce(w) \/ Release(w) \/ ReleaseAgain(w)
        PROVE  LiveScan'
    BY <2>2 DEF RejectAtOnce, Release, ReleaseAgain, vars, LiveScan, Quiescent
  <2>3. ASSUME NEW w \in Waiter, Acquire(w) PROVE LiveScan'
    <3>1. /\ Len(queue') = Len(queue) + 1 /\ queue'[Len(queue) + 1] = w
          /\ \A i \in 1 .. Len(queue) : queue'[i] = queue[i]
      BY <2>1, <2>3 DEF Acquire
    <3> QED BY <2>1, <2>3, <3>1 DEF Acquire, LiveScan, Quiescent
  <2>4. CASE GrantSlot
    <3>1. /\ scan \in 1 .. Len(queue) /\ UNCHANGED <<request, scan, aborted>>
          /\ Len(queue') = Len(queue) - 1
          /\ \A j \in 1 .. Len(queue) - 1 :
               queue'[j] = IF j < scan THEN queue[j] ELSE queue[j + 1]
      BY <2>1, <2>4, SpliceSeq DEF GrantSlot, BookInv, TypeOK
    <3> QED BY <2>1, <3>1 DEF LiveScan
  <2>5. CASE SkipWaiter \/ EndScan
    BY <2>1, <2>5 DEF SkipWaiter, EndScan, LiveScan
  <2>6. ASSUME NEW f \in FanOut, AbortFanOut(f) PROVE LiveScan'
    BY <2>6 DEF AbortFanOut, Quiescent, LiveScan
  <2>7. ASSUME NEW i \in 1 .. Len(queue), OnAbort(i) PROVE LiveScan'
    BY <2>7 DEF OnAbort, LiveScan
  <2>8. CASE UNCHANGED vars
    BY <2>8 DEF vars, LiveScan
  <2>9. ASSUME NEW w \in Waiter, CallAgain(w) PROVE LiveScan'
    <3>1. \A i \in 1 .. Len(queue) : queue[i] \in Waiter /\ queue[i] # w
      BY <2>1, <2>9 DEF CallAgain, BookInv, QueueIsWaiters
    <3>2. \A i \in 1 .. Len(queue) : request'[queue[i]] = request[queue[i]]
      BY <3>1, <2>9, AgainHolders DEF BookInv
    <3> QED BY <3>2, <2>9 DEF CallAgain, LiveScan
  <2> QED BY <2>2, <2>3, <2>4, <2>5, <2>6, <2>7, <2>8, <2>9 DEF Next
<1> QED BY <1>1, <1>2, BookCorrect, PTL DEF Spec

(* An aborted fan-out starts no further subagent. *)
THEOREM AbortedNeverGrantedCorrect == Spec => AbortedNeverGranted
<1> DEFINE A == \A w \in Waiter :
                  phase[w] # "holding" /\ phase'[w] = "holding"
                    => request[w].fanOutKey \notin aborted
<1>1. BookInv /\ LiveScan /\ [Next]_vars => [A]_vars
  <2> SUFFICES ASSUME BookInv, LiveScan, Next, NEW w \in Waiter,
                      phase[w] # "holding", phase'[w] = "holding"
               PROVE  request[w].fanOutKey \notin aborted
    OBVIOUS
  <2>1. /\ phase \in [Waiter -> Phase] /\ queue \in Seq(Waiter)
        /\ \A i \in 1 .. Len(queue) : queue[i] \in Waiter
    BY DEF BookInv, TypeOK
  <2>2. CASE GrantSlot
    BY <2>1, <2>2 DEF GrantSlot, LiveScan
  <2>3. CASE ~GrantSlot
    <3>1. phase'[w] # "holding"
      BY <2>1, <2>3
      DEF Next, RejectAtOnce, Acquire, Release, ReleaseAgain, CallAgain, SkipWaiter,
          EndScan, AbortFanOut, OnAbort, vars
    <3> QED BY <3>1
  <2> QED BY <2>2, <2>3
<1> QED
  BY <1>1, BookCorrect, LiveScanCorrect, PTL DEF Spec, AbortedNeverGranted

-----------------------------------------------------------------------------
(* The pool, with its queue, its counters and its scan, implements the     *)
(* abstract allocation: the counters stand for the sets of holders, so a   *)
(* waiter that fits has room.                                              *)
THEOREM PoolImplementsAllocation == Spec => AllocationSpec
<1>1. Init => Allocation!Init
  BY DEF Init, Allocation!Init
<1>2. BookInv /\ [Next]_vars => [Allocation!Next]_(Allocation!vars)
  <2> SUFFICES ASSUME BookInv, [Next]_vars
               PROVE  Allocation!Next \/ UNCHANGED Allocation!vars
    OBVIOUS
  <2>1. phase \in [Waiter -> Phase] /\ queue \in Seq(Waiter)
    BY DEF BookInv, TypeOK
  <2>2. ASSUME NEW w \in Waiter, RejectAtOnce(w) PROVE Allocation!Next
    BY <2>2 DEF RejectAtOnce, Allocation!Next, Allocation!GiveUp
  <2>3. ASSUME NEW w \in Waiter, Acquire(w) PROVE Allocation!Next
    BY <2>3 DEF Acquire, Allocation!Next, Allocation!Ask
  <2>4. ASSUME NEW w \in Waiter, Release(w) PROVE Allocation!Next
    BY <2>4 DEF Release, Allocation!Next, Allocation!GiveBack
  <2>5. CASE GrantSlot
    <3>1. PICK w \in Waiter : w = queue[scan] /\ phase[w] = "waiting"
      BY <2>5 DEF GrantSlot, BookInv, TypeOK, QueueIsWaiters
    <3>2. Fits(request[w]) /\ UNCHANGED request
          /\ phase' = [phase EXCEPT ![w] = "holding"]
      BY <2>5, <3>1 DEF GrantSlot
    <3>3. request[w].profileKey \in Profile /\ request[w].fanOutKey \in FanOut
      BY RequestFields DEF BookInv
    <3>4. Allocation!HasRoom(request[w])
      <4>1. /\ Allocation!Holders = Holders
            /\ \A p : Allocation!OnProfile(p) = OnProfile(p)
            /\ \A f : Allocation!InFanOut(f) = InFanOut(f)
        BY DEF Allocation!Holders, Allocation!OnProfile, Allocation!InFanOut,
               Holders, OnProfile, InFanOut
      <4>2. \A q : Allocation!GlobalCap(q) = GlobalCap(q)
        BY DEF Allocation!GlobalCap, GlobalCap
      <4>3. /\ runningCount = Cardinality(Holders)
            /\ runningByProfile[request[w].profileKey]
                 = Cardinality(OnProfile(request[w].profileKey))
            /\ runningByFanOut[request[w].fanOutKey]
                 = Cardinality(InFanOut(request[w].fanOutKey))
        BY <3>3 DEF BookInv, CountsMatchHolders
      <4>4. Cardinality(Allocation!Holders) < Allocation!GlobalCap(request[w])
        BY <3>2, <4>1, <4>2, <4>3 DEF Fits
      <4>5. Cardinality(Allocation!InFanOut(request[w].fanOutKey)) < request[w].fanOutLimit
        BY <3>2, <4>1, <4>3 DEF Fits
      <4>6. request[w].profileLimit # Unset =>
              Cardinality(Allocation!OnProfile(request[w].profileKey)) < request[w].profileLimit
        BY <3>2, <4>1, <4>3 DEF Fits
      <4>7. \A S : Allocation!Cardinality(S) = Cardinality(S)
        BY DEF Allocation!Cardinality, Cardinality
      <4> QED BY <4>4, <4>5, <4>6, <4>7 DEF Allocation!HasRoom
    <3>5. Allocation!Grant(w)
      BY <3>1, <3>2, <3>4 DEF Allocation!Grant
    <3> QED BY <3>5 DEF Allocation!Next
  <2>6. ASSUME NEW i \in 1 .. Len(queue), OnAbort(i) PROVE Allocation!Next
    <3>1. PICK w \in Waiter : w = queue[i] /\ phase[w] = "waiting"
      BY DEF BookInv, TypeOK, QueueIsWaiters
    <3>2. Allocation!GiveUp(w)
      BY <2>6, <3>1 DEF OnAbort, Allocation!GiveUp
    <3> QED BY <3>2 DEF Allocation!Next
  <2>7. ASSUME NEW w \in Waiter, ReleaseAgain(w) PROVE UNCHANGED Allocation!vars
    BY <2>7 DEF ReleaseAgain, vars, Allocation!vars
  <2>8. ASSUME SkipWaiter \/ EndScan \/ UNCHANGED vars PROVE UNCHANGED Allocation!vars
    BY <2>8 DEF SkipWaiter, EndScan, vars, Allocation!vars
  <2>9. ASSUME NEW f \in FanOut, AbortFanOut(f) PROVE UNCHANGED Allocation!vars
    BY <2>9 DEF AbortFanOut, Allocation!vars
  <2>10. ASSUME NEW w \in Waiter, CallAgain(w) PROVE Allocation!Next
    BY <2>10 DEF CallAgain, Allocation!Next, Allocation!Renew
  <2> QED
    BY <2>2, <2>3, <2>4, <2>5, <2>6, <2>7, <2>8, <2>9, <2>10 DEF Next
<1> QED
  BY <1>1, <1>2, BookCorrect, PTL DEF Spec, AllocationSpec, Allocation!Spec
=============================================================================
