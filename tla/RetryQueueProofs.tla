--------------------------- MODULE RetryQueueProofs ---------------------------
(***************************************************************************)
(* Proofs about RetryQueue, for any limits, users, requests, refused writes*)
(* and restarts: no request is queued twice or tried too often, and the    *)
(* storage follows the queue.                                              *)
(***************************************************************************)
EXTENDS RetryQueue, SequenceTheorems, TLAPS

(* Requests are numbered as they come. *)
Known(q) == ToSet(q) \subseteq 1 .. made

Order ==
  /\ Known(queue) /\ Known(stored.queue) /\ IsInjective(stored.queue)
  /\ due \subseteq 1 .. made

(* What left the queue in flight was dropped. *)
Dropped == due \ Queued \subseteq dropped

(* The count of a request is behind its attempts by what restarts and      *)
(* refused writes forgot; the stored one also by the attempt of this cycle.*)
Forgotten == restarts + failures

CountsKept ==
  MaxRetries > 0 =>
    /\ \A r \in Request : attempts[r] <= MaxRetries + Forgotten
    /\ \A r \in Request : r > made => attempts[r] = 0 /\ count[r] = 0
    /\ \A r \in Queued \cup due :
         attempts[r] <= count[r] + Forgotten /\ count[r] < MaxRetries
    /\ \A r \in ToSet(stored.queue) :
         /\ attempts[r] <= stored.count[r] + Forgotten
                             + (IF cycle = "sending" /\ r \notin due THEN 1 ELSE 0)
         /\ stored.count[r] < MaxRetries

QueueInv == TypeOK /\ Order /\ Dropped /\ StorageFollowsQueue /\ CountsKept

USE RetryQueueAssumption

-----------------------------------------------------------------------------
(* The queue as a sequence without repetitions.                            *)

LEMMA AppendSet ==
  ASSUME NEW q \in Seq(Request), NEW r \in Request
  PROVE  /\ Append(q, r) \in Seq(Request)
         /\ ToSet(Append(q, r)) = ToSet(q) \cup {r}
         /\ IsInjective(q) /\ r \notin ToSet(q) => IsInjective(Append(q, r))
<1> DEFINE a == Append(q, r)
<1>1. /\ a \in Seq(Request) /\ Len(a) = Len(q) + 1 /\ a[Len(q) + 1] = r
      /\ \A i \in 1 .. Len(q) : a[i] = q[i]
      /\ DOMAIN a = 1 .. Len(q) + 1 /\ DOMAIN q = 1 .. Len(q) /\ Len(q) \in Nat
  OBVIOUS
<1> HIDE DEF a
<1>2. ToSet(a) = ToSet(q) \cup {r} BY <1>1 DEF ToSet
<1>3. IsInjective(q) /\ r \notin ToSet(q) => IsInjective(a) BY <1>1 DEF IsInjective, ToSet
<1> QED BY <1>1, <1>2, <1>3 DEF a

(* A sequence that takes places h of q, each once.                         *)
LEMMA Selection ==
  ASSUME NEW q \in Seq(Request), NEW s \in Seq(Request),
         NEW h \in [1 .. Len(s) -> 1 .. Len(q)],
         \A i \in 1 .. Len(s) : s[i] = q[h[i]],
         \A i, j \in 1 .. Len(s) : h[i] = h[j] => i = j
  PROVE  /\ IsInjective(q) => IsInjective(s)
         /\ ToSet(s) = {q[h[i]] : i \in 1 .. Len(s)}
<1>1. DOMAIN s = 1 .. Len(s) /\ DOMAIN q = 1 .. Len(q) OBVIOUS
<1>2. ASSUME IsInjective(q), NEW i \in 1 .. Len(s), NEW j \in 1 .. Len(s), s[i] = s[j]
      PROVE  i = j
  <2>1. h[i] \in 1 .. Len(q) /\ h[j] \in 1 .. Len(q) OBVIOUS
  <2>2. q[h[i]] = q[h[j]] BY <1>2
  <2>3. h[i] = h[j] BY <1>1, <1>2, <2>1, <2>2 DEF IsInjective
  <2> QED BY <2>3
<1>3. ASSUME IsInjective(q) PROVE IsInjective(s)
  <2>1. \A i, j \in 1 .. Len(s) : s[i] = s[j] => i = j BY <1>2, <1>3
  <2>2. \A i, j \in DOMAIN s : s[i] = s[j] => i = j BY <1>1, <2>1
  <2> QED BY <2>2, ZenonT(30) DEF IsInjective
<1>4. ToSet(s) = {q[h[i]] : i \in 1 .. Len(s)}
  <2>1. ToSet(s) = {s[i] : i \in 1 .. Len(s)} BY <1>1, ZenonT(30) DEF ToSet
  <2>2. {s[i] : i \in 1 .. Len(s)} = {q[h[i]] : i \in 1 .. Len(s)} OBVIOUS
  <2> QED BY <2>1, <2>2
<1> QED BY <1>3, <1>4

LEMMA TailSet ==
  ASSUME NEW q \in Seq(Request), q # <<>>
  PROVE  /\ Head(q) \in Request /\ Tail(q) \in Seq(Request)
         /\ ToSet(q) = ToSet(Tail(q)) \cup {Head(q)}
         /\ IsInjective(q) => IsInjective(Tail(q))
<1> DEFINE s == Tail(q)
           h == [i \in 1 .. Len(s) |-> i + 1]
<1>1. /\ s \in Seq(Request) /\ Len(q) \in Nat \ {0} /\ Len(s) = Len(q) - 1 /\ Head(q) = q[1]
      /\ \A i \in 1 .. Len(q) - 1 : s[i] = q[i + 1]
      /\ DOMAIN q = 1 .. Len(q) /\ Head(q) \in Request
  OBVIOUS
<1>2. /\ h \in [1 .. Len(s) -> 1 .. Len(q)]
      /\ \A i \in 1 .. Len(s) : h[i] = i + 1
      /\ \A i \in 1 .. Len(s) : s[i] = q[h[i]]
      /\ \A i, j \in 1 .. Len(s) : h[i] = h[j] => i = j
  BY <1>1
<1>0. s \in Seq(Request) BY <1>1
<1> HIDE DEF s, h
<1>3. /\ IsInjective(q) => IsInjective(s)
      /\ ToSet(s) = {q[h[i]] : i \in 1 .. Len(s)}
  BY <1>0, <1>2, Selection
<1>4. ASSUME NEW i \in 1 .. Len(q) PROVE q[i] \in ToSet(s) \cup {q[1]}
  <2>1. CASE i = 1 BY <2>1
  <2>2. CASE i # 1
    <3>1. i - 1 \in 1 .. Len(s) BY <1>1, <2>2
    <3>2. h[i - 1] = i BY <1>1, <1>2, <3>1
    <3> QED BY <1>3, <3>1, <3>2
  <2> QED BY <2>1, <2>2
<1>5. ASSUME NEW i \in 1 .. Len(s) PROVE q[h[i]] \in ToSet(q)
  BY <1>1, <1>2 DEF ToSet
<1>6. q[1] \in ToSet(q) BY <1>1 DEF ToSet
<1>7. ToSet(q) = ToSet(s) \cup {q[1]}
  <2>1. ToSet(q) = {q[i] : i \in 1 .. Len(q)} BY <1>1 DEF ToSet
  <2> QED BY <1>3, <1>4, <1>5, <1>6, <2>1
<1> QED BY <1>1, <1>3, <1>7 DEF s

LEMMA RemoveSet ==
  ASSUME NEW q \in Seq(Request), IsInjective(q), NEW k \in 1 .. Len(q)
  PROVE  /\ RemoveAt(q, k) \in Seq(Request)
         /\ ToSet(RemoveAt(q, k)) = ToSet(q) \ {q[k]}
         /\ IsInjective(RemoveAt(q, k))
<1> DEFINE s == RemoveAt(q, k)
           a == SubSeq(q, 1, k - 1)
           b == SubSeq(q, k + 1, Len(q))
           h == [i \in 1 .. Len(s) |-> IF i < k THEN i ELSE i + 1]
<1>1. /\ a \in Seq(Request) /\ Len(a) = k - 1
      /\ \A i \in 1 .. k - 1 : a[i] = q[i]
  OBVIOUS
<1>2. /\ b \in Seq(Request) /\ Len(b) = Len(q) - k
      /\ \A i \in 1 .. Len(q) - k : b[i] = q[i + k]
  OBVIOUS
<1>3. s = a \o b BY DEF RemoveAt
<1> HIDE DEF a, b, s
<1>4. /\ s \in Seq(Request) /\ Len(s) = Len(q) - 1
      /\ \A i \in 1 .. Len(s) : s[i] = IF i <= Len(a) THEN a[i] ELSE b[i - Len(a)]
  <2>1. a \in Seq(Request) /\ b \in Seq(Request) BY <1>1, <1>2
  <2>2. /\ a \o b \in Seq(Request) /\ Len(a \o b) = Len(a) + Len(b)
        /\ \A i \in 1 .. Len(a) + Len(b) : (a \o b)[i] = IF i <= Len(a) THEN a[i] ELSE b[i - Len(a)]
    BY <2>1, ConcatProperties
  <2>3. Len(a) + Len(b) = Len(q) - 1 BY <1>1, <1>2
  <2> QED BY <1>3, <2>2, <2>3
<1>5. ASSUME NEW i \in 1 .. Len(s) PROVE s[i] = q[IF i < k THEN i ELSE i + 1]
  <2>1. CASE i < k BY <1>1, <1>4, <2>1
  <2>2. CASE i >= k
    <3>1. i - (k - 1) \in 1 .. Len(q) - k BY <1>4, <2>2
    <3>2. b[i - (k - 1)] = q[i + 1] BY <1>2, <3>1
    <3> QED BY <1>1, <1>4, <2>2, <3>2
  <2> QED BY <2>1, <2>2
<1>6. /\ h \in [1 .. Len(s) -> 1 .. Len(q)]
      /\ \A i \in 1 .. Len(s) : h[i] = IF i < k THEN i ELSE i + 1
      /\ \A i \in 1 .. Len(s) : h[i] # k
      /\ \A i, j \in 1 .. Len(s) : h[i] = h[j] => i = j
  BY <1>4
<1> HIDE DEF h
<1>7. \A i \in 1 .. Len(s) : s[i] = q[h[i]] BY <1>5, <1>6
<1>8. /\ IsInjective(s)
      /\ ToSet(s) = {q[h[i]] : i \in 1 .. Len(s)}
  BY <1>4, <1>6, <1>7, Selection
<1>9. ToSet(q) = {q[i] : i \in 1 .. Len(q)} BY DEF ToSet
<1>10. ASSUME NEW i \in 1 .. Len(q), i # k PROVE \E j \in 1 .. Len(s) : h[j] = i
  <2>1. CASE i < k
    <3>1. i \in 1 .. Len(s) BY <1>4, <2>1
    <3> QED BY <1>6, <2>1, <3>1
  <2>2. CASE i > k
    <3>1. i - 1 \in 1 .. Len(s) BY <1>4, <2>2
    <3>2. h[i - 1] = i BY <1>6, <2>2, <3>1
    <3> QED BY <3>1, <3>2
  <2> QED BY <1>10, <2>1, <2>2
<1>11. ASSUME NEW i \in 1 .. Len(s) PROVE q[h[i]] # q[k]
  BY <1>6 DEF IsInjective
<1>12. ToSet(s) = ToSet(q) \ {q[k]}
  <2>1. ToSet(s) \subseteq ToSet(q) \ {q[k]}
    BY <1>6, <1>8, <1>9, <1>11
  <2>2. ASSUME NEW i \in 1 .. Len(q), q[i] # q[k] PROVE q[i] \in ToSet(s)
    <3>1. i # k BY <2>2
    <3>2. PICK j \in 1 .. Len(s) : h[j] = i BY <1>10, <3>1
    <3> QED BY <1>8, <3>2
  <2> QED BY <1>9, <2>1, <2>2
<1> QED BY <1>4, <1>8, <1>12 DEF s

LEMMA DeleteSet ==
  ASSUME TypeOK, NEW r
  PROVE  /\ DeleteFromMap(r) \in Seq(Request) /\ IsInjective(DeleteFromMap(r))
         /\ ToSet(DeleteFromMap(r)) = Queued \ {r}
<1>1. CASE r \in Queued
  <2> DEFINE k == CHOOSE i \in 1 .. Len(queue) : queue[i] = r
  <2>1. \E i \in 1 .. Len(queue) : queue[i] = r BY <1>1 DEF Queued, ToSet, TypeOK
  <2>2. k \in 1 .. Len(queue) /\ queue[k] = r BY <2>1
  <2>3. DeleteFromMap(r) = RemoveAt(queue, k) BY <1>1 DEF DeleteFromMap
  <2> HIDE DEF k
  <2> QED BY <2>2, <2>3, RemoveSet DEF Queued, TypeOK
<1>2. CASE r \notin Queued BY <1>2 DEF DeleteFromMap, TypeOK, Queued
<1> QED BY <1>1, <1>2

LEMMA SetSet ==
  ASSUME TypeOK, NEW r \in Request
  PROVE  /\ SetInMap(r) \in Seq(Request) /\ IsInjective(SetInMap(r))
         /\ ToSet(SetInMap(r)) = Queued \cup {r}
BY AppendSet DEF SetInMap, Queued, TypeOK

LEMMA QueuedRequests == TypeOK => Queued \subseteq Request
BY DEF TypeOK, Queued, ToSet

-----------------------------------------------------------------------------
(* Types, the storage, and what is due.                                    *)

SetsInv == TypeOK /\ Order /\ Dropped /\ StorageFollowsQueue

Elsewhere ==
  /\ limited \in BOOLEAN /\ paused \in BOOLEAN /\ hadUser \in BOOLEAN
  /\ currentUser \in User \cup {NoUser}
  /\ attempts \in [Request -> Nat] /\ waiting \subseteq Request
  /\ changes \in 0 .. MaxEvents /\ restarts \in 0 .. MaxEvents

LEMMA PersistStores ==
  ASSUME TypeOK, Order, Persist,
         queue' \in Seq(Request), IsInjective(queue'), count' \in [Request -> Nat],
         made' \in 0 .. MaxRequests, made <= made', Known(queue)'
  PROVE  /\ stored'.queue \in Seq(Request) /\ IsInjective(stored'.queue)
         /\ stored'.waiting \subseteq ToSet(stored'.queue)
         /\ stored'.count \in [ToSet(stored'.queue) -> Nat]
         /\ failures' \in 0 .. MaxEvents
         /\ Known(stored.queue)'
         /\ failures' = 0 =>
              stored'.queue = queue' /\ \A r \in ToSet(queue') : stored'.count[r] = count'[r]
<1>1. CASE stored' = Snapshot(queue', count', waiting') /\ failures' = failures
  <2>1. /\ stored'.queue = queue' /\ stored'.waiting \subseteq ToSet(queue')
        /\ stored'.count = [r \in ToSet(queue') |-> count'[r]]
    BY <1>1 DEF Snapshot
  <2>2. ToSet(queue') \subseteq Request BY DEF ToSet
  <2> QED BY <1>1, <2>1, <2>2 DEF TypeOK, Known
<1>2. CASE EventsLeft /\ failures' = failures + 1 /\ stored' = stored
  <2>1. failures' \in 0 .. MaxEvents /\ failures' # 0 BY <1>2 DEF EventsLeft, TypeOK
  <2> QED BY <1>2, <2>1 DEF TypeOK, Order, Known
<1> QED BY <1>1, <1>2 DEF Persist

(* A step that saves the queue, whatever it does to it.                    *)
LEMMA SavingKeeps ==
  ASSUME SetsInv, Persist, Elsewhere',
         queue' \in Seq(Request), IsInjective(queue'), count' \in [Request -> Nat],
         made' \in 0 .. MaxRequests, made <= made', Known(queue)',
         due' \subseteq due, dropped \subseteq dropped', dropped' \subseteq Request,
         due' \ Queued' \subseteq dropped',
         cycle' \in {"no", "sending", "saving"}, cycle' = "sending" <=> due' # {}
  PROVE  SetsInv'
<1>1. TypeOK'
  BY PersistStores DEF SetsInv, TypeOK, Elsewhere
<1>2. Order'
  <2>1. due \subseteq 1 .. made /\ made \in Nat /\ made' \in Nat BY DEF SetsInv, Order, TypeOK
  <2>2. due' \subseteq 1 .. made' BY <2>1
  <2>3. Known(stored.queue)' /\ IsInjective(stored'.queue) BY PersistStores DEF SetsInv
  <2> QED BY <2>2, <2>3 DEF Order
<1>3. StorageFollowsQueue'
  <2>1. failures' = 0 =>
          stored'.queue = queue' /\ \A r \in ToSet(queue') : stored'.count[r] = count'[r]
    BY PersistStores DEF SetsInv
  <2> QED BY <2>1 DEF StorageFollowsQueue, Queued
<1> QED BY <1>1, <1>2, <1>3 DEF SetsInv, Dropped

(* A step in a cycle that goes on, and saves nothing.                      *)
LEMMA SendingKeeps ==
  ASSUME SetsInv, UNCHANGED <<stored, failures, made, dropped>>, Elsewhere',
         queue' \in Seq(Request), IsInjective(queue'), count' \in [Request -> Nat],
         due' \subseteq due, due' # {}, cycle' = "sending",
         Queued' \subseteq Queued \cup due,
         Queued \cap due' \subseteq Queued'
  PROVE  SetsInv'
<1>1. TypeOK' BY DEF SetsInv, TypeOK, Elsewhere
<1>2. Order' BY DEF SetsInv, Order, Known, Queued
<1>3. Dropped' BY DEF SetsInv, Dropped
<1>4. StorageFollowsQueue' BY DEF SetsInv, StorageFollowsQueue, Dropped
<1> QED BY <1>1, <1>2, <1>3, <1>4 DEF SetsInv

LEMMA QueueInit == Init => QueueInv
<1> SUFFICES ASSUME Init PROVE QueueInv
  OBVIOUS
<1>1. /\ stored.queue = <<>> /\ stored.waiting = {}
      /\ stored.count = [r \in {} |-> 0] /\ ToSet(<<>>) = {}
  BY DEF Init, Snapshot, ToSet
<1>2. Queued = {} BY <1>1 DEF Init, Queued
<1>3. TypeOK
  <2>1. queue \in Seq(Request) /\ IsInjective(queue) /\ stored.queue \in Seq(Request)
    <3>1. queue = <<>> /\ stored.queue = <<>> BY <1>1 DEF Init
    <3>2. <<>> \in Seq(Request) /\ IsInjective(<<>>) BY DEF IsInjective
    <3> QED BY <3>1, <3>2
  <2>2. stored.count \in [ToSet(stored.queue) -> Nat] /\ stored.waiting \subseteq ToSet(stored.queue)
    <3>1. ToSet(stored.queue) = {} BY <1>1
    <3>2. stored.count \in [{} -> Nat] BY <1>1
    <3> QED BY <1>1, <3>1, <3>2
  <2>3. count \in [Request -> Nat] /\ attempts \in [Request -> Nat] BY DEF Init
  <2>4. /\ waiting \subseteq Request /\ due \subseteq Request /\ dropped \subseteq Request
        /\ cycle \in {"no", "sending", "saving"} /\ (cycle = "sending" <=> due # {})
        /\ limited \in BOOLEAN /\ paused \in BOOLEAN /\ hadUser \in BOOLEAN
        /\ currentUser \in User \cup {NoUser}
    BY DEF Init
  <2>5. /\ made \in 0 .. MaxRequests /\ changes \in 0 .. MaxEvents
        /\ restarts \in 0 .. MaxEvents /\ failures \in 0 .. MaxEvents
    BY DEF Init
  <2> QED BY <2>1, <2>2, <2>3, <2>4, <2>5 DEF TypeOK
<1>4. Order BY <1>1, <1>2 DEF Init, Order, Known, Queued, IsInjective
<1>5. Dropped /\ StorageFollowsQueue BY <1>1, <1>2 DEF Init, Dropped, StorageFollowsQueue
<1>6. CountsKept BY <1>1, <1>2 DEF Init, CountsKept, Forgotten
<1> QED BY <1>3, <1>4, <1>5, <1>6 DEF QueueInv

LEMMA EnqueueSets ==
  ASSUME SetsInv, Enqueue
  PROVE  /\ SetsInv'
         /\ Queued' \subseteq Queued \cup {made + 1} /\ made + 1 \in Request
<1> USE DEF SetsInv
<1> DEFINE full == Len(queue) >= MaxQueueSize
           rest == IF full THEN Tail(queue) ELSE queue
<1>1. /\ made < MaxRequests /\ made' = made + 1 /\ made' \in Request
      /\ made' \in 0 .. MaxRequests
  BY DEF Enqueue, TypeOK, Request
<1>2. full => queue # <<>> BY DEF TypeOK
<1>3. /\ rest \in Seq(Request) /\ IsInjective(rest)
      /\ ToSet(rest) \subseteq Queued
      /\ full => Head(queue) \in Request /\ Queued = ToSet(rest) \cup {Head(queue)}
      /\ ~full => Queued = ToSet(rest)
  BY <1>2, TailSet DEF TypeOK, Queued
<1>4. /\ queue' = Append(rest, made')
      /\ dropped' = dropped \cup (IF full THEN {Head(queue)} ELSE {})
      /\ Persist
      /\ UNCHANGED <<count, waiting, cycle, due, limited, auth, changes, restarts, attempts>>
  BY DEF Enqueue
<1> HIDE DEF rest
<1>5. made' \notin ToSet(rest)
  BY <1>1, <1>3 DEF Order, Known, Queued, TypeOK
<1>6. /\ queue' \in Seq(Request) /\ ToSet(queue') = ToSet(rest) \cup {made'}
      /\ IsInjective(queue')
  BY <1>1, <1>3, <1>4, <1>5, AppendSet
<1>7. Known(queue)' /\ made <= made'
  BY <1>1, <1>3, <1>6 DEF Order, Known, Queued, TypeOK
<1>8. dropped \subseteq dropped' /\ dropped' \subseteq Request
  BY <1>3, <1>4 DEF TypeOK
<1>9. due' \ Queued' \subseteq dropped'
  BY <1>3, <1>4, <1>6 DEF Dropped, Queued
<1>10. Elsewhere' BY <1>4 DEF Elsewhere, TypeOK, auth
<1>11. SetsInv'
  <2>1. /\ count' \in [Request -> Nat] /\ due' \subseteq due
        /\ cycle' \in {"no", "sending", "saving"} /\ (cycle' = "sending" <=> due' # {})
    BY <1>4 DEF TypeOK
  <2> HIDE DEF SetsInv
  <2> QED BY <1>1, <1>4, <1>6, <1>7, <1>8, <1>9, <1>10, <2>1, SavingKeeps
<1> QED BY <1>1, <1>3, <1>6, <1>11 DEF Queued

(* The cycle goes on or ends after the answer to r.                        *)
LEMMA AnswerSets ==
  ASSUME SetsInv, NEW r \in due, NEW rest \in SUBSET due, r \notin rest, Continue(rest),
         UNCHANGED <<auth, world, dropped>>,
         limited' \in BOOLEAN, attempts' \in [Request -> Nat], waiting' \subseteq Request,
         count' \in [Request -> Nat],
         queue' = DeleteFromMap(r) \/ queue' = SetInMap(r)
  PROVE  SetsInv'
<1> USE DEF SetsInv
<1>1. r \in Request BY DEF TypeOK
<1>2. /\ queue' \in Seq(Request) /\ IsInjective(queue')
      /\ Queued' = Queued \ {r} \/ Queued' = Queued \cup {r}
  BY <1>1, DeleteSet, SetSet DEF Queued
<1>3. Elsewhere' BY DEF Elsewhere, TypeOK, auth, world
<1>4. made' \in 0 .. MaxRequests /\ made <= made' /\ Known(queue)'
  BY <1>1, <1>2 DEF Order, Known, Queued, TypeOK, world
<1>5. CASE rest = {}
  <2>1. due' = {} /\ cycle' = "saving" /\ Persist BY <1>5 DEF Continue
  <2>2. dropped' = dropped /\ dropped' \subseteq Request BY DEF TypeOK
  <2> HIDE DEF SetsInv
  <2> QED BY <1>2, <1>3, <1>4, <2>1, <2>2, SavingKeeps
<1>6. CASE rest # {}
  <2>1. due' = rest /\ cycle' = cycle /\ UNCHANGED <<stored, failures>>
    BY <1>6 DEF Continue, storage
  <2>2. cycle' = "sending" BY <2>1 DEF TypeOK
  <2>3. UNCHANGED <<stored, failures, made, dropped>> BY <2>1 DEF world
  <2>4. Queued' \subseteq Queued \cup due /\ Queued \cap due' \subseteq Queued'
    BY <1>2, <2>1
  <2> HIDE DEF SetsInv
  <2> QED BY <1>2, <1>3, <1>6, <2>1, <2>2, <2>3, <2>4, SendingKeeps
<1> QED BY <1>5, <1>6

LEMMA CycleSets ==
  ASSUME SetsInv,
         \/ StartCycle \/ EndCycle \/ LimitElapses
         \/ \E r \in Request : Answered(r) \/ BackoffElapses(r)
  PROVE  SetsInv'
<1>1. ASSUME NEW r \in Request, Answered(r) PROVE SetsInv'
  <2>0. r \in due /\ due \ {r} \in SUBSET due /\ r \notin due \ {r}
    BY <1>1 DEF Answered, Settled, RateLimited, Failed, InFlight
  <2>1. CASE Settled(r)
    <3>1. /\ limited' \in BOOLEAN /\ attempts' \in [Request -> Nat] /\ waiting' \subseteq Request
          /\ count' \in [Request -> Nat]
      BY <2>1 DEF Settled, SetsInv, TypeOK
    <3> QED BY <2>0, <2>1, <3>1, AnswerSets DEF Settled
  <2>2. CASE RateLimited(r)
    <3>1. /\ limited' \in BOOLEAN /\ attempts' \in [Request -> Nat] /\ waiting' \subseteq Request
          /\ count' \in [Request -> Nat] /\ {} \in SUBSET due /\ r \notin {}
      BY <2>2 DEF RateLimited, SetsInv, TypeOK
    <3> QED BY <2>0, <2>2, <3>1, AnswerSets DEF RateLimited
  <2>3. CASE Failed(r)
    <3>1. /\ limited' \in BOOLEAN /\ attempts' \in [Request -> Nat] /\ waiting' \subseteq Request
          /\ count' \in [Request -> Nat]
      BY <2>3 DEF Failed, SetsInv, TypeOK
    <3>2. queue' = DeleteFromMap(r) \/ queue' = SetInMap(r) BY <2>3 DEF Failed
    <3> QED BY <2>0, <2>3, <3>1, <3>2, AnswerSets DEF Failed
  <2> QED BY <1>1, <2>1, <2>2, <2>3 DEF Answered
<1>2. CASE StartCycle
  <2>1. /\ cycle = "no" /\ due' = Queued \ waiting /\ due' # {} /\ cycle' = "sending"
        /\ UNCHANGED <<queue, count, waiting, limited, stored, failures, made, dropped, attempts>>
        /\ UNCHANGED <<paused, currentUser, hadUser, changes, restarts>>
    BY <1>2 DEF StartCycle, auth, storage, world
  <2>2. Queued' = Queued BY <2>1 DEF Queued
  <2>3. TypeOK' BY <2>1, QueuedRequests DEF SetsInv, TypeOK
  <2>4. Order' BY <2>1 DEF SetsInv, Order, Known, Queued
  <2>5. Dropped' /\ StorageFollowsQueue'
    BY <2>1, <2>2 DEF SetsInv, Dropped, StorageFollowsQueue
  <2> QED BY <2>3, <2>4, <2>5 DEF SetsInv
<1>3. CASE EndCycle
  BY <1>3 DEF EndCycle, auth, storage, world, SetsInv, TypeOK, Order, Known, Queued, Dropped,
              StorageFollowsQueue
<1>4. CASE LimitElapses
  BY <1>4 DEF LimitElapses, auth, storage, world, SetsInv, TypeOK, Order, Known, Queued, Dropped,
              StorageFollowsQueue
<1>5. ASSUME NEW r \in Request, BackoffElapses(r) PROVE SetsInv'
  BY <1>5 DEF BackoffElapses, auth, storage, world, SetsInv, TypeOK, Order, Known, Queued, Dropped,
              StorageFollowsQueue
<1> QED BY <1>1, <1>2, <1>3, <1>4, <1>5

LEMMA AuthSets ==
  ASSUME SetsInv, SignOut \/ SuspendSession \/ \E u \in User \cup {NoUser} : SignIn(u)
  PROVE  SetsInv'
<1> USE DEF SetsInv
<1>1. /\ AuthChanges /\ (Clear \/ Keep)
      /\ paused' \in BOOLEAN /\ hadUser' \in BOOLEAN /\ currentUser' \in User \cup {NoUser}
  BY DEF SignOut, SuspendSession, SignIn, TypeOK
<1>2. changes' \in 0 .. MaxEvents
  BY <1>1 DEF AuthChanges, EventsLeft, TypeOK
<1>3. UNCHANGED <<count, waiting, cycle, due, limited, made, restarts, attempts>>
  BY <1>1 DEF AuthChanges
<1>4. Elsewhere' BY <1>1, <1>2, <1>3 DEF Elsewhere, TypeOK
<1>5. CASE Clear
  <2>1. queue' = <<>> /\ dropped' = dropped \cup Queued /\ Persist BY <1>5 DEF Clear
  <2>2. <<>> \in Seq(Request) /\ IsInjective(<<>>) /\ ToSet(<<>>) = {} BY DEF IsInjective, ToSet
  <2>3. Known(queue)' /\ made' \in 0 .. MaxRequests /\ made <= made'
    BY <1>3, <2>1, <2>2 DEF Known, TypeOK
  <2>4. /\ dropped \subseteq dropped' /\ dropped' \subseteq Request
        /\ due' \ Queued' \subseteq dropped'
    BY <1>3, <2>1, QueuedRequests DEF TypeOK, Dropped
  <2>5. /\ count' \in [Request -> Nat] /\ due' \subseteq due
        /\ cycle' \in {"no", "sending", "saving"} /\ (cycle' = "sending" <=> due' # {})
    BY <1>3 DEF TypeOK
  <2>6. queue' \in Seq(Request) /\ IsInjective(queue') BY <2>1, <2>2
  <2> HIDE DEF SetsInv
  <2> QED BY <1>4, <2>1, <2>3, <2>4, <2>5, <2>6, SavingKeeps
<1>6. CASE Keep
  <2>1. UNCHANGED <<queue, dropped, stored, failures>> BY <1>6 DEF Keep, storage
  <2>2. TypeOK' BY <1>3, <1>4, <2>1 DEF TypeOK, Elsewhere
  <2> QED BY <1>3, <2>1, <2>2 DEF Order, Known, Queued, Dropped, StorageFollowsQueue
<1> QED BY <1>1, <1>5, <1>6

LEMMA RestartSets == ASSUME SetsInv, Restart PROVE SetsInv'
<1> USE DEF SetsInv
<1>1. /\ queue' = stored.queue /\ due' = {} /\ cycle' = "no"
      /\ count' = [r \in Request |-> IF r \in ToSet(queue') THEN stored.count[r] ELSE 0]
      /\ UNCHANGED <<stored, failures, made, changes, attempts, dropped>>
      /\ restarts' \in 0 .. MaxEvents /\ waiting' \subseteq Request
      /\ limited' \in BOOLEAN /\ paused' \in BOOLEAN /\ hadUser' \in BOOLEAN
      /\ currentUser' \in User \cup {NoUser}
  <2>1. restarts' \in 0 .. MaxEvents BY DEF Restart, EventsLeft, TypeOK
  <2>2. waiting' \subseteq Request BY DEF Restart, TypeOK
  <2> QED BY <2>1, <2>2 DEF Restart, storage
<1>2. count' \in [Request -> Nat] /\ \A r \in ToSet(stored.queue) : count'[r] = stored.count[r]
  <2>1. ToSet(stored.queue) \subseteq Request BY DEF TypeOK, ToSet
  <2>2. \A r \in ToSet(stored.queue) : stored.count[r] \in Nat BY DEF TypeOK
  <2>3. count' = [r \in Request |-> IF r \in ToSet(stored.queue) THEN stored.count[r] ELSE 0]
    BY <1>1
  <2> QED BY <2>1, <2>2, <2>3
<1>3. TypeOK'
  <2>1. queue' \in Seq(Request) /\ IsInjective(queue') BY <1>1 DEF TypeOK, Order
  <2>2. cycle' = "sending" <=> due' # {} BY <1>1
  <2> QED BY <1>1, <1>2, <2>1, <2>2 DEF TypeOK
<1>4. Order' BY <1>1 DEF Order, Known
<1>5. Dropped' /\ StorageFollowsQueue'
  BY <1>1, <1>2 DEF Dropped, StorageFollowsQueue, Queued
<1> QED BY <1>3, <1>4, <1>5

LEMMA SetsKept == SetsInv /\ [Next]_vars => SetsInv'
<1> SUFFICES ASSUME SetsInv, [Next]_vars PROVE SetsInv'
  OBVIOUS
<1>1. CASE UNCHANGED vars
  BY <1>1 DEF vars, auth, storage, world, SetsInv, TypeOK, Order, Known, Queued, Dropped,
              StorageFollowsQueue
<1>2. CASE Next
  BY <1>2, EnqueueSets, CycleSets, AuthSets, RestartSets DEF Next
<1> QED BY <1>1, <1>2

-----------------------------------------------------------------------------
(* The count of attempts.                                                  *)

LEMMA StoredCounts ==
  ASSUME SetsInv, Persist, restarts' = restarts,
         \A r \in Queued' :
           attempts'[r] <= count'[r] + Forgotten' /\ count'[r] < MaxRetries,
         \A r \in ToSet(stored.queue) :
           attempts'[r] <= stored.count[r] + Forgotten + 1 /\ stored.count[r] < MaxRetries
  PROVE  /\ Forgotten <= Forgotten' /\ Forgotten' \in Nat
         /\ \A r \in ToSet(stored'.queue) :
              attempts'[r] <= stored'.count[r] + Forgotten' /\ stored'.count[r] < MaxRetries
<1> USE DEF SetsInv, TypeOK, Forgotten
<1>1. CASE stored' = Snapshot(queue', count', waiting') /\ failures' = failures
  <2>1. stored'.queue = queue' /\ stored'.count = [r \in ToSet(queue') |-> count'[r]]
    BY <1>1 DEF Snapshot
  <2> QED BY <1>1, <2>1 DEF Queued
<1>2. CASE failures' = failures + 1 /\ stored' = stored
  <2>1. Forgotten' = Forgotten + 1 /\ Forgotten \in Nat BY <1>2
  <2>2. \A r \in ToSet(stored.queue) : stored.count[r] \in Nat OBVIOUS
  <2>3. \A r \in ToSet(stored.queue) : attempts'[r] <= stored.count[r] + Forgotten'
    <3>1. \A r \in ToSet(stored.queue) : stored.count[r] + Forgotten + 1 = stored.count[r] + Forgotten'
      BY <2>1, <2>2
    <3> QED BY <3>1
  <2> QED BY <1>2, <2>1, <2>3
<1> QED BY <1>1, <1>2 DEF Persist

(* What the invariant says of one more forgotten attempt.                  *)
LEMMA CountsFacts ==
  ASSUME SetsInv, CountsKept, MaxRetries > 0
  PROVE  /\ Forgotten \in Nat
         /\ \A r \in ToSet(stored.queue) :
              /\ r \in Request /\ stored.count[r] \in Nat /\ stored.count[r] < MaxRetries
              /\ attempts[r] <= stored.count[r] + Forgotten + 1
              /\ cycle # "sending" \/ r \in due => attempts[r] <= stored.count[r] + Forgotten
<1>1. Forgotten \in Nat BY DEF SetsInv, TypeOK, Forgotten
<1>2. ASSUME NEW r \in ToSet(stored.queue)
      PROVE  /\ r \in Request /\ stored.count[r] \in Nat /\ stored.count[r] < MaxRetries
             /\ attempts[r] <= stored.count[r] + Forgotten + 1
             /\ cycle # "sending" \/ r \in due => attempts[r] <= stored.count[r] + Forgotten
  <2>1. r \in Request /\ stored.count[r] \in Nat BY DEF SetsInv, TypeOK, ToSet
  <2>2. attempts[r] \in Nat BY <2>1 DEF SetsInv, TypeOK
  <2>3. /\ attempts[r] <= stored.count[r] + Forgotten
                           + (IF cycle = "sending" /\ r \notin due THEN 1 ELSE 0)
        /\ stored.count[r] < MaxRetries
    BY DEF CountsKept
  <2> QED BY <1>1, <2>1, <2>2, <2>3
<1> QED BY <1>1, <1>2

(* A step that saves the queue and tries no request.                       *)
LEMMA SavingCounts ==
  ASSUME SetsInv, SetsInv', CountsKept, Persist, made <= made',
         UNCHANGED <<attempts, count, restarts>>,
         Queued' \cup due' \subseteq Queued \cup due \cup {r \in Request : r > made}
  PROVE  CountsKept'
<1> SUFFICES ASSUME MaxRetries > 0 PROVE CountsKept'
  BY DEF CountsKept
<1>0. /\ restarts \in Nat /\ failures \in Nat /\ failures' \in Nat /\ made \in Nat
      /\ restarts' = restarts /\ attempts' = attempts /\ count' = count
      /\ \A r \in Request : attempts[r] \in Nat /\ count[r] \in Nat
      /\ Queued' \subseteq Request /\ due' \subseteq Request
  <2>1. Queued' \subseteq Request BY DEF SetsInv, TypeOK, Queued, ToSet
  <2> QED BY <2>1 DEF SetsInv, TypeOK
<1>1. Forgotten \in Nat /\ Forgotten' \in Nat /\ Forgotten <= Forgotten'
  <2>1. failures' = failures \/ failures' = failures + 1 BY DEF Persist
  <2>2. Forgotten = restarts + failures /\ Forgotten' = restarts' + failures' BY DEF Forgotten
  <2>3. restarts \in Nat /\ failures \in Nat /\ restarts' = restarts BY <1>0
  <2> QED BY <2>1, <2>2, <2>3
<1>2. ASSUME NEW r \in Queued' \cup due'
      PROVE  attempts'[r] <= count'[r] + Forgotten' /\ count'[r] < MaxRetries
  <2>1. r \in Request BY <1>0
  <2>2. attempts[r] <= count[r] + Forgotten /\ count[r] < MaxRetries
    BY <1>0, <1>1, <2>1 DEF CountsKept
  <2> QED BY <1>0, <1>1, <2>1, <2>2
<1>3. \A r \in ToSet(stored'.queue) :
        attempts'[r] <= stored'.count[r] + Forgotten' /\ stored'.count[r] < MaxRetries
  <2>1. \A r \in ToSet(stored.queue) :
          attempts'[r] <= stored.count[r] + Forgotten + 1 /\ stored.count[r] < MaxRetries
    BY <1>0, CountsFacts
  <2> QED BY <1>0, <1>2, <2>1, StoredCounts
<1>4. ASSUME NEW r \in Request PROVE attempts'[r] <= MaxRetries + Forgotten'
  <2>1. attempts[r] \in Nat /\ attempts[r] <= MaxRetries + Forgotten BY <1>0 DEF CountsKept
  <2> QED BY <1>0, <1>1, <2>1
<1>5. ASSUME NEW r \in Request, r > made' PROVE attempts'[r] = 0 /\ count'[r] = 0
  <2>1. r > made BY <1>0, <1>5 DEF Request, SetsInv, TypeOK
  <2> QED BY <1>0, <2>1 DEF CountsKept
<1>6. ASSUME NEW r \in ToSet(stored'.queue)
      PROVE  attempts'[r] <= stored'.count[r] + Forgotten'
                              + (IF cycle' = "sending" /\ r \notin due' THEN 1 ELSE 0)
  <2>0. stored'.queue \in Seq(Request) /\ stored'.count \in [ToSet(stored'.queue) -> Nat]
    BY DEF SetsInv, TypeOK
  <2>1. r \in Request /\ stored'.count[r] \in Nat
    <3>1. stored'.count[r] \in Nat BY <2>0
    <3>2. ToSet(stored'.queue) \subseteq Request BY <2>0 DEF ToSet
    <3> QED BY <3>1, <3>2
  <2>2. attempts'[r] <= stored'.count[r] + Forgotten' BY <1>3
  <2> QED BY <1>0, <1>1, <2>1, <2>2
<1> QED BY <1>2, <1>3, <1>4, <1>5, <1>6 DEF CountsKept

(* A request that is due was handed to the queue. *)
LEMMA DueMade == SetsInv => \A r \in due : ~(r > made)
<1>1. ASSUME SetsInv, NEW r \in due PROVE ~(r > made)
  <2>1. due \subseteq 1 .. made /\ made \in Nat BY <1>1 DEF SetsInv, Order, TypeOK
  <2>2. r \in 1 .. made BY <1>1, <2>1
  <2> QED BY <2>1, <2>2
<1> QED BY <1>1

(* The count of attempts after an answer to r; s is any request.           *)
LEMMA AnswerCounts ==
  ASSUME SetsInv, SetsInv', CountsKept, NEW r \in due, NEW rest \in SUBSET due, r \notin rest,
         Continue(rest), UNCHANGED world,
         \/ attempts' = attempts
         \/ /\ attempts' = [attempts EXCEPT ![r] = @ + 1]
            /\ count' = [count EXCEPT ![r] = @ + 1],
         \A s \in Request \ {r} : count'[s] = count[s],
         r > made => count'[r] = 0,
         Queued' \subseteq Queued \cup {r},
         MaxRetries > 0 /\ r \in Queued' =>
           attempts'[r] <= count'[r] + Forgotten /\ count'[r] < MaxRetries
  PROVE  CountsKept'
<1> SUFFICES ASSUME MaxRetries > 0 PROVE CountsKept'
  BY DEF CountsKept
<1>0. /\ \A s \in Request : attempts[s] \in Nat /\ count[s] \in Nat /\ attempts'[s] \in Nat
      /\ Queued' \subseteq Request /\ due \subseteq Request
      /\ attempts \in [Request -> Nat] /\ count \in [Request -> Nat]
      /\ made' = made /\ restarts' = restarts
  <2>1. Queued' \subseteq Request BY DEF SetsInv, TypeOK, Queued, ToSet
  <2> QED BY <2>1 DEF SetsInv, TypeOK, world
<1>1. Forgotten \in Nat /\ Forgotten' \in Nat /\ Forgotten <= Forgotten'
  <2>1. failures' = failures \/ failures' = failures + 1
    BY DEF Continue, Persist, storage
  <2>2. Forgotten = restarts + failures /\ Forgotten' = restarts' + failures' BY DEF Forgotten
  <2>3. restarts \in Nat /\ failures \in Nat /\ restarts' = restarts
    BY DEF SetsInv, TypeOK, world
  <2> QED BY <2>1, <2>2, <2>3
<1>2. /\ \A s \in Request \ {r} : attempts'[s] = attempts[s]
      /\ attempts'[r] = attempts[r] \/ attempts'[r] = attempts[r] + 1
  BY <1>0
<1>3. r \in Request /\ attempts[r] <= count[r] + Forgotten /\ count[r] < MaxRetries
  BY <1>0 DEF CountsKept
<1>4. ASSUME NEW s \in Request PROVE attempts'[s] <= MaxRetries + Forgotten'
  <2>1. attempts[s] <= MaxRetries + Forgotten BY DEF CountsKept
  <2>2. CASE s # r BY <1>0, <1>1, <1>2, <2>1, <2>2
  <2>3. CASE s = r
    <3>1. attempts'[r] <= attempts[r] + 1 BY <1>0, <1>2, <1>3
    <3> QED BY <1>0, <1>1, <1>3, <2>3, <3>1
  <2> QED BY <2>2, <2>3
<1>5. ASSUME NEW s \in Request, s > made' PROVE attempts'[s] = 0 /\ count'[s] = 0
  <2>1. s > made BY <1>0, <1>5
  <2>2. ~(r > made) BY DueMade
  <2>3. s # r BY <2>1, <2>2
  <2> QED BY <1>2, <2>1, <2>3 DEF CountsKept
<1>6. ASSUME NEW s \in Queued' \cup rest
      PROVE  attempts'[s] <= count'[s] + Forgotten /\ count'[s] < MaxRetries
  <2>1. CASE s = r BY <2>1
  <2>2. CASE s # r
    <3>1. s \in Request /\ s \in Queued \cup due BY <1>0, <2>2
    <3> QED BY <1>2, <2>2, <3>1 DEF CountsKept
  <2> QED BY <2>1, <2>2
<1>7. ASSUME NEW s \in Queued' \cup rest
      PROVE  attempts'[s] <= count'[s] + Forgotten' /\ count'[s] < MaxRetries
  <2>1. s \in Request BY <1>0
  <2>2. attempts'[s] \in Nat /\ count'[s] \in Nat BY <2>1 DEF SetsInv, TypeOK
  <2> QED BY <1>1, <1>6, <2>2
<1>8. ASSUME NEW s \in ToSet(stored.queue)
      PROVE  /\ stored.count[s] < MaxRetries
             /\ attempts'[s] <= stored.count[s] + Forgotten + 1
             /\ s \in rest => attempts'[s] <= stored.count[s] + Forgotten
  <2>1. /\ s \in Request /\ stored.count[s] \in Nat /\ stored.count[s] < MaxRetries
        /\ attempts[s] <= stored.count[s] + Forgotten + 1
        /\ s \in due => attempts[s] <= stored.count[s] + Forgotten
    BY CountsFacts
  <2>2. CASE s # r BY <1>2, <2>1, <2>2
  <2>3. CASE s = r
    <3>1. attempts[s] <= stored.count[s] + Forgotten BY <2>1, <2>3
    <3>2. attempts[s] \in Nat /\ attempts'[s] \in Nat BY <1>0, <2>1
    <3>3. attempts'[s] = attempts[s] \/ attempts'[s] = attempts[s] + 1 BY <1>2, <2>3
    <3> QED BY <1>1, <2>1, <2>3, <3>1, <3>2, <3>3
  <2> QED BY <2>2, <2>3
<1>9. CASE rest = {}
  <2>1. due' = {} /\ cycle' = "saving" /\ Persist BY <1>9 DEF Continue
  <2>2. \A s \in ToSet(stored'.queue) :
          attempts'[s] <= stored'.count[s] + Forgotten' /\ stored'.count[s] < MaxRetries
    BY <1>0, <1>7, <1>8, <2>1, StoredCounts
  <2>3. ASSUME NEW s \in ToSet(stored'.queue)
        PROVE  attempts'[s] <= stored'.count[s] + Forgotten'
                                + (IF cycle' = "sending" /\ s \notin due' THEN 1 ELSE 0)
    <3>0. stored'.queue \in Seq(Request) /\ stored'.count \in [ToSet(stored'.queue) -> Nat]
      BY DEF SetsInv, TypeOK
    <3>1. stored'.count[s] \in Nat BY <3>0
    <3>2. stored'.count[s] + Forgotten' + 0 = stored'.count[s] + Forgotten' BY <1>1, <3>1
    <3> QED BY <2>1, <2>2, <3>2
  <2> QED BY <1>4, <1>5, <1>7, <2>1, <2>2, <2>3 DEF CountsKept
<1>10. CASE rest # {}
  <2>1. due' = rest /\ cycle' = cycle /\ UNCHANGED <<stored, failures>>
    BY <1>10 DEF Continue, storage
  <2>2. cycle' = "sending" BY <2>1 DEF SetsInv, TypeOK
  <2>3. Forgotten' = Forgotten BY <1>0, <2>1 DEF Forgotten
  <2>4. ASSUME NEW s \in ToSet(stored'.queue)
        PROVE  /\ attempts'[s] <= stored'.count[s] + Forgotten'
                                + (IF cycle' = "sending" /\ s \notin due' THEN 1 ELSE 0)
               /\ stored'.count[s] < MaxRetries
    <3>1. s \in ToSet(stored.queue) /\ stored.count[s] \in Nat BY <2>1, CountsFacts
    <3>2. stored.count[s] + Forgotten + 0 = stored.count[s] + Forgotten BY <1>1, <3>1
    <3> QED BY <1>8, <2>1, <2>2, <2>3, <3>1, <3>2
  <2> QED BY <1>4, <1>5, <1>7, <2>1, <2>4 DEF CountsKept
<1> QED BY <1>9, <1>10

LEMMA CountsStep == SetsInv /\ SetsInv' /\ CountsKept /\ [Next]_vars => CountsKept'
<1> SUFFICES ASSUME SetsInv, SetsInv', CountsKept, [Next]_vars PROVE CountsKept'
  OBVIOUS
<1>1. CASE Enqueue
  <2>1. Queued' \subseteq Queued \cup {made + 1} /\ made + 1 \in Request
    BY <1>1, EnqueueSets
  <2>2. made \in Nat BY DEF SetsInv, TypeOK
  <2>3. /\ Persist /\ made' = made + 1 /\ due' = due
        /\ UNCHANGED <<attempts, count, restarts>>
    BY <1>1 DEF Enqueue
  <2>4. Queued' \cup due' \subseteq Queued \cup due \cup {r \in Request : r > made}
    BY <2>1, <2>2, <2>3
  <2>5. made <= made' BY <2>2, <2>3
  <2> QED BY <2>3, <2>4, <2>5, SavingCounts
<1>2. ASSUME NEW r \in Request, Answered(r) PROVE CountsKept'
  <2>0. /\ r \in due /\ due \ {r} \in SUBSET due /\ r \notin due \ {r}
        /\ {} \in SUBSET due /\ r \notin {} /\ ~(r > made)
    <3>1. r \in due BY <1>2 DEF Answered, Settled, RateLimited, Failed, InFlight
    <3> QED BY <3>1, DueMade
  <2>t. attempts \in [Request -> Nat] /\ count \in [Request -> Nat] /\ TypeOK
    BY DEF SetsInv, TypeOK
  <2>f. MaxRetries > 0 => /\ attempts[r] <= count[r] + Forgotten /\ count[r] < MaxRetries
                          /\ Forgotten \in Nat
    BY <2>0, CountsFacts DEF CountsKept
  <2>1. CASE Settled(r)
    <3>1. /\ attempts' = attempts /\ count' = [count EXCEPT ![r] = 0] /\ UNCHANGED world
          /\ Queued' = Queued \ {r} /\ Continue(due \ {r})
      BY <2>1, <2>t, DeleteSet DEF Settled, Queued
    <3>2. \A s \in Request \ {r} : count'[s] = count[s] BY <2>t, <3>1
    <3> QED BY <2>0, <3>1, <3>2, AnswerCounts
  <2>2. CASE RateLimited(r)
    <3>1. /\ attempts' = attempts /\ count' = count /\ UNCHANGED world
          /\ Queued' = Queued \cup {r} /\ Continue({})
      BY <2>2, <2>t, SetSet DEF RateLimited, Queued
    <3> QED BY <2>0, <2>f, <3>1, AnswerCounts
  <2>3. CASE Failed(r)
    <3>1. /\ attempts' = [attempts EXCEPT ![r] = @ + 1] /\ count' = [count EXCEPT ![r] = @ + 1]
          /\ UNCHANGED world /\ Continue(due \ {r})
      BY <2>3 DEF Failed
    <3>2. /\ Queued' = Queued \ {r} \/ Queued' = Queued \cup {r}
          /\ MaxRetries > 0 /\ r \in Queued' => ~(count'[r] >= MaxRetries)
      BY <2>3, <2>t, SetSet, DeleteSet DEF Failed, Queued
    <3>3. /\ \A s \in Request \ {r} : count'[s] = count[s]
          /\ count'[r] = count[r] + 1 /\ attempts'[r] = attempts[r] + 1
      BY <2>t, <3>1
    <3>4. MaxRetries > 0 /\ r \in Queued' =>
            attempts'[r] <= count'[r] + Forgotten /\ count'[r] < MaxRetries
      <4>1. attempts[r] \in Nat /\ count[r] \in Nat BY <2>t
      <4> QED BY <2>f, <3>2, <3>3, <4>1
    <3> QED BY <2>0, <3>1, <3>2, <3>3, <3>4, AnswerCounts
  <2> QED BY <1>2, <2>1, <2>2, <2>3 DEF Answered
<1>3. ASSUME UNCHANGED <<stored, attempts, count, restarts, failures, made>>,
             Queued' \cup due' \subseteq Queued \cup due,
             (cycle' = "sending" /\ due' = due /\ cycle = "sending") \/ cycle # "sending"
      PROVE  CountsKept'
  <2> SUFFICES ASSUME MaxRetries > 0 PROVE CountsKept'
    BY DEF CountsKept
  <2>1. Forgotten' = Forgotten BY <1>3 DEF Forgotten
  <2>2. ASSUME NEW s \in ToSet(stored.queue)
        PROVE  /\ attempts[s] <= stored.count[s] + Forgotten
                                + (IF cycle' = "sending" /\ s \notin due' THEN 1 ELSE 0)
               /\ stored.count[s] < MaxRetries
    <3>1. CASE cycle # "sending"
      <4>1. /\ stored.count[s] \in Nat /\ Forgotten \in Nat /\ stored.count[s] < MaxRetries
            /\ attempts[s] <= stored.count[s] + Forgotten
            /\ attempts[s] <= stored.count[s] + Forgotten + 1
        BY <3>1, CountsFacts
      <4>2. stored.count[s] + Forgotten + 0 = stored.count[s] + Forgotten BY <4>1
      <4> QED BY <4>1, <4>2
    <3>2. CASE cycle' = "sending" /\ due' = due /\ cycle = "sending"
      BY <3>2 DEF CountsKept
    <3> QED BY <1>3, <3>1, <3>2
  <2> QED BY <1>3, <2>1, <2>2 DEF CountsKept
<1>4. CASE StartCycle
  <2>1. Queued' \cup due' \subseteq Queued \cup due BY <1>4 DEF StartCycle, Queued
  <2> QED BY <1>3, <1>4, <2>1 DEF StartCycle, storage, world
<1>5. CASE EndCycle BY <1>3, <1>5 DEF EndCycle, storage, world, Queued
<1>6. CASE LimitElapses
  BY <1>3, <1>6 DEF LimitElapses, storage, world, Queued
<1>7. ASSUME NEW r \in Request, BackoffElapses(r) PROVE CountsKept'
  BY <1>3, <1>7 DEF BackoffElapses, storage, world, Queued
<1>8. ASSUME SignOut \/ SuspendSession \/ \E u \in User \cup {NoUser} : SignIn(u)
      PROVE  CountsKept'
  <2>1. AuthChanges /\ (Clear \/ Keep) BY <1>8 DEF SignOut, SuspendSession, SignIn
  <2>2. UNCHANGED <<count, cycle, due, made, restarts, attempts>> BY <2>1 DEF AuthChanges
  <2>3. CASE Clear
    <3>1. Persist /\ Queued' = {} BY <2>3 DEF Clear, Queued, ToSet
    <3>2. made <= made' BY <2>2 DEF SetsInv, TypeOK
    <3> QED BY <2>2, <3>1, <3>2, SavingCounts
  <2>4. CASE Keep BY <1>3, <2>2, <2>4 DEF Keep, storage, Queued
  <2> QED BY <2>1, <2>3, <2>4
<1>9. CASE Restart
  <2> SUFFICES ASSUME MaxRetries > 0 PROVE CountsKept'
    BY DEF CountsKept
  <2>1. /\ queue' = stored.queue /\ due' = {} /\ cycle' = "no" /\ restarts' = restarts + 1
        /\ count' = [r \in Request |-> IF r \in ToSet(stored.queue) THEN stored.count[r] ELSE 0]
        /\ UNCHANGED <<stored, failures, made, attempts>>
    BY <1>9 DEF Restart, storage
  <2>2. Forgotten' = Forgotten + 1 /\ Forgotten \in Nat
    <3>1. restarts \in Nat /\ failures \in Nat BY DEF SetsInv, TypeOK
    <3>2. Forgotten = restarts + failures /\ Forgotten' = restarts' + failures' BY DEF Forgotten
    <3> QED BY <2>1, <3>1, <3>2
  <2>3. ASSUME NEW s \in ToSet(stored.queue)
        PROVE  /\ s \in Request /\ count'[s] = stored.count[s] /\ stored.count[s] < MaxRetries
               /\ attempts[s] <= stored.count[s] + Forgotten'
               /\ attempts[s] <= stored.count[s] + Forgotten' + 0
    <3>1. /\ s \in Request /\ stored.count[s] \in Nat /\ stored.count[s] < MaxRetries
          /\ attempts[s] <= stored.count[s] + Forgotten + 1
      BY CountsFacts
    <3>2. stored.count[s] + Forgotten' = stored.count[s] + Forgotten + 1
          /\ stored.count[s] + Forgotten' + 0 = stored.count[s] + Forgotten + 1
      BY <2>2, <3>1
    <3> QED BY <2>1, <3>1, <3>2
  <2>4. ASSUME NEW s \in Request PROVE attempts[s] <= MaxRetries + Forgotten'
    <3>1. attempts[s] \in Nat /\ attempts[s] <= MaxRetries + Forgotten
      BY DEF CountsKept, SetsInv, TypeOK
    <3> QED BY <2>2, <3>1
  <2>5. ASSUME NEW s \in Request, s > made PROVE attempts[s] = 0 /\ count'[s] = 0
    <3>1. s \notin ToSet(stored.queue)
      <4>1. made \in Nat /\ ToSet(stored.queue) \subseteq 1 .. made
        BY DEF SetsInv, TypeOK, Order, Known
      <4> QED BY <2>5, <4>1
    <3> QED BY <2>1, <2>5, <3>1 DEF CountsKept
  <2> QED BY <2>1, <2>3, <2>4, <2>5 DEF CountsKept, Queued
<1>10. CASE UNCHANGED vars
  BY <1>10 DEF vars, auth, storage, world, CountsKept, Forgotten, Queued
<1> QED BY <1>1, <1>2, <1>4, <1>5, <1>6, <1>7, <1>8, <1>9, <1>10 DEF Next

LEMMA QueueCorrect == Spec => []QueueInv
<1>1. QueueInv /\ [Next]_vars => QueueInv'
  BY SetsKept, CountsStep DEF QueueInv, SetsInv
<1> QED BY <1>1, QueueInit, PTL DEF Spec

(* Types hold, no request is queued twice, a cycle sends until all its     *)
(* requests are answered, and the storage follows the queue.               *)
THEOREM QueueWellFormed == Spec => []WellFormed
<1>1. QueueInv => WellFormed BY DEF QueueInv, WellFormed
<1> QED BY <1>1, QueueCorrect, PTL

(* A failing request is given up after maxRetries attempts, but for one    *)
(* more per restart or refused write.                                      *)
THEOREM RetriesBounded == Spec => []AttemptsBounded
<1>1. QueueInv => AttemptsBounded
  <2> SUFFICES ASSUME QueueInv, MaxRetries > 0, NEW r \in Request
               PROVE  attempts[r] <= MaxRetries + restarts + failures
    BY DEF AttemptsBounded
  <2>1. restarts \in Nat /\ failures \in Nat /\ attempts[r] \in Nat BY DEF QueueInv, TypeOK
  <2>2. attempts[r] <= MaxRetries + (restarts + failures) BY DEF QueueInv, CountsKept, Forgotten
  <2> QED BY <2>1, <2>2
<1> QED BY <1>1, QueueCorrect, PTL
=============================================================================
