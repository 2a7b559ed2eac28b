------------------------ MODULE TaskHistoryStoreProofs ------------------------
(***************************************************************************)
(* Proofs about TaskHistoryStore, for any windows, tasks, operations and   *)
(* faults: no update of a history item is lost to another window, unless a *)
(* process wrote after it had lost its lock file; transactions are atomic; *)
(* and a store knows when its cache is behind a file, but for a twin.      *)
(***************************************************************************)
EXTENDS TaskHistoryStore, TLAPS

(* The part of the types that writes and locks rest on. *)
FileTypes ==
  /\ file \in [Task -> SUBSET Nat] /\ done \in [Task -> SUBSET Nat]
  /\ lock \in [Task -> Window \cup {Nobody}]
  /\ txn \in [Window -> [Task -> Transaction]]
  /\ cache \in [Window -> [Task -> SUBSET Nat]]
  /\ index \subseteq [Task -> SUBSET Nat]
  /\ writes \in Nat

(* A transaction that has not lost its lock file holds it. *)
Locked ==
  \A w \in Window, t \in Task :
    /\ txn[w][t].step # "no" /\ ~txn[w][t].lost => lock[t] = w
    /\ txn[w][t].lost => "break" \in faults

(* The file, and what a transaction is going to write, hold all writes;    *)
(* what the transaction read is still the file, if there is one.           *)
WritesHeld ==
  \A t \in Task :
    Trespassed(t) \/
      /\ done[t] \subseteq file[t]
      /\ \A w \in Window :
           txn[w][t].step = "write" /\ ~txn[w][t].lost =>
             done[t] \subseteq txn[w][t].item /\ file[t] \in {{}, txn[w][t].item}

WriteInv == FileTypes /\ Locked /\ WritesHeld

USE StoreAssumption

-----------------------------------------------------------------------------
LEMMA IdleType == Idle \in Transaction /\ Idle.step = "no" /\ ~Idle.lost
BY DEF Idle, Transaction

LEMMA StoreInit == Init => WriteInv
<1> SUFFICES ASSUME Init PROVE WriteInv
  OBVIOUS
<1>1. FileTypes BY IdleType DEF Init, FileTypes
<1>2. Locked /\ WritesHeld BY IdleType DEF Init, Locked, WritesHeld
<1> QED BY <1>1, <1>2 DEF WriteInv

(* A transaction begins with an item that holds the writes.                *)
LEMMA BeginKeeps ==
  ASSUME WriteInv, NEW w \in Window, NEW t \in Task, NEW item \in SUBSET Nat,
         NEW kind \in {"upsert", "update", "delete", "refresh", "scan", "prune"},
         NEW step \in {"write", "end"}, Begin(w, t, kind, step, item),
         step = "write" => file[t] \in {{}, item},
         \/ file' = file /\ done' = done
         \/ /\ file' = [file EXCEPT ![t] = {}]
            /\ done' = [done EXCEPT ![t] = {}],
         cache' = cache, index' = index, writes' = writes, warned' = warned,
         faults \subseteq faults'
  PROVE  WriteInv'
<1> DEFINE new == [Idle EXCEPT !.kind = kind, !.step = step, !.item = item]
<1>1. new \in Transaction /\ new.step = step /\ new.item = item /\ ~new.lost
  BY DEF Idle, Transaction
<1>2. /\ txn[w][t] = Idle /\ lock[t] = Nobody
      /\ lock' = [lock EXCEPT ![t] = w] /\ txn' = [txn EXCEPT ![w][t] = new]
  BY DEF Begin, LockFree
<1> HIDE DEF new
<1> USE DEF WriteInv, FileTypes
<1>3. FileTypes' BY <1>1, <1>2
<1>4. /\ txn'[w][t] = new /\ lock'[t] = w
      /\ \A v \in Window, s \in Task :
           v # w \/ s # t => txn'[v][s] = txn[v][s]
      /\ \A s \in Task : s # t => lock'[s] = lock[s] /\ file'[s] = file[s] /\ done'[s] = done[s]
  BY <1>1, <1>2
<1>5. \A v \in Window : txn[v][t].step = "no" \/ txn[v][t].lost
  BY <1>2 DEF Locked
<1>6. Locked' BY <1>1, <1>4, <1>5 DEF Locked
<1>7. \A s \in Task : Trespassed(s) => Trespassed(s)'
  BY <1>1, <1>2, <1>4, IdleType DEF Trespassed
<1>8. ASSUME NEW s \in Task, ~Trespassed(s)'
      PROVE  /\ done'[s] \subseteq file'[s]
             /\ \A v \in Window : txn'[v][s].step = "write" /\ ~txn'[v][s].lost =>
                    done'[s] \subseteq txn'[v][s].item /\ file'[s] \in {{}, txn'[v][s].item}
  <2>1. ~Trespassed(s) BY <1>7, <1>8
  <2>2. done'[s] \subseteq file'[s] /\ done'[s] \subseteq done[s] BY <2>1 DEF WritesHeld
  <2> QED BY <1>1, <1>4, <1>5, <2>1, <2>2 DEF WritesHeld
<1>9. WritesHeld' BY <1>8 DEF WritesHeld
<1> QED BY <1>3, <1>6, <1>9

(* A transaction is over, and what happened is not forgotten.              *)
LEMMA DoneKeeps ==
  ASSUME WriteInv, NEW w \in Window, NEW t \in Task, Done(w, t), txn[w][t].step # "no",
         txn[w][t].lost /\ txn[w][t].step = "end" => t \in warned',
         file' = file, done' = done, writes' = writes,
         cache' \in [Window -> [Task -> SUBSET Nat]], index' \subseteq [Task -> SUBSET Nat],
         warned \subseteq warned', faults \subseteq faults'
  PROVE  WriteInv'
<1> USE DEF WriteInv, FileTypes
<1>1. txn' = [txn EXCEPT ![w][t] = Idle]
      /\ lock' = IF txn[w][t].lost THEN lock ELSE [lock EXCEPT ![t] = Nobody]
  BY DEF Done
<1>2. FileTypes' BY <1>1, IdleType
<1>3. /\ txn'[w][t] = Idle
      /\ \A v \in Window, s \in Task : v # w \/ s # t => txn'[v][s] = txn[v][s]
  BY <1>1, IdleType
<1>4. Locked'
  <2> SUFFICES ASSUME NEW v \in Window, NEW s \in Task
               PROVE  /\ txn'[v][s].step # "no" /\ ~txn'[v][s].lost => lock'[s] = v
                      /\ txn'[v][s].lost => "break" \in faults'
    BY DEF Locked
  <2>1. CASE v = w /\ s = t BY <1>3, <2>1, IdleType
  <2>2. CASE v # w \/ s # t
    <3>1. txn'[v][s] = txn[v][s] BY <1>3, <2>2
    <3>2. lock[s] = v => lock'[s] = v \/ (s = t /\ ~txn[w][t].lost)
      BY <1>1
    <3>3. ~(s = t /\ ~txn[w][t].lost /\ lock[s] = v) BY <2>2 DEF Locked
    <3> QED BY <3>1, <3>2, <3>3 DEF Locked
  <2> QED BY <2>1, <2>2
<1> HIDE DEF WriteInv, FileTypes
<1>5. ASSUME NEW s \in Task, Trespassed(s) PROVE Trespassed(s)'
  <2>1. CASE s \in warned \/ {"break", "exit"} \subseteq faults BY <2>1 DEF Trespassed
  <2>2. ASSUME NEW v \in Window, txn[v][s].lost, txn[v][s].step = "end" PROVE Trespassed(s)'
    <3>1. CASE v = w /\ s = t BY <2>2, <3>1 DEF Trespassed
    <3>2. CASE v # w \/ s # t BY <1>3, <2>2, <3>2 DEF Trespassed
    <3> QED BY <3>1, <3>2
  <2> QED BY <1>5, <2>1, <2>2 DEF Trespassed
<1>6. WritesHeld' BY <1>3, <1>5, IdleType DEF WriteInv, WritesHeld
<1> QED BY <1>2, <1>4, <1>6 DEF WriteInv

LEMMA WriteKeeps ==
  ASSUME WriteInv, NEW w \in Window, NEW t \in Task, Write(w, t)
  PROVE  WriteInv'
<1> DEFINE item == txn[w][t].item \cup {writes + 1}
<1> USE DEF WriteInv, FileTypes
<1>0. txn[w][t] \in Transaction OBVIOUS
<1>1. /\ txn[w][t].step = "write" /\ writes' = writes + 1
      /\ file' = [file EXCEPT ![t] = item]
      /\ done' = [done EXCEPT ![t] = (IF file[t] = {} THEN {} ELSE done[t]) \cup {writes + 1}]
      /\ txn' = [txn EXCEPT ![w][t].step = "end", ![w][t].item = item]
      /\ UNCHANGED <<lock, cache, index, warned>> /\ faults \subseteq faults'
  BY DEF Write, Fault, stores
<1>2. item \in SUBSET Nat BY <1>0 DEF Transaction
<1>3. /\ txn'[w][t] = [txn[w][t] EXCEPT !.step = "end", !.item = item]
      /\ \A v \in Window, s \in Task : v # w \/ s # t => txn'[v][s] = txn[v][s]
      /\ \A s \in Task : s # t => file'[s] = file[s] /\ done'[s] = done[s]
      /\ file'[t] = item
      /\ done'[t] \subseteq done[t] \cup {writes + 1}
  BY <1>1
<1>4. /\ txn'[w][t] \in Transaction
      /\ txn'[w][t].step = "end" /\ txn'[w][t].lost = txn[w][t].lost
  BY <1>0, <1>2, <1>3 DEF Transaction
<1>5. FileTypes'
  <2>1. txn' \in [Window -> [Task -> Transaction]]
    <3>1. /\ DOMAIN txn' = Window /\ txn' = [v \in Window |-> txn'[v]]
          /\ \A v \in Window : txn'[v] = [s \in Task |-> txn'[v][s]]
      BY <1>1
    <3>2. \A v \in Window, s \in Task : txn'[v][s] \in Transaction BY <1>3, <1>4
    <3> QED BY <3>1, <3>2
  <2>2. file' \in [Task -> SUBSET Nat] BY <1>1, <1>2
  <2>3. done' \in [Task -> SUBSET Nat] BY <1>1
  <2> QED BY <1>1, <2>1, <2>2, <2>3
<1> HIDE DEF item
<1>6. Locked' BY <1>1, <1>3, <1>4 DEF Locked
<1>7. \A s \in Task : Trespassed(s) => Trespassed(s)'
  BY <1>1, <1>3, <1>4 DEF Trespassed
<1>8. ASSUME NEW s \in Task, ~Trespassed(s)'
      PROVE  /\ done'[s] \subseteq file'[s]
             /\ \A v \in Window : txn'[v][s].step = "write" /\ ~txn'[v][s].lost =>
                    done'[s] \subseteq txn'[v][s].item /\ file'[s] \in {{}, txn'[v][s].item}
  <2>1. ~Trespassed(s) BY <1>7, <1>8
  <2>2. CASE s # t BY <1>3, <2>1, <2>2 DEF WritesHeld
  <2>3. CASE s = t
    <3>1. ~txn[w][t].lost BY <1>4, <1>8, <2>3 DEF Trespassed
    <3>2. done[t] \subseteq txn[w][t].item BY <1>1, <2>1, <2>3, <3>1 DEF WritesHeld
    <3>3. done'[t] \subseteq file'[t] BY <1>3, <3>2 DEF item
    <3>4. \A v \in Window : v # w => txn[v][t].step = "no" \/ txn[v][t].lost
      BY <1>1, <3>1 DEF Locked
    <3>5. ASSUME NEW v \in Window PROVE ~(txn'[v][t].step = "write" /\ ~txn'[v][t].lost)
      <4>1. CASE v = w BY <1>4, <4>1
      <4>2. CASE v # w
        <5>1. txn'[v][t] = txn[v][t] BY <1>3, <4>2
        <5> QED BY <3>4, <4>2, <5>1
      <4> QED BY <4>1, <4>2
    <3> QED BY <2>3, <3>3, <3>5
  <2> QED BY <2>2, <2>3
<1>9. WritesHeld' BY <1>8 DEF WritesHeld
<1> QED BY <1>1, <1>5, <1>6, <1>9

(* The other steps move no transaction, or break or drop one.              *)
LEMMA QuietKeeps ==
  ASSUME WriteInv, UNCHANGED <<file, done, lock, txn, writes, warned>>,
         cache' \in [Window -> [Task -> SUBSET Nat]], index' = index, faults \subseteq faults'
  PROVE  WriteInv'
BY DEF WriteInv, FileTypes, Locked, WritesHeld, Trespassed

LEMMA RefreshKeeps ==
  ASSUME WriteInv, NEW w \in Window, NEW t \in Task, NEW kind \in {"refresh", "scan"},
         Refresh(w, t, kind), UNCHANGED <<file, done, cache, index, writes, warned>>
  PROVE  WriteInv'
<1>1. file[t] \in SUBSET Nat /\ cache[w][t] \in SUBSET Nat BY DEF WriteInv, FileTypes
<1>2. faults \subseteq faults' BY DEF Refresh, Fault
<1> QED BY <1>1, <1>2, BeginKeeps DEF Refresh

LEMMA ExitKeeps ==
  ASSUME WriteInv, NEW w \in Window, Exit(w)
  PROVE  WriteInv'
<1> USE DEF WriteInv, FileTypes
<1>1. /\ txn' = [txn EXCEPT ![w] = [t \in Task |-> Idle]]
      /\ cache' = [cache EXCEPT ![w] = [t \in Task |-> {}]]
      /\ UNCHANGED <<file, done, lock, index, writes, warned>>
      /\ faults' = faults \cup {"exit"}
  BY DEF Exit, Fault, disk, ghosts
<1>2. FileTypes' BY <1>1, IdleType
<1>3. \A t \in Task : txn'[w][t] = Idle /\ \A v \in Window : v # w => txn'[v][t] = txn[v][t]
  BY <1>1, IdleType
<1>4. Locked' BY <1>1, <1>3, IdleType DEF Locked
<1>5. ASSUME NEW t \in Task, Trespassed(t) PROVE Trespassed(t)'
  BY <1>1, <1>3, <1>5 DEF Trespassed, Locked
<1>6. WritesHeld' BY <1>1, <1>3, <1>5, IdleType DEF WritesHeld
<1> QED BY <1>2, <1>4, <1>6

LEMMA BreakKeeps ==
  ASSUME WriteInv, NEW w \in Window, NEW t \in Task, LockCompromised(w, t)
  PROVE  WriteInv'
<1> DEFINE new == [txn[w][t] EXCEPT !.lost = TRUE]
<1> USE DEF WriteInv, FileTypes
<1>0. txn[w][t] \in Transaction OBVIOUS
<1>1. /\ txn[w][t] # Idle /\ lock' = [lock EXCEPT ![t] = Nobody]
      /\ txn' = [txn EXCEPT ![w][t].lost = TRUE]
      /\ UNCHANGED <<file, done, cache, index, writes, warned>>
      /\ faults' = faults \cup {"break"} /\ lock[t] = w
  BY DEF LockCompromised, Fault, disk, stores, ghosts
<1>2. /\ new \in Transaction /\ new.lost
      /\ new.step = txn[w][t].step /\ new.item = txn[w][t].item
  BY <1>0 DEF Transaction
<1>3. /\ txn'[w][t] = new
      /\ \A v \in Window, s \in Task : v # w \/ s # t => txn'[v][s] = txn[v][s]
  BY <1>1
<1>4. FileTypes'
  <2>1. /\ DOMAIN txn' = Window /\ txn' = [v \in Window |-> txn'[v]]
        /\ \A v \in Window : txn'[v] = [s \in Task |-> txn'[v][s]]
    BY <1>1
  <2>2. \A v \in Window, s \in Task : txn'[v][s] \in Transaction BY <1>2, <1>3
  <2>3. txn' \in [Window -> [Task -> Transaction]] BY <2>1, <2>2
  <2> QED BY <1>1, <2>3
<1> HIDE DEF new
<1>5. \A s \in Task : Trespassed(s) => Trespassed(s)'
  BY <1>1, <1>2, <1>3 DEF Trespassed
<1>6. WritesHeld' BY <1>1, <1>2, <1>3, <1>5 DEF WritesHeld
<1>7. Locked'
  <2> SUFFICES ASSUME NEW v \in Window, NEW s \in Task
               PROVE  /\ txn'[v][s].step # "no" /\ ~txn'[v][s].lost => lock'[s] = v
                      /\ txn'[v][s].lost => "break" \in faults'
    BY DEF Locked
  <2>1. CASE v = w /\ s = t BY <1>1, <1>2, <1>3, <2>1
  <2>2. CASE v # w \/ s # t BY <1>1, <1>3, <2>2 DEF Locked
  <2> QED BY <2>1, <2>2
<1> QED BY <1>4, <1>6, <1>7

LEMMA WritesKept == WriteInv /\ [Next]_vars => WriteInv'
<1> SUFFICES ASSUME WriteInv, [Next]_vars PROVE WriteInv'
  OBVIOUS
<1>0. /\ file \in [Task -> SUBSET Nat] /\ cache \in [Window -> [Task -> SUBSET Nat]]
      /\ index \subseteq [Task -> SUBSET Nat]
      /\ \A w \in Window, t \in Task : txn[w][t] \in Transaction
  BY DEF WriteInv, FileTypes
<1>1. ASSUME NEW w \in Window, NEW t \in Task, Upsert(w, t) PROVE WriteInv'
  <2> DEFINE item == IF file[t] # {} THEN file[t] ELSE cache[w][t]
  <2>1. item \in SUBSET Nat /\ file[t] \in {{}, item} BY <1>0
  <2>2. Begin(w, t, "upsert", "write", item) BY <1>1 DEF Upsert
  <2>3. UNCHANGED <<file, done, cache, index, writes, warned, faults>>
    BY <1>1 DEF Upsert, disk, stores, ghosts
  <2> HIDE DEF item
  <2> QED BY <2>1, <2>2, <2>3, BeginKeeps
<1>2. ASSUME NEW w \in Window, NEW t \in Task, AtomicReadAndUpdate(w, t) PROVE WriteInv'
  <2>1. UNCHANGED <<file, done, cache, index, writes, warned, faults>>
    BY <1>2 DEF AtomicReadAndUpdate, disk, stores, ghosts
  <2>2. Begin(w, t, "update", "write", file[t]) \/ UNCHANGED <<lock, txn>>
    BY <1>2 DEF AtomicReadAndUpdate
  <2> QED BY <1>0, <2>1, <2>2, BeginKeeps, QuietKeeps
<1>3. ASSUME NEW w \in Window, NEW t \in Task, Delete(w, t) PROVE WriteInv'
  <2>1. Begin(w, t, "delete", "end", {}) BY <1>3 DEF Delete
  <2>2. /\ file' = [file EXCEPT ![t] = {}] /\ done' = [done EXCEPT ![t] = {}]
        /\ UNCHANGED <<cache, index, writes, warned, faults>>
    BY <1>3 DEF Delete, stores
  <2> QED BY <2>1, <2>2, BeginKeeps
<1>4. ASSUME NEW w \in Window, NEW t \in Task, WriteFails(w, t) PROVE WriteInv'
  <2>1. /\ Done(w, t) /\ txn[w][t].step = "write"
        /\ UNCHANGED <<file, done, cache, index, writes, warned>> /\ faults \subseteq faults'
    BY <1>4 DEF WriteFails, Fault, disk, ghosts
  <2> QED BY <1>0, <2>1, DoneKeeps
<1>5. ASSUME NEW w \in Window, NEW t \in Task, End(w, t) PROVE WriteInv'
  <2>1. /\ Done(w, t) /\ txn[w][t].step = "end"
        /\ cache' = [cache EXCEPT ![w][t] = txn[w][t].item] /\ index' = index \cup {cache'[w]}
        /\ warned' = IF txn[w][t].lost THEN warned \cup {t} ELSE warned
        /\ UNCHANGED <<file, done, writes, faults>>
    BY <1>5 DEF End
  <2>2. txn[w][t].item \in SUBSET Nat BY <1>0 DEF Transaction
  <2>3. cache' \in [Window -> [Task -> SUBSET Nat]] BY <1>0, <2>1, <2>2
  <2>4. index' \subseteq [Task -> SUBSET Nat] BY <1>0, <2>1, <2>3
  <2> QED BY <2>1, <2>3, <2>4, DoneKeeps
<1>6. ASSUME NEW w \in Window, NEW t \in Task, TargetedRefresh(w, t) \/ ScanFile(w, t)
      PROVE  WriteInv'
  <2>1. UNCHANGED <<file, done, cache, index, writes, warned>>
    BY <1>6 DEF TargetedRefresh, ScanFile, disk, stores, ghosts
  <2>2. Refresh(w, t, "refresh") \/ Refresh(w, t, "scan")
    BY <1>6 DEF TargetedRefresh, ScanFile
  <2> QED BY <2>1, <2>2, RefreshKeeps
<1>7. ASSUME NEW w \in Window, NEW t \in Task, PruneKey(w, t) PROVE WriteInv'
  <2>1. Begin(w, t, "prune", "end", {}) BY <1>7 DEF PruneKey
  <2>2. UNCHANGED <<file, done, cache, index, writes, warned, faults>>
    BY <1>7 DEF PruneKey, disk, stores, ghosts
  <2> QED BY <2>1, <2>2, BeginKeeps
<1>8. ASSUME NEW w \in Window,
             \/ ReadDir(w) \/ ListKeys(w) \/ EndReconcile(w) \/ Open(w)
             \/ \E t \in Task : PassOver(w, t)
      PROVE  WriteInv'
  <2>1. UNCHANGED <<file, done, lock, txn, index, writes, warned>> /\ faults \subseteq faults'
    BY <1>8 DEF ReadDir, ListKeys, EndReconcile, Open, PassOver, Fault, disk, ghosts
  <2>2. cache' = cache \/ \E old \in index : cache' = [cache EXCEPT ![w] = old]
    BY <1>8 DEF ReadDir, ListKeys, EndReconcile, Open, PassOver
  <2>3. cache' \in [Window -> [Task -> SUBSET Nat]] BY <1>0, <2>2
  <2> QED BY <2>1, <2>3, QuietKeeps
<1>9. ASSUME NEW t \in Task, RemoveDir(t) PROVE WriteInv'
  BY <1>9 DEF RemoveDir, stores, WriteInv, FileTypes, Locked, WritesHeld, Trespassed
<1>10. ASSUME NEW t \in Task, LockTurnsStale(t) PROVE WriteInv'
  <2>1. PICK w \in Window : lock[t] = w /\ txn[w][t] = Idle BY <1>10 DEF LockTurnsStale
  <2>2. /\ lock' = [lock EXCEPT ![t] = Nobody]
        /\ UNCHANGED <<file, done, cache, index, txn, writes, warned, faults>>
    BY <1>10 DEF LockTurnsStale, disk, stores, ghosts
  <2>3. Locked' BY <2>1, <2>2, IdleType DEF Locked, WriteInv, FileTypes
  <2> QED BY <2>2, <2>3 DEF WriteInv, FileTypes, WritesHeld, Trespassed
<1>11. CASE UNCHANGED vars
  BY <1>0, <1>11, QuietKeeps DEF vars, disk, stores, ghosts
<1> QED
  BY <1>1, <1>2, <1>3, <1>4, <1>5, <1>6, <1>7, <1>8, <1>9, <1>10, <1>11,
     WriteKeeps, ExitKeeps, BreakKeeps
  DEF Next

(* No update of a history item is lost to another window: the file holds   *)
(* every write since it was created, unless a process wrote after it had   *)
(* lost its lock file.                                                     *)
THEOREM UpdatesNotLost == Spec => []FileHoldsLastWrites
<1>1. WriteInv => FileHoldsLastWrites
  BY DEF WriteInv, WritesHeld, Trespassed, FileHoldsLastWrites
<1> QED BY <1>1, StoreInit, WritesKept, PTL DEF Spec

-----------------------------------------------------------------------------
(* A file that has the stamp a store knows is what that store caches, if   *)
(* no write repeated that stamp.                                           *)

StoreTypes ==
  /\ dirs \subseteq Task /\ removing \subseteq Task /\ warned \subseteq Task
  /\ win \in [Window -> {"closed", "loading", "open"}]
  /\ meta \in [Window -> [Task -> Nat]]
  /\ rec \in [Window -> Pass]
  /\ stamp \in [Task -> Nat] /\ blind \subseteq Window \X Task

Past == 1..writes

(* What the files, stores and transactions contain was written before.     *)
Numbered ==
  /\ \A t \in Task : file[t] \subseteq Past /\ stamp[t] \in 1..writes
  /\ \A w \in Window, t \in Task :
       cache[w][t] \subseteq Past /\ txn[w][t].item \subseteq Past /\ meta[w][t] \in 0..writes
  /\ \A old \in index, t \in Task : old[t] \subseteq Past

(* The store of a window that is not open is forgotten. *)
ClosedIdle ==
  \A w \in Window : win[w] = "closed" =>
    rec[w].step = "no" /\ \A t \in Task : meta[w][t] = 0 /\ txn[w][t] = Idle

(* The file of a transaction that is about to cache it does not change,    *)
(* but its directory may be removed.                                       *)
Held ==
  \A w \in Window, t \in Task :
    txn[w][t].step = "end" /\ txn[w][t].item # {} => file[t] \in {{}, txn[w][t].item}

Current ==
  \A w \in Window, t \in Task :
    ~HasFileChanged(w, t) => cache[w][t] = file[t] \/ <<w, t>> \in blind

Sound == faults \subseteq {"exit", "refused", "twin"} => Held /\ Current

CacheInv == WriteInv /\ StoreTypes /\ Numbered /\ ClosedIdle /\ Sound

LEMMA CacheInit == Init => CacheInv
<1> SUFFICES ASSUME Init PROVE CacheInv
  OBVIOUS
<1>1. StoreTypes BY DEF Init, StoreTypes, NoPass, Pass
<1>4. Numbered
  <2>1. /\ writes = 1 /\ Past = 1..1 /\ Idle.item = {}
        /\ \A t \in Task : file[t] \in {{}, {1}} /\ stamp[t] = 1
        /\ \A w \in Window, t \in Task : cache[w][t] = {} /\ txn[w][t] = Idle /\ meta[w][t] = 0
        /\ \A old \in index, t \in Task : old[t] = {}
    BY DEF Init, Past, Idle
  <2> QED BY <2>1 DEF Numbered
<1>5. ClosedIdle BY DEF Init, ClosedIdle, NoPass
<1>6. Held BY IdleType DEF Init, Held
<1>7. Current
  <2>1. \A w \in Window, t \in Task : meta[w][t] = 0 BY DEF Init
  <2> QED BY <2>1 DEF Current, HasFileChanged
<1> QED BY <1>1, <1>4, <1>5, <1>6, <1>7, StoreInit DEF CacheInv, Sound

(* No file gets new contents. *)
FilesStay ==
  /\ \A t \in Task : file'[t] \in {file[t], {}}
  /\ stamp' = stamp /\ blind' = blind

LEMMA CurrentStays ==
  ASSUME Current, FilesStay, NEW w \in Window, NEW t \in Task,
         cache'[w][t] = cache[w][t], meta'[w][t] = meta[w][t], ~HasFileChanged(w, t)'
  PROVE  cache'[w][t] = file'[t] \/ <<w, t>> \in blind'
BY DEF Current, FilesStay, HasFileChanged, Mtime

(* Only the transactions change, and what they hold is past or a file. *)
LEMMA TransactionsMove ==
  ASSUME CacheInv, FilesStay, UNCHANGED <<cache, meta, win, rec, writes, index>>,
         faults \subseteq faults',
         \A w \in Window, t \in Task :
           \/ txn'[w][t] = txn[w][t]
           \/ /\ txn'[w][t].item \subseteq Past /\ win[w] # "closed"
              /\ \/ txn'[w][t].step # "end" \/ txn'[w][t].item \in {{}, file'[t]}
                 \/ ~(faults' \subseteq {"exit", "refused", "twin"})
  PROVE  Numbered' /\ ClosedIdle' /\ Sound'
<1> USE DEF CacheInv
<1>1. Numbered'
  <2>1. \A t \in Task : file'[t] \subseteq Past /\ stamp'[t] \in 1..writes
    BY DEF Numbered, FilesStay
  <2>2. \A w \in Window, t \in Task : txn'[w][t].item \subseteq Past BY DEF Numbered
  <2> QED BY <2>1, <2>2 DEF Numbered, Past
<1>2. ClosedIdle' BY DEF ClosedIdle
<1>3. ASSUME faults' \subseteq {"exit", "refused", "twin"} PROVE Held' /\ Current'
  <2>1. Held /\ Current BY <1>3 DEF Sound
  <2>2. Held' BY <1>3, <2>1 DEF Held, FilesStay
  <2>3. Current' BY <2>1, CurrentStays DEF Current
  <2> QED BY <2>2, <2>3
<1> QED BY <1>1, <1>2, <1>3 DEF Sound

LEMMA BeginMoves ==
  ASSUME CacheInv, NEW w \in Window, NEW t \in Task, NEW kind, NEW step, NEW item,
         Begin(w, t, kind, step, item), win[w] # "closed", item \subseteq Past, FilesStay,
         step # "end" \/ item \in {{}, file'[t]} \/ ~(faults' \subseteq {"exit", "refused", "twin"}),
         UNCHANGED <<cache, meta, win, rec, writes, index>>, faults \subseteq faults'
  PROVE  Numbered' /\ ClosedIdle' /\ Sound'
<1> DEFINE new == [Idle EXCEPT !.kind = kind, !.step = step, !.item = item]
<1>1. new.step = step /\ new.item = item BY DEF Idle
<1>2. txn' = [txn EXCEPT ![w][t] = new] BY DEF Begin
<1>3. txn \in [Window -> [Task -> Transaction]] BY DEF CacheInv, WriteInv, FileTypes
<1> HIDE DEF new
<1>4. txn'[w][t] = new /\ \A v \in Window, s \in Task : v # w \/ s # t => txn'[v][s] = txn[v][s]
  BY <1>2, <1>3
<1> QED BY <1>1, <1>4, TransactionsMove

LEMMA RefreshMoves ==
  ASSUME CacheInv, NEW w \in Window, NEW t \in Task, NEW kind, Refresh(w, t, kind),
         win[w] # "closed",
         UNCHANGED <<file, stamp, blind, cache, meta, win, rec, writes, index>>
  PROVE  Numbered' /\ ClosedIdle' /\ Sound'
<1>1. file[t] \subseteq Past /\ cache[w][t] \subseteq Past /\ FilesStay /\ file'[t] = file[t]
  BY DEF CacheInv, Numbered, FilesStay
<1>2. CASE Begin(w, t, kind, "end", file[t]) /\ UNCHANGED faults
  BY <1>1, <1>2, BeginMoves
<1>3. CASE Fault("error") /\ Begin(w, t, kind, "end", cache[w][t])
  <2>1. faults \subseteq faults' /\ ~(faults' \subseteq {"exit", "refused", "twin"}) BY <1>3 DEF Fault
  <2> QED BY <1>1, <1>3, <2>1, BeginMoves
<1> QED BY <1>2, <1>3 DEF Refresh

(* A new stamp is known to no store, and one that is known makes it blind. *)
LEMMA WriteMoves ==
  ASSUME CacheInv, NEW w \in Window, NEW t \in Task, Write(w, t)
  PROVE  Numbered' /\ ClosedIdle' /\ Sound'
<1> DEFINE item == txn[w][t].item \cup {writes + 1}
<1> USE DEF CacheInv
<1>0. /\ writes \in Nat /\ txn[w][t].item \subseteq Past /\ txn[w][t] \in Transaction
      /\ file \in [Task -> SUBSET Nat] /\ txn \in [Window -> [Task -> Transaction]]
  BY DEF Numbered, WriteInv, FileTypes
<1>1. /\ txn[w][t].step = "write" /\ writes' = writes + 1
      /\ file' = [file EXCEPT ![t] = item]
      /\ txn' = [txn EXCEPT ![w][t].step = "end", ![w][t].item = item]
      /\ UNCHANGED <<cache, meta, win, rec, index>> /\ faults \subseteq faults'
  BY DEF Write, Fault, stores
<1>2. PICK n \in 1..(writes + 1) : stamp' = [stamp EXCEPT ![t] = n]
  <2>1. writes + 1 \in 1..(writes + 1) /\ 1..writes \subseteq 1..(writes + 1) BY <1>0
  <2>2. \/ stamp' = [stamp EXCEPT ![t] = writes + 1]
        \/ \E old \in 1..writes : stamp' = [stamp EXCEPT ![t] = old]
    BY DEF Write
  <2> QED BY <2>1, <2>2
<1>3. /\ txn'[w][t].item = item
      /\ \A v \in Window, s \in Task : v # w \/ s # t => txn'[v][s] = txn[v][s]
  BY <1>0, <1>1 DEF Transaction
<1>4. Past \subseteq Past' /\ item \subseteq Past' /\ 0..writes \subseteq 0..writes'
  BY <1>0, <1>1 DEF Past
<1> HIDE DEF item
<1>5. file'[t] = item /\ \A s \in Task : s # t => file'[s] = file[s] BY <1>0, <1>1
<1>6. /\ stamp \in [Task -> Nat] /\ stamp'[t] = n
      /\ \A s \in Task : s # t => stamp'[s] = stamp[s] /\ Mtime(s)' = Mtime(s)
  BY <1>2, <1>5 DEF Mtime, StoreTypes
<1>10. /\ blind \subseteq blind'
       /\ \A v \in Window : meta[v][t] = stamp'[t] => <<v, t>> \in blind'
  BY DEF Write
<1>7. Numbered'
  <2>1. \A s \in Task : file'[s] \subseteq Past' /\ stamp'[s] \in 1..writes'
    <3>1. n \in 1..writes' /\ 1..writes \subseteq 1..writes' BY <1>0, <1>1
    <3> QED BY <1>4, <1>5, <1>6, <3>1 DEF Numbered
  <2>2. \A v \in Window, s \in Task :
          /\ cache'[v][s] \subseteq Past' /\ txn'[v][s].item \subseteq Past'
          /\ meta'[v][s] \in 0..writes'
    BY <1>1, <1>3, <1>4 DEF Numbered
  <2>3. \A old \in index', s \in Task : old[s] \subseteq Past' BY <1>1, <1>4 DEF Numbered
  <2> QED BY <2>1, <2>2, <2>3 DEF Numbered
<1>8. ClosedIdle'
  <2>1. win[w] # "closed" /\ UNCHANGED <<win, rec, meta>> BY <1>1, IdleType DEF ClosedIdle
  <2>2. \A v \in Window, s \in Task : v # w => txn'[v][s] = txn[v][s] BY <1>3
  <2>3. ASSUME NEW v \in Window, win'[v] = "closed"
        PROVE  rec'[v].step = "no" /\ \A s \in Task : meta'[v][s] = 0 /\ txn'[v][s] = Idle
    BY <2>1, <2>2, <2>3 DEF ClosedIdle
  <2> QED BY <2>3 DEF ClosedIdle
<1>9. ASSUME faults' \subseteq {"exit", "refused", "twin"} PROVE Held' /\ Current'
  <2>1. Held /\ Current BY <1>1, <1>9 DEF Sound
  <2>2. ASSUME NEW v \in Window, v # w PROVE txn[v][t].step = "no"
    <3>1. ~txn[v][t].lost /\ ~txn[w][t].lost BY <1>1, <1>9 DEF Locked, WriteInv
    <3> QED BY <1>1, <2>2, <3>1 DEF Locked, WriteInv
  <2>3. Held' BY <1>3, <1>5, <2>1, <2>2 DEF Held
  <2>4. ASSUME NEW v \in Window, NEW s \in Task, ~HasFileChanged(v, s)'
        PROVE  cache'[v][s] = file'[s] \/ <<v, s>> \in blind'
    <3>1. CASE s = t
      <4>1. meta[v][t] # 0 /\ meta[v][t] = Mtime(t)' BY <1>1, <2>4, <3>1 DEF HasFileChanged
      <4>2. meta[v][t] = stamp'[t] BY <4>1 DEF Mtime
      <4> QED BY <1>10, <3>1, <4>2
    <3>2. CASE s # t
      BY <1>1, <1>5, <1>6, <1>10, <2>1, <2>4, <3>2 DEF Current, HasFileChanged
    <3> QED BY <3>1, <3>2
  <2> QED BY <2>3, <2>4 DEF Current
<1> QED BY <1>7, <1>8, <1>9 DEF Sound

(* What ends is cached with the mtime of the file it came from.            *)
LEMMA EndMoves ==
  ASSUME CacheInv, NEW w \in Window, NEW t \in Task, End(w, t)
  PROVE  Numbered' /\ ClosedIdle' /\ Sound'
<1> DEFINE item == txn[w][t].item
           mtime == IF item = {} THEN 0 ELSE Mtime(t)
<1> USE DEF CacheInv
<1>0. /\ writes \in Nat /\ item \subseteq Past /\ mtime \in 0..writes
      /\ cache \in [Window -> [Task -> SUBSET Nat]] /\ meta \in [Window -> [Task -> Nat]]
      /\ txn \in [Window -> [Task -> Transaction]]
  <2>1. writes \in Nat /\ item \subseteq Past /\ stamp[t] \in 1..writes
    BY DEF Numbered, WriteInv, FileTypes
  <2>2. mtime \in 0..writes
    <3>1. 0 \in 0..writes /\ 1..writes \subseteq 0..writes BY <2>1
    <3> QED BY <2>1, <3>1 DEF Mtime
  <2> QED BY <2>1, <2>2 DEF WriteInv, FileTypes, StoreTypes
<1>1. /\ txn[w][t].step = "end" /\ cache' = [cache EXCEPT ![w][t] = item]
      /\ meta' = [meta EXCEPT ![w][t] = mtime] /\ index' = index \cup {cache'[w]}
      /\ txn' = [txn EXCEPT ![w][t] = Idle]
      /\ UNCHANGED <<file, stamp, win, writes, faults>> /\ blind' = blind \ {<<w, t>>}
  BY DEF End, Done
<1>2. \A v \in Window : win[v] = "closed" => rec'[v].step = rec[v].step
  <2>1. rec \in [Window -> Pass] BY DEF StoreTypes
  <2>2. rec' = rec \/ rec' = [rec EXCEPT ![w].todo = @ \ {t}] BY DEF End, Done
  <2>3. win[w] # "closed" BY <1>1, IdleType DEF ClosedIdle
  <2> QED BY <2>1, <2>2, <2>3
<1> HIDE DEF item, mtime
<1>3. /\ cache'[w][t] = item /\ meta'[w][t] = mtime /\ txn'[w][t] = Idle
      /\ \A v \in Window, s \in Task : v # w \/ s # t =>
           /\ cache'[v][s] = cache[v][s] /\ meta'[v][s] = meta[v][s] /\ txn'[v][s] = txn[v][s]
  BY <1>0, <1>1
<1>4. Past' = Past /\ \A s \in Task : Mtime(s)' = Mtime(s) BY <1>1 DEF Past, Mtime
<1>5. Numbered'
  <2>1. \A v \in Window, s \in Task :
          /\ cache'[v][s] \subseteq Past /\ txn'[v][s].item \subseteq Past
          /\ meta'[v][s] \in 0..writes
    BY <1>0, <1>3 DEF Numbered, Idle
  <2>2. \A old \in index', s \in Task : old[s] \subseteq Past BY <1>1, <2>1 DEF Numbered
  <2> QED BY <1>1, <1>4, <2>1, <2>2 DEF Numbered
<1>6. ClosedIdle'
  <2>1. win[w] # "closed" BY <1>1, IdleType DEF ClosedIdle
  <2> QED BY <1>1, <1>2, <1>3, <2>1 DEF ClosedIdle
<1>7. ASSUME faults' \subseteq {"exit", "refused", "twin"} PROVE Held' /\ Current'
  <2>1. Held /\ Current BY <1>1, <1>7 DEF Sound
  <2>2. Held' BY <1>1, <1>3, <2>1, IdleType DEF Held
  <2>3. ASSUME mtime # 0 PROVE file[t] = item
    <3>1. file[t] # {} /\ item # {} BY <2>3 DEF mtime, Mtime
    <3> QED BY <1>1, <2>1, <3>1 DEF Held, item
  <2>4. ASSUME NEW v \in Window, NEW s \in Task, ~HasFileChanged(v, s)'
        PROVE  cache'[v][s] = file'[s] \/ <<v, s>> \in blind'
    <3>1. CASE v = w /\ s = t BY <1>1, <1>3, <2>3, <2>4, <3>1 DEF HasFileChanged
    <3>2. CASE v # w \/ s # t
      BY <1>1, <1>3, <1>4, <2>1, <2>4, <3>2 DEF Current, HasFileChanged
    <3> QED BY <3>1, <3>2
  <2> QED BY <2>2, <2>4 DEF Current
<1> QED BY <1>5, <1>6, <1>7 DEF Sound

LEMMA WriteFailsMoves ==
  ASSUME CacheInv, NEW w \in Window, NEW t \in Task, WriteFails(w, t)
  PROVE  Numbered' /\ ClosedIdle' /\ Sound'
<1> USE DEF CacheInv
<1>1. /\ txn[w][t].step = "write" /\ txn' = [txn EXCEPT ![w][t] = Idle]
      /\ UNCHANGED <<file, stamp, blind, cache, index, win, meta, writes>>
      /\ faults \subseteq faults'
  BY DEF WriteFails, Done, Fault, disk, ghosts
<1>2. win[w] # "closed" BY <1>1, IdleType DEF ClosedIdle
<1>3. txn'[w][t] = Idle /\ \A v \in Window, s \in Task : v # w \/ s # t => txn'[v][s] = txn[v][s]
  BY <1>1 DEF WriteInv, FileTypes
<1>4. \A v \in Window : win[v] = "closed" => rec'[v].step = rec[v].step
  <2>1. rec' = rec \/ rec' = [rec EXCEPT ![w].todo = @ \ {t}] BY DEF WriteFails, Done
  <2> QED BY <1>2, <2>1 DEF StoreTypes
<1>5. Numbered' BY <1>1, <1>3 DEF Numbered, Past, Mtime, Idle
<1>6. ClosedIdle' BY <1>1, <1>2, <1>3, <1>4 DEF ClosedIdle
<1>7. ASSUME faults' \subseteq {"exit", "refused", "twin"} PROVE Held' /\ Current'
  <2>1. Held /\ Current BY <1>1, <1>7 DEF Sound
  <2>2. Held' BY <1>1, <1>3, <2>1, IdleType DEF Held
  <2>3. Current' BY <1>1, <2>1 DEF Current, HasFileChanged, Mtime
  <2> QED BY <2>2, <2>3
<1> QED BY <1>5, <1>6, <1>7 DEF Sound

(* A window opens or exits, or its reconcile goes on. *)
LEMMA WindowMoves ==
  ASSUME CacheInv, NEW w \in Window,
         \/ ReadDir(w) \/ ListKeys(w) \/ EndReconcile(w) \/ Open(w) \/ Exit(w)
         \/ \E t \in Task : PassOver(w, t)
  PROVE  Numbered' /\ ClosedIdle' /\ Sound'
<1> USE DEF CacheInv
<1>0. /\ txn \in [Window -> [Task -> Transaction]] /\ cache \in [Window -> [Task -> SUBSET Nat]]
      /\ meta \in [Window -> [Task -> Nat]] /\ rec \in [Window -> Pass]
      /\ win \in [Window -> {"closed", "loading", "open"}] /\ writes \in Nat
  BY DEF WriteInv, FileTypes, StoreTypes
<1>1. CASE Exit(w)
  <2>1. /\ win' = [win EXCEPT ![w] = "closed"]
        /\ cache' = [cache EXCEPT ![w] = [t \in Task |-> {}]]
        /\ meta' = [meta EXCEPT ![w] = [t \in Task |-> 0]]
        /\ txn' = [txn EXCEPT ![w] = [t \in Task |-> Idle]]
        /\ rec' = [rec EXCEPT ![w] = NoPass]
        /\ UNCHANGED <<file, stamp, blind, index, writes>> /\ faults \subseteq faults'
    BY <1>1 DEF Exit, Fault, disk, ghosts
  <2>2. /\ \A t \in Task : cache'[w][t] = {} /\ meta'[w][t] = 0 /\ txn'[w][t] = Idle
        /\ rec'[w] = NoPass
        /\ \A v \in Window : v # w => /\ cache'[v] = cache[v] /\ meta'[v] = meta[v]
                                      /\ txn'[v] = txn[v] /\ rec'[v] = rec[v] /\ win'[v] = win[v]
    BY <1>0, <2>1
  <2>3. Past' = Past /\ \A t \in Task : Mtime(t)' = Mtime(t) BY <2>1 DEF Past, Mtime
  <2>4. Numbered' BY <1>0, <2>1, <2>2, <2>3 DEF Numbered, Idle
  <2>5. ClosedIdle' BY <2>2 DEF ClosedIdle, NoPass
  <2>6. ASSUME faults' \subseteq {"exit", "refused", "twin"} PROVE Held' /\ Current'
    <3>1. Held /\ Current BY <2>1, <2>6 DEF Sound
    <3>2. Held' BY <2>1, <2>2, <3>1, IdleType DEF Held
    <3>3. Current' BY <2>1, <2>2, <2>3, <3>1 DEF Current, HasFileChanged
    <3> QED BY <3>2, <3>3
  <2> QED BY <2>4, <2>5, <2>6 DEF Sound
<1>2. CASE Open(w)
  <2>1. PICK old \in index : cache' = [cache EXCEPT ![w] = old] BY <1>2 DEF Open
  <2>2. /\ win[w] = "closed" /\ win' = [win EXCEPT ![w] = "loading"]
        /\ UNCHANGED <<file, stamp, blind, index, txn, rec, meta, writes, faults>>
    BY <1>2 DEF Open, disk, ghosts
  <2>3. cache'[w] = old /\ \A v \in Window : v # w => cache'[v] = cache[v] BY <1>0, <2>1
  <2>4. Past' = Past /\ \A t \in Task : Mtime(t)' = Mtime(t) BY <2>2 DEF Past, Mtime
  <2>5. Numbered' BY <2>2, <2>3, <2>4 DEF Numbered
  <2>6. ClosedIdle' BY <1>0, <2>2 DEF ClosedIdle
  <2>7. \A t \in Task : meta[w][t] = 0 BY <2>2 DEF ClosedIdle
  <2>8. Held => Held' BY <2>2 DEF Held
  <2>9. Current => Current' BY <2>2, <2>3, <2>4, <2>7 DEF Current, HasFileChanged
  <2> QED BY <2>2, <2>5, <2>6, <2>8, <2>9 DEF Sound
<1>3. ASSUME UNCHANGED <<file, stamp, blind, index, cache, txn, meta, writes>>, faults \subseteq faults',
             \A v \in Window : win'[v] = "closed" => win[v] = "closed" /\ rec'[v].step = "no"
      PROVE  Numbered' /\ ClosedIdle' /\ Sound'
  <2>1. Past' = Past /\ \A t \in Task : Mtime(t)' = Mtime(t) BY <1>3 DEF Past, Mtime
  <2>2. Numbered' BY <1>3, <2>1 DEF Numbered
  <2>3. ClosedIdle' BY <1>3 DEF ClosedIdle
  <2>4. Held => Held' BY <1>3 DEF Held
  <2>5. Current => Current' BY <1>3, <2>1 DEF Current, HasFileChanged
  <2> QED BY <1>3, <2>2, <2>3, <2>4, <2>5 DEF Sound
<1>4. CASE ReadDir(w) \/ ListKeys(w) \/ EndReconcile(w) \/ \E t \in Task : PassOver(w, t)
  <2>1. /\ UNCHANGED <<file, stamp, blind, index, cache, txn, meta, writes>>
        /\ faults \subseteq faults'
    BY <1>4 DEF ReadDir, ListKeys, EndReconcile, PassOver, Fault, disk, ghosts
  <2>2. win' = win \/ win' = [win EXCEPT ![w] = "open"]
    BY <1>4 DEF ReadDir, ListKeys, EndReconcile, PassOver
  <2>3. /\ \A v \in Window : v # w => rec'[v] = rec[v]
        /\ win[w] # "closed"
    <3>1. win[w] # "closed"
      BY <1>4 DEF ReadDir, ListKeys, EndReconcile, PassOver, Turn, ClosedIdle
    <3>2. \A v \in Window : v # w => rec'[v] = rec[v]
      BY <1>0, <1>4 DEF ReadDir, ListKeys, EndReconcile, PassOver
    <3> QED BY <3>1, <3>2
  <2>4. \A v \in Window : win'[v] = "closed" => win[v] = "closed" /\ rec'[v].step = "no"
    BY <1>0, <2>2, <2>3 DEF ClosedIdle
  <2> QED BY <1>3, <2>1, <2>4
<1> QED BY <1>1, <1>2, <1>4

LEMMA TodoShrinks ==
  ASSUME NEW p \in Pass, NEW t
  PROVE  [p EXCEPT !.todo = @ \ {t}] \in Pass
BY DEF Pass

LEMMA StoreTypesKept == CacheInv /\ [Next]_vars => StoreTypes'
<1> SUFFICES ASSUME CacheInv, [Next]_vars PROVE StoreTypes'
  OBVIOUS
<1> USE DEF CacheInv, StoreTypes
<1>0. \A t \in Task : Mtime(t) \in Nat BY DEF Mtime
<1>1. ASSUME NEW w \in Window, NEW t \in Task, Done(w, t) PROVE rec' \in [Window -> Pass]
  <2>1. [rec[w] EXCEPT !.todo = @ \ {t}] \in Pass BY TodoShrinks
  <2>2. rec' = rec \/ rec' = [rec EXCEPT ![w] = [rec[w] EXCEPT !.todo = @ \ {t}]]
    BY <1>1 DEF Done
  <2> QED BY <2>1, <2>2
<1>2. ASSUME NEW w \in Window, NEW t \in Task, End(w, t) PROVE StoreTypes'
  <2>1. meta' \in [Window -> [Task -> Nat]]
    <3>1. meta' = [meta EXCEPT ![w][t] = IF txn[w][t].item = {} THEN 0 ELSE Mtime(t)]
      BY <1>2 DEF End
    <3> QED BY <1>0, <3>1
  <2>2. /\ removing' \subseteq Task /\ warned' \subseteq Task /\ blind' \subseteq blind
        /\ UNCHANGED <<dirs, win, stamp>>
    BY <1>2 DEF End
  <2>3. rec' \in [Window -> Pass] BY <1>1, <1>2 DEF End
  <2> QED BY <2>1, <2>2, <2>3
<1>3. ASSUME NEW w \in Window, NEW t \in Task, WriteFails(w, t) PROVE StoreTypes'
  <2>1. rec' \in [Window -> Pass] BY <1>1, <1>3 DEF WriteFails
  <2> QED BY <1>3, <2>1 DEF WriteFails, disk, ghosts
<1>4. ASSUME NEW w \in Window, NEW t \in Task,
             \/ Upsert(w, t) \/ AtomicReadAndUpdate(w, t) \/ Delete(w, t)
             \/ TargetedRefresh(w, t) \/ ScanFile(w, t) \/ PruneKey(w, t) \/ LockCompromised(w, t)
      PROVE  StoreTypes'
  BY <1>4 DEF Upsert, AtomicReadAndUpdate, Delete, TargetedRefresh, ScanFile, PruneKey,
              LockCompromised, disk, stores, ghosts
<1>5. ASSUME NEW w \in Window, NEW t \in Task, Write(w, t) PROVE StoreTypes'
  <2>1. stamp' \in [Task -> Nat]
    <3>1. writes + 1 \in Nat /\ 1..writes \subseteq Nat BY DEF WriteInv, FileTypes
    <3>2. \E n \in Nat : stamp' = [stamp EXCEPT ![t] = n] BY <1>5, <3>1 DEF Write
    <3> QED BY <3>2
  <2>2. blind' \subseteq Window \X Task
    <3>1. blind' = blind \cup {<<v, t>> : v \in {u \in Window : meta[u][t] = stamp'[t]}}
      BY <1>5 DEF Write
    <3> QED BY <3>1
  <2> QED BY <1>5, <2>1, <2>2 DEF Write, stores
<1>6. ASSUME NEW w \in Window, NEW t \in Task, PassOver(w, t) PROVE StoreTypes'
  <2>1. rec' = [rec EXCEPT ![w] = [rec[w] EXCEPT !.todo = @ \ {t}]] BY <1>6 DEF PassOver
  <2>2. [rec[w] EXCEPT !.todo = @ \ {t}] \in Pass BY TodoShrinks
  <2> QED BY <1>6, <2>1, <2>2 DEF PassOver, disk, ghosts
<1>7. ASSUME NEW w \in Window, ReadDir(w) \/ ListKeys(w) \/ EndReconcile(w) PROVE StoreTypes'
  <2>1. /\ UNCHANGED <<dirs, removing, warned, meta, stamp, blind>>
        /\ win' = win \/ win' = [win EXCEPT ![w] = "open"]
    BY <1>7 DEF ReadDir, ListKeys, EndReconcile, disk, ghosts
  <2>2. Cached(w) \subseteq Task /\ rec[w] \in Pass BY DEF Cached
  <2>3. PICK new \in Pass : rec' = [rec EXCEPT ![w] = new]
    <3>1. CASE ReadDir(w)
      <4>1. [rec[w] EXCEPT !.step = "read", !.dirs = dirs] \in Pass BY <2>2 DEF Pass
      <4>2. rec' = [rec EXCEPT ![w] = [rec[w] EXCEPT !.step = "read", !.dirs = dirs]]
        BY <3>1 DEF ReadDir
      <4> QED BY <4>1, <4>2
    <3>2. CASE ListKeys(w)
      <4> DEFINE new == [rec[w] EXCEPT !.step = "scan", !.ids = Cached(w),
                                       !.todo = rec[w].dirs \cup Cached(w)]
      <4>1. new \in Pass BY <2>2 DEF Pass
      <4>2. rec' = [rec EXCEPT ![w] = new] BY <3>2 DEF ListKeys
      <4> QED BY <4>1, <4>2
    <3>3. CASE EndReconcile(w) BY <3>3 DEF EndReconcile, NoPass, Pass
    <3> QED BY <1>7, <3>1, <3>2, <3>3
  <2> QED BY <2>1, <2>3
<1>8. ASSUME NEW w \in Window, Open(w) \/ Exit(w) PROVE StoreTypes'
  <2>1. NoPass \in Pass BY DEF NoPass, Pass
  <2>2. CASE Open(w) BY <2>2 DEF Open, disk, ghosts
  <2>3. CASE Exit(w)
    <3>1. /\ UNCHANGED <<dirs, removing, warned, stamp, blind>> /\ win' = [win EXCEPT ![w] = "closed"]
          /\ meta' = [meta EXCEPT ![w] = [t \in Task |-> 0]] /\ rec' = [rec EXCEPT ![w] = NoPass]
      BY <2>3 DEF Exit, disk, ghosts
    <3> QED BY <2>1, <3>1
  <2> QED BY <1>8, <2>2, <2>3
<1>9. ASSUME NEW t \in Task, RemoveDir(t) \/ LockTurnsStale(t) PROVE StoreTypes'
  BY <1>9 DEF RemoveDir, LockTurnsStale, disk, stores, ghosts
<1>10. CASE UNCHANGED vars BY <1>10 DEF vars, disk, stores, ghosts
<1> QED BY <1>2, <1>3, <1>4, <1>5, <1>6, <1>7, <1>8, <1>9, <1>10 DEF Next

LEMMA CachesKept == CacheInv /\ [Next]_vars => CacheInv'
<1> SUFFICES ASSUME CacheInv, [Next]_vars PROVE Numbered' /\ ClosedIdle' /\ Sound'
  BY WritesKept, StoreTypesKept DEF CacheInv
<1>0. \A w \in Window, t \in Task : /\ file[t] \subseteq Past /\ cache[w][t] \subseteq Past
                                   /\ txn[w][t].item \subseteq Past
  BY DEF CacheInv, Numbered
<1>1. ASSUME NEW w \in Window, NEW t \in Task, Upsert(w, t) \/ AtomicReadAndUpdate(w, t)
      PROVE  Numbered' /\ ClosedIdle' /\ Sound'
  <2>1. /\ UNCHANGED <<file, cache, meta, win, rec, writes, index, faults>> /\ win[w] # "closed"
        /\ FilesStay
    BY <1>1 DEF Upsert, AtomicReadAndUpdate, Operation, disk, stores, ghosts, FilesStay
  <2>2. CASE Upsert(w, t)
    <3> DEFINE item == IF file[t] # {} THEN file[t] ELSE cache[w][t]
    <3>1. item \subseteq Past BY <1>0
    <3>2. Begin(w, t, "upsert", "write", item) BY <2>2 DEF Upsert
    <3> HIDE DEF item
    <3> QED BY <2>1, <3>1, <3>2, BeginMoves
  <2>3. CASE Begin(w, t, "update", "write", file[t])
    BY <1>0, <2>1, <2>3, BeginMoves
  <2>4. CASE txn' = txn BY <2>1, <2>4, TransactionsMove
  <2> QED BY <1>1, <2>2, <2>3, <2>4 DEF AtomicReadAndUpdate
<1>2. ASSUME NEW w \in Window, NEW t \in Task, Delete(w, t) \/ PruneKey(w, t)
      PROVE  Numbered' /\ ClosedIdle' /\ Sound'
  <2>1. PICK kind \in {"delete", "prune"} : Begin(w, t, kind, "end", {})
    BY <1>2 DEF Delete, PruneKey
  <2>2. /\ UNCHANGED <<stamp, blind, cache, meta, win, rec, writes, index, faults>>
        /\ file' = file \/ file' = [file EXCEPT ![t] = {}]
    BY <1>2 DEF Delete, PruneKey, disk, stores, ghosts
  <2>3. FilesStay BY <2>2 DEF FilesStay, CacheInv, WriteInv, FileTypes
  <2>4. win[w] # "closed" BY <1>2 DEF Delete, Operation, PruneKey, Turn, CacheInv, ClosedIdle
  <2> QED BY <2>1, <2>2, <2>3, <2>4, BeginMoves
<1>3. ASSUME NEW w \in Window, NEW t \in Task, TargetedRefresh(w, t) \/ ScanFile(w, t)
      PROVE  Numbered' /\ ClosedIdle' /\ Sound'
  <2>1. UNCHANGED <<file, stamp, blind, cache, meta, win, rec, writes, index>>
    BY <1>3 DEF TargetedRefresh, ScanFile, disk, stores, ghosts
  <2>2. win[w] # "closed" BY <1>3 DEF TargetedRefresh, ScanFile, Turn, CacheInv, ClosedIdle
  <2>3. Refresh(w, t, "refresh") \/ Refresh(w, t, "scan") BY <1>3 DEF TargetedRefresh, ScanFile
  <2> QED BY <2>1, <2>2, <2>3, RefreshMoves
<1>4. ASSUME NEW w \in Window, NEW t \in Task, LockCompromised(w, t)
      PROVE  Numbered' /\ ClosedIdle' /\ Sound'
  <2> DEFINE new == [txn[w][t] EXCEPT !.lost = TRUE]
  <2>1. /\ txn[w][t] \in Transaction /\ txn \in [Window -> [Task -> Transaction]]
    BY DEF CacheInv, WriteInv, FileTypes
  <2>2. /\ UNCHANGED <<file, cache, meta, win, rec, writes, index>> /\ FilesStay
        /\ txn[w][t] # Idle /\ txn' = [txn EXCEPT ![w][t] = new] /\ faults' = faults \cup {"break"}
    BY <1>4, <2>1 DEF LockCompromised, Fault, disk, stores, ghosts, FilesStay
  <2>3. new.item = txn[w][t].item BY <2>1 DEF Transaction
  <2> HIDE DEF new
  <2>4. /\ txn'[w][t] = new
        /\ \A v \in Window, s \in Task : v # w \/ s # t => txn'[v][s] = txn[v][s]
    BY <2>1, <2>2
  <2>5. win[w] # "closed" BY <2>2 DEF CacheInv, ClosedIdle
  <2> QED BY <1>0, <2>2, <2>3, <2>4, <2>5, TransactionsMove
<1>5. ASSUME NEW t \in Task, RemoveDir(t) \/ LockTurnsStale(t)
      PROVE  Numbered' /\ ClosedIdle' /\ Sound'
  <2>1. /\ UNCHANGED <<stamp, blind, cache, meta, win, rec, writes, index, faults, txn>>
        /\ file' = file \/ file' = [file EXCEPT ![t] = {}]
    BY <1>5 DEF RemoveDir, LockTurnsStale, disk, stores, ghosts
  <2>2. FilesStay BY <2>1 DEF FilesStay, CacheInv, WriteInv, FileTypes
  <2> QED BY <2>1, <2>2, TransactionsMove
<1>6. CASE UNCHANGED vars
  <2>1. UNCHANGED <<cache, meta, win, rec, writes, index, faults, txn>> /\ FilesStay
    BY <1>6 DEF vars, disk, stores, ghosts, FilesStay
  <2> QED BY <2>1, TransactionsMove
<1> QED
  BY <1>1, <1>2, <1>3, <1>4, <1>5, <1>6, EndMoves, WriteMoves, WriteFailsMoves, WindowMoves DEF Next

(* hasFileChanged tells every store when it is behind, for any windows and *)
(* tasks, whoever wrote, deleted or died in between: what is cached under  *)
(* a known mtime and size is the file, but for a store whose known mtime   *)
(* and size a later write repeated exactly, until a watcher event or a     *)
(* further write tells it.  And every variable keeps its type.             *)
THEOREM StoresKnowWhenBehind == Spec => []WellFormed
<1>1. CacheInv => WellFormed
  <2> SUFFICES ASSUME CacheInv PROVE TypeOK /\ UnchangedMeansCurrent
    BY DEF WellFormed
  <2>1. TypeOK BY DEF CacheInv, WriteInv, FileTypes, StoreTypes, TypeOK
  <2>2. UnchangedMeansCurrent BY DEF CacheInv, Sound, Current, UnchangedMeansCurrent
  <2> QED BY <2>1, <2>2
<1> QED BY <1>1, CacheInit, CachesKept, PTL DEF Spec

-----------------------------------------------------------------------------
(* The refinement.  A transaction becomes a step where it writes, deletes  *)
(* or has its directory removed; only a write after a lost lock is none.   *)

LEMMA TrespassStays ==
  ASSUME WriteInv, [Next]_vars
  PROVE  \A t \in Task : Trespassed(t) => Trespassed(t)'
<1> DEFINE Known(s) == \/ s \in warned' \/ {"break", "exit"} \subseteq faults'
                       \/ \E v \in Window : txn'[v][s].lost /\ txn'[v][s].step = "end"
           Remembers == warned \subseteq warned' /\ faults \subseteq faults'
           Others(w, t) == \A v \in Window, s \in Task : v # w \/ s # t => txn'[v][s] = txn[v][s]
<1>0. txn \in [Window -> [Task -> Transaction]] BY DEF WriteInv, FileTypes
<1>1. ASSUME Remembers,
             \A v \in Window, s \in Task :
               txn[v][s].lost /\ txn[v][s].step = "end" => txn'[v][s] = txn[v][s] \/ Known(s)
      PROVE  \A t \in Task : Trespassed(t) => Trespassed(t)'
  BY <1>1 DEF Trespassed
<1>2. ASSUME Remembers, NEW w \in Window, NEW t \in Task, Others(w, t),
             txn[w][t].lost /\ txn[w][t].step = "end" => Known(t)
      PROVE  \A s \in Task : Trespassed(s) => Trespassed(s)'
  <2>1. ASSUME NEW v \in Window, NEW s \in Task, txn[v][s].lost, txn[v][s].step = "end"
        PROVE  txn'[v][s] = txn[v][s] \/ Known(s)
    <3>1. CASE v = w /\ s = t BY <1>2, <2>1, <3>1
    <3>2. CASE v # w \/ s # t BY <1>2, <3>2
    <3> QED BY <3>1, <3>2
  <2> HIDE DEF Known, Remembers
  <2> QED BY <1>1, <1>2, <2>1
<1> HIDE DEF Known
<1>3. ASSUME NEW w \in Window, NEW t \in Task,
             \/ Upsert(w, t) \/ AtomicReadAndUpdate(w, t) \/ Delete(w, t)
             \/ TargetedRefresh(w, t) \/ ScanFile(w, t) \/ PruneKey(w, t)
      PROVE  \A s \in Task : Trespassed(s) => Trespassed(s)'
  <2>1. Remembers
    BY <1>3 DEF Upsert, AtomicReadAndUpdate, Delete, TargetedRefresh, ScanFile, PruneKey,
                Refresh, Fault, ghosts
  <2>2. ASSUME NEW kind, NEW step, NEW item, Begin(w, t, kind, step, item)
        PROVE  Others(w, t) /\ ~txn[w][t].lost
    <3>1. PICK new : txn' = [txn EXCEPT ![w][t] = new] BY <2>2 DEF Begin
    <3> QED BY <1>0, <2>2, <3>1, IdleType DEF Begin, LockFree
  <2>3. (Others(w, t) /\ ~txn[w][t].lost) \/ txn' = txn
    BY <1>3, <2>2 DEF Upsert, AtomicReadAndUpdate, Delete, TargetedRefresh, ScanFile, PruneKey,
                      Refresh
  <2> HIDE DEF Others, Remembers
  <2> QED BY <1>1, <1>2, <2>1, <2>3
<1>4. ASSUME NEW w \in Window, NEW t \in Task, Write(w, t) \/ WriteFails(w, t)
      PROVE  \A s \in Task : Trespassed(s) => Trespassed(s)'
  <2>1. Remembers /\ txn[w][t].step = "write" BY <1>4 DEF Write, WriteFails, Fault, ghosts
  <2>2. PICK new : txn' = [txn EXCEPT ![w][t] = new]
    <3>1. CASE Write(w, t)
      <4>1. txn' = [txn EXCEPT ![w][t] = [txn[w][t] EXCEPT !.step = "end",
                                            !.item = txn[w][t].item \cup {writes + 1}]]
        BY <1>0, <3>1 DEF Write
      <4> QED BY <4>1
    <3>2. CASE WriteFails(w, t) BY <3>2 DEF WriteFails, Done
    <3> QED BY <1>4, <3>1, <3>2
  <2>3. Others(w, t) BY <1>0, <2>2
  <2> HIDE DEF Others, Remembers
  <2> QED BY <1>2, <2>1, <2>3
<1>5. ASSUME NEW w \in Window, NEW t \in Task, End(w, t)
      PROVE  \A s \in Task : Trespassed(s) => Trespassed(s)'
  <2>1. Remembers /\ (txn[w][t].lost => Known(t)) BY <1>5 DEF End, Known
  <2>2. Others(w, t) BY <1>0, <1>5, IdleType DEF End, Done
  <2> HIDE DEF Others, Remembers
  <2> QED BY <1>2, <2>1, <2>2
<1>6. ASSUME NEW w \in Window, NEW t \in Task, LockCompromised(w, t)
      PROVE  \A s \in Task : Trespassed(s) => Trespassed(s)'
  <2> DEFINE new == [txn[w][t] EXCEPT !.lost = TRUE]
  <2>1. Remembers /\ txn' = [txn EXCEPT ![w][t] = new]
    BY <1>0, <1>6 DEF LockCompromised, Fault, ghosts
  <2>2. txn[w][t] \in Transaction BY <1>0
  <2>3. new.lost /\ new.step = txn[w][t].step BY <2>2 DEF Transaction
  <2> HIDE DEF new
  <2>4. Others(w, t) /\ txn'[w][t] = new BY <1>0, <2>1
  <2>5. txn[w][t].step = "end" => Known(t) BY <2>3, <2>4 DEF Known
  <2> HIDE DEF Others, Remembers
  <2> QED BY <1>2, <2>1, <2>4, <2>5
<1>7. ASSUME NEW w \in Window, Exit(w)
      PROVE  \A s \in Task : Trespassed(s) => Trespassed(s)'
  <2>1. Remembers /\ "exit" \in faults' BY <1>7 DEF Exit, Fault, ghosts
  <2>2. ASSUME NEW v \in Window, NEW s \in Task, txn[v][s].lost PROVE Known(s)
    <3>1. "break" \in faults BY <2>2 DEF WriteInv, Locked
    <3> QED BY <2>1, <3>1 DEF Known
  <2> HIDE DEF Remembers
  <2> QED BY <1>1, <2>1, <2>2
<1>8. ASSUME UNCHANGED <<txn, warned>>, faults \subseteq faults'
      PROVE  \A s \in Task : Trespassed(s) => Trespassed(s)'
  BY <1>1, <1>8
<1>9. ASSUME NEW w \in Window,
             \/ ReadDir(w) \/ ListKeys(w) \/ EndReconcile(w) \/ Open(w)
             \/ \E t \in Task : PassOver(w, t)
      PROVE  UNCHANGED <<txn, warned>> /\ faults \subseteq faults'
  BY <1>9 DEF ReadDir, ListKeys, EndReconcile, Open, PassOver, Fault, ghosts
<1>10. ASSUME NEW t \in Task, RemoveDir(t) \/ LockTurnsStale(t)
       PROVE  UNCHANGED <<txn, warned>> /\ faults \subseteq faults'
  BY <1>10 DEF RemoveDir, LockTurnsStale, ghosts
<1>11. CASE UNCHANGED vars BY <1>8, <1>11 DEF vars, ghosts
<1> QED
  BY <1>3, <1>4, <1>5, <1>6, <1>7, <1>8, <1>9, <1>10, <1>11 DEF Next

(* Whatever happens to files of tasks somebody trespassed on is allowed.   *)
LEMMA BreakAllowed ==
  ASSUME WriteInv, CacheInv, CacheInv', [Next]_vars, writes' \in {writes, writes + 1},
         \A t \in Task : ~Trespassed(t)' => file'[t] = file[t]
  PROVE  Items!Break
<1>1. {t \in Task : Trespassed(t)} \subseteq {t \in Task : Trespassed(t)'}
  BY TrespassStays
<1>2. file' \in [Task -> SUBSET (1..writes')]
  <2>1. file' \in [Task -> SUBSET Nat] BY DEF CacheInv, WriteInv, FileTypes
  <2>2. \A t \in Task : file'[t] \subseteq 1..writes' BY DEF CacheInv, Numbered, Past
  <2> QED BY <2>1, <2>2
<1> QED BY <1>1, <1>2 DEF Items!Break, Items!Contents

LEMMA WriteIsChange ==
  ASSUME CacheInv, CacheInv', [Next]_vars, NEW w \in Window, NEW t \in Task, Write(w, t)
  PROVE  Items!Next
<1>1. WriteInv /\ txn \in [Window -> [Task -> Transaction]] BY DEF CacheInv, WriteInv, FileTypes
<1>2. /\ txn[w][t].step = "write" /\ writes' = writes + 1
      /\ file' = [file EXCEPT ![t] = txn[w][t].item \cup {writes + 1}]
      /\ warned' = warned
      /\ {"break", "exit"} \subseteq faults' <=> {"break", "exit"} \subseteq faults
  BY DEF Write, Fault
<1>3. file \in [Task -> SUBSET Nat] BY DEF CacheInv, WriteInv, FileTypes
<1>4. /\ txn'[w][t].step = "end" /\ txn'[w][t].lost = txn[w][t].lost
      /\ \A v \in Window, s \in Task : v # w \/ s # t => txn'[v][s] = txn[v][s]
  <2> DEFINE new == [txn[w][t] EXCEPT !.step = "end", !.item = txn[w][t].item \cup {writes + 1}]
  <2>1. txn' = [txn EXCEPT ![w][t] = new] BY <1>1 DEF Write
  <2>2. txn[w][t] \in Transaction BY <1>1
  <2>3. new.step = "end" /\ new.lost = txn[w][t].lost BY <2>2 DEF Transaction
  <2> HIDE DEF new
  <2> QED BY <1>1, <2>1, <2>3
<1>5. CASE Trespassed(t) \/ txn[w][t].lost
  <2>1. Trespassed(t)' BY <1>1, <1>4, <1>5, TrespassStays DEF Trespassed
  <2>2. \A s \in Task : ~Trespassed(s)' => file'[s] = file[s] BY <1>2, <1>3, <2>1
  <2> QED BY <1>1, <1>2, <2>2, BreakAllowed DEF Items!Next
<1>6. CASE ~Trespassed(t) /\ ~txn[w][t].lost
  <2>1. ASSUME NEW s \in Task PROVE Trespassed(s)' <=> Trespassed(s)
    <3>1. \A v \in Window : /\ txn[v][s].lost /\ txn[v][s].step = "end"
                             <=> txn'[v][s].lost /\ txn'[v][s].step = "end"
      BY <1>2, <1>4, <1>6
    <3> QED BY <1>2, <3>1 DEF Trespassed
  <2>2. {s \in Task : Trespassed(s)'} = {s \in Task : Trespassed(s)} BY <2>1
  <2>3. file[t] \in {{}, txn[w][t].item} BY <1>1, <1>2, <1>6 DEF WriteInv, WritesHeld
  <2>4. txn[w][t].item \in SUBSET (1..writes) BY DEF CacheInv, Numbered, Past
  <2>5. Items!Change(t) BY <1>2, <2>2, <2>3, <2>4 DEF Items!Change, Items!Contents
  <2> QED BY <2>5 DEF Items!Next
<1> QED BY <1>5, <1>6

LEMMA DeleteIsRemove ==
  ASSUME CacheInv, NEW t \in Task, RemoveDir(t) \/ \E w \in Window : Delete(w, t)
  PROVE  Items!Next
<1>1. txn \in [Window -> [Task -> Transaction]] BY DEF CacheInv, WriteInv, FileTypes
<1>2. file' = [file EXCEPT ![t] = {}] /\ UNCHANGED <<writes, warned, faults>>
  BY DEF RemoveDir, Delete
<1>3. \A v \in Window, s \in Task :
        txn[v][s].lost /\ txn[v][s].step = "end" <=> txn'[v][s].lost /\ txn'[v][s].step = "end"
  <2>1. CASE RemoveDir(t) BY <2>1 DEF RemoveDir
  <2>2. ASSUME NEW w \in Window, Delete(w, t)
        PROVE  \A v \in Window, s \in Task :
                 txn[v][s].lost /\ txn[v][s].step = "end"
                 <=> txn'[v][s].lost /\ txn'[v][s].step = "end"
    <3> DEFINE new == [Idle EXCEPT !.kind = "delete", !.step = "end", !.item = {}]
    <3>1. txn[w][t] = Idle /\ txn' = [txn EXCEPT ![w][t] = new]
      BY <2>2 DEF Delete, Begin, LockFree
    <3>2. ~new.lost BY DEF Idle
    <3> HIDE DEF new
    <3>3. txn'[w][t] = new /\ \A v \in Window, s \in Task : v # w \/ s # t => txn'[v][s] = txn[v][s]
      BY <1>1, <3>1
    <3> QED BY <3>1, <3>2, <3>3, IdleType
  <2> QED BY <2>1, <2>2
<1>4. \A s \in Task : Trespassed(s)' <=> Trespassed(s) BY <1>2, <1>3 DEF Trespassed
<1>5. {s \in Task : Trespassed(s)'} = {s \in Task : Trespassed(s)} BY <1>4
<1> QED BY <1>2, <1>5 DEF Items!Next, Items!Remove

(* The store implements the atomic items that Delegation assumes.          *)
THEOREM StoreImplementsItems == Spec => TransactionsAreAtomic
<1>1. Init => Items!Init
  <2> SUFFICES ASSUME Init PROVE Items!Init
    OBVIOUS
  <2>1. {t \in Task : Trespassed(t)} = {} BY IdleType DEF Init, Trespassed
  <2>2. file \in [Task -> {{}, {1}}] BY DEF Init
  <2> QED BY <2>1, <2>2 DEF Init, Items!Init
<1>2. CacheInv /\ CacheInv' /\ [Next]_vars => [Items!Next]_(Items!vars)
  <2> SUFFICES ASSUME CacheInv, CacheInv', [Next]_vars PROVE Items!Next
    OBVIOUS
  <2>1. WriteInv BY DEF CacheInv
  <2>2. CASE UNCHANGED <<file, writes>>
    BY <2>1, <2>2, BreakAllowed DEF Items!Next
  <2>3. ASSUME NEW w \in Window, NEW t \in Task,
               \/ Upsert(w, t) \/ AtomicReadAndUpdate(w, t) \/ WriteFails(w, t) \/ End(w, t)
               \/ TargetedRefresh(w, t) \/ ScanFile(w, t) \/ PruneKey(w, t) \/ PassOver(w, t)
               \/ LockCompromised(w, t)
        PROVE  UNCHANGED <<file, writes>>
    BY <2>3 DEF Upsert, AtomicReadAndUpdate, WriteFails, End, TargetedRefresh, ScanFile,
                PruneKey, PassOver, LockCompromised, disk
  <2>4. ASSUME NEW w \in Window,
               ReadDir(w) \/ ListKeys(w) \/ EndReconcile(w) \/ Open(w) \/ Exit(w)
        PROVE  UNCHANGED <<file, writes>>
    BY <2>4 DEF ReadDir, ListKeys, EndReconcile, Open, Exit, disk
  <2>5. ASSUME NEW t \in Task, LockTurnsStale(t) PROVE UNCHANGED <<file, writes>>
    BY <2>5 DEF LockTurnsStale, disk
  <2>6. CASE UNCHANGED vars BY <2>2, <2>6 DEF vars, disk
  <2> QED BY <2>2, <2>3, <2>4, <2>5, <2>6, WriteIsChange, DeleteIsRemove DEF Next
<1> QED BY <1>1, <1>2, CacheInit, CachesKept, PTL DEF Spec, TransactionsAreAtomic, Items!Spec
=============================================================================
