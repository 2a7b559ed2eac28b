-------------------------- MODULE TaskHistoryStore --------------------------
(***************************************************************************)
(* TaskHistoryStore (core/task-persistence/TaskHistoryStore.ts): several   *)
(* windows, each a process with a store of its own, share one directory    *)
(* with a history item per task.  A store caches the items, changes them   *)
(* in transactions under a lock file, and learns of the changes of other   *)
(* windows from watcher events, which may be lost, and from a reconcile    *)
(* every five minutes, which skips the files whose mtime and size it knows.*)
(*                                                                         *)
(* Every write sets a field of its own, so an item is the set of the       *)
(* writes it contains, {} when there is no file.  The mtime and size of a  *)
(* file are one number, its stamp: that of a write is new, but for a       *)
(* "twin", which has mtime and size of an earlier one.  A transaction begins when it has its lock and     *)
(* reads the file first thing: what waits for a lock has not begun.  The   *)
(* lock file is proper-lockfile (safeWriteJson.ts:88-147).                 *)
(***************************************************************************)
EXTENDS Naturals, FiniteSets

CONSTANTS
  Window, Task,
  Nobody,       \* no window
  MaxOps,       \* bound on upserts, updates and deletes
  MaxFaults     \* bound on the kinds of fault of a behaviour

ASSUME StoreAssumption == Nobody \notin Window /\ {MaxOps, MaxFaults} \subseteq Nat

VARIABLES
  \* the disk
  file,      \* per task: history_item.json
  stamp,     \* per task: mtime and size of the file written last
  dirs,      \* the task directories
  index,     \* what _index.json may hold: the caches of all stores so far
  lock,      \* per task: the window that holds the lock file
  removing,  \* directories deleteTaskWithId may still remove
  \* per window
  win,       \* the store: closed, loading or open
  cache,     \* cache
  meta,      \* fileMeta: the stamp at the last refresh, 0 for none
  txn,       \* the transaction of the window on each task
  rec,       \* the reconcile pass
  \* counters, and what happened (for the properties)
  writes, ops, faults,
  done,      \* per task: the writes since the file was last created
  warned,    \* tasks for which a LockCompromisedError was thrown
  blind      \* <<w, t>>: t was written with the very stamp that w knows

disk == <<file, stamp, dirs, index, removing>>
stores == <<win, cache, meta, rec>>
ghosts == <<done, warned, blind>>
vars == <<disk, lock, stores, txn, writes, ops, faults, ghosts>>

(* mtime and size of the file of t; 0 when there is none. *)
Mtime(t) == IF file[t] = {} THEN 0 ELSE stamp[t]

Idle == [kind |-> "none", step |-> "no", item |-> {}, lost |-> FALSE]
NoPass == [step |-> "no", dirs |-> {}, ids |-> {}, todo |-> {}]

Cached(w) == {t \in Task : cache[w][t] # {}}

Init ==
  /\ dirs \in SUBSET Task
  /\ file = [t \in Task |-> IF t \in dirs THEN {1} ELSE {}]
  /\ stamp = [t \in Task |-> 1]
  /\ index = {[t \in Task |-> {}]}
  /\ lock = [t \in Task |-> Nobody]
  /\ removing = {}
  /\ win = [w \in Window |-> "closed"]
  /\ cache = [w \in Window |-> [t \in Task |-> {}]]
  /\ meta = [w \in Window |-> [t \in Task |-> 0]]
  /\ txn = [w \in Window |-> [t \in Task |-> Idle]]
  /\ rec = [w \in Window |-> NoPass]
  /\ writes = 1 /\ ops = 0 /\ faults = {}
  /\ done = [t \in Task |-> {}]
  /\ warned = {} /\ blind = {}

Fault(kind) ==
  /\ kind \notin faults /\ Cardinality(faults) < MaxFaults
  /\ faults' = faults \cup {kind}

-----------------------------------------------------------------------------
(* withRecordTransaction takes the lock of the id, then the lock file,     *)
(* runs its body, which begins with a read, and looks at the mtime.        *)

LockFreeInProcess(w, t) == txn[w][t] = Idle

LockFree(w, t) == txn[w][t] = Idle /\ lock[t] = Nobody

Begin(w, t, kind, step, item) ==
  /\ LockFree(w, t)
  /\ lock' = [lock EXCEPT ![t] = w]
  /\ txn' = [txn EXCEPT ![w][t] = [Idle EXCEPT !.kind = kind, !.step = step, !.item = item]]

(* The transaction ends; the reconcile that waits for it goes on.          *)
Done(w, t) ==
  /\ txn' = [txn EXCEPT ![w][t] = Idle]
  /\ lock' = IF txn[w][t].lost THEN lock ELSE [lock EXCEPT ![t] = Nobody]
  /\ rec' = IF txn[w][t].kind \in {"scan", "prune"} THEN [rec EXCEPT ![w].todo = @ \ {t}]
                                                    ELSE rec

Operation(w) ==
  /\ win[w] = "open" /\ ops < MaxOps
  /\ ops' = ops + 1

UpsertOverCache(w, t) ==
  /\ Operation(w)
  /\ Begin(w, t, "upsert", "write", IF cache[w][t] # {} THEN cache[w][t] ELSE file[t])
  /\ UNCHANGED <<disk, stores, writes, faults, ghosts>>

(* upsert merges into the file, or into the cached item without one.       *)
Upsert(w, t) ==
  /\ Operation(w)
  /\ Begin(w, t, "upsert", "write", IF file[t] # {} THEN file[t] ELSE cache[w][t])
  /\ UNCHANGED <<disk, stores, writes, faults, ghosts>>

(* atomicReadAndUpdate throws for a missing file.                          *)
AtomicReadAndUpdate(w, t) ==
  /\ Operation(w)
  /\ IF file[t] # {} THEN Begin(w, t, "update", "write", file[t])
                     ELSE LockFree(w, t) /\ UNCHANGED <<lock, txn>>
  /\ UNCHANGED <<disk, stores, writes, faults, ghosts>>

(* delete unlinks the file.                                                *)
Delete(w, t) ==
  /\ Operation(w)
  /\ Begin(w, t, "delete", "end", {})
  /\ file' = [file EXCEPT ![t] = {}]
  /\ done' = [done EXCEPT ![t] = {}]
  /\ UNCHANGED <<stamp, dirs, index, removing, stores, writes, faults, warned, blind>>

(* refreshTask keeps what is cached when the file cannot be read.          *)
Refresh(w, t, kind) ==
  \/ /\ Begin(w, t, kind, "end", file[t])
     /\ UNCHANGED faults
  \/ /\ file[t] # {} /\ Fault("error")
     /\ Begin(w, t, kind, "end", cache[w][t])

(* The write: a temporary file renamed over the old one.  Its mtime and    *)
(* size may be those of an earlier write: two writes of items of one       *)
(* length in one tick of the file system's clock, or a clock set back.     *)
Write(w, t) ==
  LET x == txn[w][t]
      item == x.item \cup {writes + 1}
  IN /\ x.step = "write" /\ (x.kind = "update" => t \in dirs)
     /\ writes' = writes + 1
     /\ file' = [file EXCEPT ![t] = item]
     /\ dirs' = dirs \cup {t}
     /\ done' = [done EXCEPT ![t] = (IF file[t] = {} THEN {} ELSE @) \cup {writes + 1}]
     /\ txn' = [txn EXCEPT ![w][t].step = "end", ![w][t].item = item]
     /\ \/ stamp' = [stamp EXCEPT ![t] = writes + 1] /\ UNCHANGED faults
        \/ /\ Fault("twin")
           /\ \E old \in 1..writes : stamp' = [stamp EXCEPT ![t] = old]
     /\ blind' = blind \cup {<<v, t>> : v \in {u \in Window : meta[u][t] = stamp'[t]}}
     /\ UNCHANGED <<index, removing, lock, stores, ops, warned>>

(* It fails, on the disk's account or because its directory is gone.       *)
WriteFails(w, t) ==
  /\ txn[w][t].step = "write"
  /\ \/ Fault("error")
     \/ txn[w][t].kind = "update" /\ t \notin dirs /\ UNCHANGED faults
  /\ Done(w, t)
  /\ UNCHANGED <<disk, win, cache, meta, writes, ops, ghosts>>

EndKeepsCache(w, t) ==
  LET x == txn[w][t] IN
  /\ x.step = "end"
  /\ cache' = IF x.kind = "scan" /\ cache[w][t] # {} THEN cache ELSE [cache EXCEPT ![w][t] = x.item]
  /\ meta' = [meta EXCEPT ![w][t] = IF x.item = {} THEN 0 ELSE Mtime(t)]
  /\ index' = index \cup {cache'[w]}
  /\ removing' = IF x.kind = "delete" /\ ~x.lost THEN removing \cup {t} ELSE removing
  /\ warned' = IF x.lost THEN warned \cup {t} ELSE warned
  /\ Done(w, t)
  /\ blind' = blind \ {<<w, t>>}
  /\ UNCHANGED <<file, stamp, dirs, win, writes, ops, faults, done>>

(* The cache and fileMeta follow and the lock is given back; the index is  *)
(* written some time later, by one window over another's.  A transaction   *)
(* that lost its lock file throws; a delete may be that of a task the user *)
(* deletes, whose directory goes next.                                     *)
End(w, t) ==
  LET x == txn[w][t] IN
  /\ x.step = "end"
  /\ cache' = [cache EXCEPT ![w][t] = x.item]
  /\ meta' = [meta EXCEPT ![w][t] = IF x.item = {} THEN 0 ELSE Mtime(t)]
  /\ index' = index \cup {cache'[w]}
  /\ removing' = IF x.kind = "delete" /\ ~x.lost THEN removing \cup {t} ELSE removing
  /\ warned' = IF x.lost THEN warned \cup {t} ELSE warned
  /\ Done(w, t)
  /\ blind' = blind \ {<<w, t>>}
  /\ UNCHANGED <<file, stamp, dirs, win, writes, ops, faults, done>>

(* deleteTaskWithId removes the directory without a lock.                  *)
RemoveDir(t) ==
  /\ t \in removing
  /\ removing' = removing \ {t}
  /\ dirs' = dirs \ {t}
  /\ file' = [file EXCEPT ![t] = {}]
  /\ done' = [done EXCEPT ![t] = {}]
  /\ UNCHANGED <<stamp, index, lock, stores, txn, writes, ops, faults, warned, blind>>

-----------------------------------------------------------------------------
(* Learning of other windows' changes.                                     *)

OnlyUnseenFileChanged(w, t) == meta[w][t] = 0

HasFileChanged(w, t) == meta[w][t] = 0 \/ meta[w][t] # Mtime(t)

(* A watcher tells of a change: the file is read whatever its mtime.       *)
TargetedRefresh(w, t) ==
  /\ win[w] = "open" /\ (meta[w][t] # Mtime(t) \/ <<w, t>> \in blind)
  /\ Refresh(w, t, "refresh")
  /\ UNCHANGED <<disk, stores, writes, ops, ghosts>>

(* reconcile reads the directory, then the keys of the cache.              *)
ReadDir(w) ==
  /\ win[w] # "closed" /\ rec[w].step = "no"
  /\ rec' = [rec EXCEPT ![w].step = "read", ![w].dirs = dirs]
  /\ UNCHANGED <<disk, lock, win, cache, meta, txn, writes, ops, faults, ghosts>>

ListKeys(w) ==
  /\ rec[w].step = "read"
  /\ rec' = [rec EXCEPT ![w].step = "scan", ![w].ids = Cached(w),
                        ![w].todo = rec[w].dirs \cup Cached(w)]
  /\ UNCHANGED <<disk, lock, win, cache, meta, txn, writes, ops, faults, ghosts>>

(* One file after the other, then one key without a directory after the    *)
(* other; a lock file that stays taken through five retries is given up.   *)
Turn(w, t) ==
  /\ rec[w].step = "scan"
  /\ t \in rec[w].todo
  /\ t \in rec[w].dirs \/ rec[w].todo \cap rec[w].dirs = {}
  /\ \A s \in Task : txn[w][s].kind \notin {"scan", "prune"}

Unchanged(w, t) == t \in rec[w].ids /\ ~HasFileChanged(w, t)

ScanFile(w, t) ==
  /\ Turn(w, t) /\ t \in rec[w].dirs
  /\ ~Unchanged(w, t)
  /\ Refresh(w, t, "scan")
  /\ UNCHANGED <<disk, stores, writes, ops, ghosts>>

PruneKey(w, t) ==
  /\ Turn(w, t) /\ t \notin rec[w].dirs
  /\ Begin(w, t, "prune", "end", {})
  /\ UNCHANGED <<disk, stores, writes, ops, faults, ghosts>>

PassOver(w, t) ==
  /\ Turn(w, t)
  /\ \/ t \in rec[w].dirs /\ Unchanged(w, t) /\ UNCHANGED faults
     \/ lock[t] \notin {Nobody, w} /\ Fault("refused")
  /\ rec' = [rec EXCEPT ![w].todo = @ \ {t}]
  /\ UNCHANGED <<disk, lock, win, cache, meta, txn, writes, ops, ghosts>>

EndReconcile(w) ==
  /\ rec[w].step = "scan" /\ rec[w].todo = {}
  /\ rec' = [rec EXCEPT ![w] = NoPass]
  /\ win' = [win EXCEPT ![w] = "open"]
  /\ UNCHANGED <<disk, lock, cache, meta, txn, writes, ops, faults, ghosts>>

-----------------------------------------------------------------------------
(* Windows come and go.                                                    *)

(* initialize: the index first, then a reconcile.                          *)
Open(w) ==
  /\ win[w] = "closed"
  /\ win' = [win EXCEPT ![w] = "loading"]
  /\ \E old \in index : cache' = [cache EXCEPT ![w] = old]
  /\ UNCHANGED <<disk, lock, meta, rec, txn, writes, ops, faults, ghosts>>

(* The process ends, at any moment: its lock files stay until they are     *)
(* stale.                                                                  *)
Exit(w) ==
  /\ win[w] # "closed" /\ Fault("exit")
  /\ win' = [win EXCEPT ![w] = "closed"]
  /\ cache' = [cache EXCEPT ![w] = [t \in Task |-> {}]]
  /\ meta' = [meta EXCEPT ![w] = [t \in Task |-> 0]]
  /\ txn' = [txn EXCEPT ![w] = [t \in Task |-> Idle]]
  /\ rec' = [rec EXCEPT ![w] = NoPass]
  /\ UNCHANGED <<disk, lock, writes, ops, ghosts>>

LockTurnsStale(t) ==
  /\ \E w \in Window : lock[t] = w /\ txn[w][t] = Idle
  /\ lock' = [lock EXCEPT ![t] = Nobody]
  /\ UNCHANGED <<disk, stores, txn, writes, ops, faults, ghosts>>

(* A process that stood still for 31 seconds loses its lock file, and is   *)
(* told so before its transaction ends.                                    *)
LockCompromised(w, t) ==
  /\ txn[w][t] # Idle /\ lock[t] = w /\ Fault("break")
  /\ lock' = [lock EXCEPT ![t] = Nobody]
  /\ txn' = [txn EXCEPT ![w][t].lost = TRUE]
  /\ UNCHANGED <<disk, stores, writes, ops, ghosts>>

Next ==
  \/ \E w \in Window, t \in Task :
       \/ Upsert(w, t) \/ AtomicReadAndUpdate(w, t) \/ Delete(w, t)
       \/ Write(w, t) \/ WriteFails(w, t) \/ End(w, t)
       \/ TargetedRefresh(w, t) \/ ScanFile(w, t) \/ PruneKey(w, t) \/ PassOver(w, t)
       \/ LockCompromised(w, t)
  \/ \E w \in Window : ReadDir(w) \/ ListKeys(w) \/ EndReconcile(w) \/ Open(w) \/ Exit(w)
  \/ \E t \in Task : RemoveDir(t) \/ LockTurnsStale(t)

Spec == Init /\ [][Next]_vars

(* File accesses and timers go on, and a lock file that is free again and  *)
(* again is taken in the end.  Nothing is assumed of users and watchers.   *)
Fairness ==
  /\ \A w \in Window, t \in Task :
       /\ WF_vars(Write(w, t) \/ WriteFails(w, t) \/ End(w, t))
       /\ SF_vars(ScanFile(w, t) \/ PruneKey(w, t))
  /\ \A w \in Window :
       WF_vars(ReadDir(w) \/ ListKeys(w) \/ (\E t \in Task : PassOver(w, t)) \/ EndReconcile(w))
  /\ \A t \in Task : WF_vars(LockTurnsStale(t))

FairSpec == Spec /\ Fairness
-----------------------------------------------------------------------------

Transaction ==
  [kind : {"none", "upsert", "update", "delete", "refresh", "scan", "prune"},
   step : {"no", "write", "end"}, item : SUBSET Nat, lost : BOOLEAN]
Pass ==
  [step : {"no", "read", "scan"}, dirs : SUBSET Task, ids : SUBSET Task, todo : SUBSET Task]

TypeOK ==
  /\ file \in [Task -> SUBSET Nat] /\ dirs \subseteq Task
  /\ index \subseteq [Task -> SUBSET Nat] /\ removing \subseteq Task
  /\ lock \in [Task -> Window \cup {Nobody}]
  /\ win \in [Window -> {"closed", "loading", "open"}]
  /\ cache \in [Window -> [Task -> SUBSET Nat]]
  /\ meta \in [Window -> [Task -> Nat]]
  /\ txn \in [Window -> [Task -> Transaction]]
  /\ rec \in [Window -> Pass]
  /\ stamp \in [Task -> Nat] /\ blind \subseteq Window \X Task
  /\ warned \subseteq Task /\ done \in [Task -> SUBSET Nat]

(* reconcile skips a file with a known mtime and size: what is cached is   *)
(* then the file, whoever wrote it and however the writes of two windows,  *)
(* refreshes and prunes came between; but for a write with the very mtime  *)
(* and size that the window knows, which nothing but a watcher event tells *)
(* it of, and as long as no file access failed and no lock was lost.       *)
UnchangedMeansCurrent ==
  faults \subseteq {"exit", "refused", "twin"} =>
    \A w \in Window, t \in Task :
      txn[w][t] = Idle /\ ~HasFileChanged(w, t)
        => cache[w][t] = file[t] \/ <<w, t>> \in blind

(* Types, and hasFileChanged tells when the cache is behind, but for twins.*)
WellFormed == TypeOK /\ UnchangedMeansCurrent

(* A process wrote, or may have, after it had lost its lock file: its      *)
(* caller is told so with a LockCompromisedError, if the process does not  *)
(* end first.                                                              *)
Trespassed(t) ==
  \/ t \in warned
  \/ \E w \in Window : txn[w][t].lost /\ txn[w][t].step = "end"
  \/ {"break", "exit"} \subseteq faults

(* No update is lost: the file holds every write since it was created,     *)
(* although windows write with caches that are behind; unless a process    *)
(* that had lost its lock file wrote.                                      *)
FileHoldsLastWrites == \A t \in Task : Trespassed(t) \/ done[t] \subseteq file[t]

(* A transaction of any window, with its lock, its read and its write, is  *)
(* one step to all others, whatever fails or ends between the read and the *)
(* write, unless a process wrote after it had lost its lock file.          *)
Items == INSTANCE HistoryItems WITH broken <- {t \in Task : Trespassed(t)}
TransactionsAreAtomic == Items!Spec

(* The history of every window agrees with the disk in the end, also when  *)
(* every watcher event is lost and an old index was loaded; but for items  *)
(* written with the very mtime and size that the window knows.             *)
CacheCatchesUp ==
  <>[](faults \subseteq {"exit", "refused", "twin"} =>
         \A w \in Window, t \in Task :
           win[w] = "open" =>
             \/ cache[w][t] = file[t]
             \/ <<w, t>> \in blind /\ ~HasFileChanged(w, t))
=============================================================================
