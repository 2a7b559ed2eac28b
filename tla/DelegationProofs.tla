-------------------------- MODULE DelegationProofs --------------------------
(***************************************************************************)
(* Proofs about Delegation, for any tasks and any number of restarts.  For *)
(* a user however fast: the types, and that no crash between the writes of *)
(* a completion loses a result.  For a careful user: the claims about a    *)
(* parent and its sole child.                                              *)
(***************************************************************************)
EXTENDS Delegation, TLAPS

Present(t) == item[t].status # "absent"

(* What runs, is cancelled or opened a child has a history item.           *)
Known ==
    /\ \A t \in off \cup ({on} \cap Task) : Present(t)
    /\ \A t \in Task : handing[t] # "no" => Present(t)
    /\ \A c \in Task : opener[c] \in Task => Present(opener[c])
    /\ cancel.task \in Task => Present(cancel.task) /\ cancel.hist.status # "absent"
    /\ cancel.step # "no" => cancel.task \in Task

(* The parent of a task, wherever it is written, is who opened the task,   *)
(* and the operations on the parent know it.                               *)
Opened ==
    /\ \A c \in Task :
         /\ item[c].parent \in {None, opener[c]} /\ Parent(c) \in {None, opener[c]}
         /\ c \in attach \/ repair[c] # "no" \/ complete[c].step # "no" => opener[c] \in Task
    /\ cancel.task \in Task => cancel.hist.parent \in {None, opener[cancel.task]}

(* Whatever may write the status "completed" of a task, its result came    *)
(* first: its item, what its instance remembers, and a cancel in progress. *)
ResultFirst ==
    /\ CompletedIsReturned
    /\ \A c \in Task : stamp[c].status = "completed" => c \in returned
    /\ cancel.task \in Task /\ cancel.hist.status = "completed" => cancel.task \in returned
    /\ \A c \in Task : complete[c].step \notin {"no", "read"} => c \in returned

DelegationInv == TypeOK /\ Known /\ Opened /\ ResultFirst

USE DelegationAssumption

-----------------------------------------------------------------------------
(* The helpers of the operations.                                          *)

(* A parent that is new is the one a live task remembers, or none, and a   *)
(* status that is new is one that a live task or a cancel remembers,       *)
(* "active", "delegated", or rightly "completed".                          *)
ItemsGoOn ==
    \A t \in Task :
        /\ item'[t].parent \in {item[t].parent, stamp[t].parent, None}
        /\ \/ item'[t].status \in {item[t].status, stamp[t].status, "active", "delegated"}
           \/ item'[t].status = "completed" /\ t \in returned
           \/ t = cancel.task /\ item'[t].status = cancel.hist.status

LEMMA SavedItems ==
  ASSUME TypeOK, NEW S
  PROVE  /\ Saved(S) \in [Task -> Item]
         /\ \A t \in Task : /\ Saved(S)[t].parent \in {item[t].parent, stamp[t].parent}
                            /\ Saved(S)[t].status \in {item[t].status, stamp[t].status}
<1>1. ASSUME NEW t \in Task
      PROVE  /\ Saved(S)[t] \in Item
             /\ Saved(S)[t].parent \in {item[t].parent, stamp[t].parent}
             /\ Saved(S)[t].status \in {item[t].status, stamp[t].status}
  <2>1. item[t] \in Item /\ stamp[t].status \in Status /\ stamp[t].parent \in Task \cup {None}
    BY DEF TypeOK, Stamp
  <2>2. PICK st \in {item[t].status, stamp[t].status} :
          \/ Saved(S)[t] = item[t]
          \/ Saved(S)[t] = [item[t] EXCEPT !.status = st, !.parent = stamp[t].parent]
    BY DEF Saved
  <2>3. st \in Status BY <2>1 DEF Item
  <2> QED BY <2>1, <2>2, <2>3 DEF Item
<1>2. Saved(S) = [t \in Task |-> Saved(S)[t]] BY DEF Saved
<1> QED BY <1>1, <1>2

LEMMA SavedGoOn == ASSUME TypeOK, NEW S, item' = Saved(S) PROVE item' \in [Task -> Item] /\ ItemsGoOn
BY SavedItems DEF ItemsGoOn

LEMMA SameItems == ASSUME TypeOK, item' = item PROVE item' \in [Task -> Item] /\ ItemsGoOn
BY DEF TypeOK, ItemsGoOn

LEMMA ClosedPhases == ASSUME TypeOK, NEW S PROVE Closed(S) \in [Task -> Phase]
BY DEF TypeOK, Closed, Phase

(* A repair is due only for a child whose parent is known. *)
LEMMA RepairsDue ==
  ASSUME TypeOK, Opened, NEW S
  PROVE  /\ RepairDue(S) \in [Task -> {"no", "due", "read"}]
         /\ \A c \in Task : RepairDue(S)[c] # "no" => opener[c] \in Task
<1>1. ASSUME NEW c \in Task
      PROVE  /\ RepairDue(S)[c] \in {"no", "due", "read"}
             /\ RepairDue(S)[c] # "no" => opener[c] \in Task
  <2>1. /\ opener[c] \in Task \cup {None} /\ repair[c] \in {"no", "due", "read"}
        /\ Parent(c) \in {None, opener[c]}
        /\ repair[c] # "no" => opener[c] \in Task
    BY DEF TypeOK, Opened
  <2>2. RepairDue(S)[c] = repair[c] \/ (RepairDue(S)[c] = "due" /\ Parent(c) # None)
    BY DEF RepairDue
  <2> QED BY <2>1, <2>2
<1>2. RepairDue(S) = [c \in Task |-> RepairDue(S)[c]] BY DEF RepairDue
<1> QED BY <1>1, <1>2

LEMMA KeptTasks == TypeOK => Kept \subseteq Task /\ Kept \subseteq {on}
BY DEF TypeOK, Kept

LEMMA AwaitedParent ==
  ASSUME TypeOK, Opened, NEW c \in Task, ParentOf(c) # {}
  PROVE  opener[c] \in Task /\ Parent(c) = opener[c]
BY DEF TypeOK, Opened, ParentOf

-----------------------------------------------------------------------------
(* What a step keeps that moves items on.                                  *)

Runs == off \cup ({on} \cap Task)

LEMMA StepKeeps ==
  ASSUME TypeOK, Known, Opened, ResultFirst, TypeOK',
         ItemsGoOn, opener' = opener, returned \subseteq returned',
         \A t \in Task :
           \/ stamp'[t] = stamp[t]
           \/ stamp'[t].status \in {"active", item[t].status} /\ stamp'[t].parent = item[t].parent
           \/ t = cancel.task /\ stamp'[t].status = cancel.hist.status
              /\ stamp'[t].parent = cancel.hist.parent,
         \/ cancel'.task = None /\ cancel'.step = "no"
         \/ cancel'.task = cancel.task /\ cancel.task \in Task
            /\ cancel'.hist.status = cancel.hist.status
            /\ cancel'.hist.parent \in {cancel.hist.parent, None}
         \/ cancel'.task \in Task /\ Present(cancel'.task) /\ cancel'.hist = item[cancel'.task],
         \A t \in Runs' : Present(t),
         \A t \in Task : handing'[t] # "no" => Present(t),
         \A c \in Task : c \in attach' \/ repair'[c] # "no" \/ complete'[c].step # "no"
                           => opener[c] \in Task,
         \A c \in Task : complete'[c].step \notin {"no", "read"} => c \in returned'
  PROVE  DelegationInv'
<1>1. ASSUME NEW t \in Task, Present(t) PROVE Present(t)'
  <2>1. stamp[t].status # "absent" BY DEF TypeOK, Stamp
  <2> QED BY <1>1, <2>1 DEF ItemsGoOn, Present, Known
<1>2. Known'
  <2>1. \A t \in Runs' : Present(t)' BY <1>1 DEF Runs, TypeOK
  <2>2. \A t \in Task : handing'[t] # "no" => Present(t)' BY <1>1
  <2>3. \A c \in Task : opener'[c] \in Task => Present(opener[c])' BY <1>1 DEF Known
  <2>4. /\ cancel'.task \in Task =>
             item'[cancel'.task].status # "absent" /\ cancel'.hist.status # "absent"
        /\ cancel'.step # "no" => cancel'.task \in Task
    BY <1>1 DEF Known, Present
  <2> QED BY <2>1, <2>2, <2>3, <2>4 DEF Known, Runs, Present
<1>3. Opened'
  <2>1. \A c \in Task : item'[c].parent \in {None, opener[c]} BY DEF Opened, ItemsGoOn, Parent
  <2>2. \A c \in Task : stamp'[c].parent \in {None, opener[c]} BY DEF Opened, Parent
  <2>3. cancel'.task \in Task => cancel'.hist.parent \in {None, opener[cancel'.task]}
    BY DEF Opened
  <2> QED BY <2>1, <2>2, <2>3 DEF Opened, Parent
<1>4. ResultFirst'
  <2>1. \A t \in Task :
          item[t].status = "completed" \/ stamp[t].status = "completed" => t \in returned'
    BY DEF ResultFirst, CompletedIsReturned
  <2>2. CompletedIsReturned' BY <2>1 DEF ItemsGoOn, CompletedIsReturned, ResultFirst
  <2>3. \A c \in Task : stamp'[c].status = "completed" => c \in returned'
    BY <2>1 DEF ResultFirst
  <2>4. cancel'.task \in Task /\ cancel'.hist.status = "completed" => cancel'.task \in returned'
    BY <2>1 DEF ResultFirst
  <2> QED BY <2>2, <2>3, <2>4 DEF ResultFirst
<1> QED BY <1>2, <1>3, <1>4 DEF DelegationInv
-----------------------------------------------------------------------------
(* The steps.                                                              *)

LEMMA HistoryStamp ==
  ASSUME NEW hist \in Item, hist.status # "absent"
  PROVE  /\ FromHistory(hist) \in Stamp
         /\ FromHistory(hist).status = hist.status /\ FromHistory(hist).parent = hist.parent
BY DEF FromHistory, Stamp, Item

LEMMA InstallFacts ==
  ASSUME TypeOK, Opened, NEW t \in Task, NEW ph \in Phase, NEW hist \in Item,
         hist.status # "absent", Install(t, ph, hist)
  PROVE  /\ on' = t /\ off' \subseteq Task /\ Runs' \subseteq Runs \cup {t}
         /\ phase' \in [Task -> Phase] /\ stamp' \in [Task -> Stamp]
         /\ stamp' = [stamp EXCEPT ![t] = FromHistory(hist)]
         /\ repair' \in [Task -> {"no", "due", "read"}]
         /\ \A c \in Task : repair'[c] # "no" => opener[c] \in Task
<1>1. on' = t /\ off' \subseteq off \cup Kept /\ Kept \subseteq Task /\ Kept \subseteq {on}
  BY KeptTasks DEF Install
<1>2. off' \subseteq Task /\ Runs' \subseteq Runs \cup {t} BY <1>1 DEF TypeOK, Runs
<1>3. phase' \in [Task -> Phase]
  <2>1. Closed(Left) \in [Task -> Phase] BY ClosedPhases
  <2>2. phase' = [Closed(Left) EXCEPT ![t] = ph] BY DEF Install
  <2> QED BY <2>1, <2>2
<1>4. stamp' = [stamp EXCEPT ![t] = FromHistory(hist)] /\ stamp' \in [Task -> Stamp]
  <2>1. FromHistory(hist) \in Stamp BY HistoryStamp
  <2> QED BY <2>1 DEF Install, TypeOK
<1>5. repair' = RepairDue(Left \ {t}) BY DEF Install
<1> QED BY <1>1, <1>2, <1>3, <1>4, <1>5, RepairsDue

LEMMA RestFacts ==
  ASSUME TypeOK, Opened, NEW t \in Task, ComesToRest(t)
  PROVE  /\ item' \in [Task -> Item] /\ ItemsGoOn
         /\ on' = on /\ off' \subseteq off /\ Runs' \subseteq Runs
         /\ phase' \in [Task -> Phase] /\ stamp' = stamp
         /\ repair' \in [Task -> {"no", "due", "read"}]
         /\ \A c \in Task : repair'[c] # "no" => opener[c] \in Task
<1>1. CASE t \in off
  <2>1. /\ off' = off \ {t} /\ phase' = Closed({t}) /\ item' = Saved({t})
        /\ repair' = RepairDue({t}) /\ on' = on /\ stamp' = stamp
    BY <1>1 DEF ComesToRest
  <2> QED BY <2>1, SavedGoOn, ClosedPhases, RepairsDue DEF Runs
<1>2. CASE t \notin off
  <2>1. /\ phase' = [phase EXCEPT ![t] = "rest"] /\ item' = item /\ repair' = repair
        /\ on' = on /\ off' = off /\ stamp' = stamp
    BY <1>2 DEF ComesToRest
  <2>2. phase' \in [Task -> Phase] BY <2>1 DEF TypeOK, Phase
  <2> QED BY <2>1, <2>2, SameItems DEF Runs, TypeOK, Opened
<1> QED BY <1>1, <1>2

(* The occupant of the slot leaves. *)
LEMMA LeftFacts ==
  ASSUME TypeOK, Opened, phase' = Closed(Left), item' = Saved(Left), repair' = RepairDue(Left)
  PROVE  /\ item' \in [Task -> Item] /\ ItemsGoOn /\ phase' \in [Task -> Phase]
         /\ repair' \in [Task -> {"no", "due", "read"}]
         /\ \A c \in Task : repair'[c] # "no" => opener[c] \in Task
         /\ Kept \subseteq Task /\ Kept \subseteq {on}
BY SavedGoOn, ClosedPhases, RepairsDue, KeptTasks

LEMMA RefusedFacts ==
  ASSUME TypeOK, Opened, NEW t \in Task, Refused(t)
  PROVE  /\ item' \in [Task -> Item] /\ ItemsGoOn
         /\ on' \in Task \cup {None} /\ off' \subseteq Task /\ Runs' \subseteq Runs
         /\ phase' \in [Task -> Phase] /\ stamp' = stamp
         /\ repair' \in [Task -> {"no", "due", "read"}]
         /\ \A c \in Task : repair'[c] # "no" => opener[c] \in Task
         /\ crossed' \subseteq Task
<1>1. CASE UNCHANGED <<item, live, repair, crossed>>
  BY <1>1, SameItems DEF live, Runs, TypeOK, Opened
<1>2. CASE /\ on' = None /\ off' = off \cup Kept /\ UNCHANGED stamp /\ Crosses(t)
           /\ phase' = Closed(Left) /\ item' = Saved(Left) /\ repair' = RepairDue(Left)
  <2>1. crossed' \subseteq Task BY <1>2 DEF Crosses, Left, TypeOK
  <2> QED BY <1>2, <2>1, LeftFacts DEF Runs, TypeOK
<1> QED BY <1>1, <1>2 DEF Refused

USE DEF others, ghosts

LEMMA DelegateSteps ==
  ASSUME DelegationInv, NEW p \in Task, DisposeParent(p) \/ ChildRefused(p)
  PROVE  DelegationInv'
<1>0. TypeOK /\ Known /\ Opened /\ ResultFirst BY DEF DelegationInv
<1>1. CASE DisposeParent(p)
  <2>1. item' \in [Task -> Item] /\ ItemsGoOn BY <1>0, <1>1, SavedGoOn DEF DisposeParent
  <2>2. phase' \in [Task -> Phase] BY <1>0, <1>1, ClosedPhases DEF DisposeParent
  <2>3. p \in Runs /\ Runs' \subseteq Runs BY <1>1 DEF DisposeParent, Runs, IsLive
  <2>4. /\ log' \in [Task -> Log] /\ handing' \in [Task -> {"no", "on", "off"}]
        /\ crossed' \subseteq Task
    BY <1>0, <1>1 DEF DisposeParent, TypeOK, Log
  <2>5. TypeOK' BY <1>0, <1>1, <2>1, <2>2, <2>4 DEF DisposeParent, TypeOK
  <2>6. \A t \in Task : handing'[t] # "no" => Present(t)
    BY <1>0, <1>1, <2>3 DEF DisposeParent, TypeOK, Known, Runs
  <2>7. \A t \in Runs' : Present(t) BY <1>0, <2>3 DEF Known, Runs
  <2>8. /\ stamp' = stamp /\ cancel' = cancel /\ attach' = attach /\ repair' = repair
        /\ complete' = complete /\ returned' = returned /\ opener' = opener
    BY <1>1 DEF DisposeParent
  <2> QED BY <1>0, <2>1, <2>5, <2>6, <2>7, <2>8, StepKeeps DEF Opened, ResultFirst, Known, TypeOK,
             Cancelling
<1>2. CASE ChildRefused(p)
  <2>1. item' \in [Task -> Item] /\ ItemsGoOn BY <1>0, <1>2, SameItems DEF ChildRefused
  <2>2. TypeOK' BY <1>0, <1>2 DEF ChildRefused, TypeOK, live
  <2>3. /\ stamp' = stamp /\ cancel' = cancel /\ attach' = attach /\ repair' = repair
        /\ complete' = complete /\ returned' = returned /\ opener' = opener /\ Runs' = Runs
    BY <1>2 DEF ChildRefused, live, Runs
  <2>4. \A t \in Task : handing'[t] # "no" => Present(t)
    BY <1>0, <1>2 DEF ChildRefused, TypeOK, Known
  <2>5. \A t \in Runs' : Present(t) BY <1>0, <2>3 DEF Known, Runs
  <2> QED BY <1>0, <2>1, <2>2, <2>3, <2>4, <2>5, StepKeeps DEF Opened, ResultFirst, Known, TypeOK,
             Cancelling
<1> QED BY <1>1, <1>2

(* A step of a task or the user that changes no operation in progress. *)
LEMMA CalmStep ==
  ASSUME DelegationInv, TypeOK', ItemsGoOn,
         UNCHANGED <<handing, attach, complete, cancel, others>>,
         \A t \in Task : \/ stamp'[t] = stamp[t]
                         \/ stamp'[t].status = item[t].status /\ stamp'[t].parent = item[t].parent,
         \A t \in Runs' : t \in Runs \/ Present(t),
         \A c \in Task : repair'[c] # "no" => opener[c] \in Task
  PROVE  DelegationInv'
<1>0. TypeOK /\ Known /\ Opened /\ ResultFirst BY DEF DelegationInv
<1>1. \A t \in Runs' : Present(t) BY <1>0 DEF Known, Runs
<1>2. \A t \in Task : handing'[t] # "no" => Present(t) BY <1>0 DEF Known
<1>3. \A c \in Task : c \in attach' \/ repair'[c] # "no" \/ complete'[c].step # "no"
                        => opener[c] \in Task
  BY <1>0 DEF Opened
<1>4. \A c \in Task : complete'[c].step \notin {"no", "read"} => c \in returned'
  BY <1>0 DEF ResultFirst
<1>5. \/ cancel'.task = None /\ cancel'.step = "no"
      \/ cancel'.task = cancel.task /\ cancel'.hist = cancel.hist /\ cancel.task \in Task
  BY <1>0 DEF Known, TypeOK, Cancelling
<1> QED BY <1>0, <1>1, <1>2, <1>3, <1>4, <1>5, StepKeeps

LEMMA WorkSteps ==
  ASSUME DelegationInv, NEW t \in Task,
         Turn(t) \/ Stall(t) \/ Deny(t) \/ Resume(t) \/ SaveOnOpen(t) \/ ReadForDetach(t)
  PROVE  DelegationInv'
<1>0. TypeOK /\ Known /\ Opened /\ ResultFirst BY DEF DelegationInv
<1>1. \A c \in Task : repair[c] # "no" => opener[c] \in Task BY <1>0 DEF Opened
<1>2. CASE Turn(t)
  <2>1. item' \in [Task -> Item] /\ ItemsGoOn BY <1>0, <1>2, SavedGoOn DEF Turn
  <2>2. log' \in [Task -> Log] BY <1>0, <1>2 DEF Turn, TypeOK, Log
  <2>3. UNCHANGED <<live, ops, others>> BY <1>2 DEF Turn
  <2>4. TypeOK' BY <1>0, <2>1, <2>2, <2>3 DEF TypeOK, live, ops
  <2> QED BY <1>1, <2>1, <2>3, <2>4, CalmStep DEF live, ops, Runs
<1>3. CASE Stall(t)
  <2>1. ComesToRest(t) /\ UNCHANGED <<log, handing, attach, complete, cancel, others>>
    BY <1>3 DEF Stall
  <2>2. /\ item' \in [Task -> Item] /\ ItemsGoOn
        /\ on' = on /\ off' \subseteq off /\ Runs' \subseteq Runs
        /\ phase' \in [Task -> Phase] /\ stamp' = stamp
        /\ repair' \in [Task -> {"no", "due", "read"}]
        /\ \A c \in Task : repair'[c] # "no" => opener[c] \in Task
    BY <1>0, <2>1, RestFacts
  <2>3. TypeOK' BY <1>0, <2>1, <2>2 DEF TypeOK
  <2> QED BY <2>1, <2>2, <2>3, CalmStep
<1>4. CASE Deny(t)
  <2>1. phase' \in [Task -> Phase] BY <1>0, <1>4 DEF Deny, TypeOK, Phase, Working
  <2>2. UNCHANGED <<item, log, on, off, stamp, ops, others>> BY <1>4 DEF Deny
  <2>3. TypeOK' BY <1>0, <2>1, <2>2 DEF TypeOK, ops
  <2>4. ItemsGoOn BY <1>0, <2>2, SameItems
  <2> QED BY <1>1, <2>2, <2>3, <2>4, CalmStep DEF ops, Runs
<1>5. CASE Resume(t)
  <2>1. phase' \in [Task -> Phase] /\ log' \in [Task -> Log]
    BY <1>0, <1>5 DEF Resume, TypeOK, Phase, Working, Log
  <2>2. UNCHANGED <<item, on, off, stamp, ops, others>> BY <1>5 DEF Resume
  <2>3. TypeOK' BY <1>0, <2>1, <2>2 DEF TypeOK, ops
  <2>4. ItemsGoOn BY <1>0, <2>2, SameItems
  <2> QED BY <1>1, <2>2, <2>3, <2>4, CalmStep DEF ops, Runs
<1>6. CASE SaveOnOpen(t)
  <2>1. item' \in [Task -> Item] /\ ItemsGoOn BY <1>0, <1>6, SavedGoOn DEF SaveOnOpen
  <2>2. UNCHANGED <<log, live, ops, others>> BY <1>6 DEF SaveOnOpen
  <2>3. TypeOK' BY <1>0, <2>1, <2>2 DEF TypeOK, live, ops
  <2> QED BY <1>1, <2>1, <2>2, <2>3, CalmStep DEF live, ops, Runs
<1>7. CASE ReadForDetach(t)
  <2>1. /\ repair[t] = "due"
        /\ repair' = [repair EXCEPT ![t] = "read"] \/ repair' = [repair EXCEPT ![t] = "no"]
        /\ UNCHANGED <<item, log, live, handing, attach, complete, cancel, others>>
    BY <1>7 DEF ReadForDetach
  <2>2. /\ repair' \in [Task -> {"no", "due", "read"}]
        /\ \A c \in Task : repair'[c] # "no" => opener[c] \in Task
    BY <1>0, <1>1, <2>1 DEF TypeOK
  <2>3. TypeOK' BY <1>0, <2>1, <2>2 DEF TypeOK, live
  <2>4. ItemsGoOn BY <1>0, <2>1, SameItems
  <2> QED BY <2>1, <2>2, <2>3, <2>4, CalmStep DEF live, Runs
<1> QED BY <1>2, <1>3, <1>4, <1>5, <1>6, <1>7

LEMMA UserSteps ==
  ASSUME DelegationInv, (\E t \in Task : ShowLive(t) \/ OpenTask(t)) \/ CloseTask
  PROVE  DelegationInv'
<1>0. TypeOK /\ Known /\ Opened /\ ResultFirst BY DEF DelegationInv
<1>1. CASE (\E t \in Task : ShowLive(t)) \/ CloseTask
  <2>1. /\ phase' = Closed(Left) /\ item' = Saved(Left) /\ repair' = RepairDue(Left)
        /\ UNCHANGED <<log, stamp, handing, attach, complete, cancel, others>>
    BY <1>1 DEF ShowLive, CloseTask
  <2>2. on' \in off \cup {None} /\ off' \subseteq off \cup Kept
    BY <1>1 DEF ShowLive, CloseTask
  <2>3. /\ item' \in [Task -> Item] /\ ItemsGoOn /\ phase' \in [Task -> Phase]
        /\ repair' \in [Task -> {"no", "due", "read"}]
        /\ \A c \in Task : repair'[c] # "no" => opener[c] \in Task
        /\ Kept \subseteq Task /\ Kept \subseteq {on}
    BY <1>0, <2>1, LeftFacts
  <2>4. TypeOK' BY <1>0, <2>1, <2>2, <2>3 DEF TypeOK
  <2>5. Runs' \subseteq Runs BY <2>2, <2>3 DEF Runs
  <2> QED BY <2>1, <2>3, <2>4, <2>5, CalmStep
<1>2. ASSUME NEW t \in Task, OpenTask(t) PROVE DelegationInv'
  <2>1. item[t] \in Item /\ item[t].status # "absent" BY <1>0, <1>2 DEF OpenTask, TypeOK
  <2>2. PICK ph \in {"view", "rest"} : Install(t, ph, item[t]) BY <1>2 DEF OpenTask
  <2>3. ph \in Phase BY DEF Phase
  <2>4. /\ on' = t /\ off' \subseteq Task /\ Runs' \subseteq Runs \cup {t}
        /\ phase' \in [Task -> Phase] /\ stamp' \in [Task -> Stamp]
        /\ stamp' = [stamp EXCEPT ![t] = FromHistory(item[t])]
        /\ repair' \in [Task -> {"no", "due", "read"}]
        /\ \A c \in Task : repair'[c] # "no" => opener[c] \in Task
    BY <1>0, <2>1, <2>2, <2>3, InstallFacts
  <2>5. item' \in [Task -> Item] /\ ItemsGoOn BY <1>0, <1>2, SavedGoOn DEF OpenTask
  <2>6. UNCHANGED <<log, handing, attach, complete, cancel, others>> BY <1>2 DEF OpenTask
  <2>7. TypeOK' BY <1>0, <2>4, <2>5, <2>6 DEF TypeOK
  <2>8. \A s \in Task : \/ stamp'[s] = stamp[s]
                        \/ stamp'[s].status = item[s].status /\ stamp'[s].parent = item[s].parent
    BY <1>0, <2>1, <2>4, HistoryStamp DEF TypeOK
  <2>9. \A s \in Runs' : s \in Runs \/ Present(s) BY <2>1, <2>4 DEF Present
  <2> QED BY <2>4, <2>5, <2>6, <2>7, <2>8, <2>9, CalmStep
<1> QED BY <1>1, <1>2

(* A step of an operation that no cancel is part of. *)
LEMMA OperationStep ==
  ASSUME DelegationInv, TypeOK', ItemsGoOn, returned \subseteq returned',
         UNCHANGED <<handing, cancel, opener>>,
         \A t \in Task : \/ stamp'[t] = stamp[t]
                         \/ stamp'[t].status = "active" /\ stamp'[t].parent = item[t].parent,
         \A t \in Runs' : t \in Runs \/ Present(t),
         \A c \in Task : c \in attach' \/ repair'[c] # "no" \/ complete'[c].step # "no"
                           => opener[c] \in Task,
         \A c \in Task : complete'[c].step \notin {"no", "read"} => c \in returned'
  PROVE  DelegationInv'
<1>0. TypeOK /\ Known /\ Opened /\ ResultFirst BY DEF DelegationInv
<1>1. \A t \in Runs' : Present(t) BY <1>0 DEF Known, Runs
<1>2. \A t \in Task : handing'[t] # "no" => Present(t) BY <1>0 DEF Known
<1>3. \/ cancel'.task = None /\ cancel'.step = "no"
      \/ cancel'.task = cancel.task /\ cancel'.hist = cancel.hist /\ cancel.task \in Task
  BY <1>0 DEF Known, TypeOK, Cancelling
<1> QED BY <1>0, <1>1, <1>2, <1>3, StepKeeps

(* One item is written that keeps its parent or loses it. *)
LEMMA ItemWritten ==
  ASSUME TypeOK, NEW p \in Task, NEW new \in Item, item' = [item EXCEPT ![p] = new],
         new.parent \in {item[p].parent, None},
         \/ new.status \in {item[p].status, "active", "delegated"}
         \/ new.status = "completed" /\ p \in returned
         \/ p = cancel.task /\ new.status = cancel.hist.status
  PROVE  item' \in [Task -> Item] /\ ItemsGoOn
<1>1. /\ item \in [Task -> Item] /\ item' \in [Task -> Item] /\ item'[p] = new
      /\ \A t \in Task \ {p} : item'[t] = item[t]
  BY DEF TypeOK
<1> QED BY <1>1 DEF ItemsGoOn

(* The item of a parent is written, with a new child or none. *)
LEMMA ParentWritten ==
  ASSUME TypeOK, NEW p \in Task, NEW st \in {"active", "delegated"}, NEW c \in Task,
         NEW a \in Task \cup {None},
         item' = [item EXCEPT ![p].status = st, ![p].awaiting = a, ![p].delegatedTo = c]
  PROVE  item' \in [Task -> Item] /\ ItemsGoOn
<1> DEFINE new == [item[p] EXCEPT !.status = st, !.awaiting = a, !.delegatedTo = c]
<1>1. item \in [Task -> Item] BY DEF TypeOK
<1>2. new \in Item /\ new.parent = item[p].parent /\ new.status = st
  <2>1. item[p] \in Item /\ st \in Status BY <1>1 DEF Status
  <2> QED BY <2>1 DEF Item
<1>3. item' = [item EXCEPT ![p] = new] BY <1>1
<1> HIDE DEF new
<1> QED BY <1>2, <1>3, ItemWritten

LEMMA EndSteps ==
  ASSUME DelegationInv, NEW c \in Task, Attempt(c) \/ Reattach(c) \/ Approve(c)
  PROVE  DelegationInv'
<1>0. TypeOK /\ Known /\ Opened /\ ResultFirst BY DEF DelegationInv
<1>1. /\ \A s \in Task : s \in attach \/ repair[s] # "no" \/ complete[s].step # "no"
                           => opener[s] \in Task
      /\ \A s \in Task : complete[s].step \notin {"no", "read"} => s \in returned
  BY <1>0 DEF Opened, ResultFirst
<1>2. ASSUME ComesToRest(c),
             UNCHANGED <<log, handing, attach, complete, cancel, others>>
      PROVE  DelegationInv'
  <2>1. /\ item' \in [Task -> Item] /\ ItemsGoOn
        /\ on' = on /\ off' \subseteq off /\ Runs' \subseteq Runs
        /\ phase' \in [Task -> Phase] /\ stamp' = stamp
        /\ repair' \in [Task -> {"no", "due", "read"}]
        /\ \A s \in Task : repair'[s] # "no" => opener[s] \in Task
    BY <1>0, <1>2, RestFacts
  <2>2. TypeOK' BY <1>0, <1>2, <2>1 DEF TypeOK
  <2> QED BY <1>2, <2>1, <2>2, CalmStep
<1>3. CASE Attempt(c)
  <2>0. UNCHANGED <<log, handing, complete, cancel, others>> BY <1>3 DEF Attempt
  <2>1. CASE ComesToRest(c) /\ UNCHANGED attach BY <1>2, <2>0, <2>1
  <2>2. ASSUME phase' = [phase EXCEPT ![c] = "approve"] \/ phase' = [phase EXCEPT ![c] = "tool"],
               UNCHANGED <<item, on, off, stamp, repair>>,
               attach' = attach \/ (attach' = attach \cup {c} /\ opener[c] \in Task)
        PROVE  DelegationInv'
    <3>1. phase' \in [Task -> Phase] BY <1>0, <2>2 DEF TypeOK, Phase, Working
    <3>2. ItemsGoOn BY <1>0, <2>2, SameItems
    <3>3. TypeOK' BY <1>0, <2>0, <2>2, <3>1 DEF TypeOK
    <3> QED BY <1>1, <2>0, <2>2, <3>2, <3>3, OperationStep DEF Runs
  <2>3. CASE Reattachable(c) /\ attach' = attach \cup {c} /\ phase' = [phase EXCEPT ![c] = "tool"]
             /\ UNCHANGED <<item, on, off, stamp, repair>>
    <3>1. opener[c] \in Task BY <1>0, <2>3, AwaitedParent DEF Reattachable
    <3> QED BY <2>2, <2>3, <3>1
  <2>4. CASE phase' = [phase EXCEPT ![c] = "approve"]
             /\ UNCHANGED <<item, on, off, stamp, repair, attach>>
    BY <2>2, <2>4
  <2> QED BY <1>3, <2>1, <2>3, <2>4 DEF Attempt
<1>4. CASE Reattach(c)
  <2>1. /\ c \in attach /\ attach' = attach \ {c}
        /\ UNCHANGED <<log, handing, complete, cancel, others>>
    BY <1>4 DEF Reattach
  <2>2. CASE /\ item' = [item EXCEPT ![opener[c]].status = "delegated", ![opener[c]].awaiting = c,
                                     ![opener[c]].delegatedTo = c]
             /\ phase' = [phase EXCEPT ![c] = IF @ = "tool" THEN "approve" ELSE @]
             /\ UNCHANGED <<on, off, stamp, repair>>
    <3>1. opener[c] \in Task BY <1>1, <2>1
    <3>2. item' \in [Task -> Item] /\ ItemsGoOn BY <1>0, <2>2, <3>1, ParentWritten
    <3>3. phase' \in [Task -> Phase] BY <1>0, <2>2 DEF TypeOK, Phase, Working
    <3>4. TypeOK' BY <1>0, <2>1, <2>2, <3>2, <3>3 DEF TypeOK
    <3> QED BY <1>1, <2>1, <2>2, <3>2, <3>4, OperationStep DEF Runs
  <2>3. CASE ComesToRest(c)
    <3>1. /\ item' \in [Task -> Item] /\ ItemsGoOn
          /\ on' = on /\ off' \subseteq off /\ Runs' \subseteq Runs
          /\ phase' \in [Task -> Phase] /\ stamp' = stamp
          /\ repair' \in [Task -> {"no", "due", "read"}]
          /\ \A s \in Task : repair'[s] # "no" => opener[s] \in Task
      BY <1>0, <2>3, RestFacts
    <3>2. TypeOK' BY <1>0, <2>1, <3>1 DEF TypeOK
    <3> QED BY <1>1, <2>1, <3>1, <3>2, OperationStep
  <2>4. CASE UNCHANGED <<item, live, repair>>
    <3>1. ItemsGoOn BY <1>0, <2>4, SameItems
    <3>2. TypeOK' BY <1>0, <2>1, <2>4 DEF TypeOK, live
    <3> QED BY <1>1, <2>1, <2>4, <3>1, <3>2, OperationStep DEF live, Runs
  <2> QED BY <1>4, <2>2, <2>3, <2>4 DEF Reattach
<1>5. CASE Approve(c)
  <2>0. UNCHANGED <<log, handing, attach, cancel, others>> BY <1>5 DEF Approve
  <2>1. CASE ComesToRest(c) /\ UNCHANGED complete BY <1>2, <2>0, <2>1
  <2>2. CASE /\ parentAwaitsChild(c)
             /\ complete' = [complete EXCEPT ![c].step = "read", ![c].log = log[Parent(c)]]
             /\ phase' = [phase EXCEPT ![c] = "finish"]
             /\ UNCHANGED <<item, on, off, stamp, repair>>
    <3>1. opener[c] \in Task /\ Parent(c) = opener[c]
      BY <1>0, <2>2, AwaitedParent DEF parentAwaitsChild
    <3>2. phase' \in [Task -> Phase] BY <1>0, <2>2 DEF TypeOK, Phase, Working
    <3>3. log[Parent(c)] \in Log /\ complete[c] \in Completion BY <1>0, <3>1 DEF TypeOK
    <3>4. /\ complete' \in [Task -> Completion] /\ complete'[c].step = "read"
          /\ \A s \in Task \ {c} : complete'[s] = complete[s]
      BY <1>0, <2>2, <3>3 DEF TypeOK, Completion
    <3>5. ItemsGoOn BY <1>0, <2>2, SameItems
    <3>6. TypeOK' BY <1>0, <2>0, <2>2, <3>2, <3>4 DEF TypeOK
    <3>7. /\ \A s \in Task : complete'[s].step # "no" => opener[s] \in Task
          /\ \A s \in Task : complete'[s].step \notin {"no", "read"} => s \in returned'
      BY <1>1, <2>0, <3>1, <3>4
    <3> QED BY <1>1, <2>0, <2>2, <3>5, <3>6, <3>7, OperationStep DEF Runs
  <2> QED BY <1>5, <2>1, <2>2 DEF Approve
<1> QED BY <1>3, <1>4, <1>5

(* The steps of complete, one after the other. *)
LEMMA CompleteSteps ==
  ASSUME DelegationInv, NEW c \in Task, Completing(c)
  PROVE  DelegationInv'
<1>0. TypeOK /\ Known /\ Opened /\ ResultFirst BY DEF DelegationInv
<1>1. /\ \A s \in Task : s \in attach \/ repair[s] # "no" \/ complete[s].step # "no"
                           => opener[s] \in Task
      /\ \A s \in Task : complete[s].step \notin {"no", "read"} => s \in returned
      /\ complete[c] \in Completion
  BY <1>0 DEF Opened, ResultFirst, TypeOK
<1>2. opener[c] \in Task /\ Present(opener[c])
  <2>1. complete[c].step # "no"
    BY DEF Completing, SaveResult, CloseViews, MarkChild, MarkParent, ReopenParent, At
  <2> QED BY <1>0, <1>1, <2>1 DEF Known
(* complete[c] moves on. *)
<1>3. ASSUME NEW new \in Completion, complete' = [complete EXCEPT ![c] = new],
             new.step \notin {"no", "read"} => c \in returned', returned \subseteq returned'
      PROVE  /\ complete' \in [Task -> Completion]
             /\ \A s \in Task : complete'[s].step # "no" => opener[s] \in Task
             /\ \A s \in Task : complete'[s].step \notin {"no", "read"} => s \in returned'
  BY <1>0, <1>1, <1>2, <1>3 DEF TypeOK
(* ... and may end at once. *)
<1>4. ASSUME CompleteEnds(c), returned \subseteq returned'
      PROVE  /\ complete' \in [Task -> Completion]
             /\ \A s \in Task : complete'[s].step # "no" => opener[s] \in Task
             /\ \A s \in Task : complete'[s].step \notin {"no", "read"} => s \in returned'
  <2>1. complete' = [complete EXCEPT ![c] = [complete[c] EXCEPT !.step = "no", !.log = "none"]]
    BY <1>0, <1>4 DEF TypeOK, CompleteEnds
  <2>2. /\ [complete[c] EXCEPT !.step = "no", !.log = "none"] \in Completion
        /\ [complete[c] EXCEPT !.step = "no", !.log = "none"].step = "no"
    BY <1>1 DEF Completion, Log
  <2> QED BY <1>3, <1>4, <2>1, <2>2
<1>5. ASSUME CompleteEnds(c), ComesToRest(c),
             UNCHANGED <<log, returned, stray, handing, attach, cancel, opener, cancelled,
                         restarts, crossed>>
      PROVE  DelegationInv'
  <2>1. /\ item' \in [Task -> Item] /\ ItemsGoOn
        /\ on' = on /\ off' \subseteq off /\ Runs' \subseteq Runs
        /\ phase' \in [Task -> Phase] /\ stamp' = stamp
        /\ repair' \in [Task -> {"no", "due", "read"}]
        /\ \A s \in Task : repair'[s] # "no" => opener[s] \in Task
    BY <1>0, <1>5, RestFacts
  <2>2. /\ complete' \in [Task -> Completion]
        /\ \A s \in Task : complete'[s].step # "no" => opener[s] \in Task
        /\ \A s \in Task : complete'[s].step \notin {"no", "read"} => s \in returned'
    BY <1>4, <1>5
  <2>3. TypeOK' BY <1>0, <1>5, <2>1, <2>2 DEF TypeOK
  <2> QED BY <1>1, <1>5, <2>1, <2>2, <2>3, OperationStep
<1>6. ASSUME CompleteEnds(c),
             UNCHANGED <<item, live, repair, log, returned, stray, handing, attach, cancel, opener,
                         cancelled, restarts>>,
             crossed' \subseteq Task
      PROVE  DelegationInv'
  <2>1. ItemsGoOn BY <1>0, <1>6, SameItems
  <2>2. /\ complete' \in [Task -> Completion]
        /\ \A s \in Task : complete'[s].step # "no" => opener[s] \in Task
        /\ \A s \in Task : complete'[s].step \notin {"no", "read"} => s \in returned'
    BY <1>4, <1>6
  <2>3. TypeOK' BY <1>0, <1>6, <2>2 DEF TypeOK, live
  <2> QED BY <1>1, <1>6, <2>1, <2>2, <2>3, OperationStep DEF live, Runs
<1>7. CASE SaveResult(c) /\ CompleteEnds(c) /\ UNCHANGED <<log, returned, stray>>
  <2>1. UNCHANGED <<handing, attach, cancel, opener, cancelled, restarts, crossed>>
    BY <1>7 DEF SaveResult
  <2>2. ComesToRest(c) \/ UNCHANGED <<item, live, repair>> BY <1>7 DEF SaveResult
  <2>3. crossed' \subseteq Task BY <1>0, <2>1 DEF TypeOK
  <2> QED BY <1>5, <1>6, <1>7, <2>1, <2>2, <2>3
<1>8. CASE MarkParent(c) /\ item' = item /\ CompleteEnds(c) /\ crossed' = crossed \cup {c}
  <2>1. UNCHANGED <<log, live, handing, attach, repair, cancel, opener, cancelled, restarts,
                    returned, stray>>
    BY <1>8 DEF MarkParent
  <2>2. crossed' \subseteq Task BY <1>0, <1>8 DEF TypeOK
  <2> QED BY <1>6, <1>8, <2>1, <2>2
<1>9. CASE SaveResult(c) /\ Advance(c, "saved")
  <2>1. /\ log' = [log EXCEPT ![opener[c]] = "answered"] /\ returned' = returned \cup {c}
        /\ stray' = stray \/ stray' = stray \cup {c}
        /\ complete' = [complete EXCEPT ![c].step = "saved"]
        /\ UNCHANGED <<item, live, handing, attach, repair, cancel, opener, cancelled, restarts,
                       crossed>>
    <3>1. complete'[c].step = "saved" BY <1>0, <1>1, <1>9 DEF Advance, TypeOK, Completion
    <3>2. ~CompleteEnds(c) BY <1>0, <1>1, <3>1 DEF CompleteEnds, TypeOK, Completion
    <3> QED BY <1>9, <3>2 DEF SaveResult, Advance
  <2>2. [complete[c] EXCEPT !.step = "saved"] \in Completion BY <1>1 DEF Completion
  <2>3. complete' = [complete EXCEPT ![c] = [complete[c] EXCEPT !.step = "saved"]]
    BY <1>0, <2>1 DEF TypeOK
  <2>4. /\ complete' \in [Task -> Completion]
        /\ \A s \in Task : complete'[s].step # "no" => opener[s] \in Task
        /\ \A s \in Task : complete'[s].step \notin {"no", "read"} => s \in returned'
    BY <1>3, <2>1, <2>2, <2>3
  <2>5. log' \in [Task -> Log] BY <1>0, <2>1 DEF TypeOK, Log
  <2>6. TypeOK' BY <1>0, <2>1, <2>4, <2>5 DEF TypeOK, live
  <2>7. ItemsGoOn BY <1>0, <2>1, SameItems
  <2> QED BY <1>1, <2>1, <2>4, <2>6, <2>7, OperationStep DEF live, Runs
<1>10. CASE CloseViews(c)
  <2> DEFINE childOff == on # c /\ IsLive(c)
             gone == ({on} \cap {c, opener[c]}) \cup (IF childOff THEN {c} ELSE {})
             place == IF ~childOff \/ on = opener[c] THEN "on" ELSE "off"
  <2>1. /\ complete' = [complete EXCEPT ![c].step = "closed", ![c].place = place]
        /\ phase' = Closed(gone) /\ item' = Saved(gone)
        /\ on' = IF on \in gone THEN None ELSE on
        /\ off' = off \ (gone \ {opener[c]})
        /\ place \in {"on", "off"}
    BY <1>10 DEF CloseViews
  <2> HIDE DEF childOff, gone, place
  <2>2. At(c, "saved") /\ UNCHANGED <<log, stamp, handing, attach, repair, cancel, others>>
    BY <1>10 DEF CloseViews
  <2>3. [complete[c] EXCEPT !.step = "closed", !.place = place] \in Completion
    BY <1>1, <2>1 DEF Completion
  <2>4. complete' = [complete EXCEPT ![c] = [complete[c] EXCEPT !.step = "closed", !.place = place]]
    BY <1>0, <2>1 DEF TypeOK
  <2>5. /\ complete' \in [Task -> Completion]
        /\ \A s \in Task : complete'[s].step # "no" => opener[s] \in Task
        /\ \A s \in Task : complete'[s].step \notin {"no", "read"} => s \in returned'
    BY <1>1, <1>3, <2>2, <2>3, <2>4 DEF At
  <2>6. item' \in [Task -> Item] /\ ItemsGoOn /\ phase' \in [Task -> Phase]
    BY <1>0, <2>1, SavedGoOn, ClosedPhases
  <2>7. TypeOK' BY <1>0, <2>1, <2>2, <2>5, <2>6 DEF TypeOK
  <2>8. Runs' \subseteq Runs BY <2>1 DEF Runs
  <2> QED BY <1>1, <2>2, <2>5, <2>6, <2>7, <2>8, OperationStep
<1>11. CASE MarkChild(c)
  <2>1. /\ item' = [item EXCEPT ![c].status = "completed"] \/ item' = item
        /\ complete' = [complete EXCEPT ![c].step = "marked"] /\ At(c, "closed")
        /\ UNCHANGED <<log, live, handing, attach, repair, cancel, others>>
    BY <1>11 DEF MarkChild, Advance
  <2>2. [complete[c] EXCEPT !.step = "marked"] \in Completion BY <1>1 DEF Completion
  <2>3. complete' = [complete EXCEPT ![c] = [complete[c] EXCEPT !.step = "marked"]]
    BY <1>0, <2>1 DEF TypeOK
  <2>4. /\ complete' \in [Task -> Completion] /\ c \in returned
        /\ \A s \in Task : complete'[s].step # "no" => opener[s] \in Task
        /\ \A s \in Task : complete'[s].step \notin {"no", "read"} => s \in returned'
    BY <1>1, <1>3, <2>1, <2>2, <2>3 DEF At
  <2>5. item' \in [Task -> Item] /\ ItemsGoOn
    <3>1. CASE item' = item BY <1>0, <3>1, SameItems
    <3>2. CASE item' = [item EXCEPT ![c].status = "completed"]
      <4>1. item \in [Task -> Item] /\ item[c] \in Item BY <1>0 DEF TypeOK
      <4>2. [item[c] EXCEPT !.status = "completed"] \in Item BY <4>1 DEF Item, Status
      <4> QED BY <2>4, <3>2, <4>1, <4>2 DEF ItemsGoOn, Item
    <3> QED BY <2>1, <3>1, <3>2
  <2>6. TypeOK' BY <1>0, <2>1, <2>4, <2>5 DEF TypeOK, live
  <2> QED BY <1>1, <2>1, <2>4, <2>5, <2>6, OperationStep DEF live, Runs
<1>12. CASE /\ MarkParent(c) /\ Advance(c, "written") /\ UNCHANGED crossed
            /\ item' = [item EXCEPT ![opener[c]].status = "active", ![opener[c]].awaiting = None,
                                    ![opener[c]].delegatedTo = c]
  <2>1. /\ item' = [item EXCEPT ![opener[c]].status = "active", ![opener[c]].awaiting = None,
                                ![opener[c]].delegatedTo = c]
        /\ complete' = [complete EXCEPT ![c].step = "written"] /\ At(c, "marked")
        /\ UNCHANGED <<log, live, handing, attach, repair, cancel, others>>
    BY <1>12 DEF MarkParent, Advance
  <2>2. [complete[c] EXCEPT !.step = "written"] \in Completion BY <1>1 DEF Completion
  <2>3. complete' = [complete EXCEPT ![c] = [complete[c] EXCEPT !.step = "written"]]
    BY <1>0, <2>1 DEF TypeOK
  <2>4. /\ complete' \in [Task -> Completion]
        /\ \A s \in Task : complete'[s].step # "no" => opener[s] \in Task
        /\ \A s \in Task : complete'[s].step \notin {"no", "read"} => s \in returned'
    BY <1>1, <1>3, <2>1, <2>2, <2>3 DEF At
  <2>5. item' \in [Task -> Item] /\ ItemsGoOn BY <1>0, <1>2, <2>1, ParentWritten
  <2>6. TypeOK' BY <1>0, <2>1, <2>4, <2>5 DEF TypeOK, live
  <2> QED BY <1>1, <2>1, <2>4, <2>5, <2>6, OperationStep DEF live, Runs
<1>13. CASE ReopenParent(c)
  <2> DEFINE hist == [item[opener[c]] EXCEPT !.status = "active"]
  <2>0. /\ hist \in Item /\ hist.status = "active" /\ hist.status # "absent"
        /\ hist.parent = item[opener[c]].parent
    <3>1. item[opener[c]] \in Item BY <1>0, <1>2 DEF TypeOK
    <3> QED BY <3>1 DEF Item, Status
  <2> HIDE DEF hist
  <2>1. /\ complete' = [complete EXCEPT ![c].step = "no", ![c].log = "none"]
        /\ cancelled' = cancelled \ {c}
        /\ UNCHANGED <<handing, attach, cancel, opener, restarts, returned, stray>>
        /\ crossed' = crossed \/ crossed' = crossed \cup (Left \ Kin(opener[c]))
    BY <1>13 DEF ReopenParent, Refused, Crosses, CompleteEnds
  <2>2. [complete[c] EXCEPT !.step = "no", !.log = "none"] \in Completion
    BY <1>1 DEF Completion, Log
  <2>3. complete' = [complete EXCEPT ![c] = [complete[c] EXCEPT !.step = "no", !.log = "none"]]
    BY <1>0, <2>1 DEF TypeOK
  <2>4. /\ complete' \in [Task -> Completion]
        /\ \A s \in Task : complete'[s].step # "no" => opener[s] \in Task
        /\ \A s \in Task : complete'[s].step \notin {"no", "read"} => s \in returned'
    BY <1>1, <1>3, <2>1, <2>2, <2>3 DEF Completion
  <2>5. ASSUME item' \in [Task -> Item], ItemsGoOn, on' \in Task \cup {None}, off' \subseteq Task,
               phase' \in [Task -> Phase], log' \in [Task -> Log],
               stamp' = stamp \/ stamp' = [stamp EXCEPT ![opener[c]] = FromHistory(hist)],
               repair' \in [Task -> {"no", "due", "read"}],
               \A s \in Task : repair'[s] # "no" => opener[s] \in Task,
               Runs' \subseteq Runs \cup {opener[c]}
        PROVE  DelegationInv'
    <3>1. /\ stamp' \in [Task -> Stamp]
          /\ \A s \in Task : \/ stamp'[s] = stamp[s]
                             \/ stamp'[s].status = "active" /\ stamp'[s].parent = item[s].parent
      BY <1>0, <1>2, <2>0, <2>5, HistoryStamp DEF TypeOK
    <3>2. crossed' \subseteq Task BY <1>0, <2>1 DEF TypeOK, Left
    <3>3. TypeOK' BY <1>0, <2>1, <2>4, <2>5, <3>1, <3>2 DEF TypeOK
    <3> QED BY <1>1, <1>2, <2>1, <2>4, <2>5, <3>1, <3>3, OperationStep
  <2>6. /\ item \in [Task -> Item] /\ phase \in [Task -> Phase] /\ log \in [Task -> Log]
        /\ on \in Task \cup {None} /\ off \subseteq Task
        /\ repair \in [Task -> {"no", "due", "read"}]
        /\ [log EXCEPT ![opener[c]] = "answered"] \in [Task -> Log]
        /\ "work" \in Phase
    BY <1>0 DEF TypeOK, Phase, Working, Log
  <2>7. CASE /\ Install(opener[c], "work", hist) /\ item' = Saved(Left)
             /\ log' = [log EXCEPT ![opener[c]] = "answered"]
    <3>1. /\ on' = opener[c] /\ off' \subseteq Task /\ Runs' \subseteq Runs \cup {opener[c]}
          /\ phase' \in [Task -> Phase]
          /\ stamp' = [stamp EXCEPT ![opener[c]] = FromHistory(hist)]
          /\ repair' \in [Task -> {"no", "due", "read"}]
          /\ \A s \in Task : repair'[s] # "no" => opener[s] \in Task
      BY <1>0, <1>2, <2>0, <2>6, <2>7, InstallFacts
    <3>2. item' \in [Task -> Item] /\ ItemsGoOn BY <1>0, <2>7, SavedGoOn
    <3> QED BY <1>2, <2>5, <2>6, <2>7, <3>1, <3>2
  <2>8. CASE /\ off' = off \cup {opener[c]} /\ phase' = [phase EXCEPT ![opener[c]] = "work"]
             /\ stamp' = [stamp EXCEPT ![opener[c]] = FromHistory(hist)]
             /\ log' = [log EXCEPT ![opener[c]] = "answered"]
             /\ UNCHANGED <<item, on, repair>>
    <3>1. phase' \in [Task -> Phase] BY <2>6, <2>8
    <3>2. Runs' \subseteq Runs \cup {opener[c]} BY <2>8 DEF Runs
    <3>3. ItemsGoOn BY <1>0, <2>8, SameItems
    <3> QED BY <1>1, <1>2, <2>5, <2>6, <2>8, <3>1, <3>2, <3>3
  <2>9. CASE UNCHANGED <<item, log, live, repair>>
    <3>1. ItemsGoOn BY <1>0, <2>9, SameItems
    <3>2. Runs' = Runs BY <2>9 DEF live, Runs
    <3> QED BY <1>1, <2>5, <2>6, <2>9, <3>1, <3>2 DEF live
  <2>10. CASE Refused(opener[c]) /\ UNCHANGED log
    <3>1. /\ item' \in [Task -> Item] /\ ItemsGoOn
          /\ on' \in Task \cup {None} /\ off' \subseteq Task /\ Runs' \subseteq Runs
          /\ phase' \in [Task -> Phase] /\ stamp' = stamp
          /\ repair' \in [Task -> {"no", "due", "read"}]
          /\ \A s \in Task : repair'[s] # "no" => opener[s] \in Task
      BY <1>0, <1>2, <2>10, RefusedFacts
    <3> QED BY <2>5, <2>6, <2>10, <3>1
  <2> QED BY <1>13, <2>7, <2>8, <2>9, <2>10 DEF ReopenParent, hist
<1>14. ASSUME SaveResult(c)
       PROVE  Advance(c, "saved") \/ (CompleteEnds(c) /\ UNCHANGED <<log, returned, stray>>)
  BY <1>14 DEF SaveResult
<1> QED BY <1>7, <1>8, <1>9, <1>10, <1>11, <1>12, <1>13, <1>14 DEF Completing, MarkParent

(* The child gets its item and knows its parent; nobody knew the child. *)
LEMMA OpenStep ==
  ASSUME DelegationInv, NEW p \in Task, NEW c \in Task, OpenChild(p, c)
  PROVE  DelegationInv'
<1>0. TypeOK /\ Known /\ Opened /\ ResultFirst BY DEF DelegationInv
<1> DEFINE kid == [status |-> "active", awaiting |-> None, delegatedTo |-> None, parent |-> p]
           told == [item[p] EXCEPT !.status = "delegated", !.awaiting = c, !.delegatedTo = c]
<1>1. /\ item \in [Task -> Item] /\ item[p] \in Item
      /\ item[c].status = "absent" /\ Present(p) /\ p # c
  BY <1>0 DEF TypeOK, OpenChild, Fresh, Known, Present
<1>2. PICK new \in {item[p], told} : item' = [item EXCEPT ![c] = kid, ![p] = new]
  BY <1>1 DEF OpenChild
<1>3. /\ kid \in Item /\ kid.status = "active" /\ kid.parent = p
      /\ new \in Item /\ new.parent = item[p].parent /\ new.status \in {item[p].status, "delegated"}
  <2>1. told \in Item /\ told.parent = item[p].parent /\ told.status = "delegated"
    BY <1>1 DEF Item, Status
  <2>2. kid \in Item BY DEF Item, Status
  <2> QED BY <1>1, <2>1, <2>2
<1> HIDE DEF kid, told
<1>4. /\ item' \in [Task -> Item] /\ item'[c] = kid /\ item'[p] = new
      /\ \A t \in Task \ {c, p} : item'[t] = item[t]
  BY <1>1, <1>2, <1>3
<1>5. /\ handing[p] # "no" /\ handing' = [handing EXCEPT ![p] = "no"]
      /\ phase' = [phase EXCEPT ![c] = "work"]
      /\ stamp' = [stamp EXCEPT ![c] = [status |-> "active", parent |-> p]]
      /\ opener' = [opener EXCEPT ![c] = p]
      /\ UNCHANGED <<log, attach, repair, complete, cancel, cancelled, restarts, returned, stray>>
      /\ crossed' \subseteq crossed \cup Task
      /\ on' \in {on, c} /\ off' \subseteq off \cup {c}
  BY DEF OpenChild
<1>6. TypeOK'
  <2>1. /\ phase' \in [Task -> Phase] /\ stamp' \in [Task -> Stamp]
        /\ opener' \in [Task -> Task \cup {None}] /\ handing' \in [Task -> {"no", "on", "off"}]
    BY <1>0, <1>5 DEF TypeOK, Phase, Working, Status, Stamp
  <2> QED BY <1>0, <1>4, <1>5, <2>1 DEF TypeOK
<1>7. \A t \in Task : Present(t) \/ t = c => item'[t].status # "absent"
  BY <1>1, <1>3, <1>4 DEF Present
<1>8. Known'
  <2>1. \A t \in Task : opener'[t] = opener[t] \/ opener'[t] = p BY <1>0, <1>5 DEF TypeOK
  <2>2. \A t \in Task : handing'[t] # "no" => handing[t] # "no" BY <1>0, <1>5 DEF TypeOK
  <2>3. \A t \in off' \cup ({on'} \cap Task) : item'[t].status # "absent"
    BY <1>0, <1>5, <1>7 DEF Known, TypeOK
  <2>4. \A t \in Task : handing'[t] # "no" => item'[t].status # "absent" BY <1>0, <1>7, <2>2 DEF Known
  <2>5. \A t \in Task : opener'[t] \in Task => item'[opener'[t]].status # "absent"
    BY <1>0, <1>1, <1>7, <2>1 DEF Known
  <2>6. cancel.task \in Task => item'[cancel.task].status # "absent" /\ cancel.hist.status # "absent"
    BY <1>0, <1>7 DEF Known
  <2> QED BY <1>0, <1>5, <2>3, <2>4, <2>5, <2>6 DEF Known, Present
<1>9. Opened'
  <2>1. opener'[c] = p /\ \A t \in Task \ {c} : opener'[t] = opener[t] BY <1>0, <1>5 DEF TypeOK
  <2>2. \A t \in Task : item'[t].parent \in {None, opener'[t]}
    BY <1>0, <1>3, <1>4, <2>1 DEF Opened
  <2>3. \A t \in Task : stamp'[t].parent \in {None, opener'[t]}
    BY <1>0, <1>5, <2>1 DEF Opened, Parent, TypeOK
  <2>4. cancel.task # c BY <1>0, <1>1 DEF Known, Present
  <2> QED BY <1>0, <1>5, <2>1, <2>2, <2>3, <2>4 DEF Opened, Parent
<1>10. ResultFirst'
  <2>1. \A t \in Task : item'[t].status = "completed" => item[t].status = "completed"
    BY <1>3, <1>4
  <2>2. \A t \in Task : stamp'[t].status = "completed" => stamp[t].status = "completed"
    BY <1>0, <1>5 DEF TypeOK
  <2> QED BY <1>0, <1>5, <2>1, <2>2 DEF ResultFirst, CompletedIsReturned
<1> QED BY <1>6, <1>8, <1>9, <1>10 DEF DelegationInv

LEMMA DetachStep ==
  ASSUME DelegationInv, NEW c \in Task, DetachParent(c)
  PROVE  DelegationInv'
<1>0. TypeOK /\ Known /\ Opened /\ ResultFirst BY DEF DelegationInv
<1>1. /\ \A s \in Task : s \in attach \/ repair[s] # "no" \/ complete[s].step # "no"
                           => opener[s] \in Task
      /\ \A s \in Task : complete[s].step \notin {"no", "read"} => s \in returned
  BY <1>0 DEF Opened, ResultFirst
<1>2. /\ repair[c] = "read" /\ repair' = [repair EXCEPT ![c] = "no"]
      /\ item' = [item EXCEPT ![opener[c]].status = "active", ![opener[c]].awaiting = None,
                              ![opener[c]].delegatedTo = c]
      /\ cancelled' \subseteq cancelled
      /\ UNCHANGED <<log, live, handing, attach, complete, cancel, opener, restarts, ghosts>>
  BY DEF DetachParent
<1>3. opener[c] \in Task BY <1>1, <1>2
<1>4. item' \in [Task -> Item] /\ ItemsGoOn BY <1>0, <1>2, <1>3, ParentWritten
<1>5. /\ repair' \in [Task -> {"no", "due", "read"}]
      /\ \A s \in Task : repair'[s] # "no" => repair[s] # "no"
  BY <1>0, <1>2 DEF TypeOK
<1>6. TypeOK' BY <1>0, <1>2, <1>4, <1>5 DEF TypeOK, live
<1>7. \A s \in Task : s \in attach' \/ repair'[s] # "no" \/ complete'[s].step # "no"
                         => opener[s] \in Task
  BY <1>1, <1>2, <1>5
<1>8. UNCHANGED <<on, off, stamp, handing, complete, cancel, opener, returned>> /\ Runs' = Runs
  BY <1>2 DEF live, Runs
<1> QED BY <1>1, <1>4, <1>6, <1>7, <1>8, OperationStep

LEMMA DetachFailsStep ==
  ASSUME DelegationInv, NEW c \in Task, DetachFails(c)
  PROVE  DelegationInv'
<1>0. TypeOK /\ Known /\ Opened /\ ResultFirst BY DEF DelegationInv
<1>1. /\ repair' = [repair EXCEPT ![c] = "no"] /\ crossed' = crossed \cup {c}
      /\ UNCHANGED <<item, log, live, handing, attach, complete, cancel, opener, cancelled,
                     restarts, returned, stray>>
  BY DEF DetachFails
<1>2. /\ repair' \in [Task -> {"no", "due", "read"}]
      /\ \A s \in Task : repair'[s] # "no" => repair[s] # "no"
  BY <1>0, <1>1 DEF TypeOK
<1>3. TypeOK' BY <1>0, <1>1, <1>2 DEF TypeOK, live
<1>4. ItemsGoOn BY <1>0, <1>1, SameItems
<1>5. /\ \A s \in Task : s \in attach' \/ repair'[s] # "no" \/ complete'[s].step # "no"
                           => opener[s] \in Task
      /\ \A s \in Task : complete'[s].step \notin {"no", "read"} => s \in returned'
  BY <1>0, <1>1, <1>2 DEF Opened, ResultFirst
<1> QED BY <1>1, <1>3, <1>4, <1>5, OperationStep DEF live, Runs

(* cancelTask: what it remembers of the task is what it read. *)
LEMMA CancelSteps ==
  ASSUME DelegationInv, NEW t \in Task,
         Cancel(t) \/ AfterAbort(t) \/ FailClosed(t) \/ Rehydrate(t)
  PROVE  DelegationInv'
<1>0. TypeOK /\ Known /\ Opened /\ ResultFirst BY DEF DelegationInv
<1>1. /\ \A s \in Task : s \in attach \/ repair[s] # "no" \/ complete[s].step # "no"
                           => opener[s] \in Task
      /\ \A s \in Task : complete[s].step \notin {"no", "read"} => s \in returned
      /\ \A s \in Task : handing[s] # "no" => Present(s)
      /\ \A s \in Runs : Present(s)
  BY <1>0 DEF Opened, ResultFirst, Known, Runs
<1>2. CASE Cancel(t)
  <2>1. /\ on = t /\ cancel' = [task |-> t, step |-> "wait", hist |-> item[t]]
        /\ phase' = [phase EXCEPT ![t] = "aborted"] /\ item' = Saved({t})
        /\ UNCHANGED <<log, on, off, stamp, handing, attach, repair, complete, others>>
    BY <1>2 DEF Cancel
  <2>2. phase' \in [Task -> Phase] BY <1>0, <2>1 DEF TypeOK, Phase
  <2>3. /\ cancel' \in Cancelling /\ cancel'.task = t /\ cancel'.hist = item[t]
    BY <1>0, <2>1 DEF TypeOK, Cancelling
  <2>4. item' \in [Task -> Item] /\ ItemsGoOn BY <1>0, <2>1, SavedGoOn
  <2>5. TypeOK' BY <1>0, <2>1, <2>2, <2>3, <2>4 DEF TypeOK
  <2>6. Present(t) /\ Runs' = Runs BY <1>1, <2>1 DEF Runs
  <2>7. cancel'.task \in Task /\ Present(cancel'.task) /\ cancel'.hist = item[cancel'.task]
    BY <2>3, <2>6
  <2> QED BY <1>0, <1>1, <2>1, <2>4, <2>5, <2>6, <2>7, StepKeeps
<1>3. CASE AfterAbort(t)
  <2>1. /\ cancel.task = t /\ cancel.step = "wait"
        /\ UNCHANGED <<item, log, live, handing, attach, complete, others>>
        /\ cancel' = NoCancel \/ cancel' = [cancel EXCEPT !.step = "rehydrate"]
        /\ repair' \in {repair, RepairDue({t})}
    BY <1>3 DEF AfterAbort
  <2>2. /\ cancel' \in Cancelling
        /\ \/ cancel'.task = None /\ cancel'.step = "no"
           \/ cancel'.task = cancel.task /\ cancel'.hist = cancel.hist /\ cancel.task \in Task
    <3>1. NoCancel \in Cancelling /\ NoCancel.task = None /\ NoCancel.step = "no"
      BY DEF NoCancel, NoItem, Cancelling, Item, Status
    <3>2. /\ [cancel EXCEPT !.step = "rehydrate"] \in Cancelling
          /\ [cancel EXCEPT !.step = "rehydrate"].task = cancel.task
          /\ [cancel EXCEPT !.step = "rehydrate"].hist = cancel.hist
      BY <1>0 DEF TypeOK, Cancelling
    <3> QED BY <2>1, <3>1, <3>2
  <2>3. /\ repair' \in [Task -> {"no", "due", "read"}]
        /\ \A s \in Task : repair'[s] # "no" => opener[s] \in Task
    <3>1. CASE repair' = repair BY <1>0, <1>1, <3>1 DEF TypeOK
    <3>2. CASE repair' = RepairDue({t}) BY <1>0, <3>2, RepairsDue
    <3> QED BY <2>1, <3>1, <3>2
  <2>4. item' \in [Task -> Item] /\ ItemsGoOn BY <1>0, <2>1, SameItems
  <2>5. TypeOK' BY <1>0, <2>1, <2>2, <2>3, <2>4 DEF TypeOK, live
  <2>6. Runs' = Runs /\ UNCHANGED <<stamp, handing, attach, complete, opener, returned>>
    BY <2>1 DEF live, Runs
  <2> QED BY <1>0, <1>1, <2>2, <2>3, <2>4, <2>5, <2>6, StepKeeps
<1>4. CASE FailClosed(t)
  <2>1. /\ cancel.task = t /\ repair' = [repair EXCEPT ![t] = "no"]
        /\ cancelled' = cancelled \cup {t} /\ crossed' = crossed \cup {t}
        /\ \/ /\ item' = [item EXCEPT ![t] = [cancel.hist EXCEPT !.parent = None]]
              /\ cancel' = [cancel EXCEPT !.hist = [cancel.hist EXCEPT !.parent = None]]
           \/ item' = item /\ cancel' = NoCancel
        /\ UNCHANGED <<log, live, handing, attach, complete, opener, restarts, returned, stray>>
    BY <1>4 DEF FailClosed, Rehydrates
  <2> DEFINE alone == [cancel.hist EXCEPT !.parent = None]
  <2>2. cancel.hist \in Item /\ cancel \in Cancelling BY <1>0 DEF TypeOK, Cancelling
  <2>3. alone \in Item /\ alone.parent = None /\ alone.status = cancel.hist.status
    BY <2>2 DEF Item
  <2> HIDE DEF alone
  <2>4. item' \in [Task -> Item] /\ ItemsGoOn
    <3>1. CASE item' = item BY <1>0, <3>1, SameItems
    <3>2. CASE item' = [item EXCEPT ![t] = alone] BY <1>0, <2>1, <2>3, <3>2, ItemWritten
    <3> QED BY <2>1, <3>1, <3>2 DEF alone
  <2>5. /\ cancel' \in Cancelling
        /\ \/ cancel'.task = None /\ cancel'.step = "no"
           \/ cancel'.task = cancel.task /\ cancel.task \in Task
              /\ cancel'.hist.status = cancel.hist.status /\ cancel'.hist.parent = None
    <3>1. NoCancel \in Cancelling /\ NoCancel.task = None /\ NoCancel.step = "no"
      BY DEF NoCancel, NoItem, Cancelling, Item, Status
    <3>2. /\ [cancel EXCEPT !.hist = alone] \in Cancelling
          /\ [cancel EXCEPT !.hist = alone].task = cancel.task
          /\ [cancel EXCEPT !.hist = alone].hist = alone
      BY <2>2, <2>3 DEF Cancelling
    <3>3. cancel' = NoCancel \/ cancel' = [cancel EXCEPT !.hist = alone] BY <2>1 DEF alone
    <3> QED BY <2>1, <2>3, <3>1, <3>2, <3>3
  <2>6. /\ repair' \in [Task -> {"no", "due", "read"}]
        /\ \A s \in Task : repair'[s] # "no" => repair[s] # "no"
    BY <1>0, <2>1 DEF TypeOK
  <2>7. TypeOK' BY <1>0, <2>1, <2>4, <2>5, <2>6 DEF TypeOK, live
  <2>8. Runs' = Runs /\ UNCHANGED <<stamp, handing, attach, complete, opener, returned>>
    BY <2>1 DEF live, Runs
  <2>9. \A s \in Task : s \in attach' \/ repair'[s] # "no" \/ complete'[s].step # "no"
                           => opener[s] \in Task
    BY <1>1, <2>6, <2>8
  <2> QED BY <1>0, <1>1, <2>4, <2>5, <2>7, <2>8, <2>9, StepKeeps
<1>5. ASSUME Rehydrate(t), Refused(t) PROVE DelegationInv'
  <2>1. /\ cancel' = NoCancel
        /\ UNCHANGED <<log, handing, attach, complete, opener, cancelled, restarts, returned, stray>>
    BY <1>5 DEF Rehydrate
  <2>2. /\ item' \in [Task -> Item] /\ ItemsGoOn
        /\ on' \in Task \cup {None} /\ off' \subseteq Task /\ Runs' \subseteq Runs
        /\ phase' \in [Task -> Phase] /\ stamp' = stamp
        /\ repair' \in [Task -> {"no", "due", "read"}]
        /\ \A s \in Task : repair'[s] # "no" => opener[s] \in Task
        /\ crossed' \subseteq Task
    BY <1>0, <1>5, RefusedFacts
  <2>3. cancel' \in Cancelling /\ cancel'.task = None /\ cancel'.step = "no"
    BY <2>1 DEF NoCancel, NoItem, Cancelling, Item, Status
  <2>4. TypeOK' BY <1>0, <2>1, <2>2, <2>3 DEF TypeOK
  <2> QED BY <1>0, <1>1, <2>1, <2>2, <2>3, <2>4, StepKeeps
<1>6. ASSUME Rehydrate(t), Install(t, "rest", cancel.hist), item' = Saved(Left), Crosses(t)
      PROVE  DelegationInv'
  <2>1. /\ cancel.task = t /\ cancel' = NoCancel
        /\ UNCHANGED <<log, handing, attach, complete, opener, cancelled, restarts, returned, stray>>
        /\ crossed' \subseteq crossed \cup Task
    BY <1>6 DEF Rehydrate, Rehydrates, Crosses, Left
  <2>2. cancel.hist \in Item /\ cancel.hist.status # "absent"
    BY <1>0, <2>1 DEF TypeOK, Cancelling, Known
  <2>3. "rest" \in Phase BY DEF Phase
  <2>4. /\ on' = t /\ off' \subseteq Task /\ Runs' \subseteq Runs \cup {t}
        /\ phase' \in [Task -> Phase] /\ stamp' \in [Task -> Stamp]
        /\ stamp' = [stamp EXCEPT ![t] = FromHistory(cancel.hist)]
        /\ repair' \in [Task -> {"no", "due", "read"}]
        /\ \A s \in Task : repair'[s] # "no" => opener[s] \in Task
    BY <1>0, <1>6, <2>2, <2>3, InstallFacts
  <2>5. item' \in [Task -> Item] /\ ItemsGoOn BY <1>0, <1>6, SavedGoOn
  <2>6. cancel' \in Cancelling /\ cancel'.task = None /\ cancel'.step = "no"
    BY <2>1 DEF NoCancel, NoItem, Cancelling, Item, Status
  <2>7. TypeOK' BY <1>0, <2>1, <2>4, <2>5, <2>6 DEF TypeOK
  <2>8. \A s \in Task : \/ stamp'[s] = stamp[s]
                        \/ s = cancel.task /\ stamp'[s].status = cancel.hist.status
                           /\ stamp'[s].parent = cancel.hist.parent
    BY <1>0, <2>1, <2>2, <2>4, HistoryStamp DEF TypeOK
  <2>9. \A s \in Runs' : Present(s) BY <1>0, <1>1, <2>1, <2>4 DEF Known
  <2> QED BY <1>0, <1>1, <2>1, <2>4, <2>5, <2>6, <2>7, <2>8, <2>9, StepKeeps
<1> QED BY <1>2, <1>3, <1>4, <1>5, <1>6 DEF Rehydrate

LEMMA RestartStep == DelegationInv /\ Restart => DelegationInv'
<1> SUFFICES ASSUME DelegationInv, Restart PROVE DelegationInv'
  OBVIOUS
<1>0. TypeOK /\ Known /\ Opened /\ ResultFirst BY DEF DelegationInv
<1>1. /\ restarts < MaxRestarts /\ restarts' = restarts + 1
      /\ on' = None /\ off' = {} /\ phase' = [t \in Task |-> "closed"]
      /\ handing' = [t \in Task |-> "no"] /\ attach' = {} /\ repair' = [t \in Task |-> "no"]
      /\ complete' = NotCompleting /\ cancel' = NoCancel /\ cancelled' = {}
      /\ UNCHANGED <<item, log, stamp, opener, returned, stray, crossed>>
  BY DEF Restart
<1>2. NotCompleting \in [Task -> Completion] /\ \A c \in Task : NotCompleting[c].step = "no"
  BY DEF NotCompleting, Completion, Log
<1>3. NoCancel \in Cancelling /\ NoCancel.task = None /\ NoCancel.step = "no"
  BY DEF NoCancel, NoItem, Cancelling, Item, Status
<1>4. ItemsGoOn BY <1>0, <1>1, SameItems
<1>5. restarts' \in 0..MaxRestarts BY <1>0, <1>1 DEF TypeOK
<1>6. TypeOK' BY <1>0, <1>1, <1>2, <1>3, <1>5 DEF TypeOK, Phase
<1>7. /\ Runs' = {} /\ stamp' = stamp /\ opener' = opener /\ returned' = returned
      /\ cancel'.task = None /\ cancel'.step = "no"
      /\ \A t \in Task : handing'[t] = "no"
      /\ \A c \in Task : c \notin attach' /\ repair'[c] = "no" /\ complete'[c].step = "no"
  BY <1>1, <1>2, <1>3 DEF Runs
<1> QED BY <1>0, <1>4, <1>6, <1>7, StepKeeps

-----------------------------------------------------------------------------
LEMMA InitFacts == Init => DelegationInv
<1> SUFFICES ASSUME Init PROVE DelegationInv
  OBVIOUS
<1>1. NoItem \in Item /\ [NoItem EXCEPT !.status = "unset"] \in Item BY DEF NoItem, Item, Status
<1>2. /\ item \in [Task -> Item]
      /\ \A t \in Task : item[t].parent = None /\ item[t].status # "completed"
      /\ item[Root].status = "unset"
  <2>1. item = [[t \in Task |-> NoItem] EXCEPT ![Root] = [NoItem EXCEPT !.status = "unset"]]
    BY DEF Init
  <2> QED BY <1>1, <2>1 DEF NoItem
<1>3. NotCompleting \in [Task -> Completion] /\ \A c \in Task : NotCompleting[c].step = "no"
  BY DEF NotCompleting, Completion, Log
<1>4. NoCancel \in Cancelling /\ NoCancel.task = None /\ NoCancel.step = "no"
  BY <1>1 DEF NoCancel, Cancelling
<1>5. TypeOK BY <1>2, <1>3, <1>4 DEF Init, TypeOK, Log, Phase, Working, Status, Stamp
<1>6. Known BY <1>2, <1>4 DEF Init, Known, Present
<1>7. Opened BY <1>2, <1>3, <1>4 DEF Init, Opened, Parent
<1>8. ResultFirst BY <1>2, <1>3, <1>4 DEF Init, ResultFirst, CompletedIsReturned
<1> QED BY <1>5, <1>6, <1>7, <1>8 DEF DelegationInv

LEMMA NextFacts == DelegationInv /\ [Next]_vars => DelegationInv'
<1> SUFFICES ASSUME DelegationInv, [Next]_vars PROVE DelegationInv'
  OBVIOUS
<1>1. ASSUME NEW t \in Task, Agent(t) PROVE DelegationInv'
  BY <1>1, DelegateSteps, OpenStep, WorkSteps, EndSteps, CompleteSteps, DetachStep,
     DetachFailsStep, CancelSteps
     DEF Agent
<1>2. ASSUME NEW t \in Task, User(t) PROVE DelegationInv'
  BY <1>2, EndSteps, WorkSteps, CancelSteps, UserSteps DEF User
<1>3. CASE CloseTask BY <1>3, UserSteps
<1>4. CASE Restart BY <1>4, RestartStep
<1>5. CASE UNCHANGED vars
  BY <1>5 DEF vars, live, ops, DelegationInv, TypeOK, Known, Opened, ResultFirst,
              CompletedIsReturned, Present, Parent
<1> QED BY <1>1, <1>2, <1>3, <1>4, <1>5 DEF Next

LEMMA InvHolds == Spec => []DelegationInv
BY InitFacts, NextFacts, PTL DEF Spec

(* Every history item, operation in progress and slot stays within its     *)
(* type, for any tasks and any user actions inside the operations.         *)
THEOREM TypesCorrect == Spec => []TypeOK
<1>1. DelegationInv => TypeOK BY DEF DelegationInv
<1> QED BY <1>1, InvHolds, PTL

(* A child is marked completed in its history item only once its result is *)
(* in the history of its parent, whenever the host dies in between, however *)
(* often it restarts and whatever the user opens, cancels or leaves.       *)
THEOREM ResultBeforeCompleted == Spec => []CompletedIsReturned
<1>1. DelegationInv => CompletedIsReturned BY DEF DelegationInv, ResultFirst
<1> QED BY <1>1, InvHolds, PTL

-----------------------------------------------------------------------------
(* Pairs of a parent and its sole child.                                   *)

Works(t) == phase[t] \in Working
Childless(t) == t \notin crossed /\ \A c \in Task : opener[c] # t

(* A task awaits children it opened, also in the item a cancel has read,   *)
(* and who is not yet open did nothing.                                    *)
Families ==
    /\ \A t \in Task : item[t].awaiting # None => opener[item[t].awaiting] = t
    /\ cancel.task \in Task /\ cancel.hist.awaiting # None
         => opener[cancel.hist.awaiting] = cancel.task
    /\ \A t \in Task : ~Present(t) => opener[t] = None /\ log[t] = "none"
    /\ \A c \in returned : opener[c] \in Task

(* Who opened a child has called new_task, unless the save of the call     *)
(* failed, and who works does not stand at a call that is not answered.    *)
Calls ==
    /\ \A c \in Task : opener[c] \in Task \ crossed => log[opener[c]] # "none"
    /\ \A t \in Task : Works(t) => log[t] # "frozen"
    /\ cancel.step = "no" => cancel.task = None

(* The item of a child, its instance and the cancel of it name its parent, *)
(* unless a cancel failed closed.                                          *)
Kinship ==
    \A c \in Task \ crossed : opener[c] \in Task =>
        /\ item[c].parent = opener[c] /\ Parent(c) = opener[c]
        /\ cancel.task = c => cancel.hist.parent = opener[c]

(* A task that nothing crossed opens its child while it is closed, has one *)
(* at most, and does not stand at its call while it is cancelled or ends.  *)
Single ==
    /\ \A t \in Task \ crossed : handing[t] # "no" =>
         Childless(t) /\ log[t] = "frozen" /\ phase[t] = "closed"
    /\ \A b, c \in Task : opener[b] \in Task \ crossed /\ opener[c] = opener[b] => b = c
    /\ cancel.task \in Task /\ Childless(cancel.task) => ~Works(cancel.task)
    /\ cancel.task \in Task \ crossed => log[cancel.task] # "frozen"
    /\ \A t \in Task \ crossed : complete[t].step # "no" => log[t] # "frozen"

(* The end of a task without children: an attempt, then the completion.    *)
Finishing ==
    /\ \A t \in Task : Childless(t) /\ complete[t].step # "no" =>
         phase[t] \notin {"work", "tool", "approve"} /\ t \notin attach
    /\ \A t \in attach : Childless(t) => phase[t] \notin {"work", "approve", "finish"}

(* What runs is in the slot or detached, and only what works is detached.  *)
Reachable ==
    \A t \in Task \ crossed :
        /\ Works(t) => t \in off \cup {on}
        /\ phase[t] \in {"view", "rest", "aborted"} => on = t

(* A call stays open while its child is re-attached, and is answered once  *)
(* the child has returned.                                                 *)
Answers ==
    /\ \A c \in attach : Sole(c) => log[opener[c]] = "frozen"
    /\ \A c \in returned : Sole(c) => log[opener[c]] # "frozen"

(* A detached task works and is not in the slot too, what is in the slot is*)
(* not closed, and who is cancelled does not work any more.                *)
Apart ==
    \A t \in Task : Clear(t) =>
        /\ t \in off => Works(t) /\ on # t
        /\ on = t => phase[t] # "closed"
        /\ cancel.task = t => ~Works(t)

(* The item that a cancel has read names no child that the item does not.  *)
Remembered ==
    \A c \in Task : Sole(c) /\ cancel.task = opener[c] /\ cancel.hist.awaiting = c
        => item[opener[c]].awaiting = c

(* A child runs and its parent stays closed while it is re-attached.       *)
Reattaching ==
    \A c \in attach : Sole(c) => phase[opener[c]] = "closed" /\ phase[c] # "closed"

(* No save of the parent falls between the writes of its child's           *)
(* completion: it is closed, or a view until CloseViews.                   *)
Ending ==
    \A c \in Task : Sole(c) =>
        /\ complete[c].step # "no" =>
             phase[opener[c]] \in {"closed", "view"} /\ cancel.task # opener[c]
        /\ complete[c].step \in {"closed", "marked", "written"} => phase[opener[c]] = "closed"
        /\ complete[c].step = "written" => item[opener[c]].awaiting # c
        /\ complete[c].step = "read" => complete[c].log = "frozen"

(* No result of a sole child found the call answered.                      *)
Unstrayed == \A c \in stray : ~Sole(c)

(* The child c is awaited by its parent.                                   *)
Awaited(c) == item[opener[c]].awaiting = c

(* A parent that awaits its child stands at its call, and is closed or a   *)
(* view that saves the status "delegated".                                 *)
Waiting ==
    \A c \in Task : Sole(c) /\ Awaited(c) =>
        /\ item[opener[c]].status = "delegated"
        /\ \/ phase[opener[c]] = "closed"
           \/ phase[opener[c]] = "view" /\ stamp[opener[c]].status = "delegated"
        /\ cancel.task # opener[c] /\ complete[opener[c]].step = "no"
        /\ complete[c].step \in {"no", "read"} => log[opener[c]] = "frozen"

(* An awaited child runs, or its detach or its completion is under way,    *)
(* and beyond the write that may fail without closing the child.           *)
Attended ==
    \A c \in Task : Sole(c) /\ Awaited(c) =>
         phase[c] # "closed" \/ repair[c] # "no" \/ complete[c].step \notin {"no", "read"}

(* The invariant: what holds always, and what holds in one life of the     *)
(* host.                                                                   *)
Life == Apart /\ Remembered /\ Reattaching /\ Ending /\ Unstrayed /\ Waiting /\ Attended
Careful == Hurried \subseteq {"cancel"}
Inv == /\ DelegationInv /\ Families /\ Calls /\ Kinship
       /\ Single /\ Finishing /\ Reachable /\ Answers
       /\ restarts = 0 => Life

-----------------------------------------------------------------------------
(* What the actions do, task by task.                                      *)

(* A save changes the status and the parent only, and only of the tasks    *)
(* that are saved.                                                         *)
SavedAs(t) ==
    /\ item'[t].awaiting = item[t].awaiting
    /\ item'[t].parent \in {item[t].parent, Parent(t)}
    /\ item'[t].status \in {item[t].status, stamp[t].status}
Stays(t) == phase'[t] = phase[t] /\ item'[t] = item[t] /\ repair'[t] = repair[t]
Ends(t) ==
    /\ phase'[t] = "closed" /\ SavedAs(t)
    /\ repair'[t] = IF Parent(t) # None /\ repair[t] = "no" THEN "due" ELSE repair[t]
Rests(t) ==
    /\ UNCHANGED <<on, stamp>> /\ \A x \in Task \ {t} : Stays(x)
    /\ \/ t \in off /\ off' = off \ {t} /\ Ends(t)
       \/ t \notin off /\ off' = off /\ phase'[t] = "rest"
          /\ item'[t] = item[t] /\ repair'[t] = repair[t]
Arrives(t, ph, st, p) ==
    /\ on' = t /\ off' = off \cup (Kept \ {t})
    /\ phase'[t] = ph /\ stamp'[t].status = st /\ stamp'[t].parent = p
    /\ SavedAs(t) /\ repair'[t] = repair[t]
    /\ on # t => item'[t] = item[t]
Leaves(t) == IF on = t /\ ~Works(t) THEN Ends(t) ELSE Stays(t)

LEMMA SavedFields ==
  ASSUME TypeOK, NEW S, item' = Saved(S)
  PROVE  \A t \in Task : IF t \in S THEN SavedAs(t) ELSE item'[t] = item[t]
<1> SUFFICES ASSUME NEW t \in Task
             PROVE  IF t \in S THEN SavedAs(t) ELSE item'[t] = item[t]
  OBVIOUS
<1>1. item[t] \in Item BY DEF TypeOK
<1>2. PICK st \in {item[t].status, stamp[t].status} :
        \/ item'[t] = item[t]
        \/ t \in S /\ item'[t] = [item[t] EXCEPT !.status = st, !.parent = stamp[t].parent]
  BY DEF Saved
<1>3. t \notin S => item'[t] = item[t] BY DEF Saved
<1> QED BY <1>1, <1>2, <1>3 DEF Item, SavedAs, Parent

LEMMA LeftFields ==
  ASSUME TypeOK, phase' = Closed(Left), item' = Saved(Left), repair' = RepairDue(Left)
  PROVE  \A t \in Task : Leaves(t)
<1> SUFFICES ASSUME NEW t \in Task PROVE Leaves(t)
  OBVIOUS
<1>1. t \in Left <=> on = t /\ ~Works(t) BY DEF Left, Kept, Works
<1> QED BY <1>1, SavedFields DEF Closed, RepairDue, Leaves, Ends, Stays

LEMMA InstallFields ==
  ASSUME TypeOK, NEW t \in Task, NEW ph \in Phase, NEW hist, Install(t, ph, hist),
         item' = Saved(Left)
  PROVE  /\ Arrives(t, ph, hist.status, hist.parent)
         /\ \A x \in Task \ {t} : Leaves(x) /\ stamp'[x] = stamp[x]
<1>1. \A x \in Task : x \in Left <=> on = x /\ ~Works(x) BY DEF Left, Kept, Works
<1>2. ASSUME NEW x \in Task \ {t} PROVE Leaves(x)
  BY <1>1, SavedFields DEF Install, Closed, RepairDue, Leaves, Ends, Stays
<1>3. SavedAs(t) /\ (on # t => item'[t] = item[t]) BY <1>1, SavedFields DEF SavedAs
<1>4. stamp'[t].status = hist.status /\ stamp'[t].parent = hist.parent
  BY DEF Install, FromHistory, TypeOK
<1> QED BY <1>2, <1>3, <1>4 DEF Install, Closed, RepairDue, TypeOK, Arrives

LEMMA RestFields ==
  ASSUME TypeOK, NEW t \in Task, ComesToRest(t)
  PROVE  Rests(t)
<1>1. CASE t \in off
  BY <1>1, SavedFields DEF ComesToRest, Closed, RepairDue, Rests, Ends, Stays
<1>2. CASE t \notin off BY <1>2 DEF ComesToRest, Rests, Stays, TypeOK
<1> QED BY <1>1, <1>2

(* Delegation, detach and completion write a parent alone.                 *)
WrittenAs(p, st, aw) ==
    /\ item'[p].status = st /\ item'[p].awaiting = aw /\ item'[p].parent = item[p].parent
    /\ \A t \in Task \ {p} : item'[t] = item[t]

LEMMA ParentFields ==
  ASSUME TypeOK, NEW p \in Task, NEW st \in Status, NEW aw \in Task \cup {None}, NEW c \in Task,
         item' = [item EXCEPT ![p].status = st, ![p].awaiting = aw, ![p].delegatedTo = c]
  PROVE  WrittenAs(p, st, aw)
<1>1. item[p] \in Item BY DEF TypeOK
<1>2. item' = [item EXCEPT ![p] =
                   [item[p] EXCEPT !.status = st, !.awaiting = aw, !.delegatedTo = c]]
  BY DEF TypeOK
<1>3. item'[p] = [item[p] EXCEPT !.status = st, !.awaiting = aw, !.delegatedTo = c]
  BY <1>2 DEF TypeOK
<1> QED BY <1>1, <1>2, <1>3 DEF Item, TypeOK, WrittenAs

LEMMA ReattachFields ==
  ASSUME DelegationInv, NEW c \in Task, Reattach(c)
  PROVE  /\ c \in attach /\ attach' = attach \ {c} /\ opener[c] \in Task
         /\ \/ /\ phase' = [phase EXCEPT ![c] = IF @ = "tool" THEN "approve" ELSE @]
               /\ WrittenAs(opener[c], "delegated", c)
               /\ UNCHANGED <<on, off, stamp, repair>>
            \/ phase[c] = "tool" /\ Rests(c)
            \/ phase[c] # "tool" /\ UNCHANGED <<item, on, off, phase, stamp, repair>>
         /\ UNCHANGED <<log, handing, complete, cancel, opener, restarts, returned, stray, crossed>>
<1>1. opener[c] \in Task BY DEF Reattach, DelegationInv, Opened
<1>2. TypeOK /\ "delegated" \in Status BY DEF DelegationInv, Status
<1>3. c \in attach /\ attach' = attach \ {c} BY DEF Reattach
<1>4. UNCHANGED <<log, handing, complete, cancel, opener, restarts, returned, stray, crossed>>
  BY DEF Reattach, others, ghosts
<1>5. CASE /\ item' = [item EXCEPT ![opener[c]].status = "delegated", ![opener[c]].awaiting = c,
                                  ![opener[c]].delegatedTo = c]
           /\ phase' = [phase EXCEPT ![c] = IF @ = "tool" THEN "approve" ELSE @]
           /\ UNCHANGED <<on, off, stamp, repair>>
  <2>1. WrittenAs(opener[c], "delegated", c) BY <1>1, <1>2, <1>5, ParentFields, Zenon
  <2> QED BY <1>1, <1>3, <1>4, <1>5, <2>1, Zenon
<1>6. CASE phase[c] = "tool" /\ ComesToRest(c) BY <1>1, <1>2, <1>3, <1>4, <1>6, RestFields
<1>7. CASE phase[c] # "tool" /\ UNCHANGED <<item, live, repair>>
  BY <1>1, <1>3, <1>4, <1>7 DEF live
<1> QED BY <1>5, <1>6, <1>7 DEF Reattach

LEMMA DetachParentFields ==
  ASSUME DelegationInv, NEW c \in Task, DetachParent(c)
  PROVE  /\ repair[c] = "read" /\ repair' = [repair EXCEPT ![c] = "no"] /\ opener[c] \in Task
         /\ WrittenAs(opener[c], "active", None)
         /\ UNCHANGED <<log, on, off, phase, stamp, handing, attach, complete, cancel, opener,
                        restarts, returned, stray, crossed>>
<1>1. opener[c] \in Task BY DEF DetachParent, DelegationInv, Opened
<1>2. item' = [item EXCEPT ![opener[c]].status = "active", ![opener[c]].awaiting = None,
                           ![opener[c]].delegatedTo = c]
  BY DEF DetachParent
<1>3. WrittenAs(opener[c], "active", None)
  <2>1. TypeOK /\ "active" \in Status BY DEF DelegationInv, Status
  <2> QED BY <1>1, <1>2, <2>1, ParentFields, Zenon
<1> QED BY <1>1, <1>3, Zenon DEF DetachParent, live, ghosts

LEMMA DetachFailsFields ==
  ASSUME DelegationInv, NEW c \in Task, DetachFails(c)
  PROVE  /\ repair[c] # "no" /\ repair' = [repair EXCEPT ![c] = "no"]
         /\ crossed' = crossed \cup {c}
         /\ UNCHANGED <<item, log, on, off, phase, stamp, handing, attach, complete, cancel, opener,
                        restarts, returned, stray>>
BY DEF DetachFails, live

LEMMA FailClosedFields ==
  ASSUME DelegationInv, NEW c \in Task, FailClosed(c)
  PROVE  /\ cancel.task = c /\ repair[c] # "no" /\ repair' = [repair EXCEPT ![c] = "no"]
         /\ crossed' = crossed \cup {c}
         /\ \/ /\ item'[c].awaiting = cancel.hist.awaiting
               /\ item'[c].status = cancel.hist.status
               /\ \A x \in Task \ {c} : item'[x] = item[x]
               /\ cancel'.task = c /\ cancel'.step = "rehydrate"
               /\ cancel'.hist.awaiting = cancel.hist.awaiting
            \/ /\ item' = item
               /\ cancel'.task = None /\ cancel'.step = "no" /\ cancel'.hist.awaiting = None
         /\ UNCHANGED <<log, on, off, phase, stamp, handing, attach, complete, opener, restarts,
                        returned, stray>>
<1>1. /\ cancel.task = c /\ cancel.step = "rehydrate" /\ repair[c] # "no"
      /\ repair' = [repair EXCEPT ![c] = "no"] /\ crossed' = crossed \cup {c}
      /\ UNCHANGED <<log, on, off, phase, stamp, handing, attach, complete, opener, restarts,
                     returned, stray>>
  BY DEF FailClosed, Rehydrates, live
<1> DEFINE alone == [cancel.hist EXCEPT !.parent = None]
<1>2. cancel \in Cancelling /\ cancel.hist \in Item /\ item \in [Task -> Item]
  BY DEF DelegationInv, TypeOK, Cancelling
<1>3. alone.awaiting = cancel.hist.awaiting /\ alone.status = cancel.hist.status
  BY <1>2 DEF Item
<1>4. /\ [cancel EXCEPT !.hist = alone].task = cancel.task
      /\ [cancel EXCEPT !.hist = alone].step = cancel.step
      /\ [cancel EXCEPT !.hist = alone].hist = alone
  BY <1>2 DEF Cancelling
<1>5. \/ item' = [item EXCEPT ![c] = alone] /\ cancel' = [cancel EXCEPT !.hist = alone]
      \/ item' = item /\ cancel' = NoCancel
  BY DEF FailClosed
<1> HIDE DEF alone
<1>6. CASE item' = [item EXCEPT ![c] = alone] /\ cancel' = [cancel EXCEPT !.hist = alone]
  <2>1. item'[c] = alone /\ \A x \in Task \ {c} : item'[x] = item[x] BY <1>2, <1>6
  <2> QED BY <1>1, <1>3, <1>4, <1>6, <2>1
<1>7. CASE item' = item /\ cancel' = NoCancel BY <1>1, <1>7 DEF NoCancel, NoItem
<1> QED BY <1>5, <1>6, <1>7

(* complete[c] moves from one step to the next, or the completion stops.   *)
Moves(c, from, to) ==
    /\ complete[c].step = from /\ complete'[c].step = to /\ complete'[c].log = complete[c].log
    /\ \A t \in Task \ {c} : complete'[t] = complete[t]
Stops(c, from) ==
    /\ complete[c].step = from /\ complete'[c].step = "no"
    /\ \A t \in Task \ {c} : complete'[t] = complete[t]

LEMMA StopFields ==
  ASSUME TypeOK, NEW c \in Task, NEW from, At(c, from), CompleteEnds(c)
  PROVE  Stops(c, from)
<1>1. complete[c] \in Completion BY DEF TypeOK
<1>2. complete' = [complete EXCEPT ![c] = [complete[c] EXCEPT !.step = "no", !.log = "none"]]
  BY DEF CompleteEnds, TypeOK
<1> QED BY <1>1, <1>2 DEF Completion, TypeOK, At, Stops

LEMMA AdvanceFields ==
  ASSUME TypeOK, NEW c \in Task, NEW from, NEW to, At(c, from), Advance(c, to)
  PROVE  Moves(c, from, to)
<1>1. complete[c] \in Completion BY DEF TypeOK
<1>2. complete' = [complete EXCEPT ![c] = [complete[c] EXCEPT !.step = to]]
  BY DEF Advance, TypeOK
<1> QED BY <1>1, <1>2 DEF Completion, TypeOK, At, Moves

LEMMA MarkParentFields ==
  ASSUME DelegationInv, NEW c \in Task, MarkParent(c)
  PROVE  /\ opener[c] \in Task
         /\ \/ /\ Moves(c, "marked", "written") /\ WrittenAs(opener[c], "active", None)
               /\ crossed' = crossed
            \/ Stops(c, "marked") /\ item' = item /\ crossed' = crossed \cup {c}
         /\ UNCHANGED <<log, on, off, phase, stamp, handing, attach, repair, cancel, opener,
                        restarts, returned, stray>>
<1>1. opener[c] \in Task BY DEF MarkParent, DelegationInv, Opened, At
<1>2. TypeOK /\ "active" \in Status BY DEF DelegationInv, Status
<1>3. UNCHANGED <<log, on, off, phase, stamp, handing, attach, repair, cancel, opener,
                  restarts, returned, stray>>
  BY DEF MarkParent, live
<1>4. CASE /\ item' = [item EXCEPT ![opener[c]].status = "active", ![opener[c]].awaiting = None,
                                  ![opener[c]].delegatedTo = c]
           /\ Advance(c, "written") /\ UNCHANGED crossed
  <2>1. WrittenAs(opener[c], "active", None) BY <1>1, <1>2, <1>4, ParentFields, Zenon
  <2>2. Moves(c, "marked", "written") BY <1>2, <1>4, AdvanceFields DEF MarkParent
  <2> QED BY <1>1, <1>3, <1>4, <2>1, <2>2, Zenon
<1>5. CASE item' = item /\ CompleteEnds(c) /\ crossed' = crossed \cup {c}
  <2>1. Stops(c, "marked") BY <1>2, <1>5, StopFields DEF MarkParent
  <2> QED BY <1>1, <1>3, <1>5, <2>1
<1> QED BY <1>4, <1>5 DEF MarkParent

LEMMA MarkChildFields ==
  ASSUME DelegationInv, NEW c \in Task, MarkChild(c)
  PROVE  /\ Moves(c, "closed", "marked")
         /\ item'[c].awaiting = item[c].awaiting /\ item'[c].parent = item[c].parent
         /\ item'[c].status \in {item[c].status, "completed"}
         /\ \A t \in Task \ {c} : item'[t] = item[t]
         /\ UNCHANGED <<log, on, off, phase, stamp, handing, attach, repair, cancel, opener,
                        restarts, returned, stray, crossed>>
<1>0. UNCHANGED <<log, on, off, phase, stamp, handing, attach, repair, cancel, opener,
                   restarts, returned, stray, crossed>>
  BY DEF MarkChild, live, others, ghosts
<1>1. item[c] \in Item BY DEF TypeOK, DelegationInv
<1>2. item' = item \/ item' = [item EXCEPT ![c] = [item[c] EXCEPT !.status = "completed"]]
  BY DEF MarkChild, TypeOK, DelegationInv
<1>3. CASE item' = item BY <1>0, <1>3, AdvanceFields DEF MarkChild, DelegationInv
<1>4. CASE item' = [item EXCEPT ![c] = [item[c] EXCEPT !.status = "completed"]]
  <2>1. item'[c] = [item[c] EXCEPT !.status = "completed"] BY <1>4 DEF TypeOK, DelegationInv
  <2> QED BY <1>0, <1>1, <1>4, <2>1, AdvanceFields DEF MarkChild, DelegationInv, Item, TypeOK
<1> QED BY <1>2, <1>3, <1>4

LEMMA OpenChildFields ==
  ASSUME DelegationInv, NEW p \in Task, NEW c \in Task, OpenChild(p, c)
  PROVE  /\ handing[p] # "no" /\ ~Present(c) /\ Present(p)
         /\ item'[c].awaiting = None /\ item'[c].parent = p
         /\ item'[p].parent = item[p].parent
         /\ item'[p] = item[p] \/ (item'[p].awaiting = c /\ item'[p].status = "delegated")
         /\ \A t \in Task \ {c, p} : item'[t] = item[t]
         /\ phase' = [phase EXCEPT ![c] = "work"]
         /\ stamp'[c].parent = p /\ \A t \in Task \ {c} : stamp'[t] = stamp[t]
         /\ handing' = [handing EXCEPT ![p] = "no"] /\ opener' = [opener EXCEPT ![c] = p]
         /\ IF handing[p] = "on"
            THEN on' = c /\ off' = off /\ crossed' = crossed \cup ({on} \cap Task)
            ELSE on' = on /\ off' = off \cup {c} /\ crossed' = crossed
         /\ UNCHANGED <<log, attach, repair, complete, cancel, restarts, returned, stray>>
<1>1. handing[p] # "no" /\ ~Present(c) BY DEF OpenChild, Fresh, Present
<1>2. Present(p) BY <1>1 DEF DelegationInv, Known
<1>3. c # p BY <1>1, <1>2
<1> DEFINE kid == [status |-> "active", awaiting |-> None, delegatedTo |-> None, parent |-> p]
           told == [item[p] EXCEPT !.status = "delegated", !.awaiting = c, !.delegatedTo = c]
<1>4. item[p] \in Item /\ item \in [Task -> Item] BY DEF DelegationInv, TypeOK
<1>5. \E new \in {told, item[p]} : item' = [[item EXCEPT ![c] = kid] EXCEPT ![p] = new]
  BY <1>3, <1>4 DEF OpenChild
<1>6. /\ item'[c] = kid /\ item'[p] \in {told, item[p]}
      /\ \A t \in Task \ {c, p} : item'[t] = item[t]
  BY <1>3, <1>4, <1>5
<1>7. told.awaiting = c /\ told.status = "delegated" /\ told.parent = item[p].parent
  BY <1>4 DEF Item
<1>8. kid.awaiting = None /\ kid.parent = p OBVIOUS
<1>9. /\ phase' = [phase EXCEPT ![c] = "work"]
      /\ stamp' = [stamp EXCEPT ![c] = [status |-> "active", parent |-> p]]
      /\ handing' = [handing EXCEPT ![p] = "no"] /\ opener' = [opener EXCEPT ![c] = p]
      /\ IF handing[p] = "on"
         THEN on' = c /\ off' = off /\ crossed' = crossed \cup ({on} \cap Task)
         ELSE on' = on /\ off' = off \cup {c} /\ crossed' = crossed
      /\ UNCHANGED <<log, attach, repair, complete, cancel, restarts, returned, stray>>
  BY DEF OpenChild
<1> HIDE DEF told, kid
<1>10. item'[c].awaiting = None /\ item'[c].parent = p BY <1>6, <1>8
<1>11. item'[p].parent = item[p].parent
       /\ (item'[p] = item[p] \/ (item'[p].awaiting = c /\ item'[p].status = "delegated"))
  BY <1>6, <1>7
<1>12. stamp'[c].parent = p /\ \A t \in Task \ {c} : stamp'[t] = stamp[t]
  BY <1>9 DEF DelegationInv, TypeOK
<1> QED BY <1>1, <1>2, <1>6, <1>9, <1>10, <1>11, <1>12

LEMMA AfterAbortFields ==
  ASSUME DelegationInv, NEW t \in Task, AfterAbort(t)
  PROVE  /\ cancel.task = t /\ cancel.step = "wait" /\ repair[t] = "no"
         /\ \/ /\ on # None /\ ~Aborted(t)
               /\ cancel'.task = None /\ cancel'.step = "no" /\ cancel'.hist.awaiting = None
               /\ repair' = repair
            \/ /\ on = None \/ Aborted(t)
               /\ cancel'.task = t /\ cancel'.step = "rehydrate" /\ cancel'.hist = cancel.hist
               /\ \A x \in Task :
                    repair'[x] = IF x = t /\ Parent(t) # None THEN "due" ELSE repair[x]
         /\ UNCHANGED <<item, log, on, off, phase, stamp, handing, attach, complete, opener,
                        restarts, returned, stray, crossed>>
<1>0. UNCHANGED <<item, log, on, off, phase, stamp, handing, attach, complete, opener, restarts,
                   returned, stray, crossed>>
  BY DEF AfterAbort, live, others, ghosts
<1>1. cancel \in Cancelling /\ item \in [Task -> Item] /\ repair \in [Task -> {"no", "due", "read"}]
  BY DEF DelegationInv, TypeOK
<1>2. /\ [cancel EXCEPT !.step = "rehydrate"].task = cancel.task
      /\ [cancel EXCEPT !.step = "rehydrate"].step = "rehydrate"
      /\ [cancel EXCEPT !.step = "rehydrate"].hist = cancel.hist
  BY <1>1 DEF Cancelling
<1>3. cancel.task = t /\ cancel.step = "wait" /\ repair[t] = "no" BY DEF AfterAbort
<1>4. CASE on # None /\ ~Aborted(t) /\ cancel' = NoCancel /\ repair' = repair
  BY <1>0, <1>3, <1>4 DEF NoCancel, NoItem
<1>5. CASE /\ on = None \/ Aborted(t)
           /\ cancel' = [cancel EXCEPT !.step = "rehydrate"] /\ repair' = RepairDue({t})
  BY <1>0, <1>1, <1>2, <1>3, <1>5 DEF RepairDue
<1> QED BY <1>4, <1>5 DEF AfterAbort

LEMMA ApproveFields ==
  ASSUME DelegationInv, NEW c \in Task, Approve(c)
  PROVE  /\ phase[c] = "approve" /\ complete[c].step = "no"
         /\ \/ /\ opener[c] \in Task /\ Awaited(c)
               /\ complete'[c].step = "read" /\ complete'[c].log = log[opener[c]]
               /\ \A t \in Task \ {c} : complete'[t] = complete[t]
               /\ phase' = [phase EXCEPT ![c] = "finish"]
               /\ UNCHANGED <<item, on, off, stamp, repair>>
            \/ complete' = complete /\ Rests(c)
         /\ UNCHANGED <<log, handing, attach, cancel, opener, restarts, returned, stray, crossed>>
<1>0. UNCHANGED <<log, handing, attach, cancel, opener, restarts, returned, stray, crossed>>
  BY DEF Approve, others, ghosts
<1>1. complete \in [Task -> Completion] /\ complete[c] \in Completion BY DEF DelegationInv, TypeOK
<1>2. phase[c] = "approve" /\ complete[c].step = "no" BY DEF Approve, At
<1>3. CASE /\ parentAwaitsChild(c)
           /\ complete' = [complete EXCEPT ![c].step = "read", ![c].log = log[Parent(c)]]
           /\ phase' = [phase EXCEPT ![c] = "finish"]
           /\ UNCHANGED <<item, on, off, stamp, repair>>
  <2>1. opener[c] \in Task /\ Parent(c) = opener[c] /\ item[opener[c]].awaiting = c
    BY <1>3, AwaitedParent DEF DelegationInv, parentAwaitsChild, ParentOf
  <2>2. complete' = [complete EXCEPT ![c] =
                        [complete[c] EXCEPT !.step = "read", !.log = log[opener[c]]]]
    BY <1>1, <1>3, <2>1
  <2>3. /\ complete'[c].step = "read" /\ complete'[c].log = log[opener[c]]
        /\ \A t \in Task \ {c} : complete'[t] = complete[t]
    BY <1>1, <2>2 DEF Completion
  <2> QED BY <1>0, <1>2, <1>3, <2>1, <2>3, DelegationAssumption DEF Awaited
<1>4. CASE ComesToRest(c) /\ UNCHANGED complete BY <1>0, <1>2, <1>4, RestFields DEF DelegationInv
<1> QED BY <1>0, <1>3, <1>4 DEF Approve

LEMMA AttemptFields ==
  ASSUME DelegationInv, NEW c \in Task, Attempt(c)
  PROVE  /\ phase[c] = "work"
         /\ \/ /\ phase' = [phase EXCEPT ![c] = "approve"]
               /\ UNCHANGED <<item, on, off, stamp, repair, attach>>
            \/ /\ attach' = attach \cup {c} /\ phase' = [phase EXCEPT ![c] = "tool"]
               /\ opener[c] \in Task /\ on # opener[c] /\ log[opener[c]] = "frozen"
               /\ UNCHANGED <<item, on, off, stamp, repair>>
            \/ attach' = attach /\ Rests(c)
         /\ UNCHANGED <<log, handing, complete, cancel, opener, restarts, returned, stray, crossed>>
<1>1. Reattachable(c) => opener[c] \in Task /\ on # opener[c] /\ log[opener[c]] = "frozen"
  BY AwaitedParent DEF Reattachable, ParentOf, DelegationInv
<1>2. TypeOK BY DEF DelegationInv
<1> QED BY <1>1, <1>2, RestFields DEF Attempt, others, ghosts

LEMMA CloseViewsFields ==
  ASSUME DelegationInv, NEW c \in Task, CloseViews(c)
  PROVE  /\ complete[c].step = "saved" /\ complete'[c].step = "closed"
         /\ complete'[c].log = complete[c].log /\ \A t \in Task \ {c} : complete'[t] = complete[t]
         /\ \A t \in Task :
              IF (t = on /\ t \in {c, opener[c]}) \/ (t = c /\ t \in off)
              THEN phase'[t] = "closed" /\ SavedAs(t)
              ELSE phase'[t] = phase[t] /\ item'[t] = item[t]
         /\ on' = IF on \in {c, opener[c]} THEN None ELSE on
         /\ off' \subseteq off /\ off \ {c} \subseteq off' /\ (c # opener[c] => c \notin off')
         /\ UNCHANGED <<log, stamp, handing, attach, repair, cancel, opener, restarts,
                        returned, stray, crossed>>
<1>0. UNCHANGED <<log, stamp, handing, attach, repair, cancel, opener, restarts,
                   returned, stray, crossed>>
  BY DEF CloseViews, others, ghosts
<1> DEFINE childOff == on # c /\ IsLive(c)
           gone == ({on} \cap {c, opener[c]}) \cup (IF childOff THEN {c} ELSE {})
<1>1. /\ complete[c].step = "saved" /\ phase' = Closed(gone) /\ item' = Saved(gone)
      /\ on' = (IF on \in gone THEN None ELSE on) /\ off' = off \ (gone \ {opener[c]})
      /\ complete' = [complete EXCEPT ![c].step = "closed",
                        ![c].place = IF ~childOff \/ on = opener[c] THEN "on" ELSE "off"]
  BY DEF CloseViews, At
<1>2. complete \in [Task -> Completion] /\ complete[c] \in Completion BY DEF DelegationInv, TypeOK
<1>3. /\ complete'[c].step = "closed" /\ complete'[c].log = complete[c].log
      /\ \A t \in Task \ {c} : complete'[t] = complete[t]
  <2> DEFINE pl == IF ~childOff \/ on = opener[c] THEN "on" ELSE "off"
  <2>1. complete' = [complete EXCEPT ![c] = [complete[c] EXCEPT !.step = "closed", !.place = pl]]
    BY <1>1, <1>2
  <2> HIDE DEF pl
  <2> QED BY <1>2, <2>1 DEF Completion
<1>4. \A t \in Task : IF t \in gone THEN phase'[t] = "closed" /\ SavedAs(t)
                      ELSE phase'[t] = phase[t] /\ item'[t] = item[t]
  BY <1>1, SavedFields DEF Closed, DelegationInv
<1>5. \A t \in Task : t \in gone <=> (t = on /\ t \in {c, opener[c]}) \/ (t = c /\ t \in off)
  BY DEF IsLive
<1>6. on \in gone <=> on \in {c, opener[c]}
  BY DEF IsLive
<1>7. off' \subseteq off /\ off \ {c} \subseteq off' /\ (c # opener[c] => c \notin off')
  <2>1. gone \subseteq {c, opener[c]} /\ (c \in off => c \in gone) BY DEF IsLive
  <2> HIDE DEF gone
  <2> QED BY <1>1, <2>1
<1> HIDE DEF gone
<1> QED BY <1>0, <1>1, <1>3, <1>4, <1>5, <1>6, <1>7

(* The ends of a completion: the parent is reopened on screen or off, is   *)
(* already there or is not opened, or only the screen is cleared for it.   *)
Completes(c) ==
    /\ opener[c] \in Task /\ complete[c].step = "written" /\ complete'[c].step = "no"
    /\ \A t \in Task \ {c} : complete'[t] = complete[t]
    /\ UNCHANGED <<handing, attach, cancel, opener, restarts, returned, stray>>
ReopensOn(p) ==
    /\ Arrives(p, "work", "active", item[p].parent)
    /\ \A x \in Task \ {p} : Leaves(x) /\ stamp'[x] = stamp[x]
    /\ log' = [log EXCEPT ![p] = "answered"] /\ Crosses(p)
ReopensOff(p) ==
    /\ off' = off \cup {p} /\ phase' = [phase EXCEPT ![p] = "work"]
    /\ stamp'[p].parent = item[p].parent /\ \A x \in Task \ {p} : stamp'[x] = stamp[x]
    /\ log' = [log EXCEPT ![p] = "answered"]
    /\ UNCHANGED <<item, on, repair, crossed>>
StaysAway == UNCHANGED <<item, log, on, off, phase, stamp, repair, crossed>>
Clears(p) ==
    /\ on # p /\ on' = None /\ off' = off \cup Kept /\ \A x \in Task : Leaves(x)
    /\ UNCHANGED <<log, stamp>> /\ Crosses(p)
ReopenEnds(p) == ReopensOn(p) \/ ReopensOff(p) \/ StaysAway \/ Clears(p)

LEMMA RefusedFields ==
  ASSUME TypeOK, NEW t \in Task, Refused(t), UNCHANGED log
  PROVE  StaysAway \/ Clears(t)
<1>1. CASE UNCHANGED <<item, live, repair, crossed>> BY <1>1 DEF live, StaysAway
<1>2. CASE /\ on # t /\ on' = None /\ off' = off \cup Kept /\ UNCHANGED stamp /\ Crosses(t)
           /\ phase' = Closed(Left) /\ item' = Saved(Left) /\ repair' = RepairDue(Left)
  BY <1>2, LeftFields DEF Clears
<1> QED BY <1>1, <1>2 DEF Refused

LEMMA ReopenParentFields ==
  ASSUME DelegationInv, NEW c \in Task, ReopenParent(c)
  PROVE  Completes(c) /\ ReopenEnds(opener[c])
<1>1. complete \in [Task -> Completion] /\ complete[c] \in Completion BY DEF DelegationInv, TypeOK
<1>2. complete[c].step = "written" BY DEF ReopenParent, At
<1>3. opener[c] \in Task BY <1>2 DEF DelegationInv, Opened
<1>4. complete'[c].step = "no" /\ \A t \in Task \ {c} : complete'[t] = complete[t]
  <2>1. complete' = [complete EXCEPT ![c] = [complete[c] EXCEPT !.step = "no", !.log = "none"]]
    BY <1>1 DEF ReopenParent, CompleteEnds
  <2> QED BY <1>1, <2>1 DEF Completion
<1>5. UNCHANGED <<handing, attach, cancel, opener, restarts, returned, stray>> BY DEF ReopenParent
<1> DEFINE hist == [item[opener[c]] EXCEPT !.status = "active"]
<1>6. hist.status = "active" /\ hist.parent = item[opener[c]].parent
  <2>1. item[opener[c]] \in Item BY <1>3 DEF DelegationInv, TypeOK
  <2> QED BY <2>1 DEF Item
<1> HIDE DEF hist
<1> SUFFICES ReopenEnds(opener[c])
  BY <1>2, <1>3, <1>4, <1>5 DEF Completes
<1>7. CASE /\ Install(opener[c], "work", hist) /\ item' = Saved(Left) /\ Crosses(opener[c])
           /\ log' = [log EXCEPT ![opener[c]] = "answered"]
  <2>1. "work" \in Phase /\ TypeOK BY DEF Phase, Working, DelegationInv
  <2>2. /\ Arrives(opener[c], "work", hist.status, hist.parent)
        /\ \A x \in Task \ {opener[c]} : Leaves(x) /\ stamp'[x] = stamp[x]
    BY <1>3, <1>7, <2>1, InstallFields
  <2>3. ReopensOn(opener[c]) BY <1>6, <1>7, <2>2 DEF ReopensOn
  <2> QED BY <2>3 DEF ReopenEnds
<1>8. CASE /\ off' = off \cup {opener[c]} /\ phase' = [phase EXCEPT ![opener[c]] = "work"]
           /\ stamp' = [stamp EXCEPT ![opener[c]] = FromHistory(hist)]
           /\ log' = [log EXCEPT ![opener[c]] = "answered"]
           /\ UNCHANGED <<item, on, repair, crossed>>
  <2>1. /\ stamp'[opener[c]].parent = item[opener[c]].parent
        /\ \A x \in Task \ {opener[c]} : stamp'[x] = stamp[x]
    BY <1>3, <1>6, <1>8 DEF FromHistory, DelegationInv, TypeOK
  <2> QED BY <1>8, <2>1 DEF ReopenEnds, ReopensOff
<1>9. CASE UNCHANGED <<item, log, live, repair, crossed>>
  BY <1>9 DEF live, ReopenEnds, StaysAway
<1>10. CASE Refused(opener[c]) /\ UNCHANGED log
  BY <1>3, <1>10, RefusedFields DEF DelegationInv, ReopenEnds
<1> QED BY <1>7, <1>8, <1>9, <1>10 DEF ReopenParent, hist

LEMMA DisposeParentFields ==
  ASSUME DelegationInv, NEW p \in Task, DisposeParent(p)
  PROVE  /\ phase[p] = "work" /\ (on = p \/ p \in off)
         /\ handing' = [handing EXCEPT ![p] = IF on = p THEN "on" ELSE "off"]
         /\ \/ /\ log' = [log EXCEPT ![p] = "frozen"]
               /\ crossed' = IF \E c \in Task : opener[c] = p THEN crossed \cup {p} ELSE crossed
            \/ log' = log /\ crossed' = crossed \cup {p}
         /\ phase'[p] = "closed" /\ SavedAs(p)
         /\ \A t \in Task \ {p} : phase'[t] = phase[t] /\ item'[t] = item[t]
         /\ on' = IF on = p THEN None ELSE on
         /\ off' = off \ {p}
         /\ UNCHANGED <<stamp, attach, repair, complete, cancel, opener, restarts, returned, stray>>
<1>1. TypeOK BY DEF DelegationInv
<1>2. item' = Saved({p}) /\ phase' = Closed({p}) BY DEF DisposeParent
<1>3. SavedAs(p) /\ \A t \in Task \ {p} : item'[t] = item[t] BY <1>1, <1>2, SavedFields
<1>4. \/ /\ log' = [log EXCEPT ![p] = "frozen"]
         /\ crossed' = IF \E c \in Task : opener[c] = p THEN crossed \cup {p} ELSE crossed
      \/ log' = log /\ crossed' = crossed \cup {p}
  BY DEF DisposeParent, Children
<1> QED BY <1>2, <1>3, <1>4 DEF DisposeParent, Closed, IsLive

LEMMA TurnFields ==
  ASSUME DelegationInv, NEW t \in Task, Turn(t)
  PROVE  /\ phase[t] = "work"
         /\ log' = [log EXCEPT ![t] = IF @ = "none" THEN @ ELSE "moved"]
         /\ SavedAs(t) /\ \A x \in Task \ {t} : item'[x] = item[x]
         /\ UNCHANGED <<on, off, phase, stamp, handing, attach, repair, complete, cancel, opener,
                        restarts, returned, stray, crossed>>
<1>1. TypeOK BY DEF DelegationInv
<1>2. SavedAs(t) /\ \A x \in Task \ {t} : item'[x] = item[x] BY <1>1, SavedFields DEF Turn
<1> QED BY <1>2 DEF Turn, live, ops, others, ghosts

LEMMA SaveOnOpenFields ==
  ASSUME DelegationInv, NEW t \in Task, SaveOnOpen(t)
  PROVE  /\ phase[t] \in {"view", "rest"} /\ on = t
         /\ SavedAs(t) /\ \A x \in Task \ {t} : item'[x] = item[x]
         /\ UNCHANGED <<log, on, off, phase, stamp, handing, attach, repair, complete, cancel,
                        opener, restarts, returned, stray, crossed>>
<1>1. TypeOK BY DEF DelegationInv
<1>2. SavedAs(t) /\ \A x \in Task \ {t} : item'[x] = item[x] BY <1>1, SavedFields DEF SaveOnOpen
<1> QED BY <1>2 DEF SaveOnOpen, live, ops, others, ghosts

LEMMA StallFields ==
  ASSUME DelegationInv, NEW t \in Task, Stall(t)
  PROVE  /\ phase[t] = "work" /\ Rests(t)
         /\ UNCHANGED <<log, handing, attach, complete, cancel, opener, restarts, returned, stray,
                        crossed>>
<1>1. TypeOK BY DEF DelegationInv
<1> QED BY <1>1, RestFields DEF Stall, others, ghosts

LEMMA SaveResultFields ==
  ASSUME DelegationInv, NEW c \in Task, SaveResult(c)
  PROVE  /\ opener[c] \in Task
         /\ \/ /\ Moves(c, "read", "saved")
               /\ log' = [log EXCEPT ![opener[c]] = "answered"]
               /\ returned' = returned \cup {c}
               /\ stray' = IF complete[c].log = "moved" THEN stray \cup {c} ELSE stray
               /\ UNCHANGED <<item, on, off, phase, stamp, repair>>
            \/ /\ Stops(c, "read")
               /\ \/ phase[c] = "finish" /\ Rests(c)
                  \/ phase[c] # "finish" /\ UNCHANGED <<item, on, off, phase, stamp, repair>>
               /\ UNCHANGED <<log, returned, stray>>
         /\ UNCHANGED <<handing, attach, cancel, opener, restarts, crossed>>
<1>1. TypeOK BY DEF DelegationInv
<1>2. complete[c].step = "read" BY DEF SaveResult, At
<1>3. opener[c] \in Task BY <1>2 DEF DelegationInv, Opened
<1>4. CASE Advance(c, "saved")
  <2>1. Moves(c, "read", "saved") BY <1>1, <1>4, AdvanceFields DEF SaveResult
  <2>2. ~CompleteEnds(c) BY <1>1, <1>2, <2>1, StopFields DEF At, Moves, Stops
  <2> QED BY <1>3, <2>1, <2>2 DEF SaveResult, live
<1>5. CASE CompleteEnds(c)
  <2>1. Stops(c, "read") BY <1>1, <1>5, StopFields DEF SaveResult
  <2>2. ~Advance(c, "saved") BY <1>1, <1>2, <2>1, AdvanceFields DEF At, Moves, Stops
  <2> QED BY <1>1, <1>3, <2>1, <2>2, RestFields DEF SaveResult, live
<1> QED BY <1>4, <1>5 DEF SaveResult

LEMMA CancelFields ==
  ASSUME DelegationInv, Careful, NEW t \in Task, Cancel(t)
  PROVE  /\ cancel.task = None /\ on = t /\ Works(t)
         /\ cancel'.task = t /\ cancel'.step = "wait" /\ cancel'.hist = item[t]
         /\ phase' = [phase EXCEPT ![t] = "aborted"]
         /\ SavedAs(t) /\ \A x \in Task \ {t} : item'[x] = item[x]
         /\ UNCHANGED <<log, on, off, stamp, handing, attach, repair, complete, opener,
                        restarts, returned, stray, crossed>>
<1>1. TypeOK BY DEF DelegationInv
<1>2. SavedAs(t) /\ \A x \in Task \ {t} : item'[x] = item[x] BY <1>1, SavedFields DEF Cancel
<1>3. cancel'.task = t /\ cancel'.step = "wait" /\ cancel'.hist = item[t] BY DEF Cancel
<1> QED BY <1>2, <1>3 DEF Cancel, Works, others, ghosts

(* What the user opens or resumes, he opens when nothing is under way.     *)
Quiet ==
    /\ attach = {} /\ cancel.step # "rehydrate"
    /\ cancel.step = "wait" => on = cancel.task /\ phase[on] = "aborted"
    /\ \A t \in Task : handing[t] = "no" /\ repair[t] = "no" /\ complete[t].step = "no"

LEMMA CarefulIsQuiet ==
  ASSUME Careful, May("open") \/ May("resume")
  PROVE  Quiet
BY DEF Careful, May, Settled, Aborted, At, Quiet

LEMMA ShowLiveFields ==
  ASSUME DelegationInv, Careful, NEW t \in Task, ShowLive(t)
  PROVE  /\ Quiet /\ t \in off /\ on # t
         /\ on' = t /\ off' = (off \cup Kept) \ {t}
         /\ \A x \in Task : Leaves(x)
         /\ UNCHANGED <<log, stamp, handing, attach, complete, cancel, opener, restarts, returned,
                        stray, crossed>>
<1>1. TypeOK BY DEF DelegationInv
<1>2. \A x \in Task : Leaves(x) BY <1>1, LeftFields DEF ShowLive
<1>3. Quiet BY CarefulIsQuiet DEF ShowLive
<1> QED BY <1>2, <1>3 DEF ShowLive, others, ghosts

LEMMA CloseTaskFields ==
  ASSUME DelegationInv, Careful, CloseTask
  PROVE  /\ Quiet /\ on' = None /\ off' = off \cup Kept
         /\ \A x \in Task : Leaves(x)
         /\ UNCHANGED <<log, stamp, handing, attach, complete, cancel, opener, restarts, returned,
                        stray, crossed>>
<1>1. TypeOK BY DEF DelegationInv
<1>2. \A x \in Task : Leaves(x) BY <1>1, LeftFields DEF CloseTask
<1>3. Quiet BY CarefulIsQuiet DEF CloseTask
<1> QED BY <1>2, <1>3 DEF CloseTask, others, ghosts

LEMMA OpenTaskFields ==
  ASSUME DelegationInv, Careful, NEW t \in Task, OpenTask(t)
  PROVE  /\ Quiet /\ t \notin off /\ on # t /\ Present(t)
         /\ Arrives(t, IF awaitsLiveTask(t) THEN "view" ELSE "rest", item[t].status, item[t].parent)
         /\ \A x \in Task \ {t} : Leaves(x) /\ stamp'[x] = stamp[x]
         /\ UNCHANGED <<log, handing, attach, complete, cancel, opener, restarts, returned, stray,
                        crossed>>
<1> DEFINE ph == IF awaitsLiveTask(t) THEN "view" ELSE "rest"
<1>1. TypeOK /\ ph \in Phase BY DEF DelegationInv, Phase
<1>2. Install(t, ph, item[t]) /\ item' = Saved(Left) BY DEF OpenTask
<1> HIDE DEF ph
<1>3. /\ Arrives(t, ph, item[t].status, item[t].parent)
      /\ \A x \in Task \ {t} : Leaves(x) /\ stamp'[x] = stamp[x]
  BY <1>1, <1>2, InstallFields
<1>4. Quiet BY CarefulIsQuiet DEF OpenTask
<1> QED BY <1>3, <1>4 DEF ph, OpenTask, IsLive, Present, others, ghosts

(* The ends of a cancel: the task comes back, or there is no new instance. *)
Rebuilds(t) ==
    /\ cancel.task = t /\ cancel.step = "rehydrate" /\ repair[t] = "no"
    /\ cancel'.task = None /\ cancel'.step = "no" /\ cancel'.hist.awaiting = None
    /\ UNCHANGED <<log, handing, attach, complete, opener, restarts, returned, stray>>
Returns(t) ==
    /\ Arrives(t, "rest", cancel.hist.status, cancel.hist.parent)
    /\ \A x \in Task \ {t} : Leaves(x) /\ stamp'[x] = stamp[x]
    /\ Crosses(t)
RebuildEnds(t) == Returns(t) \/ StaysAway \/ Clears(t)

LEMMA RehydrateFields ==
  ASSUME DelegationInv, NEW t \in Task, Rehydrate(t)
  PROVE  Rebuilds(t) /\ RebuildEnds(t)
<1>1. TypeOK /\ "rest" \in Phase BY DEF DelegationInv, Phase
<1>2. Rebuilds(t) BY DEF Rehydrate, Rehydrates, NoCancel, NoItem, Rebuilds
<1>3. CASE Install(t, "rest", cancel.hist) /\ item' = Saved(Left) /\ Crosses(t)
  <2>1. Returns(t) BY <1>1, <1>3, InstallFields DEF Returns
  <2> QED BY <1>2, <2>1 DEF RebuildEnds
<1>4. CASE Refused(t)
  <2>1. log' = log BY DEF Rehydrate
  <2> QED BY <1>1, <1>2, <1>4, <2>1, RefusedFields DEF RebuildEnds
<1> QED BY <1>3, <1>4 DEF Rehydrate

LEMMA ResumeFields ==
  ASSUME Careful, NEW t \in Task, Resume(t)
  PROVE  /\ Quiet /\ on = t /\ phase[t] = "rest"
         /\ phase' = [phase EXCEPT ![t] = "work"]
         /\ log' = [log EXCEPT ![t] = IF @ = "none" THEN @ ELSE "moved"]
         /\ UNCHANGED <<item, on, off, stamp, handing, attach, repair, complete, cancel, opener,
                        restarts, returned, stray, crossed>>
<1>1. Quiet BY CarefulIsQuiet DEF Resume
<1> QED BY <1>1 DEF Resume, ops, others, ghosts

LEMMA ReadForDetachFields ==
  ASSUME DelegationInv, NEW c \in Task, ReadForDetach(c)
  PROVE  /\ repair[c] = "due" /\ opener[c] \in Task
         /\ \/ /\ Awaited(c) /\ repair' = [repair EXCEPT ![c] = "read"]
            \/ /\ repair' = [repair EXCEPT ![c] = "no"]
               /\ \/ ~Awaited(c) \/ item[opener[c]].status # "delegated"
                  \/ item[c].awaiting # None
         /\ UNCHANGED <<item, log, on, off, phase, stamp, handing, attach, complete, cancel, opener,
                        restarts, returned, stray, crossed>>
<1>1. repair[c] = "due" BY DEF ReadForDetach
<1>2. opener[c] \in Task BY <1>1 DEF DelegationInv, Opened
<1> QED BY <1>1, <1>2 DEF ReadForDetach, Awaited, awaitsLiveTask, live, others, ghosts

-----------------------------------------------------------------------------
Soles ==
    \A c \in Task : Sole(c) =>
        /\ opener[c] \in Task /\ opener[c] # c /\ Present(c) /\ Present(opener[c])
        /\ Childless(c) /\ Clear(c) /\ Clear(opener[c]) /\ opener[c] \notin crossed
        /\ handing[opener[c]] = "no" /\ handing[c] = "no"
        /\ \A x \in Task : opener[x] = opener[c] => x = c

LEMMA SoleFacts == ASSUME DelegationInv, Families, Calls, Single PROVE Soles
BY DEF DelegationInv, Soles, Sole, Childless, Clear, Children, Families, Calls, Single, TypeOK,
       Present

(* No step but OpenChild makes a child sole.                               *)
SolesBefore ==
    /\ \A c \in Task : Sole(c)' => /\ Sole(c) /\ opener'[c] = opener[c] /\ log'[c] = "none"
                                   /\ c \notin crossed' /\ opener[c] \notin crossed'
    /\ \A t \in Task : Clear(t)' => Clear(t) /\ t \notin crossed'
    /\ \A t \in Task : Childless(t)' => Childless(t)

LEMMA SoleBefore ==
  ASSUME opener' = opener, crossed \subseteq crossed',
         \A t \in Task : log'[t] = "none" => log[t] = "none"
  PROVE  SolesBefore
BY DEF SolesBefore, Sole, Clear, Children, Childless
LEMMA AwaitedTypes ==
  ASSUME DelegationInv
  PROVE  /\ \A t \in Task : item[t].awaiting \in Task \cup {None}
         /\ cancel.hist.awaiting \in Task \cup {None} /\ cancel.task \in Task \cup {None}
<1>1. \A t \in Task : item[t] \in Item BY DEF DelegationInv, TypeOK
<1>2. cancel.hist \in Item /\ cancel.task \in Task \cup {None}
  BY DEF DelegationInv, TypeOK, Cancelling
<1> QED BY <1>1, <1>2 DEF Item

-----------------------------------------------------------------------------
(* Every step of a task but the opening of a child, and the home screen.   *)
Routine(t) ==
    \/ DisposeParent(t) \/ ChildRefused(t) \/ Turn(t) \/ Stall(t) \/ Attempt(t) \/ Reattach(t)
    \/ Completing(t) \/ ReadForDetach(t) \/ DetachParent(t) \/ DetachFails(t) \/ FailClosed(t)
    \/ AfterAbort(t) \/ Rehydrate(t) \/ SaveOnOpen(t) \/ User(t) \/ CloseTask

LEMMA SingleResume ==
  ASSUME DelegationInv, Calls, Single, Careful, NEW t \in Task, Resume(t)
  PROVE  Single'
<1>1. cancel.task # t
  BY ResumeFields DEF Quiet, Calls, DelegationInv, TypeOK, Cancelling
<1>2. /\ \A x \in Task : handing'[x] = "no" /\ complete'[x].step = "no"
      /\ \A x \in Task : Childless(x)' => Childless(x)
  BY ResumeFields DEF Quiet, Childless
<1>3. cancel'.task \in Task /\ Childless(cancel.task)' => ~Works(cancel.task)'
  BY <1>1, <1>2, ResumeFields DEF Single, Works, DelegationInv, TypeOK
<1>4. cancel'.task \in Task \ crossed' => log'[cancel'.task] # "frozen"
  BY <1>1, ResumeFields DEF Single, DelegationInv, TypeOK
<1>5. \A b, c \in Task : opener'[b] \in Task \ crossed' /\ opener'[c] = opener'[b] => b = c
  BY ResumeFields DEF Single
<1>6. cancel' = cancel BY ResumeFields
<1> QED BY <1>2, <1>3, <1>4, <1>5, <1>6 DEF Single, Childless, Works

LEMMA ApartResume ==
  ASSUME DelegationInv, Calls, Apart, SolesBefore, Careful, NEW t \in Task, Resume(t)
  PROVE  Apart'
<1>1. cancel.task # t
  BY ResumeFields DEF Quiet, Calls, DelegationInv, TypeOK, Cancelling
<1>2. phase'[t] = "work" /\ \A x \in Task \ {t} : phase'[x] = phase[x]
  BY ResumeFields DEF DelegationInv, TypeOK
<1>3. on' = on /\ off' = off /\ cancel' = cancel /\ on = t BY ResumeFields
<1> QED BY <1>1, <1>2, <1>3 DEF Apart, SolesBefore, Works, Working

LEMMA ApartCloseViews ==
  ASSUME DelegationInv, Soles, SolesBefore, Apart, NEW c \in Task, CloseViews(c)
  PROVE  Apart'
<1> SUFFICES ASSUME NEW t \in Task, Clear(t)'
    PROVE  (/\ t \in off => Works(t) /\ on # t
            /\ on = t => phase[t] # "closed"
            /\ cancel.task = t => ~Works(t))'
  BY DEF Apart
<1>1. Clear(t) BY DEF SolesBefore
<1>2. CASE phase'[t] = phase[t]
  <2>1. on' = t => on = t BY CloseViewsFields, DelegationAssumption
  <2>2. t \in off' => t \in off BY CloseViewsFields
  <2> QED BY <1>1, <1>2, <2>1, <2>2, CloseViewsFields DEF Apart, Works
<1>3. CASE phase'[t] # phase[t]
  <2>1. /\ (t = on /\ t \in {c, opener[c]}) \/ (t = c /\ t \in off)
        /\ phase'[t] = "closed"
    BY <1>3, CloseViewsFields
  <2>2. on' # t BY <2>1, CloseViewsFields, DelegationAssumption
  <2>3. t \notin off'
    <3>1. c # opener[c] \/ t # c BY <1>1 DEF Clear, Children, Soles
    <3> QED BY <1>1, <2>1, <3>1, CloseViewsFields DEF Apart
  <2> QED BY <2>1, <2>2, <2>3 DEF Works, Working
<1> QED BY <1>2, <1>3

LEMMA ApartReopens ==
  ASSUME DelegationInv, Soles, SolesBefore, Apart, Ending, NEW c \in Task, Completes(c),
         ReopensOn(opener[c]) \/ ReopensOff(opener[c])
  PROVE  Apart'
<1> DEFINE p == opener[c]
<1> SUFFICES ASSUME NEW t \in Task, Clear(t)'
    PROVE  (/\ t \in off => Works(t) /\ on # t
            /\ on = t => phase[t] # "closed"
            /\ cancel.task = t => ~Works(t))'
  BY DEF Apart
<1>1. Clear(t) BY DEF SolesBefore
<1>2. p \in Task /\ complete[c].step = "written" /\ cancel' = cancel BY DEF Completes
<1>3. CASE t = p
  <2>1. Sole(c) BY <1>1, <1>2, <1>3 DEF Clear, Children
  <2>2. phase[p] = "closed" /\ cancel.task # p BY <1>2, <2>1 DEF Ending
  <2>3. p \notin off /\ on # p BY <1>1, <1>3, <2>2 DEF Apart, Works, Working
  <2>4. phase'[p] = "work" BY <1>2 DEF ReopensOn, ReopensOff, Arrives, DelegationInv, TypeOK
  <2>5. ~(p \in off' /\ on' = p)
    BY <1>2, <2>3 DEF ReopensOn, ReopensOff, Arrives
  <2> QED BY <1>2, <1>3, <2>2, <2>4, <2>5 DEF Works, Working
<1>4. CASE t # p
  <2>1. CASE ReopensOff(p)
    <3>1. phase'[t] = phase[t] /\ on' = on /\ (t \in off' => t \in off)
      BY <1>4, <2>1 DEF ReopensOff, DelegationInv, TypeOK
    <3> QED BY <1>1, <1>2, <3>1 DEF Apart, Works
  <2>2. CASE ReopensOn(p)
    <3>1. on' = p /\ Leaves(t) /\ (t \in off' => t \in off \/ t \in Kept)
      BY <1>4, <2>2 DEF ReopensOn, Arrives
    <3>2. t \in off' => Works(t)
      BY <1>1, <3>1 DEF Apart, Kept, Works
    <3>3. Works(t)' <=> Works(t)
      BY <3>1 DEF Leaves, Ends, Stays, Works, Working
    <3> QED BY <1>1, <1>2, <1>4, <3>1, <3>2, <3>3 DEF Apart
  <2> QED BY <2>1, <2>2
<1> QED BY <1>3, <1>4

(* Only the kin of t leaves the slot for it uncrossed, and a sole child is *)
(* not the parent of t.                                                    *)
LEMMA ReattachingCrosses ==
  ASSUME DelegationInv, Soles, SolesBefore, Reattaching,
         NEW t \in Task, Crosses(t), attach' = attach,
         \A x \in Task \ {t} : Leaves(x),
         \A c \in attach : Sole(c) => opener[c] # t /\ (c = t => phase'[t] # "closed")
  PROVE  Reattaching'
<1> SUFFICES ASSUME NEW c \in attach, Sole(c)'
             PROVE  phase'[opener[c]] = "closed" /\ phase'[c] # "closed"
  BY DEF Reattaching, SolesBefore, DelegationInv, TypeOK
<1>1. c \in Task /\ Sole(c) /\ c \notin crossed' BY DEF SolesBefore, DelegationInv, TypeOK
<1>2. opener[c] \in Task /\ opener[c] # t /\ Childless(c) BY <1>1 DEF Soles
<1>3. phase[opener[c]] = "closed" /\ phase[c] # "closed" BY <1>1 DEF Reattaching
<1>4. phase'[opener[c]] = "closed" BY <1>2, <1>3 DEF Leaves, Ends, Stays
<1>5. CASE c # t
  <2>1. c \notin Kin(t) BY <1>2, <1>5 DEF Kin, Children, Childless
  <2>2. ~(on = c /\ ~Works(c)) BY <1>1, <2>1 DEF Crosses, Left, Kept, Works
  <2> QED BY <1>1, <1>3, <1>4, <1>5, <2>2 DEF Leaves, Stays
<1> QED BY <1>1, <1>4, <1>5

LEMMA ReattachingRehydrate ==
  ASSUME DelegationInv, Soles, SolesBefore, Single, Answers, Reattaching,
         NEW t \in Task, Rebuilds(t), Returns(t) \/ Clears(t)
  PROVE  Reattaching'
<1>1. /\ cancel.task = t /\ Crosses(t) /\ attach' = attach
      /\ \A x \in Task \ {t} : Leaves(x)
  BY DEF Rebuilds, Returns, Clears
<1>2. ASSUME NEW c \in attach, Sole(c) PROVE opener[c] # t
  <2>1. c \in Task BY DEF DelegationInv, TypeOK
  <2> QED BY <1>1, <1>2, <2>1 DEF Answers, Soles, Single
<1>3. ASSUME NEW c \in attach, Sole(c), c = t PROVE phase'[t] # "closed"
  <2>1. phase[t] # "closed" BY <1>3 DEF Reattaching
  <2>2. CASE Returns(t) BY <2>2 DEF Returns, Arrives
  <2>3. CASE Clears(t) BY <1>3, <2>1, <2>3 DEF Clears, Leaves, Stays
  <2> QED BY <2>2, <2>3
<1> QED BY <1>1, <1>2, <1>3, ReattachingCrosses

LEMMA ReattachingReopens ==
  ASSUME DelegationInv, Soles, SolesBefore, Finishing, Reattaching, NEW c \in Task, Completes(c),
         ReopensOn(opener[c]) \/ Clears(opener[c])
  PROVE  Reattaching'
<1>1. /\ opener[c] \in Task /\ Crosses(opener[c])
      /\ attach' = attach /\ complete[c].step = "written"
      /\ \A x \in Task \ {opener[c]} : Leaves(x)
  BY DEF Completes, ReopensOn, Clears
<1>2. ASSUME NEW d \in attach, Sole(d) PROVE opener[d] # opener[c] /\ d # opener[c]
  <2>1. d \in Task BY DEF DelegationInv, TypeOK
  <2>2. Childless(d) /\ (opener[d] = opener[c] => c = d) BY <1>2, <2>1 DEF Soles
  <2> QED BY <1>1, <2>1, <2>2 DEF Finishing, Childless
<1> QED BY <1>1, <1>2, ReattachingCrosses

LEMMA WaitingOpenTask ==
  ASSUME DelegationInv, Known, Families, Soles, SolesBefore, Reachable, Apart, Waiting, Attended,
         Careful, NEW t \in Task, OpenTask(t)
  PROVE  Waiting'
<1>1. /\ Quiet /\ t \notin off /\ on # t
      /\ Arrives(t, IF awaitsLiveTask(t) THEN "view" ELSE "rest", item[t].status, item[t].parent)
      /\ \A x \in Task \ {t} : Leaves(x) /\ stamp'[x] = stamp[x]
      /\ UNCHANGED <<log, complete, cancel, opener>>
  BY OpenTaskFields
<1> SUFFICES ASSUME NEW c \in Task, Sole(c)', Awaited(c)'
    PROVE  (/\ item[opener[c]].status = "delegated"
            /\ \/ phase[opener[c]] = "closed"
               \/ phase[opener[c]] = "view" /\ stamp[opener[c]].status = "delegated"
            /\ cancel.task # opener[c] /\ complete[opener[c]].step = "no"
            /\ complete[c].step \in {"no", "read"} => log[opener[c]] = "frozen")'
  BY DEF Waiting
<1>2. /\ Sole(c) /\ opener'[c] = opener[c] /\ opener[c] \in Task
      /\ Clear(opener[c]) /\ c \notin crossed
  BY DEF SolesBefore, Soles, Sole
<1>3. Awaited(c)
  BY <1>1, <1>2 DEF Awaited, Arrives, Leaves, Ends, Stays, SavedAs
<1>4. /\ item[opener[c]].status = "delegated"
      /\ \/ phase[opener[c]] = "closed"
         \/ phase[opener[c]] = "view" /\ stamp[opener[c]].status = "delegated"
      /\ cancel.task # opener[c] /\ complete[opener[c]].step = "no"
      /\ complete[c].step \in {"no", "read"} => log[opener[c]] = "frozen"
  BY <1>2, <1>3 DEF Waiting
<1>5. CASE opener[c] = t
  <2>1. phase[c] # "closed" BY <1>1, <1>2, <1>3 DEF Attended, Quiet
  <2>2. c \in off \cup {on}
    BY <1>2, <2>1 DEF Reachable, Works, Working, DelegationInv, TypeOK, Phase
  <2>3. awaitsLiveTask(t)
    BY <1>3, <1>5, <2>2, DelegationAssumption DEF awaitsLiveTask, IsLive, Awaited
  <2>4. phase'[t] = "view" /\ stamp'[t].status = item[t].status /\ item'[t] = item[t]
    BY <1>1, <2>3 DEF Arrives
  <2> QED BY <1>1, <1>2, <1>4, <1>5, <2>4
<1>6. CASE opener[c] # t
  <2>1. Leaves(opener[c]) /\ stamp'[opener[c]] = stamp[opener[c]] BY <1>1, <1>2, <1>6
  <2>2. on = opener[c] => phase[opener[c]] # "closed" BY <1>2 DEF Apart
  <2>3. /\ item'[opener[c]].status = "delegated"
        /\ phase'[opener[c]] = "closed" \/ phase'[opener[c]] = phase[opener[c]]
    BY <1>4, <2>1, <2>2 DEF Leaves, Ends, Stays, SavedAs
  <2> QED BY <1>1, <1>2, <1>4, <2>1, <2>3
<1> QED BY <1>5, <1>6

(* The child that is opened was not there before; its parent, when nothing *)
(* crossed it, stands at its first call.                                   *)
LEMMA OpenChildFresh ==
  ASSUME DelegationInv, Families, Calls, Single, NEW p \in Task, NEW c \in Task, OpenChild(p, c)
  PROVE  /\ c # p /\ opener[c] = None /\ log[c] = "none" /\ on # c /\ c \notin off
         /\ c \notin attach \cup returned /\ repair[c] = "no" /\ complete[c].step = "no"
         /\ cancel.task # c /\ handing[c] = "no"
         /\ cancel.task \in Task => cancel.hist.awaiting # c
         /\ \A t \in Task : opener[t] # c /\ item[t].awaiting # c
         /\ p \notin crossed => Childless(p) /\ log[p] = "frozen" /\ phase[p] = "closed"
         /\ \A t \in Task \ {c} : opener'[t] = opener[t]
         /\ opener'[c] = p /\ crossed \subseteq crossed'
<1>1. handing[p] # "no" /\ ~Present(c) /\ Present(p) BY OpenChildFields
<1>2. opener[c] = None /\ log[c] = "none" BY <1>1 DEF Families
<1>3. /\ on # c /\ c \notin off /\ cancel.task # c /\ handing[c] = "no"
      /\ \A t \in Task : opener[t] # c
  BY <1>1 DEF DelegationInv, Known
<1>4. c \notin attach \cup returned /\ repair[c] = "no" /\ complete[c].step = "no"
  BY <1>2, DelegationAssumption DEF DelegationInv, Opened, Families
<1>5. /\ \A t \in Task : item[t].awaiting # c
      /\ cancel.task \in Task => cancel.hist.awaiting # c
  BY <1>2, DelegationAssumption DEF Families
<1>6. p \notin crossed => Childless(p) /\ log[p] = "frozen" /\ phase[p] = "closed"
  BY <1>1 DEF Single
<1>7. /\ \A t \in Task \ {c} : opener'[t] = opener[t]
      /\ opener'[c] = p /\ crossed \subseteq crossed'
  BY OpenChildFields DEF DelegationInv, TypeOK
<1> QED BY <1>1, <1>2, <1>3, <1>4, <1>5, <1>6, <1>7

(* Every other sole child keeps what it had.                               *)
LEMMA OpenChildSole ==
  ASSUME DelegationInv, Families, Calls, Single, NEW p \in Task, NEW c \in Task, OpenChild(p, c),
         NEW d \in Task, Sole(d)', d # c
  PROVE  /\ Sole(d) /\ opener'[d] = opener[d] /\ opener[d] \in Task
         /\ d # p /\ opener[d] # p /\ opener[d] # c
         /\ item'[d] = item[d] /\ item'[opener[d]] = item[opener[d]]
         /\ phase'[d] = phase[d] /\ phase'[opener[d]] = phase[opener[d]]
         /\ stamp'[opener[d]] = stamp[opener[d]]
<1>1. /\ opener'[d] = opener[d] /\ crossed \subseteq crossed' /\ opener[d] # c
  BY OpenChildFresh
<1>2. Sole(d) BY <1>1, OpenChildFields DEF Sole
<1>3. /\ opener[d] \in Task /\ handing[opener[d]] = "no" /\ handing[d] = "no"
  BY <1>2, SoleFacts DEF Soles
<1>4. d # p /\ opener[d] # p BY <1>3, OpenChildFields
<1>5. /\ item'[d] = item[d] /\ item'[opener[d]] = item[opener[d]]
      /\ phase'[d] = phase[d] /\ phase'[opener[d]] = phase[opener[d]]
      /\ stamp'[opener[d]] = stamp[opener[d]]
  BY <1>1, <1>3, <1>4, OpenChildFields DEF DelegationInv, TypeOK
<1> QED BY <1>1, <1>2, <1>3, <1>4, <1>5

LEMMA FamiliesOpenChild ==
  ASSUME DelegationInv, Families, Calls, Single, NEW p \in Task, NEW c \in Task, OpenChild(p, c)
  PROVE  Families'
<1>1. ASSUME NEW t \in Task, item'[t].awaiting # None PROVE opener'[item'[t].awaiting] = t
  <2>1. CASE t = c BY <1>1, <2>1, OpenChildFields
  <2>2. CASE t = p /\ item'[p] # item[p] BY <2>2, OpenChildFields, OpenChildFresh
  <2>3. CASE item'[t] = item[t]
    BY <1>1, <2>3, AwaitedTypes, OpenChildFresh DEF Families
  <2> QED BY <2>1, <2>2, <2>3, OpenChildFields
<1>2. ASSUME cancel'.task \in Task, cancel'.hist.awaiting # None
      PROVE  opener'[cancel'.hist.awaiting] = cancel'.task
  BY <1>2, AwaitedTypes, OpenChildFields, OpenChildFresh DEF Families
<1>3. ASSUME NEW t \in Task, ~Present(t)' PROVE opener'[t] = None /\ log'[t] = "none"
  <2>1. t # c
    BY <1>3 DEF OpenChild, DelegationInv, TypeOK, Present
  <2>2. t # p BY <1>3, OpenChildFields DEF Present
  <2>3. ~Present(t) BY <1>3, <2>1, <2>2, OpenChildFields DEF Present
  <2> QED BY <2>1, <2>3, OpenChildFields, OpenChildFresh DEF Families
<1>4. ASSUME NEW t \in returned' PROVE opener'[t] \in Task
  <2>1. t \in returned /\ t \in Task BY <1>4, OpenChildFields DEF DelegationInv, TypeOK
  <2>2. opener'[t] = opener[t] \/ t = c BY <2>1, OpenChildFresh
  <2> QED BY <2>1, <2>2, OpenChildFresh DEF Families
<1> QED BY <1>1, <1>2, <1>3, <1>4 DEF Families

LEMMA CallsOpenChild ==
  ASSUME DelegationInv, Families, Calls, Single, NEW p \in Task, NEW c \in Task, OpenChild(p, c)
  PROVE  Calls'
<1>1. \A t \in Task : opener'[t] \in Task \ crossed' => log'[opener'[t]] # "none"
  BY OpenChildFields, OpenChildFresh DEF Calls
<1>2. ASSUME NEW t \in Task, Works(t)' PROVE log'[t] # "frozen"
  <2>1. log' = log BY OpenChildFields
  <2>2. CASE t = c BY <2>1, <2>2, OpenChildFresh
  <2>3. CASE t # c
    <3>1. phase'[t] = phase[t] BY <2>3, OpenChildFields DEF DelegationInv, TypeOK
    <3>2. Works(t) BY <1>2, <3>1 DEF Works, Working
    <3> QED BY <2>1, <3>2 DEF Calls
  <2> QED BY <2>2, <2>3
<1>3. cancel'.step = "no" => cancel'.task = None BY OpenChildFields DEF Calls
<1> QED BY <1>1, <1>2, <1>3 DEF Calls

LEMMA KinshipOpenChild ==
  ASSUME DelegationInv, Families, Calls, Single, Kinship, NEW p \in Task, NEW c \in Task,
         OpenChild(p, c)
  PROVE  Kinship'
<1> SUFFICES ASSUME NEW d \in Task \ crossed', opener'[d] \in Task
             PROVE  /\ item'[d].parent = opener'[d] /\ Parent(d)' = opener'[d]
                    /\ cancel'.task = d => cancel'.hist.parent = opener'[d]
  BY DEF Kinship
<1>1. CASE d = c BY <1>1, OpenChildFields, OpenChildFresh DEF Parent
<1>2. CASE d # c
  <2>1. d \notin crossed /\ opener'[d] = opener[d] BY <1>2, OpenChildFresh
  <2>2. item'[d].parent = item[d].parent BY <1>2, OpenChildFields
  <2> QED BY <1>2, <2>1, <2>2, OpenChildFields DEF Kinship, Parent
<1> QED BY <1>1, <1>2

LEMMA SingleOpenChild ==
  ASSUME DelegationInv, Families, Calls, Single, NEW p \in Task, NEW c \in Task, OpenChild(p, c)
  PROVE  Single'
<1>1. ASSUME NEW t \in Task, t \notin crossed'
      PROVE  t \notin crossed /\ (Childless(t)' => Childless(t))
  BY <1>1, OpenChildFresh DEF Childless
<1>2. ASSUME NEW t \in Task \ crossed', handing'[t] # "no"
      PROVE  Childless(t)' /\ log'[t] = "frozen" /\ phase'[t] = "closed"
  <2>1. t # p /\ t # c /\ handing[t] # "no"
    BY <1>2, OpenChildFields, OpenChildFresh DEF DelegationInv, TypeOK
  <2>2. t \notin crossed /\ Childless(t) /\ log[t] = "frozen" /\ phase[t] = "closed"
    BY <1>1, <1>2, <2>1 DEF Single
  <2> QED BY <1>2, <2>1, <2>2, OpenChildFields, OpenChildFresh DEF Childless, DelegationInv, TypeOK
<1>3. ASSUME NEW a \in Task, NEW b \in Task, opener'[a] \in Task \ crossed', opener'[b] = opener'[a]
      PROVE  a = b
  <2>1. opener'[a] \notin crossed BY <1>3, OpenChildFresh
  <2>2. CASE opener'[a] = p
    <3>1. \A t \in Task : opener[t] # p BY <2>1, <2>2, OpenChildFresh DEF Childless
    <3> QED BY <1>3, <2>2, <3>1, OpenChildFresh
  <2>3. CASE opener'[a] # p
    BY <1>3, <2>1, <2>3, OpenChildFresh DEF Single
  <2> QED BY <2>2, <2>3
<1>4. cancel'.task \in Task /\ Childless(cancel.task)' => ~Works(cancel.task)'
  BY <1>1, OpenChildFields, OpenChildFresh DEF Single, Childless, Works, DelegationInv, TypeOK
<1>5. cancel'.task \in Task \ crossed' => log'[cancel'.task] # "frozen"
  BY OpenChildFields, OpenChildFresh DEF Single
<1>6. \A t \in Task \ crossed' : complete'[t].step # "no" => log'[t] # "frozen"
  BY OpenChildFields, OpenChildFresh DEF Single
<1>7. cancel' = cancel BY OpenChildFields
<1> QED BY <1>2, <1>3, <1>4, <1>5, <1>6, <1>7 DEF Single, Childless, Works

LEMMA AnswersOpenChild ==
  ASSUME DelegationInv, Families, Calls, Single, Answers, NEW p \in Task, NEW c \in Task,
         OpenChild(p, c)
  PROVE  Answers'
<1>1. attach' = attach /\ returned' = returned /\ log' = log BY OpenChildFields
<1>2. c \notin attach' /\ c \notin returned' BY <1>1, OpenChildFresh
<1>3. attach \subseteq Task /\ returned \subseteq Task BY DEF DelegationInv, TypeOK
<1> QED BY <1>1, <1>2, <1>3, OpenChildSole DEF Answers

LEMMA ApartOpenChild ==
  ASSUME DelegationInv, Families, Calls, Single, Reachable, Apart, NEW p \in Task, NEW c \in Task,
         OpenChild(p, c)
  PROVE  Apart'
<1> SUFFICES ASSUME NEW t \in Task, Clear(t)'
             PROVE  /\ t \in off' => Works(t)' /\ on' # t
                    /\ on' = t => phase'[t] # "closed"
                    /\ cancel'.task = t => ~Works(t)'
  BY DEF Apart
<1>0. cancel' = cancel /\ cancel.task # c BY OpenChildFields, OpenChildFresh
<1>1. CASE t = c
  <2>1. phase'[t] = "work" BY <1>1, OpenChildFields DEF DelegationInv, TypeOK
  <2>2. ~(t \in off' /\ on' = t) BY <1>1, OpenChildFields, OpenChildFresh
  <2> QED BY <1>0, <1>1, <2>1, <2>2 DEF Works, Working
<1>2. CASE t # c
  <2>1. ASSUME NEW d \in Children(t) PROVE Sole(d)
    <3>1. d \in Task /\ opener[d] = t BY DEF Children
    <3>2. d # c BY <3>1, OpenChildFresh, DelegationAssumption
    <3>3. opener'[d] = t BY <3>1, <3>2, OpenChildFresh
    <3>4. Sole(d)' BY <3>1, <3>3 DEF Clear, Children
    <3> QED BY <3>1, <3>2, <3>4, OpenChildSole
  <2>2. Clear(t) BY <2>1, OpenChildFresh DEF Clear
  <2>3. phase'[t] = phase[t] BY <1>2, OpenChildFields DEF DelegationInv, TypeOK
  <2>4. /\ t \in off' => t \in off
        /\ on' = t => on = t
    BY <1>2, OpenChildFields
  <2>5. t \in off' => on' # t BY <2>2, <2>4 DEF Apart
  <2> QED BY <1>0, <2>2, <2>3, <2>4, <2>5 DEF Apart, Works
<1> QED BY <1>1, <1>2

LEMMA EndingOpenChild ==
  ASSUME DelegationInv, Families, Calls, Single, Ending, NEW p \in Task, NEW c \in Task,
         OpenChild(p, c)
  PROVE  Ending'
<1>1. complete' = complete /\ cancel' = cancel BY OpenChildFields
<1>2. complete[c].step = "no" BY OpenChildFresh
<1> QED BY <1>1, <1>2, OpenChildSole DEF Ending

LEMMA UnstrayedOpenChild ==
  ASSUME DelegationInv, Families, Calls, Single, Unstrayed, NEW p \in Task, NEW c \in Task,
         OpenChild(p, c)
  PROVE  Unstrayed'
<1>1. stray' = stray /\ c \notin stray /\ stray \subseteq Task
  BY OpenChildFields, OpenChildFresh DEF DelegationInv, TypeOK
<1> QED BY <1>1, OpenChildSole DEF Unstrayed

LEMMA WaitingOpenChild ==
  ASSUME DelegationInv, Families, Calls, Single, Waiting, NEW p \in Task, NEW c \in Task,
         OpenChild(p, c)
  PROVE  Waiting'
<1>1. complete' = complete /\ cancel' = cancel /\ log' = log BY OpenChildFields
<1> SUFFICES ASSUME NEW d \in Task, Sole(d)', Awaited(d)'
    PROVE  (/\ item[opener[d]].status = "delegated"
            /\ \/ phase[opener[d]] = "closed"
               \/ phase[opener[d]] = "view" /\ stamp[opener[d]].status = "delegated"
            /\ cancel.task # opener[d] /\ complete[opener[d]].step = "no"
            /\ complete[d].step \in {"no", "read"} => log[opener[d]] = "frozen")'
  BY DEF Waiting
<1>2. CASE d = c
  <2>1. p \notin crossed /\ opener'[d] = p BY <1>2, OpenChildFresh DEF Sole
  <2>2. item[p].awaiting # c BY OpenChildFresh
  <2>3. item'[p].status = "delegated" BY <1>2, <2>1, <2>2, OpenChildFields DEF Awaited
  <2>4. log[p] = "frozen" /\ phase[p] = "closed" BY <2>1, OpenChildFresh
  <2>5. phase'[p] = "closed" BY <2>4, OpenChildFields, OpenChildFresh DEF DelegationInv, TypeOK
  <2>6. cancel.task # p /\ complete[p].step = "no" BY <2>1, <2>4 DEF Single
  <2> QED BY <1>1, <2>1, <2>3, <2>4, <2>5, <2>6
<1>3. CASE d # c
  <2>1. Awaited(d) BY <1>3, OpenChildSole DEF Awaited
  <2> QED BY <1>1, <1>3, <2>1, OpenChildSole DEF Waiting
<1> QED BY <1>2, <1>3

LEMMA FinishingOpenChild ==
  ASSUME DelegationInv, Families, Calls, Single, Finishing, NEW p \in Task, NEW c \in Task,
         OpenChild(p, c)
  PROVE  Finishing'
<1>1. /\ attach' = attach /\ complete' = complete /\ complete[c].step = "no" /\ c \notin attach
      /\ \A t \in Task \ {c} : phase'[t] = phase[t]
      /\ \A t \in Task : Childless(t)' => Childless(t)
  BY OpenChildFields, OpenChildFresh DEF Childless, DelegationInv, TypeOK
<1> QED BY <1>1 DEF Finishing, DelegationInv, TypeOK

LEMMA ReachableOpenChild ==
  ASSUME DelegationInv, Families, Calls, Single, Reachable, NEW p \in Task, NEW c \in Task,
         OpenChild(p, c)
  PROVE  Reachable'
<1>1. /\ phase'[c] = "work" /\ \A t \in Task \ {c} : phase'[t] = phase[t]
      /\ \A t \in Task \ (crossed' \cup {c}) :
           t \notin crossed /\ (on = t => on' = t) /\ (t \in off => t \in off')
      /\ c \in off' \cup {on'}
  BY OpenChildFields, OpenChildFresh DEF DelegationInv, TypeOK
<1> SUFFICES ASSUME NEW t \in Task \ crossed'
             PROVE  /\ Works(t)' => t \in off' \cup {on'}
                    /\ phase'[t] \in {"view", "rest", "aborted"} => on' = t
  BY DEF Reachable
<1>2. CASE t = c BY <1>1, <1>2
<1>3. CASE t # c
  <2>1. t \in Task \ crossed /\ phase'[t] = phase[t] BY <1>1, <1>3
  <2>2. (on = t => on' = t) /\ (t \in off => t \in off') BY <1>1, <1>3
  <2> QED BY <2>1, <2>2 DEF Reachable, Works
<1> QED BY <1>2, <1>3

LEMMA RememberedOpenChild ==
  ASSUME DelegationInv, Families, Calls, Single, Remembered, NEW p \in Task, NEW c \in Task,
         OpenChild(p, c)
  PROVE  Remembered'
<1> SUFFICES ASSUME NEW d \in Task, Sole(d)', cancel'.task = opener'[d], cancel'.hist.awaiting = d
             PROVE  item'[opener'[d]].awaiting = d
  BY DEF Remembered
<1>1. cancel' = cancel BY OpenChildFields
<1>2. d # c BY <1>1, OpenChildFresh
<1> QED BY <1>1, <1>2, OpenChildSole DEF Remembered

LEMMA ReattachingOpenChild ==
  ASSUME DelegationInv, Families, Calls, Single, Reattaching, NEW p \in Task, NEW c \in Task,
         OpenChild(p, c)
  PROVE  Reattaching'
<1>1. attach' = attach /\ c \notin attach /\ attach \subseteq Task
  BY OpenChildFields, OpenChildFresh DEF DelegationInv, TypeOK
<1> QED BY <1>1, OpenChildSole DEF Reattaching

LEMMA AttendedOpenChild ==
  ASSUME DelegationInv, Families, Calls, Single, Attended, NEW p \in Task, NEW c \in Task,
         OpenChild(p, c)
  PROVE  Attended'
<1> SUFFICES ASSUME NEW d \in Task, Sole(d)', Awaited(d)'
             PROVE  \/ phase'[d] # "closed" \/ repair'[d] # "no"
                    \/ complete'[d].step \notin {"no", "read"}
  BY DEF Attended
<1>1. CASE d = c
  <2>1. phase'[c] = "work" BY OpenChildFields DEF DelegationInv, TypeOK
  <2> QED BY <1>1, <2>1
<1>2. CASE d # c
  <2>1. Sole(d) /\ Awaited(d) /\ phase'[d] = phase[d] BY <1>2, OpenChildSole DEF Awaited
  <2> QED BY <2>1, OpenChildFields DEF Attended
<1> QED BY <1>1, <1>2

-----------------------------------------------------------------------------
(* Each part of the invariant is kept by each routine step.                *)

USE DEF TypeOK, Leaves, Ends, Stays, SavedAs, WrittenAs, Rests, Moves, Stops, Works, Working,
        Quiet, Parent, Arrives

(* Who awaits whom follows who opened whom.                                *)
LEMMA FamiliesKept ==
  ASSUME DelegationInv, TypeOK, Known, Families, Careful, NEW t \in Task, Routine(t)
  PROVE  Families'
<1>0. \A x \in Task : stamp[x].status # "absent"
  <2>1. \A x \in Task : stamp[x] \in Stamp OBVIOUS
  <2> QED BY <2>1 DEF Stamp
<1> USE <1>0 DEF Families, Present, Known
<1>1. CASE DisposeParent(t) BY <1>1, DisposeParentFields, SMTT(20)
<1>2. CASE ChildRefused(t) BY <1>2 DEF ChildRefused, live, others, ghosts
<1>3. CASE Turn(t) BY <1>3, TurnFields
<1>4. CASE Stall(t) BY <1>4, StallFields
<1>5. CASE Attempt(t) BY <1>5, AttemptFields
<1>6. CASE Reattach(t) BY <1>6, ReattachFields, SMTT(20)
<1>7. CASE SaveResult(t) BY <1>7, SaveResultFields
<1>8. CASE CloseViews(t) BY <1>8, CloseViewsFields
<1>9. CASE MarkChild(t) BY <1>9, MarkChildFields, SMTT(20)
<1>10. CASE MarkParent(t)
  <2>1. /\ UNCHANGED <<log, cancel, opener, returned>>
        /\ WrittenAs(opener[t], "active", None) \/ item' = item
    BY <1>10, MarkParentFields
  <2>2. CASE WrittenAs(opener[t], "active", None)
    <3>1. \A x \in Task : item'[x].awaiting \in {item[x].awaiting, None} BY <2>2
    <3>2. \A x \in Task : item[x].status # "absent" => item'[x].status # "absent" BY <2>2
    <3> QED BY <2>1, <3>1, <3>2
  <2>3. CASE item' = item BY <2>1, <2>3
  <2> QED BY <2>1, <2>2, <2>3
<1>11. CASE ReopenParent(t)
  <2>0. Completes(t) /\ ReopenEnds(opener[t]) BY <1>11, ReopenParentFields
  <2>1. CASE ReopensOn(opener[t]) BY <2>0, <2>1, SMTT(20) DEF Completes, ReopensOn
  <2>2. CASE ReopensOff(opener[t]) BY <2>0, <2>2 DEF Completes, ReopensOff
  <2>3. CASE StaysAway BY <2>0, <2>3 DEF Completes, StaysAway
  <2>4. CASE Clears(opener[t]) BY <2>0, <2>4 DEF Completes, Clears
  <2> QED BY <2>0, <2>1, <2>2, <2>3, <2>4 DEF ReopenEnds
<1>12. CASE ReadForDetach(t) BY <1>12, ReadForDetachFields
<1>13. CASE DetachParent(t) BY <1>13, DetachParentFields
<1>14. CASE AfterAbort(t) BY <1>14, AfterAbortFields
<1>15. CASE Rehydrate(t)
  <2>0. Rebuilds(t) /\ RebuildEnds(t) BY <1>15, RehydrateFields
  <2>1. CASE Returns(t) BY <2>0, <2>1 DEF Rebuilds, Returns
  <2>2. CASE StaysAway BY <2>0, <2>2 DEF Rebuilds, StaysAway
  <2>3. CASE Clears(t) BY <2>0, <2>3 DEF Rebuilds, Clears
  <2> QED BY <2>0, <2>1, <2>2, <2>3 DEF RebuildEnds
<1>16. CASE SaveOnOpen(t) BY <1>16, SaveOnOpenFields
<1>17. CASE Approve(t) BY <1>17, ApproveFields
<1>18. CASE Deny(t) BY <1>18 DEF Deny, ops, others, ghosts
<1>19. CASE Cancel(t) BY <1>19, CancelFields
<1>20. CASE ShowLive(t) BY <1>20, ShowLiveFields, SMTT(20)
<1>21. CASE OpenTask(t) BY <1>21, OpenTaskFields, SMTT(20)
<1>22. CASE Resume(t) BY <1>22, ResumeFields
<1>23. CASE CloseTask BY <1>23, CloseTaskFields
<1>24. CASE DetachFails(t) BY <1>24, DetachFailsFields
<1>25. CASE FailClosed(t) BY <1>25, FailClosedFields
<1> QED BY <1>1, <1>2, <1>3, <1>4, <1>5, <1>6, <1>7, <1>8, <1>9, <1>10, <1>11, <1>12, <1>13,
          <1>14, <1>15, <1>16, <1>17, <1>18, <1>19, <1>20, <1>21, <1>22, <1>23, <1>24,
          <1>25
      DEF Routine, Completing, User

(* A parent stands at a call, or has stood at one.                         *)
LEMMA CallsKept ==
  ASSUME DelegationInv, TypeOK, Families, Calls, Careful, NEW t \in Task, Routine(t)
  PROVE  Calls'
<1> USE DEF Families, Calls, Present, Crosses
<1>1. CASE DisposeParent(t) BY <1>1, DisposeParentFields
<1>2. CASE ChildRefused(t) BY <1>2 DEF ChildRefused, live, others, ghosts
<1>3. CASE Turn(t) BY <1>3, TurnFields
<1>4. CASE Stall(t) BY <1>4, StallFields
<1>5. CASE Attempt(t) BY <1>5, AttemptFields
<1>6. CASE Reattach(t) BY <1>6, ReattachFields
<1>7. CASE SaveResult(t) BY <1>7, SaveResultFields
<1>8. CASE CloseViews(t) BY <1>8, CloseViewsFields
<1>9. CASE MarkChild(t) BY <1>9, MarkChildFields
<1>10. CASE MarkParent(t) BY <1>10, MarkParentFields
<1>11. CASE ReopenParent(t)
  <2>0. Completes(t) /\ ReopenEnds(opener[t]) BY <1>11, ReopenParentFields
  <2>1. CASE ReopensOn(opener[t]) BY <2>0, <2>1 DEF Completes, ReopensOn
  <2>2. CASE ReopensOff(opener[t]) BY <2>0, <2>2 DEF Completes, ReopensOff
  <2>3. CASE StaysAway BY <2>0, <2>3 DEF Completes, StaysAway
  <2>4. CASE Clears(opener[t]) BY <2>0, <2>4 DEF Completes, Clears
  <2> QED BY <2>0, <2>1, <2>2, <2>3, <2>4 DEF ReopenEnds
<1>12. CASE ReadForDetach(t) BY <1>12, ReadForDetachFields
<1>13. CASE DetachParent(t) BY <1>13, DetachParentFields
<1>14. CASE AfterAbort(t) BY <1>14, AfterAbortFields
<1>15. CASE Rehydrate(t)
  <2>0. Rebuilds(t) /\ RebuildEnds(t) BY <1>15, RehydrateFields
  <2>1. CASE Returns(t) BY <2>0, <2>1 DEF Rebuilds, Returns
  <2>2. CASE StaysAway BY <2>0, <2>2 DEF Rebuilds, StaysAway
  <2>3. CASE Clears(t) BY <2>0, <2>3 DEF Rebuilds, Clears
  <2> QED BY <2>0, <2>1, <2>2, <2>3 DEF RebuildEnds
<1>16. CASE SaveOnOpen(t) BY <1>16, SaveOnOpenFields
<1>17. CASE Approve(t) BY <1>17, ApproveFields
<1>18. CASE Deny(t) BY <1>18 DEF Deny, ops, others, ghosts
<1>19. CASE Cancel(t) BY <1>19, CancelFields
<1>20. CASE ShowLive(t) BY <1>20, ShowLiveFields
<1>21. CASE OpenTask(t) BY <1>21, OpenTaskFields, SMTT(20)
<1>22. CASE Resume(t) BY <1>22, ResumeFields
<1>23. CASE CloseTask BY <1>23, CloseTaskFields, SMTT(20)
<1>24. CASE DetachFails(t) BY <1>24, DetachFailsFields
<1>25. CASE FailClosed(t) BY <1>25, FailClosedFields
<1> QED BY <1>1, <1>2, <1>3, <1>4, <1>5, <1>6, <1>7, <1>8, <1>9, <1>10, <1>11, <1>12, <1>13,
          <1>14, <1>15, <1>16, <1>17, <1>18, <1>19, <1>20, <1>21, <1>22, <1>23, <1>24,
          <1>25
      DEF Routine, Completing, User

(* The item, the instance and the cancel of a child name its parent.       *)
LEMMA KinshipKept ==
  ASSUME DelegationInv, TypeOK, Kinship, Careful, NEW t \in Task, Routine(t)
  PROVE  Kinship'
<1> USE DelegationAssumption DEF Kinship, Crosses
<1>1. CASE DisposeParent(t) BY <1>1, DisposeParentFields
<1>2. CASE ChildRefused(t) BY <1>2 DEF ChildRefused, live, others, ghosts
<1>3. CASE Turn(t) BY <1>3, TurnFields
<1>4. CASE Stall(t) BY <1>4, StallFields
<1>5. CASE Attempt(t) BY <1>5, AttemptFields
<1>6. CASE Reattach(t) BY <1>6, ReattachFields
<1>7. CASE SaveResult(t) BY <1>7, SaveResultFields
<1>8. CASE CloseViews(t) BY <1>8, CloseViewsFields
<1>9. CASE MarkChild(t) BY <1>9, MarkChildFields
<1>10. CASE MarkParent(t) BY <1>10, MarkParentFields
<1>11. CASE ReopenParent(t)
  <2>0. Completes(t) /\ ReopenEnds(opener[t]) BY <1>11, ReopenParentFields
  <2>1. CASE ReopensOn(opener[t]) BY <2>0, <2>1 DEF Completes, ReopensOn
  <2>2. CASE ReopensOff(opener[t]) BY <2>0, <2>2 DEF Completes, ReopensOff
  <2>3. CASE StaysAway BY <2>0, <2>3 DEF Completes, StaysAway
  <2>4. CASE Clears(opener[t]) BY <2>0, <2>4 DEF Completes, Clears
  <2> QED BY <2>0, <2>1, <2>2, <2>3, <2>4 DEF ReopenEnds
<1>12. CASE ReadForDetach(t) BY <1>12, ReadForDetachFields
<1>13. CASE DetachParent(t) BY <1>13, DetachParentFields
<1>14. CASE AfterAbort(t) BY <1>14, AfterAbortFields
<1>15. CASE Rehydrate(t)
  <2>0. Rebuilds(t) /\ RebuildEnds(t) BY <1>15, RehydrateFields
  <2>1. CASE Returns(t) BY <2>0, <2>1 DEF Rebuilds, Returns
  <2>2. CASE StaysAway BY <2>0, <2>2 DEF Rebuilds, StaysAway
  <2>3. CASE Clears(t) BY <2>0, <2>3 DEF Rebuilds, Clears
  <2> QED BY <2>0, <2>1, <2>2, <2>3 DEF RebuildEnds
<1>16. CASE SaveOnOpen(t) BY <1>16, SaveOnOpenFields
<1>17. CASE Approve(t) BY <1>17, ApproveFields
<1>18. CASE Deny(t) BY <1>18 DEF Deny, ops, others, ghosts
<1>19. CASE Cancel(t) BY <1>19, CancelFields
<1>20. CASE ShowLive(t) BY <1>20, ShowLiveFields
<1>21. CASE OpenTask(t) BY <1>21, OpenTaskFields
<1>22. CASE Resume(t) BY <1>22, ResumeFields
<1>23. CASE CloseTask BY <1>23, CloseTaskFields
<1>24. CASE DetachFails(t) BY <1>24, DetachFailsFields
<1>25. CASE FailClosed(t) BY <1>25, FailClosedFields
<1> QED BY <1>1, <1>2, <1>3, <1>4, <1>5, <1>6, <1>7, <1>8, <1>9, <1>10, <1>11, <1>12, <1>13,
          <1>14, <1>15, <1>16, <1>17, <1>18, <1>19, <1>20, <1>21, <1>22, <1>23, <1>24,
          <1>25
      DEF Routine, Completing, User

(* An uncrossed parent opens one child, while it is closed.                *)
LEMMA SingleKept ==
  ASSUME DelegationInv, TypeOK, Calls, Single, Finishing, Careful, NEW t \in Task, Routine(t)
  PROVE  Single'
<1> USE DEF Calls, Single, Finishing, Childless, Crosses
<1>1. CASE DisposeParent(t) BY <1>1, DisposeParentFields
<1>2. CASE ChildRefused(t) BY <1>2 DEF ChildRefused, live, others, ghosts
<1>3. CASE Turn(t) BY <1>3, TurnFields
<1>4. CASE Stall(t) BY <1>4, StallFields
<1>5. CASE Attempt(t) BY <1>5, AttemptFields
<1>6. CASE Reattach(t) BY <1>6, ReattachFields
<1>7. CASE SaveResult(t) BY <1>7, SaveResultFields
<1>8. CASE CloseViews(t) BY <1>8, CloseViewsFields
<1>9. CASE MarkChild(t) BY <1>9, MarkChildFields, SMTT(20)
<1>10. CASE MarkParent(t) BY <1>10, MarkParentFields
<1>11. CASE ReopenParent(t)
  <2>0. Completes(t) /\ ReopenEnds(opener[t]) BY <1>11, ReopenParentFields
  <2>1. CASE ReopensOn(opener[t]) BY <2>0, <2>1 DEF Completes, ReopensOn
  <2>2. CASE ReopensOff(opener[t]) BY <2>0, <2>2 DEF Completes, ReopensOff
  <2>3. CASE StaysAway BY <2>0, <2>3 DEF Completes, StaysAway
  <2>4. CASE Clears(opener[t]) BY <2>0, <2>4 DEF Completes, Clears
  <2> QED BY <2>0, <2>1, <2>2, <2>3, <2>4 DEF ReopenEnds
<1>12. CASE ReadForDetach(t) BY <1>12, ReadForDetachFields
<1>13. CASE DetachParent(t) BY <1>13, DetachParentFields
<1>14. CASE AfterAbort(t) BY <1>14, AfterAbortFields
<1>15. CASE Rehydrate(t)
  <2>0. Rebuilds(t) /\ RebuildEnds(t) BY <1>15, RehydrateFields
  <2>1. CASE Returns(t) BY <2>0, <2>1 DEF Rebuilds, Returns
  <2>2. CASE StaysAway BY <2>0, <2>2 DEF Rebuilds, StaysAway
  <2>3. CASE Clears(t) BY <2>0, <2>3 DEF Rebuilds, Clears
  <2> QED BY <2>0, <2>1, <2>2, <2>3 DEF RebuildEnds
<1>16. CASE SaveOnOpen(t) BY <1>16, SaveOnOpenFields
<1>17. CASE Approve(t) BY <1>17, ApproveFields
<1>18. CASE Deny(t) BY <1>18 DEF Deny, ops, others, ghosts
<1>19. CASE Cancel(t) BY <1>19, CancelFields
<1>20. CASE ShowLive(t) BY <1>20, ShowLiveFields
<1>21. CASE OpenTask(t) BY <1>21, OpenTaskFields
<1>22. CASE Resume(t) BY <1>22, SingleResume
<1>23. CASE CloseTask BY <1>23, CloseTaskFields
<1>24. CASE DetachFails(t) BY <1>24, DetachFailsFields
<1>25. CASE FailClosed(t) BY <1>25, FailClosedFields
<1> QED BY <1>1, <1>2, <1>3, <1>4, <1>5, <1>6, <1>7, <1>8, <1>9, <1>10, <1>11, <1>12, <1>13,
          <1>14, <1>15, <1>16, <1>17, <1>18, <1>19, <1>20, <1>21, <1>22, <1>23, <1>24,
          <1>25
      DEF Routine, Completing, User

(* A childless task ends once at a time.                                   *)
LEMMA FinishingKept ==
  ASSUME DelegationInv, TypeOK, Opened, SolesBefore, Single, Finishing, Careful, NEW t \in Task,
         Routine(t)
  PROVE  Finishing'
<1> USE DEF Finishing, SolesBefore, Opened
<1>1. CASE DisposeParent(t) BY <1>1, DisposeParentFields
<1>2. CASE ChildRefused(t) BY <1>2 DEF ChildRefused, live, others, ghosts
<1>3. CASE Turn(t) BY <1>3, TurnFields
<1>4. CASE Stall(t) BY <1>4, StallFields
<1>5. CASE Attempt(t) BY <1>5, AttemptFields
<1>6. CASE Reattach(t) BY <1>6, ReattachFields
<1>7. CASE SaveResult(t)
  <2>1. \A x \in Task : phase'[x] \in {phase[x], "closed", "rest"} BY <1>7, SaveResultFields
  <2>2. /\ attach' = attach /\ attach \subseteq Task
        /\ \A x \in Task : complete'[x].step # "no" => complete[x].step # "no"
    BY <1>7, SaveResultFields
  <2> QED BY <2>1, <2>2
<1>8. CASE CloseViews(t) BY <1>8, CloseViewsFields
<1>9. CASE MarkChild(t) BY <1>9, MarkChildFields
<1>10. CASE MarkParent(t) BY <1>10, MarkParentFields
<1>11. CASE ReopenParent(t)
  <2>0. Completes(t) /\ ReopenEnds(opener[t]) BY <1>11, ReopenParentFields
  <2>1. CASE ReopensOn(opener[t]) BY <2>0, <2>1, SMTT(20) DEF Completes, ReopensOn, Childless
  <2>2. CASE ReopensOff(opener[t]) BY <2>0, <2>2, SMTT(20) DEF Completes, ReopensOff, Childless
  <2>3. CASE StaysAway BY <2>0, <2>3 DEF Completes, StaysAway
  <2>4. CASE Clears(opener[t]) BY <2>0, <2>4 DEF Completes, Clears
  <2> QED BY <2>0, <2>1, <2>2, <2>3, <2>4 DEF ReopenEnds
<1>12. CASE ReadForDetach(t) BY <1>12, ReadForDetachFields
<1>13. CASE DetachParent(t) BY <1>13, DetachParentFields
<1>14. CASE AfterAbort(t) BY <1>14, AfterAbortFields
<1>15. CASE Rehydrate(t)
  <2>0. Rebuilds(t) /\ RebuildEnds(t) BY <1>15, RehydrateFields
  <2>1. CASE Returns(t)
    <3>1. \A x \in Task : phase'[x] \in {phase[x], "closed", "rest"} BY <2>1 DEF Returns
    <3>2. attach' = attach /\ attach \subseteq Task /\ complete' = complete
      BY <2>0 DEF Rebuilds
    <3> QED BY <3>1, <3>2
  <2>2. CASE StaysAway BY <2>0, <2>2, SMTT(20) DEF Rebuilds, StaysAway
  <2>3. CASE Clears(t) BY <2>0, <2>3, SMTT(20) DEF Rebuilds, Clears
  <2> QED BY <2>0, <2>1, <2>2, <2>3 DEF RebuildEnds
<1>16. CASE SaveOnOpen(t) BY <1>16, SaveOnOpenFields
<1>17. CASE Approve(t) BY <1>17, ApproveFields
<1>18. CASE Deny(t) BY <1>18 DEF Deny, ops, others, ghosts
<1>19. CASE Cancel(t) BY <1>19, CancelFields
<1>20. CASE ShowLive(t) BY <1>20, ShowLiveFields
<1>21. CASE OpenTask(t) BY <1>21, OpenTaskFields
<1>22. CASE Resume(t) BY <1>22, ResumeFields DEF Single
<1>23. CASE CloseTask BY <1>23, CloseTaskFields
<1>24. CASE DetachFails(t) BY <1>24, DetachFailsFields
<1>25. CASE FailClosed(t) BY <1>25, FailClosedFields
<1> QED BY <1>1, <1>2, <1>3, <1>4, <1>5, <1>6, <1>7, <1>8, <1>9, <1>10, <1>11, <1>12, <1>13,
          <1>14, <1>15, <1>16, <1>17, <1>18, <1>19, <1>20, <1>21, <1>22, <1>23, <1>24,
          <1>25
      DEF Routine, Completing, User

(* What runs stays in the slot or detached.                                *)
LEMMA ReachableKept ==
  ASSUME DelegationInv, TypeOK, Reachable, Careful, NEW t \in Task, Routine(t)
  PROVE  Reachable'
<1> USE DEF Reachable, Kept, Left, Crosses, Kin, Children
<1>1. CASE DisposeParent(t) BY <1>1, DisposeParentFields
<1>2. CASE ChildRefused(t) BY <1>2 DEF ChildRefused, live, others, ghosts
<1>3. CASE Turn(t) BY <1>3, TurnFields
<1>4. CASE Stall(t) BY <1>4, StallFields
<1>5. CASE Attempt(t) BY <1>5, AttemptFields
<1>6. CASE Reattach(t) BY <1>6, ReattachFields
<1>7. CASE SaveResult(t) BY <1>7, SaveResultFields
<1>8. CASE CloseViews(t) BY <1>8, CloseViewsFields
<1>9. CASE MarkChild(t) BY <1>9, MarkChildFields
<1>10. CASE MarkParent(t) BY <1>10, MarkParentFields
<1>11. CASE ReopenParent(t)
  <2>0. Completes(t) /\ ReopenEnds(opener[t]) BY <1>11, ReopenParentFields
  <2>1. CASE ReopensOn(opener[t]) BY <2>0, <2>1 DEF Completes, ReopensOn
  <2>2. CASE ReopensOff(opener[t]) BY <2>0, <2>2 DEF Completes, ReopensOff
  <2>3. CASE StaysAway BY <2>0, <2>3 DEF Completes, StaysAway
  <2>4. CASE Clears(opener[t]) BY <2>0, <2>4 DEF Completes, Clears
  <2> QED BY <2>0, <2>1, <2>2, <2>3, <2>4 DEF ReopenEnds
<1>12. CASE ReadForDetach(t) BY <1>12, ReadForDetachFields
<1>13. CASE DetachParent(t) BY <1>13, DetachParentFields
<1>14. CASE AfterAbort(t) BY <1>14, AfterAbortFields
<1>15. CASE Rehydrate(t)
  <2>0. Rebuilds(t) /\ RebuildEnds(t) BY <1>15, RehydrateFields
  <2>1. CASE Returns(t) BY <2>0, <2>1 DEF Rebuilds, Returns
  <2>2. CASE StaysAway BY <2>0, <2>2 DEF Rebuilds, StaysAway
  <2>3. CASE Clears(t) BY <2>0, <2>3 DEF Rebuilds, Clears
  <2> QED BY <2>0, <2>1, <2>2, <2>3 DEF RebuildEnds
<1>16. CASE SaveOnOpen(t) BY <1>16, SaveOnOpenFields
<1>17. CASE Approve(t) BY <1>17, ApproveFields
<1>18. CASE Deny(t) BY <1>18 DEF Deny, ops, others, ghosts
<1>19. CASE Cancel(t) BY <1>19, CancelFields
<1>20. CASE ShowLive(t) BY <1>20, ShowLiveFields
<1>21. CASE OpenTask(t) BY <1>21, OpenTaskFields
<1>22. CASE Resume(t) BY <1>22, ResumeFields
<1>23. CASE CloseTask BY <1>23, CloseTaskFields
<1>24. CASE DetachFails(t) BY <1>24, DetachFailsFields
<1>25. CASE FailClosed(t) BY <1>25, FailClosedFields
<1> QED BY <1>1, <1>2, <1>3, <1>4, <1>5, <1>6, <1>7, <1>8, <1>9, <1>10, <1>11, <1>12, <1>13,
          <1>14, <1>15, <1>16, <1>17, <1>18, <1>19, <1>20, <1>21, <1>22, <1>23, <1>24,
          <1>25
      DEF Routine, Completing, User

(* A call stays open while its child is re-attached, and is answered once. *)
LEMMA AnswersKept ==
  ASSUME DelegationInv, TypeOK, Opened, Soles, SolesBefore, Families, Calls, Single, Finishing,
         Answers, Careful, NEW t \in Task, Routine(t)
  PROVE  Answers'
<1> USE DEF Answers, Soles, Childless, Calls, Families, Single, Opened, Present, SolesBefore,
          Finishing
<1>1. CASE DisposeParent(t) BY <1>1, DisposeParentFields
<1>2. CASE ChildRefused(t) BY <1>2 DEF ChildRefused, live, others, ghosts
<1>3. CASE Turn(t) BY <1>3, TurnFields
<1>4. CASE Stall(t) BY <1>4, StallFields
<1>5. CASE Attempt(t) BY <1>5, AttemptFields
<1>6. CASE Reattach(t) BY <1>6, ReattachFields
<1>7. CASE SaveResult(t) BY <1>7, SaveResultFields, SMTT(20)
<1>8. CASE CloseViews(t) BY <1>8, CloseViewsFields
<1>9. CASE MarkChild(t) BY <1>9, MarkChildFields
<1>10. CASE MarkParent(t) BY <1>10, MarkParentFields
<1>11. CASE ReopenParent(t)
  <2>0. Completes(t) /\ ReopenEnds(opener[t]) BY <1>11, ReopenParentFields
  <2>1. CASE ReopensOn(opener[t]) BY <2>0, <2>1 DEF Completes, ReopensOn
  <2>2. CASE ReopensOff(opener[t]) BY <2>0, <2>2 DEF Completes, ReopensOff
  <2>3. CASE StaysAway BY <2>0, <2>3 DEF Completes, StaysAway
  <2>4. CASE Clears(opener[t]) BY <2>0, <2>4 DEF Completes, Clears
  <2> QED BY <2>0, <2>1, <2>2, <2>3, <2>4 DEF ReopenEnds
<1>12. CASE ReadForDetach(t) BY <1>12, ReadForDetachFields
<1>13. CASE DetachParent(t) BY <1>13, DetachParentFields
<1>14. CASE AfterAbort(t) BY <1>14, AfterAbortFields
<1>15. CASE Rehydrate(t)
  <2>0. Rebuilds(t) /\ RebuildEnds(t) BY <1>15, RehydrateFields
  <2>1. CASE Returns(t) BY <2>0, <2>1 DEF Rebuilds, Returns
  <2>2. CASE StaysAway BY <2>0, <2>2 DEF Rebuilds, StaysAway
  <2>3. CASE Clears(t) BY <2>0, <2>3 DEF Rebuilds, Clears
  <2> QED BY <2>0, <2>1, <2>2, <2>3 DEF RebuildEnds
<1>16. CASE SaveOnOpen(t) BY <1>16, SaveOnOpenFields
<1>17. CASE Approve(t) BY <1>17, ApproveFields
<1>18. CASE Deny(t) BY <1>18 DEF Deny, ops, others, ghosts
<1>19. CASE Cancel(t) BY <1>19, CancelFields
<1>20. CASE ShowLive(t) BY <1>20, ShowLiveFields
<1>21. CASE OpenTask(t) BY <1>21, OpenTaskFields
<1>22. CASE Resume(t) BY <1>22, ResumeFields
<1>23. CASE CloseTask BY <1>23, CloseTaskFields
<1>24. CASE DetachFails(t) BY <1>24, DetachFailsFields
<1>25. CASE FailClosed(t) BY <1>25, FailClosedFields
<1> QED BY <1>1, <1>2, <1>3, <1>4, <1>5, <1>6, <1>7, <1>8, <1>9, <1>10, <1>11, <1>12, <1>13,
          <1>14, <1>15, <1>16, <1>17, <1>18, <1>19, <1>20, <1>21, <1>22, <1>23, <1>24,
          <1>25
      DEF Routine, Completing, User

(* Slot and detached tasks stay apart.                                     *)
LEMMA ApartKept ==
  ASSUME DelegationInv, TypeOK, Soles, SolesBefore, Families, Single, Reachable, Apart, Ending,
         Calls, Careful, NEW t \in Task, Routine(t)
  PROVE  Apart'
<1> USE DEF Apart, Soles, Children, Childless, Reachable, Single, Families, Kept, Crosses, Left,
          Kin, SolesBefore, Ending
<1>1. CASE DisposeParent(t) BY <1>1, DisposeParentFields
<1>2. CASE ChildRefused(t) BY <1>2 DEF ChildRefused, live, others, ghosts
<1>3. CASE Turn(t) BY <1>3, TurnFields
<1>4. CASE Stall(t) BY <1>4, StallFields
<1>5. CASE Attempt(t) BY <1>5, AttemptFields
<1>6. CASE Reattach(t) BY <1>6, ReattachFields
<1>7. CASE SaveResult(t) BY <1>7, SaveResultFields
<1>8. CASE CloseViews(t) BY <1>8, ApartCloseViews
<1>9. CASE MarkChild(t) BY <1>9, MarkChildFields
<1>10. CASE MarkParent(t) BY <1>10, MarkParentFields
<1>11. CASE ReopenParent(t)
  <2>0. Completes(t) /\ ReopenEnds(opener[t]) BY <1>11, ReopenParentFields
  <2>1. CASE ReopensOn(opener[t]) BY <2>0, <2>1, ApartReopens
  <2>2. CASE ReopensOff(opener[t]) BY <2>0, <2>2, ApartReopens
  <2>3. CASE StaysAway BY <2>0, <2>3 DEF Completes, StaysAway
  <2>4. CASE Clears(opener[t]) BY <2>0, <2>4 DEF Completes, Clears
  <2> QED BY <2>0, <2>1, <2>2, <2>3, <2>4 DEF ReopenEnds
<1>12. CASE ReadForDetach(t) BY <1>12, ReadForDetachFields
<1>13. CASE DetachParent(t) BY <1>13, DetachParentFields
<1>14. CASE AfterAbort(t) BY <1>14, AfterAbortFields
<1>15. CASE Rehydrate(t)
  <2>0. Rebuilds(t) /\ RebuildEnds(t) BY <1>15, RehydrateFields
  <2>1. CASE Returns(t) BY <2>0, <2>1 DEF Rebuilds, Returns, Phase
  <2>2. CASE StaysAway BY <2>0, <2>2 DEF Rebuilds, StaysAway, Phase
  <2>3. CASE Clears(t) BY <2>0, <2>3 DEF Rebuilds, Clears, Phase
  <2> QED BY <2>0, <2>1, <2>2, <2>3 DEF RebuildEnds
<1>16. CASE SaveOnOpen(t) BY <1>16, SaveOnOpenFields
<1>17. CASE Approve(t) BY <1>17, ApproveFields
<1>18. CASE Deny(t) BY <1>18 DEF Deny, ops, others, ghosts
<1>19. CASE Cancel(t) BY <1>19, CancelFields
<1>20. CASE ShowLive(t) BY <1>20, ShowLiveFields
<1>21. CASE OpenTask(t) BY <1>21, OpenTaskFields
<1>22. CASE Resume(t) BY <1>22, ApartResume
<1>23. CASE CloseTask BY <1>23, CloseTaskFields
<1>24. CASE DetachFails(t) BY <1>24, DetachFailsFields
<1>25. CASE FailClosed(t) BY <1>25, FailClosedFields
<1> QED BY <1>1, <1>2, <1>3, <1>4, <1>5, <1>6, <1>7, <1>8, <1>9, <1>10, <1>11, <1>12, <1>13,
          <1>14, <1>15, <1>16, <1>17, <1>18, <1>19, <1>20, <1>21, <1>22, <1>23, <1>24,
          <1>25
      DEF Routine, Completing, User

(* A cancel remembers no child that the item does not name.                *)
LEMMA RememberedKept ==
  ASSUME DelegationInv, TypeOK, Soles, SolesBefore, Families, Calls, Single, Remembered, Ending,
         Waiting, Careful, NEW t \in Task, Routine(t)
  PROVE  Remembered'
<1> USE DEF Remembered, Soles, Childless, Families, Single, Calls, Present, Crosses, SolesBefore,
          Ending, Waiting, Awaited
<1>1. CASE DisposeParent(t) BY <1>1, DisposeParentFields
<1>2. CASE ChildRefused(t) BY <1>2 DEF ChildRefused, live, others, ghosts
<1>3. CASE Turn(t) BY <1>3, TurnFields
<1>4. CASE Stall(t) BY <1>4, StallFields
<1>5. CASE Attempt(t) BY <1>5, AttemptFields
<1>6. CASE Reattach(t) BY <1>6, ReattachFields
<1>7. CASE SaveResult(t) BY <1>7, SaveResultFields
<1>8. CASE CloseViews(t) BY <1>8, CloseViewsFields
<1>9. CASE MarkChild(t) BY <1>9, MarkChildFields, SMTT(20)
<1>10. CASE MarkParent(t) BY <1>10, MarkParentFields
<1>11. CASE ReopenParent(t)
  <2>0. Completes(t) /\ ReopenEnds(opener[t]) BY <1>11, ReopenParentFields
  <2>1. CASE ReopensOn(opener[t]) BY <2>0, <2>1 DEF Completes, ReopensOn
  <2>2. CASE ReopensOff(opener[t]) BY <2>0, <2>2 DEF Completes, ReopensOff
  <2>3. CASE StaysAway BY <2>0, <2>3 DEF Completes, StaysAway
  <2>4. CASE Clears(opener[t]) BY <2>0, <2>4 DEF Completes, Clears
  <2> QED BY <2>0, <2>1, <2>2, <2>3, <2>4 DEF ReopenEnds
<1>12. CASE ReadForDetach(t) BY <1>12, ReadForDetachFields
<1>13. CASE DetachParent(t) BY <1>13, DetachParentFields
<1>14. CASE AfterAbort(t) BY <1>14, AfterAbortFields
<1>15. CASE Rehydrate(t)
  <2>0. Rebuilds(t) /\ RebuildEnds(t) BY <1>15, RehydrateFields
  <2>1. CASE Returns(t) BY <2>0, <2>1 DEF Rebuilds, Returns
  <2>2. CASE StaysAway BY <2>0, <2>2 DEF Rebuilds, StaysAway
  <2>3. CASE Clears(t) BY <2>0, <2>3 DEF Rebuilds, Clears
  <2> QED BY <2>0, <2>1, <2>2, <2>3 DEF RebuildEnds
<1>16. CASE SaveOnOpen(t) BY <1>16, SaveOnOpenFields
<1>17. CASE Approve(t) BY <1>17, ApproveFields
<1>18. CASE Deny(t) BY <1>18 DEF Deny, ops, others, ghosts
<1>19. CASE Cancel(t) BY <1>19, CancelFields
<1>20. CASE ShowLive(t) BY <1>20, ShowLiveFields
<1>21. CASE OpenTask(t) BY <1>21, OpenTaskFields
<1>22. CASE Resume(t) BY <1>22, ResumeFields
<1>23. CASE CloseTask BY <1>23, CloseTaskFields
<1>24. CASE DetachFails(t) BY <1>24, DetachFailsFields
<1>25. CASE FailClosed(t) BY <1>25, FailClosedFields
<1> QED BY <1>1, <1>2, <1>3, <1>4, <1>5, <1>6, <1>7, <1>8, <1>9, <1>10, <1>11, <1>12, <1>13,
          <1>14, <1>15, <1>16, <1>17, <1>18, <1>19, <1>20, <1>21, <1>22, <1>23, <1>24,
          <1>25
      DEF Routine, Completing, User

(* A parent stays closed while its child is re-attached.                   *)
LEMMA ReattachingKept ==
  ASSUME DelegationInv, TypeOK, Soles, SolesBefore, Families, Calls, Single, Finishing,
         Reachable, Answers, Reattaching, Careful, NEW t \in Task, Routine(t)
  PROVE  Reattaching'
<1> USE DEF Reattaching, Soles, Childless, Reachable, Single, Families, Finishing, Calls,
          Answers, Crosses, Left, Kin, Children, SolesBefore
<1>1. CASE DisposeParent(t) BY <1>1, DisposeParentFields
<1>2. CASE ChildRefused(t) BY <1>2 DEF ChildRefused, live, others, ghosts
<1>3. CASE Turn(t) BY <1>3, TurnFields
<1>4. CASE Stall(t) BY <1>4, StallFields
<1>5. CASE Attempt(t) BY <1>5, AttemptFields DEF Phase
<1>6. CASE Reattach(t) BY <1>6, ReattachFields
<1>7. CASE SaveResult(t) BY <1>7, SaveResultFields
<1>8. CASE CloseViews(t) BY <1>8, CloseViewsFields
<1>9. CASE MarkChild(t) BY <1>9, MarkChildFields
<1>10. CASE MarkParent(t) BY <1>10, MarkParentFields
<1>11. CASE ReopenParent(t)
  <2>0. Completes(t) /\ ReopenEnds(opener[t]) BY <1>11, ReopenParentFields
  <2>1. CASE ReopensOn(opener[t]) BY <2>0, <2>1, ReattachingReopens
  <2>2. CASE ReopensOff(opener[t]) BY <2>0, <2>2 DEF Completes, ReopensOff
  <2>3. CASE StaysAway BY <2>0, <2>3 DEF Completes, StaysAway
  <2>4. CASE Clears(opener[t]) BY <2>0, <2>4, ReattachingReopens
  <2> QED BY <2>0, <2>1, <2>2, <2>3, <2>4 DEF ReopenEnds
<1>12. CASE ReadForDetach(t) BY <1>12, ReadForDetachFields
<1>13. CASE DetachParent(t) BY <1>13, DetachParentFields
<1>14. CASE AfterAbort(t) BY <1>14, AfterAbortFields
<1>15. CASE Rehydrate(t)
  <2>0. Rebuilds(t) /\ RebuildEnds(t) BY <1>15, RehydrateFields
  <2>1. CASE StaysAway BY <2>0, <2>1 DEF Rebuilds, StaysAway
  <2>2. CASE Returns(t) \/ Clears(t) BY <2>0, <2>2, ReattachingRehydrate
  <2> QED BY <2>0, <2>1, <2>2 DEF RebuildEnds
<1>16. CASE SaveOnOpen(t) BY <1>16, SaveOnOpenFields
<1>17. CASE Approve(t) BY <1>17, ApproveFields
<1>18. CASE Deny(t) BY <1>18 DEF Deny, ops, others, ghosts
<1>19. CASE Cancel(t) BY <1>19, CancelFields
<1>20. CASE ShowLive(t) BY <1>20, ShowLiveFields
<1>21. CASE OpenTask(t) BY <1>21, OpenTaskFields
<1>22. CASE Resume(t) BY <1>22, ResumeFields
<1>23. CASE CloseTask BY <1>23, CloseTaskFields, SMTT(20)
<1>24. CASE DetachFails(t) BY <1>24, DetachFailsFields
<1>25. CASE FailClosed(t) BY <1>25, FailClosedFields
<1> QED BY <1>1, <1>2, <1>3, <1>4, <1>5, <1>6, <1>7, <1>8, <1>9, <1>10, <1>11, <1>12, <1>13,
          <1>14, <1>15, <1>16, <1>17, <1>18, <1>19, <1>20, <1>21, <1>22, <1>23, <1>24,
          <1>25
      DEF Routine, Completing, User

(* A parent stays closed, or a view, until its child has ended.            *)
LEMMA EndingKept ==
  ASSUME DelegationInv, TypeOK, Soles, SolesBefore, Families, Single, Finishing, Reachable,
         Ending, Waiting, Careful, NEW t \in Task, Routine(t)
  PROVE  Ending'
<1> USE DEF Ending, Soles, Childless, Single, Finishing, Families, Waiting, Awaited, Crosses,
          Left, SolesBefore
<1>1. CASE DisposeParent(t) BY <1>1, DisposeParentFields
<1>2. CASE ChildRefused(t) BY <1>2 DEF ChildRefused, live, others, ghosts
<1>3. CASE Turn(t) BY <1>3, TurnFields
<1>4. CASE Stall(t) BY <1>4, StallFields
<1>5. CASE Attempt(t) BY <1>5, AttemptFields
<1>6. CASE Reattach(t) BY <1>6, ReattachFields
<1>7. CASE SaveResult(t) BY <1>7, SaveResultFields
<1>8. CASE CloseViews(t) BY <1>8, CloseViewsFields DEF Reachable
<1>9. CASE MarkChild(t) BY <1>9, MarkChildFields
<1>10. CASE MarkParent(t) BY <1>10, MarkParentFields
<1>11. CASE ReopenParent(t)
  <2>0. Completes(t) /\ ReopenEnds(opener[t]) BY <1>11, ReopenParentFields
  <2>1. CASE ReopensOn(opener[t]) BY <2>0, <2>1 DEF Completes, ReopensOn
  <2>2. CASE ReopensOff(opener[t]) BY <2>0, <2>2 DEF Completes, ReopensOff
  <2>3. CASE StaysAway BY <2>0, <2>3 DEF Completes, StaysAway
  <2>4. CASE Clears(opener[t]) BY <2>0, <2>4 DEF Completes, Clears
  <2> QED BY <2>0, <2>1, <2>2, <2>3, <2>4 DEF ReopenEnds
<1>12. CASE ReadForDetach(t) BY <1>12, ReadForDetachFields
<1>13. CASE DetachParent(t) BY <1>13, DetachParentFields
<1>14. CASE AfterAbort(t) BY <1>14, AfterAbortFields
<1>15. CASE Rehydrate(t)
  <2>0. Rebuilds(t) /\ RebuildEnds(t) BY <1>15, RehydrateFields
  <2>1. CASE Returns(t) BY <2>0, <2>1 DEF Rebuilds, Returns
  <2>2. CASE StaysAway BY <2>0, <2>2 DEF Rebuilds, StaysAway
  <2>3. CASE Clears(t) BY <2>0, <2>3 DEF Rebuilds, Clears
  <2> QED BY <2>0, <2>1, <2>2, <2>3 DEF RebuildEnds
<1>16. CASE SaveOnOpen(t) BY <1>16, SaveOnOpenFields
<1>17. CASE Approve(t) BY <1>17, ApproveFields
<1>18. CASE Deny(t) BY <1>18 DEF Deny, ops, others, ghosts
<1>19. CASE Cancel(t) BY <1>19, CancelFields
<1>20. CASE ShowLive(t) BY <1>20, ShowLiveFields
<1>21. CASE OpenTask(t) BY <1>21, OpenTaskFields
<1>22. CASE Resume(t) BY <1>22, ResumeFields
<1>23. CASE CloseTask BY <1>23, CloseTaskFields
<1>24. CASE DetachFails(t) BY <1>24, DetachFailsFields
<1>25. CASE FailClosed(t) BY <1>25, FailClosedFields
<1> QED BY <1>1, <1>2, <1>3, <1>4, <1>5, <1>6, <1>7, <1>8, <1>9, <1>10, <1>11, <1>12, <1>13,
          <1>14, <1>15, <1>16, <1>17, <1>18, <1>19, <1>20, <1>21, <1>22, <1>23, <1>24,
          <1>25
      DEF Routine, Completing, User

(* No result finds its call answered.                                      *)
LEMMA UnstrayedKept ==
  ASSUME DelegationInv, TypeOK, Soles, SolesBefore, Ending, Unstrayed, Careful, NEW t \in Task,
         Routine(t)
  PROVE  Unstrayed'
<1> USE DEF Unstrayed, Soles, Ending, SolesBefore
<1>1. CASE DisposeParent(t) BY <1>1, DisposeParentFields
<1>2. CASE ChildRefused(t) BY <1>2 DEF ChildRefused, live, others, ghosts
<1>3. CASE Turn(t) BY <1>3, TurnFields
<1>4. CASE Stall(t) BY <1>4, StallFields
<1>5. CASE Attempt(t) BY <1>5, AttemptFields
<1>6. CASE Reattach(t) BY <1>6, ReattachFields
<1>7. CASE SaveResult(t) BY <1>7, SaveResultFields
<1>8. CASE CloseViews(t) BY <1>8, CloseViewsFields
<1>9. CASE MarkChild(t) BY <1>9, MarkChildFields
<1>10. CASE MarkParent(t) BY <1>10, MarkParentFields
<1>11. CASE ReopenParent(t)
  <2>0. Completes(t) /\ ReopenEnds(opener[t]) BY <1>11, ReopenParentFields
  <2>1. CASE ReopensOn(opener[t]) BY <2>0, <2>1 DEF Completes, ReopensOn
  <2>2. CASE ReopensOff(opener[t]) BY <2>0, <2>2 DEF Completes, ReopensOff
  <2>3. CASE StaysAway BY <2>0, <2>3 DEF Completes, StaysAway
  <2>4. CASE Clears(opener[t]) BY <2>0, <2>4 DEF Completes, Clears
  <2> QED BY <2>0, <2>1, <2>2, <2>3, <2>4 DEF ReopenEnds
<1>12. CASE ReadForDetach(t) BY <1>12, ReadForDetachFields
<1>13. CASE DetachParent(t) BY <1>13, DetachParentFields
<1>14. CASE AfterAbort(t) BY <1>14, AfterAbortFields
<1>15. CASE Rehydrate(t)
  <2>0. Rebuilds(t) /\ RebuildEnds(t) BY <1>15, RehydrateFields
  <2>1. CASE Returns(t) BY <2>0, <2>1 DEF Rebuilds, Returns
  <2>2. CASE StaysAway BY <2>0, <2>2 DEF Rebuilds, StaysAway
  <2>3. CASE Clears(t) BY <2>0, <2>3 DEF Rebuilds, Clears
  <2> QED BY <2>0, <2>1, <2>2, <2>3 DEF RebuildEnds
<1>16. CASE SaveOnOpen(t) BY <1>16, SaveOnOpenFields
<1>17. CASE Approve(t) BY <1>17, ApproveFields
<1>18. CASE Deny(t) BY <1>18 DEF Deny, ops, others, ghosts
<1>19. CASE Cancel(t) BY <1>19, CancelFields
<1>20. CASE ShowLive(t) BY <1>20, ShowLiveFields
<1>21. CASE OpenTask(t) BY <1>21, OpenTaskFields
<1>22. CASE Resume(t) BY <1>22, ResumeFields, SMTT(20)
<1>23. CASE CloseTask BY <1>23, CloseTaskFields, SMTT(20)
<1>24. CASE DetachFails(t) BY <1>24, DetachFailsFields
<1>25. CASE FailClosed(t) BY <1>25, FailClosedFields
<1> QED BY <1>1, <1>2, <1>3, <1>4, <1>5, <1>6, <1>7, <1>8, <1>9, <1>10, <1>11, <1>12, <1>13,
          <1>14, <1>15, <1>16, <1>17, <1>18, <1>19, <1>20, <1>21, <1>22, <1>23, <1>24,
          <1>25
      DEF Routine, Completing, User

(* A parent that awaits its child stands closed or a view at its open call.*)
LEMMA WaitingKept ==
  ASSUME DelegationInv, TypeOK, Soles, SolesBefore, Families, Calls, Single, Finishing,
         Reachable, Answers, Apart, Remembered, Reattaching, Ending, Waiting, Attended, Known,
         Careful, NEW t \in Task, Routine(t)
  PROVE  Waiting'
<1> USE DEF Waiting, Awaited, Soles, Families, Ending, SolesBefore, Apart
<1>1. CASE DisposeParent(t)
  BY <1>1, DisposeParentFields
     DEF Childless, Single, Finishing, Reattaching, Calls, Crosses, Left, Kin, Children
<1>2. CASE ChildRefused(t)
  BY <1>2
     DEF ChildRefused, live, others, ghosts, Childless, Single, Finishing, Reattaching, Calls,
         Crosses, Left, Kin, Children
<1>3. CASE Turn(t)
  BY <1>3, TurnFields
     DEF Childless, Single, Finishing, Reattaching, Calls, Crosses, Left, Kin, Children
<1>4. CASE Stall(t)
  BY <1>4, StallFields
     DEF Childless, Single, Finishing, Reattaching, Calls, Crosses, Left, Kin, Children
<1>5. CASE Attempt(t)
  BY <1>5, AttemptFields
     DEF Childless, Single, Finishing, Reattaching, Calls, Crosses, Left, Kin, Children
<1>6. CASE Reattach(t)
  BY <1>6, ReattachFields DEF Childless, Single, Finishing, Reattaching, Calls, Answers
<1>7. CASE SaveResult(t)
  BY <1>7, SaveResultFields
     DEF Childless, Single, Finishing, Reattaching, Calls, Crosses, Left, Kin, Children
<1>8. CASE CloseViews(t) BY <1>8, CloseViewsFields
<1>9. CASE MarkChild(t)
  BY <1>9, MarkChildFields
     DEF Childless, Single, Finishing, Reattaching, Calls, Crosses, Left, Kin, Children
<1>10. CASE MarkParent(t)
  BY <1>10, MarkParentFields
     DEF Childless, Single, Finishing, Reattaching, Calls, Crosses, Left, Kin, Children
<1>11. CASE ReopenParent(t)
  <2>0. Completes(t) /\ ReopenEnds(opener[t]) BY <1>11, ReopenParentFields
  <2>1. CASE ReopensOn(opener[t]) BY <2>0, <2>1 DEF Completes, ReopensOn, Childless, Single
  <2>2. CASE ReopensOff(opener[t])
    BY <2>0, <2>2
       DEF Completes, ReopensOff, Childless, Single, Finishing, Reattaching, Calls, Crosses, Left,
           Kin, Children
  <2>3. CASE StaysAway
    BY <2>0, <2>3
       DEF Completes, StaysAway, Childless, Single, Finishing, Reattaching, Calls, Crosses, Left,
           Kin, Children
  <2>4. CASE Clears(opener[t]) BY <2>0, <2>4 DEF Completes, Clears, Childless, Single
  <2> QED BY <2>0, <2>1, <2>2, <2>3, <2>4 DEF ReopenEnds
<1>12. CASE ReadForDetach(t)
  BY <1>12, ReadForDetachFields
     DEF Childless, Single, Finishing, Reattaching, Calls, Crosses, Left, Kin, Children
<1>13. CASE DetachParent(t)
  BY <1>13, DetachParentFields
     DEF Childless, Single, Finishing, Reattaching, Calls, Crosses, Left, Kin, Children
<1>14. CASE AfterAbort(t)
  BY <1>14, AfterAbortFields DEF Childless, Single, Finishing, Reattaching, Calls, Remembered
<1>15. CASE Rehydrate(t)
  <2>0. Rebuilds(t) /\ RebuildEnds(t) BY <1>15, RehydrateFields
  <2>1. CASE Returns(t) BY <2>0, <2>1 DEF Rebuilds, Returns, Childless, Single
  <2>2. CASE StaysAway BY <2>0, <2>2 DEF Rebuilds, StaysAway, Childless, Single
  <2>3. CASE Clears(t) BY <2>0, <2>3 DEF Rebuilds, Clears, Childless, Single
  <2> QED BY <2>0, <2>1, <2>2, <2>3 DEF RebuildEnds
<1>16. CASE SaveOnOpen(t)
  BY <1>16, SaveOnOpenFields
     DEF Childless, Single, Finishing, Reattaching, Calls, Crosses, Left, Kin, Children
<1>17. CASE Approve(t)
  BY <1>17, ApproveFields
     DEF Childless, Single, Finishing, Reattaching, Calls, Crosses, Left, Kin, Children
<1>18. CASE Deny(t)
  BY <1>18
     DEF Deny, ops, others, ghosts, Childless, Single, Finishing, Reattaching, Calls, Crosses,
         Left, Kin, Children
<1>19. CASE Cancel(t)
  BY <1>19, CancelFields
     DEF Childless, Single, Finishing, Reattaching, Calls, Crosses, Left, Kin, Children
<1>20. CASE ShowLive(t) BY <1>20, ShowLiveFields
<1>21. CASE OpenTask(t) BY <1>21, WaitingOpenTask
<1>22. CASE Resume(t)
  BY <1>22, ResumeFields
     DEF Childless, Single, Finishing, Reattaching, Calls, Crosses, Left, Kin, Children
<1>23. CASE CloseTask BY <1>23, CloseTaskFields
<1>24. CASE DetachFails(t) BY <1>24, DetachFailsFields
<1>25. CASE FailClosed(t) BY <1>25, FailClosedFields
<1> QED BY <1>1, <1>2, <1>3, <1>4, <1>5, <1>6, <1>7, <1>8, <1>9, <1>10, <1>11, <1>12, <1>13,
          <1>14, <1>15, <1>16, <1>17, <1>18, <1>19, <1>20, <1>21, <1>22, <1>23, <1>24,
          <1>25
      DEF Routine, Completing, User

(* An awaited child runs, or its end is on the way.                        *)
LEMMA AttendedKept ==
  ASSUME DelegationInv, TypeOK, Soles, SolesBefore, Families, Single, Reachable, Remembered,
         Reattaching, Ending, Waiting, Attended, Kinship, Careful, NEW t \in Task, Routine(t)
  PROVE  Attended'
<1> USE DEF Attended, Awaited, Soles, Childless, Families, Single, Reachable, Waiting, Ending,
          Reattaching, Crosses, Left, Kin, Children, SolesBefore, Kinship
<1>1. CASE DisposeParent(t) BY <1>1, DisposeParentFields
<1>2. CASE ChildRefused(t) BY <1>2 DEF ChildRefused, live, others, ghosts
<1>3. CASE Turn(t) BY <1>3, TurnFields
<1>4. CASE Stall(t) BY <1>4, StallFields
<1>5. CASE Attempt(t) BY <1>5, AttemptFields
<1>6. CASE Reattach(t) BY <1>6, ReattachFields
<1>7. CASE SaveResult(t) BY <1>7, SaveResultFields
<1>8. CASE CloseViews(t) BY <1>8, CloseViewsFields
<1>9. CASE MarkChild(t) BY <1>9, MarkChildFields
<1>10. CASE MarkParent(t) BY <1>10, MarkParentFields
<1>11. CASE ReopenParent(t)
  <2>0. Completes(t) /\ ReopenEnds(opener[t]) BY <1>11, ReopenParentFields
  <2>1. CASE ReopensOn(opener[t]) BY <2>0, <2>1, SMTT(20) DEF Completes, ReopensOn
  <2>2. CASE ReopensOff(opener[t]) BY <2>0, <2>2 DEF Completes, ReopensOff
  <2>3. CASE StaysAway BY <2>0, <2>3 DEF Completes, StaysAway
  <2>4. CASE Clears(opener[t]) BY <2>0, <2>4 DEF Completes, Clears
  <2> QED BY <2>0, <2>1, <2>2, <2>3, <2>4 DEF ReopenEnds
<1>12. CASE ReadForDetach(t) BY <1>12, ReadForDetachFields, AwaitedTypes
<1>13. CASE DetachParent(t) BY <1>13, DetachParentFields
<1>14. CASE AfterAbort(t) BY <1>14, AfterAbortFields DEF Remembered
<1>15. CASE Rehydrate(t)
  <2>0. Rebuilds(t) /\ RebuildEnds(t) BY <1>15, RehydrateFields
  <2>1. CASE Returns(t) BY <2>0, <2>1 DEF Rebuilds, Returns
  <2>2. CASE StaysAway BY <2>0, <2>2 DEF Rebuilds, StaysAway
  <2>3. CASE Clears(t) BY <2>0, <2>3 DEF Rebuilds, Clears
  <2> QED BY <2>0, <2>1, <2>2, <2>3 DEF RebuildEnds
<1>16. CASE SaveOnOpen(t) BY <1>16, SaveOnOpenFields
<1>17. CASE Approve(t) BY <1>17, ApproveFields
<1>18. CASE Deny(t) BY <1>18 DEF Deny, ops, others, ghosts
<1>19. CASE Cancel(t) BY <1>19, CancelFields
<1>20. CASE ShowLive(t) BY <1>20, ShowLiveFields
<1>21. CASE OpenTask(t) BY <1>21, OpenTaskFields
<1>22. CASE Resume(t) BY <1>22, ResumeFields
<1>23. CASE CloseTask BY <1>23, CloseTaskFields
<1>24. CASE DetachFails(t) BY <1>24, DetachFailsFields
<1>25. CASE FailClosed(t) BY <1>25, FailClosedFields
<1> QED BY <1>1, <1>2, <1>3, <1>4, <1>5, <1>6, <1>7, <1>8, <1>9, <1>10, <1>11, <1>12, <1>13,
          <1>14, <1>15, <1>16, <1>17, <1>18, <1>19, <1>20, <1>21, <1>22, <1>23, <1>24,
          <1>25
      DEF Routine, Completing, User

HIDE DEF TypeOK, Leaves, Ends, Stays, SavedAs, WrittenAs, Rests, Moves, Stops, Works, Working,
         Quiet, Parent, Arrives

-----------------------------------------------------------------------------
(* The invariant.                                                          *)

LEMMA RestartKeeps ==
  ASSUME DelegationInv, TypeOK, Opened, Families, Calls, Kinship, Single, Finishing, Reachable,
         Answers, Restart
  PROVE  /\ Families' /\ Calls' /\ Kinship' /\ Single' /\ Finishing' /\ Reachable' /\ Answers'
         /\ restarts' # 0
<1>1. /\ restarts' = restarts + 1 /\ on' = None /\ off' = {} /\ attach' = {}
      /\ \A t \in Task : /\ phase'[t] = "closed" /\ handing'[t] = "no" /\ repair'[t] = "no"
                         /\ complete'[t].step = "no"
      /\ cancel'.task = None /\ cancel'.step = "no" /\ cancel'.hist.awaiting = None
      /\ UNCHANGED <<item, log, stamp, opener, returned, crossed>>
  BY DEF Restart, NotCompleting, NoCancel, NoItem, ghosts
<1>2. restarts' # 0 BY <1>1 DEF TypeOK
<1>3. SolesBefore BY <1>1, SoleBefore
<1>4. Families' BY <1>1 DEF Families, Present
<1>5. Calls' BY <1>1 DEF Calls, Works, Working
<1>6. Kinship' BY <1>1, DelegationAssumption DEF Kinship, Parent
<1>7. Single' BY <1>1 DEF Single, Childless
<1>8. Finishing' BY <1>1 DEF Finishing, Childless
<1>9. Reachable' BY <1>1 DEF Reachable, Works, Working
<1>10. Answers' BY <1>1, <1>3 DEF Answers, SolesBefore, TypeOK
<1> QED BY <1>2, <1>4, <1>5, <1>6, <1>7, <1>8, <1>9, <1>10

(* No other step makes a task await one.                                   *)
LEMMA RoutineAwaits ==
  ASSUME DelegationInv, Careful, NEW t \in Task, Routine(t), ~Reattach(t), ~FailClosed(t)
  PROVE  \A p \in Task : item'[p].awaiting \in {item[p].awaiting, None}
<1> USE DEF SavedAs, WrittenAs, Rests, Leaves, Ends, Stays, Arrives, others, live, ops
<1>1. CASE DisposeParent(t) \/ Turn(t) \/ SaveOnOpen(t) \/ Cancel(t)
  BY <1>1, DisposeParentFields, TurnFields, SaveOnOpenFields, CancelFields
<1>2. CASE Stall(t) \/ Attempt(t) \/ Approve(t)
  BY <1>2, StallFields, AttemptFields, ApproveFields
<1>3. CASE ReopenParent(t)
  <2>1. Completes(t) /\ ReopenEnds(opener[t])
    BY <1>3, ReopenParentFields
  <2> QED BY <2>1 DEF Completes, ReopenEnds, ReopensOn, ReopensOff, StaysAway, Clears
<1>4. CASE CloseViews(t) \/ MarkChild(t) \/ MarkParent(t) \/ DetachParent(t)
  BY <1>4, CloseViewsFields, MarkChildFields, MarkParentFields, DetachParentFields
<1>5. CASE ShowLive(t) \/ OpenTask(t) \/ CloseTask
  BY <1>5, ShowLiveFields, OpenTaskFields, CloseTaskFields
<1>6. CASE Rehydrate(t)
  <2>1. RebuildEnds(t) BY <1>6, RehydrateFields
  <2> QED BY <2>1 DEF RebuildEnds, Returns, StaysAway, Clears
<1>7. CASE SaveResult(t) \/ ReadForDetach(t) \/ Resume(t)
  BY <1>7, SaveResultFields, ReadForDetachFields, ResumeFields
<1>8. CASE AfterAbort(t) \/ DetachFails(t) BY <1>8, AfterAbortFields, DetachFailsFields
<1>9. CASE Deny(t) \/ ChildRefused(t) BY <1>9 DEF Deny, ChildRefused
<1> QED BY <1>1, <1>2, <1>3, <1>4, <1>5, <1>6, <1>7, <1>8, <1>9 DEF Routine, Completing, User

LEMMA RoutineSoles ==
  ASSUME DelegationInv, Careful, NEW t \in Task, Routine(t)
  PROVE  SolesBefore /\ restarts' = restarts
<1>0. TypeOK BY DEF DelegationInv
<1>1. /\ opener' = opener /\ restarts' = restarts /\ crossed \subseteq crossed'
      /\ \A x \in Task : log'[x] = "none" => log[x] = "none"
  <2> USE <1>0 DEF TypeOK, Crosses, Rests, Moves, Stops, others, ghosts
  <2>1. CASE DisposeParent(t) BY <2>1, DisposeParentFields
  <2>2. CASE Turn(t) \/ Resume(t) BY <2>2, TurnFields, ResumeFields
  <2>3. CASE SaveResult(t) BY <2>3, SaveResultFields
  <2>4. CASE ReopenParent(t)
    <3>1. Completes(t) /\ ReopenEnds(opener[t])
      BY <2>4, ReopenParentFields
    <3> QED BY <3>1 DEF Completes, ReopenEnds, ReopensOn, ReopensOff, StaysAway, Clears
  <2>5. CASE CloseViews(t) \/ Attempt(t) \/ Approve(t) \/ Stall(t)
    BY <2>5, CloseViewsFields, AttemptFields, ApproveFields, StallFields
  <2>6. CASE Rehydrate(t)
    <3>1. Rebuilds(t) /\ RebuildEnds(t) BY <2>6, RehydrateFields
    <3> QED BY <3>1 DEF Rebuilds, RebuildEnds, Returns, StaysAway, Clears
  <2>7. CASE ShowLive(t) \/ OpenTask(t) \/ CloseTask
    BY <2>7, ShowLiveFields, OpenTaskFields, CloseTaskFields
  <2>8. CASE Reattach(t) \/ MarkChild(t) \/ MarkParent(t) \/ DetachParent(t) \/ ReadForDetach(t)
    BY <2>8, ReattachFields, MarkChildFields, MarkParentFields, DetachParentFields,
       ReadForDetachFields
  <2>9. CASE SaveOnOpen(t) \/ Cancel(t) BY <2>9, SaveOnOpenFields, CancelFields
  <2>10. CASE AfterAbort(t) \/ DetachFails(t) \/ FailClosed(t)
    BY <2>10, AfterAbortFields, DetachFailsFields, FailClosedFields
  <2>11. CASE Deny(t) \/ ChildRefused(t) BY <2>11 DEF Deny, ChildRefused
  <2> QED BY <2>1, <2>2, <2>3, <2>4, <2>5, <2>6, <2>7, <2>8, <2>9, <2>10, <2>11
          DEF Routine, Completing, User
<1> QED BY <1>1, SoleBefore

LEMMA InvInit == Init => Inv
<1> SUFFICES ASSUME Init PROVE Inv
  OBVIOUS
<1>1. /\ \A t \in Task : /\ item[t].awaiting = None /\ item[t].parent = None
                         /\ opener[t] = None /\ log[t] = "none" /\ handing[t] = "no"
                         /\ repair[t] = "no" /\ complete[t].step = "no"
                         /\ phase[t] = IF t = Root THEN "work" ELSE "closed"
      /\ on = Root /\ off = {} /\ attach = {} /\ returned = {} /\ stray = {}
      /\ cancel.task = None /\ cancel.step = "no" /\ cancel.hist.awaiting = None
  <2>1. item = [[t \in Task |-> NoItem] EXCEPT ![Root] = [NoItem EXCEPT !.status = "unset"]]
    BY DEF Init, NoItem
  <2>2. \A t \in Task : item[t].awaiting = None /\ item[t].parent = None
    BY <2>1 DEF NoItem
  <2>3. cancel.task = None /\ cancel.step = "no" /\ cancel.hist.awaiting = None
    BY DEF Init, NoCancel, NoItem
  <2>4. \A t \in Task : complete[t].step = "no" BY DEF Init, NotCompleting
  <2> QED BY <2>2, <2>3, <2>4 DEF Init
<1>2. DelegationInv BY InitFacts
<1>3. Families /\ Calls /\ Kinship
  BY <1>1, DelegationAssumption DEF Families, Calls, Kinship, Works, Working
<1>4. Single /\ Finishing /\ Reachable
  BY <1>1 DEF Single, Finishing, Reachable, Childless, Works, Working
<1>5. \A c \in Task : ~Sole(c) BY <1>1 DEF Sole
<1>6. Answers /\ Remembered /\ Reattaching /\ Ending /\ Unstrayed /\ Waiting /\ Attended
  BY <1>1, <1>5 DEF Answers, Remembered, Reattaching, Ending, Unstrayed, Waiting, Attended
<1>7. Apart BY <1>1 DEF Apart, Works, Working
<1> QED BY <1>2, <1>3, <1>4, <1>6, <1>7 DEF Inv, Life

LEMMA InvStep ==
  ASSUME Careful, Inv, [Next]_vars
  PROVE  Inv'
<1>0. /\ DelegationInv /\ Families /\ Calls /\ Kinship
      /\ Single /\ Finishing /\ Reachable /\ Answers
  BY DEF Inv
<1>1. TypeOK /\ Known /\ Opened BY <1>0 DEF DelegationInv
<1>2. Soles BY <1>0, SoleFacts
<1>3. DelegationInv' BY <1>0, NextFacts
<1>4. ASSUME restarts = 0
      PROVE  Apart /\ Remembered /\ Reattaching /\ Ending /\ Unstrayed /\ Waiting /\ Attended
  BY <1>4 DEF Inv, Life
<1>5. ASSUME NEW t \in Task, Routine(t) PROVE Inv'
  <2>1. SolesBefore /\ restarts' = restarts BY <1>0, <1>5, RoutineSoles
  <2>2. Families' /\ Calls' /\ Kinship'
    BY <1>0, <1>1, <1>2, <1>5, <2>1, FamiliesKept, CallsKept, KinshipKept
  <2>3. Single' /\ Finishing'
    BY <1>0, <1>1, <1>2, <1>5, <2>1, SingleKept, FinishingKept
  <2>4. Reachable' /\ Answers'
    BY <1>0, <1>1, <1>2, <1>5, <2>1, ReachableKept, AnswersKept
  <2>5. ASSUME restarts = 0 PROVE Life'
    <3>1. Apart' /\ Remembered'
      BY <1>0, <1>1, <1>2, <1>4, <1>5, <2>1, <2>5, ApartKept, RememberedKept
    <3>2. Reattaching' /\ Ending'
      BY <1>0, <1>1, <1>2, <1>4, <1>5, <2>1, <2>5, ReattachingKept, EndingKept
    <3>3. Unstrayed' /\ Waiting'
      BY <1>0, <1>1, <1>2, <1>4, <1>5, <2>1, <2>5, UnstrayedKept, WaitingKept
    <3>4. Attended'
      BY <1>0, <1>1, <1>2, <1>4, <1>5, <2>1, <2>5, AttendedKept
    <3> QED BY <3>1, <3>2, <3>3, <3>4 DEF Life
  <2> QED BY <1>3, <2>1, <2>2, <2>3, <2>4, <2>5 DEF Inv
<1>6. ASSUME NEW p \in Task, NEW c \in Task, OpenChild(p, c) PROVE Inv'
  <2>1. restarts' = restarts BY <1>0, <1>6, OpenChildFields
  <2>2. Families' /\ Calls' /\ Single' /\ Answers'
    BY <1>0, <1>6, FamiliesOpenChild, CallsOpenChild, SingleOpenChild, AnswersOpenChild
  <2>3. Finishing' /\ Reachable' /\ Kinship'
    BY <1>0, <1>6, FinishingOpenChild, ReachableOpenChild, KinshipOpenChild
  <2>4. ASSUME restarts = 0 PROVE Life'
    <3>1. Apart' /\ Ending' /\ Unstrayed' /\ Waiting'
      BY <1>0, <1>4, <1>6, <2>4, ApartOpenChild, EndingOpenChild, UnstrayedOpenChild,
         WaitingOpenChild
    <3>2. Remembered' /\ Reattaching' /\ Attended'
      BY <1>0, <1>4, <1>6, <2>4, RememberedOpenChild, ReattachingOpenChild, AttendedOpenChild
    <3> QED BY <3>1, <3>2 DEF Life
  <2> QED BY <1>3, <2>1, <2>2, <2>3, <2>4 DEF Inv
<1>7. CASE Restart BY <1>0, <1>1, <1>3, <1>7, RestartKeeps DEF Inv
<1>8. CASE UNCHANGED vars
  <2>1. /\ UNCHANGED <<item, opener, log, on, off, phase, stamp, handing, attach, repair>>
        /\ UNCHANGED <<complete, cancel, restarts, returned, stray, crossed>>
    BY <1>8 DEF vars, live, ops, others, ghosts
  <2>2. Families' /\ Calls' /\ Kinship'
    BY <1>0, <2>1 DEF Families, Calls, Kinship, Present, Works, Parent
  <2>3. Single' /\ Finishing' /\ Reachable'
    BY <1>0, <2>1 DEF Single, Finishing, Reachable, Childless, Works
  <2>4. /\ \A c \in Task : Sole(c)' <=> Sole(c)
        /\ \A t \in Task : Clear(t)' <=> Clear(t)
    BY <2>1 DEF Sole, Clear, Children
  <2>5. Answers' BY <1>0, <1>1, <2>1, <2>4 DEF Answers, TypeOK
  <2>6. ASSUME restarts = 0 PROVE Life'
    <3>1. Apart' /\ Remembered' /\ Reattaching' /\ Ending' /\ Unstrayed'
      BY <1>1, <1>4, <2>1, <2>4, <2>6
         DEF Apart, Remembered, Reattaching, Ending, Unstrayed, Works, TypeOK
    <3>2. Waiting' /\ Attended'
      BY <1>4, <2>1, <2>4, <2>6 DEF Waiting, Attended, Awaited
    <3> QED BY <3>1, <3>2 DEF Life
  <2> QED BY <1>3, <2>1, <2>2, <2>3, <2>5, <2>6 DEF Inv
<1>9. ASSUME NEW t \in Task, Agent(t) PROVE Inv'
  BY <1>5, <1>6, <1>9 DEF Agent, Routine
<1>10. ASSUME NEW t \in Task, User(t) PROVE Inv'
  BY <1>5, <1>10 DEF Routine
<1>11. CASE CloseTask
  <2>1. Root \in Task /\ Routine(Root) BY <1>11 DEF Routine
  <2> QED BY <1>5, <2>1
<1> QED BY <1>7, <1>8, <1>9, <1>10, <1>11 DEF Next

LEMMA InvAlways == ASSUME Careful PROVE Spec => []Inv
<1>1. Inv /\ [Next]_vars => Inv' BY InvStep
<1> QED BY <1>1, InvInit, PTL DEF Spec

-----------------------------------------------------------------------------
(* In one life of the host, for a user who opens and resumes tasks only    *)
(* between the operations, and a child that is sole (no third task meets   *)
(* the two, no write of their delegation failed unheard): its result       *)
(* reaches its parent's conversation only where the new_task call is still *)
(* unanswered, although the child is cancelled, left or re-attached.       *)
THEOREM ResultsAnswerOpenCalls == ASSUME Careful PROVE Spec => []ResultAnswersOpenCall
<1>1. Inv => ResultAnswersOpenCall BY DEF Inv, Life, Unstrayed, ResultAnswersOpenCall
<1> QED BY <1>1, InvAlways, PTL

(* Under the same premise, a detach that did not fail included, and with   *)
(* nothing under way: the child that a delegated parent awaits is in the   *)
(* slot or detached, whatever write of its re-attachment or completion     *)
(* failed.                                                                 *)
THEOREM AwaitedChildrenAlive == ASSUME Careful PROVE Spec => []AwaitedChildAlive
<1>1. ASSUME Inv PROVE AwaitedChildAlive
  <2> SUFFICES ASSUME AtRest, restarts = 0, NEW p \in Task, NEW c, c = item[p].awaiting,
                      c # None, Sole(c)
               PROVE  IsLive(c)
    BY DEF AwaitedChildAlive
  <2>1. c \in Task BY <1>1, AwaitedTypes DEF Inv
  <2>2. Awaited(c) BY <1>1 DEF Inv, Families, Awaited
  <2>3. phase[c] # "closed" BY <1>1, <2>1, <2>2 DEF Inv, Life, Attended, AtRest, Settled, At
  <2>4. c \notin crossed /\ phase[c] \in Phase BY <1>1, <2>1 DEF Sole, Inv, DelegationInv, TypeOK
  <2> QED BY <1>1, <2>1, <2>3, <2>4 DEF Inv, Reachable, Works, Phase, IsLive
<1> QED BY <1>1, InvAlways, PTL

(* Under the same premise, a parent never works beside the child whose     *)
(* result it awaits.                                                       *)
THEOREM NeverBesideChild == ASSUME Careful PROVE Spec => []NotBesideChild
<1>1. ASSUME Inv PROVE NotBesideChild
  <2> SUFFICES ASSUME restarts = 0, NEW p \in Task, NEW c, c = item[p].awaiting,
                      phase[p] \in Working, c # None, Sole(c)
               PROVE  FALSE
    BY DEF NotBesideChild
  <2>1. c \in Task BY <1>1, AwaitedTypes DEF Inv
  <2>2. opener[c] = p /\ Awaited(c) BY <1>1 DEF Inv, Families, Awaited
  <2> QED BY <1>1, <2>1, <2>2 DEF Inv, Life, Waiting, Working
<1> QED BY <1>1, InvAlways, PTL

(* Under the same premise, the last write of the completion that did not   *)
(* fail included, and with nothing under way: no parent awaits a child     *)
(* whose result it has.                                                    *)
THEOREM ReturnedNeverAwaited == ASSUME Careful PROVE Spec => []ReturnedNotAwaited
<1>1. ASSUME Inv PROVE ReturnedNotAwaited
  <2> SUFFICES ASSUME AtRest, restarts = 0, NEW c \in returned, Sole(c),
                      item[opener[c]].awaiting = c
               PROVE  FALSE
    BY DEF ReturnedNotAwaited
  <2>1. c \in Task BY <1>1 DEF Inv, DelegationInv, TypeOK
  <2>2. Awaited(c) BY <2>1 DEF Awaited
  <2>3. complete[c].step = "no" BY <2>1 DEF AtRest, Settled, At
  <2>4. log[opener[c]] = "frozen" BY <1>1, <2>1, <2>2, <2>3 DEF Inv, Life, Waiting
  <2> QED BY <1>1, <2>4 DEF Inv, Answers
<1> QED BY <1>1, InvAlways, PTL

(* The state is well formed, and until the host dies a task whose          *)
(* delegations nothing crossed runs in one instance, which the slot or the *)
(* detached tasks reach.                                                   *)
THEOREM InstancesReachable == ASSUME Careful PROVE Spec => []WellFormed
<1>1. ASSUME Inv PROVE WellFormed
  <2>1. TypeOK BY <1>1 DEF Inv, DelegationInv
  <2>2. ASSUME restarts = 0, NEW t \in Task, Clear(t)
        PROVE  ~(on = t /\ t \in off) /\ (phase[t] # "closed" => IsLive(t))
    <3>1. ~(on = t /\ t \in off) BY <1>1, <2>2 DEF Inv, Life, Apart
    <3>2. t \notin crossed /\ phase[t] \in Phase BY <2>1, <2>2 DEF Clear, TypeOK
    <3> QED BY <1>1, <3>1, <3>2 DEF Inv, Reachable, Works, Phase, IsLive
  <2> QED BY <2>1, <2>2 DEF WellFormed, OneInstance
<1> QED BY <1>1, InvAlways, PTL

(* A sole child is awaited again only by a parent whose new_task call is   *)
(* unanswered when this is written, also after restarts (but for the       *)
(* cancel of a parent that is itself a child, see StaleCancel).            *)
THEOREM ReattachesOnlyFrozen == ASSUME Careful PROVE Spec => ReattachOnlyFrozen
<1> DEFINE Again(p, c) ==
        /\ Sole(c) /\ ~StaleCancel(p)
        /\ item[c].status # "absent" /\ item'[p].awaiting = c /\ item[p].awaiting # c
<1>1. ASSUME Inv, [Next]_vars, NEW p \in Task, NEW c \in Task, Again(p, c)
      PROVE  log[p] = "frozen"
  <2>0. DelegationInv /\ TypeOK /\ Known /\ Opened /\ Families /\ Calls /\ Answers
    BY <1>1 DEF Inv, DelegationInv
  <2>1. ASSUME NEW t \in Task, Routine(t) PROVE log[p] = "frozen"
    <3>1. CASE Reattach(t)
      <4>1. p = opener[c] /\ c \in attach
        BY <1>1, <2>0, <3>1, ReattachFields DEF WrittenAs, Rests, Ends, Stays, SavedAs
      <4> QED BY <1>1, <4>1, <2>0 DEF Answers
    <3>2. CASE FailClosed(t)
      <4>1. p = t /\ cancel.task = t /\ cancel.hist.awaiting = c /\ repair[t] # "no"
        BY <1>1, <2>0, <3>2, FailClosedFields
      <4>2. opener[c] = t /\ opener[t] \in Task /\ t \notin crossed
        BY <1>1, <2>0, <4>1, DelegationAssumption DEF Families, Opened, Sole
      <4>3. Parent(t) # None BY <1>1, <4>2, DelegationAssumption DEF Inv, Kinship
      <4>4. restarts = 0 BY <1>1, <2>0, <4>1, <4>3 DEF StaleCancel, TypeOK
      <4> QED BY <1>1, <4>1, <4>2, <4>4 DEF Inv, Life, Remembered
    <3>3. CASE ~Reattach(t) /\ ~FailClosed(t)
      <4>1. item'[p].awaiting \in {item[p].awaiting, None}
        BY <2>0, <2>1, <3>3, RoutineAwaits
      <4> QED BY <1>1, <4>1
    <3> QED BY <3>1, <3>2, <3>3
  <2>2. ASSUME NEW q \in Task, NEW d \in Task, OpenChild(q, d) PROVE log[p] = "frozen"
    BY <1>1, <2>0, <2>2, OpenChildFields DEF Present
  <2>3. CASE Restart \/ UNCHANGED vars BY <1>1, <2>3 DEF Restart, vars
  <2>4. ASSUME NEW t \in Task, Agent(t) PROVE log[p] = "frozen"
    BY <2>1, <2>2, <2>4 DEF Agent, Routine
  <2>5. ASSUME NEW t \in Task, User(t) PROVE log[p] = "frozen"
    BY <2>1, <2>5 DEF Routine
  <2>6. CASE CloseTask
    <3>1. Root \in Task /\ Routine(Root) BY <2>6 DEF Routine
    <3> QED BY <2>1, <3>1
  <2> QED BY <1>1, <2>3, <2>4, <2>5, <2>6 DEF Next
<1>2. Inv /\ [Next]_vars =>
        [\A p, c \in Task :
           /\ Sole(c) /\ ~StaleCancel(p)
           /\ item[c].status # "absent" /\ item'[p].awaiting = c /\ item[p].awaiting # c
           => log[p] = "frozen"]_vars
  BY <1>1
<1> QED BY <1>2, InvAlways, PTL DEF Spec, ReattachOnlyFrozen
=============================================================================
