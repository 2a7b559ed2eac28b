---------------------------- MODULE HistoryItems ----------------------------
(***************************************************************************)
(* What the task history store promises to those who change a history      *)
(* item, with no windows, lock files, caches or faults of the disk: an     *)
(* item is read, changed and written in one step, so that a change adds to *)
(* all that came before.  Only for a task that is reported broken - a      *)
(* process wrote after it had lost its lock file - is nothing promised.    *)
(* TaskHistoryStore implements this specification; that the items change   *)
(* in such steps is what Delegation assumes of them.                       *)
(*                                                                         *)
(* An item is the set of the writes it contains, {} when there is none.    *)
(***************************************************************************)
EXTENDS Naturals

CONSTANT Task

VARIABLES
  file,     \* per task: its item
  writes,   \* how many writes there were
  broken    \* the tasks for which nothing is promised

vars == <<file, writes, broken>>

Contents(n) == SUBSET (1..n)

Init ==
  /\ file \in [Task -> {{}, {1}}]
  /\ writes = 1 /\ broken = {}

(* A change of t's item.  Without a file the item may be created anew or   *)
(* from what some window remembers of it.                                  *)
Change(t) ==
  /\ writes' = writes + 1
  /\ \E item \in Contents(writes) :
       /\ file[t] # {} => item = file[t]
       /\ file' = [file EXCEPT ![t] = item \cup {writes + 1}]
  /\ UNCHANGED broken

Remove(t) ==
  /\ file' = [file EXCEPT ![t] = {}]
  /\ UNCHANGED <<writes, broken>>

(* Tasks break, and the items of broken tasks change in any way. *)
Break ==
  /\ broken \subseteq broken' /\ broken' \subseteq Task
  /\ writes' \in {writes, writes + 1}
  /\ file' \in [Task -> Contents(writes')]
  /\ \A t \in Task \ broken' : file'[t] = file[t]

Next == Break \/ \E t \in Task : Change(t) \/ Remove(t)

Spec == Init /\ [][Next]_vars
=============================================================================
