--------------------------- MODULE SlotAllocation ---------------------------
(***************************************************************************)
(* What the subagent slot pool promises to its callers, with no queue, no  *)
(* counters and no scan: a subagent that asked for a slot either gets one  *)
(* in one step, at a moment when every limit of ITS request leaves room,   *)
(* or gives up; a holder gives its slot back; a caller may call again.     *)
(* The limits are stated over the set of holders.  SubagentSlotPool        *)
(* implements this specification.                                          *)
(***************************************************************************)
EXTENDS Integers, FiniteSets

CONSTANTS
  Waiter,        \* the callers of acquire, with one call at a time each
  SlotRequests,  \* the requests callers pass
  Unset          \* profileLimit of a profile without maxConcurrentRequests

VARIABLES
  phase,    \* where each call stands
  request   \* the request each call passes

vars == <<phase, request>>

Phase == {"new", "waiting", "holding", "released", "rejected"}

Holders == {w \in Waiter : phase[w] = "holding"}

(* A provider-wide limit below 1 counts as 1. *)
GlobalCap(q) == IF q.globalLimit < 1 THEN 1 ELSE q.globalLimit

OnProfile(p) == {h \in Holders : request[h].profileKey = p}
InFanOut(f)  == {h \in Holders : request[h].fanOutKey = f}

(* Every limit that request q carries leaves room for one more holder. *)
HasRoom(q) ==
  /\ Cardinality(Holders) < GlobalCap(q)
  /\ Cardinality(InFanOut(q.fanOutKey)) < q.fanOutLimit
  /\ q.profileLimit # Unset
       => Cardinality(OnProfile(q.profileKey)) < q.profileLimit

Init ==
  /\ phase = [w \in Waiter |-> "new"]
  /\ request \in [Waiter -> SlotRequests]

(* w asks for a slot. *)
Ask(w) ==
  /\ phase[w] = "new"
  /\ phase' = [phase EXCEPT ![w] = "waiting"]
  /\ UNCHANGED request

(* w's call fails: at once, or while it waits. *)
GiveUp(w) ==
  /\ phase[w] \in {"new", "waiting"}
  /\ phase' = [phase EXCEPT ![w] = "rejected"]
  /\ UNCHANGED request

Grant(w) ==
  /\ phase[w] = "waiting"
  /\ HasRoom(request[w])
  /\ phase' = [phase EXCEPT ![w] = "holding"]
  /\ UNCHANGED request

GiveBack(w) ==
  /\ phase[w] = "holding"
  /\ phase' = [phase EXCEPT ![w] = "released"]
  /\ UNCHANGED request

(* The next call of w begins, with a request of its own. *)
Renew(w) ==
  /\ phase[w] \in {"released", "rejected"}
  /\ phase' = [phase EXCEPT ![w] = "new"]
  /\ \E q \in SlotRequests : request' = [request EXCEPT ![w] = q]

Next ==
  \E w \in Waiter : Ask(w) \/ GiveUp(w) \/ Grant(w) \/ GiveBack(w) \/ Renew(w)

Spec == Init /\ [][Next]_vars
=============================================================================
