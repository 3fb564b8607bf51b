----------------------------- MODULE ChildService -----------------------------
(***************************************************************************)
(* What the pool of child sessions promises to the calls that use it: a    *)
(* group has as many calls at work as slots, one call drives a session at  *)
(* a time, a slot is given back once and after the driving is over, and    *)
(* never to a group that was reset in between.                             *)
(***************************************************************************)
EXTENDS Naturals, FiniteSets

CONSTANTS
  Calls, Sessions,
  Groups,     \* without "none" and "lost"
  Slots,      \* slots of each group
  NoSession   \* not in Sessions

VARIABLES
  slot,       \* the group a call has a slot of, "none", or "lost" since the groups were reset
  drives      \* the session a call drives, or NoSession

Init ==
  /\ slot = [c \in Calls |-> "none"]
  /\ drives = [c \in Calls |-> NoSession]

Taken(group) == {c \in Calls : slot[c] = group}
Undriven(s)  == \A c \in Calls : drives[c] # s

(* A call takes a slot, to spawn or reopen a child or to drive one that is open. *)
Enter(c, group, s) ==
  /\ slot[c] = "none" /\ drives[c] = NoSession
  /\ Cardinality(Taken(group)) < Slots[group]
  /\ s # NoSession => Undriven(s)
  /\ slot' = [slot EXCEPT ![c] = group]
  /\ drives' = [drives EXCEPT ![c] = s]

Drive(c, s) ==
  /\ slot[c] # "none" /\ drives[c] = NoSession /\ Undriven(s)
  /\ drives' = [drives EXCEPT ![c] = s]
  /\ UNCHANGED slot

Stop(c) ==
  /\ drives[c] # NoSession
  /\ drives' = [drives EXCEPT ![c] = NoSession]
  /\ UNCHANGED slot

Leave(c) ==
  /\ slot[c] # "none" /\ drives[c] = NoSession
  /\ slot' = [slot EXCEPT ![c] = "none"]
  /\ UNCHANGED drives

(* The session ends: what is in flight goes on without a slot. *)
Reset ==
  /\ slot' = [c \in Calls |-> IF slot[c] = "none" THEN "none" ELSE "lost"]
  /\ UNCHANGED drives

Restart ==
  /\ slot' = [c \in Calls |-> "none"]
  /\ drives' = [c \in Calls |-> NoSession]

Next ==
  \/ \E c \in Calls, group \in Groups, s \in Sessions \cup {NoSession} : Enter(c, group, s)
  \/ \E c \in Calls, s \in Sessions : Drive(c, s)
  \/ \E c \in Calls : Stop(c) \/ Leave(c)
  \/ Reset \/ Restart

Spec == Init /\ [][Next]_<<slot, drives>>
=============================================================================
