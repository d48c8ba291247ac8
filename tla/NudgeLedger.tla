---------------------------- MODULE NudgeLedger ----------------------------
(***************************************************************************)
(* What the nudge table promises, whatever the jobs and requests that      *)
(* write it do in between: the rule of assumptions 4 and 5 of              *)
(* app/nudge/scheduler.py.  A shelter has at most one pending nudge of     *)
(* each level; a nudge is opened under a fresh number and only when none   *)
(* of its level is pending; only a shelter that has been nudged can be     *)
(* escalated; resolving closes pending nudges of one shelter, and a nudge  *)
(* that was closed never opens again.                                      *)
(***************************************************************************)
EXTENDS Integers

CONSTANT Shelters

Levels == {1, 2}

VARIABLES
  issued,   \* how many nudges were ever put on record
  pending,  \* pending[s][l]: numbers of the unresolved nudges of a level
  nudged    \* shelters that ever got a level-1 nudge

vars == <<issued, pending, nudged>>

Init ==
  /\ issued = 0
  /\ pending = [s \in Shelters |-> [l \in Levels |-> {}]]
  /\ nudged = {}

Open(s, l) ==
  /\ pending[s][l] = {}
  /\ issued' = issued + 1
  /\ pending' = [pending EXCEPT ![s][l] = {issued + 1}]

NudgeShelter(s) ==
  /\ Open(s, 1)
  /\ nudged' = nudged \cup {s}

EscalateShelter(s) ==
  /\ s \in nudged
  /\ Open(s, 2)
  /\ UNCHANGED nudged

ResolveShelter(s, ls) ==
  /\ pending' = [pending EXCEPT ![s] =
                   [l \in Levels |-> IF l \in ls THEN {} ELSE pending[s][l]]]
  /\ UNCHANGED <<issued, nudged>>

Next ==
  \E s \in Shelters :
    \/ NudgeShelter(s)
    \/ EscalateShelter(s)
    \/ \E ls \in SUBSET Levels : ResolveShelter(s, ls)

Spec == Init /\ [][Next]_vars
=============================================================================
