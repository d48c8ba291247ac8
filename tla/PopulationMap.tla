---------------------------- MODULE PopulationMap ----------------------------
(***************************************************************************)
(* The override row of one (shelter, SMS bucket) pair, written by the      *)
(* admin page and by scripts/set_shelter_sms_population_map.py through     *)
(* upsert_override of app/sms_population_map.py, and deleted by both.      *)
(*                                                                         *)
(* Every writer reads the row, awaits, and commits what it decided from    *)
(* the row it read.  The table's UniqueConstraint refuses a second row; a  *)
(* commit that updates a row deleted meanwhile raises StaleDataError; and  *)
(* SQLAlchemy writes nothing at all when the row it read already held the  *)
(* value.                                                                  *)
(***************************************************************************)
EXTENDS Naturals

CONSTANTS
  Writers,   \* calls to the page or the script, each made once
  Values,    \* FABT population types, and "disabled" for the NULL of the column
  NoValue    \* what a call that deletes, or has not begun, is to write

ASSUME PopulationMapAssumption == NoValue \notin Values

NoRow == [id |-> 0]

VARIABLES
  row,       \* the row of the pair, or NoRow
  nextId,    \* fresh primary keys
  call,      \* the writers
  took,      \* history: setters whose value was in force during their call
  overtaken  \* history: calls during which another call deleted the row

vars == <<row, nextId, call, took, overtaken>>

CallNew == [pc |-> "new", value |-> NoValue, id |-> 0]
Running == {w \in Writers : call[w].pc \notin {"new", "done", "raised"}}

Init ==
  /\ row = NoRow
  /\ nextId = 1
  /\ call = [w \in Writers |-> CallNew]
  /\ took = {}
  /\ overtaken = {}

(* What a setter does with a row it has read: update it, unless it already *)
(* holds the value.                                                        *)
ToUpdate(v) ==
  [pc |-> IF row.value = v THEN "done" ELSE "update", value |-> v, id |-> row.id]

(* Writes the value v into the row and notes whose value now holds.        *)
Write(w, id, v) ==
  /\ row' = [id |-> id, value |-> v]
  /\ call' = [call EXCEPT ![w].pc = "done"]
  /\ took' = took \cup {u \in Running : call[u].value = v}
  /\ UNCHANGED overtaken

-----------------------------------------------------------------------------
(* upsert_override *)

ReadRow(w, v) ==
  /\ call[w].pc = "new"
  /\ IF row = NoRow
     THEN /\ call' = [call EXCEPT ![w] = [pc |-> "insert", value |-> v, id |-> 0]]
          /\ UNCHANGED took
     ELSE /\ call' = [call EXCEPT ![w] = ToUpdate(v)]
          /\ took' = IF row.value = v THEN took \cup {w} ELSE took
  /\ UNCHANGED <<row, nextId, overtaken>>

CommitUpdate(w) ==
  /\ call[w].pc = "update"
  /\ row.id = call[w].id
  /\ Write(w, row.id, call[w].value)
  /\ UNCHANGED nextId

UpdateRaises(w) ==
  /\ call[w].pc = "update"
  /\ row.id # call[w].id
  /\ call' = [call EXCEPT ![w].pc = "raised"]
  /\ UNCHANGED <<row, nextId, took, overtaken>>

MutantKeyReused(w) ==
  /\ call[w].pc = "insert"
  /\ row = NoRow
  /\ Write(w, nextId, call[w].value)
  /\ UNCHANGED nextId

CommitInsert(w) ==
  /\ call[w].pc = "insert"
  /\ row = NoRow
  /\ nextId' = nextId + 1
  /\ Write(w, nextId, call[w].value)

MutantRefusedRaises(w) ==
  /\ call[w].pc = "insert"
  /\ row # NoRow
  /\ call' = [call EXCEPT ![w].pc = "raised"]
  /\ UNCHANGED <<row, nextId, took, overtaken>>

InsertRefused(w) ==
  /\ call[w].pc = "insert"
  /\ row # NoRow
  /\ call' = [call EXCEPT ![w].pc = "reread"]
  /\ UNCHANGED <<row, nextId, took, overtaken>>

MutantRereadTrustsOther(w) ==
  /\ call[w].pc = "reread"
  /\ row # NoRow
  /\ call' = [call EXCEPT ![w].pc = "done"]
  /\ UNCHANGED <<row, nextId, took, overtaken>>

Reread(w) ==
  /\ call[w].pc = "reread"
  /\ row # NoRow
  /\ call' = [call EXCEPT ![w] = ToUpdate(call[w].value)]
  /\ took' = IF row.value = call[w].value THEN took \cup {w} ELSE took
  /\ UNCHANGED <<row, nextId, overtaken>>

RereadRaises(w) ==
  /\ call[w].pc = "reread"
  /\ row = NoRow
  /\ call' = [call EXCEPT ![w].pc = "raised"]
  /\ UNCHANGED <<row, nextId, took, overtaken>>

-----------------------------------------------------------------------------
(* The page and the script set an override, to a type or to disabled. *)

SetOverride(w) == \E v \in Values : ReadRow(w, v)

(* The script clears the pair's row, whichever it is. *)
ReadToDelete(w) ==
  /\ call[w].pc = "new"
  /\ call' = [call EXCEPT ![w] = IF row = NoRow THEN [CallNew EXCEPT !.pc = "done"]
                                 ELSE [CallNew EXCEPT !.pc = "delete", !.id = row.id]]
  /\ UNCHANGED <<row, nextId, took, overtaken>>

(* The page deletes the row it listed, which may be gone, or gone and      *)
(* followed by another of the pair.                                        *)
ReadListed(w, id) ==
  /\ call[w].pc = "new"
  /\ call' = [call EXCEPT ![w] = IF row.id # id THEN [CallNew EXCEPT !.pc = "done"]
                                 ELSE [CallNew EXCEPT !.pc = "delete", !.id = id]]
  /\ UNCHANGED <<row, nextId, took, overtaken>>

CommitDelete(w) ==
  /\ call[w].pc = "delete"
  /\ call' = [call EXCEPT ![w].pc = "done"]
  /\ IF row.id = call[w].id
     THEN /\ row' = NoRow
          /\ overtaken' = overtaken \cup (Running \ {w})
     ELSE UNCHANGED <<row, overtaken>>
  /\ UNCHANGED <<nextId, took>>

Step(w) ==
  \/ SetOverride(w)
  \/ CommitUpdate(w) \/ UpdateRaises(w) \/ CommitInsert(w) \/ InsertRefused(w)
  \/ Reread(w) \/ RereadRaises(w)
  \/ ReadToDelete(w) \/ CommitDelete(w)
  \/ \E id \in 1 .. nextId - 1 : ReadListed(w, id)

Next == \E w \in Writers : Step(w)

Spec == Init /\ [][Next]_vars

-----------------------------------------------------------------------------
(* Types; keys are never reused. *)
TypeOK ==
  /\ nextId \in Nat \ {0}
  /\ row \in {NoRow} \cup [id : 1 .. nextId - 1, value : Values]
  /\ call \in [Writers -> [pc : {"new", "insert", "reread", "update", "delete",
                                 "done", "raised"},
                           value : Values \cup {NoValue}, id : 0 .. nextId - 1]]
  /\ took \subseteq Writers
  /\ overtaken \subseteq Writers

(* An administrator told that an override is saved did save it: it was in  *)
(* force at some moment of the call, whichever of insert, retry, update or *)
(* nothing at all the call came down to.                                   *)
SavedTookEffect ==
  \A w \in Writers : call[w].pc = "done" /\ call[w].value # NoValue => w \in took

(* Setters alone never make one another fail: upsert_override raises only  *)
(* if another call deleted the row while it ran                            *)
(* (sms_population_map.py:79-86, the "tolerant-of-a-concurrent-insert      *)
(* upsert behavior").                                                      *)
RaisesOnlyIfDeleted ==
  \A w \in Writers : call[w].pc = "raised" => w \in overtaken

(* Why: a call that has read a row still finds it unless overtaken.        *)
StillThere ==
  \A w \in Writers :
    /\ call[w].pc = "update" /\ w \notin overtaken => row # NoRow /\ row.id = call[w].id
    /\ call[w].pc = "reread" /\ w \notin overtaken => row # NoRow
    /\ call[w].pc \in {"update", "delete"} => call[w].id # 0
    /\ call[w].pc \in {"insert", "reread", "update"} => call[w].value # NoValue
    /\ call[w].pc = "delete" => call[w].value = NoValue

IInv == TypeOK /\ SavedTookEffect /\ RaisesOnlyIfDeleted /\ StillThere
=============================================================================
