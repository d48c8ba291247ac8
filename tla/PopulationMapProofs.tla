------------------------- MODULE PopulationMapProofs -------------------------
(***************************************************************************)
(* Proofs that a saved override took effect and that only a deletion makes *)
(* upsert_override raise, for any number of concurrent writers.            *)
(***************************************************************************)
EXTENDS PopulationMap, TLAPS

(* Which key a row has tells it from no row. *)
LEMMA RowKeys ==
  ASSUME TypeOK
  PROVE  /\ row = NoRow <=> row.id = 0
         /\ row # NoRow => row.id \in 1 .. nextId - 1 /\ row.value \in Values
BY DEF TypeOK, NoRow

LEMMA InvInit == Init => IInv
BY PopulationMapAssumption
DEF Init, IInv, TypeOK, SavedTookEffect, RaisesOnlyIfDeleted, StillThere, CallNew, NoRow

(* Every step of every writer keeps the types. *)
LEMMA TypeNext == TypeOK /\ StillThere /\ [Next]_vars => TypeOK'
<1> SUFFICES ASSUME TypeOK, StillThere, [Next]_vars PROVE TypeOK'
  OBVIOUS
<1>1. CASE UNCHANGED vars
  BY <1>1 DEF TypeOK, vars
<1>2. CASE Next
  <2> PICK w \in Writers : Step(w)
    BY <1>2 DEF Next
  <2>1. CASE SetOverride(w)
    BY <2>1, RowKeys DEF SetOverride, ReadRow, TypeOK, ToUpdate
  <2>2. CASE CommitUpdate(w)
    BY <2>2, RowKeys DEF CommitUpdate, Write, TypeOK, StillThere, Running
  <2>7. CASE CommitInsert(w)
    <3>1. nextId' = nextId + 1 /\ nextId' \in Nat \ {0}
      BY <2>7 DEF CommitInsert, TypeOK
    <3>2. call[w].value \in Values
      BY <2>7 DEF CommitInsert, TypeOK, StillThere
    <3>3. row' \in [id : 1 .. nextId' - 1, value : Values]
      BY <2>7, <3>1, <3>2 DEF CommitInsert, Write, TypeOK
    <3>4. \A u \in Writers : call[u].id \in 0 .. nextId' - 1
      BY <3>1 DEF TypeOK
    <3>5. call' \in [Writers -> [pc : {"new", "insert", "reread", "update", "delete",
                                       "done", "raised"},
                                 value : Values \cup {NoValue}, id : 0 .. nextId' - 1]]
      BY <2>7, <3>4 DEF CommitInsert, Write, TypeOK
    <3> QED
      BY <2>7, <3>1, <3>3, <3>5 DEF CommitInsert, Write, TypeOK, Running
  <2>3. CASE UpdateRaises(w) \/ InsertRefused(w) \/ RereadRaises(w)
    BY <2>3 DEF UpdateRaises, InsertRefused, RereadRaises, TypeOK
  <2>4. CASE Reread(w)
    BY <2>4, RowKeys DEF Reread, TypeOK, ToUpdate, StillThere
  <2>5. CASE ReadToDelete(w)
    <3> DEFINE c == IF row = NoRow THEN [CallNew EXCEPT !.pc = "done"]
                    ELSE [CallNew EXCEPT !.pc = "delete", !.id = row.id]
    <3>1. row # NoRow => row.id \in 0 .. nextId - 1
      BY RowKeys DEF TypeOK
    <3>2. 0 \in 0 .. nextId - 1
      BY DEF TypeOK
    <3>3. c \in [pc : {"done", "delete"}, value : {NoValue}, id : 0 .. nextId - 1]
      <4>1. CASE row = NoRow
        BY <4>1, <3>2 DEF CallNew
      <4>2. CASE row # NoRow
        BY <4>2, <3>1 DEF CallNew
      <4> QED
        BY <4>1, <4>2
    <3>4. call' = [call EXCEPT ![w] = c] /\ UNCHANGED <<row, nextId, took, overtaken>>
      BY <2>5 DEF ReadToDelete
    <3> HIDE DEF c
    <3> QED
      BY <3>3, <3>4 DEF TypeOK
  <2>6. CASE CommitDelete(w)
    BY <2>6 DEF CommitDelete, TypeOK, Running
  <2>8. CASE \E id \in 1 .. nextId - 1 : ReadListed(w, id)
    <3> PICK id \in 1 .. nextId - 1 : ReadListed(w, id)
      BY <2>8
    <3> DEFINE c == IF row.id # id THEN [CallNew EXCEPT !.pc = "done"]
                    ELSE [CallNew EXCEPT !.pc = "delete", !.id = id]
    <3>1. 0 \in 0 .. nextId - 1 /\ id \in 0 .. nextId - 1
      BY DEF TypeOK
    <3>2. c \in [pc : {"done", "delete"}, value : {NoValue}, id : 0 .. nextId - 1]
      BY <3>1 DEF CallNew
    <3>3. call' = [call EXCEPT ![w] = c] /\ UNCHANGED <<row, nextId, took, overtaken>>
      BY DEF ReadListed
    <3> HIDE DEF c
    <3> QED
      BY <3>2, <3>3 DEF TypeOK
  <2> QED
    BY <2>1, <2>2, <2>3, <2>4, <2>5, <2>6, <2>7, <2>8 DEF Step
<1> QED
  BY <1>1, <1>2

(* A call is done with a value only after that value was in force, and     *)
(* raises only after a deletion.                                           *)
LEMMA OutcomesNext ==
  IInv /\ [Next]_vars => SavedTookEffect' /\ RaisesOnlyIfDeleted' /\ StillThere'
<1> SUFFICES ASSUME IInv, [Next]_vars
             PROVE  SavedTookEffect' /\ RaisesOnlyIfDeleted' /\ StillThere'
  OBVIOUS
<1> USE DEF IInv
<1>t. TypeOK /\ TypeOK'
  BY TypeNext
<1>1. CASE UNCHANGED vars
  BY <1>1 DEF SavedTookEffect, RaisesOnlyIfDeleted, StillThere, vars
<1>2. CASE Next
  <2> PICK w \in Writers : Step(w)
    BY <1>2 DEF Next
  <2>1. CASE SetOverride(w)
    BY <2>1, RowKeys, <1>t, PopulationMapAssumption
    DEF SetOverride, ReadRow, TypeOK, ToUpdate, SavedTookEffect, RaisesOnlyIfDeleted, StillThere
  <2>2. CASE CommitUpdate(w)
    BY <2>2, RowKeys, <1>t
    DEF CommitUpdate, Write, TypeOK, Running, NoRow, SavedTookEffect,
        RaisesOnlyIfDeleted, StillThere
  <2>3. CASE CommitInsert(w)
    <3>1. /\ row = NoRow /\ row' # NoRow
          /\ call' = [call EXCEPT ![w].pc = "done"]
          /\ w \in took' /\ took \subseteq took' /\ overtaken' = overtaken
      BY <2>3, RowKeys, <1>t DEF CommitInsert, Write, TypeOK, Running, NoRow
    <3>2. \A u \in Writers \ {w} : call'[u] = call[u]
      BY <3>1 DEF TypeOK
    <3>3. call'[w] = [call[w] EXCEPT !.pc = "done"] /\ call'[w].pc = "done"
      BY <3>1 DEF TypeOK
    <3>4. \A u \in Writers : call[u].pc = "update" /\ u \notin overtaken => FALSE
      BY <3>1, RowKeys DEF StillThere
    <3>5. SavedTookEffect'
      BY <3>1, <3>2, <3>3 DEF SavedTookEffect
    <3>6. RaisesOnlyIfDeleted'
      BY <3>1, <3>2, <3>3 DEF RaisesOnlyIfDeleted
    <3>7. StillThere'
      BY <3>1, <3>2, <3>3, <3>4 DEF StillThere
    <3> QED
      BY <3>5, <3>6, <3>7
  <2>4. CASE UpdateRaises(w) \/ InsertRefused(w) \/ RereadRaises(w)
    BY <2>4 DEF UpdateRaises, InsertRefused, RereadRaises, TypeOK, SavedTookEffect,
                RaisesOnlyIfDeleted, StillThere
  <2>5. CASE Reread(w)
    BY <2>5, RowKeys
    DEF Reread, TypeOK, ToUpdate, SavedTookEffect, RaisesOnlyIfDeleted, StillThere
  <2>6. CASE ReadToDelete(w)
    BY <2>6, RowKeys DEF ReadToDelete, TypeOK, CallNew, SavedTookEffect,
                         RaisesOnlyIfDeleted, StillThere
  <2>7. CASE CommitDelete(w)
    BY <2>7, RowKeys DEF CommitDelete, TypeOK, Running, SavedTookEffect,
                         RaisesOnlyIfDeleted, StillThere
  <2>8. CASE \E id \in 1 .. nextId - 1 : ReadListed(w, id)
    BY <2>8, RowKeys DEF ReadListed, TypeOK, CallNew, SavedTookEffect,
                         RaisesOnlyIfDeleted, StillThere
  <2> QED
    BY <2>1, <2>2, <2>3, <2>4, <2>5, <2>6, <2>7, <2>8 DEF Step
<1> QED
  BY <1>1, <1>2

LEMMA InvNext == IInv /\ [Next]_vars => IInv'
BY TypeNext, OutcomesNext DEF IInv

(* What every call to the page and the script keeps. *)
THEOREM Invariance == Spec => []IInv
BY InvInit, InvNext, PTL DEF Spec

(* The row, its keys and the calls keep their types. *)
THEOREM TypeCorrect == Spec => []TypeOK
<1>1. IInv => TypeOK
  BY DEF IInv
<1> QED
  BY <1>1, Invariance, PTL

(* However many writers overlap, an override reported saved was in force   *)
(* during its call.                                                        *)
THEOREM SavedWasInForce == Spec => []SavedTookEffect
<1>1. IInv => SavedTookEffect
  BY DEF IInv
<1> QED
  BY <1>1, Invariance, PTL

(* Concurrent inserts and updates never make an upsert raise.              *)
THEOREM InsertsTolerated == Spec => []RaisesOnlyIfDeleted
<1>1. IInv => RaisesOnlyIfDeleted
  BY DEF IInv
<1> QED
  BY <1>1, Invariance, PTL
=============================================================================
