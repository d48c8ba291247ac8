---------------------------- MODULE NudgeProofs ----------------------------
(***************************************************************************)
(* Proofs about the nudge jobs for every set of shelters, coordinators,    *)
(* populations and requests, and every bound.                              *)
(***************************************************************************)
EXTENDS Nudge, TLAPS

-----------------------------------------------------------------------------
(* What the two writes of the nudge table do. *)

LEMMA AppendRow ==
  ASSUME NEW S, NEW seq \in Seq(S), NEW e \in S
  PROVE  /\ Append(seq, e) \in Seq(S)
         /\ DOMAIN Append(seq, e) = DOMAIN seq \cup {Len(seq) + 1}
         /\ \A i \in DOMAIN seq : Append(seq, e)[i] = seq[i]
         /\ Append(seq, e)[Len(seq) + 1] = e
         /\ Len(seq) + 1 \notin DOMAIN seq
         /\ DOMAIN seq = 1 .. Len(seq)
         /\ Len(seq) \in Nat
  OBVIOUS

LEMMA ResolveRows ==
  ASSUME nudges \in Seq(Row), NEW ids
  PROVE  /\ Resolve(ids) \in Seq(Row)
         /\ DOMAIN Resolve(ids) = DOMAIN nudges
         /\ Len(Resolve(ids)) = Len(nudges)
         /\ \A i \in DOMAIN nudges :
              /\ Resolve(ids)[i] \in Row
              /\ Resolve(ids)[i].shelter = nudges[i].shelter
              /\ Resolve(ids)[i].level = nudges[i].level
              /\ Resolve(ids)[i].sentAt = nudges[i].sentAt
              /\ Resolve(ids)[i].resolved = (i \in ids \/ nudges[i].resolved)
<1> DEFINE f(i) == IF i \in ids THEN [nudges[i] EXCEPT !.resolved = TRUE] ELSE nudges[i]
<1>1. \A i \in DOMAIN nudges : nudges[i] \in Row
  OBVIOUS
<1>2. \A i \in DOMAIN nudges :
        /\ f(i) \in Row
        /\ f(i).shelter = nudges[i].shelter
        /\ f(i).level = nudges[i].level
        /\ f(i).sentAt = nudges[i].sentAt
        /\ f(i).resolved = (i \in ids \/ nudges[i].resolved)
  BY <1>1 DEF Row
<1>3. Resolve(ids) = [i \in 1 .. Len(nudges) |-> f(i)]
  BY DEF Resolve
<1>4. Len(nudges) \in Nat /\ DOMAIN nudges = 1 .. Len(nudges)
  OBVIOUS
<1> HIDE DEF f
<1>5. [i \in 1 .. Len(nudges) |-> f(i)] \in Seq(Row)
  BY <1>2, <1>4
<1> QED
  BY <1>2, <1>3, <1>4, <1>5
-----------------------------------------------------------------------------
(* Type correctness. *)

LEMMA TypeInit == Init => TypeOK
  BY NudgeAssumption, FreshnessAssumption
  DEF Init, TypeOK, Times, StaleJob, EscJob, Request, StaleIdle, EscIdle, RequestNew,
      Never

(* A request's own step writes its own record and, perhaps, the counts or  *)
(* the nudge table.                                                        *)
LEMMA RequestTypes ==
  ASSUME TypeOK, NEW r \in Requests, RequestStep(r)
  PROVE  TypeOK'
<1> USE NudgeAssumption DEF TypeOK
<1>1. /\ request[r] \in Request
      /\ Len(nudges) \in Nat
      /\ DOMAIN nudges \subseteq Nat
  OBVIOUS
<1>2. \A rec \in Request : [request EXCEPT ![r] = rec] \in [Requests -> Request]
  OBVIOUS
<1>3. ASSUME NEW c \in Coordinators, NEW ps \in SUBSET Populations, RequestStart(r, c, ps)
      PROVE  TypeOK'
  <2>1. [request[r] EXCEPT !.pc = "post", !.shelter = ShelterOf[c], !.todo = ps] \in Request
    BY <1>1 DEF Request
  <2> QED
    BY <1>2, <1>3, <2>1 DEF RequestStart
<1>4. ASSUME NEW p \in Populations, PostSaved(r, p) PROVE TypeOK'
  <2>1. [request[r] EXCEPT !.todo = request[r].todo \ {p}, !.saved = TRUE,
                             !.mark = Len(nudges)] \in Request
    BY <1>1 DEF Request
  <2>2. recorded' \in [Shelters -> [Populations -> {Never} \cup Times]]
    BY <1>4 DEF PostSaved
  <2> QED
    BY <1>2, <1>4, <2>1, <2>2 DEF PostSaved
<1>5. ASSUME NEW p \in Populations, PostRejected(r, p) PROVE TypeOK'
  <2>1. [request[r] EXCEPT !.todo = request[r].todo \ {p}] \in Request
    BY <1>1 DEF Request
  <2>2. recorded' \in [Shelters -> [Populations -> {Never} \cup Times]]
    BY <1>5 DEF PostRejected
  <2> QED
    BY <1>2, <1>5, <2>1, <2>2 DEF PostRejected
<1>6. CASE NothingSaved(r) \/ Reply(r)
  <2>1. /\ [request[r] EXCEPT !.pc = "rejected"] \in Request
        /\ [request[r] EXCEPT !.pc = "saved"] \in Request
    BY <1>1 DEF Request
  <2> QED
    BY <1>2, <1>6, <2>1 DEF NothingSaved, Reply
<1>7. CASE ResolveSelect(r)
  <2>1. UnresolvedNudges(request[r].shelter) \subseteq Nat
    BY <1>1 DEF UnresolvedNudges
  <2>2. [request[r] EXCEPT !.pc = "resolve", !.ids = UnresolvedNudges(request[r].shelter)]
          \in Request
    BY <1>1, <2>1 DEF Request
  <2> QED
    BY <1>2, <1>7, <2>2 DEF ResolveSelect
<1>8. CASE ResolveCommit(r)
  <2>1. [request[r] EXCEPT !.pc = "log", !.ids = {}] \in Request
    BY <1>1 DEF Request
  <2>2. nudges' \in Seq(Row)
    BY <1>8, ResolveRows DEF ResolveCommit
  <2> QED
    BY <1>2, <1>8, <2>1, <2>2 DEF ResolveCommit
<1>9. CASE RequestFail(r)
  <2>1. [RequestNew EXCEPT !.pc = "failed"] \in Request
    BY DEF RequestNew, Request
  <2>2. faults' \in 0 .. MaxFaults
    BY <1>9 DEF RequestFail
  <2> QED
    BY <1>2, <1>9, <2>1, <2>2 DEF RequestFail
<1> QED
  BY <1>3, <1>4, <1>5, <1>6, <1>7, <1>8, <1>9 DEF RequestStep

LEMMA TypeNext == IInv /\ [Next]_vars => TypeOK'
<1> SUFFICES ASSUME IInv, [Next]_vars PROVE TypeOK'
  OBVIOUS
<1> USE NudgeAssumption, FreshnessAssumption DEF TypeOK, Times, StaleJob, EscJob
<1> TypeOK /\ StaleOwnsShelter /\ EscOwnsShelter
  BY DEF IInv
<1>1. CASE Tick
  BY <1>1 DEF Tick, Jobs, Fired
<1>2. CASE StaleStart \/ StaleList \/ StaleCheckPending \/ StaleLoad
  <2>1. ActiveCoordinators(stale.at, Coordinators) \subseteq Coordinators
    BY DEF ActiveCoordinators
  <2>2. CASE StaleStart
    BY <2>2 DEF StaleStart
  <2>3. CASE StaleList
    BY <2>3 DEF StaleList
  <2>4. CASE StaleCheckPending
    BY <2>4 DEF StaleCheckPending
  <2>5. CASE StaleLoad
    BY <2>1, <2>5 DEF StaleLoad
  <2> QED
    BY <1>2, <2>2, <2>3, <2>4, <2>5
<1>3. CASE StaleDone \/ StaleUnreachable \/ StaleFail
  BY <1>3 DEF StaleDone, StaleUnreachable, StaleFail, StaleIdle
<1>4. ASSUME NEW s \in Shelters, StaleCounts(s) PROVE TypeOK'
  BY <1>4 DEF StaleCounts
<1>5. ASSUME NEW c \in Coordinators, StaleSend(c) PROVE TypeOK'
  BY <1>5 DEF StaleSend, Levels, Coordinator
<1>6. CASE StaleCommit
  <2>1. NudgeRow(stale.at, Coordinator, stale.now) \in Row
    BY <1>6 DEF StaleCommit, StaleOwnsShelter, NudgeRow, Row, Levels
  <2>2. nudges' \in Seq(Row)
    BY <1>6, <2>1 DEF StaleCommit
  <2> QED
    BY <1>6, <2>2 DEF StaleCommit
<1>7. CASE EscStart \/ EscSelect \/ EscCheckPending \/ EscLoad
  <2>1. ActiveCoordinators(nudges[esc.at].shelter, Leads) \subseteq Coordinators
    BY DEF ActiveCoordinators
  <2>2. PendingEscalation(esc.now) \subseteq Nat
    BY DEF PendingEscalation
  <2>3. CASE EscStart
    BY <2>3 DEF EscStart
  <2>4. CASE EscSelect
    BY <2>2, <2>4 DEF EscSelect
  <2>5. CASE EscCheckPending
    BY <2>5 DEF EscCheckPending
  <2>6. CASE EscLoad
    BY <2>1, <2>6 DEF EscLoad
  <2> QED
    BY <1>7, <2>3, <2>4, <2>5, <2>6
<1>8. CASE EscDone \/ EscUnreachable \/ EscFail
  BY <1>8 DEF EscDone, EscUnreachable, EscFail, EscIdle
<1>9. ASSUME NEW i \in DOMAIN nudges, EscCounts(i) PROVE TypeOK'
  BY <1>9 DEF EscCounts
<1>10. ASSUME NEW c \in Coordinators, EscSend(c) PROVE TypeOK'
  BY <1>10 DEF EscSend, Levels, Lead
<1>11. CASE EscResolve
  <2>1. nudges' \in Seq(Row)
    BY <1>11, ResolveRows DEF EscResolve
  <2> QED
    BY <1>11, <2>1 DEF EscResolve
<1>12. CASE EscCommit
  <2>1. nudges[esc.at] \in Row
    BY <1>12 DEF EscCommit, EscOwnsShelter, EscAim
  <2>2. NudgeRow(nudges[esc.at].shelter, Lead, esc.now) \in Row
    BY <2>1 DEF NudgeRow, Row, Levels
  <2>3. nudges' \in Seq(Row)
    BY <1>12, <2>2 DEF EscCommit
  <2> QED
    BY <1>12, <2>3 DEF EscCommit
<1>13. ASSUME NEW r \in Requests, RequestStep(r) PROVE TypeOK'
  BY <1>13, RequestTypes
<1>14. ASSUME NEW s \in Shelters, NEW p \in Populations, FabtUpdate(s, p) PROVE TypeOK'
  BY <1>14 DEF FabtUpdate
<1>15. ASSUME NEW c \in Toggled, ToggleActive(c) PROVE TypeOK'
  BY <1>15, NudgeAssumption DEF ToggleActive
<1>16. ASSUME NEW s \in Reclassified, ChangeStatus(s) PROVE TypeOK'
  BY <1>16, NudgeAssumption DEF ChangeStatus
<1>17. CASE Crash
  <2>1. [RequestNew EXCEPT !.pc = "failed"] \in Request
    BY DEF RequestNew, Request
  <2>2. request' \in [Requests -> Request]
    BY <1>17, <2>1 DEF Crash
  <2>3. stale' \in StaleJob /\ esc' \in EscJob
    BY <1>17 DEF Crash, StaleIdle, EscIdle
  <2>4. due' \subseteq Jobs /\ faults' \in 0 .. MaxFaults
    BY <1>17 DEF Crash
  <2>5. UNCHANGED <<clock, recorded, dv, active, nudges, lastText>>
    BY <1>17 DEF Crash
  <2> QED
    BY <2>2, <2>3, <2>4, <2>5
<1>18. CASE UNCHANGED vars
  BY <1>18 DEF vars
<1> QED
  BY <1>1, <1>2, <1>3, <1>4, <1>5, <1>6, <1>7, <1>8, <1>9, <1>10, <1>11, <1>12,
     <1>13, <1>14, <1>15, <1>16, <1>17, <1>18
  DEF Next, StaleProgress, EscProgress

-----------------------------------------------------------------------------
(* The table under a step: only four actions write it. *)

LEMMA TableWriters ==
  ASSUME [Next]_vars
  PROVE  \/ nudges' = nudges
         \/ StaleCommit \/ EscCommit \/ EscResolve
         \/ \E r \in Requests : ResolveCommit(r)
<1>1. CASE StaleProgress \/ StaleFail
  BY <1>1 DEF StaleProgress, StaleStart, StaleList, StaleCheckPending, StaleLoad,
              StaleDone, StaleUnreachable, StaleCounts, StaleSend, StaleFail
<1>2. CASE EscProgress \/ EscFail
  BY <1>2 DEF EscProgress, EscStart, EscSelect, EscCheckPending, EscLoad,
              EscDone, EscUnreachable, EscCounts, EscSend, EscFail
<1>3. CASE \E r \in Requests : RequestStep(r)
  BY <1>3 DEF RequestStep, RequestStart, PostSaved, PostRejected, NothingSaved,
              ResolveSelect, Reply, RequestFail
<1>4. CASE Tick \/ Crash \/ UNCHANGED vars
  BY <1>4 DEF Tick, Crash, vars
<1>5. CASE \/ \E s \in Shelters, p \in Populations : FabtUpdate(s, p)
           \/ \E s \in Reclassified : ChangeStatus(s)
           \/ \E c \in Toggled : ToggleActive(c)
  BY <1>5 DEF FabtUpdate, ChangeStatus, ToggleActive
<1> QED
  BY <1>1, <1>2, <1>3, <1>4, <1>5 DEF Next

(* Only the two jobs text. *)
LEMMA TextSenders ==
  ASSUME [Next]_vars
  PROVE  lastText' = lastText \/ \E c \in Coordinators : StaleSend(c) \/ EscSend(c)
<1>1. CASE StaleProgress \/ StaleFail
  BY <1>1 DEF StaleProgress, StaleStart, StaleList, StaleCheckPending, StaleLoad,
              StaleCommit, StaleDone, StaleUnreachable, StaleCounts, StaleFail
<1>2. CASE EscProgress \/ EscFail
  BY <1>2 DEF EscProgress, EscStart, EscSelect, EscCheckPending, EscLoad,
              EscResolve, EscCommit, EscDone, EscUnreachable, EscCounts, EscFail
<1>3. CASE \E r \in Requests : RequestStep(r)
  BY <1>3 DEF RequestStep, RequestStart, PostSaved, PostRejected, NothingSaved,
              ResolveSelect, ResolveCommit, Reply, RequestFail
<1> QED
  BY <1>1, <1>2, <1>3 DEF Next, Tick, FabtUpdate, ChangeStatus, ToggleActive, Crash, vars

(* The rows the two jobs commit. *)
LEMMA StaleRow ==
  ASSUME IInv, StaleCommit
  PROVE  /\ stale.at \in Shelters
         /\ Pending(stale.at, Coordinator) = {}
         /\ NudgeRow(stale.at, Coordinator, stale.now) \in Row
         /\ nudges \in Seq(Row)
  BY DEF IInv, TypeOK, StaleCommit, StaleOwnsShelter, StaleJob, NudgeRow, Row, Levels

LEMMA EscRow ==
  ASSUME IInv, EscCommit
  PROVE  /\ EscAim(esc.at)
         /\ nudges[esc.at].shelter \in Shelters
         /\ Pending(nudges[esc.at].shelter, Lead) = {}
         /\ NudgeRow(nudges[esc.at].shelter, Lead, esc.now) \in Row
         /\ nudges \in Seq(Row)
<1>1. EscAim(esc.at) /\ Pending(nudges[esc.at].shelter, Lead) = {} /\ nudges \in Seq(Row)
  BY DEF IInv, TypeOK, EscCommit, EscOwnsShelter
<1>2. nudges[esc.at] \in Row
  BY <1>1 DEF EscAim
<1>3. esc.now \in Times
  BY DEF IInv, TypeOK, EscJob
<1> QED
  BY <1>1, <1>2, <1>3 DEF NudgeRow, Row, Levels

LEMMA PendingAppend ==
  ASSUME nudges \in Seq(Row), NEW s, NEW l, NEW now, NudgeRow(s, l, now) \in Row,
         nudges' = Append(nudges, NudgeRow(s, l, now)), NEW t, NEW k
  PROVE  Pending(t, k)' = IF t = s /\ k = l THEN Pending(t, k) \cup {Len(nudges) + 1}
                          ELSE Pending(t, k)
<1> DEFINE row == NudgeRow(s, l, now)
<1>1. row.shelter = s /\ row.level = l /\ row.resolved = FALSE
  BY DEF NudgeRow
<1>2. /\ DOMAIN nudges' = DOMAIN nudges \cup {Len(nudges) + 1}
      /\ \A i \in DOMAIN nudges : nudges'[i] = nudges[i]
      /\ nudges'[Len(nudges) + 1] = row
      /\ Len(nudges) + 1 \notin DOMAIN nudges
  BY AppendRow
<1> HIDE DEF row
<1> QED
  BY <1>1, <1>2 DEF Pending, Open

LEMMA PendingResolve ==
  ASSUME nudges \in Seq(Row), NEW ids, nudges' = Resolve(ids), NEW t, NEW k
  PROVE  Pending(t, k)' = Pending(t, k) \ ids
<1>1. /\ DOMAIN nudges' = DOMAIN nudges
      /\ \A i \in DOMAIN nudges :
           /\ nudges'[i].shelter = nudges[i].shelter
           /\ nudges'[i].level = nudges[i].level
           /\ nudges'[i].resolved = (i \in ids \/ nudges[i].resolved)
  BY ResolveRows
<1>2. \A i \in DOMAIN nudges : nudges[i] \in Row
  OBVIOUS
<1>3. \A i \in DOMAIN nudges : nudges[i].resolved \in BOOLEAN
  BY <1>2 DEF Row
<1> QED
  BY <1>1, <1>3 DEF Pending, Open

(* No step renumbers, moves or reopens a row. *)
LEMMA RowsKept ==
  ASSUME IInv, [Next]_vars
  PROVE  /\ Len(nudges) <= Len(nudges')
         /\ \A i \in DOMAIN nudges :
              /\ i \in DOMAIN nudges'
              /\ nudges'[i].shelter = nudges[i].shelter
              /\ nudges'[i].level = nudges[i].level
              /\ nudges'[i].sentAt = nudges[i].sentAt
              /\ nudges[i].resolved => nudges'[i].resolved
<1>1. nudges \in Seq(Row)
  BY DEF IInv, TypeOK
<1>2. CASE nudges' = nudges
  BY <1>1, <1>2
<1>3. CASE StaleCommit
  <2>1. nudges' = Append(nudges, NudgeRow(stale.at, Coordinator, stale.now))
    BY <1>3 DEF StaleCommit
  <2> QED
    BY <1>1, <1>3, <2>1, StaleRow, AppendRow
<1>4. CASE EscCommit
  <2>1. nudges' = Append(nudges, NudgeRow(nudges[esc.at].shelter, Lead, esc.now))
    BY <1>4 DEF EscCommit
  <2> QED
    BY <1>1, <1>4, <2>1, EscRow, AppendRow
<1>5. ASSUME NEW ids, nudges' = Resolve(ids)
      PROVE  /\ Len(nudges) <= Len(nudges')
             /\ \A i \in DOMAIN nudges :
                  /\ i \in DOMAIN nudges'
                  /\ nudges'[i].shelter = nudges[i].shelter
                  /\ nudges'[i].level = nudges[i].level
                  /\ nudges'[i].sentAt = nudges[i].sentAt
                  /\ nudges[i].resolved => nudges'[i].resolved
  <2>1. /\ Len(nudges') = Len(nudges) /\ Len(nudges) \in Nat
        /\ DOMAIN nudges' = DOMAIN nudges
    BY <1>1, <1>5, ResolveRows
  <2>2. ASSUME NEW i \in DOMAIN nudges
        PROVE  /\ nudges'[i].shelter = nudges[i].shelter
               /\ nudges'[i].level = nudges[i].level
               /\ nudges'[i].sentAt = nudges[i].sentAt
               /\ nudges'[i].resolved = (i \in ids \/ nudges[i].resolved)
    BY <1>1, <1>5, <2>2, ResolveRows
  <2>3. \A i \in DOMAIN nudges : nudges[i].resolved => nudges'[i].resolved
    BY <2>2
  <2> QED
    BY <2>1, <2>2, <2>3
<1> QED
  BY <1>2, <1>3, <1>4, <1>5, TableWriters DEF EscResolve, ResolveCommit

-----------------------------------------------------------------------------
(* The inductive invariant. *)

(* How the set of pending nudges of a shelter and level moves in a step:   *)
(* it shrinks, or it was empty and gains one.                              *)
LEMMA PendingStep ==
  ASSUME IInv, [Next]_vars, NEW s \in Shelters, NEW l \in Levels
  PROVE  \/ Pending(s, l)' \subseteq Pending(s, l)
         \/ /\ Pending(s, l) = {}
            /\ Pending(s, l)' = {Len(nudges) + 1}
            /\ \/ StaleCommit /\ s = stale.at /\ l = Coordinator
               \/ EscCommit /\ s = nudges[esc.at].shelter /\ l = Lead
<1>1. nudges \in Seq(Row)
  BY DEF IInv, TypeOK
<1>2. CASE nudges' = nudges
  BY <1>2 DEF Pending, Open
<1>3. CASE StaleCommit
  <2>1. nudges' = Append(nudges, NudgeRow(stale.at, Coordinator, stale.now))
    BY <1>3 DEF StaleCommit
  <2> QED
    BY <1>1, <1>3, <2>1, StaleRow, PendingAppend
<1>4. CASE EscCommit
  <2>1. nudges' = Append(nudges, NudgeRow(nudges[esc.at].shelter, Lead, esc.now))
    BY <1>4 DEF EscCommit
  <2> QED
    BY <1>1, <1>4, <2>1, EscRow, PendingAppend
<1>5. ASSUME NEW ids, nudges' = Resolve(ids)
      PROVE  Pending(s, l)' \subseteq Pending(s, l)
  BY <1>1, <1>5, PendingResolve
<1> QED
  BY <1>2, <1>3, <1>4, <1>5, TableWriters DEF EscResolve, ResolveCommit

LEMMA AtMostOneNext == IInv /\ [Next]_vars => AtMostOnePending'
<1> SUFFICES ASSUME IInv, [Next]_vars, NEW s \in Shelters, NEW l \in Levels,
                    NEW i \in Pending(s, l)', NEW j \in Pending(s, l)'
             PROVE  i = j
  BY DEF AtMostOnePending
<1>1. AtMostOnePending
  BY DEF IInv
<1> QED
  BY <1>1, PendingStep DEF AtMostOnePending

(* A row of the new table is a row of the old one or the one committed.    *)
LEMMA EscalationNext == IInv /\ [Next]_vars => EscalationWaits'
<1> SUFFICES ASSUME IInv, [Next]_vars, NEW j \in DOMAIN nudges', nudges'[j].level = Lead
             PROVE  \E i \in 1 .. j - 1 :
                      /\ nudges'[i].shelter = nudges'[j].shelter
                      /\ nudges'[i].level = Coordinator
                      /\ nudges'[j].sentAt - nudges'[i].sentAt >= EscalationWindow
  BY DEF EscalationWaits
<1>1. nudges \in Seq(Row) /\ DOMAIN nudges = 1 .. Len(nudges) /\ Len(nudges) \in Nat
  BY DEF IInv, TypeOK
<1>2. CASE j \in DOMAIN nudges
  <2>1. nudges[j].level = Lead
    BY <1>2, RowsKept
  <2>2. PICK i \in 1 .. j - 1 :
          /\ nudges[i].shelter = nudges[j].shelter /\ nudges[i].level = Coordinator
          /\ nudges[j].sentAt - nudges[i].sentAt >= EscalationWindow
    BY <1>2, <2>1 DEF IInv, EscalationWaits
  <2>3. i \in DOMAIN nudges
    BY <1>1, <1>2
  <2> QED
    BY <1>2, <2>2, <2>3, RowsKept
<1>3. CASE j \notin DOMAIN nudges
  <2>1. nudges' # nudges /\ ~(\E ids : nudges' = Resolve(ids))
    BY <1>1, <1>3, ResolveRows
  <2>2. StaleCommit \/ EscCommit
    BY <2>1, TableWriters DEF EscResolve, ResolveCommit
  <2>3. CASE StaleCommit
    <3>1. nudges' = Append(nudges, NudgeRow(stale.at, Coordinator, stale.now))
      BY <2>3 DEF StaleCommit
    <3>2. nudges'[j] = NudgeRow(stale.at, Coordinator, stale.now)
      BY <1>1, <1>3, <2>3, <3>1, StaleRow, AppendRow
    <3> QED
      BY <3>2 DEF NudgeRow, Coordinator, Lead
  <2>4. CASE EscCommit
    <3>1. nudges' = Append(nudges, NudgeRow(nudges[esc.at].shelter, Lead, esc.now))
      BY <2>4 DEF EscCommit
    <3>2. /\ j = Len(nudges) + 1
          /\ nudges'[j] = NudgeRow(nudges[esc.at].shelter, Lead, esc.now)
      BY <1>1, <1>3, <2>4, <3>1, EscRow, AppendRow
    <3>3. EscAim(esc.at)
      BY <2>4, EscRow
    <3>4. esc.at \in 1 .. j - 1
      BY <1>1, <3>2, <3>3 DEF EscAim
    <3>5. /\ nudges'[esc.at].shelter = nudges'[j].shelter
          /\ nudges'[esc.at].level = Coordinator
          /\ nudges'[j].sentAt - nudges'[esc.at].sentAt >= EscalationWindow
      BY <3>2, <3>3, RowsKept DEF EscAim, NudgeRow
    <3> QED
      BY <3>4, <3>5
  <2> QED
    BY <2>2, <2>3, <2>4
<1> QED
  BY <1>2, <1>3

LEMMA StaleOwnsNext == IInv /\ [Next]_vars => StaleOwnsShelter'
<1> SUFFICES ASSUME IInv, [Next]_vars PROVE StaleOwnsShelter'
  OBVIOUS
<1>1. TypeOK /\ StaleOwnsShelter /\ stale \in StaleJob
  BY DEF IInv, TypeOK
<1>2. CASE stale' = stale
  <2>1. ~StaleCommit
    BY <1>1, <1>2 DEF StaleCommit, StaleJob
  <2>2. \A s \in Shelters : Pending(s, Coordinator)' \subseteq Pending(s, Coordinator)
    BY <2>1, PendingStep DEF Levels, Coordinator, Lead
  <2>3. stale.pc \in {"load", "send"} => Pending(stale.at, Coordinator)' = {}
    BY <1>1, <1>2, <2>2 DEF StaleOwnsShelter
  <2> QED
    BY <1>1, <1>2, <2>3 DEF StaleOwnsShelter, Pending, Open
<1>3. CASE StaleStart \/ StaleList \/ StaleCommit \/ StaleDone \/ StaleUnreachable \/ StaleFail
  <2>1. CASE StaleStart \/ StaleList \/ StaleCommit
    <3>1. stale'.pc \in {"list", "next"}
      BY <1>1, <2>1 DEF StaleStart, StaleList, StaleCommit, StaleJob
    <3> QED
      BY <3>1 DEF StaleOwnsShelter
  <2>2. CASE StaleDone \/ StaleUnreachable \/ StaleFail
    BY <2>2 DEF StaleDone, StaleUnreachable, StaleFail, StaleIdle, StaleOwnsShelter
  <2> QED
    BY <1>3, <2>1, <2>2
<1>4. ASSUME NEW s \in Shelters, StaleCounts(s) PROVE StaleOwnsShelter'
  <2>1. /\ stale'.pc \in {"next", "check"}
        /\ stale'.pc = "check" => stale'.at = s
    BY <1>1, <1>4 DEF StaleCounts, StaleJob
  <2> QED
    BY <2>1 DEF StaleOwnsShelter
<1>5. CASE StaleCheckPending
  <2>1. /\ stale'.at = stale.at /\ stale.at \in Shelters
        /\ stale'.pc \in {"next", "load"}
        /\ stale'.pc = "load" => ~HasUnresolvedNudge(stale.at, Coordinator)
        /\ nudges' = nudges
    BY <1>1, <1>5 DEF StaleCheckPending, StaleJob, StaleOwnsShelter
  <2> QED
    BY <2>1 DEF StaleOwnsShelter, HasUnresolvedNudge, Pending, Open
<1>6. CASE StaleLoad
  <2>1. /\ stale'.at = stale.at /\ stale.at \in Shelters
        /\ stale'.pc = "send"
        /\ stale'.rcpt = ActiveCoordinators(stale.at, Coordinators)
        /\ Pending(stale.at, Coordinator) = {}
        /\ nudges' = nudges
    BY <1>1, <1>6 DEF StaleLoad, StaleJob, StaleOwnsShelter
  <2> QED
    BY <2>1 DEF StaleOwnsShelter, ActiveCoordinators, Pending, Open
<1>7. ASSUME NEW c \in Coordinators, StaleSend(c) PROVE StaleOwnsShelter'
  <2>1. /\ stale'.at = stale.at /\ stale.at \in Shelters
        /\ stale'.pc = "send" /\ stale.pc = "send"
        /\ stale'.rcpt \subseteq stale.rcpt
        /\ nudges' = nudges
    BY <1>1, <1>7 DEF StaleSend, StaleJob, StaleOwnsShelter
  <2> QED
    BY <1>1, <2>1 DEF StaleOwnsShelter, Pending, Open
<1>8. CASE Crash
  BY <1>8 DEF Crash, StaleIdle, StaleOwnsShelter
<1>9. \/ stale' = stale
      \/ StaleProgress \/ StaleFail \/ Crash
  <2>1. CASE EscProgress \/ EscFail
    BY <2>1 DEF EscProgress, EscStart, EscSelect, EscCheckPending, EscLoad, EscResolve,
                EscCommit, EscDone, EscUnreachable, EscCounts, EscSend, EscFail
  <2>2. CASE \E r \in Requests : RequestStep(r)
    BY <2>2 DEF RequestStep, RequestStart, PostSaved, PostRejected, NothingSaved,
                ResolveSelect, ResolveCommit, Reply, RequestFail
  <2> QED
    BY <2>1, <2>2 DEF Next, Tick, FabtUpdate, ChangeStatus, ToggleActive, vars
<1> QED
  BY <1>2, <1>3, <1>4, <1>5, <1>6, <1>7, <1>8, <1>9 DEF StaleProgress

(* What the escalation check aims at stays what it was, whatever the table *)
(* goes through meanwhile.                                                 *)
LEMMA AimKept ==
  ASSUME IInv, [Next]_vars, esc'.now = esc.now, NEW i, EscAim(i)
  PROVE  /\ i \in DOMAIN nudges'
         /\ nudges'[i].level = Coordinator
         /\ esc'.now - nudges'[i].sentAt >= EscalationWindow
         /\ nudges'[i].shelter = nudges[i].shelter
         /\ nudges[i].shelter \in Shelters
<1>1. nudges[i] \in Row
  BY DEF EscAim, IInv, TypeOK
<1> QED
  BY <1>1, RowsKept DEF EscAim, Row

LEMMA EscOwnsNext == IInv /\ [Next]_vars => EscOwnsShelter'
<1> SUFFICES ASSUME IInv, [Next]_vars PROVE EscOwnsShelter'
  OBVIOUS
<1>1. TypeOK /\ EscOwnsShelter /\ esc \in EscJob /\ nudges \in Seq(Row)
  BY DEF IInv, TypeOK
<1>2. ASSUME esc'.now = esc.now, esc.pc \notin {"idle", "select"},
             esc'.todo \subseteq esc.todo
      PROVE  \A i \in esc'.todo : EscAim(i)'
  BY <1>1, <1>2, AimKept DEF EscOwnsShelter, EscAim
<1>3. ASSUME esc'.now = esc.now, esc'.at = esc.at,
             esc.pc \in {"resolve", "check", "load", "send"}
      PROVE  EscAim(esc.at)' /\ nudges'[esc.at].shelter = nudges[esc.at].shelter
  BY <1>1, <1>3, AimKept DEF EscOwnsShelter, EscAim
<1>4. CASE esc' = esc
  <2>1. ~EscCommit
    BY <1>1, <1>4 DEF EscCommit, EscJob
  <2>2. \A s \in Shelters : Pending(s, Lead)' \subseteq Pending(s, Lead)
    BY <2>1, PendingStep DEF Levels, Coordinator, Lead
  <2>3. CASE esc.pc \in {"load", "send"}
    <3>1. /\ EscAim(esc.at)
          /\ nudges'[esc.at].shelter = nudges[esc.at].shelter
          /\ nudges[esc.at].shelter \in Shelters
      BY <1>1, <1>4, <2>3, AimKept DEF EscOwnsShelter
    <3>2. Pending(nudges[esc.at].shelter, Lead) = {}
      BY <1>1, <2>3 DEF EscOwnsShelter
    <3>3. Pending(nudges[esc.at].shelter, Lead)' = {}
      BY <1>4, <2>2, <3>1, <3>2 DEF Pending, Open
    <3> QED
      BY <1>1, <1>2, <1>3, <1>4, <2>3, <3>1, <3>3 DEF EscOwnsShelter
  <2> QED
    BY <1>1, <1>2, <1>3, <1>4, <2>3 DEF EscOwnsShelter
<1>5. CASE EscStart \/ EscDone \/ EscUnreachable \/ EscFail \/ Crash
  <2>1. esc'.pc \in {"idle", "select"}
    <3>1. CASE EscStart
      BY <1>1, <3>1 DEF EscStart, EscJob
    <3> QED
      BY <1>5, <3>1 DEF EscDone, EscUnreachable, EscFail, Crash, EscIdle
  <2> QED
    BY <2>1 DEF EscOwnsShelter
<1>6. CASE EscSelect
  <2>1. /\ esc'.pc = "next" /\ esc'.now = esc.now /\ nudges' = nudges
        /\ esc'.todo = PendingEscalation(esc.now)
    BY <1>1, <1>6 DEF EscSelect, EscJob
  <2> QED
    BY <2>1 DEF EscOwnsShelter, EscAim, PendingEscalation
<1>7. ASSUME NEW i \in DOMAIN nudges, EscCounts(i) PROVE EscOwnsShelter'
  <2>1. /\ esc'.pc \in {"check", "resolve"} /\ esc.pc = "next" /\ esc'.now = esc.now
        /\ esc'.todo \subseteq esc.todo /\ esc'.at = i /\ i \in esc.todo
    BY <1>1, <1>7 DEF EscCounts, EscJob
  <2>2. EscAim(i)
    BY <1>1, <2>1 DEF EscOwnsShelter
  <2> QED
    BY <1>2, <2>1, <2>2, AimKept DEF EscOwnsShelter, EscAim
<1>8. CASE EscResolve \/ EscCommit
  <2>1. /\ esc'.pc = "next" /\ esc.pc \in {"resolve", "send"} /\ esc'.now = esc.now
        /\ esc'.todo = esc.todo
    BY <1>1, <1>8 DEF EscResolve, EscCommit, EscJob
  <2> QED
    BY <1>2, <2>1 DEF EscOwnsShelter
<1>9. CASE EscCheckPending
  <2>1. /\ esc'.pc \in {"next", "load"} /\ esc.pc = "check" /\ esc'.now = esc.now
        /\ esc'.todo = esc.todo /\ esc'.at = esc.at /\ nudges' = nudges
        /\ esc'.pc = "load" => ~HasUnresolvedNudge(nudges[esc.at].shelter, Lead)
    BY <1>1, <1>9 DEF EscCheckPending, EscJob
  <2>2. esc'.pc = "load" => Pending(nudges[esc.at].shelter, Lead)' = {}
    BY <2>1 DEF HasUnresolvedNudge, Pending, Open
  <2> QED
    BY <1>2, <1>3, <2>1, <2>2 DEF EscOwnsShelter
<1>10. CASE EscLoad
  <2>1. /\ esc'.pc = "send" /\ esc.pc = "load" /\ esc'.now = esc.now
        /\ esc'.todo = esc.todo /\ esc'.at = esc.at /\ nudges' = nudges
        /\ esc'.rcpt = ActiveCoordinators(nudges[esc.at].shelter, Leads)
    BY <1>1, <1>10 DEF EscLoad, EscJob
  <2>2. Pending(nudges[esc.at].shelter, Lead)' = {}
    BY <1>1, <2>1 DEF EscOwnsShelter, Pending, Open
  <2>3. \A c \in esc'.rcpt : ShelterOf[c] = nudges'[esc'.at].shelter
    BY <2>1 DEF ActiveCoordinators
  <2> QED
    BY <1>2, <1>3, <2>1, <2>2, <2>3 DEF EscOwnsShelter
<1>11. ASSUME NEW c \in Coordinators, EscSend(c) PROVE EscOwnsShelter'
  <2>1. /\ esc'.pc = "send" /\ esc.pc = "send" /\ esc'.now = esc.now
        /\ esc'.todo = esc.todo /\ esc'.at = esc.at /\ nudges' = nudges
        /\ esc'.rcpt \subseteq esc.rcpt
    BY <1>1, <1>11 DEF EscSend, EscJob
  <2>2. Pending(nudges[esc.at].shelter, Lead)' = {}
    BY <1>1, <2>1 DEF EscOwnsShelter, Pending, Open
  <2>3. \A d \in esc'.rcpt : ShelterOf[d] = nudges'[esc'.at].shelter
    BY <1>1, <2>1 DEF EscOwnsShelter
  <2> QED
    BY <1>2, <1>3, <2>1, <2>2, <2>3 DEF EscOwnsShelter
<1>12. esc' = esc \/ EscProgress \/ EscFail \/ Crash
  <2>1. CASE StaleProgress \/ StaleFail
    BY <2>1 DEF StaleProgress, StaleStart, StaleList, StaleCheckPending, StaleLoad,
                StaleCommit, StaleDone, StaleUnreachable, StaleCounts, StaleSend, StaleFail
  <2>2. CASE \E r \in Requests : RequestStep(r)
    BY <2>2 DEF RequestStep, RequestStart, PostSaved, PostRejected, NothingSaved,
                ResolveSelect, ResolveCommit, Reply, RequestFail
  <2> QED
    BY <2>1, <2>2 DEF Next, Tick, FabtUpdate, ChangeStatus, ToggleActive, vars
<1> QED
  BY <1>4, <1>5, <1>6, <1>7, <1>8, <1>9, <1>10, <1>11, <1>12 DEF EscProgress

LEMMA CoversNext == IInv /\ [Next]_vars => RequestCovers'
<1> SUFFICES ASSUME IInv, [Next]_vars, NEW r \in Requests
             PROVE  /\ request'[r].mark <= Len(nudges')
                    /\ \A i \in 1 .. request'[r].mark :
                         nudges'[i].shelter = request'[r].shelter /\ ~nudges'[i].resolved =>
                           /\ request'[r].pc = "resolve" => i \in request'[r].ids
                           /\ request'[r].pc \notin {"log", "saved"}
                    /\ request'[r].pc = "resolve" => \A i \in request'[r].ids :
                         i \in DOMAIN nudges' /\ nudges'[i].shelter = request'[r].shelter
  BY DEF RequestCovers, Open
<1>1. /\ request[r] \in Request /\ request \in [Requests -> Request]
      /\ nudges \in Seq(Row) /\ DOMAIN nudges = 1 .. Len(nudges) /\ Len(nudges) \in Nat
      /\ nudges' \in Seq(Row) /\ Len(nudges') \in Nat
  BY TypeNext DEF IInv, TypeOK
<1>2. request[r].mark \in Nat
  BY <1>1 DEF Request
<1>3. /\ request[r].mark <= Len(nudges)
      /\ \A i \in 1 .. request[r].mark :
           nudges[i].shelter = request[r].shelter /\ ~nudges[i].resolved =>
             /\ request[r].pc = "resolve" => i \in request[r].ids
             /\ request[r].pc \notin {"log", "saved"}
      /\ request[r].pc = "resolve" => \A i \in request[r].ids :
           i \in DOMAIN nudges /\ nudges[i].shelter = request[r].shelter
  BY DEF IInv, RequestCovers, Open
<1>4. /\ request[r].mark <= Len(nudges')
      /\ \A i \in 1 .. request[r].mark :
           /\ nudges'[i].shelter = nudges[i].shelter
           /\ nudges[i].resolved => nudges'[i].resolved
  BY <1>1, <1>2, <1>3, RowsKept
<1>5. CASE request'[r] = request[r]
  BY <1>3, <1>4, <1>5, RowsKept
<1>6. CASE \/ request'[r] = [RequestNew EXCEPT !.pc = "failed"]
           \/ \E c \in Coordinators, ps \in SUBSET Populations : RequestStart(r, c, ps)
           \/ \E p \in Populations : PostSaved(r, p) \/ PostRejected(r, p)
           \/ NothingSaved(r)
  <2>1. /\ request'[r].pc \in {"post", "rejected", "failed"}
        /\ request'[r].mark \in {0, Len(nudges), request[r].mark}
    <3>1. CASE request'[r] = [RequestNew EXCEPT !.pc = "failed"]
      BY <3>1 DEF RequestNew
    <3>2. CASE \E c \in Coordinators, ps \in SUBSET Populations : RequestStart(r, c, ps)
      BY <1>1, <3>2 DEF RequestStart, Request
    <3>3. ASSUME NEW p \in Populations, PostSaved(r, p)
          PROVE  request'[r].pc = "post" /\ request'[r].mark = Len(nudges)
      BY <1>1, <3>3 DEF PostSaved, Request
    <3>4. ASSUME NEW p \in Populations, PostRejected(r, p)
          PROVE  request'[r].pc = "post" /\ request'[r].mark = request[r].mark
      BY <1>1, <3>4 DEF PostRejected, Request
    <3>5. CASE NothingSaved(r)
      BY <1>1, <3>5 DEF NothingSaved, Request
    <3> QED
      BY <1>6, <3>1, <3>2, <3>3, <3>4, <3>5
  <2>2. Len(nudges) <= Len(nudges')
    BY RowsKept
  <2> QED
    BY <1>1, <1>4, <2>1, <2>2
<1>7. CASE ResolveSelect(r)
  <2>1. /\ request'[r].mark = request[r].mark /\ request'[r].shelter = request[r].shelter
        /\ request'[r].pc = "resolve" /\ nudges' = nudges
        /\ request'[r].ids = UnresolvedNudges(request[r].shelter)
    BY <1>1, <1>7 DEF ResolveSelect, Request
  <2> QED
    BY <1>1, <1>2, <1>3, <2>1 DEF UnresolvedNudges, Open
<1>8. CASE ResolveCommit(r)
  <2>1. /\ request'[r].mark = request[r].mark /\ request'[r].shelter = request[r].shelter
        /\ request[r].pc = "resolve" /\ request'[r].pc = "log"
        /\ nudges' = Resolve(request[r].ids)
    BY <1>1, <1>8 DEF ResolveCommit, Request
  <2>2. \A i \in 1 .. request[r].mark :
          nudges'[i].resolved = (i \in request[r].ids \/ nudges[i].resolved)
    BY <1>1, <1>2, <1>3, <2>1, ResolveRows
  <2> QED
    BY <1>3, <1>4, <2>1, <2>2
<1>9. CASE Reply(r)
  <2>1. /\ request'[r].mark = request[r].mark /\ request'[r].shelter = request[r].shelter
        /\ request[r].pc = "log" /\ request'[r].pc = "saved" /\ nudges' = nudges
    BY <1>1, <1>9 DEF Reply, Request
  <2> QED
    BY <1>3, <1>4, <2>1
<1>10. \/ request'[r] \in {request[r], [RequestNew EXCEPT !.pc = "failed"]}
       \/ RequestStep(r)
  <2>1. CASE StaleProgress \/ StaleFail
    BY <2>1 DEF StaleProgress, StaleStart, StaleList, StaleCheckPending, StaleLoad,
                StaleCommit, StaleDone, StaleUnreachable, StaleCounts, StaleSend, StaleFail
  <2>2. CASE EscProgress \/ EscFail
    BY <2>2 DEF EscProgress, EscStart, EscSelect, EscCheckPending, EscLoad, EscResolve,
                EscCommit, EscDone, EscUnreachable, EscCounts, EscSend, EscFail
  <2>3. ASSUME NEW q \in Requests, RequestStep(q), q # r PROVE request'[r] = request[r]
    BY <1>1, <2>3 DEF RequestStep, RequestStart, PostSaved, PostRejected, NothingSaved,
                      ResolveSelect, ResolveCommit, Reply, RequestFail
  <2> QED
    BY <1>1, <2>1, <2>2, <2>3 DEF Next, Tick, FabtUpdate, ChangeStatus, ToggleActive, Crash, vars
<1>11. RequestFail(r) => request'[r] = [RequestNew EXCEPT !.pc = "failed"]
  BY <1>1 DEF RequestFail
<1> QED
  BY <1>5, <1>6, <1>7, <1>8, <1>9, <1>10, <1>11 DEF RequestStep

LEMMA InvInit == Init => IInv
<1> SUFFICES ASSUME Init PROVE IInv
  OBVIOUS
<1>1. nudges = <<>> /\ stale.pc = "idle" /\ esc.pc = "idle"
  BY DEF Init, StaleIdle, EscIdle
<1>2. \A r \in Requests : request[r].mark = 0 /\ request[r].pc = "new"
  BY DEF Init, RequestNew
<1>3. AtMostOnePending /\ EscalationWaits /\ StaleOwnsShelter /\ EscOwnsShelter
  BY <1>1 DEF AtMostOnePending, Pending, EscalationWaits, StaleOwnsShelter, EscOwnsShelter
<1>4. RequestCovers
  BY <1>1, <1>2 DEF RequestCovers
<1> QED
  BY <1>3, <1>4, TypeInit DEF IInv

LEMMA InvNext == IInv /\ [Next]_vars => IInv'
  BY TypeNext, AtMostOneNext, EscalationNext, StaleOwnsNext, EscOwnsNext, CoversNext
  DEF IInv

(* The inductive invariant holds in every reachable state: the types, one  *)
(* pending nudge of a level, the escalation window, and what the jobs and  *)
(* the requests know between their awaits.                                 *)
THEOREM Invariance == Spec => []IInv
  BY InvInit, InvNext, PTL DEF Spec

-----------------------------------------------------------------------------
(* What follows from it. *)

(* Every variable keeps its type. *)
THEOREM TypeCorrect == Spec => []TypeOK
<1>1. IInv => TypeOK
  BY DEF IInv
<1> QED
  BY <1>1, Invariance, PTL

(* However the jobs interleave, crash and start over, a shelter has at     *)
(* most one pending nudge of each level.                                   *)
THEOREM OnePending == Spec => []AtMostOnePending
<1>1. IInv => AtMostOnePending
  BY DEF IInv
<1> QED
  BY <1>1, Invariance, PTL

(* A lead nudge is at least the escalation window younger than some        *)
(* coordinator nudge of its shelter.                                       *)
THEOREM WaitsForWindow == Spec => []EscalationWaits
<1>1. IInv => EscalationWaits
  BY DEF IInv
<1> QED
  BY <1>1, Invariance, PTL

(* A request that answered "saved" left no nudge pending that was on       *)
(* record when it saved its last count.                                    *)
THEOREM SavedClears == Spec => []SavedClearsEarlier
<1>1. IInv => SavedClearsEarlier
  BY DEF IInv, RequestCovers, SavedClearsEarlier
<1> QED
  BY <1>1, Invariance, PTL

(* No step texts anybody while a nudge of that level is pending.           *)
THEOREM NoDuplicateText == Spec => NoTextWhilePending
<1>1. ASSUME IInv, [Next]_vars, lastText' # lastText
      PROVE  Pending(ShelterOf[lastText'.to], lastText'.level) = {}
  <2>1. \E c \in Coordinators : StaleSend(c) \/ EscSend(c)
    BY <1>1, TextSenders
  <2>2. ASSUME NEW c \in Coordinators, StaleSend(c)
        PROVE  Pending(ShelterOf[lastText'.to], lastText'.level) = {}
    BY <1>1, <2>2 DEF StaleSend, IInv, StaleOwnsShelter
  <2>3. ASSUME NEW c \in Coordinators, EscSend(c)
        PROVE  Pending(ShelterOf[lastText'.to], lastText'.level) = {}
    BY <1>1, <2>3 DEF EscSend, IInv, EscOwnsShelter
  <2> QED
    BY <2>1, <2>2, <2>3
<1>2. IInv /\ [Next]_vars =>
        [lastText' # lastText =>
           Pending(ShelterOf[lastText'.to], lastText'.level) = {}]_vars
  BY <1>1
<1> QED
  BY <1>2, Invariance, PTL DEF Spec, NoTextWhilePending

(* A shelter neither job has in hand: nobody is texted about it, and its   *)
(* nudges stay closed, since only a job that has it opens one.             *)
LEMMA QuietTexts ==
  ASSUME IInv, [Next]_vars, NEW s \in Shelters, Quiet(s), lastText' # lastText
  PROVE  ShelterOf[lastText'.to] # s
<1>1. ASSUME NEW c \in Coordinators, StaleSend(c) PROVE ShelterOf[lastText'.to] # s
  BY <1>1 DEF StaleSend, IInv, StaleOwnsShelter, Quiet, StaleHolds
<1>2. ASSUME NEW c \in Coordinators, EscSend(c) PROVE ShelterOf[lastText'.to] # s
  BY <1>2 DEF EscSend, IInv, EscOwnsShelter, Quiet, EscHolds
<1> QED
  BY <1>1, <1>2, TextSenders

LEMMA QuietPending ==
  ASSUME IInv, [Next]_vars, NEW s \in Shelters, Quiet(s)
  PROVE  Pending(s, Coordinator)' = {}
<1>1. StaleCommit => s # stale.at
  BY DEF StaleCommit, Quiet, StaleHolds
<1> QED
  BY <1>1, PendingStep DEF Quiet, Levels, Coordinator, Lead

(* Of a confidential shelter the stale check never takes hold.             *)
LEMMA StaleLeaves ==
  ASSUME TypeOK, [Next]_vars, NEW s \in Shelters, s \in dv, ~StaleHolds(s)
  PROVE  ~StaleHolds(s)'
<1> stale \in StaleJob
  BY DEF TypeOK
<1> USE DEF StaleHolds, StaleJob
<1>1. ASSUME stale' = StaleIdle PROVE ~StaleHolds(s)'
  BY <1>1 DEF StaleIdle
<1>2. CASE StaleProgress \/ StaleFail
  <2>1. CASE StaleDone \/ StaleUnreachable \/ StaleFail
    BY <1>1, <2>1 DEF StaleDone, StaleUnreachable, StaleFail
  <2>2. ASSUME NEW t \in Shelters, StaleCounts(t) PROVE ~StaleHolds(s)'
    BY <2>2 DEF StaleCounts
  <2>3. ASSUME NEW c \in Coordinators, StaleSend(c) PROVE ~StaleHolds(s)'
    BY <2>3 DEF StaleSend
  <2>4. CASE StaleStart \/ StaleCheckPending \/ StaleLoad \/ StaleCommit
    BY <2>4 DEF StaleStart, StaleCheckPending, StaleLoad, StaleCommit
  <2>5. CASE StaleList
    BY <2>5 DEF StaleList
  <2> QED
    BY <1>2, <2>1, <2>2, <2>3, <2>4, <2>5 DEF StaleProgress
<1>3. CASE EscProgress \/ EscFail
  BY <1>3 DEF EscProgress, EscStart, EscSelect, EscCounts, EscCheckPending, EscLoad, EscResolve,
              EscCommit, EscDone, EscUnreachable, EscSend, EscFail
<1>4. CASE \E r \in Requests : RequestStep(r)
  BY <1>4 DEF RequestStep, RequestStart, PostSaved, PostRejected, NothingSaved,
              ResolveSelect, ResolveCommit, Reply, RequestFail
<1>5. CASE Tick \/ UNCHANGED vars
  BY <1>5 DEF Tick, vars
<1>6. CASE \/ \E t \in Shelters, p \in Populations : FabtUpdate(t, p)
           \/ \E t \in Reclassified : ChangeStatus(t)
           \/ \E c \in Toggled : ToggleActive(c)
  BY <1>6 DEF FabtUpdate, ChangeStatus, ToggleActive
<1>7. CASE Crash
  BY <1>1, <1>7 DEF Crash
<1> QED
  BY <1>2, <1>3, <1>4, <1>5, <1>6, <1>7 DEF Next

(* The escalation check takes hold of a shelter only with a pending nudge  *)
(* of it, confidential or not.                                             *)
LEMMA EscLeaves ==
  ASSUME IInv, [Next]_vars, NEW s \in Shelters, Quiet(s)
  PROVE  ~EscHolds(s)'
<1> DEFINE Looping == {"next", "resolve", "check", "load", "send"}
           Acting == {"check", "load", "send"}
<1>1. /\ TypeOK /\ esc \in EscJob /\ ~EscHolds(s)
      /\ esc.pc \in Looping => \A i \in esc.todo : EscAim(i)
      /\ esc.pc \in Acting => EscAim(esc.at)
  BY DEF IInv, TypeOK, EscOwnsShelter, Quiet
<1>2. \A i : EscAim(i) => nudges'[i].shelter = nudges[i].shelter
  BY RowsKept DEF EscAim
<1>3. ASSUME esc'.pc \in Looping => esc.pc \in Looping /\ esc'.todo \subseteq esc.todo,
             esc'.pc \in Acting => \/ esc.pc \in Acting /\ esc'.at = esc.at
                                   \/ esc.pc \in Looping /\ esc'.at \in esc.todo,
             esc' \in EscJob
      PROVE  ~EscHolds(s)'
  BY <1>1, <1>2, <1>3 DEF EscHolds, EscJob
<1>4. CASE esc' = esc
  BY <1>1, <1>3, <1>4
<1>5. esc' \in EscJob
  BY TypeNext DEF TypeOK
<1>6. ASSUME esc' = EscIdle PROVE ~EscHolds(s)'
  BY <1>3, <1>5, <1>6 DEF EscIdle
<1>7. CASE EscSelect
  <2>1. esc'.pc = "next" /\ esc'.todo = PendingEscalation(esc.now) /\ nudges' = nudges
    BY <1>1, <1>7 DEF EscSelect, EscJob
  <2>2. \A i \in PendingEscalation(esc.now) : nudges[i].shelter # s
    BY DEF PendingEscalation, Quiet, Pending
  <2> QED
    BY <2>1, <2>2 DEF EscHolds
<1>8. CASE EscDone \/ EscUnreachable \/ EscFail \/ Crash
  BY <1>6, <1>8 DEF EscDone, EscUnreachable, EscFail, Crash
<1>9. CASE EscStart \/ EscResolve \/ EscCheckPending \/ EscLoad \/ EscCommit
  BY <1>1, <1>3, <1>5, <1>9
  DEF EscJob, EscStart, EscResolve, EscCheckPending, EscLoad, EscCommit
<1>10. ASSUME NEW i \in DOMAIN nudges, EscCounts(i) PROVE ~EscHolds(s)'
  BY <1>1, <1>3, <1>5, <1>10 DEF EscJob, EscCounts
<1>11. ASSUME NEW c \in Coordinators, EscSend(c) PROVE ~EscHolds(s)'
  BY <1>1, <1>3, <1>5, <1>11 DEF EscJob, EscSend
<1>12. CASE StaleProgress \/ StaleFail
  BY <1>4, <1>12
  DEF StaleProgress, StaleStart, StaleList, StaleCheckPending, StaleLoad, StaleCommit,
      StaleDone, StaleUnreachable, StaleCounts, StaleSend, StaleFail
<1>13. CASE \E r \in Requests : RequestStep(r)
  BY <1>4, <1>13 DEF RequestStep, RequestStart, PostSaved, PostRejected, NothingSaved,
                     ResolveSelect, ResolveCommit, Reply, RequestFail
<1>14. CASE Tick \/ UNCHANGED vars
  BY <1>4, <1>14 DEF Tick, vars
<1>15. CASE \/ \E t \in Shelters, p \in Populations : FabtUpdate(t, p)
            \/ \E t \in Reclassified : ChangeStatus(t)
            \/ \E c \in Toggled : ToggleActive(c)
  BY <1>4, <1>15 DEF FabtUpdate, ChangeStatus, ToggleActive
<1> QED
  BY <1>7, <1>8, <1>9, <1>10, <1>11, <1>12, <1>13, <1>14, <1>15 DEF Next, EscProgress

(* A confidential shelter that neither job has in hand and that has no     *)
(* nudge of level 1 pending is left alone for as long as it is             *)
(* confidential: it is not nudged, not escalated and not texted about      *)
(* (scheduler.py:141-144, 205-213).                                        *)
THEOREM DvSilence == Spec => DvLeftAlone
<1>1. ASSUME IInv, [Next]_vars, NEW s \in Shelters, s \in dv, Quiet(s)
      PROVE  Quiet(s)' /\ (lastText' # lastText => ShelterOf[lastText'.to] # s)
  <2>1. TypeOK /\ ~StaleHolds(s)
    BY <1>1 DEF IInv, Quiet
  <2>2. ~StaleHolds(s)'
    BY <1>1, <2>1, StaleLeaves
  <2> QED
    BY <1>1, <2>2, QuietTexts, QuietPending, EscLeaves DEF Quiet
<1>2. IInv /\ [Next]_vars =>
        [\A s \in Shelters :
           s \in dv /\ s \in dv' /\ Quiet(s) =>
             Quiet(s)' /\ (lastText' # lastText => ShelterOf[lastText'.to] # s)]_vars
  BY <1>1
<1> QED
  BY <1>2, Invariance, PTL DEF Spec, DvLeftAlone

(* The nudge table implements its abstract specification: the steps that   *)
(* write it open one nudge where none of its kind is pending, or close     *)
(* nudges of one shelter; every other step stutters.                       *)
THEOREM ImplementsLedger == Spec => LedgerSpec
<1> DEFINE pend == [s \in Shelters |-> [l \in Levels |-> Pending(s, l)]]
           nudged == {s \in Shelters : \E i \in DOMAIN nudges :
                        nudges[i].shelter = s /\ nudges[i].level = Coordinator}
<1>1. Init => Ledger!Init
  BY DEF Init, Ledger!Init, Ledger!Levels, Levels, Coordinator, Lead, Pending
<1>2. ASSUME IInv, [Next]_vars PROVE [Ledger!Next]_(Ledger!vars)
  <2>1. nudges \in Seq(Row) /\ Len(nudges) \in Nat
    BY <1>2 DEF IInv, TypeOK
  <2>2. CASE nudges' = nudges
    BY <2>2 DEF Ledger!vars, Pending, Open
  <2>3. CASE StaleCommit
    <3> DEFINE s == stale.at
               row == NudgeRow(s, Coordinator, stale.now)
    <3>1. nudges' = Append(nudges, row)
      BY <2>3 DEF StaleCommit
    <3>2. s \in Shelters /\ row \in Row /\ Pending(s, Coordinator) = {}
      BY <1>2, <2>3, StaleRow
    <3>3. row.shelter = s /\ row.level = Coordinator
      BY DEF NudgeRow
    <3>4. \A t, k : Pending(t, k)' = IF t = s /\ k = Coordinator
                                    THEN {Len(nudges) + 1} ELSE Pending(t, k)
      BY <2>1, <3>1, <3>2, PendingAppend
    <3> HIDE DEF row, s
    <3>5. nudged' = nudged \cup {s}
      BY <2>1, <3>1, <3>2, <3>3, AppendRow
    <3>6. pend' = [pend EXCEPT ![s][Coordinator] = {Len(nudges) + 1}]
      BY <3>2, <3>4 DEF Levels
    <3>7. Len(nudges') = Len(nudges) + 1
      BY <2>1, <3>1, <3>2
    <3>8. Ledger!NudgeShelter(s)
      BY <3>2, <3>5, <3>6, <3>7
      DEF Ledger!NudgeShelter, Ledger!Open, Levels, Coordinator
    <3>9. s \in Shelters
      BY <3>2
    <3>10. Ledger!Next
      BY <3>8, <3>9 DEF Ledger!Next, Ledger!NudgeShelter, Ledger!Open
    <3> QED
      BY <3>10
  <2>4. CASE EscCommit
    <3> DEFINE s == nudges[esc.at].shelter
               row == NudgeRow(s, Lead, esc.now)
    <3>1. nudges' = Append(nudges, row)
      BY <2>4 DEF EscCommit
    <3>2. s \in Shelters /\ row \in Row /\ Pending(s, Lead) = {} /\ EscAim(esc.at)
      BY <1>2, <2>4, EscRow
    <3>3. row.shelter = s /\ row.level = Lead
      BY DEF NudgeRow
    <3>4. \A t, k : Pending(t, k)' = IF t = s /\ k = Lead
                                    THEN {Len(nudges) + 1} ELSE Pending(t, k)
      BY <2>1, <3>1, <3>2, PendingAppend
    <3>5. s \in nudged
      BY <3>2 DEF EscAim
    <3> HIDE DEF row, s
    <3>6. nudged' = nudged
      BY <2>1, <3>1, <3>2, <3>3, AppendRow DEF Coordinator, Lead
    <3>7. pend' = [pend EXCEPT ![s][Lead] = {Len(nudges) + 1}]
      BY <3>2, <3>4 DEF Levels
    <3>8. Len(nudges') = Len(nudges) + 1
      BY <2>1, <3>1, <3>2
    <3>9. Ledger!EscalateShelter(s)
      BY <3>2, <3>5, <3>6, <3>7, <3>8
      DEF Ledger!EscalateShelter, Ledger!Open, Levels, Lead
    <3> QED
      BY <3>2, <3>9 DEF Ledger!Next
  <2>5. ASSUME NEW ids, NEW s \in Shelters, nudges' = Resolve(ids),
               \A i \in ids : i \in DOMAIN nudges /\ nudges[i].shelter = s
        PROVE  Ledger!Next
    <3> DEFINE ls == {l \in Levels : Pending(s, l) \cap ids # {}}
    <3>1. /\ Len(nudges') = Len(nudges) /\ DOMAIN nudges' = DOMAIN nudges
          /\ \A i \in DOMAIN nudges : /\ nudges'[i].shelter = nudges[i].shelter
                                     /\ nudges'[i].level = nudges[i].level
      BY <2>1, <2>5, ResolveRows
    <3>2. nudged' = nudged
      BY <3>1
    <3>3. \A t, k : Pending(t, k)' = Pending(t, k) \ ids
      BY <2>1, <2>5, PendingResolve
    <3>4. \A t \in Shelters, k \in Levels : t # s => Pending(t, k)' = Pending(t, k)
      BY <2>5, <3>3 DEF Pending
    <3>5. \A k \in Levels : Pending(s, k)' = IF k \in ls THEN {} ELSE Pending(s, k)
      BY <1>2, <3>3 DEF IInv, AtMostOnePending
    <3> HIDE DEF ls
    <3>6. pend' = [pend EXCEPT ![s] = [l \in Levels |-> IF l \in ls THEN {} ELSE pend[s][l]]]
      BY <3>4, <3>5
    <3>7. ls \subseteq Levels
      BY DEF ls
    <3>8. Ledger!ResolveShelter(s, ls)
      BY <3>1, <3>2, <3>6 DEF Ledger!ResolveShelter, Ledger!Levels, Levels, Coordinator, Lead
    <3> QED
      BY <3>7, <3>8 DEF Ledger!Next, Ledger!Levels, Levels, Coordinator, Lead
  <2>6. CASE EscResolve
    <3>1. nudges' = Resolve({esc.at}) /\ esc.at \in DOMAIN nudges
      BY <1>2, <2>6 DEF EscResolve, IInv, EscOwnsShelter, EscAim
    <3>2. nudges[esc.at] \in Row
      BY <2>1, <3>1
    <3>3. nudges[esc.at].shelter \in Shelters
      BY <3>2 DEF Row
    <3> QED
      BY <2>5, <3>1, <3>3
  <2>7. ASSUME NEW r \in Requests, ResolveCommit(r) PROVE Ledger!Next \/ nudges' = nudges
    <3>1. /\ nudges' = Resolve(request[r].ids)
          /\ \A i \in request[r].ids :
               i \in DOMAIN nudges /\ nudges[i].shelter = request[r].shelter
      BY <1>2, <2>7 DEF ResolveCommit, IInv, RequestCovers
    <3>2. CASE request[r].ids = {}
      BY <2>1, <3>1, <3>2 DEF Resolve
    <3>3. CASE request[r].ids # {}
      <4>1. PICK i \in request[r].ids : i \in DOMAIN nudges
        BY <3>1, <3>3
      <4>2. nudges[i] \in Row
        BY <2>1, <4>1
      <4>3. request[r].shelter \in Shelters
        BY <3>1, <4>1, <4>2 DEF Row
      <4> QED
        BY <2>5, <3>1, <4>3
    <3> QED
      BY <3>2, <3>3
  <2> QED
    BY <1>2, <2>2, <2>3, <2>4, <2>6, <2>7, TableWriters
<1> QED
  BY <1>1, <1>2, Invariance, PTL DEF Spec, LedgerSpec, Ledger!Spec
=============================================================================
