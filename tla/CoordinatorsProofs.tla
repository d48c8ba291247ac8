-------------------------- MODULE CoordinatorsProofs --------------------------
(***************************************************************************)
(* Proofs about the coordinator_phone table, for any numbers, shelters,    *)
(* tabs and number of rows.                                                *)
(***************************************************************************)
EXTENDS Coordinators, TLAPS

Tab == [pc : {"closed", "shown", "toggle", "delete"}, id : 0 .. MaxRows,
        shown : BOOLEAN, value : BOOLEAN]
Job == [pc : {"idle", "next", "send"}, todo : SUBSET Shelters,
        rcpt : SUBSET Recipient, texted : SUBSET Recipient,
        due : SUBSET (Phones \X Shelters)]

(* The table: ids given out, rows of their type, no number twice. *)
TableOK(r, n) ==
  /\ DOMAIN r \subseteq 1 .. n
  /\ \A i \in DOMAIN r : r[i] \in Row /\ \A j \in DOMAIN r \ {i} : r[j].phone # r[i].phone

LEMMA TypeParts ==
  TypeOK <=> /\ created \in 0 .. MaxRows
             /\ TableOK(rows, created)
             /\ tab \in [Tabs -> Tab]
             /\ job \in Job
  BY DEF TypeOK, TableOK, Tab, Job

(* Whom the table has active is a number and a shelter. *)
LEMMA DueTypes ==
  ASSUME TableOK(rows, created)
  PROVE  Due \subseteq Phones \X Shelters
  BY DEF TableOK, Due, Row

LEMMA TypeInit == Init => TypeOK
  BY CoordinatorsAssumption DEF Init, TypeOK, TabClosed, JobIdle

-----------------------------------------------------------------------------
(* The three commits that write the table keep it one, and extend what the *)
(* running job is owed.                                                    *)

LEMMA CreateKeeps ==
  ASSUME TypeOK, NEW p \in Phones, NEW s \in Shelters, CreateCoordinator(p, s)
  PROVE  /\ created' = created + 1 /\ created' \in 0 .. MaxRows
         /\ TableOK(rows', created')
         /\ DOMAIN rows' = DOMAIN rows \cup {created'}
         /\ created' \notin DOMAIN rows
<1> DEFINE new == [phone |-> p, shelter |-> s, active |-> TRUE]
           table == [i \in DOMAIN rows \cup {created'} |-> IF i = created' THEN new ELSE rows[i]]
<1>1. created' = created + 1 /\ created \in 0 .. MaxRows /\ created' \in 0 .. MaxRows
  BY CoordinatorsAssumption DEF CreateCoordinator, TypeOK
<1>2. rows' = table
  BY DEF CreateCoordinator, Write
<1>3. TableOK(rows, created)
  BY TypeParts
<1>4. new \in Row /\ new.phone = p /\ \A i \in DOMAIN rows : rows[i].phone # p
  BY DEF Row, CreateCoordinator, MayRegister
<1>5. created' \notin DOMAIN rows /\ DOMAIN rows \subseteq 1 .. created'
  BY <1>1, <1>3 DEF TableOK
<1> HIDE DEF new
<1>6. /\ DOMAIN table = DOMAIN rows \cup {created'}
      /\ table[created'] = new
      /\ \A i \in DOMAIN rows : table[i] = rows[i]
  BY <1>5
<1> HIDE DEF table
<1>7. TableOK(table, created')
  BY <1>1, <1>3, <1>4, <1>5, <1>6 DEF TableOK
<1> QED
  BY <1>1, <1>2, <1>5, <1>6, <1>7

LEMMA ToggleKeeps ==
  ASSUME TypeOK, NEW k \in Tabs, ToggleCommit(k)
  PROVE  TableOK(rows', created) /\ DOMAIN rows' = DOMAIN rows
<1> DEFINE id == tab[k].id
           row == [rows[id] EXCEPT !.active = tab[k].value]
<1>1. TableOK(rows, created) /\ tab[k] \in Tab
  BY TypeParts
<1>2. id \in DOMAIN rows /\ rows' = [rows EXCEPT ![id] = row]
  BY DEF ToggleCommit, Write
<1>3. rows[id] \in Row
  BY <1>1, <1>2 DEF TableOK
<1>4. row \in Row /\ row.phone = rows[id].phone
  BY <1>1, <1>3 DEF Row, Tab
<1> HIDE DEF id, row
<1>5. /\ DOMAIN rows' = DOMAIN rows
      /\ rows'[id] = row
      /\ \A i \in DOMAIN rows \ {id} : rows'[i] = rows[i]
  BY <1>2
<1> QED
  BY <1>1, <1>2, <1>4, <1>5 DEF TableOK

LEMMA DeleteKeeps ==
  ASSUME TypeOK, NEW k \in Tabs, DeleteCommit(k)
  PROVE  TableOK(rows', created) /\ DOMAIN rows' \subseteq DOMAIN rows
<1>1. TableOK(rows, created)
  BY TypeParts
<1>2. rows' = [i \in DOMAIN rows \ {tab[k].id} |-> rows[i]]
  BY DEF DeleteCommit, Write, Restrict
<1> QED
  BY <1>1, <1>2 DEF TableOK

(* What any of them does to the job. *)
LEMMA WriteJob ==
  ASSUME TypeOK, NEW new, Write(new), TableOK(rows', created')
  PROVE  /\ job' \in Job
         /\ job'.pc = job.pc /\ job'.todo = job.todo
         /\ job'.rcpt = job.rcpt /\ job'.texted = job.texted
         /\ job.due \subseteq job'.due
         /\ job.pc # "idle" => Due' \subseteq job'.due
<1>1. job \in Job
  BY TypeParts
<1>2. Due' \subseteq Phones \X Shelters
  BY DEF TableOK, Due, Row
<1>3. job' = IF job.pc = "idle" THEN job ELSE [job EXCEPT !.due = job.due \cup Due']
  BY DEF Write
<1> QED
  BY <1>1, <1>2, <1>3 DEF Job

-----------------------------------------------------------------------------
LEMMA TypeNext == TypeOK /\ [Next]_vars => TypeOK'
<1> SUFFICES ASSUME TypeOK, [Next]_vars PROVE TypeOK'
  OBVIOUS
<1> USE CoordinatorsAssumption
<1>t. /\ created \in 0 .. MaxRows /\ TableOK(rows, created)
      /\ tab \in [Tabs -> Tab] /\ job \in Job
  BY TypeParts
<1>p. /\ created' \in 0 .. MaxRows /\ TableOK(rows', created')
      /\ tab' \in [Tabs -> Tab] /\ job' \in Job
      => TypeOK'
  BY DEF TypeOK, TableOK, Tab, Job
<1>c. TabClosed \in Tab
  BY DEF TabClosed, Tab
<1>1. ASSUME NEW p \in Phones, NEW s \in Shelters, CreateCoordinator(p, s) PROVE TypeOK'
  <2>1. created' \in 0 .. MaxRows /\ TableOK(rows', created')
    BY <1>1, CreateKeeps
  <2>2. job' \in Job
    BY <1>1, <2>1, WriteJob DEF CreateCoordinator
  <2>3. tab' = tab
    BY <1>1 DEF CreateCoordinator
  <2> QED
    BY <1>t, <1>p, <2>1, <2>2, <2>3
<1>2. ASSUME NEW k \in Tabs, NEW i \in DOMAIN rows, ListCoordinators(k, i) PROVE TypeOK'
  <2> DEFINE t == [TabClosed EXCEPT !.pc = "shown", !.id = i, !.shown = rows[i].active]
  <2>1. i \in 0 .. MaxRows /\ rows[i].active \in BOOLEAN
    BY <1>t DEF TableOK, Row
  <2>2. t \in Tab
    BY <2>1 DEF TabClosed, Tab
  <2>3. tab' = [tab EXCEPT ![k] = t] /\ UNCHANGED <<rows, created, job>>
    BY <1>2 DEF ListCoordinators, Become
  <2> HIDE DEF t
  <2> QED
    BY <1>t, <1>p, <2>2, <2>3
<1>3. ASSUME NEW k \in Tabs, NEW pc \in {"toggle", "delete"}, ReadRow(k, pc) PROVE TypeOK'
  <2> DEFINE t == IF tab[k].id \in DOMAIN rows
                  THEN [tab[k] EXCEPT !.pc = pc, !.value = ~rows[tab[k].id].active]
                  ELSE TabClosed
  <2>1. tab[k] \in Tab
    BY <1>t
  <2>2. (~rows[tab[k].id].active) \in BOOLEAN
    OBVIOUS
  <2>3. [tab[k] EXCEPT !.pc = pc, !.value = ~rows[tab[k].id].active] \in Tab
    BY <2>1, <2>2 DEF Tab
  <2>4. t \in Tab
    BY <1>c, <2>3
  <2>5. tab' = [tab EXCEPT ![k] = t] /\ UNCHANGED <<rows, created, job>>
    BY <1>3 DEF ReadRow, Become
  <2> HIDE DEF t
  <2> QED
    BY <1>t, <1>p, <2>4, <2>5
<1>4. ASSUME NEW k \in Tabs, ToggleCommit(k) \/ DeleteCommit(k) PROVE TypeOK'
  <2>1. created' = created /\ TableOK(rows', created')
    BY <1>4, ToggleKeeps, DeleteKeeps DEF ToggleCommit, DeleteCommit
  <2>2. job' \in Job
    BY <1>4, <2>1, WriteJob DEF ToggleCommit, DeleteCommit
  <2>3. tab' \in [Tabs -> Tab]
    BY <1>t, <1>c, <1>4 DEF ToggleCommit, DeleteCommit, Become
  <2> QED
    BY <1>t, <1>p, <2>1, <2>2, <2>3
<1>5. ASSUME NEW k \in Tabs, ToggleRaises(k) PROVE TypeOK'
  BY <1>t, <1>p, <1>c, <1>5 DEF ToggleRaises, Become
<1>6. CASE UNCHANGED <<rows, created, tab>> /\ job' \in Job
  BY <1>t, <1>p, <1>6
<1>7. ASSUME NEW ss \in SUBSET Shelters, JobStart(ss) PROVE TypeOK'
  BY <1>t, <1>6, <1>7, DueTypes DEF JobStart, JobIdle, Job
<1>8. ASSUME NEW s \in Shelters, JobLoad(s) PROVE TypeOK'
  <2>1. {<<rows[i].phone, s, i>> : i \in ActiveCoordinators(s)} \subseteq Recipient
    BY <1>t DEF ActiveCoordinators, Recipient, Ids, TableOK, Row
  <2> QED
    BY <1>t, <1>6, <1>8, <2>1 DEF JobLoad, Job
<1>9. ASSUME NEW to \in job.rcpt, JobSend(to) PROVE TypeOK'
  BY <1>t, <1>6, <1>9 DEF JobSend, Job
<1>10. CASE JobCommit
  BY <1>t, <1>6, <1>10 DEF JobCommit, Job
<1>11. CASE JobDone \/ JobRaises
  BY <1>t, <1>6, <1>11 DEF JobDone, JobRaises, JobIdle, Job
<1>12. CASE UNCHANGED vars
  BY <1>t, <1>6, <1>12 DEF vars
<1> QED
  BY <1>1, <1>2, <1>3, <1>4, <1>5, <1>7, <1>8, <1>9, <1>10, <1>11, <1>12 DEF Next

LEMMA ReadsOnceInit == Init => JobReadsOnce
  BY DEF Init, JobReadsOnce, JobIdle

(* A shelter the job loads is one it has texted nobody for, and no two of  *)
(* its rows have one number.                                               *)
LEMMA ReadsOnceNext == IInv /\ [Next]_vars => JobReadsOnce'
<1> SUFFICES ASSUME IInv, [Next]_vars PROVE JobReadsOnce'
  OBVIOUS
<1>t. /\ TypeOK /\ TypeOK' /\ job \in Job /\ job' \in Job
      /\ TableOK(rows, created) /\ TableOK(rows', created')
  BY TypeNext, TypeParts DEF IInv, TypeOK, TableOK, Job
<1>r. JobReadsOnce
  BY DEF IInv
<1>1. ASSUME NEW new, Write(new) PROVE JobReadsOnce'
  <2>1. /\ job'.pc = job.pc /\ job'.todo = job.todo
        /\ job'.rcpt = job.rcpt /\ job'.texted = job.texted
        /\ job.due \subseteq job'.due
        /\ job.pc # "idle" => Due' \subseteq job'.due
    BY <1>t, <1>1, WriteJob
  <2> QED
    BY <1>r, <2>1 DEF JobReadsOnce
<1>2. CASE UNCHANGED <<rows, job>>
  BY <1>r, <1>2 DEF JobReadsOnce, Due
<1>3. CASE job' = JobIdle
  BY <1>3 DEF JobReadsOnce, JobIdle
<1>4. ASSUME NEW ss \in SUBSET Shelters, JobStart(ss) PROVE JobReadsOnce'
  <2>1. /\ job'.due = Due /\ job'.rcpt = {} /\ job'.texted = {}
        /\ Due' = Due
    BY <1>4 DEF JobStart, JobIdle, Due
  <2> QED
    BY <2>1 DEF JobReadsOnce
<1>5. ASSUME NEW s \in Shelters, JobLoad(s) PROVE JobReadsOnce'
  <2> DEFINE read == {<<rows[i].phone, s, i>> : i \in ActiveCoordinators(s)}
  <2>1. /\ job.pc = "next" /\ s \in job.todo /\ rows' = rows
        /\ job'.pc = "send" /\ job'.todo = job.todo \ {s}
        /\ job'.rcpt = read /\ job'.texted = job.texted /\ job'.due = job.due
    BY <1>t, <1>5 DEF JobLoad, Job
  <2>2. Due' = Due /\ Due \subseteq job.due
    BY <1>r, <2>1 DEF JobReadsOnce, Due
  <2>3. \A to \in read : /\ to[2] = s
                         /\ <<to[1], to[2]>> \in Due
    BY DEF ActiveCoordinators, Due
  <2>4. \A to \in read, other \in read : other[1] = to[1] => other = to
    BY <1>t DEF ActiveCoordinators, TableOK
  <2>5. \A to \in job.texted : /\ to[2] # s
                               /\ <<to[1], to[2]>> \in job.due
                               /\ to[2] \notin job.todo
    <3>1. \A to \in job.texted : <<to[1], to[2]>> \in job.due /\ to[2] \notin job.todo
      BY <1>r DEF JobReadsOnce
    <3>2. s \in job.todo
      BY <2>1
    <3> QED
      BY <3>1, <3>2
  <2>6. \A to, other \in job.texted : other[1] = to[1] /\ other[2] = to[2] => other = to
    BY <1>r DEF JobReadsOnce
  <2> HIDE DEF read
  <2>7. job'.pc # "idle" => Due' \subseteq job'.due
    BY <2>1, <2>2
  <2>8. \A to \in read \cup job.texted :
          /\ <<to[1], to[2]>> \in job.due
          /\ to[2] \notin job.todo \ {s}
    BY <2>2, <2>3, <2>5
  <2>9. \A to, other \in read \cup job.texted :
          other[1] = to[1] /\ other[2] = to[2] => other = to
    BY <2>3, <2>4, <2>5, <2>6
  <2> QED
    BY <2>1, <2>7, <2>8, <2>9 DEF JobReadsOnce
<1>6. ASSUME NEW to \in job.rcpt, JobSend(to) PROVE JobReadsOnce'
  <2>1. /\ rows' = rows
        /\ job'.pc = job.pc /\ job'.todo = job.todo /\ job'.due = job.due
        /\ job'.rcpt \cup job'.texted = job.rcpt \cup job.texted
    BY <1>t, <1>6 DEF JobSend, Job
  <2> QED
    BY <1>r, <2>1 DEF JobReadsOnce, Due
<1>7. CASE JobCommit
  <2>1. /\ rows' = rows
        /\ job'.todo = job.todo /\ job'.due = job.due /\ job.pc = "send"
        /\ job'.rcpt = job.rcpt /\ job'.texted = job.texted
    BY <1>t, <1>7 DEF JobCommit, Job
  <2> QED
    BY <1>r, <2>1 DEF JobReadsOnce, Due
<1>8. ASSUME NEW k \in Tabs,
             ToggleCommit(k) \/ DeleteCommit(k) \/ ToggleRaises(k)
             \/ ReadRow(k, "toggle") \/ ReadRow(k, "delete")
      PROVE  JobReadsOnce'
  BY <1>1, <1>2, <1>8 DEF ToggleCommit, DeleteCommit, ToggleRaises, ReadRow
<1>9. ASSUME NEW k \in Tabs, NEW i \in DOMAIN rows, ListCoordinators(k, i) PROVE JobReadsOnce'
  BY <1>2, <1>9 DEF ListCoordinators
<1>10. ASSUME NEW p \in Phones, NEW s \in Shelters, CreateCoordinator(p, s) PROVE JobReadsOnce'
  BY <1>1, <1>10 DEF CreateCoordinator
<1>11. CASE UNCHANGED vars \/ JobDone \/ JobRaises
  BY <1>2, <1>3, <1>11 DEF vars, JobDone, JobRaises
<1> QED
  BY <1>4, <1>5, <1>6, <1>7, <1>8, <1>9, <1>10, <1>11 DEF Next

-----------------------------------------------------------------------------
(* Every state of the table and of its users is as IInv says: the job has  *)
(* read each shelter it texts for once and is owed all it texts.           *)
THEOREM Invariance == Spec => []IInv
<1>1. Init => IInv
  BY TypeInit, ReadsOnceInit DEF IInv
<1>2. IInv /\ [Next]_vars => IInv'
  BY TypeNext, ReadsOnceNext DEF IInv
<1> QED
  BY <1>1, <1>2, PTL DEF Spec

(* The table holds rows of its type, no number twice, under ids given out  *)
(* (the UNIQUE phone_hash of models.py), for any number of writers.        *)
THEOREM TypeCorrect == Spec => []TypeOK
<1>1. IInv => TypeOK
  BY DEF IInv
<1> QED
  BY <1>1, Invariance, PTL

(* However rows are switched, deleted and registered anew meanwhile, a run *)
(* of the job texts a number once for a shelter, and only one that was     *)
(* active for it during the run (scheduler.py:100-110, 153-168).           *)
THEOREM OneTextEach == Spec => []TextsAreDue
<1>1. JobReadsOnce => TextsAreDue
  BY DEF JobReadsOnce, TextsAreDue
<1>2. IInv => TextsAreDue
  BY <1>1 DEF IInv
<1> QED
  BY <1>2, Invariance, PTL

(* No click that read a row brings it back after it was deleted            *)
(* (admin/router.py:136-156).                                              *)
THEOREM Deletions == Spec => DeletedStaysDeleted
<1>1. ASSUME TypeOK, [Next]_vars, NEW i \in 1 .. created, i \notin DOMAIN rows
      PROVE  i \notin DOMAIN rows'
  <2>1. ASSUME NEW p \in Phones, NEW s \in Shelters, CreateCoordinator(p, s)
        PROVE  i \notin DOMAIN rows'
    <3>1. created \in Nat /\ i # created + 1
      BY <1>1, CoordinatorsAssumption DEF TypeOK
    <3> QED
      BY <1>1, <2>1, <3>1, CreateKeeps
  <2>2. ASSUME NEW k \in Tabs, ToggleCommit(k) \/ DeleteCommit(k)
        PROVE  i \notin DOMAIN rows'
    BY <1>1, <2>2, ToggleKeeps, DeleteKeeps
  <2>3. CASE rows' = rows
    BY <1>1, <2>3
  <2> QED
    BY <1>1, <2>1, <2>2, <2>3
    DEF Next, ListCoordinators, ReadRow, ToggleRaises, JobStart, JobLoad, JobSend,
        JobCommit, JobDone, JobRaises, vars
<1>2. TypeOK /\ [Next]_vars =>
        [\A i \in 1 .. created : i \notin DOMAIN rows => i \notin DOMAIN rows']_vars
  BY <1>1
<1> QED
  BY <1>2, TypeCorrect, PTL DEF Spec, DeletedStaysDeleted
=============================================================================
