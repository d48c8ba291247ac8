---------------------------- MODULE Coordinators ----------------------------
(***************************************************************************)
(* The coordinator_phone table of app/db/models.py under those who write   *)
(* it, the admin page and the seed script, and under the nudge job of      *)
(* app/nudge/scheduler.py, which reads it shelter by shelter.              *)
(*                                                                         *)
(* A session awaits between reading a row and writing it, and between      *)
(* reading it and using it last; meanwhile the row may be switched on or   *)
(* off, or deleted, and its number registered for another shelter.  Shift  *)
(* and locale are left out.                                                *)
(***************************************************************************)
EXTENDS Naturals, Functions

CONSTANTS
  Phones, Shelters,
  Tabs,       \* browser tabs with the coordinators page
  MaxRows     \* bound: rows ever created

ASSUME CoordinatorsAssumption == MaxRows \in Nat

VARIABLES
  rows,       \* the table, by id
  created,    \* rows created so far; an id is never used again
  tab,        \* the line of the page a tab is on, and the click it waits for
  job         \* the nudge job

vars == <<rows, created, tab, job>>

Row == [phone : Phones, shelter : Shelters, active : BOOLEAN]
TabClosed == [pc |-> "closed", id |-> 0, shown |-> FALSE, value |-> FALSE]
JobIdle == [pc |-> "idle", todo |-> {}, rcpt |-> {}, texted |-> {}, due |-> {}]

Init ==
  /\ rows = <<>>
  /\ created = 0
  /\ tab = [k \in Tabs |-> TabClosed]
  /\ job = JobIdle

-----------------------------------------------------------------------------
MutantAnyNumber(p) == TRUE

(* phone_hash is UNIQUE. *)
MayRegister(p) == \A i \in DOMAIN rows : rows[i].phone # p

MutantAnyCoordinators(s) == {i \in DOMAIN rows : rows[i].shelter = s}

ActiveCoordinators(s) == {i \in DOMAIN rows : rows[i].shelter = s /\ rows[i].active}

Due == {<<rows[i].phone, rows[i].shelter>> : i \in {j \in DOMAIN rows : rows[j].active}}

(* A running job is owed whom the table has active at any time of its run. *)
Write(new) ==
  /\ rows' = new
  /\ job' = IF job.pc = "idle" THEN job ELSE [job EXCEPT !.due = @ \cup Due']

Become(k, state) == tab' = [tab EXCEPT ![k] = state]

-----------------------------------------------------------------------------
(* The admin page and the seed script. *)

(* An INSERT that is refused (the page says so, the script ends with the   *)
(* error) changes nothing.                                                 *)
CreateCoordinator(p, s) ==
  /\ created < MaxRows
  /\ MayRegister(p)
  /\ created' = created + 1
  /\ Write([i \in DOMAIN rows \cup {created'} |->
              IF i = created' THEN [phone |-> p, shelter |-> s, active |-> TRUE] ELSE rows[i]])
  /\ UNCHANGED tab

(* The page offers to deactivate an active coordinator, and to reactivate  *)
(* another.                                                                *)
ListCoordinators(k, i) ==
  /\ tab[k].pc = "closed"
  /\ i \in DOMAIN rows
  /\ Become(k, [TabClosed EXCEPT !.pc = "shown", !.id = i, !.shown = rows[i].active])
  /\ UNCHANGED <<rows, created, job>>

(* Nothing happens to a row that is gone by now. *)
ReadRow(k, pc) ==
  /\ tab[k].pc = "shown"
  /\ Become(k, IF tab[k].id \in DOMAIN rows
               THEN [tab[k] EXCEPT !.pc = pc, !.value = ~rows[tab[k].id].active]
               ELSE TabClosed)
  /\ UNCHANGED <<rows, created, job>>

MutantToggleInserts(k) ==
  /\ tab[k].pc = "toggle"
  /\ Write([i \in DOMAIN rows \cup {tab[k].id} |->
              IF i # tab[k].id THEN rows[i]
              ELSE [phone |-> CHOOSE p \in Phones : TRUE, shelter |-> CHOOSE s \in Shelters : TRUE,
                    active |-> tab[k].value]])
  /\ Become(k, TabClosed)
  /\ UNCHANGED created

ToggleCommit(k) ==
  /\ tab[k].pc = "toggle"
  /\ tab[k].id \in DOMAIN rows
  /\ Write([rows EXCEPT ![tab[k].id].active = tab[k].value])
  /\ Become(k, TabClosed)
  /\ UNCHANGED created

(* An UPDATE that finds no row raises. *)
ToggleRaises(k) ==
  /\ tab[k].pc = "toggle"
  /\ tab[k].id \notin DOMAIN rows
  /\ Become(k, TabClosed)
  /\ UNCHANGED <<rows, created, job>>

(* A DELETE that finds no row is no error. *)
DeleteCommit(k) ==
  /\ tab[k].pc = "delete"
  /\ Write(Restrict(rows, DOMAIN rows \ {tab[k].id}))
  /\ Become(k, TabClosed)
  /\ UNCHANGED created

-----------------------------------------------------------------------------
(* run_stale_check, as far as it reads the table; ss are the shelters it   *)
(* will find stale and not nudged.                                         *)

JobStart(ss) ==
  /\ job.pc = "idle"
  /\ job' = [JobIdle EXCEPT !.pc = "next", !.todo = ss, !.due = Due]
  /\ UNCHANGED <<rows, created, tab>>

JobLoad(s) ==
  /\ job.pc = "next"
  /\ s \in job.todo
  /\ job' = [job EXCEPT !.pc = "send", !.todo = @ \ {s},
               !.rcpt = {<<rows[i].phone, s, i>> : i \in ActiveCoordinators(s)}]
  /\ UNCHANGED <<rows, created, tab>>

JobSend(to) ==
  /\ job.pc = "send"
  /\ to \in job.rcpt
  /\ job' = [job EXCEPT !.rcpt = @ \ {to}, !.texted = @ \cup {to}]
  /\ UNCHANGED <<rows, created, tab>>

JobCommit ==
  /\ job.pc = "send"
  /\ job.rcpt = {}
  /\ job' = [job EXCEPT !.pc = "next"]
  /\ UNCHANGED <<rows, created, tab>>

JobDone ==
  /\ job.pc = "next"
  /\ job.todo = {}
  /\ job' = JobIdle
  /\ UNCHANGED <<rows, created, tab>>

(* A text raises: the job ends. *)
JobRaises ==
  /\ job.pc = "send"
  /\ job.rcpt # {}
  /\ job' = JobIdle
  /\ UNCHANGED <<rows, created, tab>>

-----------------------------------------------------------------------------
Next ==
  \/ \E p \in Phones, s \in Shelters : CreateCoordinator(p, s)
  \/ \E k \in Tabs :
       \/ \E i \in DOMAIN rows : ListCoordinators(k, i)
       \/ ReadRow(k, "toggle") \/ ToggleCommit(k) \/ ToggleRaises(k)
       \/ ReadRow(k, "delete") \/ DeleteCommit(k)
  \/ \E ss \in SUBSET Shelters : JobStart(ss)
  \/ \E s \in Shelters : JobLoad(s)
  \/ \E to \in job.rcpt : JobSend(to)
  \/ JobCommit \/ JobDone \/ JobRaises

Spec == Init /\ [][Next]_vars
-----------------------------------------------------------------------------
Ids == 1 .. MaxRows
Recipient == Phones \X Shelters \X Ids

(* Types of every variable; no number has two rows. *)
TypeOK ==
  /\ created \in 0 .. MaxRows
  /\ DOMAIN rows \subseteq 1 .. created
  /\ \A i \in DOMAIN rows :
       rows[i] \in Row /\ \A j \in DOMAIN rows \ {i} : rows[j].phone # rows[i].phone
  /\ tab \in [Tabs -> [pc : {"closed", "shown", "toggle", "delete"}, id : 0 .. MaxRows,
                       shown : BOOLEAN, value : BOOLEAN]]
  /\ job \in [pc : {"idle", "next", "send"}, todo : SUBSET Shelters,
              rcpt : SUBSET Recipient, texted : SUBSET Recipient,
              due : SUBSET (Phones \X Shelters)]

(* One run of the job texts a number at most once for a shelter, and only  *)
(* a number the table had active for that shelter at some moment of the    *)
(* run, however it is switched, deleted and registered anew meanwhile, for *)
(* this shelter or another (scheduler.py:100-110, 153-168).                *)
TextsAreDue ==
  \A to \in job.texted :
    /\ <<to[1], to[2]>> \in job.due
    /\ \A other \in job.texted : other[1] = to[1] /\ other[2] = to[2] => other = to

(* A coordinator who was deleted does not come back by a click that read   *)
(* the row before: not even as one who is switched off (admin/router.py:   *)
(* 136-156).                                                               *)
DeletedStaysDeleted ==
  [][\A i \in 1 .. created : i \notin DOMAIN rows => i \notin DOMAIN rows']_vars

(* Why TextsAreDue holds: the job has taken a shelter off its list when it *)
(* texts for it, and read each row of it once.                             *)
JobReadsOnce ==
  /\ job.pc # "idle" => Due \subseteq job.due
  /\ \A to \in job.rcpt \cup job.texted :
       /\ <<to[1], to[2]>> \in job.due
       /\ to[2] \notin job.todo
       /\ \A other \in job.rcpt \cup job.texted :
            other[1] = to[1] /\ other[2] = to[2] => other = to

(* The inductive invariant the proofs rest on.                             *)
IInv == TypeOK /\ JobReadsOnce

-----------------------------------------------------------------------------
(* What the page says and the code does not keep.                          *)

(* coordinators.html:19 labels the button "Deactivate" or "Reactivate": a  *)
(* click that is carried out leaves the coordinator as the label says.     *)
ButtonDoesAsLabelled ==
  [][\A k \in Tabs :
       tab[k].pc = "toggle" /\ tab'[k] # tab[k] /\ tab[k].id \in DOMAIN rows'
         => rows'[tab[k].id].active = ~tab[k].shown]_vars
=============================================================================
