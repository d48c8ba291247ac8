------------------------------ MODULE Service ------------------------------
(***************************************************************************)
(* The process as a whole: lifespan of app/main.py, which starts and stops *)
(* what the components share, around the viewers of Wallboard and the jobs *)
(* of the scheduler.  Any step of starting may fail, and what was built    *)
(* before it must be released; on the way down the FABT client is closed   *)
(* and the scheduler stopped without waiting for its jobs, but not before  *)
(* the server (uvicorn) has seen every open request end.                   *)
(***************************************************************************)
EXTENDS Wallboard

VARIABLES
  phase,       \* of lifespan
  client,      \* app.state.fabt_client: "none", "open" or "closed"
  scheduler,   \* app.state.scheduler: "none", "running", "stopping", "stopped"
  job          \* a nudge job: "idle" or "running"

serviceVars == <<phase, client, scheduler, job>>
vars == <<wallVars, serviceVars>>

Starting == {"key", "db", "client", "sms", "scheduler"}
Serving == {"serving", "draining"}

Init ==
  /\ WallInit
  /\ phase = "key"
  /\ client = "none"
  /\ scheduler = "none"
  /\ job = "idle"

-----------------------------------------------------------------------------
(* lifespan, up to its yield *)

CheckPhoneEncryptionKey ==
  /\ phase = "key"
  /\ phase' = "db"
  /\ UNCHANGED <<wallVars, client, scheduler, job>>

MutantClientSkipped ==
  /\ phase = "db"
  /\ phase' = "sms"
  /\ UNCHANGED <<wallVars, client, scheduler, job>>

InitDb ==
  /\ phase = "db"
  /\ phase' = "client"
  /\ UNCHANGED <<wallVars, client, scheduler, job>>

BuildFabtClient ==
  /\ phase = "client"
  /\ client' = "open"
  /\ phase' = "sms"
  /\ UNCHANGED <<wallVars, scheduler, job>>

BuildSendSms ==
  /\ phase = "sms"
  /\ phase' = "scheduler"
  /\ UNCHANGED <<wallVars, client, scheduler, job>>

StartScheduler ==
  /\ phase = "scheduler"
  /\ scheduler' = "running"
  /\ phase' = "serving"
  /\ UNCHANGED <<wallVars, client, job>>

MutantFailedStartExits ==
  /\ phase \in Starting
  /\ mock => phase \in {"db", "scheduler"}
  /\ phase' = "stopped"
  /\ UNCHANGED <<wallVars, client, scheduler, job>>

(* Without FABT and Twilio only the database and the scheduler's settings  *)
(* can fail.                                                               *)
StartFails ==
  /\ phase \in Starting
  /\ mock => phase \in {"db", "scheduler"}
  /\ phase' = "finally"
  /\ UNCHANGED <<wallVars, client, scheduler, job>>

(* and after it *)

(* The server is told to stop: it takes no more requests.                  *)
Stop ==
  /\ phase = "serving"
  /\ phase' = "draining"
  /\ UNCHANGED <<wallVars, client, scheduler, job>>

Drained ==
  /\ phase = "draining"
  /\ \A v \in Viewers : viewer[v].pc \in {"new", "ended"}
  /\ phase' = "finally"
  /\ UNCHANGED <<wallVars, client, scheduler, job>>

MutantSchedulerLeft ==
  /\ phase = "finally"
  /\ client' = IF client = "open" /\ ~mock THEN "closed" ELSE client
  /\ phase' = "closing"
  /\ UNCHANGED <<wallVars, scheduler, job>>

MutantClosesUndrained ==
  /\ phase \in {"draining", "finally"}
  /\ scheduler' = IF scheduler = "running" THEN "stopping" ELSE scheduler
  /\ client' = IF client = "open" /\ ~mock THEN "closed" ELSE client
  /\ phase' = "closing"
  /\ UNCHANGED <<wallVars, job>>

(* shutdown(wait=False) asks the scheduler to stop at the loop's next      *)
(* turn; aclose refuses new calls from the moment it is entered.           *)
Finally ==
  /\ phase = "finally"
  /\ scheduler' = IF scheduler = "running" THEN "stopping" ELSE scheduler
  /\ client' = IF client = "open" /\ ~mock THEN "closed" ELSE client
  /\ phase' = "closing"
  /\ UNCHANGED <<wallVars, job>>

(* aclose has returned.  It does not wait for the scheduler: that has      *)
(* stopped by then because shutdown put its stop on the event loop ahead   *)
(* of whatever aclose awaits and of uvicorn's own end.                     *)
Closed ==
  /\ phase = "closing"
  /\ scheduler # "stopping"
  /\ phase' = "stopped"
  /\ UNCHANGED <<wallVars, client, scheduler, job>>

-----------------------------------------------------------------------------
(* The scheduler and its jobs. *)

JobStarts ==
  /\ scheduler = "running"
  /\ job = "idle"
  /\ job' = "running"
  /\ UNCHANGED <<wallVars, phase, client, scheduler>>

(* Done, or ended by a call that raises: of a closed client every call does. *)
JobEnds ==
  /\ job = "running"
  /\ job' = "idle"
  /\ UNCHANGED <<wallVars, phase, client, scheduler>>

(* Stopping, it cancels the jobs that run.                                 *)
SchedulerStops ==
  /\ scheduler = "stopping"
  /\ scheduler' = "stopped"
  /\ job' = "idle"
  /\ UNCHANGED <<wallVars, phase, client>>

-----------------------------------------------------------------------------
LifespanStep ==
  \/ CheckPhoneEncryptionKey \/ InitDb \/ BuildFabtClient \/ BuildSendSms \/ StartScheduler
  \/ StartFails \/ Drained \/ Finally \/ Closed

ViewersStep ==
  /\ \E v \in Viewers :
       \/ phase = "serving" /\ \E stream, own \in BOOLEAN : Open(v, stream, own)
       \/ ViewerStep(v) \/ FetchFails(v) \/ Leave(v) \/ Cancelled(v)
  /\ UNCHANGED serviceVars

Next ==
  \/ LifespanStep \/ Stop
  \/ JobStarts \/ JobEnds \/ SchedulerStops
  \/ ViewersStep
  \/ WorldStep /\ UNCHANGED serviceVars

(* The process goes on, and so does each viewer's request: a call is       *)
(* answered or times out, a sleep ends.  Nobody owes a visit, a departure, *)
(* a count or a failure, nor the server the cancelling of a stream.        *)
Spec ==
  /\ Init /\ [][Next]_vars
  /\ WF_vars(LifespanStep) /\ WF_vars(SchedulerStops)
  /\ \A v \in Viewers : WF_vars(ViewerStep(v) /\ UNCHANGED serviceVars)
-----------------------------------------------------------------------------
(* Types of every variable of the two modules; no scheduler is started     *)
(* without a client for its jobs.                                          *)
TypeOK ==
  /\ WallTypeOK
  /\ phase \in Starting \cup Serving \cup {"finally", "closing", "stopped"}
  /\ client \in {"none", "open", "closed"}
  /\ scheduler \in {"none", "running", "stopping", "stopped"}
  /\ job \in {"idle", "running"}
  /\ scheduler # "none" => client # "none"

(* Whichever step of starting failed, and whatever ran when the process    *)
(* was told to stop: in the end no scheduler runs, no job, and no client   *)
(* of a real FABT is left open (main.py:106-121).  That nothing runs rests *)
(* on the order of the event loop as well (Closed); the database engine,   *)
(* which nothing disposes of, is not modelled.                             *)
ReleasedAll ==
  phase = "stopped" =>
    /\ scheduler \in {"none", "stopped"}
    /\ job = "idle"
    /\ client = "open" => mock

(* A viewer's board is never fetched with a client that is not there yet,  *)
(* or closed already: requests neither come too early nor end too late.    *)
ServedWhileOpen ==
  \A v \in Viewers : viewer[v].pc \notin {"new", "ended"} => client = "open"

(* Why the two hold: what is built and released in each phase.             *)
BuiltInOrder ==
  /\ phase \in Starting => scheduler = "none"
  /\ phase \in {"key", "db", "client"} => client = "none"
  /\ phase \in {"sms", "scheduler"} \cup Serving => client = "open"
  /\ phase \in {"closing", "stopped"} => scheduler # "running" /\ (client = "open" => mock)
  /\ phase = "stopped" => scheduler # "stopping"
  /\ job = "running" => scheduler \in {"running", "stopping"}
  /\ \A v \in Viewers : viewer[v].pc \notin {"new", "ended"} => phase \in Serving

(* The inductive invariant the proofs rest on.                             *)
IInv == TypeOK /\ BuiltInOrder /\ \A v \in Viewers : FetchesRightly(viewer[v])

(* A process told to stop does, once the clients of its streams have left: *)
(* each stream ends by itself, wherever its client left it, and pages do.  *)
StopsWithoutWatchers ==
  phase = "draining" /\ (\A v \in Viewers : viewer[v].stream => ~viewer[v].there \/ viewer[v].pc = "ended")
    ~> phase = "stopped"
=============================================================================
