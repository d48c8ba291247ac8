------------------------------- MODULE Nudge -------------------------------
(***************************************************************************)
(* The stale-count nudge jobs of app/nudge/scheduler.py, interleaved with  *)
(* the inbound SMS requests of app/sms/webhook.py that save counts and     *)
(* clear nudges, with FABT staff saving counts of their own, and with the  *)
(* admin page switching coordinators on and off.                           *)
(*                                                                         *)
(* All of it runs on one asyncio event loop, so a step is the code between *)
(* two awaits: whatever a job or a request read before an await may have   *)
(* changed when it goes on.  An awaited call may raise, which ends the job *)
(* or the request and rolls back what its session had not committed, and   *)
(* the process may crash; the nudge table and FABT survive.                *)
(***************************************************************************)
EXTENDS Freshness, Sequences

CONSTANTS
  Shelters,                  \* shelters FABT knows
  DvShelters,                \* those that are confidential to begin with
  Reclassified,              \* bound: those FABT staff make confidential or ordinary
  Populations,               \* population types a shelter reports
  Coordinators, Leads,       \* coordinator_phone rows; those on shift "lead"
  ShelterOf,                 \* coordinator_phone.shelter_id
  Unreachable,               \* coordinators every text to whom raises
  Toggled,                   \* bound: those the admin page switches on and off
  Requests,                  \* inbound messages, each handled once
  CheckTimes,                \* times at which the stale check fires
  EscalationWindow,          \* Settings.nudge_escalation_minutes
  NoShelter,
  MaxClock,                  \* bound: the clock stops here, the jobs go on
  MaxFaults                  \* bound: raised awaits and crashes

ASSUME NudgeAssumption ==
  /\ DvShelters \subseteq Shelters /\ Reclassified \subseteq Shelters
  /\ Leads \subseteq Coordinators /\ Toggled \subseteq Coordinators
  /\ Unreachable \subseteq Coordinators
  /\ ShelterOf \in [Coordinators -> Shelters]
  /\ NoShelter \notin Shelters
  /\ EscalationWindow \in Nat
  /\ CheckTimes \subseteq Nat
  /\ MaxClock \in Nat /\ MaxClock >= StaleAge
  /\ MaxFaults \in Nat

Coordinator == 1   \* NudgeLevel.COORDINATOR
Lead == 2          \* NudgeLevel.LEAD
Levels == {Coordinator, Lead}
Never == -1        \* no count was ever recorded

VARIABLES
  clock,     \* wall-clock time, in the unit of the thresholds
  due,       \* jobs the scheduler fired that have not begun
  recorded,  \* FABT: when the latest count of a population was recorded
  dv,        \* FABT: the shelters that are confidential now
  active,    \* coordinator_phone.active
  nudges,    \* the nudge table; a row's id is its position
  lastText,  \* the text sent last: to whom, of which level, when
  stale,     \* the running stale check
  esc,       \* the running escalation check
  request,   \* the inbound requests
  faults     \* faults so far

vars == <<clock, due, recorded, dv, active, nudges, lastText, stale, esc, request,
          faults>>

Jobs == {"stale", "esc"}
NoText == [level |-> 0]
StaleIdle == [pc |-> "idle", now |-> 0, todo |-> {}, at |-> NoShelter, rcpt |-> {}]
EscIdle == [pc |-> "idle", now |-> 0, todo |-> {}, at |-> 0, rcpt |-> {}]
RequestNew == [pc |-> "new", shelter |-> NoShelter, todo |-> {}, saved |-> FALSE,
               ids |-> {}, mark |-> 0]

-----------------------------------------------------------------------------
(* What the queries return. *)

AnyStale(s) ==
  \E p \in Populations :
    recorded[s][p] # Never /\ ComputeFreshness(recorded[s][p], clock) = "stale"

Open(i) == ~nudges[i].resolved

MutantResolvedFilterInverted(s, l) ==
  \E i \in DOMAIN nudges : nudges[i].shelter = s /\ nudges[i].level = l /\ ~Open(i)

MutantResolvedFilterDropped(s, l) ==
  \E i \in DOMAIN nudges : nudges[i].shelter = s /\ nudges[i].level = l

HasUnresolvedNudge(s, l) ==
  \E i \in DOMAIN nudges : nudges[i].shelter = s /\ nudges[i].level = l /\ Open(i)

ActiveCoordinators(s, among) == {c \in active \cap among : ShelterOf[c] = s}

MutantAgeIgnored(now) == {i \in DOMAIN nudges : nudges[i].level = Coordinator /\ Open(i)}

MutantOnlyOnTheMinute(now) ==
  {i \in DOMAIN nudges : /\ nudges[i].level = Coordinator
                         /\ Open(i)
                         /\ now - nudges[i].sentAt = EscalationWindow}

PendingEscalation(now) ==
  {i \in DOMAIN nudges : /\ nudges[i].level = Coordinator
                         /\ Open(i)
                         /\ now - nudges[i].sentAt >= EscalationWindow}

MutantLeadNudgesLeft(s) ==
  {i \in DOMAIN nudges : nudges[i].shelter = s /\ nudges[i].level = Coordinator /\ Open(i)}

UnresolvedNudges(s) == {i \in DOMAIN nudges : nudges[i].shelter = s /\ Open(i)}

(* What the commits write. *)

MutantLevelFromZero(s, l, now) ==
  [shelter |-> s, level |-> l - 1, sentAt |-> now, resolved |-> FALSE]

NudgeRow(s, l, now) == [shelter |-> s, level |-> l, sentAt |-> now, resolved |-> FALSE]

MutantResolveToggles(ids) ==
  [i \in DOMAIN nudges |->
     IF i \in ids THEN [nudges[i] EXCEPT !.resolved = ~@] ELSE nudges[i]]

Resolve(ids) ==
  [i \in DOMAIN nudges |->
     IF i \in ids THEN [nudges[i] EXCEPT !.resolved = TRUE] ELSE nudges[i]]

-----------------------------------------------------------------------------
Init ==
  /\ clock = StaleAge
  /\ due = {}
  /\ recorded \in [Shelters -> [Populations -> {Never} \cup 0 .. StaleAge]]
  /\ dv = DvShelters
  /\ active = Coordinators
  /\ nudges = <<>>
  /\ lastText = NoText
  /\ stale = StaleIdle
  /\ esc = EscIdle
  /\ request = [r \in Requests |-> RequestNew]
  /\ faults = 0

(* The scheduler fires the escalation check on every tick and the stale    *)
(* check at its hours; a job still running (max_instances = 1) is skipped. *)
Fired(t) == {"esc"} \cup (IF t \in CheckTimes THEN {"stale"} ELSE {})

Tick ==
  LET t == IF clock < MaxClock THEN clock + 1 ELSE clock
      running == {j \in Jobs : \/ j = "stale" /\ stale.pc # "idle"
                               \/ j = "esc" /\ esc.pc # "idle"}
  IN /\ clock' = t
     /\ due' = Fired(t) \ running
     /\ UNCHANGED <<recorded, dv, active, nudges, lastText, stale, esc, request, faults>>

-----------------------------------------------------------------------------
(* run_stale_check *)

StaleStart ==
  /\ "stale" \in due
  /\ stale.pc = "idle"
  /\ due' = due \ {"stale"}
  /\ stale' = [stale EXCEPT !.pc = "list", !.now = clock]
  /\ UNCHANGED <<clock, recorded, dv, active, nudges, lastText, esc, request, faults>>

MutantDvListed ==
  /\ stale.pc = "list"
  /\ stale' = [stale EXCEPT !.pc = "next", !.todo = Shelters]
  /\ UNCHANGED <<clock, due, recorded, dv, active, nudges, lastText, esc, request, faults>>

StaleList ==
  /\ stale.pc = "list"
  /\ stale' = [stale EXCEPT !.pc = "next", !.todo = Shelters \ dv]
  /\ UNCHANGED <<clock, due, recorded, dv, active, nudges, lastText, esc, request, faults>>

StaleCounts(s) ==
  /\ stale.pc = "next"
  /\ s \in stale.todo
  /\ stale' = IF AnyStale(s)
              THEN [stale EXCEPT !.pc = "check", !.todo = @ \ {s}, !.at = s]
              ELSE [stale EXCEPT !.todo = @ \ {s}]
  /\ UNCHANGED <<clock, due, recorded, dv, active, nudges, lastText, esc, request, faults>>

StaleCheckPending ==
  /\ stale.pc = "check"
  /\ stale' = [stale EXCEPT !.pc =
                 IF HasUnresolvedNudge(stale.at, Coordinator) THEN "next" ELSE "load"]
  /\ UNCHANGED <<clock, due, recorded, dv, active, nudges, lastText, esc, request, faults>>

StaleLoad ==
  /\ stale.pc = "load"
  /\ stale' = [stale EXCEPT !.pc = "send",
                            !.rcpt = ActiveCoordinators(stale.at, Coordinators)]
  /\ UNCHANGED <<clock, due, recorded, dv, active, nudges, lastText, esc, request, faults>>

StaleSend(c) ==
  /\ stale.pc = "send"
  /\ c \in stale.rcpt \ Unreachable
  /\ lastText' = [to |-> c, level |-> Coordinator, at |-> clock]
  /\ stale' = [stale EXCEPT !.rcpt = @ \ {c}]
  /\ UNCHANGED <<clock, due, recorded, dv, active, nudges, esc, request, faults>>

StaleCommit ==
  /\ stale.pc = "send"
  /\ stale.rcpt = {}
  /\ nudges' = Append(nudges, NudgeRow(stale.at, Coordinator, stale.now))
  /\ stale' = [stale EXCEPT !.pc = "next"]
  /\ UNCHANGED <<clock, due, recorded, dv, active, lastText, esc, request, faults>>

StaleDone ==
  /\ stale.pc = "next"
  /\ stale.todo = {}
  /\ stale' = StaleIdle
  /\ UNCHANGED <<clock, due, recorded, dv, active, nudges, lastText, esc, request, faults>>

(* A text to an unreachable number raises: the job ends, its row is lost.  *)
StaleUnreachable ==
  /\ stale.pc = "send"
  /\ stale.rcpt \cap Unreachable # {}
  /\ stale' = StaleIdle
  /\ UNCHANGED <<clock, due, recorded, dv, active, nudges, lastText, esc, request, faults>>

(* Any other awaited call raises. *)
StaleFail ==
  /\ stale.pc # "idle"
  /\ faults < MaxFaults
  /\ faults' = faults + 1
  /\ stale' = StaleIdle
  /\ UNCHANGED <<clock, due, recorded, dv, active, nudges, lastText, esc, request>>

StaleProgress ==
  \/ StaleStart \/ StaleList \/ StaleCheckPending \/ StaleLoad \/ StaleCommit
  \/ StaleDone \/ StaleUnreachable
  \/ \E s \in Shelters : StaleCounts(s)
  \/ \E c \in Coordinators : StaleSend(c)

-----------------------------------------------------------------------------
(* run_escalation_check *)

EscStart ==
  /\ "esc" \in due
  /\ esc.pc = "idle"
  /\ due' = due \ {"esc"}
  /\ esc' = [esc EXCEPT !.pc = "select", !.now = clock]
  /\ UNCHANGED <<clock, recorded, dv, active, nudges, lastText, stale, request, faults>>

(* The loop's age test reads only values fixed here, so it is made here.   *)
EscSelect ==
  /\ esc.pc = "select"
  /\ esc' = [esc EXCEPT !.pc = "next", !.todo = PendingEscalation(esc.now)]
  /\ UNCHANGED <<clock, due, recorded, dv, active, nudges, lastText, stale, request, faults>>

EscCounts(i) ==
  /\ esc.pc = "next"
  /\ i \in esc.todo
  /\ esc' = [esc EXCEPT !.pc = IF AnyStale(nudges[i].shelter) THEN "check" ELSE "resolve",
                        !.todo = @ \ {i}, !.at = i]
  /\ UNCHANGED <<clock, due, recorded, dv, active, nudges, lastText, stale, request, faults>>

EscResolve ==
  /\ esc.pc = "resolve"
  /\ nudges' = Resolve({esc.at})
  /\ esc' = [esc EXCEPT !.pc = "next"]
  /\ UNCHANGED <<clock, due, recorded, dv, active, lastText, stale, request, faults>>

EscCheckPending ==
  /\ esc.pc = "check"
  /\ esc' = [esc EXCEPT !.pc =
               IF HasUnresolvedNudge(nudges[esc.at].shelter, Lead) THEN "next" ELSE "load"]
  /\ UNCHANGED <<clock, due, recorded, dv, active, nudges, lastText, stale, request, faults>>

EscLoad ==
  /\ esc.pc = "load"
  /\ esc' = [esc EXCEPT !.pc = "send",
                        !.rcpt = ActiveCoordinators(nudges[esc.at].shelter, Leads)]
  /\ UNCHANGED <<clock, due, recorded, dv, active, nudges, lastText, stale, request, faults>>

EscSend(c) ==
  /\ esc.pc = "send"
  /\ c \in esc.rcpt \ Unreachable
  /\ lastText' = [to |-> c, level |-> Lead, at |-> clock]
  /\ esc' = [esc EXCEPT !.rcpt = @ \ {c}]
  /\ UNCHANGED <<clock, due, recorded, dv, active, nudges, stale, request, faults>>

EscCommit ==
  /\ esc.pc = "send"
  /\ esc.rcpt = {}
  /\ nudges' = Append(nudges, NudgeRow(nudges[esc.at].shelter, Lead, esc.now))
  /\ esc' = [esc EXCEPT !.pc = "next"]
  /\ UNCHANGED <<clock, due, recorded, dv, active, lastText, stale, request, faults>>

EscDone ==
  /\ esc.pc = "next"
  /\ esc.todo = {}
  /\ esc' = EscIdle
  /\ UNCHANGED <<clock, due, recorded, dv, active, nudges, lastText, stale, request, faults>>

EscUnreachable ==
  /\ esc.pc = "send"
  /\ esc.rcpt \cap Unreachable # {}
  /\ esc' = EscIdle
  /\ UNCHANGED <<clock, due, recorded, dv, active, nudges, lastText, stale, request, faults>>

EscFail ==
  /\ esc.pc # "idle"
  /\ faults < MaxFaults
  /\ faults' = faults + 1
  /\ esc' = EscIdle
  /\ UNCHANGED <<clock, due, recorded, dv, active, nudges, lastText, stale, request>>

EscProgress ==
  \/ EscStart \/ EscSelect \/ EscResolve \/ EscCheckPending \/ EscLoad
  \/ EscCommit \/ EscDone \/ EscUnreachable
  \/ \E i \in DOMAIN nudges : EscCounts(i)
  \/ \E c \in Coordinators : EscSend(c)

-----------------------------------------------------------------------------
(* inbound_sms, from the lookup of the sender to the reply *)

RequestStart(r, c, ps) ==
  /\ request[r].pc = "new"
  /\ c \in active
  /\ request' = [request EXCEPT ![r] = [@ EXCEPT !.pc = "post",
                                                 !.shelter = ShelterOf[c], !.todo = ps]]
  /\ UNCHANGED <<clock, due, recorded, dv, active, nudges, lastText, stale, esc, faults>>

PostSaved(r, p) ==
  /\ request[r].pc = "post"
  /\ p \in request[r].todo
  /\ recorded' = [recorded EXCEPT ![request[r].shelter][p] = clock]
  /\ request' = [request EXCEPT ![r] = [@ EXCEPT !.todo = request[r].todo \ {p}, !.saved = TRUE,
                                                 !.mark = Len(nudges)]]
  /\ UNCHANGED <<clock, due, dv, active, nudges, lastText, stale, esc, faults>>

(* FABT answers with an error, after it saved the count or instead.        *)
PostRejected(r, p) ==
  /\ request[r].pc = "post"
  /\ p \in request[r].todo
  /\ \/ UNCHANGED recorded
     \/ recorded' = [recorded EXCEPT ![request[r].shelter][p] = clock]
  /\ request' = [request EXCEPT ![r] = [@ EXCEPT !.todo = request[r].todo \ {p}]]
  /\ UNCHANGED <<clock, due, dv, active, nudges, lastText, stale, esc, faults>>

NothingSaved(r) ==
  /\ request[r].pc = "post"
  /\ request[r].todo = {}
  /\ ~request[r].saved
  /\ request' = [request EXCEPT ![r] = [@ EXCEPT !.pc = "rejected"]]
  /\ UNCHANGED <<clock, due, recorded, dv, active, nudges, lastText, stale, esc, faults>>

ResolveSelect(r) ==
  /\ request[r].pc = "post"
  /\ request[r].todo = {}
  /\ request[r].saved
  /\ request' = [request EXCEPT ![r] = [@ EXCEPT !.pc = "resolve",
                                                 !.ids = UnresolvedNudges(request[r].shelter)]]
  /\ UNCHANGED <<clock, due, recorded, dv, active, nudges, lastText, stale, esc, faults>>

ResolveCommit(r) ==
  /\ request[r].pc = "resolve"
  /\ nudges' = Resolve(request[r].ids)
  /\ request' = [request EXCEPT ![r] = [@ EXCEPT !.pc = "log", !.ids = {}]]
  /\ UNCHANGED <<clock, due, recorded, dv, active, lastText, stale, esc, faults>>

Reply(r) ==
  /\ request[r].pc = "log"
  /\ request' = [request EXCEPT ![r] = [@ EXCEPT !.pc = "saved"]]
  /\ UNCHANGED <<clock, due, recorded, dv, active, nudges, lastText, stale, esc, faults>>

RequestFail(r) ==
  /\ request[r].pc \in {"post", "resolve", "log"}
  /\ faults < MaxFaults
  /\ faults' = faults + 1
  /\ request' = [request EXCEPT ![r] = [RequestNew EXCEPT !.pc = "failed"]]
  /\ UNCHANGED <<clock, due, recorded, dv, active, nudges, lastText, stale, esc>>

RequestStep(r) ==
  \/ \E c \in Coordinators, ps \in (SUBSET Populations) \ {{}} : RequestStart(r, c, ps)
  \/ \E p \in Populations : PostSaved(r, p) \/ PostRejected(r, p)
  \/ NothingSaved(r) \/ ResolveSelect(r) \/ ResolveCommit(r) \/ Reply(r)
  \/ RequestFail(r)

-----------------------------------------------------------------------------
(* The rest of the world. *)

(* FABT staff save a count through FABT's own app: no nudge is resolved.   *)
FabtUpdate(s, p) ==
  /\ recorded' = [recorded EXCEPT ![s][p] = clock]
  /\ UNCHANGED <<clock, due, dv, active, nudges, lastText, stale, esc, request, faults>>

(* FABT staff make a shelter confidential, or ordinary again.              *)
ChangeStatus(s) ==
  /\ dv' = IF s \in dv THEN dv \ {s} ELSE dv \cup {s}
  /\ UNCHANGED <<clock, due, recorded, active, nudges, lastText, stale, esc, request, faults>>

ToggleActive(c) ==
  /\ active' = IF c \in active THEN active \ {c} ELSE active \cup {c}
  /\ UNCHANGED <<clock, due, recorded, dv, nudges, lastText, stale, esc, request, faults>>

(* The process dies and starts again: jobs and requests are gone.          *)
Crash ==
  /\ faults < MaxFaults
  /\ faults' = faults + 1
  /\ due' = {}
  /\ stale' = StaleIdle
  /\ esc' = EscIdle
  /\ request' = [r \in Requests |->
                   IF request[r].pc \in {"post", "resolve", "log"}
                   THEN [RequestNew EXCEPT !.pc = "failed"] ELSE request[r]]
  /\ UNCHANGED <<clock, recorded, dv, active, nudges, lastText>>

Next ==
  \/ Tick
  \/ StaleProgress \/ StaleFail
  \/ EscProgress \/ EscFail
  \/ \E r \in Requests : RequestStep(r)
  \/ \E s \in Shelters, p \in Populations : FabtUpdate(s, p)
  \/ \E s \in Reclassified : ChangeStatus(s)
  \/ \E c \in Toggled : ToggleActive(c)
  \/ Crash

Spec == Init /\ [][Next]_vars

(* The scheduler keeps firing, and a job that can go on does.  Requests,   *)
(* staff and faults owe nothing.                                           *)
FairSpec == Spec /\ WF_vars(Tick) /\ WF_vars(StaleProgress) /\ WF_vars(EscProgress)
-----------------------------------------------------------------------------
(* Safety.                                                                 *)

(* Types of every variable (and: a job that is not in its send step has    *)
(* nobody left to text).                                                   *)
Times == 0 .. MaxClock
Row == [shelter : Shelters, level : Levels, sentAt : Times, resolved : BOOLEAN]

StaleJob ==
  [pc : {"idle", "list", "next", "check", "load", "send"}, now : Times,
   todo : SUBSET Shelters, at : Shelters \cup {NoShelter}, rcpt : SUBSET Coordinators]
EscJob ==
  [pc : {"idle", "select", "next", "resolve", "check", "load", "send"}, now : Times,
   todo : SUBSET Nat, at : Nat, rcpt : SUBSET Coordinators]
Request ==
  [pc : {"new", "post", "resolve", "log", "saved", "rejected", "failed"},
   shelter : Shelters \cup {NoShelter}, todo : SUBSET Populations, saved : BOOLEAN,
   ids : SUBSET Nat, mark : Nat]

TypeOK ==
  /\ clock \in Times
  /\ due \subseteq Jobs
  /\ recorded \in [Shelters -> [Populations -> {Never} \cup Times]]
  /\ dv \subseteq Shelters
  /\ active \subseteq Coordinators
  /\ nudges \in Seq(Row)
  /\ lastText \in {NoText} \cup [to : Coordinators, level : Levels, at : Times]
  /\ stale \in StaleJob
  /\ esc \in EscJob
  /\ request \in [Requests -> Request]
  /\ faults \in 0 .. MaxFaults

Pending(s, l) ==
  {i \in DOMAIN nudges : nudges[i].shelter = s /\ nudges[i].level = l /\ Open(i)}

(* A shelter never has two pending nudges of one level, although each job  *)
(* looks for a pending nudge several awaits before it commits its own      *)
(* (assumptions 4 and 5 of scheduler.py).                                  *)
AtMostOnePending ==
  \A s \in Shelters, l \in Levels : \A i, j \in Pending(s, l) : i = j

(* Nobody is texted while a nudge of that level is pending for their       *)
(* shelter: the test and the texts are separated by awaits too.            *)
NoTextWhilePending ==
  [][lastText' # lastText =>
       Pending(ShelterOf[lastText'.to], lastText'.level) = {}]_vars

(* A lead nudge answers a coordinator nudge of the same shelter that is    *)
(* at least the escalation window older, whatever was resolved since the   *)
(* escalation check took its list of pending nudges.                       *)
EscalationWaits ==
  \A j \in DOMAIN nudges :
    nudges[j].level = Lead =>
      \E i \in 1 .. j - 1 :
        /\ nudges[i].shelter = nudges[j].shelter /\ nudges[i].level = Coordinator
        /\ nudges[j].sentAt - nudges[i].sentAt >= EscalationWindow

(* A coordinator who is told the count is saved leaves no nudge behind     *)
(* that was on record when the count was saved, of either level, whatever  *)
(* the jobs wrote between the save and the commit that resolves.           *)
SavedClearsEarlier ==
  \A r \in Requests :
    request[r].pc = "saved" =>
      \A i \in 1 .. request[r].mark : nudges[i].shelter = request[r].shelter => ~Open(i)

(* Neither job has a shelter in hand: the stale check has it neither ahead *)
(* nor at its turn, the escalation check no nudge of it, and none of level *)
(* 1 is pending.                                                           *)
StaleHolds(s) ==
  \/ s \in stale.todo
  \/ stale.pc \in {"check", "load", "send"} /\ stale.at = s

EscHolds(s) ==
  \/ esc.pc \notin {"idle", "select"} /\ \E i \in esc.todo : nudges[i].shelter = s
  \/ esc.pc \in {"check", "load", "send"} /\ nudges[esc.at].shelter = s

Quiet(s) == Pending(s, Coordinator) = {} /\ ~StaleHolds(s) /\ ~EscHolds(s)

(* Once a confidential shelter is quiet, it stays so and nobody is texted  *)
(* about it for as long as it is confidential.  The stale check asks once, *)
(* when it lists the shelters (scheduler.py:141-144), the escalation check *)
(* never does (scheduler.py:211-242): a shelter made confidential while it *)
(* is not quiet may still be texted about, but only for what was under way *)
(* then.                                                                   *)
DvLeftAlone ==
  [][\A s \in Shelters :
       s \in dv /\ s \in dv' /\ Quiet(s) =>
         Quiet(s)' /\ (lastText' # lastText => ShelterOf[lastText'.to] # s)]_vars

(* The nudge table behaves as NudgeLedger says.                            *)
Ledger == INSTANCE NudgeLedger WITH
  issued <- Len(nudges),
  pending <- [s \in Shelters |-> [l \in Levels |-> Pending(s, l)]],
  nudged <- {s \in Shelters : \E i \in DOMAIN nudges :
                nudges[i].shelter = s /\ nudges[i].level = Coordinator}

LedgerSpec == Ledger!Spec

-----------------------------------------------------------------------------
(* Why it is so: what each job knows between its awaits.                   *)

(* From the test on, the stale check alone opens level-1 nudges.           *)
StaleOwnsShelter ==
  /\ stale.pc \in {"check", "load", "send"} => stale.at \in Shelters
  /\ stale.pc \in {"load", "send"} => Pending(stale.at, Coordinator) = {}
  /\ stale.pc = "send" => \A c \in stale.rcpt : ShelterOf[c] = stale.at

(* The same of the escalation check and level 2; the nudges it took are    *)
(* coordinator nudges old enough, resolved since or not.                   *)
EscAim(i) ==
  /\ i \in DOMAIN nudges
  /\ nudges[i].level = Coordinator
  /\ esc.now - nudges[i].sentAt >= EscalationWindow

EscOwnsShelter ==
  /\ esc.pc \notin {"idle", "select"} => \A i \in esc.todo : EscAim(i)
  /\ esc.pc \in {"resolve", "check", "load", "send"} => EscAim(esc.at)
  /\ esc.pc \in {"load", "send"} => Pending(nudges[esc.at].shelter, Lead) = {}
  /\ esc.pc = "send" => \A c \in esc.rcpt : ShelterOf[c] = nudges[esc.at].shelter

(* What a request selected is of its shelter and covers what was open when *)
(* it saved its count.                                                     *)
RequestCovers ==
  \A r \in Requests :
    /\ request[r].mark <= Len(nudges)
    /\ \A i \in 1 .. request[r].mark :
         nudges[i].shelter = request[r].shelter /\ Open(i) =>
           /\ request[r].pc = "resolve" => i \in request[r].ids
           /\ request[r].pc \notin {"log", "saved"}
    /\ request[r].pc = "resolve" => \A i \in request[r].ids :
         i \in DOMAIN nudges /\ nudges[i].shelter = request[r].shelter

(* The inductive invariant the proofs rest on.                             *)
IInv ==
  /\ TypeOK
  /\ AtMostOnePending
  /\ EscalationWaits
  /\ StaleOwnsShelter
  /\ EscOwnsShelter
  /\ RequestCovers

-----------------------------------------------------------------------------
(* Liveness.                                                               *)

Overdue(s) ==
  {i \in Pending(s, Coordinator) : clock - nudges[i].sentAt >= EscalationWindow}

(* A stale shelter that is not confidential is nudged, unless it becomes   *)
(* confidential or somebody saves a count of it.                           *)
StaleIsNudged ==
  \A s \in Shelters :
    AnyStale(s) /\ s \notin dv ~>
      ~AnyStale(s) \/ s \in dv \/ Pending(s, Coordinator) # {}

(* A nudge pending for the escalation window does not stay that way with   *)
(* no lead nudge pending: it is resolved, or it is escalated.              *)
EscalationAnswered ==
  \A s \in Shelters :
    Overdue(s) # {} ~> Overdue(s) = {} \/ Pending(s, Lead) # {}

-----------------------------------------------------------------------------
(* What the source says of the jobs and the code does not keep.            *)

(* scheduler.py:132 promises to "Text every active coordinator of a        *)
(* newly-STALE, non-DV shelter": a stale shelter all of whose coordinators *)
(* can be reached is nudged, whoever cannot be reached elsewhere.          *)
ReachableIsNudged ==
  \A s \in {t \in Shelters : \A c \in Unreachable : ShelterOf[c] # t} :
    AnyStale(s) /\ s \notin dv ~>
      ~AnyStale(s) \/ s \in dv \/ Pending(s, Coordinator) # {}

(* scheduler.py:1-3 has the job "escalate to the site lead after 30 min    *)
(* [if still unresolved]": an overdue nudge is resolved, or a lead nudge   *)
(* no older than it is put on record.                                      *)
EveryOverdueEscalated ==
  \A s \in Shelters :
    Overdue(s) # {} ~>
      \/ Overdue(s) = {}
      \/ \E i \in Overdue(s), j \in DOMAIN nudges :
           /\ nudges[j].shelter = s /\ nudges[j].level = Lead
           /\ nudges[j].sentAt >= nudges[i].sentAt
=============================================================================
