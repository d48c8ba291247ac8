----------------------------- MODULE Wallboard -----------------------------
(***************************************************************************)
(* The call-centre wallboard: the pages and event streams of               *)
(* app/wallboard/router.py, and the boards HttpFabtClient (fabt_client.py) *)
(* assembles for them out of several calls, or InMemoryFabtClient and its  *)
(* store (mock_fabt) out of one look.                                      *)
(*                                                                         *)
(* Between two calls FABT's staff and the coordinators save counts, time   *)
(* passes, a shelter becomes confidential or ceases to be, or is gone; any *)
(* call may fail, and the viewer may leave.  Counts are represented by the *)
(* time they were recorded, which is all their freshness depends on; the   *)
(* number of holds is passed through and left out.                         *)
(***************************************************************************)
EXTENDS Freshness

CONSTANTS
  Shelters, Populations,
  Viewers,      \* screens, each with one page or stream
  Movable,      \* bound: shelters that become confidential, or go
  Reporting,    \* bound: <<shelter, population>>s that counts are saved of
  MaxClock,     \* bound: time
  MaxFaults     \* bound: failing calls

ASSUME WallboardAssumption ==
  /\ Movable \subseteq Shelters
  /\ Reporting \subseteq Shelters \X Populations
  /\ MaxClock \in Nat /\ MaxFaults \in Nat

VARIABLES
  mock,       \* Settings.use_mock_fabt
  clock,
  status,     \* FABT: "open", confidential ("dv") or "gone"
  recorded,   \* FABT: when the latest count of a population was recorded
  viewer,     \* the requests of the screens
  faults

fabtVars == <<clock, status, recorded>>
wallVars == <<mock, clock, status, recorded, viewer, faults>>

Never == -1

ViewerNew == [pc |-> "new", there |-> TRUE, stream |-> TRUE, own |-> TRUE, todo |-> {},
              sites |-> <<>>, since |-> 0, hidden |-> {}, board |-> <<>>]
Calling == {"list", "counts", "holds"}   \* awaiting FABT

WallInit ==
  /\ mock \in BOOLEAN
  /\ clock = 0
  /\ status \in [Shelters -> {"open", "dv"}]
  /\ \A s \in Shelters \ Movable : status[s] = "open"
  /\ recorded \in [Shelters -> [Populations -> {Never, 0}]]
  /\ \A s \in Shelters, p \in Populations : <<s, p>> \notin Reporting => recorded[s][p] = Never
  /\ viewer = [v \in Viewers |-> ViewerNew]
  /\ faults = 0

-----------------------------------------------------------------------------
(* What FABT, and the store, answer. *)

MutantListed == {s \in Shelters : status[s] # "gone"}

(* FABT may list the confidential ones: the client drops them. *)
Listed == {s \in Shelters : status[s] = "open"}

(* A shelter gone since it was listed has no counts. *)
LatestCounts(s) ==
  [p \in {q \in Populations : status[s] # "gone" /\ recorded[s][q] # Never} |-> recorded[s][p]]

MutantEveryStale(counts, unread) ==
  DOMAIN counts # {} /\ \A p \in DOMAIN counts :
                          p \in unread \/ ComputeFreshness(counts[p], clock) = "stale"

(* A freshness the client cannot read counts as stale. *)
AnyStale(counts, unread) ==
  \E p \in DOMAIN counts : p \in unread \/ ComputeFreshness(counts[p], clock) = "stale"

Site(s, unread) ==
  [counts |-> LatestCounts(s), stale |-> AnyStale(LatestCounts(s), unread)]

-----------------------------------------------------------------------------
(* One screen. *)

Become(v, state) == viewer' = [viewer EXCEPT ![v] = state]

Ended(v) == [ViewerNew EXCEPT !.pc = "ended", !.there = viewer[v].there]

(* A board, or the failure to get one, ends a page; a stream goes on. *)
After(v) ==
  IF viewer[v].stream
  THEN [ViewerNew EXCEPT !.pc = "sleep", !.there = viewer[v].there, !.own = viewer[v].own,
                         !.board = viewer[v].board]
  ELSE Ended(v)

Open(v, stream, own) ==
  /\ viewer[v].pc = "new"
  /\ Become(v, [ViewerNew EXCEPT !.pc = "check", !.stream = stream, !.own = own])
  /\ UNCHANGED <<mock, fabtVars, faults>>

MutantNeverAsks(v) == FALSE

(* is_disconnected *)
Disconnected(v) ==
  /\ viewer[v].pc = "check"
  /\ viewer[v].stream /\ ~viewer[v].there
  /\ Become(v, Ended(v))
  /\ UNCHANGED <<mock, fabtVars, faults>>

StartsFetch(v) == viewer[v].pc = "check" /\ (viewer[v].stream => viewer[v].there)

(* InMemoryFabtClient awaits nothing that waits. *)
FetchMock(v) ==
  /\ StartsFetch(v)
  /\ mock
  /\ Become(v, [viewer[v] EXCEPT !.pc = "push", !.since = clock,
                  !.sites = [s \in IF viewer[v].own THEN Listed ELSE {} |-> Site(s, {})]])
  /\ UNCHANGED <<mock, fabtVars, faults>>

MutantAnyTenant(v) ==
  /\ StartsFetch(v)
  /\ ~mock
  /\ Become(v, [viewer[v] EXCEPT !.pc = "list", !.since = clock,
                  !.hidden = {s \in Shelters : status[s] = "dv"}])
  /\ UNCHANGED <<mock, fabtVars, faults>>

FetchHttp(v) ==
  /\ StartsFetch(v)
  /\ ~mock
  /\ Become(v, IF viewer[v].own
               THEN [viewer[v] EXCEPT !.pc = "list", !.since = clock,
                                      !.hidden = {s \in Shelters : status[s] = "dv"}]
               ELSE After(v))
  /\ UNCHANGED <<mock, fabtVars, faults>>

ListShelters(v) ==
  /\ viewer[v].pc = "list"
  /\ Become(v, [viewer[v] EXCEPT !.pc = IF Listed = {} THEN "push" ELSE "counts",
                                 !.todo = Listed])
  /\ UNCHANGED <<mock, fabtVars, faults>>

GetLatestCounts(v, s) ==
  /\ viewer[v].pc = "counts"
  /\ s \in viewer[v].todo
  /\ \E unread \in SUBSET DOMAIN LatestCounts(s) :
       Become(v, [viewer[v] EXCEPT !.pc = "holds",
                    !.sites = [t \in DOMAIN @ \cup {s} |-> IF t = s THEN Site(s, unread) ELSE @[t]]])
  /\ UNCHANGED <<mock, fabtVars, faults>>

CountActiveHolds(v) ==
  LET todo == viewer[v].todo \ DOMAIN viewer[v].sites
  IN /\ viewer[v].pc = "holds"
     /\ Become(v, [viewer[v] EXCEPT !.pc = IF todo = {} THEN "push" ELSE "counts", !.todo = todo])
     /\ UNCHANGED <<mock, fabtVars, faults>>

Push(v) ==
  /\ viewer[v].pc = "push"
  /\ Become(v, [After(v) EXCEPT !.board = IF viewer[v].stream
                  THEN [s \in DOMAIN viewer[v].sites |-> viewer[v].sites[s].counts] ELSE @])
  /\ UNCHANGED <<mock, fabtVars, faults>>

Wake(v) ==
  /\ viewer[v].pc = "sleep"
  /\ Become(v, [viewer[v] EXCEPT !.pc = "check"])
  /\ UNCHANGED <<mock, fabtVars, faults>>

ViewerStep(v) ==
  \/ Disconnected(v) \/ FetchMock(v) \/ FetchHttp(v) \/ ListShelters(v)
  \/ \E s \in Shelters : GetLatestCounts(v, s)
  \/ CountActiveHolds(v) \/ Push(v) \/ Wake(v)

MutantFailureEnds(v) ==
  /\ viewer[v].pc \in Calling
  /\ faults < MaxFaults
  /\ faults' = faults + 1
  /\ Become(v, Ended(v))
  /\ UNCHANGED <<mock, fabtVars>>

(* A call that fails costs a stream no more than the tick.  The holds of a *)
(* shelter that is gone FABT may refuse to count, each time.               *)
FetchFails(v) ==
  /\ viewer[v].pc \in Calling
  /\ \/ faults < MaxFaults /\ faults' = faults + 1
     \/ /\ viewer[v].pc = "holds"
        /\ \E s \in viewer[v].todo \cap DOMAIN viewer[v].sites : status[s] = "gone"
        /\ UNCHANGED faults
  /\ Become(v, After(v))
  /\ UNCHANGED <<mock, fabtVars>>

Leave(v) ==
  /\ viewer[v].there /\ viewer[v].pc \notin {"new", "ended"}
  /\ Become(v, [viewer[v] EXCEPT !.there = FALSE])
  /\ UNCHANGED <<mock, fabtVars, faults>>

(* The server cancels a stream whose client left, wherever it waits. *)
Cancelled(v) ==
  /\ viewer[v].pc \notin {"new", "ended"}
  /\ viewer[v].stream /\ ~viewer[v].there
  /\ Become(v, Ended(v))
  /\ UNCHANGED <<mock, fabtVars, faults>>

-----------------------------------------------------------------------------
(* The rest of the world. *)

Tick ==
  /\ clock < MaxClock
  /\ clock' = clock + 1
  /\ UNCHANGED <<mock, status, recorded, viewer, faults>>

RecordSnapshot(s, p) ==
  /\ status[s] # "gone"
  /\ recorded' = [recorded EXCEPT ![s][p] = clock]
  /\ UNCHANGED <<mock, clock, status, viewer, faults>>

(* A fetch under way may still show what was not confidential all along.   *)
ChangeStatus(s, new) ==
  /\ ~mock
  /\ status[s] \notin {new, "gone"}
  /\ status' = [status EXCEPT ![s] = new]
  /\ viewer' = [v \in Viewers |->
                  [viewer[v] EXCEPT !.hidden = IF new = "dv" THEN @ ELSE @ \ {s}]]
  /\ UNCHANGED <<mock, clock, recorded, faults>>

WorldStep ==
  \/ Tick
  \/ \E sp \in Reporting : RecordSnapshot(sp[1], sp[2])
  \/ \E s \in Movable, new \in {"open", "dv", "gone"} : ChangeStatus(s, new)

-----------------------------------------------------------------------------
(* What the boards promise.                                                *)

Counts == UNION {[ps -> 0 .. MaxClock] : ps \in SUBSET Populations}
Sites == UNION {[ss -> [counts : Counts, stale : BOOLEAN]] : ss \in SUBSET Shelters}
Boards == UNION {[ss -> Counts] : ss \in SUBSET Shelters}

Viewer ==
  [pc : {"new", "check", "push", "sleep", "ended"} \cup Calling, there : BOOLEAN,
   stream : BOOLEAN, own : BOOLEAN, todo : SUBSET Shelters, sites : Sites,
   since : 0 .. MaxClock, hidden : SUBSET Shelters, board : Boards]

WallTypeOK ==
  /\ mock \in BOOLEAN
  /\ clock \in 0 .. MaxClock
  /\ status \in [Shelters -> {"open", "dv", "gone"}]
  /\ recorded \in [Shelters -> [Populations -> {Never} \cup 0 .. clock]]
  /\ viewer \in [Viewers -> Viewer]
  /\ \A v \in Viewers : viewer[v].since <= clock
  /\ faults \in 0 .. MaxFaults

(* A shelter that is confidential all the while a board is assembled is    *)
(* not on it, nor is any that the viewer's tenant does not own (the        *)
(* invariant of store.py:21-27; fabt_client.py:222-232, 290-307).          *)
ConfidentialHidden ==
  \A v \in Viewers :
    /\ DOMAIN viewer[v].sites \cap viewer[v].hidden = {}
    /\ mock => \A s \in DOMAIN viewer[v].sites \cup DOMAIN viewer[v].board : status[s] # "dv"

(* A viewer of another tenant is never shown a site.                       *)
OtherTenantSeesNothing ==
  \A v \in Viewers :
    ~viewer[v].own => viewer[v].sites = <<>> /\ viewer[v].board = <<>>

(* A site with any count that was stale already when its board was begun   *)
(* is flagged, whichever population it is and whatever FABT calls it.      *)
StaleIsFlagged ==
  \A v \in Viewers : \A s \in DOMAIN viewer[v].sites :
    (\E p \in DOMAIN viewer[v].sites[s].counts :
       ComputeFreshness(viewer[v].sites[s].counts[p], viewer[v].since) = "stale")
      => viewer[v].sites[s].stale

(* Why the three hold: what a screen has fetched, and what it still asks   *)
(* for, as far as its tenant, the store and the confidential allow.        *)
Fetched(r) == DOMAIN r.sites \cup DOMAIN r.board

FetchesRightly(r) ==
  /\ r.pc \in {"new", "check", "sleep", "ended"} =>
       r.sites = <<>> /\ r.todo = {} /\ r.hidden = {}
  /\ r.pc = "list" => r.sites = <<>> /\ r.todo = {}
  /\ r.pc \in Calling => ~mock /\ r.own
  /\ \A s \in r.hidden : status[s] = "dv" /\ s \notin r.todo \cup DOMAIN r.sites
  /\ mock => \A s \in Fetched(r) : status[s] # "dv"
  /\ ~r.own => r.sites = <<>> /\ r.board = <<>>
  /\ \A s \in DOMAIN r.sites : \A p \in DOMAIN r.sites[s].counts :
       ComputeFreshness(r.sites[s].counts[p], r.since) = "stale" => r.sites[s].stale

(* A count that stays is on the screen of every stream that stays, however *)
(* many ticks failed: the stream outlives them.                            *)
BoardFollows ==
  \A v \in Viewers, sp \in Reporting :
    LET s == sp[1]  p == sp[2]
        watched == /\ viewer[v].pc \notin {"new", "ended"}
                   /\ viewer[v].stream /\ viewer[v].own /\ viewer[v].there
    IN watched /\ status[s] = "open" /\ recorded[s][p] # Never
         ~> \/ ~viewer[v].there \/ status[s] # "open"
            \/ /\ s \in DOMAIN viewer[v].board
               /\ p \in DOMAIN viewer[v].board[s]
               /\ viewer[v].board[s][p] = recorded[s][p]
=============================================================================
