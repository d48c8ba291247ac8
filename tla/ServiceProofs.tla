---------------------------- MODULE ServiceProofs ----------------------------
(***************************************************************************)
(* Proofs about the process as a whole: what the wallboards show, and what *)
(* starting and stopping leave behind, for any shelters, populations,      *)
(* viewers and bounds.                                                     *)
(***************************************************************************)
EXTENDS Service, TLAPS

-----------------------------------------------------------------------------
(* Operators. *)

LEMMA EmptyFunction == ASSUME NEW S PROVE <<>> \in [{} -> S]
  OBVIOUS

LEMMA NoDomain == ASSUME NEW S, NEW f \in [{} -> S] PROVE f = <<>>
  OBVIOUS

(* What is stale stays so. *)
LEMMA Staleness ==
  ASSUME NEW r \in Int, NEW t \in Int, NEW u \in Int, t <= u,
         ComputeFreshness(r, t) = "stale"
  PROVE  ComputeFreshness(r, u) = "stale"
  BY FreshnessAssumption DEF ComputeFreshness

(* A site as it is fetched: typed, and flagged if a count of it was stale  *)
(* by any earlier time.                                                    *)
LEMMA SiteFlags ==
  ASSUME WallTypeOK, NEW s \in Shelters, NEW unread
  PROVE  /\ Site(s, unread) \in [counts : Counts, stale : BOOLEAN]
         /\ \A t \in 0 .. clock : \A p \in DOMAIN Site(s, unread).counts :
              ComputeFreshness(Site(s, unread).counts[p], t) = "stale"
                => Site(s, unread).stale
<1> DEFINE ps == {q \in Populations : status[s] # "gone" /\ recorded[s][q] # Never}
           counts == LatestCounts(s)
<1>1. counts = [p \in ps |-> recorded[s][p]] /\ ps \subseteq Populations
  BY DEF LatestCounts
<1>2. clock \in 0 .. MaxClock /\ MaxClock \in Nat
  BY WallboardAssumption DEF WallTypeOK
<1>3. \A p \in ps : recorded[s][p] \in 0 .. clock
  BY DEF WallTypeOK, Never
<1>4. counts \in [ps -> 0 .. MaxClock]
  BY <1>1, <1>2, <1>3
<1>5. counts \in Counts
  BY <1>1, <1>4 DEF Counts
<1>6. AnyStale(counts, unread) \in BOOLEAN
  BY DEF AnyStale
<1>7. Site(s, unread).counts = counts /\ Site(s, unread).stale = AnyStale(counts, unread)
  BY DEF Site
<1>8. ASSUME NEW t \in 0 .. clock, NEW p \in DOMAIN counts,
             ComputeFreshness(counts[p], t) = "stale"
      PROVE  AnyStale(counts, unread)
  <2>1. p \in ps /\ counts[p] \in 0 .. clock
    BY <1>1, <1>3, <1>8
  <2>2. counts[p] \in Int /\ t \in Int /\ clock \in Int /\ t <= clock
    BY <1>2, <2>1
  <2>3. ComputeFreshness(counts[p], clock) = "stale"
    BY <1>8, <2>2, Staleness
  <2> QED
    BY <1>8, <2>3 DEF AnyStale
<1> HIDE DEF counts
<1>9. Site(s, unread) \in [counts : Counts, stale : BOOLEAN]
  BY <1>5, <1>6 DEF Site, counts
<1> QED
  BY <1>7, <1>8, <1>9

-----------------------------------------------------------------------------
(* One screen: each step leaves a record of its type that has fetched      *)
(* rightly, and none but Open admits a request.                            *)

Busy(r) == r.pc \notin {"new", "ended"}
Fits(r) == r \in Viewer /\ r.since <= clock /\ FetchesRightly(r)

Moves(v) ==
  \E r : /\ Fits(r) /\ (Busy(r) => Busy(viewer[v]))
         /\ viewer' = [viewer EXCEPT ![v] = r]
         /\ UNCHANGED <<mock, fabtVars>> /\ faults' \in 0 .. MaxFaults

LEMMA NewFits ==
  ASSUME WallTypeOK, NEW r \in Viewer, NEW b \in Boards,
         r.sites = <<>>, r.todo = {}, r.hidden = {}, r.since = 0, r.board = b,
         r.pc \notin Calling,
         mock => \A s \in DOMAIN b : status[s] # "dv",
         ~r.own => b = <<>>
  PROVE  Fits(r)
  BY WallboardAssumption DEF WallTypeOK, Fits, FetchesRightly, Fetched

LEMMA NewTypes ==
  /\ ViewerNew \in Viewer
  /\ <<>> \in Boards /\ <<>> \in Sites
  /\ ViewerNew.sites = <<>> /\ ViewerNew.todo = {} /\ ViewerNew.hidden = {}
  /\ ViewerNew.since = 0 /\ ViewerNew.board = <<>> /\ ViewerNew.own
<1>1. <<>> \in Boards /\ <<>> \in Sites
  BY EmptyFunction DEF Boards, Sites
<1> QED
  BY <1>1, WallboardAssumption DEF Viewer, ViewerNew

LEMMA OpenFits ==
  ASSUME WallTypeOK, NEW stream \in BOOLEAN, NEW own \in BOOLEAN
  PROVE  Fits([ViewerNew EXCEPT !.pc = "check", !.stream = stream, !.own = own])
<1> DEFINE r == [ViewerNew EXCEPT !.pc = "check", !.stream = stream, !.own = own]
<1>1. /\ r \in Viewer /\ r.pc = "check"
      /\ r.sites = <<>> /\ r.todo = {} /\ r.hidden = {} /\ r.since = 0 /\ r.board = <<>>
  BY NewTypes DEF Viewer, ViewerNew
<1> HIDE DEF r
<1>2. Fits(r)
  BY <1>1, NewTypes, NewFits DEF Calling
<1> QED
  BY <1>2 DEF r

LEMMA EndedFits ==
  ASSUME WallTypeOK, NEW v \in Viewers
  PROVE  Fits(Ended(v)) /\ ~Busy(Ended(v))
<1> DEFINE r == Ended(v)
<1>1. viewer[v].there \in BOOLEAN
  BY DEF WallTypeOK, Viewer
<1>2. /\ r \in Viewer /\ r.pc = "ended" /\ r.own
      /\ r.sites = <<>> /\ r.todo = {} /\ r.hidden = {} /\ r.since = 0 /\ r.board = <<>>
  BY <1>1, NewTypes DEF Ended, Viewer, ViewerNew
<1> HIDE DEF r
<1>3. Fits(r) /\ ~Busy(r)
  BY <1>2, NewTypes, NewFits DEF Calling, Busy
<1> QED
  BY <1>3 DEF r

(* Going to sleep with a board, the one of before or a new one. *)
LEMMA SleepFits ==
  ASSUME WallTypeOK, NEW v \in Viewers, NEW b \in Boards, viewer[v].stream,
         mock => \A s \in DOMAIN b : status[s] # "dv",
         ~viewer[v].own => b = <<>>
  PROVE  Fits([After(v) EXCEPT !.board = b])
<1> DEFINE r == [After(v) EXCEPT !.board = b]
<1>1. viewer[v].there \in BOOLEAN /\ viewer[v].own \in BOOLEAN /\ viewer[v].board \in Boards
  BY DEF WallTypeOK, Viewer
<1>2. /\ After(v) \in Viewer /\ After(v).pc = "sleep" /\ After(v).own = viewer[v].own
      /\ After(v).sites = <<>> /\ After(v).todo = {} /\ After(v).hidden = {}
      /\ After(v).since = 0
  BY <1>1, NewTypes DEF After, Viewer, ViewerNew
<1>3. /\ r \in Viewer /\ r.pc = "sleep" /\ r.own = viewer[v].own /\ r.board = b
      /\ r.sites = <<>> /\ r.todo = {} /\ r.hidden = {} /\ r.since = 0
  BY <1>2 DEF Viewer
<1> HIDE DEF r
<1>4. Fits(r)
  BY <1>3, NewFits DEF Calling
<1> QED
  BY <1>4 DEF r

LEMMA AfterFits ==
  ASSUME WallTypeOK, NEW v \in Viewers, FetchesRightly(viewer[v])
  PROVE  Fits(After(v))
<1>1. CASE ~viewer[v].stream
  BY <1>1, EndedFits DEF After
<1>2. CASE viewer[v].stream
  <2> DEFINE b == viewer[v].board
  <2>1. viewer[v] \in Viewer /\ b \in Boards
    BY DEF WallTypeOK, Viewer
  <2>2. mock => \A s \in DOMAIN b : status[s] # "dv"
    BY DEF FetchesRightly, Fetched
  <2>3. ~viewer[v].own => b = <<>>
    BY DEF FetchesRightly
  <2>4. Fits([After(v) EXCEPT !.board = b])
    BY <1>2, <2>1, <2>2, <2>3, SleepFits
  <2>5. After(v) = [ViewerNew EXCEPT !.pc = "sleep", !.there = viewer[v].there,
                                     !.own = viewer[v].own, !.board = viewer[v].board]
    BY <1>2 DEF After
  <2>6. [After(v) EXCEPT !.board = b] = After(v)
    BY <2>5 DEF ViewerNew
  <2> QED
    BY <2>4, <2>6
<1> QED
  BY <1>1, <1>2

(* A step that only says how a screen goes on. *)
LEMMA BecomeMoves ==
  ASSUME WallTypeOK, NEW v \in Viewers, NEW r, Become(v, r), Fits(r),
         Busy(r) => Busy(viewer[v]), UNCHANGED <<mock, fabtVars, faults>>
  PROVE  Moves(v)
  BY DEF Become, Moves, WallTypeOK

LEMMA FetchMoves ==
  ASSUME WallTypeOK, NEW v \in Viewers, FetchesRightly(viewer[v]),
         FetchMock(v) \/ FetchHttp(v)
  PROVE  Moves(v)
<1>t. /\ viewer[v] \in Viewer /\ viewer[v].board \in Boards
      /\ clock \in 0 .. MaxClock /\ MaxClock \in Nat
  BY WallboardAssumption DEF WallTypeOK, Viewer
<1>1. viewer[v].pc = "check" /\ Busy(viewer[v])
  BY DEF FetchMock, FetchHttp, StartsFetch, Busy
<1>2. viewer[v].sites = <<>> /\ viewer[v].todo = {} /\ viewer[v].hidden = {}
  BY <1>1 DEF FetchesRightly
<1>3. CASE FetchMock(v)
  <2> DEFINE seen == IF viewer[v].own THEN Listed ELSE {}
             sites == [s \in seen |-> Site(s, {})]
             r == [viewer[v] EXCEPT !.pc = "push", !.since = clock, !.sites = sites]
  <2>1. seen \subseteq Shelters /\ \A s \in seen : status[s] # "dv"
    BY DEF Listed
  <2>2. \A s \in seen : /\ Site(s, {}) \in [counts : Counts, stale : BOOLEAN]
                        /\ \A p \in DOMAIN Site(s, {}).counts :
                             ComputeFreshness(Site(s, {}).counts[p], clock) = "stale"
                               => Site(s, {}).stale
    BY <1>t, <2>1, SiteFlags
  <2>3. ~viewer[v].own => seen = {}
    OBVIOUS
  <2> HIDE DEF seen
  <2>4. sites \in [seen -> [counts : Counts, stale : BOOLEAN]] /\ DOMAIN sites = seen
    BY <2>2
  <2>5. sites \in Sites
    BY <2>1, <2>4 DEF Sites
  <2>6. ~viewer[v].own => sites = <<>>
    BY <2>3, <2>4, NoDomain
  <2>7. \A s \in DOMAIN sites : \A p \in DOMAIN sites[s].counts :
          ComputeFreshness(sites[s].counts[p], clock) = "stale" => sites[s].stale
    BY <2>2
  <2> HIDE DEF sites
  <2>8. /\ r \in Viewer /\ r.pc = "push" /\ r.since = clock /\ r.sites = sites
        /\ r.own = viewer[v].own /\ r.todo = viewer[v].todo
        /\ r.hidden = viewer[v].hidden /\ r.board = viewer[v].board
    BY <1>t, <2>5 DEF Viewer
  <2> HIDE DEF r
  <2>9. FetchesRightly(r)
    BY <1>2, <2>1, <2>4, <2>6, <2>7, <2>8 DEF FetchesRightly, Fetched, Calling
  <2>10. Fits(r)
    BY <1>t, <2>8, <2>9 DEF Fits
  <2>11. Become(v, r) /\ UNCHANGED <<mock, fabtVars, faults>>
    BY <1>3 DEF FetchMock, r, sites, seen
  <2> QED
    BY <1>1, <2>10, <2>11, BecomeMoves
<1>4. CASE FetchHttp(v) /\ viewer[v].own
  <2> DEFINE dv == {s \in Shelters : status[s] = "dv"}
             r == [viewer[v] EXCEPT !.pc = "list", !.since = clock, !.hidden = dv]
  <2>1. /\ r \in Viewer /\ r.pc = "list" /\ r.since = clock /\ r.hidden = dv
        /\ r.own = viewer[v].own /\ r.todo = viewer[v].todo
        /\ r.sites = viewer[v].sites /\ r.board = viewer[v].board
    BY <1>t DEF Viewer, Calling
  <2>2. ~mock /\ \A s \in dv : status[s] = "dv"
    BY <1>4 DEF FetchHttp
  <2> HIDE DEF r, dv
  <2>3. DOMAIN r.sites = {} /\ r.sites = <<>> /\ r.todo = {}
    BY <1>2, <2>1
  <2>4. FetchesRightly(r)
    BY <1>4, <2>1, <2>2, <2>3 DEF FetchesRightly
  <2>5. Fits(r)
    BY <1>t, <2>1, <2>4 DEF Fits
  <2>6. Become(v, r) /\ UNCHANGED <<mock, fabtVars, faults>>
    BY <1>4 DEF FetchHttp, r, dv
  <2> QED
    BY <1>1, <2>5, <2>6, BecomeMoves
<1>5. CASE FetchHttp(v) /\ ~viewer[v].own
  <2>1. Become(v, After(v)) /\ UNCHANGED <<mock, fabtVars, faults>>
    BY <1>5 DEF FetchHttp
  <2> QED
    BY <1>1, <2>1, AfterFits, BecomeMoves
<1> QED
  BY <1>3, <1>4, <1>5

LEMMA CallMoves ==
  ASSUME WallTypeOK, NEW v \in Viewers, FetchesRightly(viewer[v]),
         \/ ListShelters(v) \/ CountActiveHolds(v)
         \/ \E s \in Shelters : GetLatestCounts(v, s)
  PROVE  Moves(v)
<1>t. /\ viewer[v] \in Viewer /\ viewer[v].board \in Boards
      /\ viewer[v].since \in 0 .. clock
      /\ clock \in 0 .. MaxClock /\ MaxClock \in Nat
  BY WallboardAssumption DEF WallTypeOK, Viewer
<1>1. /\ viewer[v].pc \in Calling /\ Busy(viewer[v])
      /\ ~mock /\ viewer[v].own
  BY DEF ListShelters, CountActiveHolds, GetLatestCounts, Busy, Calling, FetchesRightly
<1>2. CASE ListShelters(v)
  <2> DEFINE r == [viewer[v] EXCEPT !.pc = IF Listed = {} THEN "push" ELSE "counts",
                                    !.todo = Listed]
  <2>1. Listed \subseteq Shelters /\ \A s \in Listed : status[s] # "dv"
    BY DEF Listed
  <2>2. /\ r \in Viewer /\ r.pc \in {"push", "counts"} /\ r.todo = Listed
        /\ r.sites = viewer[v].sites /\ r.own = viewer[v].own
        /\ r.hidden = viewer[v].hidden /\ r.since = viewer[v].since
    BY <1>t, <2>1 DEF Viewer, Calling
  <2>3. Become(v, r) /\ UNCHANGED <<mock, fabtVars, faults>>
    BY <1>2 DEF ListShelters
  <2> HIDE DEF r
  <2>4. FetchesRightly(r)
    BY <1>1, <2>1, <2>2 DEF FetchesRightly
  <2>5. Fits(r)
    BY <1>t, <2>2, <2>4 DEF Fits
  <2> QED
    BY <1>1, <2>3, <2>5, BecomeMoves
<1>3. CASE CountActiveHolds(v)
  <2> DEFINE todo == viewer[v].todo \ DOMAIN viewer[v].sites
             r == [viewer[v] EXCEPT !.pc = IF todo = {} THEN "push" ELSE "counts", !.todo = todo]
  <2>1. todo \subseteq viewer[v].todo /\ viewer[v].todo \subseteq Shelters
    BY <1>t DEF Viewer
  <2>2. /\ r \in Viewer /\ r.pc \in {"push", "counts"} /\ r.todo = todo
        /\ r.sites = viewer[v].sites /\ r.own = viewer[v].own
        /\ r.hidden = viewer[v].hidden /\ r.since = viewer[v].since
    BY <1>t, <2>1 DEF Viewer, Calling
  <2>3. Become(v, r) /\ UNCHANGED <<mock, fabtVars, faults>>
    BY <1>3 DEF CountActiveHolds
  <2> HIDE DEF r, todo
  <2>4. FetchesRightly(r)
    BY <1>1, <2>1, <2>2 DEF FetchesRightly
  <2>5. Fits(r)
    BY <1>t, <2>2, <2>4 DEF Fits
  <2> QED
    BY <1>1, <2>3, <2>5, BecomeMoves
<1>4. ASSUME NEW s \in Shelters, GetLatestCounts(v, s) PROVE Moves(v)
  <2>1. PICK unread \in SUBSET DOMAIN LatestCounts(s) :
          Become(v, [viewer[v] EXCEPT !.pc = "holds",
            !.sites = [t \in DOMAIN @ \cup {s} |-> IF t = s THEN Site(s, unread) ELSE @[t]]])
    BY <1>4 DEF GetLatestCounts
  <2> DEFINE old == viewer[v].sites
             site == Site(s, unread)
             sites == [t \in DOMAIN old \cup {s} |-> IF t = s THEN site ELSE old[t]]
             r == [viewer[v] EXCEPT !.pc = "holds", !.sites = sites]
  <2>2. /\ site \in [counts : Counts, stale : BOOLEAN]
        /\ \A p \in DOMAIN site.counts :
             ComputeFreshness(site.counts[p], viewer[v].since) = "stale" => site.stale
    BY <1>t, SiteFlags
  <2>3. /\ DOMAIN old \subseteq Shelters
        /\ \A t \in DOMAIN old : old[t] \in [counts : Counts, stale : BOOLEAN]
    BY <1>t DEF Viewer, Sites
  <2>4. \A t \in DOMAIN old : \A p \in DOMAIN old[t].counts :
          ComputeFreshness(old[t].counts[p], viewer[v].since) = "stale" => old[t].stale
    BY DEF FetchesRightly
  <2>5. s \in viewer[v].todo
    BY <1>4 DEF GetLatestCounts
  <2>6. Become(v, r) /\ UNCHANGED <<mock, fabtVars, faults>>
    BY <1>4, <2>1 DEF GetLatestCounts
  <2> HIDE DEF site
  <2>7. /\ DOMAIN sites = DOMAIN old \cup {s}
        /\ sites[s] = site /\ \A t \in DOMAIN old \ {s} : sites[t] = old[t]
    OBVIOUS
  <2>8. sites \in [DOMAIN old \cup {s} -> [counts : Counts, stale : BOOLEAN]]
    BY <2>2, <2>3
  <2>9. DOMAIN old \cup {s} \in SUBSET Shelters
    BY <2>3
  <2>10. sites \in Sites
    BY <2>8, <2>9 DEF Sites
  <2> HIDE DEF sites
  <2>11. \A t \in DOMAIN sites : \A p \in DOMAIN sites[t].counts :
           ComputeFreshness(sites[t].counts[p], viewer[v].since) = "stale" => sites[t].stale
    BY <2>2, <2>4, <2>7
  <2>12. /\ r \in Viewer /\ r.pc = "holds" /\ r.sites = sites
         /\ r.todo = viewer[v].todo /\ r.own = viewer[v].own
         /\ r.hidden = viewer[v].hidden /\ r.since = viewer[v].since
    BY <1>t, <2>10 DEF Viewer, Calling
  <2> HIDE DEF r
  <2>13. \A t \in r.hidden : status[t] = "dv" /\ t \notin r.todo \cup DOMAIN r.sites
    BY <2>5, <2>7, <2>12 DEF FetchesRightly
  <2>14. FetchesRightly(r)
    BY <1>1, <2>11, <2>12, <2>13 DEF FetchesRightly
  <2>15. Fits(r)
    BY <1>t, <2>12, <2>14 DEF Fits
  <2> QED
    BY <1>1, <2>6, <2>15, BecomeMoves
<1> QED
  BY <1>2, <1>3, <1>4

LEMMA PushMoves ==
  ASSUME WallTypeOK, NEW v \in Viewers, FetchesRightly(viewer[v]), Push(v)
  PROVE  Moves(v)
<1>1. Busy(viewer[v]) /\ UNCHANGED <<mock, fabtVars, faults>>
  BY DEF Push, Busy
<1>2. CASE ~viewer[v].stream
  <2>1. Become(v, [After(v) EXCEPT !.board = After(v).board])
    BY <1>2 DEF Push
  <2>2. [After(v) EXCEPT !.board = After(v).board] = After(v)
    BY <1>2 DEF After, Ended, ViewerNew
  <2> QED
    BY <1>1, <2>1, <2>2, AfterFits, BecomeMoves
<1>3. CASE viewer[v].stream
  <2> DEFINE sites == viewer[v].sites
             b == [s \in DOMAIN sites |-> sites[s].counts]
  <2>1. sites \in Sites
    BY DEF WallTypeOK, Viewer
  <2>2. DOMAIN sites \subseteq Shelters /\ \A s \in DOMAIN sites : sites[s].counts \in Counts
    BY <2>1 DEF Sites
  <2>3. b \in Boards
    BY <2>2 DEF Boards
  <2>4. mock => \A s \in DOMAIN b : status[s] # "dv"
    BY DEF FetchesRightly, Fetched
  <2>5. ~viewer[v].own => b = <<>>
    <3>1. SUFFICES ASSUME ~viewer[v].own PROVE b = <<>>
      OBVIOUS
    <3>2. DOMAIN sites = {}
      BY <3>1 DEF FetchesRightly
    <3>3. b \in [{} -> Counts]
      BY <3>2
    <3> QED
      BY <3>3, NoDomain
  <2>6. Become(v, [After(v) EXCEPT !.board = b])
    BY <1>3 DEF Push
  <2> HIDE DEF b
  <2>7. Fits([After(v) EXCEPT !.board = b])
    BY <1>3, <2>3, <2>4, <2>5, SleepFits
  <2> QED
    BY <1>1, <2>6, <2>7, BecomeMoves
<1> QED
  BY <1>2, <1>3

LEMMA WaitMoves ==
  ASSUME WallTypeOK, NEW v \in Viewers, FetchesRightly(viewer[v]),
         Wake(v) \/ Leave(v)
  PROVE  Moves(v)
<1>t. viewer[v] \in Viewer /\ viewer[v].since <= clock
  BY DEF WallTypeOK
<1>1. CASE Wake(v)
  <2> DEFINE r == [viewer[v] EXCEPT !.pc = "check"]
  <2>1. /\ r \in Viewer /\ r.pc = "check" /\ r.own = viewer[v].own
        /\ r.sites = viewer[v].sites /\ r.todo = viewer[v].todo
        /\ r.hidden = viewer[v].hidden /\ r.since = viewer[v].since
        /\ r.board = viewer[v].board
    BY <1>t DEF Viewer
  <2>2. Become(v, r) /\ Busy(viewer[v]) /\ UNCHANGED <<mock, fabtVars, faults>>
    BY <1>1 DEF Wake, Busy
  <2>3. viewer[v].pc = "sleep"
    BY <1>1 DEF Wake
  <2> HIDE DEF r
  <2>4. FetchesRightly(r)
    BY <2>1, <2>3 DEF FetchesRightly, Fetched, Calling
  <2>5. Fits(r)
    BY <1>t, <2>1, <2>4 DEF Fits
  <2> QED
    BY <2>2, <2>5, BecomeMoves
<1>2. CASE Leave(v)
  <2> DEFINE r == [viewer[v] EXCEPT !.there = FALSE]
  <2>1. /\ r \in Viewer /\ r.pc = viewer[v].pc /\ r.own = viewer[v].own
        /\ r.sites = viewer[v].sites /\ r.todo = viewer[v].todo
        /\ r.hidden = viewer[v].hidden /\ r.since = viewer[v].since
        /\ r.board = viewer[v].board
    BY <1>t DEF Viewer
  <2>2. Become(v, r) /\ Busy(viewer[v]) /\ UNCHANGED <<mock, fabtVars, faults>>
    BY <1>2 DEF Leave, Busy
  <2> HIDE DEF r
  <2>3. FetchesRightly(r)
    BY <2>1 DEF FetchesRightly, Fetched
  <2>4. Fits(r)
    BY <1>t, <2>1, <2>3 DEF Fits
  <2> QED
    BY <2>2, <2>4, BecomeMoves
<1> QED
  BY <1>1, <1>2

LEMMA EndMoves ==
  ASSUME WallTypeOK, NEW v \in Viewers, FetchesRightly(viewer[v]),
         Disconnected(v) \/ Cancelled(v) \/ FetchFails(v)
  PROVE  Moves(v)
<1>1. CASE Disconnected(v) \/ Cancelled(v)
  <2>1. Become(v, Ended(v)) /\ UNCHANGED <<mock, fabtVars, faults>>
    BY <1>1 DEF Disconnected, Cancelled
  <2> QED
    BY <2>1, EndedFits, BecomeMoves
<1>2. CASE FetchFails(v)
  <2>1. Become(v, After(v)) /\ UNCHANGED <<mock, fabtVars>> /\ Busy(viewer[v])
    BY <1>2 DEF FetchFails, Busy, Calling
  <2>2. faults' \in 0 .. MaxFaults
    BY <1>2, WallboardAssumption DEF FetchFails, WallTypeOK
  <2> QED
    BY <2>1, <2>2, AfterFits DEF Moves, Become
<1> QED
  BY <1>1, <1>2

LEMMA ScreenMoves ==
  ASSUME WallTypeOK, NEW v \in Viewers, FetchesRightly(viewer[v]),
         ViewerStep(v) \/ FetchFails(v) \/ Leave(v) \/ Cancelled(v)
  PROVE  Moves(v)
BY FetchMoves, CallMoves, PushMoves, WaitMoves, EndMoves DEF ViewerStep

-----------------------------------------------------------------------------
(* All screens together, and the world. *)

Wall == WallTypeOK /\ \A v \in Viewers : FetchesRightly(viewer[v])

LEMMA RecordKept ==
  ASSUME Wall, NEW v \in Viewers, NEW r, Fits(r),
         viewer' = [viewer EXCEPT ![v] = r],
         UNCHANGED <<mock, fabtVars>>, faults' \in 0 .. MaxFaults
  PROVE  Wall' /\ \A u \in Viewers \ {v} : viewer'[u] = viewer[u]
<1>1. /\ viewer \in [Viewers -> Viewer] /\ r \in Viewer /\ r.since <= clock
      /\ FetchesRightly(r)
  BY DEF Wall, WallTypeOK, Fits
<1>2. viewer' \in [Viewers -> Viewer] /\ viewer'[v] = r
  BY <1>1
<1>3. \A u \in Viewers \ {v} : viewer'[u] = viewer[u]
  BY <1>1
<1>4. mock' = mock /\ clock' = clock /\ status' = status /\ recorded' = recorded
  BY DEF fabtVars
<1>5. WallTypeOK'
  BY <1>1, <1>2, <1>3, <1>4 DEF Wall, WallTypeOK
<1>6. ASSUME NEW u \in Viewers PROVE FetchesRightly(viewer[u])'
  <2>1. FetchesRightly(viewer'[u])
    BY <1>1, <1>2, <1>3 DEF Wall
  <2> QED
    BY <1>4, <2>1 DEF FetchesRightly, Fetched
<1> QED
  BY <1>3, <1>5, <1>6 DEF Wall

LEMMA WorldKeeps ==
  ASSUME Wall, WorldStep
  PROVE  Wall' /\ \A v \in Viewers : viewer'[v].pc = viewer[v].pc
<1>t. /\ mock \in BOOLEAN /\ clock \in 0 .. MaxClock /\ MaxClock \in Nat
      /\ status \in [Shelters -> {"open", "dv", "gone"}]
      /\ recorded \in [Shelters -> [Populations -> {Never} \cup 0 .. clock]]
      /\ viewer \in [Viewers -> Viewer] /\ \A v \in Viewers : viewer[v].since <= clock
      /\ \A v \in Viewers : viewer[v].since \in Nat
      /\ faults \in 0 .. MaxFaults
  BY WallboardAssumption DEF Wall, WallTypeOK, Viewer
<1>r. \A v \in Viewers : FetchesRightly(viewer[v])
  BY DEF Wall
<1>1. CASE Tick
  <2>1. clock' = clock + 1 /\ clock' \in 0 .. MaxClock /\ 0 .. clock \subseteq 0 .. clock'
    BY <1>t, <1>1 DEF Tick
  <2>2. UNCHANGED <<mock, status, recorded, viewer, faults>>
    BY <1>1 DEF Tick
  <2>3. recorded' \in [Shelters -> [Populations -> {Never} \cup 0 .. clock']]
    BY <1>t, <2>1, <2>2
  <2>4. \A v \in Viewers : viewer'[v].since <= clock'
    BY <1>t, <2>1, <2>2
  <2>5. WallTypeOK'
    BY <1>t, <2>1, <2>2, <2>3, <2>4 DEF WallTypeOK
  <2>6. \A v \in Viewers : FetchesRightly(viewer[v])'
    BY <1>r, <2>2 DEF FetchesRightly, Fetched
  <2> QED
    BY <2>2, <2>5, <2>6 DEF Wall
<1>2. ASSUME NEW s \in Shelters, NEW p \in Populations, RecordSnapshot(s, p)
      PROVE  Wall' /\ \A v \in Viewers : viewer'[v].pc = viewer[v].pc
  <2>1. UNCHANGED <<mock, clock, status, viewer, faults>>
    BY <1>2 DEF RecordSnapshot
  <2>2. recorded' \in [Shelters -> [Populations -> {Never} \cup 0 .. clock]]
    BY <1>t, <1>2 DEF RecordSnapshot
  <2>3. WallTypeOK'
    BY <1>t, <2>1, <2>2 DEF WallTypeOK
  <2>4. \A v \in Viewers : FetchesRightly(viewer[v])'
    BY <1>r, <2>1 DEF FetchesRightly, Fetched
  <2> QED
    BY <2>1, <2>3, <2>4 DEF Wall
<1>3. ASSUME NEW s \in Shelters, NEW new \in {"open", "dv", "gone"}, ChangeStatus(s, new)
      PROVE  Wall' /\ \A v \in Viewers : viewer'[v].pc = viewer[v].pc
  <2> DEFINE kept(v) == IF new = "dv" THEN viewer[v].hidden ELSE viewer[v].hidden \ {s}
             moved(v) == [viewer[v] EXCEPT !.hidden = kept(v)]
  <2>1. /\ ~mock /\ UNCHANGED <<mock, clock, recorded, faults>>
        /\ status' = [status EXCEPT ![s] = new]
        /\ viewer' = [v \in Viewers |-> moved(v)]
    BY <1>3 DEF ChangeStatus
  <2>2. ASSUME NEW v \in Viewers
        PROVE  /\ moved(v) \in Viewer /\ moved(v).hidden = kept(v)
               /\ moved(v).pc = viewer[v].pc /\ moved(v).own = viewer[v].own
               /\ moved(v).since = viewer[v].since /\ moved(v).todo = viewer[v].todo
               /\ moved(v).sites = viewer[v].sites /\ moved(v).board = viewer[v].board
    BY <1>t DEF Viewer
  <2>3. status' \in [Shelters -> {"open", "dv", "gone"}]
    BY <1>t, <2>1
  <2>5. \A v \in Viewers : \A t \in kept(v) : t \in viewer[v].hidden /\ status'[t] = "dv"
    <3>1. ASSUME NEW v \in Viewers, NEW t \in kept(v)
          PROVE  t \in viewer[v].hidden /\ status'[t] = "dv"
      <4>1. t \in viewer[v].hidden
        OBVIOUS
      <4>2. t \in Shelters /\ status[t] = "dv"
        BY <1>t, <1>r, <4>1 DEF FetchesRightly, Viewer
      <4>3. t = s => new = "dv"
        BY <3>1
      <4> QED
        BY <1>t, <2>1, <4>1, <4>2, <4>3
    <3> QED
      BY <3>1
  <2> HIDE DEF moved, kept
  <2>6. viewer' \in [Viewers -> Viewer] /\ \A v \in Viewers : viewer'[v] = moved(v)
    BY <2>1, <2>2
  <2>7. \A v \in Viewers : viewer'[v].since <= clock
    BY <1>t, <2>2, <2>6
  <2>8. WallTypeOK'
    BY <1>t, <2>1, <2>3, <2>6, <2>7 DEF WallTypeOK
  <2>9. ASSUME NEW v \in Viewers PROVE FetchesRightly(viewer[v])'
    <3>1. FetchesRightly(viewer[v])
      BY <1>r
    <3>2. /\ viewer'[v].hidden = kept(v)
          /\ viewer'[v].pc = viewer[v].pc /\ viewer'[v].own = viewer[v].own
          /\ viewer'[v].since = viewer[v].since /\ viewer'[v].todo = viewer[v].todo
          /\ viewer'[v].sites = viewer[v].sites /\ viewer'[v].board = viewer[v].board
      BY <2>2, <2>6
    <3>3. \A t \in kept(v) : t \in viewer[v].hidden /\ status'[t] = "dv"
      BY <2>5
    <3>4. viewer[v].hidden = {} => kept(v) = {}
      BY <3>3
    <3> QED
      BY <2>1, <3>1, <3>2, <3>3, <3>4 DEF FetchesRightly
  <2> QED
    BY <2>2, <2>6, <2>8, <2>9 DEF Wall
<1> QED
  BY <1>1, <1>2, <1>3, WallboardAssumption DEF WorldStep

-----------------------------------------------------------------------------
(* The phases of the process. *)

LEMMA WallInits == WallInit => Wall /\ \A v \in Viewers : ~Busy(viewer[v])
<1> SUFFICES ASSUME WallInit PROVE Wall /\ \A v \in Viewers : ~Busy(viewer[v])
  OBVIOUS
<1>1. \A v \in Viewers : viewer[v] = ViewerNew
  BY DEF WallInit
<1>2. ViewerNew.pc = "new"
  BY DEF ViewerNew
<1>3. viewer \in [Viewers -> Viewer] /\ \A v \in Viewers : viewer[v].since <= clock
  BY <1>1, NewTypes DEF WallInit
<1>4. WallTypeOK
  BY <1>3, WallboardAssumption DEF WallInit, WallTypeOK, Never
<1>5. FetchesRightly(ViewerNew)
  BY <1>2, NewTypes DEF FetchesRightly, Fetched, Calling
<1> QED
  BY <1>1, <1>2, <1>4, <1>5 DEF Wall, Busy

LEMMA InvInit == Init => IInv
<1> SUFFICES ASSUME Init PROVE IInv
  OBVIOUS
<1>1. Wall /\ \A v \in Viewers : ~Busy(viewer[v])
  BY WallInits DEF Init
<1>2. TypeOK
  BY <1>1 DEF Init, TypeOK, Wall, Starting
<1>3. BuiltInOrder
  BY <1>1 DEF Init, BuiltInOrder, Starting, Serving, Busy
<1> QED
  BY <1>1, <1>2, <1>3 DEF IInv, Wall

LEMMA LifespanKeeps ==
  ASSUME IInv, LifespanStep \/ Stop \/ JobStarts \/ JobEnds \/ SchedulerStops
  PROVE  IInv'
<1>1. UNCHANGED wallVars
  BY DEF LifespanStep, CheckPhoneEncryptionKey, InitDb, BuildFabtClient, BuildSendSms,
         StartScheduler, StartFails, Drained, Finally, Closed, Stop, JobStarts, JobEnds,
         SchedulerStops
<1>2. Wall /\ TypeOK /\ BuiltInOrder
  BY DEF IInv, Wall, TypeOK
<1>3. Wall'
  BY <1>1, <1>2
  DEF wallVars, fabtVars, Wall, WallTypeOK, FetchesRightly, Fetched
<1>w. mock' = mock /\ viewer' = viewer
  BY <1>1 DEF wallVars
<1>4. TypeOK' /\ BuiltInOrder'
  <2> USE <1>2, <1>w, <1>3 DEF TypeOK, BuiltInOrder, Starting, Serving, Wall
  <2>1. CASE CheckPhoneEncryptionKey
    BY <2>1 DEF CheckPhoneEncryptionKey
  <2>2. CASE InitDb
    BY <2>2 DEF InitDb
  <2>3. CASE BuildFabtClient
    BY <2>3 DEF BuildFabtClient
  <2>4. CASE BuildSendSms
    BY <2>4 DEF BuildSendSms
  <2>5. CASE StartScheduler
    BY <2>5 DEF StartScheduler
  <2>6. CASE StartFails
    BY <2>6 DEF StartFails
  <2>7. CASE Drained
    BY <2>7 DEF Drained
  <2>8. CASE Finally
    BY <2>8 DEF Finally
  <2>9. CASE Closed
    BY <2>9 DEF Closed
  <2>10. CASE Stop
    BY <2>10 DEF Stop
  <2>11. CASE JobStarts \/ JobEnds
    BY <2>11 DEF JobStarts, JobEnds
  <2>12. CASE SchedulerStops
    BY <2>12 DEF SchedulerStops
  <2> QED
    BY <2>1, <2>2, <2>3, <2>4, <2>5, <2>6, <2>7, <2>8, <2>9, <2>10, <2>11, <2>12
    DEF LifespanStep
<1> QED
  BY <1>3, <1>4 DEF IInv, Wall

(* Steps of the screens and of the world leave the phases alone. *)
LEMMA PhasesKept ==
  ASSUME IInv, Wall', UNCHANGED serviceVars, mock' = mock,
         \A v \in Viewers : Busy(viewer'[v]) => Busy(viewer[v]) \/ phase = "serving"
  PROVE  IInv'
<1>1. /\ phase' = phase /\ client' = client /\ scheduler' = scheduler /\ job' = job
  BY DEF serviceVars
<1>2. TypeOK'
  BY <1>1 DEF IInv, TypeOK, Wall
<1>3. BuiltInOrder'
  BY <1>1 DEF IInv, BuiltInOrder, Busy, Serving
<1> QED
  BY <1>2, <1>3 DEF IInv, Wall

LEMMA InvNext == IInv /\ [Next]_vars => IInv'
<1> SUFFICES ASSUME IInv, [Next]_vars PROVE IInv'
  OBVIOUS
<1>w. Wall
  BY DEF IInv, Wall, TypeOK
<1>1. CASE LifespanStep \/ Stop \/ JobStarts \/ JobEnds \/ SchedulerStops
  BY <1>1, LifespanKeeps
<1>2. ASSUME NEW v \in Viewers, UNCHANGED serviceVars,
             ViewerStep(v) \/ FetchFails(v) \/ Leave(v) \/ Cancelled(v)
      PROVE  IInv'
  <2>1. Moves(v)
    BY <1>w, <1>2, ScreenMoves DEF Wall
  <2>2. PICK r : /\ Fits(r) /\ (Busy(r) => Busy(viewer[v]))
                 /\ viewer' = [viewer EXCEPT ![v] = r]
                 /\ UNCHANGED <<mock, fabtVars>> /\ faults' \in 0 .. MaxFaults
    BY <2>1 DEF Moves
  <2>3. Wall' /\ \A u \in Viewers \ {v} : viewer'[u] = viewer[u]
    BY <1>w, <2>2, RecordKept
  <2>4. viewer'[v] = r
    BY <1>w, <2>2 DEF Wall, WallTypeOK
  <2>5. \A u \in Viewers : Busy(viewer'[u]) => Busy(viewer[u])
    BY <2>2, <2>3, <2>4
  <2> QED
    BY <1>2, <2>2, <2>3, <2>5, PhasesKept
<1>3. ASSUME NEW v \in Viewers, NEW stream \in BOOLEAN, NEW own \in BOOLEAN,
             phase = "serving", Open(v, stream, own), UNCHANGED serviceVars
      PROVE  IInv'
  <2> DEFINE r == [ViewerNew EXCEPT !.pc = "check", !.stream = stream, !.own = own]
  <2>1. Fits(r)
    BY <1>w, OpenFits DEF Wall
  <2>2. /\ viewer' = [viewer EXCEPT ![v] = r] /\ UNCHANGED <<mock, fabtVars>>
        /\ faults' \in 0 .. MaxFaults
    BY <1>3, <1>w DEF Open, Become, Wall, WallTypeOK
  <2> HIDE DEF r
  <2>3. Wall'
    BY <1>w, <2>1, <2>2, RecordKept
  <2> QED
    BY <1>3, <2>2, <2>3, PhasesKept
<1>4. CASE WorldStep /\ UNCHANGED serviceVars
  <2>1. Wall' /\ \A v \in Viewers : viewer'[v].pc = viewer[v].pc
    BY <1>w, <1>4, WorldKeeps
  <2>2. mock' = mock
    BY <1>4 DEF WorldStep, Tick, RecordSnapshot, ChangeStatus
  <2> QED
    BY <1>4, <2>1, <2>2, PhasesKept DEF Busy
<1>5. CASE UNCHANGED vars
  <2>1. UNCHANGED wallVars /\ UNCHANGED serviceVars
    BY <1>5 DEF vars
  <2>2. Wall' /\ viewer' = viewer /\ mock' = mock
    BY <1>w, <2>1 DEF wallVars, fabtVars, Wall, WallTypeOK, FetchesRightly, Fetched
  <2> QED
    BY <2>1, <2>2, PhasesKept
<1> QED
  BY <1>1, <1>2, <1>3, <1>4, <1>5 DEF Next, ViewersStep

-----------------------------------------------------------------------------
(* Every screen has fetched rightly, and every phase has built and         *)
(* released what it should.                                                *)
THEOREM Invariance == Spec => []IInv
BY InvInit, InvNext, PTL DEF Spec

(* No scheduler without a client for its jobs; every board is of shelters  *)
(* FABT knows, with counts of theirs.                                      *)
THEOREM TypeCorrect == Spec => []TypeOK
<1>1. IInv => TypeOK
  BY DEF IInv
<1> QED
  BY <1>1, Invariance, PTL

(* A shelter confidential all the while a board is assembled is not on it, *)
(* between whichever of FABT's answers its status changed                  *)
(* (fabt_client.py:222-232, 290-307; store.py:21-27).                      *)
THEOREM NoneConfidentialShown == Spec => []ConfidentialHidden
<1>1. ASSUME IInv, NEW v \in Viewers
      PROVE  /\ DOMAIN viewer[v].sites \cap viewer[v].hidden = {}
             /\ mock => \A s \in DOMAIN viewer[v].sites \cup DOMAIN viewer[v].board :
                          status[s] # "dv"
  BY <1>1 DEF IInv, FetchesRightly, Fetched
<1>2. IInv => ConfidentialHidden
  BY <1>1 DEF ConfidentialHidden
<1> QED
  BY <1>2, Invariance, PTL

(* No tenant's screen shows another's sites, over however many ticks.      *)
THEOREM TenantsApart == Spec => []OtherTenantSeesNothing
<1>1. IInv => OtherTenantSeesNothing
  BY DEF IInv, FetchesRightly, OtherTenantSeesNothing
<1> QED
  BY <1>1, Invariance, PTL

(* A site with any count stale when its board was begun is flagged,        *)
(* whatever time passes and whatever is saved while the board is           *)
(* assembled, for any thresholds (freshness.py, fabt_client.py:314-322).   *)
THEOREM StaleFlagged == Spec => []StaleIsFlagged
<1>1. ASSUME IInv, NEW v \in Viewers, NEW s \in DOMAIN viewer[v].sites,
             NEW p \in DOMAIN viewer[v].sites[s].counts,
             ComputeFreshness(viewer[v].sites[s].counts[p], viewer[v].since) = "stale"
      PROVE  viewer[v].sites[s].stale
  BY <1>1 DEF IInv, FetchesRightly
<1>2. IInv => StaleIsFlagged
  BY <1>1 DEF StaleIsFlagged
<1> QED
  BY <1>2, Invariance, PTL

(* Whichever step of starting fails and whatever runs when the process is  *)
(* told to stop, it leaves no scheduler, no job and no client of a real    *)
(* FABT behind (main.py:106-121).                                          *)
THEOREM Releases == Spec => []ReleasedAll
<1>1. IInv => ReleasedAll
  BY DEF IInv, TypeOK, BuiltInOrder, ReleasedAll
<1> QED
  BY <1>1, Invariance, PTL

(* No request is served before the client is there or after it is closed.  *)
THEOREM ServesOpen == Spec => []ServedWhileOpen
<1>1. IInv => ServedWhileOpen
  BY DEF IInv, BuiltInOrder, ServedWhileOpen
<1> QED
  BY <1>1, Invariance, PTL
=============================================================================
