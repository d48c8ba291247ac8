# BedBoard sidecar: a verification development

TLA+ models of the BedBoard sidecar (`src/`), model-checked with TLC on small
instances, with theorems proved by TLAPS for every instance. Every definition is
translated from the Python source; `PROJECT.json` maps each to its lines.

## 1. The system

BedBoard is one FastAPI process on one asyncio event loop. It owns a small SQL
database (coordinators, nudges, the SMS log, override rows) and reaches FABT,
the platform that owns shelters and bed counts, through a client.

| Part | State it keeps | Operations | Talks to |
|---|---|---|---|
| Nudge scheduler, `nudge/scheduler.py` | `nudge` rows; the running jobs | stale check at two hours of the day, escalation check every five minutes, `resolve_nudges_for_shelter` | FABT (shelters, counts), coordinator table, Twilio |
| Inbound webhook, `sms/webhook.py` | the requests in flight; `sms_update_log` | `inbound_sms` | parser, population map, FABT (snapshots), nudge table |
| Parser, `sms/parser.py` | none | `parse_sms` | – |
| Population map, `sms_population_map.py` | override rows | resolve, upsert | database |
| Admin pages, `admin/router.py`, and scripts | coordinator and override rows | create, toggle, delete | database |
| FABT client, `fabt_client.py` | none (FABT's own state) | list, get, latest counts, post a snapshot, wallboard | FABT over HTTP |
| Mock FABT, `mock_fabt/` | shelters, counts, reservations | the same, in memory | – |
| Freshness, `freshness.py` | none | `compute_freshness` | – |
| Wallboard, `wallboard/router.py` | streams | snapshot, SSE stream | FABT client |
| Start and stop, `main.py` | client, scheduler | lifespan, `_send_sms` | everything |

The parts meet in four places: the jobs and the webhook in the nudge table, the
admin page and the jobs in the coordinator table, the admin page, the scripts and
the webhook in the override table, and all of them in FABT, which staff change as
well. What is hard about it: every `await` is a point at which another handler or job
runs. Both jobs test the nudge table and write it several awaits later; the
escalation check works through a list it read earlier; a text saves its buckets
one by one and then resolves nudges in two steps, while FABT staff and
administrators change what it has read. An awaited call may raise, which ends the
job or request and rolls back what is not committed but not the texts already
sent; the process may crash, or be told to stop with jobs, requests and streams
under way. Pages show what was so when they were loaded. `PROJECT.json` lists each hazard at its line.

What makes each part correct:

- *Scheduler*: no duplicate pending nudge, no text while one is pending, no
  escalation before its window, a saved text clears what was pending before it, a
  confidential shelter without a nudge is left alone; a stale shelter is nudged,
  an overdue nudge answered.
- *Webhook*: what is logged, confirmed and cleared agrees with what FABT saved,
  as far as its answers tell.
- *Parser*: a message is taken whole or refused; no number is read twice; later
  text never changes an earlier reading.
- *Population map*: a reported save took effect, and savers do not make one
  another fail.
- *Copy*: whoever answers in the form the help text shows is understood.
- *Coordinators*: a number has one row; a text goes to whom the table had active
  for that shelter during the run, once; who was deleted stays deleted.
- *Wallboard*: no confidential shelter and no other tenant's on a board, no stale
  site unflagged, a stream that outlives failing ticks and shows what was saved.
- *Start and stop*: what a failed start built is released; nothing is served
  before the client is there or after it is closed; the process does stop.

## 2. The modules

| Module | What it is |
|---|---|
| `Freshness` | `compute_freshness`, with the two thresholds as constants |
| `Nudge` | both jobs, the requests' effect on counts and nudges, FABT staff, the toggle page, failures and crashes |
| `NudgeLedger` | abstract specification: what the nudge table promises |
| `SmsParser` | `parse_sms` as operators |
| `SmsTyping` | a machine that types messages word by word into `SmsParser` |
| `PopulationMap` | concurrent writers of one override row |
| `Webhook` | one shelter's texts end to end, EXTENDS `SmsParser` |
| `Coordinators` | the coordinator table under the admin page and the stale check |
| `Wallboard` | boards of both FABT clients, pages and streams, EXTENDS `Freshness` |
| `Service` | the process from start to stop around `Wallboard`, which it EXTENDS |
| `SmsParserProofs` | lemmas on what `parse_sms` returns |
| `NudgeProofs`, `PopulationMapProofs`, `SmsTypingProofs`, `WebhookProofs`, `CoordinatorsProofs`, `ServiceProofs` | the theorems about the module each is named after; `ServiceProofs` has those of `Wallboard` too |
| `MC*` | instances for TLC |

**Nudge.** A job is a record: `pc` names the await it stands at, `now` is the
time it was started with, `todo` what its loop has left, `at` the shelter or
nudge of the current turn, `rcpt` who is left to text. One action per stretch of
code between two awaits, e.g. `StaleCheckPending` is `scheduler.py:150-151`,
`StaleLoad` 153-162, `StaleSend` one turn of 164-168, `StaleCommit` 183. The
order in which a loop meets shelters, nudges or people is left open. The row of
a nudge is added at the commit, which is when others can see it; its time is the
job's `now`, as in the code. `Unreachable` numbers always raise; any other await
may raise once per unit of `MaxFaults`. A firing while the job still runs, or
has not begun, is dropped (`max_instances=1`). `recorded` is FABT's time of the
latest count; freshness is computed from it when counts are read, as both
clients' counts carry a freshness of that moment. `dv` are the shelters that are
confidential now: FABT staff change it (`ChangeStatus`, for the shelters of
`Reclassified`), the stale check reads it once, when it lists the shelters, and the
escalation check never. A request is abstracted to its effect here: the buckets it
posts, each saved or answered with an error (`PostRejected`: FABT may have saved
the count all the same), then
`resolve_nudges_for_shelter` in its two steps, the log commit and the reply. Its
`mark` is a history variable: how many nudges existed when it last saved.

**SmsParser.** A message is a sequence of keywords, numbers and other text, as
the compiled patterns tell them apart: where a letter code or a word form may
stand, and that five digits are no number, is decided by what the model calls a
keyword or a number, so the regular expressions are not modelled letter by
letter. `SmsTyping` adds what the replies teach: `HelpLetters` and
`PopulationLabels` are the keywords of `sms/messages.py`, `Example` the help
text's message for given counts.

**PopulationMap.** A call of the page (`SetOverride`, `ReadListed`) or the script
(`SetOverride`, `ReadToDelete`) reads the row, then commits by its key: an update of a
deleted row raises, a second insert is refused and re-read, an unchanged value
writes nothing. `took` and `overtaken` are history variables.

**Webhook.** A request goes through lookup and parsing, the shelter, the map,
then per bucket in table order the capacity and the PATCH, the nudges, the log
and the reply. A bucket whose PATCH is answered with a status of 400 or more
(`FabtApiError`) is passed over, whether FABT refused it or made the snapshot and
failed afterwards (`PatchRefused`); another error ends the request, and there too
FABT has made the snapshot or not (`Raise`, which keeps of the record only what the
text said and where its buckets went). `erred`, the buckets answered with an error,
is a history variable. FABT is modelled as the client's docstring has it: available
= total − occupied − on hold.

**Coordinators.** A tab shows a line of the page (`ListCoordinators`), reads the
row when clicked (`ReadRow`) and commits by its key: an update of a row that is
gone raises, a deletion of one does not. An INSERT is one step, since what it
writes depends on nothing read; the unique hash refuses a number that has a row.
The job is that of `scheduler.py:142-185` as far as it reads this table: which
shelters it finds stale is left open. `due` is a history variable: who was active
for which shelter at any moment of the run. `Nudge` has the same page as one step
(`ToggleActive`), which is what the nudge table can tell of it.

**Wallboard.** A viewer opens a page or a stream, of this client's tenant or
another; `pc` names the call it awaits. `HttpFabtClient` lists, then takes counts
and holds of each shelter in turn, in any order; `InMemoryFabtClient` awaits
nothing that waits, so its board is one step, and its `mock` is a constant of the
run as `use_mock_fabt` is of the process. A count is represented by the time it
was recorded; `unread` are counts whose freshness FABT gives a name the client
does not know. `since` and `hidden` are history variables: when the board was
begun, and what has been confidential ever since.

**Service.** `phase` is the line of `lifespan`. Each step of starting leads to the
next or to `finally`. uvicorn and APScheduler are external and modelled from how
`main.py` uses them: after `Stop` no request is taken, and shutdown begins when
every open one has ended (`Drained`); `shutdown(wait=False)` stops the scheduler
at the loop's next turn, cancelling its jobs (`SchedulerStops`). `Closed` waits for
that because of the order of the event loop, on which the stop was put before
anything that `aclose` awaits and before uvicorn's own end; `aclose` itself does not
wait for the scheduler.

## 3. The runs

| Run | Question | Result |
|---|---|---|
| `nudge_faults` | one shelter, everything at once, texts that update some populations, one failure or crash; implements `NudgeLedger` | holds (756k states) |
| `nudge_live` | liveness, one failure or crash, no texts; a shelter that becomes confidential and ordinary again | holds (121k) |
| `nudge_orphan`, `nudge_unreachable` | promises of the scheduler's comments | violated, see 5 |
| `sms_typing` | all messages up to five words, a reply in the help text's form after each greeting up to three | holds (199k) |
| `sms_example` | the reply the nudge asks for | violated |
| `override_writers` | five overlapping writers | holds (6.7k, up to symmetry) |
| `webhook` | two texts at once against changing counts, capacities, holds and overrides, any PATCH answered with an error, one failure | holds (2.4M, up to symmetry) |
| `webhook_shared` | a comment of the webhook | violated |
| `coordinators` | two tabs and a run of the job | holds (747k, up to symmetry) |
| `coordinators_button` | the label of a button | violated |
| `service` | one viewer, one job, starting and stopping; liveness | holds (310k) |

Deadlock is checked except in `sms_typing`, `sms_example` (a message of the
longest length ends), `override_writers` (every call ends) and `service` (the
process ends).

Bounds, and why they are enough:

- Time has three or four values and thresholds of one unit: fresh, stale, before
  the window and at or past it all occur, and each check fires two or three
  times, enough for a nudge, its escalation, a recovery and another episode. The
  clock stops at `MaxClock` but ticks go on firing the jobs, so liveness is
  not met by the end of time. `nudge_live` has four values, so that a poll may meet a
  nudge past its window and not only at it; texts are left out of it to
  make room, so there a level-1 nudge is resolved by `EscResolve` after FABT staff saved
  a count, and a level-2 nudge never. `nudge_orphan` has six units for two episodes.
- One shelter is enough for properties of one shelter's rows, since the jobs
  share nothing between shelters but their order and their failure; what comes of
  that is what `nudge_unreachable`, with two shelters, shows, and the proofs are of
  any number. In `nudge_live` the one shelter is switched between confidential and
  ordinary (`Reclassified`) at any moment: before it is listed, while the job has it
  in hand, while its nudge is pending or escalated. Two people cover "some
  texted, some not"; `Toggled` bounds whom the page switches, since a run needs one
  person who comes and goes and one who stays.
- One request in `Nudge`: resolving is idempotent, and the proofs hold for any
  number. Two in `Webhook`, where they overwrite one another; there `Overridable`
  and `Holdable` bound which bucket is remapped and which population has beds on
  hold, one each: the default map gives no two buckets one population, and an
  override of one bucket can.
- Five words hold two full buckets and a stray word, or one bucket twice; the
  letters are those on which tables agree or differ, the numbers stand on both
  sides of both limits (the limit is 2). `MaxGreeting` is three words: a keyword
  and a number of another table, and one more.
- Two numbers, two shelters, two tabs and three rows (`MaxRows`) hold a row
  deleted and its number registered for the other shelter while one tab is still
  about to toggle the first row and the job stands between the shelters.
- In `service` one viewer is enough, since viewers share nothing but the client;
  `Movable` has one shelter that becomes confidential or goes, `Reporting` the two
  populations of the other, so that one may be stale and one not; time has two
  values, fresh and stale. One failing call (`MaxFaults`) may meet any tick.
- Five writers hold an insert, a refused insert, a delete, an insert under a new
  key and an update of the lost one.

Fairness (`FairSpec`): weak fairness of `Tick` (APScheduler keeps firing), and of
each job's progress (the event loop resumes a coroutine whose await is over; the
database and FABT client answer or time out). Nothing is assumed of texts, staff
or administrators, and failures are bounded by `MaxFaults`. The Twilio call has no
timeout; that it returns or raises is an assumption.

Fairness of `Service`: weak fairness of `lifespan`, of the scheduler's stopping, and
of each viewer's request (`HttpFabtClient` has a timeout of five seconds, and a sleep
ends). Nothing is assumed of viewers arriving or leaving, of FABT, nor of the
server's cancelling a stream whose client left: each stream ends by its own
test. `StopsWithoutWatchers` says no more than the code keeps: a client that stays
on its stream keeps the process from stopping.

Every property of a passing run has a mutant of the code (`Mutant*` definitions
beside the originals) under which TLC finds it violated.

## 4. The proofs

Every invariant and every action property that a passing run checks is also a
theorem of the specification, checked by TLAPS for all values of the constants
under the modules' assumptions. These say what kind of thing each constant is;
the bounds among the constants (`Reclassified`, `Toggled`, `Overridable`,
`MaxFaults`, ...) may be anything, everything included.
TLC finds out first: the strengthened invariants below were model-checked on
the runs' instances before they were proved.

*Nudge.* `AtMostOnePending` is not inductive: what matters is what a job knows
between its test and its commit. The inductive invariant `IInv` adds

- `StaleOwnsShelter`: from the test on, no level-1 nudge of the job's shelter is
  pending. It is stable because only the stale check writes such rows and a
  running job is never started again: that single-instance rule, not the test, is
  what rules out duplicates.
- `EscOwnsShelter`: the same of level 2; and each nudge of the list is a
  coordinator nudge as old as the window, resolved since or not, because rows are
  only appended and only their resolution changes.
- `RequestCovers`: what a request has selected covers everything that was open
  when it saved its count.

`InvNext` goes through the actions by the one or two variables they touch:
`TableWriters` shows every other action leaves the table alone, `PendingAppend`
and `PendingResolve` say what the writers do to pending nudges. From `IInv`
follow type correctness, `AtMostOnePending`, `EscalationWaits`,
`SavedClearsEarlier`, the action property `NoTextWhilePending`, and that `Nudge`
implements `NudgeLedger` (`ImplementsLedger`), step by step. `DvLeftAlone` is an
action property about shelters that become confidential at any time. `Quiet` says
what may already be under way about one: its turn in the stale check or a place on
that job's list, a nudge of it in the escalation check's hands or on its list, a
pending coordinator nudge. If there is none of these, `StaleLeaves` shows that the
stale check cannot take hold of it while it is confidential, `EscLeaves` that the
escalation check, which never asks, takes hold only of shelters with a pending
nudge, `QuietPending` that nobody else opens one, and `QuietTexts` that nobody
else texts.

*PopulationMap.* The invariant adds `StillThere`: a writer that read a row still
finds it unless a delete overtook it. Then a save took effect on every path, and
only a delete makes an upsert raise.

*Coordinators.* `TextsAreDue` needs to know what the job still holds:
`JobReadsOnce` says whoever is due now is already in the history, whoever is on
the list or texted was due, that their shelter has left the list of shelters (so
its recipients are never read again), and that the list has a number once, which
the unique hash gives at the moment of reading. `DeletedStaysDeleted` follows from
keys being numbered in the order of creation, part of `TypeOK`.

*Wallboard and Service.* One invariant for both, since `Service` is what moves the
viewers. `FetchesRightly` relates a viewer's place in the code to what it has fetched:
a shelter confidential since the board was begun is neither shown nor still to be
asked for; only a client over HTTP and a viewer of its own tenant is between two
calls; a site with a count that was stale when the board was begun is flagged, since
it is read with the same clock or a later one. `BuiltInOrder` says what is built and released on each
line of `lifespan`; from it follow `ReleasedAll` and `ServedWhileOpen`.

*SmsParser.* No induction is needed to say what `parse_sms` gives: `ParseOutcomes`
states its three outcomes for any text, from `MatchAllOrNone` (a table's counts are
all taken or none). `SmsTypingProofs` adds that one more word keeps every reading
and adds none before them (`Longer`), so the first stays first (`LeastIs`, from the
order of the naturals), hence `FirstReadingStands`; that the keywords of one locale
are distinct, hence `OneNumberOneBucket`; and for `HelpUnderstood`, that a keyword
and a number behind a text are one more reading of one bucket (`PairRead`), once
for each bucket a reply names (`PartRead`). There the bounds of the run are gone:
any vocabulary, numbers, limit, length and greeting.

*Webhook.* `ToldUnlessErred` and `ConfirmedIsSaved` say what holds once a row is
logged; `Accounted` says it of a request under way: whatever FABT has on record of
it is of a bucket whose PATCH was answered, with success or with an error (`Sent`);
what it has confirmed is what FABT shows of it, unless somebody saved since or
another bucket was sent to the same population, with success or not; no bucket is
sent twice; and the bucket it is about to PATCH is one it names and the map serves.
A request that failed is exempt, since an error raised after FABT made the snapshot
leaves a count on record that was never answered. `PatchedShows` is the
arithmetic of a PATCH: the count shown is at most the text's, whatever was read
as capacity. `OthersKept` says a step touches its own request's promises only:
whoever writes a population takes it out of the others' `by`, never into it.
The rest goes through the actions: `QuietStep` for those that leave FABT alone,
`SentKeeps` for an answered PATCH (`PatchKeeps` after a success, `ErredKeeps` after an
error that saved or did not) and `RaiseKeeps` for a call that raises.

What the proofs changed in the models: the type invariants of `Wallboard` and
`Webhook` are stated over record sets rather than field by field; `First` was
taken out of `Turn` and `Part` out of `Example` (which used `SelectSeq`, a
recursion the provers cannot unfold), with the same values; and `SUBSET Buckets \
{{}}` got its parentheses, without which the parser of TLAPS reads another set.

Only model-checked: liveness (`StaleIsNudged`, `EscalationAnswered`,
`BoardFollows`, `StopsWithoutWatchers`), which rests on fairness and is out of the
prover's reach.

## 5. What the code does not keep

Each is a run with a counterexample; `PROJECT.json` quotes the lines.

- `nudge_orphan`: an escalation outlives its nudge when the shelter recovers
  through FABT, and silences the next episode's.
- `nudge_unreachable`: one undeliverable number keeps the shelters after it from
  ever being nudged.
- `sms_example`: the reply asked for in Spanish is read as something else.
- `webhook_shared`: two buckets of one population are both confirmed, one is kept.
- `coordinators_button`: a click does not do what its label says but the opposite of
  what is in the row by then.

More disagreements were met while modelling and are allowed by the model, with no
run kept for them:

- a failure between a page and its commit (`EscSend`, then `EscFail` or
  `EscUnreachable`) leaves no row, and the next poll pages the lead again
  (`scheduler.py:23-28` says it will not);
- a nudge ages from the start of the job (`StaleCommit` writes `stale.now`), so a
  lead may be told of a longer silence than there was (`messages.py:41-42`);
- a transport error at a later bucket (`Raise`) loses log, reply and nudge clearing
  of a bucket already saved (`webhook.py:172-175`);
- an error FABT answers after it made the snapshot (`PatchRefused`) is taken for a
  refusal: the text may be logged as rejected with its count on record, where the
  comments say "Nothing was actually saved to FABT" (`webhook.py:190`) and that what
  is confirmed "reflects exactly what was really saved" (`webhook.py:177`).
  `ToldUnlessErred` says what is left of that;
- a shelter made confidential after it was listed or nudged (`ChangeStatus`) is still
  nudged, and its lead paged, for the job or nudge under way then: the stale check
  asks once (`scheduler.py:141-144`), the escalation check never
  (`scheduler.py:211-242`). `DvLeftAlone` says what is left of "non-DV shelter"
  (`scheduler.py:132`);
- a confirmation has each number before its word ("Saved: 3 women, 1 men, 0 family",
  `messages.py:95-99`), the parser wants it after: sent back without the commas, "3
  women 1 men 0 family" is read as women 1, men 0, and with them as nothing.
  `HelpUnderstood` claims keyword before number only.

## 6. The plan

Every invariant and action property the runs check is a theorem. What is left:

1. A specification of the webhook as FABT and the coordinator see it (a text is
   refused, or its counts are shown and told of), which `Webhook` implements.
2. The steps behind the liveness properties that are no liveness themselves: which
   action can still be taken, and that no other undoes it.
3. Lemmas about `compute_freshness`: that a count only ages, and when a name of
   FABT's may stand for which.

Not modelled, and why:

- the number of active holds on a board: it is passed through, and no decision
  depends on it; the mock's reservations and `create_reservation`, which nothing
  calls;
- the mock's HTTP wrapper (`mock_fabt/server.py`), which adds an authorization
  header and no behaviour and is not part of the service;
- time zones: both clocks of an age are taken in one zone, and no hour changes
  between the default check hours and the end of a window;
- the database engine `init_db` builds, which nothing disposes of when the process
  stops: `ReleasedAll` is about the scheduler, its jobs and the FABT client;
- a Twilio call that never returns: no document says what should follow;
- the signature check of the webhook, cryptography, templates, the wording of
  messages, the parsing of settings and of the scripts' arguments.
