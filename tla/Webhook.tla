------------------------------- MODULE Webhook -------------------------------
(***************************************************************************)
(* inbound_sms of app/sms/webhook.py for the texts of one shelter, down    *)
(* through the parser, the population map and HttpFabtClient.post_snapshot *)
(* to the count FABT keeps, and back up to the log row and the reply.      *)
(*                                                                         *)
(* A step is the code between two awaits.  Requests of several             *)
(* coordinators overlap with one another, with FABT staff who change       *)
(* capacities, holds and counts, and with administrators who change the    *)
(* overrides (PopulationMap shows such a change to be one step).           *)
(***************************************************************************)
EXTENDS SmsParser, FiniteSets

CONSTANTS
  Requests,      \* inbound messages, each handled once
  Texts,         \* what they may say
  Profiles,      \* values of coordinator_phone.locale, valid or not
  Populations,   \* FABT population types
  DefaultMap,    \* the shelter's own bucket -> population map, or Unserved
  Unserved, NoOverride,
  Overrides,     \* what an administrator may set a bucket to
  Overridable,   \* bound: the buckets administrators set
  Beds,          \* capacities FABT may give a population
  Holdable,      \* bound: the populations with beds on hold
  MaxHolds,      \* bound: beds of a population on hold
  MaxFaults      \* bound: calls that raise something other than FabtApiError

ASSUME WebhookAssumption ==
  /\ DefaultMap \in [Buckets -> Populations \cup {Unserved}]
  /\ Unserved \notin Populations
  /\ NoOverride \notin Populations \cup {Unserved}
  /\ Overridable \subseteq Buckets /\ Holdable \subseteq Populations
  /\ Overrides \subseteq Populations \cup {Unserved, NoOverride}
  /\ Beds \subseteq Nat
  /\ MaxHolds \in Nat /\ MaxFaults \in Nat
  /\ "staff" \notin Requests

VARIABLES
  capacity,   \* FABT: bedsTotal of a population, or NoCapacity
  holds,      \* FABT: beds on hold
  snapshot,   \* FABT: the latest availability snapshot of a population
  override,   \* the shelter's override rows; Unserved is the NULL that disables
  request,    \* the requests; erred is a history: buckets FABT answered with an error
  log,        \* sms_update_log.result of each request, or "none"
  faults

vars == <<capacity, holds, snapshot, override, request, log, faults>>

NoCapacity == -1
RequestNew == [pc |-> "new", counts |-> <<>>, map |-> <<>>, todo |-> {}, total |-> 0,
               confirmed |-> <<>>, erred |-> {}]
Posting == {"next", "patch"}
Running == {"shelter", "map", "resolve", "rejected", "parse_error", "saved"} \cup Posting

Init ==
  /\ capacity \in [Populations -> Beds \cup {NoCapacity}]
  /\ holds = [p \in Populations |-> 0]
  /\ snapshot = [p \in Populations |-> [by |-> "staff", total |-> 0, occupied |-> 0,
                                        onHold |-> 0]]
  /\ override = [b \in Buckets |-> NoOverride]
  /\ request = [r \in Requests |-> RequestNew]
  /\ log = [r \in Requests |-> "none"]
  /\ faults = 0

-----------------------------------------------------------------------------
(* Locale(coordinator.locale), English if that is no locale.               *)
LocaleOf(profile) == IF profile \in Locales THEN profile ELSE "en"

(* resolve_sms_population_map, as the populations of the buckets served.   *)
EffectiveMap ==
  LET of == [b \in Buckets |-> IF override[b] = NoOverride THEN DefaultMap[b] ELSE override[b]]
      served == {b \in Buckets : of[b] # Unserved}
  IN [b \in served |-> of[b]]

(* The bucket whose turn it is: a message's counts are in table order.     *)
First(todo) ==
  TableOrder[CHOOSE i \in DOMAIN TableOrder :
               TableOrder[i] \in todo /\ \A j \in 1 .. i - 1 : TableOrder[j] \notin todo]

Turn(r) == First(request[r].todo)

MutantOccupied(total, available) == total - available

MutantTypedAsOccupied(total, available) == available

Occupied(total, available) == IF total > available THEN total - available ELSE 0

(* FABT derives it so (HttpFabtClient's docstring); holds count as they    *)
(* were when the snapshot was made.                                        *)
Available(s) == s.total - s.occupied - s.onHold

With(counts, b, n) == [c \in DOMAIN counts \cup {b} |-> IF c = b THEN n ELSE counts[c]]

Become(r, state) == request' = [request EXCEPT ![r] = state]
-----------------------------------------------------------------------------
(* The sender is looked up, and the text of one who is registered parsed.  *)
ReceiveUnknown(r) ==
  /\ request[r].pc = "new"
  /\ Become(r, [RequestNew EXCEPT !.pc = "rejected"])
  /\ UNCHANGED <<capacity, holds, snapshot, override, log, faults>>

Receive(r, text, profile) ==
  LET parsed == ParseSms(text, LocaleOf(profile))
  IN /\ request[r].pc = "new"
     /\ Become(r, IF parsed.reason = "none"
                  THEN [RequestNew EXCEPT !.pc = "shelter", !.counts = parsed.counts]
                  ELSE [RequestNew EXCEPT !.pc = "parse_error"])
     /\ UNCHANGED <<capacity, holds, snapshot, override, log, faults>>

GetShelter(r) ==
  /\ request[r].pc = "shelter"
  /\ \E pc \in {"map", "rejected"} : Become(r, [request[r] EXCEPT !.pc = pc])
  /\ UNCHANGED <<capacity, holds, snapshot, override, log, faults>>

ResolveMap(r) ==
  /\ request[r].pc = "map"
  /\ Become(r, [request[r] EXCEPT !.pc = "next", !.map = EffectiveMap,
                                  !.todo = DOMAIN request[r].counts])
  /\ UNCHANGED <<capacity, holds, snapshot, override, log, faults>>

(* A bucket the shelter does not serve, or one FABT has no capacity for,   *)
(* or refuses to read, is passed over.                                     *)
SkipBucket(r) ==
  /\ request[r].pc = "next"
  /\ request[r].todo # {}
  /\ Become(r, [request[r] EXCEPT !.todo = @ \ {Turn(r)}])
  /\ UNCHANGED <<capacity, holds, snapshot, override, log, faults>>

ReadCapacity(r) ==
  LET b == Turn(r)
  IN /\ request[r].pc = "next"
     /\ request[r].todo # {}
     /\ b \in DOMAIN request[r].map
     /\ capacity[request[r].map[b]] # NoCapacity
     /\ Become(r, [request[r] EXCEPT !.pc = "patch", !.total = capacity[request[r].map[b]]])
     /\ UNCHANGED <<capacity, holds, snapshot, override, log, faults>>

(* The snapshot FABT makes of the PATCH for bucket b.                      *)
Patched(r, b) ==
  LET p == request[r].map[b]
      occupied == Occupied(request[r].total, request[r].counts[b])
  IN [snapshot EXCEPT ![p] = [by |-> r, total |-> request[r].total, occupied |-> occupied,
                              onHold |-> holds[p]]]

MutantEchoed(r) ==
  LET b == Turn(r)
  IN /\ request[r].pc = "patch"
     /\ snapshot' = Patched(r, b)
     /\ Become(r, [request[r] EXCEPT !.pc = "next", !.todo = @ \ {b},
                     !.confirmed = With(@, b, request[r].counts[b])])
     /\ UNCHANGED <<capacity, holds, override, log, faults>>

MutantUnconfirmed(r) ==
  LET b == Turn(r)
  IN /\ request[r].pc = "patch"
     /\ snapshot' = Patched(r, b)
     /\ Become(r, [request[r] EXCEPT !.pc = "next", !.todo = @ \ {b}])
     /\ UNCHANGED <<capacity, holds, override, log, faults>>

PatchSaved(r) ==
  LET b == Turn(r)
  IN /\ request[r].pc = "patch"
     /\ snapshot' = Patched(r, b)
     /\ Become(r, [request[r] EXCEPT !.pc = "next", !.todo = @ \ {b},
                     !.confirmed = With(@, b, Available(Patched(r, b)[request[r].map[b]]))])
     /\ UNCHANGED <<capacity, holds, override, log, faults>>

(* Any status of 400 or more is a FabtApiError: a refusal, or an answer    *)
(* lost on its way after FABT made the snapshot.                           *)
PatchRefused(r) ==
  /\ request[r].pc = "patch"
  /\ \/ UNCHANGED snapshot
     \/ snapshot' = Patched(r, Turn(r))
  /\ Become(r, [request[r] EXCEPT !.pc = "next", !.todo = @ \ {Turn(r)},
                                  !.erred = @ \cup {Turn(r)}])
  /\ UNCHANGED <<capacity, holds, override, log, faults>>

BucketsDone(r) ==
  /\ request[r].pc = "next"
  /\ request[r].todo = {}
  /\ Become(r, [request[r] EXCEPT !.pc = IF request[r].confirmed = <<>> THEN "rejected"
                                         ELSE "resolve"])
  /\ UNCHANGED <<capacity, holds, snapshot, override, log, faults>>

(* resolve_nudges_for_shelter (Nudge has its steps). *)
ResolveNudges(r) ==
  /\ request[r].pc = "resolve"
  /\ Become(r, [request[r] EXCEPT !.pc = "saved"])
  /\ UNCHANGED <<capacity, holds, snapshot, override, log, faults>>

LogAndReply(r) ==
  /\ request[r].pc \in {"rejected", "parse_error", "saved"}
  /\ log' = [log EXCEPT ![r] = request[r].pc]
  /\ Become(r, [request[r] EXCEPT !.pc = "replied"])
  /\ UNCHANGED <<capacity, holds, snapshot, override, faults>>

(* An await raises what inbound_sms does not catch: a transport error or a *)
(* timeout of the FABT client, after FABT made the snapshot or before, a   *)
(* FabtApiError of get_shelter, an error of the database.  What the text   *)
(* said and where its buckets went is kept for the properties.             *)
Raise(r) ==
  /\ request[r].pc \in Running
  /\ faults < MaxFaults
  /\ faults' = faults + 1
  /\ \/ UNCHANGED snapshot
     \/ request[r].pc = "patch" /\ snapshot' = Patched(r, Turn(r))
  /\ Become(r, [RequestNew EXCEPT !.pc = "failed", !.counts = request[r].counts,
                                  !.map = request[r].map])
  /\ UNCHANGED <<capacity, holds, override, log>>

RequestStep(r) ==
  \/ ReceiveUnknown(r)
  \/ \E text \in Texts, profile \in Profiles : Receive(r, text, profile)
  \/ GetShelter(r) \/ ResolveMap(r) \/ SkipBucket(r) \/ ReadCapacity(r)
  \/ PatchSaved(r) \/ PatchRefused(r) \/ BucketsDone(r) \/ ResolveNudges(r)
  \/ LogAndReply(r) \/ Raise(r)

-----------------------------------------------------------------------------
(* FABT staff and BedBoard administrators. *)

ChangeCapacity(p, n) ==
  /\ capacity' = [capacity EXCEPT ![p] = n]
  /\ UNCHANGED <<holds, snapshot, override, request, log, faults>>

ChangeHolds(p, n) ==
  /\ holds' = [holds EXCEPT ![p] = n]
  /\ UNCHANGED <<capacity, snapshot, override, request, log, faults>>

StaffSnapshot(p, occupied) ==
  /\ capacity[p] # NoCapacity
  /\ occupied <= capacity[p]
  /\ snapshot' = [snapshot EXCEPT ![p] = [by |-> "staff", total |-> capacity[p],
                                          occupied |-> occupied, onHold |-> holds[p]]]
  /\ UNCHANGED <<capacity, holds, override, request, log, faults>>

ChangeOverride(b, p) ==
  /\ override' = [override EXCEPT ![b] = p]
  /\ UNCHANGED <<capacity, holds, snapshot, request, log, faults>>

Next ==
  \/ \E r \in Requests : RequestStep(r)
  \/ \E p \in Populations, n \in Beds \cup {NoCapacity} : ChangeCapacity(p, n)
  \/ \E p \in Holdable, n \in 0 .. MaxHolds : ChangeHolds(p, n)
  \/ \E p \in Populations, n \in 0 .. MaxCount : StaffSnapshot(p, n)
  \/ \E b \in Overridable, p \in Overrides : ChangeOverride(b, p)

Spec == Init /\ [][Next]_vars
-----------------------------------------------------------------------------
(* Types; FABT is never sent fewer than no or more than all beds occupied. *)
Partial(values) == UNION {[bs -> values] : bs \in SUBSET Buckets}

Snapshot == [by : Requests \cup {"staff"}, total : Nat, occupied : Nat, onHold : 0 .. MaxHolds]
Request ==
  [pc : Running \cup {"new", "replied", "failed"}, counts : Partial(0 .. MaxCount),
   map : Partial(Populations), todo : SUBSET Buckets, total : Nat,
   confirmed : Partial(-MaxHolds .. MaxCount), erred : SUBSET Buckets]

TypeOK ==
  /\ capacity \in [Populations -> Beds \cup {NoCapacity}]
  /\ holds \in [Populations -> 0 .. MaxHolds]
  /\ snapshot \in [Populations -> Snapshot]
  /\ \A p \in Populations : snapshot[p].occupied <= snapshot[p].total
  /\ override \in [Buckets -> Overrides \cup {NoOverride}]
  /\ request \in [Requests -> Request]
  /\ \A r \in Requests : request[r].todo \subseteq DOMAIN request[r].counts
  /\ log \in [Requests -> {"none", "rejected", "parse_error", "saved"}]
  /\ faults \in 0 .. MaxFaults

(* A count FABT got from a text is of a bucket that text names, and never  *)
(* shows more free beds than the text says: buckets a partial update does  *)
(* not mention keep their counts, and the capacity read before the PATCH,  *)
(* which may have changed since, never inflates one (parser.py:3-14,       *)
(* fabt_client.py:252-274).                                                *)
SnapshotFromText ==
  \A p \in Populations, r \in Requests :
    snapshot[p].by = r =>
      \E b \in DOMAIN request[r].counts :
        /\ b \in DOMAIN request[r].map /\ request[r].map[b] = p
        /\ Available(snapshot[p]) <= request[r].counts[b]

(* The buckets of r whose PATCH was answered.                              *)
Sent(r) == DOMAIN request[r].confirmed \cup request[r].erred

(* Once a text is answered, whatever of it is on FABT's record the         *)
(* coordinator was told of, or FABT answered that PATCH with an error      *)
(* (webhook.py:171-178, 189-205): of a text logged as rejected or not      *)
(* understood nothing is on record but what FABT saved and denied saving.  *)
ToldUnlessErred ==
  \A r \in Requests, p \in Populations :
    log[r] # "none" /\ snapshot[p].by = r =>
      \E b \in Sent(r) :
        /\ request[r].map[b] = p
        /\ log[r] = "saved" \/ b \in request[r].erred

(* A confirmed number is what FABT shows for that bucket until somebody    *)
(* saves another, whatever was on hold or over capacity, provided no other *)
(* bucket of the text was sent to the same population, be it with success  *)
(* or not.                                                                 *)
Confirms(r, b) ==
  LET latest == snapshot[request[r].map[b]]
  IN latest.by = r => Available(latest) = request[r].confirmed[b]

Alone(r, b) == \A c \in Sent(r) \ {b} : request[r].map[c] # request[r].map[b]

ConfirmedIsSaved ==
  \A r \in Requests :
    log[r] = "saved" =>
      /\ request[r].confirmed # <<>>
      /\ \A b \in DOMAIN request[r].confirmed : Alone(r, b) => Confirms(r, b)

(* Why the three hold: of a request that has not failed FABT has only what *)
(* it has had an answer for, what it has confirmed is what FABT shows, and *)
(* it PATCHes a bucket it names, each of them once.                        *)
Accounted(r) ==
  /\ request[r].pc # "replied" => log[r] = "none"
  /\ log[r] \in {"rejected", "parse_error"} => request[r].confirmed = <<>>
  /\ log[r] = "saved" => request[r].confirmed # <<>>
  /\ request[r].pc \in {"new", "shelter", "map", "rejected", "parse_error"} =>
       request[r].confirmed = <<>>
  /\ request[r].pc \in {"new", "shelter", "map"} => request[r].erred = {}
  /\ request[r].pc \in {"resolve", "saved"} => request[r].confirmed # <<>>
  /\ request[r].pc = "patch" => request[r].todo # {} /\ Turn(r) \in DOMAIN request[r].map
  /\ request[r].todo \cap Sent(r) = {}
  /\ Sent(r) \subseteq DOMAIN request[r].map
  /\ request[r].pc # "failed" =>
       /\ \A p \in Populations :
            snapshot[p].by = r => \E b \in Sent(r) : request[r].map[b] = p
       /\ \A b \in DOMAIN request[r].confirmed : Alone(r, b) => Confirms(r, b)

(* The inductive invariant the proofs rest on.                             *)
IInv == TypeOK /\ SnapshotFromText /\ \A r \in Requests : Accounted(r)

-----------------------------------------------------------------------------
(* What a comment of webhook.py says and the code does not keep.           *)

(* webhook.py:179 has the reply "Always confirm with what FABT actually    *)
(* saved", so that no coordinator is told "a number that doesn't match     *)
(* what the wallboard/next search will actually show".                     *)
ConfirmationShown ==
  \A r \in Requests :
    log[r] = "saved" => \A b \in DOMAIN request[r].confirmed : Confirms(r, b)
=============================================================================
