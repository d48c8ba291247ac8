---------------------------- MODULE WebhookProofs ----------------------------
(***************************************************************************)
(* Proofs about inbound_sms for any requests, messages, populations, maps  *)
(* and bounds.                                                             *)
(***************************************************************************)
EXTENDS Webhook, SmsParserProofs

-----------------------------------------------------------------------------
(* Operators. *)

LEMMA FirstIn == ASSUME NEW todo \in SUBSET Buckets, todo # {} PROVE First(todo) \in todo
<1> DEFINE Least(i) == TableOrder[i] \in todo /\ \A j \in 1 .. i - 1 : TableOrder[j] \notin todo
<1>1. \E i \in DOMAIN TableOrder : Least(i)
  <2>1. PICK k \in 1 .. 3 : TableOrder[k] \in todo
    BY BucketsOrdered
  <2>2. CASE TableOrder[1] \in todo
    <3>1. Least(1)
      BY <2>2
    <3> QED
      BY <3>1, BucketsOrdered
  <2>3. CASE TableOrder[1] \notin todo /\ TableOrder[2] \in todo
    <3>1. Least(2)
      BY <2>3
    <3> QED
      BY <3>1, BucketsOrdered
  <2>4. CASE TableOrder[1] \notin todo /\ TableOrder[2] \notin todo
    <3>1. Least(3)
      BY <2>1, <2>4
    <3> QED
      BY <3>1, BucketsOrdered
  <2> QED
    BY <2>2, <2>3, <2>4
<1>2. Least(CHOOSE i \in DOMAIN TableOrder : Least(i))
  BY <1>1
<1>3. First(todo) = TableOrder[CHOOSE i \in DOMAIN TableOrder : Least(i)]
  BY DEF First
<1> QED
  BY <1>2, <1>3

LEMMA PartialDef ==
  ASSUME NEW values, NEW f
  PROVE  /\ f \in Partial(values) =>
              /\ DOMAIN f \subseteq Buckets /\ f \in [DOMAIN f -> values]
              /\ \A b \in DOMAIN f : f[b] \in values
         /\ \A bs \in SUBSET Buckets : f \in [bs -> values] => f \in Partial(values)
  BY DEF Partial

LEMMA NothingYet == ASSUME NEW values PROVE <<>> \in Partial(values) /\ DOMAIN <<>> = {}
<1>1. <<>> \in [{} -> values]
  OBVIOUS
<1> QED
  BY <1>1, PartialDef

(* g is f with n for b. *)
Adds(g, f, b, n) ==
  /\ DOMAIN g = DOMAIN f \cup {b} /\ g # <<>>
  /\ g[b] = n
  /\ \A c \in DOMAIN f \ {b} : g[c] = f[c]

LEMMA WithAdds ==
  ASSUME NEW values, NEW f \in Partial(values), NEW b \in Buckets, NEW n \in values
  PROVE  With(f, b, n) \in Partial(values) /\ Adds(With(f, b, n), f, b, n)
<1> DEFINE h == [c \in DOMAIN f \cup {b} |-> IF c = b THEN n ELSE f[c]]
<1>1. DOMAIN f \cup {b} \in SUBSET Buckets /\ \A c \in DOMAIN f : f[c] \in values
  BY PartialDef
<1>2. h \in [DOMAIN f \cup {b} -> values]
  BY <1>1
<1>3. /\ DOMAIN h = DOMAIN f \cup {b} /\ h[b] = n
      /\ \A c \in DOMAIN f \ {b} : h[c] = f[c]
  OBVIOUS
<1>4. With(f, b, n) = h
  BY DEF With
<1> HIDE DEF h
<1>5. h \in Partial(values)
  BY <1>1, <1>2, PartialDef
<1>6. h # <<>>
  BY <1>3
<1>7. Adds(h, f, b, n)
  BY <1>3, <1>6 DEF Adds
<1> QED
  BY <1>4, <1>5, <1>7

LEMMA EffectiveTypes == ASSUME TypeOK PROVE EffectiveMap \in Partial(Populations)
<1> DEFINE of == [b \in Buckets |-> IF override[b] = NoOverride THEN DefaultMap[b] ELSE override[b]]
           served == {b \in Buckets : of[b] # Unserved}
<1>1. \A b \in Buckets : of[b] \in Populations \cup {Unserved}
  BY WebhookAssumption DEF TypeOK
<1>2. EffectiveMap = [b \in served |-> of[b]]
  BY DEF EffectiveMap
<1> HIDE DEF of
<1>3. [b \in served |-> of[b]] \in [served -> Populations]
  BY <1>1
<1> QED
  BY <1>2, <1>3, PartialDef

LEMMA LocaleTypes == ASSUME NEW profile PROVE LocaleOf(profile) \in Locales
  BY DEF LocaleOf, Locales

LEMMA ParsedTypes ==
  ASSUME NEW text, NEW locale \in Locales
  PROVE  ParseSms(text, locale).counts \in Partial(0 .. MaxCount)
<1> DEFINE found == Found(text, InUse(text, locale))
           counts == ParseSms(text, locale).counts
<1>1. counts \in [found -> 0 .. MaxCount] \/ counts = <<>>
  BY ParseOutcomes
<1>2. found \in SUBSET Buckets
  BY FoundTypes
<1> HIDE DEF found, counts
<1>3. counts \in Partial(0 .. MaxCount)
  BY <1>1, <1>2, PartialDef, NothingYet
<1> QED
  BY <1>3 DEF counts

(* What FABT shows of a PATCH is the text's number, or the capacity if     *)
(* that is less, without the beds on hold.                                 *)
LEMMA PatchedShows ==
  ASSUME TypeOK, NEW r \in Requests, NEW b \in DOMAIN request[r].map,
         b \in DOMAIN request[r].counts
  PROVE  LET p == request[r].map[b]
         IN /\ p \in Populations
            /\ Patched(r, b) \in [Populations -> Snapshot]
            /\ \A q \in Populations \ {p} : Patched(r, b)[q] = snapshot[q]
            /\ Patched(r, b)[p].by = r
            /\ Patched(r, b)[p].occupied <= Patched(r, b)[p].total
            /\ Available(Patched(r, b)[p]) \in -MaxHolds .. MaxCount
            /\ Available(Patched(r, b)[p]) <= request[r].counts[b]
<1> DEFINE p == request[r].map[b]
           n == request[r].counts[b]
           total == request[r].total
           s == [by |-> r, total |-> total, occupied |-> Occupied(total, n), onHold |-> holds[p]]
<1>1. request[r] \in Request
  BY DEF TypeOK
<1>2. p \in Populations
  BY <1>1, PartialDef DEF Request
<1>3. n \in 0 .. MaxCount
  BY <1>1, PartialDef DEF Request
<1>4. total \in Nat
  BY <1>1 DEF Request
<1>5. holds[p] \in 0 .. MaxHolds
  BY <1>2 DEF TypeOK
<1>6. MaxHolds \in Nat /\ MaxCount \in Nat
  BY WebhookAssumption, SmsParserAssumption
<1>7. Patched(r, b) = [snapshot EXCEPT ![p] = s]
  BY DEF Patched
<1> HIDE DEF p, n, total
<1>8. /\ Occupied(total, n) \in Nat /\ Occupied(total, n) <= total
      /\ total - Occupied(total, n) \in 0 .. MaxCount
      /\ total - Occupied(total, n) <= n
  BY <1>3, <1>4, <1>6 DEF Occupied
<1>9. /\ s \in Snapshot /\ s.by = r /\ s.occupied <= s.total
      /\ Available(s) = total - Occupied(total, n) - holds[p]
  BY <1>4, <1>5, <1>8 DEF Snapshot, Available
<1>10. Available(s) \in -MaxHolds .. MaxCount /\ Available(s) <= n
  BY <1>3, <1>5, <1>6, <1>8, <1>9
<1> HIDE DEF s
<1>11. /\ Patched(r, b) \in [Populations -> Snapshot] /\ Patched(r, b)[p] = s
       /\ \A q \in Populations \ {p} : Patched(r, b)[q] = snapshot[q]
  BY <1>2, <1>7, <1>9 DEF TypeOK
<1> QED
  BY <1>2, <1>9, <1>10, <1>11 DEF p, n

-----------------------------------------------------------------------------
(* One request: what a step must leave for it to stay accounted for. *)

FromText(q) ==
  \A p \in Populations :
    snapshot[p].by = q =>
      \E b \in DOMAIN request[q].counts :
        /\ b \in DOMAIN request[q].map /\ request[q].map[b] = p
        /\ Available(snapshot[p]) <= request[q].counts[b]

Good(q) == Accounted(q) /\ FromText(q)

(* Whoever writes a count, others than its writer lose only theirs. *)
LEMMA OthersKept ==
  ASSUME TypeOK, NEW q \in Requests, Good(q),
         request'[q] = request[q], log'[q] = log[q],
         \A p \in Populations : snapshot'[p] = snapshot[p] \/ snapshot'[p].by # q
  PROVE  Good(q)'
<1>1. FromText(q)'
  BY DEF Good, FromText
<1>2. Turn(q)' = Turn(q)
  BY DEF Turn
<1>3. Sent(q)' = Sent(q) /\ \A b : Alone(q, b)' <=> Alone(q, b)
  BY DEF Alone, Sent
<1>4. \A b \in DOMAIN request[q].map : Confirms(q, b) => Confirms(q, b)'
  <2>1. \A b \in DOMAIN request[q].map : request[q].map[b] \in Populations
    BY PartialDef DEF TypeOK, Request
  <2> QED
    BY <2>1 DEF Confirms
<1>5. Accounted(q)'
  BY <1>2, <1>3, <1>4 DEF Good, Accounted, Sent
<1> QED
  BY <1>1, <1>5 DEF Good

LEMMA Begins ==
  ASSUME NEW r \in Requests, \A p \in Populations : snapshot[p].by # r,
         request'[r].confirmed = <<>>, request'[r].erred = {}, log[r] = "none",
         request'[r].pc \notin {"resolve", "saved", "patch"},
         UNCHANGED <<snapshot, log>>
  PROVE  Good(r)'
  BY NothingYet DEF Good, Accounted, FromText, Sent

LEMMA GoesOn ==
  ASSUME NEW r \in Requests, Good(r), UNCHANGED <<snapshot, log>>,
         request'[r].counts = request[r].counts,
         request'[r].map = request[r].map,
         request'[r].confirmed = request[r].confirmed,
         request'[r].erred = request[r].erred,
         request'[r].todo \subseteq request[r].todo,
         request[r].pc \notin {"failed", "replied"},
         request'[r].pc # "replied",
         request'[r].pc \in {"new", "shelter", "map", "rejected", "parse_error"} =>
           request[r].confirmed = <<>>,
         request'[r].pc \in {"new", "shelter", "map"} => request[r].erred = {},
         request'[r].pc \in {"resolve", "saved"} => request[r].confirmed # <<>>,
         request'[r].pc = "patch" =>
           request'[r].todo # {} /\ First(request'[r].todo) \in DOMAIN request[r].map
  PROVE  Good(r)'
<1>1. FromText(r)'
  BY DEF Good, FromText
<1>2. Turn(r)' = First(request'[r].todo)
  BY DEF Turn
<1>3. /\ Sent(r)' = Sent(r)
      /\ \A b : (Alone(r, b)' <=> Alone(r, b)) /\ (Confirms(r, b)' <=> Confirms(r, b))
  BY DEF Alone, Confirms, Sent
<1>4. Accounted(r)'
  BY <1>2, <1>3 DEF Good, Accounted
<1> QED
  BY <1>1, <1>4 DEF Good

(* The record a step leaves r with. *)
LEMMA BecomeSets ==
  ASSUME TypeOK, NEW r \in Requests, NEW state, Become(r, state)
  PROVE  /\ request'[r] = state
         /\ \A q \in Requests \ {r} : request'[q] = request[q]
         /\ state \in Request => request' \in [Requests -> Request]
  BY DEF Become, TypeOK

(* All of a step of r that leaves what FABT and the log have. *)
LEMMA QuietStep ==
  ASSUME TypeOK, \A q \in Requests : Good(q),
         NEW r \in Requests, NEW state \in Request, Become(r, state),
         state.todo \subseteq DOMAIN state.counts,
         UNCHANGED <<capacity, holds, snapshot, override, log, faults>>, Good(r)'
  PROVE  TypeOK' /\ \A q \in Requests : Good(q)'
<1>1. /\ request'[r] = state /\ request' \in [Requests -> Request]
      /\ \A q \in Requests \ {r} : request'[q] = request[q]
  BY BecomeSets
<1>2. TypeOK'
  BY <1>1 DEF TypeOK
<1>3. \A q \in Requests \ {r} : Good(q)'
  BY <1>1, OthersKept
<1> QED
  BY <1>2, <1>3

(* The record of a request whose text is parsed, or that ends before.      *)
Fresh(state) ==
  /\ state \in Request
  /\ state.pc \in {"rejected", "parse_error", "shelter"}
  /\ state.todo = {} /\ state.confirmed = <<>> /\ state.erred = {}

LEMMA FreshRecords ==
  /\ Fresh([RequestNew EXCEPT !.pc = "rejected"])
  /\ Fresh([RequestNew EXCEPT !.pc = "parse_error"])
  /\ \A counts \in Partial(0 .. MaxCount) :
       Fresh([RequestNew EXCEPT !.pc = "shelter", !.counts = counts])
<1>1. /\ RequestNew \in Request /\ RequestNew.todo = {}
      /\ RequestNew.confirmed = <<>> /\ RequestNew.erred = {}
  BY NothingYet DEF RequestNew, Request
<1>2. {"rejected", "parse_error", "shelter"} \subseteq Running
  BY DEF Running
<1> QED
  BY <1>1, <1>2 DEF Fresh, Request

LEMMA ReceiveKeeps ==
  ASSUME TypeOK, \A q \in Requests : Good(q), NEW r \in Requests,
         ReceiveUnknown(r) \/ \E text \in Texts, profile \in Profiles : Receive(r, text, profile)
  PROVE  TypeOK' /\ \A q \in Requests : Good(q)'
<1>1. /\ UNCHANGED <<capacity, holds, snapshot, override, log, faults>>
      /\ request[r].pc = "new"
  BY DEF ReceiveUnknown, Receive
<1>2. /\ request[r].confirmed = <<>> /\ request[r].erred = {} /\ log[r] = "none"
      /\ \A p \in Populations : snapshot[p].by # r
  BY <1>1, NothingYet DEF Good, Accounted, Sent
<1>3. \E state : Fresh(state) /\ Become(r, state)
  <2>1. CASE ReceiveUnknown(r)
    <3>1. Become(r, [RequestNew EXCEPT !.pc = "rejected"])
      BY <2>1 DEF ReceiveUnknown
    <3> QED
      BY <3>1, FreshRecords
  <2>2. ASSUME NEW text \in Texts, NEW profile \in Profiles, Receive(r, text, profile)
        PROVE  \E state : Fresh(state) /\ Become(r, state)
    <3> DEFINE parsed == ParseSms(text, LocaleOf(profile))
               taken == [RequestNew EXCEPT !.pc = "shelter", !.counts = parsed.counts]
               refused == [RequestNew EXCEPT !.pc = "parse_error"]
    <3>1. Become(r, IF parsed.reason = "none" THEN taken ELSE refused)
      BY <2>2 DEF Receive
    <3>2. Fresh(taken) /\ Fresh(refused)
      BY LocaleTypes, ParsedTypes, FreshRecords
    <3> HIDE DEF parsed, taken, refused
    <3> QED
      BY <3>1, <3>2
  <2> QED
    BY <2>1, <2>2
<1>4. PICK state : Fresh(state) /\ Become(r, state)
  BY <1>3
<1>5. /\ state \in Request /\ state.confirmed = <<>> /\ state.erred = {}
      /\ state.pc \in {"rejected", "parse_error", "shelter"}
      /\ state.todo \subseteq DOMAIN state.counts
  BY <1>4 DEF Fresh
<1>6. Good(r)'
  BY <1>1, <1>2, <1>4, <1>5, BecomeSets, Begins
<1> QED
  BY <1>1, <1>4, <1>5, <1>6, QuietStep

LEMMA MapKeeps ==
  ASSUME TypeOK, \A q \in Requests : Good(q), NEW r \in Requests, ResolveMap(r)
  PROVE  TypeOK' /\ \A q \in Requests : Good(q)'
<1> DEFINE state == [request[r] EXCEPT !.pc = "next", !.map = EffectiveMap,
                                       !.todo = DOMAIN request[r].counts]
<1>1. /\ UNCHANGED <<capacity, holds, snapshot, override, log, faults>>
      /\ request[r].pc = "map" /\ Become(r, state)
  BY DEF ResolveMap
<1>2. /\ request[r].confirmed = <<>> /\ request[r].erred = {} /\ log[r] = "none"
      /\ \A p \in Populations : snapshot[p].by # r
  BY <1>1, NothingYet DEF Good, Accounted, Sent
<1>3. request[r] \in Request
  BY DEF TypeOK
<1>4. DOMAIN request[r].counts \subseteq Buckets
  BY <1>3, PartialDef DEF Request
<1>5. /\ state \in Request /\ state.pc = "next" /\ state.counts = request[r].counts
      /\ state.todo = DOMAIN state.counts /\ state.confirmed = request[r].confirmed
      /\ state.erred = request[r].erred
  BY <1>3, <1>4, EffectiveTypes DEF Request, Running, Posting
<1> HIDE DEF state
<1>6. Good(r)'
  BY <1>1, <1>2, <1>5, BecomeSets, Begins
<1> QED
  BY <1>1, <1>5, <1>6, QuietStep

(* Steps that only move a request on, or take a bucket off its list. *)
LEMMA MoveKeeps ==
  ASSUME TypeOK, \A q \in Requests : Good(q), NEW r \in Requests,
         \/ GetShelter(r) \/ SkipBucket(r) \/ ReadCapacity(r)
         \/ BucketsDone(r) \/ ResolveNudges(r)
  PROVE  TypeOK' /\ \A q \in Requests : Good(q)'
<1>1. /\ request[r] \in Request /\ request[r].todo \subseteq DOMAIN request[r].counts
      /\ request[r].pc \in {"shelter", "next", "resolve"}
      /\ UNCHANGED <<capacity, holds, snapshot, override, log, faults>>
  BY DEF TypeOK, GetShelter, SkipBucket, ReadCapacity, BucketsDone, ResolveNudges
<1>2. Accounted(r)
  BY DEF Good
<1>3. ASSUME NEW state \in Request, Become(r, state),
             state.todo \subseteq request[r].todo,
             state.counts = request[r].counts, state.map = request[r].map,
             state.confirmed = request[r].confirmed, state.erred = request[r].erred,
             state.pc \in {"map", "rejected", "next", "patch", "resolve", "saved"},
             state.pc \in {"map", "rejected"} => request[r].confirmed = <<>>,
             state.pc = "map" => request[r].erred = {},
             state.pc \in {"resolve", "saved"} => request[r].confirmed # <<>>,
             state.pc = "patch" => state.todo # {} /\ First(state.todo) \in DOMAIN request[r].map
      PROVE  TypeOK' /\ \A q \in Requests : Good(q)'
  <2>1. request'[r] = state
    BY <1>3, BecomeSets
  <2>2. Good(r)'
    BY <1>1, <1>3, <2>1, GoesOn
  <2>3. state.todo \subseteq DOMAIN state.counts
    BY <1>1, <1>3
  <2> QED
    BY <1>1, <1>3, <2>2, <2>3, QuietStep
<1>4. {"map", "rejected", "next", "patch", "resolve", "saved"} \subseteq Running
  BY DEF Running, Posting
<1>5. CASE GetShelter(r)
  <2>1. PICK pc \in {"map", "rejected"} : Become(r, [request[r] EXCEPT !.pc = pc])
    BY <1>5 DEF GetShelter
  <2> DEFINE state == [request[r] EXCEPT !.pc = pc]
  <2>2. request[r].confirmed = <<>> /\ request[r].erred = {}
    BY <1>2, <1>5 DEF GetShelter, Accounted
  <2>3. /\ state \in Request /\ state.pc = pc /\ state.todo = request[r].todo
        /\ state.counts = request[r].counts /\ state.map = request[r].map
        /\ state.confirmed = request[r].confirmed /\ state.erred = request[r].erred
    BY <1>1, <1>4 DEF Request
  <2>4. Become(r, state)
    BY <2>1
  <2> HIDE DEF state
  <2> QED
    BY <1>3, <2>2, <2>3, <2>4
<1>6. CASE SkipBucket(r)
  <2> DEFINE todo == request[r].todo \ {Turn(r)}
             state == [request[r] EXCEPT !.todo = todo]
  <2>1. request[r].pc = "next" /\ Become(r, state)
    BY <1>6 DEF SkipBucket
  <2>2. todo \subseteq request[r].todo
    OBVIOUS
  <2> HIDE DEF todo
  <2>3. /\ state \in Request /\ state.pc = "next" /\ state.todo = todo
        /\ state.counts = request[r].counts /\ state.map = request[r].map
        /\ state.confirmed = request[r].confirmed /\ state.erred = request[r].erred
    BY <1>1, <2>1, <2>2 DEF Request
  <2> HIDE DEF state
  <2> QED
    BY <1>3, <2>1, <2>2, <2>3
<1>7. CASE ReadCapacity(r)
  <2> DEFINE p == request[r].map[Turn(r)]
             state == [request[r] EXCEPT !.pc = "patch", !.total = capacity[p]]
  <2>1. /\ request[r].pc = "next" /\ request[r].todo # {}
        /\ Turn(r) \in DOMAIN request[r].map /\ capacity[p] # NoCapacity
        /\ Become(r, state)
    BY <1>7 DEF ReadCapacity
  <2>2. p \in Populations
    BY <1>1, <2>1, PartialDef DEF Request
  <2>3. capacity[p] \in Nat
    BY <2>1, <2>2, WebhookAssumption DEF TypeOK
  <2> HIDE DEF p
  <2>4. /\ state \in Request /\ state.pc = "patch" /\ state.todo = request[r].todo
        /\ state.counts = request[r].counts /\ state.map = request[r].map
        /\ state.confirmed = request[r].confirmed /\ state.erred = request[r].erred
    BY <1>1, <1>4, <2>3 DEF Request
  <2> HIDE DEF state
  <2>5. First(state.todo) \in DOMAIN request[r].map
    BY <2>1, <2>4 DEF Turn
  <2> QED
    BY <1>3, <2>1, <2>4, <2>5
<1>8. CASE BucketsDone(r)
  <2> DEFINE pc == IF request[r].confirmed = <<>> THEN "rejected" ELSE "resolve"
             state == [request[r] EXCEPT !.pc = pc]
  <2>1. Become(r, state)
    BY <1>8 DEF BucketsDone
  <2>2. \/ pc = "rejected" /\ request[r].confirmed = <<>>
        \/ pc = "resolve" /\ request[r].confirmed # <<>>
    OBVIOUS
  <2> HIDE DEF pc
  <2>3. /\ state \in Request /\ state.pc = pc /\ state.todo = request[r].todo
        /\ state.counts = request[r].counts /\ state.map = request[r].map
        /\ state.confirmed = request[r].confirmed /\ state.erred = request[r].erred
    BY <1>1, <1>4, <2>2 DEF Request
  <2> HIDE DEF state
  <2> QED
    BY <1>3, <2>1, <2>2, <2>3
<1>9. CASE ResolveNudges(r)
  <2> DEFINE state == [request[r] EXCEPT !.pc = "saved"]
  <2>1. Become(r, state) /\ request[r].confirmed # <<>>
    BY <1>2, <1>9 DEF ResolveNudges, Accounted
  <2>2. /\ state \in Request /\ state.pc = "saved" /\ state.todo = request[r].todo
        /\ state.counts = request[r].counts /\ state.map = request[r].map
        /\ state.confirmed = request[r].confirmed /\ state.erred = request[r].erred
    BY <1>1, <1>4 DEF Request
  <2> HIDE DEF state
  <2> QED
    BY <1>3, <2>1, <2>2
<1> QED
  BY <1>5, <1>6, <1>7, <1>8, <1>9

(* The bucket a request PATCHes. *)
LEMMA PatchTarget ==
  ASSUME TypeOK, NEW r \in Requests, Good(r), request[r].pc = "patch"
  PROVE  /\ Turn(r) \in request[r].todo
         /\ Turn(r) \in DOMAIN request[r].map /\ Turn(r) \in DOMAIN request[r].counts
<1>1. request[r].todo \in SUBSET Buckets /\ request[r].todo \subseteq DOMAIN request[r].counts
  BY DEF TypeOK, Request
<1>2. request[r].todo # {} /\ Turn(r) \in DOMAIN request[r].map
  BY DEF Good, Accounted
<1> QED
  BY <1>1, <1>2, FirstIn DEF Turn

(* A PATCH that was answered, with the count FABT saved or with an error,  *)
(* and in that case FABT may have saved it or not.                         *)
LEMMA SentKeeps ==
  ASSUME TypeOK, \A q \in Requests : Good(q), NEW r \in Requests, request[r].pc = "patch",
         NEW state \in Request, Become(r, state), state.pc = "next",
         state.todo = request[r].todo \ {Turn(r)},
         state.counts = request[r].counts, state.map = request[r].map,
         UNCHANGED <<capacity, holds, override, log, faults>>,
         snapshot' = snapshot \/ snapshot' = Patched(r, Turn(r)),
         \/ /\ snapshot' = Patched(r, Turn(r))
            /\ Adds(state.confirmed, request[r].confirmed, Turn(r),
                    Available(snapshot'[request[r].map[Turn(r)]]))
            /\ state.erred = request[r].erred
         \/ /\ state.confirmed = request[r].confirmed
            /\ state.erred = request[r].erred \cup {Turn(r)}
  PROVE  TypeOK' /\ \A q \in Requests : Good(q)'
<1> DEFINE b == Turn(r)
           p == request[r].map[b]
<1>1. /\ b \in request[r].todo
      /\ b \in DOMAIN request[r].map /\ b \in DOMAIN request[r].counts
  BY PatchTarget
<1>2. request[r] \in Request /\ request[r].todo \subseteq DOMAIN request[r].counts
  BY DEF TypeOK
<1>3. p \in Populations
  BY <1>1, <1>2, PartialDef DEF Request
<1>4. /\ snapshot' \in [Populations -> Snapshot]
      /\ \A q \in Populations : snapshot'[q].occupied <= snapshot'[q].total
      /\ \A q \in Populations \ {p} : snapshot'[q] = snapshot[q]
      /\ \/ snapshot'[p] = snapshot[p]
         \/ snapshot'[p].by = r /\ Available(snapshot'[p]) <= request[r].counts[b]
  <2>1. CASE snapshot' = snapshot
    BY <2>1 DEF TypeOK
  <2>2. CASE snapshot' = Patched(r, b)
    BY <1>1, <2>2, PatchedShows DEF TypeOK
  <2> QED
    BY <2>1, <2>2
<1>5. /\ request'[r] = state /\ request' \in [Requests -> Request]
      /\ \A q \in Requests \ {r} : request'[q] = request[q]
  BY BecomeSets
<1>6. /\ Sent(r)' = Sent(r) \cup {b} /\ b \notin Sent(r)
      /\ request[r].todo \cap Sent(r) = {} /\ Sent(r) \subseteq DOMAIN request[r].map
      /\ log[r] = "none"
  BY <1>1, <1>5 DEF Sent, Adds, Good, Accounted
<1>7. \A q \in Populations :
        snapshot[q].by = r => \E c \in Sent(r) : request[r].map[c] = q
  BY DEF Good, Accounted
<1>8. ASSUME NEW c \in DOMAIN request[r].confirmed
      PROVE  c \in Sent(r) /\ (Alone(r, c) => Confirms(r, c))
  BY <1>8 DEF Good, Accounted, Sent
<1>9. /\ \/ state.confirmed = request[r].confirmed
         \/ /\ DOMAIN state.confirmed = DOMAIN request[r].confirmed \cup {b}
            /\ state.confirmed[b] = Available(snapshot'[p])
            /\ \A c \in DOMAIN request[r].confirmed \ {b} :
                 state.confirmed[c] = request[r].confirmed[c]
  BY DEF Adds
<1> HIDE DEF b, p
<1>10. TypeOK'
  <2>1. \A q \in Requests : request'[q].todo \subseteq DOMAIN request'[q].counts
    BY <1>2, <1>5 DEF TypeOK, b
  <2> QED
    BY <1>4, <1>5, <2>1 DEF TypeOK
<1>11. \A q \in Requests \ {r} : Good(q)'
  <2>1. \A q \in Requests \ {r} : \A t \in Populations :
          snapshot'[t] = snapshot[t] \/ snapshot'[t].by # q
    BY <1>4
  <2> QED
    BY <1>5, <2>1, OthersKept
<1>12. FromText(r)'
  <2>1. ASSUME NEW q \in Populations, snapshot'[q].by = r
        PROVE  \E c \in DOMAIN request'[r].counts :
                 /\ c \in DOMAIN request'[r].map /\ request'[r].map[c] = q
                 /\ Available(snapshot'[q]) <= request'[r].counts[c]
    <3>1. CASE snapshot'[q] = snapshot[q]
      BY <1>5, <2>1, <3>1 DEF Good, FromText
    <3>2. CASE snapshot'[q] # snapshot[q]
      BY <1>1, <1>4, <1>5, <3>2 DEF p
    <3> QED
      BY <3>1, <3>2
  <2> QED
    BY <2>1 DEF FromText
<1>13. ASSUME NEW q \in Populations, snapshot'[q].by = r
       PROVE  \E c \in Sent(r)' : request'[r].map[c] = q
  <2>1. CASE q = p
    BY <1>5, <1>6, <2>1 DEF p
  <2>2. CASE q # p
    BY <1>4, <1>5, <1>6, <1>7, <1>13, <2>2
  <2> QED
    BY <2>1, <2>2
<1>14. ASSUME NEW c \in DOMAIN state.confirmed, Alone(r, c)' PROVE Confirms(r, c)'
  <2>1. CASE c = b
    <3>1. state.confirmed[b] = Available(snapshot'[p])
      BY <1>6, <1>8, <1>9, <1>14, <2>1
    <3> QED
      BY <1>5, <2>1, <3>1 DEF Confirms, p
  <2>2. CASE c # b
    <3>1. /\ c \in DOMAIN request[r].confirmed
          /\ state.confirmed[c] = request[r].confirmed[c]
      BY <1>9, <1>14, <2>2
    <3>2. c \in DOMAIN request[r].map
      BY <1>6, <1>8, <3>1
    <3>3. request[r].map[c] \in Populations
      BY <1>2, <3>2, PartialDef DEF Request
    <3>4. request[r].map[c] # p /\ Alone(r, c)
      BY <1>5, <1>6, <1>14, <2>2 DEF Alone, p
    <3>5. Confirms(r, c)
      BY <1>8, <3>1, <3>4
    <3>6. snapshot'[request[r].map[c]] = snapshot[request[r].map[c]]
      BY <1>4, <3>3, <3>4
    <3> QED
      BY <1>5, <3>1, <3>5, <3>6 DEF Confirms
  <2> QED
    BY <2>1, <2>2
<1>15. Accounted(r)'
  <2>1. request'[r].todo \cap Sent(r)' = {} /\ Sent(r)' \subseteq DOMAIN request'[r].map
    BY <1>1, <1>5, <1>6 DEF b
  <2> QED
    BY <1>5, <1>6, <1>13, <1>14, <2>1 DEF Accounted
<1> QED
  BY <1>10, <1>11, <1>12, <1>15 DEF Good

LEMMA PatchKeeps ==
  ASSUME TypeOK, \A q \in Requests : Good(q), NEW r \in Requests, PatchSaved(r)
  PROVE  TypeOK' /\ \A q \in Requests : Good(q)'
<1> DEFINE b == Turn(r)
           shown == Available(Patched(r, b)[request[r].map[b]])
           conf == With(request[r].confirmed, b, shown)
           state == [request[r] EXCEPT !.pc = "next", !.todo = request[r].todo \ {b},
                       !.confirmed = conf]
<1>1. /\ request[r].pc = "patch" /\ snapshot' = Patched(r, b) /\ Become(r, state)
      /\ UNCHANGED <<capacity, holds, override, log, faults>>
  BY DEF PatchSaved
<1>2. b \in DOMAIN request[r].map /\ b \in DOMAIN request[r].counts
  BY <1>1, PatchTarget
<1>3. shown \in -MaxHolds .. MaxCount
  BY <1>2, PatchedShows
<1>4. /\ request[r] \in Request /\ request[r].todo \subseteq DOMAIN request[r].counts
      /\ request[r].confirmed \in Partial(-MaxHolds .. MaxCount)
      /\ b \in Buckets
  <2>1. request[r] \in Request /\ request[r].todo \subseteq DOMAIN request[r].counts
    BY DEF TypeOK
  <2> QED
    BY <1>2, <2>1, PartialDef DEF Request
<1> HIDE DEF shown
<1>5. conf \in Partial(-MaxHolds .. MaxCount) /\ Adds(conf, request[r].confirmed, b, shown)
  BY <1>3, <1>4, WithAdds
<1> HIDE DEF conf, b
<1>6. /\ state \in Request /\ state.pc = "next" /\ state.todo = request[r].todo \ {b}
      /\ state.counts = request[r].counts /\ state.map = request[r].map
      /\ state.confirmed = conf /\ state.erred = request[r].erred
  BY <1>4, <1>5 DEF Request, Running, Posting
<1> HIDE DEF state
<1>7. Adds(state.confirmed, request[r].confirmed, Turn(r),
           Available(snapshot'[request[r].map[Turn(r)]]))
  BY <1>1, <1>5, <1>6 DEF b, shown
<1> QED
  BY <1>1, <1>6, <1>7, SentKeeps DEF b

LEMMA ErredKeeps ==
  ASSUME TypeOK, \A q \in Requests : Good(q), NEW r \in Requests, PatchRefused(r)
  PROVE  TypeOK' /\ \A q \in Requests : Good(q)'
<1> DEFINE b == Turn(r)
           state == [request[r] EXCEPT !.pc = "next", !.todo = request[r].todo \ {b},
                       !.erred = request[r].erred \cup {b}]
<1>1. /\ request[r].pc = "patch" /\ Become(r, state)
      /\ snapshot' = snapshot \/ snapshot' = Patched(r, b)
      /\ UNCHANGED <<capacity, holds, override, log, faults>>
  BY DEF PatchRefused
<1>2. request[r] \in Request /\ b \in request[r].todo
  BY <1>1, PatchTarget DEF TypeOK
<1> HIDE DEF b
<1>3. /\ state \in Request /\ state.pc = "next" /\ state.todo = request[r].todo \ {b}
      /\ state.counts = request[r].counts /\ state.map = request[r].map
      /\ state.confirmed = request[r].confirmed /\ state.erred = request[r].erred \cup {b}
  BY <1>2 DEF Request, Running, Posting
<1> HIDE DEF state
<1> QED
  BY <1>1, <1>3, SentKeeps DEF b

(* A request that ends by an exception owes nothing more, whether FABT has *)
(* its last PATCH or not.                                                  *)
LEMMA RaiseKeeps ==
  ASSUME TypeOK, \A q \in Requests : Good(q), NEW r \in Requests, Raise(r)
  PROVE  TypeOK' /\ \A q \in Requests : Good(q)'
<1> DEFINE b == Turn(r)
           p == request[r].map[b]
           state == [RequestNew EXCEPT !.pc = "failed", !.counts = request[r].counts,
                                       !.map = request[r].map]
<1>1. /\ request[r].pc \in Running /\ Become(r, state)
      /\ UNCHANGED <<capacity, holds, override, log>>
      /\ faults < MaxFaults /\ faults' = faults + 1
      /\ snapshot' = snapshot \/ (request[r].pc = "patch" /\ snapshot' = Patched(r, b))
  BY DEF Raise
<1>2. request[r] \in Request /\ request[r].todo \subseteq DOMAIN request[r].counts
  BY DEF TypeOK
<1>3. /\ state \in Request /\ state.pc = "failed" /\ state.todo = {}
      /\ state.counts = request[r].counts /\ state.map = request[r].map
      /\ state.confirmed = <<>> /\ state.erred = {}
  BY <1>2, NothingYet DEF Request, RequestNew
<1> HIDE DEF state, b, p
<1>4. /\ request'[r] = state /\ request' \in [Requests -> Request]
      /\ \A q \in Requests \ {r} : request'[q] = request[q]
  BY <1>1, <1>3, BecomeSets
<1>5. snapshot' # snapshot =>
        /\ b \in DOMAIN request[r].map /\ b \in DOMAIN request[r].counts
        /\ p \in Populations /\ snapshot' \in [Populations -> Snapshot]
        /\ \A q \in Populations \ {p} : snapshot'[q] = snapshot[q]
        /\ snapshot'[p].by = r
        /\ snapshot'[p].occupied <= snapshot'[p].total
        /\ Available(snapshot'[p]) <= request[r].counts[b]
  BY <1>1, PatchTarget, PatchedShows DEF b, p
<1>6. TypeOK'
  <2>1. /\ snapshot' \in [Populations -> Snapshot]
        /\ \A q \in Populations : snapshot'[q].occupied <= snapshot'[q].total
    BY <1>5 DEF TypeOK
  <2>2. \A q \in Requests : request'[q].todo \subseteq DOMAIN request'[q].counts
    BY <1>2, <1>3, <1>4 DEF TypeOK
  <2>3. faults' \in 0 .. MaxFaults
    BY <1>1, WebhookAssumption DEF TypeOK
  <2> QED
    BY <1>1, <1>4, <2>1, <2>2, <2>3 DEF TypeOK
<1>7. \A q \in Requests \ {r} : Good(q)'
  <2>1. \A q \in Requests \ {r} : \A t \in Populations :
          snapshot'[t] = snapshot[t] \/ snapshot'[t].by # q
    BY <1>5
  <2> QED
    BY <1>1, <1>4, <2>1, OthersKept
<1>8. FromText(r)'
  <2>1. ASSUME NEW q \in Populations, snapshot'[q].by = r
        PROVE  \E c \in DOMAIN request'[r].counts :
                 /\ c \in DOMAIN request'[r].map /\ request'[r].map[c] = q
                 /\ Available(snapshot'[q]) <= request'[r].counts[c]
    <3>1. CASE snapshot' # snapshot /\ q = p
      BY <1>3, <1>4, <1>5, <3>1 DEF p
    <3>2. CASE snapshot'[q] = snapshot[q]
      BY <1>3, <1>4, <2>1, <3>2 DEF Good, FromText
    <3> QED
      BY <1>5, <3>1, <3>2
  <2> QED
    BY <2>1 DEF FromText
<1>9. log[r] = "none"
  BY <1>1 DEF Good, Accounted, Running, Posting
<1>10. Accounted(r)'
  BY <1>1, <1>3, <1>4, <1>9, NothingYet DEF Accounted, Sent
<1> QED
  BY <1>6, <1>7, <1>8, <1>10 DEF Good

LEMMA ReplyKeeps ==
  ASSUME TypeOK, \A q \in Requests : Good(q), NEW r \in Requests, LogAndReply(r)
  PROVE  TypeOK' /\ \A q \in Requests : Good(q)'
<1> DEFINE state == [request[r] EXCEPT !.pc = "replied"]
<1>1. /\ request[r].pc \in {"rejected", "parse_error", "saved"} /\ Become(r, state)
      /\ log' = [log EXCEPT ![r] = request[r].pc]
      /\ UNCHANGED <<capacity, holds, snapshot, override, faults>>
  BY DEF LogAndReply
<1>2. request[r] \in Request /\ request[r].todo \subseteq DOMAIN request[r].counts
  BY DEF TypeOK
<1>3. /\ state \in Request /\ state.pc = "replied" /\ state.todo = request[r].todo
      /\ state.counts = request[r].counts /\ state.map = request[r].map
      /\ state.confirmed = request[r].confirmed /\ state.erred = request[r].erred
  BY <1>2 DEF Request
<1> HIDE DEF state
<1>4. /\ request'[r] = state /\ request' \in [Requests -> Request]
      /\ \A q \in Requests \ {r} : request'[q] = request[q]
  BY <1>1, <1>3, BecomeSets
<1>5. /\ log' \in [Requests -> {"none", "rejected", "parse_error", "saved"}]
      /\ log'[r] = request[r].pc /\ \A q \in Requests \ {r} : log'[q] = log[q]
  BY <1>1 DEF TypeOK
<1>6. TypeOK'
  <2>1. \A q \in Requests : request'[q].todo \subseteq DOMAIN request'[q].counts
    BY <1>2, <1>3, <1>4 DEF TypeOK
  <2> QED
    BY <1>1, <1>4, <1>5, <2>1 DEF TypeOK
<1>7. \A q \in Requests \ {r} : Good(q)'
  BY <1>1, <1>4, <1>5, OthersKept
<1>8. FromText(r)'
  BY <1>1, <1>3, <1>4 DEF Good, FromText
<1>9. /\ Sent(r)' = Sent(r)
      /\ \A b : (Alone(r, b)' <=> Alone(r, b)) /\ (Confirms(r, b)' <=> Confirms(r, b))
  BY <1>1, <1>3, <1>4 DEF Alone, Confirms, Sent
<1>10. Accounted(r)'
  BY <1>1, <1>3, <1>4, <1>5, <1>9 DEF Good, Accounted
<1> QED
  BY <1>6, <1>7, <1>8, <1>10 DEF Good

LEMMA WorldKeeps ==
  ASSUME TypeOK, \A q \in Requests : Good(q),
         \/ \E p \in Populations, n \in Beds \cup {NoCapacity} : ChangeCapacity(p, n)
         \/ \E p \in Holdable, n \in 0 .. MaxHolds : ChangeHolds(p, n)
         \/ \E p \in Populations, n \in 0 .. MaxCount : StaffSnapshot(p, n)
         \/ \E b \in Overridable, p \in Overrides : ChangeOverride(b, p)
         \/ UNCHANGED vars
  PROVE  TypeOK' /\ \A q \in Requests : Good(q)'
<1>1. ASSUME UNCHANGED <<request, log>>,
             \A p \in Populations : snapshot'[p] = snapshot[p] \/ snapshot'[p].by = "staff"
      PROVE  \A q \in Requests : Good(q)'
  BY <1>1, OthersKept, WebhookAssumption
<1>2. ASSUME NEW p \in Populations, NEW n \in 0 .. MaxCount, StaffSnapshot(p, n)
      PROVE  TypeOK' /\ \A q \in Requests : Good(q)'
  <2> DEFINE s == [by |-> "staff", total |-> capacity[p], occupied |-> n, onHold |-> holds[p]]
  <2>1. /\ snapshot' = [snapshot EXCEPT ![p] = s] /\ n <= capacity[p]
        /\ capacity[p] # NoCapacity
        /\ UNCHANGED <<capacity, holds, override, request, log, faults>>
    BY <1>2 DEF StaffSnapshot
  <2>2. /\ capacity[p] \in Beds /\ Beds \subseteq Nat
        /\ holds[p] \in 0 .. MaxHolds
        /\ n \in Nat
    <3>1. capacity[p] \in Beds /\ holds[p] \in 0 .. MaxHolds
      BY <2>1 DEF TypeOK
    <3>2. n \in Nat
      BY SmsParserAssumption
    <3> QED
      BY <3>1, <3>2, WebhookAssumption
  <2>3. s \in Snapshot /\ s.by = "staff" /\ s.occupied <= s.total
    BY <2>1, <2>2 DEF Snapshot
  <2> HIDE DEF s
  <2>4. /\ snapshot' \in [Populations -> Snapshot] /\ snapshot'[p] = s
        /\ \A q \in Populations \ {p} : snapshot'[q] = snapshot[q]
    BY <2>1, <2>3 DEF TypeOK
  <2>5. TypeOK'
    BY <2>1, <2>3, <2>4 DEF TypeOK
  <2> QED
    BY <1>1, <2>1, <2>3, <2>4, <2>5
<1>3. ASSUME NEW p \in Populations, NEW n \in Beds \cup {NoCapacity}, ChangeCapacity(p, n)
      PROVE  TypeOK' /\ \A q \in Requests : Good(q)'
  <2>1. TypeOK'
    BY <1>3 DEF ChangeCapacity, TypeOK
  <2> QED
    BY <1>1, <1>3, <2>1 DEF ChangeCapacity
<1>4. ASSUME NEW p \in Holdable, NEW n \in 0 .. MaxHolds, ChangeHolds(p, n)
      PROVE  TypeOK' /\ \A q \in Requests : Good(q)'
  <2>1. TypeOK'
    BY <1>4, WebhookAssumption DEF ChangeHolds, TypeOK
  <2> QED
    BY <1>1, <1>4, <2>1 DEF ChangeHolds
<1>5. ASSUME NEW b \in Overridable, NEW p \in Overrides, ChangeOverride(b, p)
      PROVE  TypeOK' /\ \A q \in Requests : Good(q)'
  <2>1. TypeOK'
    BY <1>5, WebhookAssumption DEF ChangeOverride, TypeOK
  <2> QED
    BY <1>1, <1>5, <2>1 DEF ChangeOverride
<1>6. CASE UNCHANGED vars
  <2>1. TypeOK'
    BY <1>6 DEF vars, TypeOK
  <2> QED
    BY <1>1, <1>6, <2>1 DEF vars
<1> QED
  BY <1>2, <1>3, <1>4, <1>5, <1>6

-----------------------------------------------------------------------------
LEMMA InvGood == IInv <=> TypeOK /\ \A q \in Requests : Good(q)
  BY DEF IInv, SnapshotFromText, Good, FromText

LEMMA InvInit == Init => IInv
<1> SUFFICES ASSUME Init PROVE IInv
  OBVIOUS
<1>1. \A r \in Requests : request[r] = RequestNew /\ log[r] = "none"
  BY DEF Init
<1>2. /\ RequestNew \in Request /\ RequestNew.pc = "new" /\ RequestNew.todo = {}
      /\ RequestNew.confirmed = <<>> /\ RequestNew.erred = {}
  BY NothingYet DEF RequestNew, Request
<1>3. \A p \in Populations : snapshot[p].by = "staff" /\ snapshot[p].occupied <= snapshot[p].total
  BY DEF Init
<1>4. snapshot \in [Populations -> Snapshot]
  BY WebhookAssumption DEF Init, Snapshot
<1>5. request \in [Requests -> Request]
  BY <1>1, <1>2 DEF Init
<1>6. TypeOK
  BY <1>1, <1>2, <1>3, <1>4, <1>5, WebhookAssumption DEF Init, TypeOK
<1>7. \A r \in Requests : Accounted(r) /\ FromText(r)
  BY <1>1, <1>2, <1>3, NothingYet, WebhookAssumption DEF Accounted, FromText, Sent
<1> QED
  BY <1>6, <1>7, InvGood DEF Good

LEMMA InvNext == IInv /\ [Next]_vars => IInv'
<1> SUFFICES ASSUME TypeOK, \A q \in Requests : Good(q), [Next]_vars
             PROVE  TypeOK' /\ \A q \in Requests : Good(q)'
  BY DEF IInv, SnapshotFromText, Good, FromText
<1>1. ASSUME NEW r \in Requests, RequestStep(r)
      PROVE  TypeOK' /\ \A q \in Requests : Good(q)'
  BY <1>1, ReceiveKeeps, MapKeeps, MoveKeeps, PatchKeeps, ErredKeeps, RaiseKeeps, ReplyKeeps
  DEF RequestStep
<1> QED
  BY <1>1, WorldKeeps DEF Next

(* Every request is accounted for, and every count of a text is as the     *)
(* text has it.                                                            *)
THEOREM Invariance == Spec => []IInv
BY InvInit, InvNext, PTL DEF Spec

(* FABT is never sent fewer than no or more than all beds occupied,        *)
(* whatever capacities, holds and texts there are                          *)
(* (fabt_client.py:252-274).                                               *)
THEOREM TypeCorrect == Spec => []TypeOK
<1>1. IInv => TypeOK
  BY DEF IInv
<1> QED
  BY <1>1, Invariance, PTL

(* No count on FABT's record from a text shows more free beds than that    *)
(* text says for the bucket it came from, however many texts, staff and    *)
(* administrators interleave with the capacity read and the PATCH.         *)
THEOREM NeverInflated == Spec => []SnapshotFromText
<1>1. IInv => SnapshotFromText
  BY DEF IInv
<1> QED
  BY <1>1, Invariance, PTL

(* Whatever of an answered text is on FABT's record was confirmed, or FABT *)
(* answered that PATCH with an error; of a text logged as rejected or not  *)
(* understood only the latter (webhook.py:171-205).                        *)
THEOREM TellsUnlessErred == Spec => []ToldUnlessErred
<1>1. ASSUME IInv, NEW r \in Requests, NEW p \in Populations,
             log[r] # "none", snapshot[p].by = r
      PROVE  \E b \in Sent(r) :
               request[r].map[b] = p /\ (log[r] = "saved" \/ b \in request[r].erred)
  <2>1. Accounted(r) /\ log[r] \in {"none", "rejected", "parse_error", "saved"}
    BY <1>1 DEF IInv, TypeOK
  <2>2. request[r].pc = "replied"
    BY <1>1, <2>1 DEF Accounted
  <2>3. PICK b \in Sent(r) : request[r].map[b] = p
    BY <1>1, <2>1, <2>2 DEF Accounted
  <2>4. log[r] # "saved" => request[r].confirmed = <<>>
    BY <1>1, <2>1 DEF Accounted
  <2> QED
    BY <2>3, <2>4, NothingYet DEF Sent
<1>2. IInv => ToldUnlessErred
  BY <1>1 DEF ToldUnlessErred
<1> QED
  BY <1>2, Invariance, PTL

(* Every number of a confirmation is what FABT shows until somebody saves  *)
(* another, where no other bucket of the text was sent to that population, *)
(* with success or not (webhook.py:171-188).                               *)
THEOREM Confirmations == Spec => []ConfirmedIsSaved
<1>1. ASSUME IInv, NEW r \in Requests, log[r] = "saved"
      PROVE  /\ request[r].confirmed # <<>>
             /\ \A b \in DOMAIN request[r].confirmed : Alone(r, b) => Confirms(r, b)
  <2>1. Accounted(r)
    BY <1>1 DEF IInv
  <2>2. request[r].pc = "replied"
    BY <1>1, <2>1 DEF Accounted
  <2> QED
    BY <1>1, <2>1, <2>2 DEF Accounted
<1>2. IInv => ConfirmedIsSaved
  BY <1>1 DEF ConfirmedIsSaved
<1> QED
  BY <1>2, Invariance, PTL
=============================================================================
