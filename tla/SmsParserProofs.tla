--------------------------- MODULE SmsParserProofs ---------------------------
(***************************************************************************)
(* What parse_sms returns for every message, numbers and limit: lemmas for *)
(* the proofs about the modules that use it.                               *)
(***************************************************************************)
EXTENDS SmsParser, TLAPS

LEMMA BucketsOrdered ==
  /\ DOMAIN TableOrder = 1 .. 3
  /\ \A b \in Buckets : \E i \in DOMAIN TableOrder : TableOrder[i] = b
  /\ \A i \in DOMAIN TableOrder : TableOrder[i] \in Buckets
  BY DEF TableOrder, Buckets

(* What a table reads a number for; nothing in an empty message. *)
LEMMA FoundTypes ==
  ASSUME NEW text, NEW table
  PROVE  /\ Found(text, table) \subseteq Buckets
         /\ text = <<>> => Found(text, table) = {}
  BY DEF Found, Readings

Spoilt(text, table) ==
  \E b \in Found(text, table) : Search(text, table[b]) \notin 0 .. MaxCount

(* A message is taken with the numbers read for all that is found, or not  *)
(* at all if one of them is out of range.                                  *)
LEMMA MatchAllOrNone ==
  ASSUME NEW text, NEW table
  PROVE  /\ ~Spoilt(text, table) =>
              MatchTable(text, table)
                = Accepted([b \in Found(text, table) |-> Search(text, table[b])])
         /\ Spoilt(text, table) =>
              \/ MatchTable(text, table) = Error("negative_count")
              \/ MatchTable(text, table) = Error("out_of_range")
<1> DEFINE counts == [b \in Found(text, table) |-> Search(text, table[b])]
           bad == {i \in DOMAIN TableOrder : /\ TableOrder[i] \in DOMAIN counts
                                             /\ counts[TableOrder[i]] \notin 0 .. MaxCount}
<1>1. bad = {} <=> ~Spoilt(text, table)
  <2>1. ASSUME NEW i \in bad PROVE Spoilt(text, table)
    BY DEF Spoilt
  <2>2. ASSUME NEW b \in Found(text, table), Search(text, table[b]) \notin 0 .. MaxCount
        PROVE  bad # {}
    <3>1. PICK i \in DOMAIN TableOrder : TableOrder[i] = b
      BY BucketsOrdered, FoundTypes
    <3>2. i \in bad
      BY <2>2, <3>1
    <3> QED
      BY <3>2
  <2> QED
    BY <2>1, <2>2 DEF Spoilt
<1>2. bad = {} => MatchTable(text, table) = Accepted(counts)
  BY DEF MatchTable
<1>3. bad # {} => \/ MatchTable(text, table) = Error("negative_count")
                  \/ MatchTable(text, table) = Error("out_of_range")
  BY DEF MatchTable
<1> QED
  BY <1>1, <1>2, <1>3

(* Of the two tables a message is tried with, the one that counts: English *)
(* only if the coordinator's own reads nothing.                            *)
InUse(text, locale) == IF Found(text, Tables[locale]) = {} THEN EN ELSE Tables[locale]

LEMMA EmptyCounts ==
  ASSUME NEW bs, NEW f, DOMAIN f = bs, Accepted(f) = Accepted(<<>>)
  PROVE  bs = {}
<1>1. f = <<>>
  BY DEF Accepted
<1> QED
  BY <1>1

LEMMA NothingFound ==
  ASSUME NEW text, NEW table
  PROVE  MatchTable(text, table) = Accepted(<<>>) <=> Found(text, table) = {}
<1> DEFINE counts == [b \in Found(text, table) |-> Search(text, table[b])]
<1>1. CASE Spoilt(text, table)
  BY <1>1, MatchAllOrNone DEF Accepted, Error, Spoilt
<1>2. CASE ~Spoilt(text, table)
  <2>1. MatchTable(text, table) = Accepted(counts)
    BY <1>2, MatchAllOrNone
  <2>2. DOMAIN counts = Found(text, table)
    OBVIOUS
  <2>3. Found(text, table) = {} => counts \in [{} -> {}]
    OBVIOUS
  <2>4. \A f \in [{} -> {}] : f = <<>>
    OBVIOUS
  <2> HIDE DEF counts
  <2>5. Found(text, table) = {} => counts = <<>>
    BY <2>3, <2>4
  <2>6. Accepted(counts) = Accepted(<<>>) => Found(text, table) = {}
    BY <2>2, EmptyCounts
  <2> QED
    BY <2>1, <2>5, <2>6
<1> QED
  BY <1>1, <1>2

LEMMA ParseUses ==
  ASSUME NEW text, NEW locale \in Locales
  PROVE  /\ Found(text, InUse(text, locale)) # {} =>
              ParseSms(text, locale) = MatchTable(text, InUse(text, locale))
         /\ Found(text, InUse(text, locale)) = {} =>
              \/ ParseSms(text, locale) = Error("empty")
              \/ ParseSms(text, locale) = Error("unrecognized_format")
<1> DEFINE own == MatchTable(text, Tables[locale])
           parsed == IF own = Accepted(<<>>) /\ locale # "en"
                     THEN MatchTable(text, EN) ELSE own
           table == InUse(text, locale)
<1>1. own = Accepted(<<>>) <=> Found(text, Tables[locale]) = {}
  BY NothingFound
<1>2. locale = "en" => Tables[locale] = EN
  BY DEF Tables
<1>3. parsed = MatchTable(text, table)
  BY <1>1, <1>2 DEF InUse
<1>4. parsed = Accepted(<<>>) <=> Found(text, table) = {}
  BY <1>3, NothingFound
<1>5. text = <<>> => Found(text, table) = {}
  BY FoundTypes
<1>6. ParseSms(text, locale) = CASE text = <<>> -> Error("empty")
        [] text # <<>> /\ parsed = Accepted(<<>>) -> Error("unrecognized_format")
        [] OTHER -> parsed
  BY DEF ParseSms
<1> HIDE DEF parsed, table
<1>7. Found(text, table) # {} => ParseSms(text, locale) = parsed
  BY <1>4, <1>5, <1>6
<1>8. Found(text, table) = {} => \/ ParseSms(text, locale) = Error("empty")
                                 \/ ParseSms(text, locale) = Error("unrecognized_format")
  BY <1>4, <1>6
<1> QED
  BY <1>3, <1>7, <1>8 DEF table

(* The two outcomes of parse_sms.                                          *)
LEMMA ParseOutcomes ==
  ASSUME NEW text, NEW locale \in Locales
  PROVE  LET table == InUse(text, locale)
             found == Found(text, table)
             result == ParseSms(text, locale)
         IN \/ /\ found # {} /\ ~Spoilt(text, table)
               /\ result.reason = "none"
               /\ result.counts = [b \in found |-> Search(text, table[b])]
               /\ result.counts \in [found -> 0 .. MaxCount]
            \/ /\ found # {} /\ Spoilt(text, table)
               /\ result.reason \in {"negative_count", "out_of_range"}
               /\ result.counts = <<>>
            \/ /\ found = {}
               /\ result.reason \in {"empty", "unrecognized_format"}
               /\ result.counts = <<>>
<1> DEFINE table == InUse(text, locale)
           found == Found(text, table)
           result == ParseSms(text, locale)
           counts == [b \in found |-> Search(text, table[b])]
<1>1. CASE found = {}
  <2>1. result = Error("empty") \/ result = Error("unrecognized_format")
    BY <1>1, ParseUses
  <2> HIDE DEF result
  <2>2. result.reason \in {"empty", "unrecognized_format"} /\ result.counts = <<>>
    BY <2>1 DEF Error
  <2> QED
    BY <1>1, <2>2 DEF result
<1>2. CASE found # {} /\ Spoilt(text, table)
  <2>1. result = Error("negative_count") \/ result = Error("out_of_range")
    BY <1>2, ParseUses, MatchAllOrNone
  <2> HIDE DEF result
  <2>2. result.reason \in {"negative_count", "out_of_range"} /\ result.counts = <<>>
    BY <2>1 DEF Error
  <2> QED
    BY <1>2, <2>2 DEF result
<1>3. CASE found # {} /\ ~Spoilt(text, table)
  <2>1. result = Accepted(counts)
    BY <1>3, ParseUses, MatchAllOrNone
  <2>2. \A b \in found : Search(text, table[b]) \in 0 .. MaxCount
    BY <1>3 DEF Spoilt
  <2>3. counts \in [found -> 0 .. MaxCount]
    BY <2>2
  <2> HIDE DEF result, counts
  <2>4. result.reason = "none" /\ result.counts = counts
    BY <2>1 DEF Accepted
  <2> QED
    BY <1>3, <2>3, <2>4 DEF result, counts
<1> QED
  BY <1>1, <1>2, <1>3
=============================================================================
