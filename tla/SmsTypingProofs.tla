--------------------------- MODULE SmsTypingProofs ---------------------------
(***************************************************************************)
(* Proofs about parse_sms over every message a coordinator may type, for   *)
(* any vocabulary, numbers, limit and length.                              *)
(***************************************************************************)
EXTENDS SmsTyping, SmsParserProofs, WellFoundedInduction

-----------------------------------------------------------------------------
(* The first reading, and what a longer message does to it. *)

LEMMA LeastExists ==
  ASSUME NEW S \in SUBSET Nat, S # {}
  PROVE  \E m \in S : \A j \in S : m <= j
<1>1. PICK m \in S : \A j \in S : <<j, m>> \notin OpToRel(<, Nat)
  BY NatLessThanWellFounded, WFMin, Zenon
<1>2. \A i, j \in Nat : i < j => <<i, j>> \in OpToRel(<, Nat)
  BY Zenon DEF OpToRel
<1>3. \A j \in S : ~(j < m)
  BY <1>1, <1>2
<1> QED
  BY <1>3

LeastOf(S) == CHOOSE i \in S : \A j \in S : i <= j

LEMMA LeastIs ==
  ASSUME NEW S \in SUBSET Nat, NEW m \in S, \A j \in S : m <= j
  PROVE  LeastOf(S) = m
<1> DEFINE least == CHOOSE i \in S : \A j \in S : i <= j
<1>1. least \in S /\ \A j \in S : least <= j
  OBVIOUS
<1> HIDE DEF least
<1>2. least = m
  BY <1>1
<1> QED
  BY <1>2 DEF least, LeastOf

LEMMA SearchFirst ==
  ASSUME NEW text, NEW words
  PROVE  Search(text, words) = text[1 + LeastOf(Readings(text, words))].value
  BY DEF Search, LeastOf

(* One more word leaves every reading and adds none before the last one.   *)
LEMMA Longer ==
  ASSUME NEW text \in Seq(Vocabulary), NEW w \in Vocabulary, NEW words
  PROVE  LET longer == Append(text, w)
         IN /\ Readings(text, words) \subseteq Readings(longer, words)
            /\ Readings(text, words) # {} => Search(longer, words) = Search(text, words)
<1> DEFINE longer == Append(text, w)
           S == Readings(text, words)
           R == Readings(longer, words)
<1>1. /\ Len(text) \in Nat /\ Len(longer) = Len(text) + 1
      /\ \A i \in 1 .. Len(text) : longer[i] = text[i]
  OBVIOUS
<1> HIDE DEF longer
<1>2. \A i \in 1 .. Len(text) - 1 : i \in S <=> i \in R
  BY <1>1 DEF Readings
<1>3. S \subseteq 1 .. Len(text) - 1 /\ R \subseteq 1 .. Len(text)
  BY <1>1 DEF Readings
<1> HIDE DEF S, R
<1>4. S \subseteq R
  BY <1>2, <1>3
<1>5. ASSUME S # {} PROVE Search(longer, words) = Search(text, words)
  <2>1. S \in SUBSET Nat /\ R \in SUBSET Nat
    BY <1>1, <1>3
  <2>2. PICK m \in S : \A j \in S : m <= j
    BY <1>5, <2>1, LeastExists
  <2>3. \A j \in R : m <= j
    BY <1>1, <1>2, <1>3, <2>2
  <2>4. LeastOf(S) = m /\ LeastOf(R) = m
    BY <1>4, <2>1, <2>2, <2>3, LeastIs
  <2>5. longer[1 + m] = text[1 + m]
    BY <1>1, <1>3, <2>2
  <2> QED
    BY <2>4, <2>5, SearchFirst DEF S, R
<1> QED
  BY <1>4, <1>5 DEF S, R, longer

LEMMA LongerFinds ==
  ASSUME NEW text \in Seq(Vocabulary), NEW w \in Vocabulary, NEW table
  PROVE  /\ Found(text, table) \subseteq Found(Append(text, w), table)
         /\ \A b \in Found(text, table) :
              Search(Append(text, w), table[b]) = Search(text, table[b])
  BY Longer DEF Found

-----------------------------------------------------------------------------
(* What is typed is a message, and parse_sms gives one of its outcomes.    *)
LEMMA Typed == Spec => [](locale \in Locales /\ message \in Seq(Vocabulary))
<1> DEFINE Inv == locale \in Locales /\ message \in Seq(Vocabulary)
<1>1. Init => Inv
  BY DEF Init
<1>2. Inv /\ [Next]_vars => Inv'
  BY DEF Next, Type, vars
<1> HIDE DEF Inv
<1>3. Spec => []Inv
  BY <1>1, <1>2, PTL DEF Spec
<1> QED
  BY <1>3 DEF Inv

(* Every message is accepted with a count in range for at least one bucket *)
(* or refused with none (parser.py:118-150).                               *)
THEOREM TypeCorrect == Spec => []TypeOK
<1>1. ASSUME locale \in Locales, message \in Seq(Vocabulary) PROVE TypeOK
  <2> DEFINE found == Found(message, InUse(message, locale))
  <2>1. \/ found # {} /\ IsAccepted(Parsed) /\ Parsed.counts \in [found -> 0 .. MaxCount]
        \/ ~IsAccepted(Parsed) /\ Parsed.counts = <<>>
    BY <1>1, ParseOutcomes DEF Parsed, IsAccepted
  <2>2. found \in SUBSET Buckets
    BY FoundTypes
  <2> HIDE DEF found
  <2>3. CASE IsAccepted(Parsed)
    <3>1. found \in (SUBSET Buckets) \ {{}} /\ Parsed.counts \in [found -> 0 .. MaxCount]
      BY <2>1, <2>2, <2>3
    <3>2. \E bs \in (SUBSET Buckets) \ {{}} : Parsed.counts \in [bs -> 0 .. MaxCount]
      BY <3>1
    <3> QED
      BY <1>1, <2>3, <3>2 DEF TypeOK
  <2>4. CASE ~IsAccepted(Parsed)
    BY <1>1, <2>1, <2>4 DEF TypeOK
  <2> QED
    BY <2>3, <2>4
<1> QED
  BY <1>1, Typed, PTL

(* No bucket with a number of its own is left out of an accepted message.  *)
THEOREM WholeOrNothing == Spec => []NothingDropped
<1>1. ASSUME locale \in Locales PROVE NothingDropped
  <2> DEFINE found == Found(message, InUse(message, locale))
  <2>1. IsAccepted(Parsed) => Parsed.counts \in [found -> 0 .. MaxCount]
    BY <1>1, ParseOutcomes DEF Parsed, IsAccepted
  <2>2. IsAccepted(Parsed) => DOMAIN Parsed.counts = found
    BY <2>1
  <2> QED
    BY <2>2 DEF NothingDropped, InUse
<1> QED
  BY <1>1, Typed, PTL

(* Within a locale no keyword stands for two buckets. *)
LEMMA TablesDisjoint ==
  ASSUME NEW l \in Locales, NEW a \in Buckets, NEW b \in Buckets, a # b
  PROVE  Tables[l][a] \cap Tables[l][b] = {}
<1>1. CASE l = "en"
  BY <1>1 DEF Tables, EN, Buckets
<1>2. CASE l = "es"
  BY <1>2 DEF Tables, ES, Buckets
<1>3. CASE l = "vi"
  <2>1. /\ VI["women"] \cap VI["men"] = {}
        /\ VI["women"] \cap VI["family"] = {}
        /\ VI["men"] \cap VI["family"] = {}
    BY DEF VI
  <2>2. Tables[l] = VI
    BY <1>3 DEF Tables
  <2> QED
    BY <2>1, <2>2 DEF Buckets
<1> QED
  BY <1>1, <1>2, <1>3 DEF Locales

(* One number is never the count of two buckets. *)
THEOREM NumbersApart == Spec => []OneNumberOneBucket
<1>1. ASSUME locale \in Locales PROVE OneNumberOneBucket
  <2> SUFFICES ASSUME NEW a \in Buckets, NEW b \in Buckets, a # b,
                      NEW i \in Readings(message, Tables[locale][a])
                                  \cap Readings(message, Tables[locale][b])
               PROVE  FALSE
    BY DEF OneNumberOneBucket
  <2>1. PICK j \in Tables[locale][a], k \in Tables[locale][b] :
          message[i] = Word(j) /\ message[i] = Word(k)
    BY DEF Readings
  <2>2. j = k
    BY <2>1 DEF Word
  <2> QED
    BY <1>1, <2>2, TablesDisjoint
<1> QED
  BY <1>1, Typed, PTL

(* More text never changes a count already read, and never makes a bad     *)
(* message good, once the coordinator's own table reads something          *)
(* (parser.py:118-150).                                                    *)
THEOREM ReadingsStand == Spec => FirstReadingStands
<1> DEFINE Stands ==
      Found(message, Tables[locale]) # {} =>
        LET after == ParseSms(message', locale)
        IN /\ IsBad(Parsed) => IsBad(after)
           /\ IsAccepted(Parsed) => \/ IsBad(after)
                                    \/ \A b \in DOMAIN Parsed.counts :
                                         /\ b \in DOMAIN after.counts
                                         /\ after.counts[b] = Parsed.counts[b]
<1>1. ASSUME locale \in Locales, message \in Seq(Vocabulary),
             NEW w \in Vocabulary, Type(w), Found(message, Tables[locale]) # {}
      PROVE  Stands
  <2> DEFINE table == Tables[locale]
             before == Found(message, table)
             longer == Append(message, w)
             now == Found(longer, table)
             after == ParseSms(longer, locale)
  <2>1. message' = longer
    BY <1>1 DEF Type
  <2>2. /\ before \subseteq now /\ before # {} /\ now # {}
        /\ \A b \in before : Search(longer, table[b]) = Search(message, table[b])
    BY <1>1, LongerFinds
  <2>3. InUse(message, locale) = table /\ InUse(longer, locale) = table
    BY <2>2 DEF InUse
  <2>4. \/ /\ ~Spoilt(message, table) /\ IsAccepted(Parsed) /\ ~IsBad(Parsed)
           /\ Parsed.counts = [b \in before |-> Search(message, table[b])]
        \/ Spoilt(message, table) /\ IsBad(Parsed) /\ ~IsAccepted(Parsed)
    BY <1>1, <2>2, <2>3, ParseOutcomes DEF Parsed, IsAccepted, IsBad
  <2>5. \/ after.counts = [b \in now |-> Search(longer, table[b])] /\ ~Spoilt(longer, table)
        \/ IsBad(after)
    BY <1>1, <2>2, <2>3, ParseOutcomes DEF IsBad
  <2>6. Spoilt(message, table) => Spoilt(longer, table)
    BY <2>2 DEF Spoilt
  <2> HIDE DEF table, longer, before, now, after
  <2>7. IsBad(Parsed) => IsBad(after)
    BY <2>4, <2>5, <2>6
  <2>8. IsAccepted(Parsed) =>
          \/ IsBad(after)
          \/ \A b \in DOMAIN Parsed.counts :
               b \in DOMAIN after.counts /\ after.counts[b] = Parsed.counts[b]
    BY <2>2, <2>4, <2>5
  <2> QED
    BY <2>1, <2>7, <2>8 DEF after
<1>2. ASSUME locale \in Locales, message \in Seq(Vocabulary), [Next]_vars
      PROVE  [Stands]_vars
  BY <1>1, <1>2 DEF Next
<1>3. Spec => [][Stands]_vars
  <2> HIDE DEF Stands
  <2> QED
    BY <1>2, Typed, PTL DEF Spec
<1> QED
  BY <1>3 DEF FirstReadingStands
-----------------------------------------------------------------------------
(* A reply as it is taught. *)

LEMMA SameMembers ==
  ASSUME NEW U, NEW A \in SUBSET U, NEW B \in SUBSET U, \A i \in U : i \in A <=> i \in B
  PROVE  A = B
  OBVIOUS

(* said is text with a keyword and a number after it, which are one more   *)
(* reading for whoever the keyword stands for.                             *)
OneMore(said, text, S, k, n, words) ==
  /\ said \in Seq(S) /\ said[Len(text) + 2] = Number(n)
  /\ IF k \in words
     THEN Readings(said, words) = Readings(text, words) \cup {Len(text) + 1}
     ELSE Readings(said, words) = Readings(text, words)
  /\ \A i \in Readings(text, words) : said[i + 1] = text[i + 1]

LEMMA PairRead ==
  ASSUME NEW S, NEW text \in Seq(S), NEW k, NEW n \in Numbers,
         Word(k) \in S, Number(n) \in S, NEW words
  PROVE  OneMore(text \o <<Word(k), Number(n)>>, text, S, k, n, words)
<1> DEFINE said == text \o <<Word(k), Number(n)>>
           L == Len(text)
           R(t) == Readings(t, words)
<1>1. /\ L \in Nat /\ said \in Seq(S) /\ Len(said) = L + 2
      /\ \A i \in 1 .. L : said[i] = text[i]
      /\ said[L + 1] = Word(k) /\ said[L + 2] = Number(n)
  OBVIOUS
<1> HIDE DEF said, L
<1>2. Word(k) \notin {Number(m) : m \in Numbers}
  BY DEF Word, Number
<1>3. Word(k) \in {Word(w) : w \in words} <=> k \in words
  BY DEF Word
<1>4. \A i \in 1 .. L - 1 : i \in R(said) <=> i \in R(text)
  BY <1>1 DEF Readings, L
<1>5. L \notin R(said)
  BY <1>1, <1>2 DEF Readings
<1>6. L + 1 \in R(said) <=> k \in words
  BY <1>1, <1>3 DEF Readings
<1>7. R(said) \subseteq 1 .. L + 1 /\ R(text) \subseteq 1 .. L - 1
  BY <1>1 DEF Readings, L
<1>8. \A i \in R(text) : said[i + 1] = text[i + 1]
  BY <1>1, <1>7
<1>9. R(said) = IF k \in words THEN R(text) \cup {L + 1} ELSE R(text)
  <2> DEFINE was == R(text)
             is == R(said)
  <2>1. L \in Nat /\ is \subseteq 1 .. L + 1 /\ was \subseteq 1 .. L - 1
    BY <1>1, <1>7
  <2>2. /\ \A i \in 1 .. L - 1 : i \in is <=> i \in was
        /\ L \notin is /\ (L + 1 \in is <=> k \in words)
    BY <1>4, <1>5, <1>6
  <2> HIDE DEF was, is
  <2>3. \A i \in 1 .. L + 1 : i \in is <=> i \in was \/ (i = L + 1 /\ k \in words)
    BY <2>1, <2>2
  <2>4. CASE k \in words
    <3>1. was \cup {L + 1} \subseteq 1 .. L + 1
      BY <2>1
    <3>2. is = was \cup {L + 1}
      BY <2>1, <2>3, <2>4, <3>1, SameMembers
    <3> QED
      BY <2>4, <3>2 DEF was, is
  <2>5. CASE k \notin words
    <3>1. was \subseteq 1 .. L + 1 /\ L + 1 \notin was
      BY <2>1
    <3>2. is = was
      BY <2>1, <2>3, <2>5, <3>1, SameMembers
    <3> QED
      BY <2>5, <3>2 DEF was, is
  <2> QED
    BY <2>4, <2>5
<1>10. OneMore(said, text, S, k, n, words)
  BY <1>1, <1>8, <1>9 DEF OneMore, L
<1> QED
  BY <1>10 DEF said

(* The table reads the number of each bucket of bs once, and no other.     *)
Reads(text, table, counts, bs) ==
  \A c \in Buckets :
    IF c \in bs
    THEN \E i \in Nat : Readings(text, table[c]) = {i} /\ text[i + 1] = Number(counts[c])
    ELSE Readings(text, table[c]) = {}

ReadsOf(text, S, table, counts, bs) == text \in Seq(S) /\ Reads(text, table, counts, bs)

LEMMA PartRead ==
  ASSUME NEW S, NEW text \in Seq(S), NEW table, NEW keywords, NEW counts,
         \A a, c \in Buckets : keywords[a] \in table[c] <=> a = c,
         \A a \in Buckets : Word(keywords[a]) \in S,
         \A a \in DOMAIN counts : counts[a] \in Numbers /\ Number(counts[a]) \in S,
         NEW done, NEW b \in Buckets \ done, Reads(text, table, counts, done)
  PROVE  ReadsOf(text \o Part(keywords, counts, b), S, table, counts,
                 done \cup ({b} \cap DOMAIN counts))
<1> DEFINE longer == text \o Part(keywords, counts, b)
<1>1. CASE b \notin DOMAIN counts
  <2>1. longer = text
    BY <1>1 DEF Part
  <2>2. done \cup ({b} \cap DOMAIN counts) = done
    BY <1>1
  <2> QED
    BY <2>1, <2>2 DEF ReadsOf
<1>2. CASE b \in DOMAIN counts
  <2> DEFINE n == counts[b]
             k == keywords[b]
  <2>1. longer = text \o <<Word(k), Number(n)>>
    BY <1>2 DEF Part
  <2>2. /\ n \in Numbers /\ Word(k) \in S /\ Number(n) \in S
        /\ \A c \in Buckets : k \in table[c] <=> c = b
    BY <1>2
  <2>3. done \cup ({b} \cap DOMAIN counts) = done \cup {b}
    BY <1>2
  <2> HIDE DEF n, k, longer
  <2>r. \A words : OneMore(longer, text, S, k, n, words)
    BY <2>1, <2>2, PairRead
  <2>4. longer \in Seq(S) /\ longer[Len(text) + 2] = Number(n)
    BY <2>r DEF OneMore
  <2>5. ASSUME NEW c \in Buckets
        PROVE  IF c \in done \cup {b}
               THEN \E i \in Nat : /\ Readings(longer, table[c]) = {i}
                                   /\ longer[i + 1] = Number(counts[c])
               ELSE Readings(longer, table[c]) = {}
    <3>1. CASE c = b
      <4>1. Readings(text, table[c]) = {}
        BY <3>1 DEF Reads
      <4>2. Readings(longer, table[c]) = {Len(text) + 1}
        BY <2>2, <2>r, <3>1, <4>1 DEF OneMore
      <4>3. Len(text) + 1 \in Nat /\ Len(text) + 1 + 1 = Len(text) + 2
        OBVIOUS
      <4> QED
        BY <2>4, <3>1, <4>2, <4>3 DEF n
    <3>2. CASE c # b
      <4>1. /\ Readings(longer, table[c]) = Readings(text, table[c])
            /\ \A i \in Readings(text, table[c]) : longer[i + 1] = text[i + 1]
        BY <2>2, <2>r, <3>2 DEF OneMore
      <4> QED
        BY <3>2, <4>1 DEF Reads
    <3> QED
      BY <3>1, <3>2
  <2> QED
    BY <2>3, <2>4, <2>5 DEF ReadsOf, Reads, longer
<1> QED
  BY <1>1, <1>2

(* What is read once in range is what is accepted. *)
LEMMA ReadIsAccepted ==
  ASSUME NEW text, NEW l \in Locales, NEW bs \in SUBSET Buckets, bs # {},
         NEW counts \in [bs -> 0 .. MaxCount], Reads(text, Tables[l], counts, bs)
  PROVE  ParseSms(text, l) = Accepted(counts)
<1> DEFINE table == Tables[l]
<1>1. Found(text, table) = bs
  BY DEF Reads, Found
<1>2. ASSUME NEW b \in bs PROVE Search(text, table[b]) = counts[b]
  <2>1. PICK i \in Nat : Readings(text, table[b]) = {i} /\ text[i + 1] = Number(counts[b])
    BY DEF Reads
  <2>2. LeastOf(Readings(text, table[b])) = i
    BY <2>1, LeastIs
  <2>3. Search(text, table[b]) = text[i + 1].value
    BY <2>2, SearchFirst
  <2> QED
    BY <2>1, <2>3 DEF Number
<1>3. ~Spoilt(text, table)
  BY <1>1, <1>2 DEF Spoilt
<1>4. [b \in Found(text, table) |-> Search(text, table[b])] = counts
  BY <1>1, <1>2
<1>5. InUse(text, l) = table
  BY <1>1 DEF InUse
<1> QED
  BY <1>1, <1>3, <1>4, <1>5, ParseUses, MatchAllOrNone

(* Every keyword the replies teach is its bucket's, and no other's.        *)
LEMMA TaughtKeywords ==
  ASSUME NEW l \in Locales, NEW keywords \in {HelpLetters[l], PopulationLabels[l]},
         NEW a \in Buckets, NEW c \in Buckets
  PROVE  keywords[a] \in Tables[l][c] <=> a = c
<1>1. CASE l = "en"
  BY <1>1 DEF Tables, EN, Buckets, HelpLetters, PopulationLabels
<1>2. CASE l = "es"
  BY <1>2 DEF Tables, ES, Buckets, HelpLetters, PopulationLabels
<1>3. CASE l = "vi"
  <2>1. Tables[l] = VI /\ (keywords = HelpLetters["vi"] \/ keywords = PopulationLabels["vi"])
    BY <1>3 DEF Tables
  <2>2. /\ VI["women"] = {"n", "nu", "phu nu"}
        /\ VI["men"] = {"d", "nam", "dan ong"}
        /\ VI["family"] = {"g", "gia dinh", "giadinh"}
    BY DEF VI
  <2>3. \/ keywords["women"] = "n" /\ keywords["men"] = "d" /\ keywords["family"] = "g"
        \/ /\ keywords["women"] = "nu" /\ keywords["men"] = "nam"
           /\ keywords["family"] = "gia dinh"
    <3>1. CASE keywords = HelpLetters["vi"]
      BY <3>1 DEF HelpLetters
    <3>2. CASE keywords = PopulationLabels["vi"]
      BY <3>2 DEF PopulationLabels
    <3> QED
      BY <2>1, <3>1, <3>2
  <2>4. CASE a = "women"
    BY <2>2, <2>3, <2>4, <2>1 DEF Buckets
  <2>5. CASE a = "men"
    BY <2>2, <2>3, <2>5, <2>1 DEF Buckets
  <2>6. CASE a = "family"
    BY <2>2, <2>3, <2>6, <2>1 DEF Buckets
  <2> QED
    BY <2>4, <2>5, <2>6 DEF Buckets
<1> QED
  BY <1>1, <1>2, <1>3 DEF Locales

(* A reply behind a text is its parts behind the text, one by one. *)
Regrouped(m, p, q, r) == m \o (p \o q \o r) = ((m \o p) \o q) \o r

LEMMA Regroups ==
  ASSUME NEW S, NEW m \in Seq(S), NEW p \in Seq(S), NEW q \in Seq(S), NEW r \in Seq(S)
  PROVE  Regrouped(m, p, q, r)
<1> DEFINE pq == p \o q
<1>1. pq \in Seq(S)
  OBVIOUS
<1>2. m \o pq = (m \o p) \o q
  OBVIOUS
<1> HIDE DEF pq
<1>3. m \o (pq \o r) = (m \o pq) \o r
  BY <1>1
<1> QED
  BY <1>2, <1>3 DEF pq, Regrouped

(* Whoever answers keyword before number, with the letters of the help     *)
(* text or the words of a confirmation, after any words the coordinator's  *)
(* table reads nothing in, is understood (messages.py:22-23, 46-62); the   *)
(* order a confirmation is written in is another (messages.py:95-99).      *)
THEOREM RepliesUnderstood == Spec => []HelpUnderstood
<1>1. ASSUME locale \in Locales, message \in Seq(Vocabulary),
             Found(message, Tables[locale]) = {},
             NEW keywords \in {HelpLetters[locale], PopulationLabels[locale]},
             NEW bs \in (SUBSET Buckets) \ {{}},
             NEW counts \in [bs -> Numbers \cap 0 .. MaxCount]
      PROVE  ParseSms(message \o Example(keywords, counts), locale) = Accepted(counts)
  <2> DEFINE S == Vocabulary \cup {Word(keywords[b]) : b \in Buckets}
                             \cup {Number(n) : n \in Numbers}
             table == Tables[locale]
             P(b) == Part(keywords, counts, b)
             one == message \o P("women")
             two == one \o P("men")
             three == two \o P("family")
  <2>1. \A a, c \in Buckets : keywords[a] \in table[c] <=> a = c
    BY <1>1, TaughtKeywords
  <2>2. /\ message \in Seq(S) /\ \A a \in Buckets : Word(keywords[a]) \in S
        /\ \A a \in DOMAIN counts : counts[a] \in Numbers /\ Number(counts[a]) \in S
    BY <1>1
  <2>3. Reads(message, table, counts, {})
    <3>1. \A c \in Buckets : Readings(message, table[c]) = {}
      BY <1>1 DEF Found
    <3> HIDE DEF table
    <3> QED
      BY <3>1 DEF Reads
  <2>4. message \o Example(keywords, counts) = three
    <3> HIDE DEF S
    <3>1. ASSUME NEW b \in Buckets PROVE P(b) \in Seq(S)
      BY <2>2 DEF Part
    <3> HIDE DEF P
    <3>2. /\ message \in Seq(S)
          /\ P("women") \in Seq(S) /\ P("men") \in Seq(S) /\ P("family") \in Seq(S)
      BY <2>2, <3>1 DEF Buckets
    <3>3. Regrouped(message, P("women"), P("men"), P("family"))
      BY <3>2, Regroups
    <3>4. message \o (P("women") \o P("men") \o P("family")) = three
      BY <3>3 DEF Regrouped
    <3> QED
      BY <3>4 DEF Example, P
  <2>d. DOMAIN counts = bs
    BY <1>1
  <2> HIDE DEF S, table
  <2>5. one \in Seq(S) /\ Reads(one, table, counts, {"women"} \cap bs)
    <3>1. "women" \in Buckets \ {}
      BY DEF Buckets
    <3>2. ReadsOf(one, S, table, counts, {} \cup ({"women"} \cap DOMAIN counts))
      BY <2>1, <2>2, <2>3, <3>1, PartRead
    <3> QED
      BY <2>d, <3>2 DEF ReadsOf
  <2>6. two \in Seq(S) /\ Reads(two, table, counts, {"women", "men"} \cap bs)
    <3>1. "men" \in Buckets \ ({"women"} \cap bs)
      BY DEF Buckets
    <3> HIDE DEF one
    <3>2. ReadsOf(two, S, table, counts, ({"women"} \cap bs) \cup ({"men"} \cap DOMAIN counts))
      BY <2>1, <2>2, <2>5, <3>1, PartRead
    <3>3. ({"women"} \cap bs) \cup ({"men"} \cap DOMAIN counts) = {"women", "men"} \cap bs
      BY <2>d
    <3> QED
      BY <3>2, <3>3 DEF ReadsOf
  <2>7. Reads(three, table, counts, bs)
    <3>1. "family" \in Buckets \ ({"women", "men"} \cap bs)
      BY DEF Buckets
    <3> HIDE DEF two
    <3>2. ReadsOf(three, S, table, counts,
                  ({"women", "men"} \cap bs) \cup ({"family"} \cap DOMAIN counts))
      BY <2>1, <2>2, <2>6, <3>1, PartRead
    <3>3. ({"women", "men"} \cap bs) \cup ({"family"} \cap DOMAIN counts) = bs
      BY <2>d DEF Buckets
    <3> QED
      BY <3>2, <3>3 DEF ReadsOf
  <2> QED
    BY <1>1, <2>4, <2>7, ReadIsAccepted DEF table
<1>2. locale \in Locales /\ message \in Seq(Vocabulary) => HelpUnderstood
  BY <1>1 DEF HelpUnderstood
<1> QED
  BY <1>2, Typed, PTL
=============================================================================
