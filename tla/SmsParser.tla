------------------------------ MODULE SmsParser ------------------------------
(***************************************************************************)
(* parse_sms of app/sms/parser.py.                                         *)
(*                                                                         *)
(* A message is the sequence of what the compiled patterns tell apart: a   *)
(* keyword that stands where its pattern accepts it (word forms between    *)
(* word boundaries, a letter code not after a letter, in either case), a   *)
(* number of one to four digits with an optional sign, and anything else,  *)
(* longer digit runs included.  A pattern matches a keyword of its bucket  *)
(* and the number right after it, white space aside.                       *)
(***************************************************************************)
EXTENDS Integers, Sequences

CONSTANTS
  Numbers,    \* the numbers a message may hold
  MaxCount    \* MAX_COUNT

ASSUME SmsParserAssumption ==
  /\ Numbers \subseteq Int
  /\ MaxCount \in Nat

Locales == {"en", "es", "vi"}
Buckets == {"women", "men", "family"}
TableOrder == <<"women", "men", "family">>

EN == [women |-> {"w", "women", "woman"}, men |-> {"m", "men", "man"},
       family |-> {"f", "family", "families"}]
MutantES == [women |-> {"w", "mujeres", "mujer"}, men |-> {"h", "hombres", "hombre"},
             family |-> {"f", "familias", "familia"}]

ES == [women |-> {"m", "mujeres", "mujer"}, men |-> {"h", "hombres", "hombre"},
       family |-> {"f", "familias", "familia"}]
VI == [women |-> {"n", "nu", "phu nu"}, men |-> {"d", "nam", "dan ong"},
       family |-> {"g", "gia dinh", "giadinh"}]

MutantTables == [en |-> EN, vi |-> VI, es |-> [b \in Buckets |-> EN[b] \cup ES[b]]]

Tables == [en |-> EN, es |-> ES, vi |-> VI]

Word(k) == [keyword |-> k]
Number(n) == [value |-> n]
Other == [other |-> TRUE]

-----------------------------------------------------------------------------
(* Where in a message a keyword of the set stands right before a number.   *)
Readings(text, words) ==
  {i \in 1 .. Len(text) - 1 : /\ text[i] \in {Word(k) : k \in words}
                              /\ text[i + 1] \in {Number(n) : n \in Numbers}}

MutantSearchLast(text, words) ==
  text[1 + CHOOSE i \in Readings(text, words) : \A j \in Readings(text, words) : i >= j].value

Search(text, words) ==
  text[1 + CHOOSE i \in Readings(text, words) : \A j \in Readings(text, words) : i <= j].value

Found(text, table) == {b \in Buckets : Readings(text, table[b]) # {}}

Accepted(counts) == [counts |-> counts, reason |-> "none"]
Error(reason) == [counts |-> <<>>, reason |-> reason]

MutantBadSkipped(text, table) ==
  LET good == {b \in Found(text, table) : Search(text, table[b]) \in 0 .. MaxCount}
  IN Accepted([b \in good |-> Search(text, table[b])])

MutantLimitOffByOne(text, table) ==
  LET counts == [b \in Found(text, table) |-> Search(text, table[b])]
  IN IF \A b \in DOMAIN counts : counts[b] \in 0 .. MaxCount + 1
     THEN Accepted(counts) ELSE Error("out_of_range")

(* The buckets are searched in table order; the first bad value decides.   *)
MatchTable(text, table) ==
  LET counts == [b \in Found(text, table) |-> Search(text, table[b])]
      bad == {i \in DOMAIN TableOrder : /\ TableOrder[i] \in DOMAIN counts
                                        /\ counts[TableOrder[i]] \notin 0 .. MaxCount}
      first == TableOrder[CHOOSE i \in bad : \A j \in bad : i <= j]
  IN IF bad = {} THEN Accepted(counts)
     ELSE Error(IF counts[first] < 0 THEN "negative_count" ELSE "out_of_range")

ParseSms(text, locale) ==
  LET own == MatchTable(text, Tables[locale])
      parsed == IF own = Accepted(<<>>) /\ locale # "en" THEN MatchTable(text, EN) ELSE own
  IN CASE text = <<>> -> Error("empty")
       [] text # <<>> /\ parsed = Accepted(<<>>) -> Error("unrecognized_format")
       [] OTHER -> parsed
=============================================================================
