------------------------------ MODULE SmsTyping ------------------------------
(***************************************************************************)
(* A coordinator typing a message for SmsParser one word at a time: every  *)
(* message over a small vocabulary is parsed, and related to the longer    *)
(* messages it grows into.                                                 *)
(***************************************************************************)
EXTENDS SmsParser

CONSTANTS
  Keywords,   \* the keywords the coordinator may type
  MaxWords,   \* bound: the longest message
  MaxGreeting \* bound: words before an example of the help text

ASSUME SmsTypingAssumption == MaxWords \in Nat /\ MaxGreeting \in Nat

Vocabulary == {Word(k) : k \in Keywords} \cup {Number(n) : n \in Numbers} \cup {Other}

-----------------------------------------------------------------------------
(* The keywords of the replies: the letters of the help text and the words *)
(* that label a bucket in a confirmation and in the help text.             *)
HelpLetters ==
  [en |-> [women |-> "w", men |-> "m", family |-> "f"],
   es |-> [women |-> "m", men |-> "h", family |-> "f"],
   vi |-> [women |-> "n", men |-> "d", family |-> "g"]]

PopulationLabels ==
  [en |-> [women |-> "women", men |-> "men", family |-> "family"],
   es |-> [women |-> "mujeres", men |-> "hombres", family |-> "familias"],
   vi |-> [women |-> "nu", men |-> "nam", family |-> "gia dinh"]]

(* The help text's example with other counts, of some or all buckets.      *)
Part(keywords, counts, b) ==
  IF b \in DOMAIN counts THEN <<Word(keywords[b]), Number(counts[b])>> ELSE <<>>

Example(keywords, counts) ==
  Part(keywords, counts, "women") \o Part(keywords, counts, "men")
    \o Part(keywords, counts, "family")

-----------------------------------------------------------------------------
VARIABLES
  locale,    \* CoordinatorPhoneModel.locale
  message    \* the text so far

vars == <<locale, message>>

Init == locale \in Locales /\ message = <<>>

Type(w) ==
  /\ Len(message) < MaxWords
  /\ message' = Append(message, w)
  /\ UNCHANGED locale

Next == \E w \in Vocabulary : Type(w)

Spec == Init /\ [][Next]_vars

-----------------------------------------------------------------------------
Parsed == ParseSms(message, locale)
IsAccepted(result) == result.reason = "none"
IsBad(result) == result.reason \in {"negative_count", "out_of_range"}

(* Types; an accepted message has a count in range for at least one bucket *)
(* and an error none.                                                      *)
TypeOK ==
  /\ locale \in Locales
  /\ message \in Seq(Vocabulary)
  /\ IF IsAccepted(Parsed)
     THEN \E bs \in (SUBSET Buckets) \ {{}} : Parsed.counts \in [bs -> 0 .. MaxCount]
     ELSE Parsed.counts = <<>>

(* A message is taken whole or not at all: no bucket that the table in use *)
(* reads a number for is left out of an accepted message (parser.py:139-   *)
(* 142, "discard partial counts").                                         *)
NothingDropped ==
  LET own == Found(message, Tables[locale])
      named == IF own = {} THEN Found(message, EN) ELSE own
  IN IsAccepted(Parsed) => DOMAIN Parsed.counts = named

(* One number is never the count of two buckets of one table, although the *)
(* letters of the tables overlap (M is women in Spanish, men in English).  *)
OneNumberOneBucket ==
  \A a, b \in Buckets :
    a # b => Readings(message, Tables[locale][a])
               \cap Readings(message, Tables[locale][b]) = {}

(* Once the coordinator's own table reads something, more text adds a      *)
(* bucket or spoils the message: it never changes a count already read,    *)
(* and never makes a bad message good.                                     *)
FirstReadingStands ==
  [][Found(message, Tables[locale]) # {} =>
       LET after == ParseSms(message', locale)
       IN /\ IsBad(Parsed) => IsBad(after)
          /\ IsAccepted(Parsed) => \/ IsBad(after)
                                   \/ \A b \in DOMAIN Parsed.counts :
                                        /\ b \in DOMAIN after.counts
                                        /\ after.counts[b] = Parsed.counts[b]]_vars

(* A coordinator who writes a keyword and its number for each bucket, as   *)
(* the help text does, with its letters or with the words of a             *)
(* confirmation, is understood, after a greeting the table reads nothing   *)
(* in: the replies' keywords match the parser's (messages.py:22-23), none  *)
(* means another bucket in its own table, and the fallback stays out.  A   *)
(* confirmation itself has each number before its word                     *)
(* (messages.py:95-99); sent back in that order it is read as something    *)
(* else, and nothing is claimed of it here.                                *)
HelpUnderstood ==
  Len(message) <= MaxGreeting /\ Found(message, Tables[locale]) = {} =>
    \A keywords \in {HelpLetters, PopulationLabels}, bs \in (SUBSET Buckets) \ {{}} :
      \A counts \in [bs -> Numbers \cap 0 .. MaxCount] :
        ParseSms(message \o Example(keywords[locale], counts), locale) = Accepted(counts)

-----------------------------------------------------------------------------
(* nudge/messages.py:26-30 asks a Spanish-speaking coordinator to reply    *)
(* with counts "ej. W 3 M 1 F 0": that reply is read as three women's, one *)
(* man's and no family's bed, in whatever locale it is asked for.          *)
NudgeExample ==
  <<Word("w"), Number(3), Word("m"), Number(1), Word("f"), Number(0)>>

NudgeExampleUnderstood ==
  message = NudgeExample => Parsed = Accepted([women |-> 3, men |-> 1, family |-> 0])
=============================================================================
