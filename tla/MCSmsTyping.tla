----------------------------- MODULE MCSmsTyping -----------------------------
(* Vocabularies for SmsTyping: the letters two tables share (m, f), one    *)
(* letter of each table alone, and numbers on both sides of each limit.    *)
EXTENDS SmsTyping

MCLetters == {"w", "m", "f", "g"}
MCLimits == {-1, 0, 2, 3}
MCExampleLetters == {"w", "m", "f"}
MCExampleNumbers == {0, 1, 3}
=============================================================================
