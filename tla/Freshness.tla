----------------------------- MODULE Freshness -----------------------------
(***************************************************************************)
(* How old a bed count may be before it is called aging or stale           *)
(* (app/freshness.py).  Time is counted in the same unit as the two        *)
(* thresholds; the code takes hours and compares them the same way.        *)
(***************************************************************************)
EXTENDS Integers

CONSTANTS
  AgingAge,   \* Settings.aging_hours_threshold
  StaleAge    \* Settings.stale_hours_threshold

ASSUME FreshnessAssumption == AgingAge \in Nat /\ StaleAge \in Nat

ComputeFreshness(recordedAt, now) ==
  CASE now - recordedAt < AgingAge -> "fresh"
    [] now - recordedAt >= AgingAge /\ now - recordedAt < StaleAge -> "aging"
    [] OTHER -> "stale"
=============================================================================
