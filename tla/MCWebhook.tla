------------------------------ MODULE MCWebhook ------------------------------
(* One shelter, with the default map of fabt_client.py cut down to two     *)
(* populations, and texts that name two buckets, one, and none in range.   *)
EXTENDS Webhook, TLC

CONSTANTS p1, p2

MCDefaultMap == [women |-> p1, men |-> p2, family |-> Unserved]
MCPair == <<Word("w"), Number(2), Word("m"), Number(0)>>
MCFamily == <<Word("f"), Number(0), Other>>
MCTooMany == <<Word("w"), Number(3)>>
MCTextsPair == {MCPair}
MCTexts == {MCPair, MCFamily, MCTooMany}
MCWomen == {"women"}
MCRequestSymmetry == Permutations(Requests)
=============================================================================
