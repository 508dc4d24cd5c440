------------------------- MODULE RecommendationSlot -------------------------
(***************************************************************************)
(* What the recommender promises the trader, with no scheduler, journal    *)
(* query or clock in sight: each underlying has one slot.  A card is       *)
(* issued only into an empty slot and only once; a slot that is resolved - *)
(* the card was acted upon, has expired or was swept - becomes empty, and  *)
(* never changes from one card to another in between.                      *)
(***************************************************************************)
CONSTANTS Underlyings, Trades

VARIABLES
    slot,     \* slot[u]: the cards on display for underlying u
    issued    \* the cards issued so far

Init ==
    /\ slot = [u \in Underlyings |-> {}]
    /\ issued = {}

Issue(u, t) ==
    /\ slot[u] = {}
    /\ t \notin issued
    /\ slot' = [slot EXCEPT ![u] = {t}]
    /\ issued' = issued \union {t}

Resolve(U) ==
    /\ slot' = [u \in Underlyings |-> IF u \in U THEN {} ELSE slot[u]]
    /\ UNCHANGED issued

Next ==
    \/ \E u \in Underlyings, t \in Trades : Issue(u, t)
    \/ \E U \in SUBSET Underlyings : Resolve(U)

Spec == Init /\ [][Next]_<<slot, issued>>
=============================================================================
