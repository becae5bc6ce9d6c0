-------------------------- MODULE OperationPromise --------------------------
(***************************************************************************)
(* What the operation ledger promises about one file of operation keys,    *)
(* whatever handlers, saves, cancellations and restarts there are: a key   *)
(* is open, then fenced, then settled with the answer of its only          *)
(* dispatch; or it is frozen for good.  README: "A completed retry is      *)
(* replayed without calling Home Assistant again ... if the bridge         *)
(* restarted after dispatch but before completion was persisted, the       *)
(* operation remains control_outcome_unknown".                             *)
(***************************************************************************)
CONSTANTS Keys, Results, None

VARIABLES
    fate,     \* Keys -> "open", "fenced", "settled" or "frozen": the durable row
    recorded, \* Keys -> the durable answer of a settled key
    sent,     \* keys handed to HA
    verdict   \* Keys -> what HA answered to the dispatch

vars == <<fate, recorded, sent, verdict>>

Init ==
    /\ fate = [k \in Keys |-> "open"]
    /\ recorded = [k \in Keys |-> None]
    /\ sent = {}
    /\ verdict = [k \in Keys |-> None]

(* One write of the file may carry the progress of several keys.           *)
Advance(old, new) ==
    \/ new = old
    \/ old = "open" /\ new = "fenced"
    \/ old = "fenced" /\ new = "settled"
    \/ new = "frozen"

Write ==
    /\ fate' \in [Keys -> {"open", "fenced", "settled", "frozen"}]
    /\ \A k \in Keys : /\ Advance(fate[k], fate'[k])
                       /\ fate[k] # "settled" /\ fate'[k] = "settled" => verdict[k] # None
    /\ recorded' = [k \in Keys |-> IF fate'[k] = "settled" THEN verdict[k] ELSE None]
    /\ UNCHANGED <<sent, verdict>>

(* A key is handed to HA only behind its fence, and only once.             *)
Send(k) ==
    /\ fate[k] = "fenced"
    /\ k \notin sent
    /\ sent' = sent \cup {k}
    /\ UNCHANGED <<fate, recorded, verdict>>

Hear(k, r) ==
    /\ k \in sent
    /\ verdict[k] = None
    /\ verdict' = [verdict EXCEPT ![k] = r]
    /\ UNCHANGED <<fate, recorded, sent>>

Next ==
    \/ Write
    \/ \E k \in Keys : Send(k) \/ \E r \in Results : Hear(k, r)

Spec == Init /\ [][Next]_vars
=============================================================================
