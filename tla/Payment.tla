------------------------------ MODULE Payment ------------------------------
(***************************************************************************)
(* What Relay promises about one payment ("A payment moves money at most   *)
(* once", docs/FAILURE-RECOVERY.md), with no worker, job, signature,       *)
(* nonce or mempool in sight: an approved intent may move money once, the  *)
(* record says it settled only when it did, and an intent recorded as      *)
(* failed has not moved money and never will.                              *)
(*                                                                         *)
(* PaymentExecution implements this module.                                *)
(***************************************************************************)
CONSTANTS
  Intent,    \* payment intents
  Tx         \* the transfers that could appear on the chain

VARIABLES
  record,    \* record[i]: "requested", "owed", "submitted", "settled", "failed"
  moved      \* moved[i]: the transfers on the chain that paid intent i

vars == <<record, moved>>

TypeOK ==
  /\ record \in [Intent -> {"requested", "owed", "submitted", "settled", "failed"}]
  /\ moved \in [Intent -> SUBSET Tx]

Init ==
  /\ record = [i \in Intent |-> "requested"]
  /\ moved = [i \in Intent |-> {}]

Approve(i) ==
  /\ record[i] = "requested"
  /\ record' = [record EXCEPT ![i] = "owed"]
  /\ UNCHANGED moved

Move(i, t) ==              \* the chain executes the transfer: only once
  /\ record[i] \in {"owed", "submitted"}
  /\ moved[i] = {}
  /\ moved' = [moved EXCEPT ![i] = {t}]
  /\ UNCHANGED record

Submit(i) ==
  /\ record[i] = "owed"
  /\ record' = [record EXCEPT ![i] = "submitted"]
  /\ UNCHANGED moved

Settle(i) ==
  /\ record[i] = "submitted"
  /\ moved[i] # {}
  /\ record' = [record EXCEPT ![i] = "settled"]
  /\ UNCHANGED moved

Fail(i) ==                 \* for good: Move is disabled from here on
  /\ record[i] \in {"owed", "submitted"}
  /\ moved[i] = {}
  /\ record' = [record EXCEPT ![i] = "failed"]
  /\ UNCHANGED moved

Next ==
  \E i \in Intent :
    \/ Approve(i) \/ Submit(i) \/ Settle(i) \/ Fail(i)
    \/ \E t \in Tx : Move(i, t)

Spec == Init /\ [][Next]_vars
=============================================================================
