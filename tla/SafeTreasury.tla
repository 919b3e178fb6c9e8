--------------------------- MODULE SafeTreasury ---------------------------
(***************************************************************************)
(* Payments of a treasury governed by a Safe.  The worker compiles a Safe    *)
(* transaction at the nonce it observes, the owners sign it in the console,  *)
(* and the executor sends it with their signatures.  Owners may reject in    *)
(* Relay, burn the nonce on chain, send the signed transaction themselves,   *)
(* and use their Safe for other things; Relay learns of none of this before  *)
(* it looks.                                                                 *)
(***************************************************************************)
EXTENDS Naturals, FiniteSets

CONSTANTS
  Intent, Owner, Threshold,
  None,     \* null
  MaxNonce  \* bound on the transactions of the Safe

VARIABLES
  row,      \* per intent: its status, the nonce of its Safe transaction, and who signed
  compiled, \* per intent: the nonce a publication has read and not yet recorded
  sent,     \* intents whose execution is broadcast and not in a block
  receipt,  \* per intent: how its execution ended on chain
  nonce, owners, executed, \* the Safe: its nonce, its owners and the payments it made
  bypassed  \* ghost: the owners sent the payment themselves

vars == <<row, compiled, sent, receipt, nonce, owners, executed, bypassed>>
Safe == <<nonce, owners, executed>>

Init ==
  /\ row = [i \in Intent |-> [status |-> "policy_evaluated", nonce |-> None, signers |-> {}]]
  /\ compiled = [i \in Intent |-> None]
  /\ sent = {} /\ receipt = [i \in Intent |-> None]
  /\ nonce = 0 /\ owners = Owner /\ executed = {} /\ bypassed = {}

SetStatus(i, s) == row' = [row EXCEPT ![i].status = s]

-----------------------------------------------------------------------------
(* Publication and decisions.                                               *)

BeginPublish(i) ==
  /\ row[i].status = "policy_evaluated"
  /\ compiled' = [compiled EXCEPT ![i] = nonce]
  /\ UNCHANGED <<row, sent, receipt, Safe, bypassed>>

CompletePublication(i) ==
  /\ row[i].status = "policy_evaluated" /\ compiled[i] # None
  /\ row' = [row EXCEPT ![i] = [status |-> "approval_required", nonce |-> compiled[i], signers |-> {}]]
  /\ UNCHANGED <<compiled, sent, receipt, Safe, bypassed>>

\* The signature is checked against the owners of the publication, not of today.
Approve(i, o) ==
  /\ row[i].status = "approval_required" /\ o \notin row[i].signers
  /\ LET signers == row[i].signers \cup {o}
     IN row' = [row EXCEPT ![i].signers = signers,
                           ![i].status = IF Cardinality(signers) >= Threshold
                                         THEN "approved" ELSE "approval_required"]
  /\ UNCHANGED <<compiled, sent, receipt, Safe, bypassed>>

\* Mutant: the rejection does not look at what became of the intent.
RejectAnyTime(i) ==
  /\ row[i].status \in {"approval_required", "approved", "executing"}
  /\ \E s \in {"rejected", "expired"} : SetStatus(i, s)
  /\ UNCHANGED <<compiled, sent, receipt, Safe, bypassed>>
\* One owner's rejection, or the expiry, ends it; neither touches the chain.
Reject(i) ==
  /\ row[i].status = "approval_required"
  /\ \E s \in {"rejected", "expired"} : SetStatus(i, s)
  /\ UNCHANGED <<compiled, sent, receipt, Safe, bypassed>>

-----------------------------------------------------------------------------
(* Execution.                                                               *)

Valid(i) ==
  /\ nonce = row[i].nonce
  /\ Cardinality(row[i].signers \cap owners) >= Threshold

\* The nonce and the signatures are checked before the executor signs.
Execute(i) ==
  /\ row[i].status = "approved"
  /\ \/ /\ Valid(i)
        /\ SetStatus(i, "executing") /\ sent' = sent \cup {i}
     \/ SetStatus(i, "failed") /\ UNCHANGED sent
  /\ UNCHANGED <<compiled, receipt, Safe, bypassed>>

Confirm(i) ==
  /\ row[i].status = "executing" /\ receipt[i] # None
  /\ SetStatus(i, IF receipt[i] = "reverted" THEN "failed" ELSE "paid")
  /\ UNCHANGED <<compiled, sent, receipt, Safe, bypassed>>

-----------------------------------------------------------------------------
(* The Safe contract and its owners.                                        *)

Spend(i) == executed' = executed \cup {i} /\ nonce' = nonce + 1

Land(i) ==
  /\ i \in sent /\ sent' = sent \ {i}
  /\ \/ Valid(i) /\ nonce < MaxNonce /\ Spend(i) /\ receipt' = [receipt EXCEPT ![i] = "succeeded"]
     \/ ~Valid(i) /\ receipt' = [receipt EXCEPT ![i] = "reverted"] /\ UNCHANGED <<nonce, executed>>
  /\ UNCHANGED <<row, compiled, owners, bypassed>>

\* A rejection transaction is handed out while approvals are collected, and may
\* be executed whenever its nonce is the Safe's, whatever Relay thinks by then.
BurnNonce(i) ==
  /\ row[i].nonce = nonce /\ nonce < MaxNonce
  /\ nonce' = nonce + 1
  /\ UNCHANGED <<row, compiled, sent, receipt, owners, executed, bypassed>>

\* The owners' signatures are theirs: they can send the same transaction.
SendThemselves(i) ==
  /\ row[i].nonce # None /\ Valid(i) /\ nonce < MaxNonce
  /\ Spend(i) /\ bypassed' = bypassed \cup {i}
  /\ UNCHANGED <<row, compiled, sent, receipt, owners>>

\* Any other Safe transaction, such as the removal of an owner.
OtherTransaction ==
  /\ nonce < MaxNonce /\ nonce' = nonce + 1
  /\ \E gone \in SUBSET owners :
       Cardinality(owners \ gone) >= Threshold /\ owners' = owners \ gone
  /\ UNCHANGED <<row, compiled, sent, receipt, executed, bypassed>>

Next ==
  \/ \E i \in Intent :
       \/ BeginPublish(i) \/ CompletePublication(i) \/ Reject(i) \/ Execute(i) \/ Confirm(i)
       \/ Land(i) \/ BurnNonce(i) \/ SendThemselves(i)
       \/ \E o \in Owner : Approve(i, o)
  \/ OtherTransaction

Spec == Init /\ [][Next]_vars

-----------------------------------------------------------------------------
\* Whatever the owners do beside Relay, and however two payments compete for one
\* nonce: what Relay calls paid left the Safe, and what it ended without paying
\* did not leave it, unless the owners sent it themselves.
OutcomeMatchesSafe ==
  \A i \in Intent :
    /\ row[i].status = "paid" => i \in executed
    /\ i \in executed \ bypassed => row[i].status \in {"executing", "paid"}
=============================================================================
