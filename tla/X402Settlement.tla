-------------------------- MODULE X402Settlement --------------------------
(***************************************************************************)
(* Purchases over x402 from one direct account and from one Safe.  The terms *)
(* of the seller are quoted at intake.  A direct account signs a payment of  *)
(* its own; a Safe cannot, so the worker fixes an authorization, its owners  *)
(* sign a message over it, and the token asks the Safe whether they did.     *)
(* Either is persisted before the paid request; the seller settles it when   *)
(* it likes, and answers with the settlement, with a refusal or not at all.  *)
(* A retry looks for a settlement on chain, and otherwise sends the same     *)
(* authorization again.                                                      *)
(***************************************************************************)
EXTENDS Naturals, Sequences, FiniteSetsExt

CONSTANTS
  Intent,                 \* purchases
  Owner, Threshold, MinApprovals,
  Option,      \* what sellers offer: [payable, payTo, amount]
  MaxAmount,   \* what an intent allows its purchase to cost
  None,        \* null
  MaxAttempts  \* attempts of a job before it is dead

VARIABLES
  governed,  \* the purchases that the Safe pays
  row,       \* per intent: status, quote, approval, execution, authorization, settlement
  handler,   \* per intent: the worker between two awaits
  attempts,  \* per intent: attempts of its execute job
  nonces,    \* per intent: payments that its account ever signed
  presented, \* authorizations a seller holds and may still settle
  owners,    \* the owners of the Safe
  chain      \* settlements, oldest first

vars == <<governed, row, handler, attempts, nonces, presented, owners, chain>>

Idle == [at |-> "idle"]
Init ==
  /\ governed \in SUBSET Intent
  /\ row = [i \in Intent |->
       [status |-> "requested", quote |-> None, asked |-> {}, signers |-> {},
        execution |-> None, auth |-> None, settlement |-> None]]
  /\ handler = [i \in Intent |-> Idle]
  /\ attempts = [i \in Intent |-> 0] /\ nonces = [i \in Intent |-> 0]
  /\ presented = {} /\ owners = Owner /\ chain = <<>>

\* An authorization names its intent, and the token takes its nonce once.
Nonce(a) == [intent |-> a.intent, nonce |-> a.nonce]
Settled == {chain[n] : n \in DOMAIN chain}
Used(a) == \E b \in Settled : Nonce(b) = Nonce(a)

Goto(i, h) == handler' = [handler EXCEPT ![i] = h]
Outside == <<governed, presented, owners, chain>>

-----------------------------------------------------------------------------
(* Intake: the cheapest option that Relay can pay, if the intent allows it.  *)

Quotes(accepts) ==
  LET payable == {o \in accepts : o.payable}
  IN {o \in payable : o.amount <= MaxAmount /\ \A p \in payable : o.amount <= p.amount}

Evaluate(i) ==
  /\ row[i].status = "requested"
  /\ \/ row' = [row EXCEPT ![i].status = "rejected"]
     \/ \E accepts \in SUBSET Option : \E quote \in Quotes(accepts) :
          LET next == IF i \in governed THEN "policy_evaluated" ELSE "approved"
          IN row' = [row EXCEPT ![i].quote = quote, ![i].status = next]
  /\ UNCHANGED <<handler, attempts, nonces, Outside>>

-----------------------------------------------------------------------------
(* The Safe's authorization: one per intent, since its nonce is derived.     *)

\* What the owners sign: a message of the Safe over the digest.
Derived == 0
Authorization(i) == [intent |-> i, nonce |-> Derived, quote |-> row[i].quote]
Message(i) == [safe |-> "message", digest |-> Authorization(i)]
Messages == {Message(i) : i \in {j \in governed : row[j].quote # None}}

BeginPublish(i) ==
  /\ row[i].status = "policy_evaluated" /\ handler[i] = Idle
  /\ Goto(i, [at |-> "publish", owners |-> owners])
  /\ UNCHANGED <<row, attempts, nonces, Outside>>

CompletePublication(i) ==
  /\ handler[i].at = "publish" /\ Goto(i, Idle)
  /\ row' = [row EXCEPT ![i].status = "approval_required", ![i].asked = handler[i].owners]
  /\ UNCHANGED <<attempts, nonces, Outside>>

Required == IF MinApprovals > Threshold THEN MinApprovals ELSE Threshold

\* The signature must be over this message, by an owner at the publication.
Approve(i, signature) ==
  /\ row[i].status = "approval_required"
  /\ signature.over = Message(i) /\ signature.by \in row[i].asked \ row[i].signers
  /\ LET signers == row[i].signers \cup {signature.by}
     IN row' = [row EXCEPT ![i].signers = signers,
                           ![i].status = IF Cardinality(signers) >= Required
                                         THEN "approved" ELSE "approval_required"]
  /\ UNCHANGED <<handler, attempts, nonces, Outside>>

Reject(i) ==
  /\ row[i].status = "approval_required"
  /\ \E s \in {"rejected", "expired"} : row' = [row EXCEPT ![i].status = s]
  /\ UNCHANGED <<handler, attempts, nonces, Outside>>

-----------------------------------------------------------------------------
(* Execution.                                                               *)

\* claim; a signed execution is recovered, anything earlier is signed anew.
\* Mutant: every attempt starts from the beginning.
ResumeAnew(i) == "sign"
Resume(i) == IF row[i].execution = "signed" THEN "recover" ELSE "sign"

\* A closed gate, or too small a balance before it is signed, fails the intent.
Begin(i) ==
  /\ handler[i] = Idle /\ row[i].status \in {"approved", "executing"}
  /\ attempts[i] < MaxAttempts
  /\ attempts' = [attempts EXCEPT ![i] = @ + 1]
  /\ \/ Goto(i, [at |-> Resume(i)]) /\ UNCHANGED row
     \/ row' = [row EXCEPT ![i].status = "failed"] /\ UNCHANGED handler
  /\ UNCHANGED <<nonces, Outside>>

Simulated(i) == [row EXCEPT ![i].status = "executing", ![i].execution = "simulated"]

\* A direct account signs a payment with a nonce of its own each time.
SignPayment(i) ==
  /\ handler[i].at = "sign" /\ i \notin governed /\ row' = Simulated(i)
  /\ nonces' = [nonces EXCEPT ![i] = @ + 1]
  /\ Goto(i, [at |-> "persist", auth |-> [intent |-> i, nonce |-> nonces'[i],
                                          quote |-> row[i].quote, signers |-> {}]])
  /\ UNCHANGED <<attempts, Outside>>

\* The Safe's signature: as many of its owners' as the threshold asks for.
Assembled(i) == kSubset(Threshold, row[i].signers)
AssemblePayment(i) ==
  /\ handler[i].at = "sign" /\ i \in governed /\ row' = Simulated(i)
  /\ \E signers \in Assembled(i) :
       Goto(i, [at |-> "persist", auth |-> [intent |-> i, nonce |-> Derived,
                                            quote |-> row[i].quote, signers |-> signers]])
  /\ UNCHANGED <<attempts, nonces, Outside>>

MarkSigned(i) ==
  /\ handler[i].at = "persist"
  /\ row' = [row EXCEPT ![i].execution = "signed", ![i].auth = handler[i].auth]
  /\ Goto(i, [at |-> "pay"])
  /\ UNCHANGED <<attempts, nonces, Outside>>

\* The latest transfer from this account to that payee, as far back as is looked.
Matching(i) ==
  {n \in DOMAIN chain : /\ chain[n].quote.payTo = row[i].quote.payTo
                        /\ (chain[n].intent \in governed <=> i \in governed)}
Lookup(i) ==
  {None} \cup {chain[n] : n \in {m \in Matching(i) : \A k \in Matching(i) : k <= m}}

Recover(i) ==
  /\ handler[i].at = "recover"
  /\ \E found \in Lookup(i) :
       Goto(i, IF found = None THEN [at |-> "pay"]
               ELSE [at |-> "submit", settlement |-> found])
  /\ UNCHANGED <<row, attempts, nonces, Outside>>

Pay(i) ==
  /\ handler[i].at = "pay"
  /\ presented' = presented \cup {a \in {row[i].auth} : ~Used(a)}
  /\ Goto(i, [at |-> "answer"])
  /\ UNCHANGED <<governed, row, attempts, nonces, owners, chain>>

\* The seller reports its settlement, or refuses and the chain is searched; a
\* refusal leaves the job to be tried again.
Answer(i) ==
  /\ handler[i].at = "answer"
  /\ \/ row[i].auth \in Settled /\ Goto(i, [at |-> "submit", settlement |-> row[i].auth])
     \/ \E found \in Lookup(i) :
          Goto(i, IF found = None THEN Idle ELSE [at |-> "submit", settlement |-> found])
  /\ UNCHANGED <<row, attempts, nonces, Outside>>

MarkSubmitted(i) ==
  /\ handler[i].at = "submit"
  /\ row' = [row EXCEPT ![i].status = "submitted", ![i].settlement = handler[i].settlement]
  /\ Goto(i, Idle)
  /\ UNCHANGED <<attempts, nonces, Outside>>

\* A crash, or a request without an answer: the job comes back.
Interrupt(i) ==
  /\ handler[i] # Idle /\ Goto(i, Idle)
  /\ UNCHANGED <<row, attempts, nonces, Outside>>

-----------------------------------------------------------------------------
(* The seller, its facilitator, the token and the Safe.                     *)

\* The token asks the Safe of today whether its owners signed.
Vouched(a) == a.intent \in governed => a.signers \subseteq owners

Settle(a) ==
  /\ Vouched(a) /\ ~Used(a)
  /\ chain' = Append(chain, a) /\ presented' = presented \ {a}
  /\ UNCHANGED <<governed, row, handler, attempts, nonces, owners>>

\* Its time is over, or the seller lost interest.
Lapse(a) ==
  /\ presented' = presented \ {a}
  /\ UNCHANGED <<governed, row, handler, attempts, nonces, owners, chain>>

OwnersLeave ==
  /\ \E gone \in SUBSET owners :
       Cardinality(owners \ gone) >= Threshold /\ owners' = owners \ gone
  /\ UNCHANGED <<governed, row, handler, attempts, nonces, presented, chain>>

Next ==
  \/ \E i \in Intent :
       \/ Evaluate(i) \/ Begin(i) \/ SignPayment(i) \/ AssemblePayment(i) \/ MarkSigned(i)
       \/ Recover(i) \/ Pay(i) \/ Answer(i) \/ MarkSubmitted(i) \/ Interrupt(i)
  \/ \E i \in governed :
       \/ BeginPublish(i) \/ CompletePublication(i) \/ Reject(i)
       \/ \E o \in Owner, m \in Messages : Approve(i, [by |-> o, over |-> m])
  \/ \E a \in presented : Settle(a) \/ Lapse(a)
  \/ OwnersLeave

Spec == Init /\ [][Next]_vars

-----------------------------------------------------------------------------
\* One purchase is paid for once: no crash between signing, persisting, the
\* request and its answer makes a seller settle two authorizations of an intent.
SettledOnce ==
  \A m, n \in DOMAIN chain : chain[m].intent = chain[n].intent => m = n

\* What an intent records as its settlement is its own authorization on chain,
\* as long as no other intent of the account pays the same payee.
Shares(i, j) ==
  /\ j # i /\ (i \in governed <=> j \in governed)
  /\ row[i].quote # None /\ row[j].quote # None /\ row[j].quote.payTo = row[i].quote.payTo
SettlementIsOwn ==
  \A i \in Intent :
    row[i].settlement # None /\ (\A j \in Intent : ~Shares(i, j))
      => row[i].settlement \in Settled /\ row[i].settlement.intent = i

\* No seller gets more than the intent allows, or what owners did not let go.
SettledAsApproved ==
  \A n \in DOMAIN chain :
    LET i == chain[n].intent IN
    /\ chain[n].quote = row[i].quote /\ chain[n].quote.amount <= MaxAmount
    /\ row[i].status \in {"executing", "submitted", "failed"}
    /\ i \in governed => Cardinality(row[i].signers) >= Required

\* A purchase is settled once and as approved, and its record says how.
PurchasesSettled == SettledOnce /\ SettlementIsOwn /\ SettledAsApproved
=============================================================================
