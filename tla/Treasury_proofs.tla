--------------------------- MODULE Treasury_proofs ---------------------------
(***************************************************************************)
(* Proofs about the components that MCTreasury puts together, for any      *)
(* treasuries, owners, sellers, thresholds and bounds.  Each is proved of  *)
(* its component's own specification, which every behaviour of MCTreasury  *)
(* satisfies: a step of MCTreasury is one of the component, or leaves all  *)
(* of the component's state alone.                                         *)
(***************************************************************************)
EXTENDS MCTreasury, Sequences, FiniteSetTheorems, TLAPS

(***************************************************************************)
(* Payments of a Safe.  What OutcomeMatchesSafe relates, the record and    *)
(* the Safe, meet in the receipt: SafeInv says what it stands for.         *)
(***************************************************************************)
SafeStatus == {"policy_evaluated", "approval_required", "approved", "executing", "paid", "failed",
               "rejected", "expired"}

SafeRow == [status : SafeStatus, nonce : Nat \cup {None}, signers : SUBSET Owner]

SafeTypes ==
  /\ safeRow \in [Intent -> SafeRow]
  /\ compiled \in [Intent -> Nat \cup {None}]
  /\ receipt \in [Intent -> {None, "succeeded", "reverted"}]
  /\ safeSent \subseteq Intent
  /\ nonce \in Nat

\* An execution is on its way or has its receipt, which says whether it left the
\* Safe; and what left it otherwise was sent by the owners.
ReceiptTells ==
  \A i \in Intent :
    /\ i \in safeSent => safeRow[i].status = "executing" /\ receipt[i] = None
    /\ receipt[i] = "succeeded" => i \in executed /\ safeRow[i].status \in {"executing", "paid"}
    /\ receipt[i] = "reverted" => safeRow[i].status \in {"executing", "failed"}
    /\ safeRow[i].status = "paid" => i \in executed
    /\ i \in executed \ bypassed => receipt[i] = "succeeded"

SafeInv == SafeTypes /\ ReceiptTells

\* Nothing is published at first.
LEMMA SafeInit == Safe!Init => SafeInv
BY TreasuryAssumption DEF Safe!Init, SafeInv, SafeTypes, SafeRow, SafeStatus, ReceiptTells

\* A decision or a report moves the status of one intent, and nothing of the Safe.
LEMMA SafeMoves ==
  ASSUME SafeInv, NEW i \in Intent, NEW r \in SafeRow, safeRow' = [safeRow EXCEPT ![i] = r],
         i \notin safeSent, i \notin safeSent',
         safeSent' = safeSent, UNCHANGED <<receipt, executed, bypassed>>,
         receipt[i] = "succeeded" => r.status \in {"executing", "paid"},
         receipt[i] = "reverted" => r.status \in {"executing", "failed"},
         r.status = "paid" => i \in executed
  PROVE  ReceiptTells' /\ safeRow' \in [Intent -> SafeRow]
<1>1. safeRow'[i] = r /\ \A j \in Intent : j # i => safeRow'[j] = safeRow[j]
  BY DEF SafeInv, SafeTypes
<1> QED
  BY <1>1 DEF SafeInv, SafeTypes, ReceiptTells

\* Every step keeps what a receipt tells.
LEMMA SafeStep == SafeInv /\ [Safe!Next]_(Safe!vars) => SafeInv'
<1> SUFFICES ASSUME SafeInv, [Safe!Next]_(Safe!vars) PROVE SafeInv'
  OBVIOUS
<1>0. safeRow \in [Intent -> SafeRow] /\ \A i \in Intent : safeRow[i] \in SafeRow
  BY DEF SafeInv, SafeTypes
<1>1. ASSUME NEW i \in Intent, Safe!BeginPublish(i) PROVE SafeInv'
  BY <1>1 DEF Safe!BeginPublish, Safe!Safe, SafeInv, SafeTypes, ReceiptTells
<1>2. ASSUME NEW i \in Intent, Safe!CompletePublication(i) PROVE SafeInv'
  <2> DEFINE r == [status |-> "approval_required", nonce |-> compiled[i], signers |-> {}]
  <2>1. r \in SafeRow
    BY DEF SafeRow, SafeStatus, SafeInv, SafeTypes
  <2>2. safeRow' = [safeRow EXCEPT ![i] = r]
    BY <1>2 DEF Safe!CompletePublication
  <2>3. i \notin safeSent /\ receipt[i] = None
    BY <1>2 DEF Safe!CompletePublication, SafeInv, SafeTypes, ReceiptTells
  <2>4. UNCHANGED <<compiled, safeSent, receipt, nonce, executed, bypassed>>
    BY <1>2 DEF Safe!CompletePublication, Safe!Safe
  <2>5. r.status = "approval_required"
    OBVIOUS
  <2> HIDE DEF r
  <2> QED
    BY <2>1, <2>2, <2>3, <2>4, <2>5, SafeMoves, TreasuryAssumption DEF SafeInv, SafeTypes
<1>3. ASSUME NEW i \in Intent, NEW o \in Owner, Safe!Approve(i, o) PROVE SafeInv'
  <2>1. PICK s \in {"approved", "approval_required"} :
          safeRow' = [safeRow EXCEPT ![i] = [safeRow[i] EXCEPT !.signers = safeRow[i].signers \cup {o}, !.status = s]]
    BY <1>0, <1>3 DEF Safe!Approve
  <2> DEFINE r == [safeRow[i] EXCEPT !.signers = safeRow[i].signers \cup {o}, !.status = s]
  <2>2. r \in SafeRow /\ r.status = s
    BY <1>0 DEF SafeRow, SafeStatus
  <2>3. i \notin safeSent /\ receipt[i] = None
    BY <1>3 DEF Safe!Approve, SafeInv, SafeTypes, ReceiptTells
  <2>4. UNCHANGED <<compiled, safeSent, receipt, nonce, executed, bypassed>>
    BY <1>3 DEF Safe!Approve, Safe!Safe
  <2> HIDE DEF r
  <2> QED
    BY <2>1, <2>2, <2>3, <2>4, SafeMoves, TreasuryAssumption DEF SafeInv, SafeTypes, r
<1>4. ASSUME NEW i \in Intent, NEW s \in SafeStatus, Safe!SetStatus(i, s)
      PROVE  \E r \in SafeRow : r.status = s /\ safeRow' = [safeRow EXCEPT ![i] = r]
  <2> DEFINE r == [safeRow[i] EXCEPT !.status = s]
  <2>1. r \in SafeRow /\ r.status = s
    BY <1>0 DEF SafeRow
  <2>2. safeRow' = [safeRow EXCEPT ![i] = r]
    BY <1>4 DEF Safe!SetStatus
  <2> QED
    BY <2>1, <2>2
<1>5. ASSUME NEW i \in Intent, Safe!Reject(i) PROVE SafeInv'
  <2>1. PICK s \in {"rejected", "expired"} : Safe!SetStatus(i, s)
    BY <1>5 DEF Safe!Reject
  <2>2. i \notin safeSent /\ receipt[i] = None /\ s \in SafeStatus
    BY <1>5 DEF Safe!Reject, SafeInv, SafeTypes, ReceiptTells, SafeStatus
  <2>3. UNCHANGED <<compiled, safeSent, receipt, nonce, executed, bypassed>>
    BY <1>5 DEF Safe!Reject, Safe!Safe
  <2>4. PICK r \in SafeRow : r.status = s /\ safeRow' = [safeRow EXCEPT ![i] = r]
    BY <1>4, <2>1, <2>2
  <2> QED
    BY <2>2, <2>3, <2>4, SafeMoves, TreasuryAssumption DEF SafeInv, SafeTypes
<1>6. ASSUME NEW i \in Intent, Safe!Execute(i) PROVE SafeInv'
  <2>1. i \notin safeSent /\ receipt[i] = None
    BY <1>6 DEF Safe!Execute, SafeInv, SafeTypes, ReceiptTells
  <2>2. UNCHANGED <<compiled, receipt, nonce, executed, bypassed>>
    BY <1>6 DEF Safe!Execute, Safe!Safe
  <2>3. CASE Safe!SetStatus(i, "executing") /\ safeSent' = safeSent \cup {i}
    <3>1. PICK r \in SafeRow : r.status = "executing" /\ safeRow' = [safeRow EXCEPT ![i] = r]
      BY <1>4, <2>3 DEF SafeStatus
    <3>2. safeRow' \in [Intent -> SafeRow] /\ safeRow'[i].status = "executing"
          /\ \A j \in Intent : j # i => safeRow'[j] = safeRow[j]
      BY <1>0, <3>1
    <3> QED
      BY <2>1, <2>2, <2>3, <3>2, TreasuryAssumption DEF SafeInv, SafeTypes, ReceiptTells
  <2>4. CASE Safe!SetStatus(i, "failed") /\ UNCHANGED safeSent
    <3>1. PICK r \in SafeRow : r.status = "failed" /\ safeRow' = [safeRow EXCEPT ![i] = r]
      BY <1>4, <2>4 DEF SafeStatus
    <3> QED
      BY <3>1, <2>1, <2>2, <2>4, SafeMoves, TreasuryAssumption DEF SafeInv, SafeTypes, SafeStatus
  <2> QED
    BY <1>6, <2>3, <2>4 DEF Safe!Execute
<1>7. ASSUME NEW i \in Intent, Safe!Confirm(i) PROVE SafeInv'
  <2> DEFINE s == IF receipt[i] = "reverted" THEN "failed" ELSE "paid"
  <2>1. Safe!SetStatus(i, s) /\ s \in SafeStatus
    BY <1>7 DEF Safe!Confirm, SafeStatus
  <2>2. i \notin safeSent /\ receipt[i] \in {"succeeded", "reverted"}
    BY <1>7 DEF Safe!Confirm, SafeInv, SafeTypes, ReceiptTells
  <2>3. UNCHANGED <<compiled, safeSent, receipt, nonce, executed, bypassed>>
    BY <1>7 DEF Safe!Confirm, Safe!Safe
  <2>4. receipt[i] = "succeeded" => i \in executed /\ s = "paid"
    BY <2>2 DEF SafeInv, ReceiptTells
  <2>5. receipt[i] = "reverted" => s = "failed"
    OBVIOUS
  <2> HIDE DEF s
  <2>6. PICK r \in SafeRow : r.status = s /\ safeRow' = [safeRow EXCEPT ![i] = r]
    BY <1>4, <2>1
  <2> QED
    BY <2>2, <2>3, <2>4, <2>5, <2>6, SafeMoves DEF SafeInv, SafeTypes
<1>8. ASSUME NEW i \in Intent, Safe!Land(i) PROVE SafeInv'
  <2>1. safeRow[i].status = "executing" /\ receipt[i] = None
    BY <1>8 DEF Safe!Land, SafeInv, ReceiptTells
  <2> QED
    BY <1>8, <2>1, TreasuryAssumption DEF Safe!Land, Safe!Spend, SafeInv, SafeTypes, ReceiptTells
<1>9. ASSUME NEW i \in Intent, Safe!BurnNonce(i) \/ Safe!SendThemselves(i) PROVE SafeInv'
  BY <1>9 DEF Safe!BurnNonce, Safe!SendThemselves, Safe!Spend, SafeInv, SafeTypes, ReceiptTells
<1>10. CASE Safe!OtherTransaction \/ UNCHANGED Safe!vars
  BY <1>10 DEF Safe!OtherTransaction, Safe!vars, Safe!Safe, SafeInv, SafeTypes, ReceiptTells
<1> QED
  BY <1>1, <1>2, <1>3, <1>5, <1>6, <1>7, <1>8, <1>9, <1>10 DEF Safe!Next

\* Of the component alone.
LEMMA SafeAlone == Safe!Spec => []OutcomeMatchesSafe
<1>1. SafeInv => OutcomeMatchesSafe
  BY DEF SafeInv, ReceiptTells, OutcomeMatchesSafe, Safe!OutcomeMatchesSafe
<1> QED
  BY <1>1, SafeInit, SafeStep, PTL DEF Safe!Spec

\* What Relay calls paid left the Safe, and what it ended without paying did not,
\* unless the owners sent it themselves: for any number of payments that compete
\* for nonces, owners, rejections on chain and off it (confirm, execute).
THEOREM SafeTellsOutcome == Spec => []OutcomeMatchesSafe
<1>1. Init => Safe!Init
  BY DEF Init
<1>2. [Next]_<<part, squads, theSafe, x402, books, reading, recurring, others>> => [Safe!Next]_(Safe!vars)
  BY DEF Next, theSafe, Safe!vars
<1> QED
  BY <1>1, <1>2, SafeAlone, PTL DEF Spec, Safe!Spec

(***************************************************************************)
(* Purchases over x402.  X402Inv says that what an intent signed and       *)
(* persisted is all that a seller ever holds of it or settles, and that    *)
(* what was found on chain for an intent pays its payee from its account.  *)
(***************************************************************************)
X402Status == {"requested", "rejected", "policy_evaluated", "approval_required", "approved", "executing",
               "submitted", "failed", "expired"}

Quoted == [payable : BOOLEAN, payTo : Payee, amount : Price]

Auth == [intent : Intent, nonce : Nat, quote : Quoted \cup {None}, signers : SUBSET Owner]

X402Row ==
  [status : X402Status, quote : Quoted \cup {None}, asked : SUBSET Owner, signers : SUBSET Owner,
   execution : {None, "simulated", "signed"}, auth : Auth \cup {None}, settlement : Auth \cup {None}]

X402Types ==
  /\ governed \subseteq Intent
  /\ x402Row \in [Intent -> X402Row]
  /\ x402Handler = [i \in Intent |-> x402Handler[i]]
  /\ \A i \in Intent : x402Handler[i].at = "publish" => x402Handler[i].owners \subseteq Owner
  /\ nonces \in [Intent -> Nat]
  /\ x402Owners \subseteq Owner
  /\ presented \subseteq Auth
  /\ x402Chain \in Seq(Auth)

\* An authorization of intent i, for what it was quoted.
OfIntent(a, i) == a \in Auth /\ a.intent = i /\ a.quote = x402Row[i].quote

\* Where the worker is, by what the row says: an intent that is signed is never
\* signed again.
SignedOnce(i) ==
  LET r == x402Row[i]
      h == x402Handler[i]
  IN
  /\ h.at = "publish" => r.status = "policy_evaluated"
  /\ h.at = "sign" => r.status \in {"approved", "executing"}
  /\ h.at \in {"persist", "pay", "answer", "recover", "submit"} => r.status = "executing"
  /\ h.at \in {"sign", "persist"} => r.execution # "signed"
  /\ h.at \in {"pay", "answer", "recover"} => r.execution = "signed"
  /\ h.at = "persist" => OfIntent(h.auth, i)
  /\ r.execution = "signed" => OfIntent(r.auth, i) /\ r.status \in {"executing", "submitted", "failed"}

\* What was approved, within the limit of the intent and by enough owners.
ApprovedFirst(i) ==
  LET r == x402Row[i] IN
  /\ r.status \notin {"requested", "rejected"} => r.quote # None
  /\ r.quote # None => r.quote.amount <= MaxAmount
  /\ i \in governed /\ r.status \in {"approved", "executing", "submitted", "failed"} =>
       X402!Cardinality(r.signers) >= X402!Required

\* A settlement on chain to the payee of intent i, from the account of i.
Found(a, i) ==
  /\ a \in X402!Settled
  /\ a.quote.payTo = x402Row[i].quote.payTo
  /\ a.intent \in governed <=> i \in governed

FoundOnChain(i) ==
  /\ x402Handler[i].at = "submit" => Found(x402Handler[i].settlement, i)
  /\ x402Row[i].settlement # None => Found(x402Row[i].settlement, i) /\ x402Row[i].status = "submitted"

\* Sellers have of an intent only what it persisted.
SellersHold ==
  \A a \in presented \cup X402!Settled :
    x402Row[a.intent].execution = "signed" /\ a = x402Row[a.intent].auth

X402Inv ==
  /\ X402Types
  /\ \A i \in Intent : SignedOnce(i) /\ ApprovedFirst(i) /\ FoundOnChain(i)
  /\ SellersHold /\ X402!SettledOnce

\* Nothing is quoted, signed or settled at first.
LEMMA X402Init == X402!Init => X402Inv
<1> SUFFICES ASSUME X402!Init PROVE X402Inv
  OBVIOUS
<1>1. X402Types
  BY DEF X402!Init, X402!Idle, X402Types, X402Row, X402Status
<1>2. ASSUME NEW i \in Intent PROVE SignedOnce(i) /\ ApprovedFirst(i) /\ FoundOnChain(i)
  BY TreasuryAssumption DEF X402!Init, X402!Idle, SignedOnce, ApprovedFirst, FoundOnChain
<1>3. SellersHold /\ X402!SettledOnce
  BY DEF X402!Init, SellersHold, X402!Settled, X402!SettledOnce
<1> QED
  BY <1>1, <1>2, <1>3 DEF X402Inv

\* The settlements on chain are authorizations.
LEMMA SettledAuth == X402Inv => X402!Settled \subseteq Auth
BY DEF X402Inv, X402Types, X402!Settled

\* A step on the row of one intent, or of the worker at it, keeps everything if it
\* keeps what is said of that intent, and changes no authorization that is signed.
LEMMA OneIntentMoves ==
  ASSUME X402Inv, NEW i \in Intent, NEW r \in X402Row, NEW h,
         x402Row' = [x402Row EXCEPT ![i] = r], x402Handler' = [x402Handler EXCEPT ![i] = h],
         h.at = "publish" => h.owners \subseteq Owner,
         UNCHANGED <<governed, x402Chain, presented, x402Owners>>, nonces' \in [Intent -> Nat],
         x402Row[i].execution = "signed" => r.execution = "signed" /\ r.auth = x402Row[i].auth,
         SignedOnce(i)', ApprovedFirst(i)', FoundOnChain(i)'
  PROVE  X402Inv'
<1>1. /\ x402Row'[i] = r /\ \A j \in Intent : j # i => x402Row'[j] = x402Row[j]
      /\ x402Handler'[i] = h /\ \A j \in Intent : j # i => x402Handler'[j] = x402Handler[j]
  BY DEF X402Inv, X402Types
<1>2. X402Types'
  BY <1>1 DEF X402Inv, X402Types
<1>3. ASSUME NEW j \in Intent, j # i PROVE SignedOnce(j)' /\ ApprovedFirst(j)' /\ FoundOnChain(j)'
  <2>1. SignedOnce(j) /\ ApprovedFirst(j) /\ FoundOnChain(j) /\ x402Row'[j] = x402Row[j] /\ x402Handler'[j] = x402Handler[j]
    BY <1>1, <1>3 DEF X402Inv
  <2>2. SignedOnce(j)'
    BY <2>1 DEF SignedOnce, OfIntent
  <2>3. ApprovedFirst(j)'
    BY <2>1 DEF ApprovedFirst, X402!Required
  <2>4. FoundOnChain(j)'
    BY <2>1 DEF FoundOnChain, Found, X402!Settled
  <2> QED
    BY <2>2, <2>3, <2>4
<1>4. \A j \in Intent : SignedOnce(j)' /\ ApprovedFirst(j)' /\ FoundOnChain(j)'
  BY <1>3
<1>5. SellersHold'
  BY <1>1, SettledAuth DEF X402Inv, X402Types, SellersHold, X402!Settled, Auth
<1>6. X402!SettledOnce'
  BY DEF X402Inv, X402!SettledOnce
<1> QED
  BY <1>2, <1>4, <1>5, <1>6 DEF X402Inv

\* What a step of the worker or of a decision starts from.
LEMMA OneIntent ==
  ASSUME X402Inv, NEW i \in Intent
  PROVE  /\ x402Row[i] \in X402Row /\ SignedOnce(i) /\ ApprovedFirst(i) /\ FoundOnChain(i)
         /\ x402Handler[i].at = "publish" => x402Handler[i].owners \subseteq Owner
         /\ nonces[i] \in Nat /\ nonces \in [Intent -> Nat] /\ x402Owners \subseteq Owner
         /\ x402Row = [x402Row EXCEPT ![i] = x402Row[i]]
         /\ x402Handler = [x402Handler EXCEPT ![i] = x402Handler[i]]
BY DEF X402Inv, X402Types

\* Intake, decisions and the publication of the authorization.
LEMMA X402Decides ==
  ASSUME X402Inv, NEW i \in Intent,
         \/ X402!Evaluate(i) \/ X402!BeginPublish(i) \/ X402!CompletePublication(i) \/ X402!Reject(i)
         \/ \E o \in Owner, m \in X402!Messages : X402!Approve(i, [by |-> o, over |-> m])
  PROVE  X402Inv'
<1> DEFINE r == x402Row[i]
           h == x402Handler[i]
<1>0. /\ r \in X402Row /\ SignedOnce(i) /\ ApprovedFirst(i) /\ FoundOnChain(i)
      /\ h.at = "publish" => h.owners \subseteq Owner
      /\ nonces[i] \in Nat /\ nonces \in [Intent -> Nat] /\ x402Owners \subseteq Owner
      /\ x402Row = [x402Row EXCEPT ![i] = r] /\ x402Handler = [x402Handler EXCEPT ![i] = h]
  BY OneIntent
<1>r. ASSUME NEW n \in X402Row, x402Row' = [x402Row EXCEPT ![i] = n] PROVE x402Row'[i] = n
  BY <1>r DEF X402Inv, X402Types
<1>h. ASSUME NEW g, x402Handler' = [x402Handler EXCEPT ![i] = g] PROVE x402Handler'[i] = g
  BY <1>h DEF X402Inv, X402Types
<1> DEFINE Unsigned(n) == n.execution = r.execution /\ n.auth = r.auth /\ n.settlement = r.settlement
<1>1. ASSUME NEW n \in X402Row, NEW g, Unsigned(n), r.execution # "signed", r.settlement = None,
             x402Row' = [x402Row EXCEPT ![i] = n], x402Handler' = [x402Handler EXCEPT ![i] = g],
             g.at = "publish" => g.owners \subseteq Owner /\ n.status = "policy_evaluated",
             g.at \notin {"sign", "persist", "pay", "answer", "recover", "submit"},
             n.status \notin {"requested", "rejected"} => n.quote # None,
             n.quote # None => n.quote.amount <= MaxAmount,
             i \in governed /\ n.status \in {"approved", "executing", "submitted", "failed"} =>
               X402!Cardinality(n.signers) >= X402!Required,
             UNCHANGED <<governed, x402Chain, presented, x402Owners, nonces>>
      PROVE  X402Inv'
  <2>1. x402Row'[i] = n /\ x402Handler'[i] = g
    BY <1>1, <1>r, <1>h
  <2>2. SignedOnce(i)'
    BY <1>1, <2>1 DEF SignedOnce
  <2>3. ApprovedFirst(i)'
    BY <1>1, <2>1 DEF ApprovedFirst, X402!Required
  <2>4. FoundOnChain(i)'
    BY <1>1, <2>1 DEF FoundOnChain
  <2> QED
    BY <1>0, <1>1, <2>1, <2>2, <2>3, <2>4, OneIntentMoves
<1>2. ASSUME r.status \in {"requested", "policy_evaluated", "approval_required"}
      PROVE  r.execution # "signed" /\ r.settlement = None
             /\ h.at \notin {"sign", "persist", "pay", "answer", "recover", "submit"}
  BY <1>0, <1>2 DEF SignedOnce, FoundOnChain
<1>3. CASE X402!Evaluate(i)
  <2>1. PICK n \in X402Row :
          /\ x402Row' = [x402Row EXCEPT ![i] = n] /\ Unsigned(n)
          /\ n.status \notin {"requested", "rejected"} => n.quote # None
          /\ n.quote # None => n.quote.amount <= MaxAmount
          /\ i \in governed /\ n.status \in {"approved", "executing", "submitted", "failed"} => FALSE
    <3>1. CASE x402Row' = [x402Row EXCEPT ![i].status = "rejected"]
      <4> DEFINE n == [r EXCEPT !.status = "rejected"]
      <4>1. n \in X402Row /\ n.status = "rejected" /\ n.quote = r.quote /\ Unsigned(n)
        BY <1>0 DEF X402Row, X402Status
      <4>2. x402Row' = [x402Row EXCEPT ![i] = n]
        BY <3>1
      <4> QED
        BY <1>0, <4>1, <4>2 DEF ApprovedFirst
    <3>2. CASE \E accepts \in SUBSET Quoted : \E quote \in X402!Quotes(accepts) :
                 x402Row' = [x402Row EXCEPT ![i].quote = quote,
                               ![i].status = IF i \in governed THEN "policy_evaluated" ELSE "approved"]
      <4>1. PICK accepts \in SUBSET Quoted : \E quote \in X402!Quotes(accepts) :
                 x402Row' = [x402Row EXCEPT ![i].quote = quote,
                               ![i].status = IF i \in governed THEN "policy_evaluated" ELSE "approved"]
        BY <3>2
      <4>2. PICK quote \in Quoted : quote.amount <= MaxAmount /\
                 x402Row' = [x402Row EXCEPT ![i].quote = quote,
                               ![i].status = IF i \in governed THEN "policy_evaluated" ELSE "approved"]
        BY <4>1 DEF X402!Quotes
      <4> DEFINE s == IF i \in governed THEN "policy_evaluated" ELSE "approved"
                 n == [r EXCEPT !.quote = quote, !.status = s]
      <4>3. n \in X402Row /\ n.status = s /\ n.quote = quote /\ Unsigned(n)
        BY <1>0 DEF X402Row, X402Status
      <4>4. x402Row' = [x402Row EXCEPT ![i] = n]
        BY <4>2
      <4>5. quote # None
        BY TreasuryAssumption DEF Quoted
      <4>6. i \in governed => n.status = "policy_evaluated"
        BY <4>3
      <4>7. n.quote # None /\ (n.quote # None => n.quote.amount <= MaxAmount)
        BY <4>2, <4>3, <4>5
      <4>8. i \in governed /\ n.status \in {"approved", "executing", "submitted", "failed"} => FALSE
        BY <4>6
      <4> HIDE DEF n, Unsigned
      <4> QED
        BY <4>3, <4>4, <4>7, <4>8
    <3> QED
      BY <1>3, <3>1, <3>2 DEF X402!Evaluate, Quoted
  <2>2. r.status = "requested" /\ UNCHANGED <<x402Handler, nonces, governed, presented, x402Owners, x402Chain>>
    BY <1>3 DEF X402!Evaluate, X402!Outside
  <2>3. h.at # "publish"
    BY <1>0, <2>2 DEF SignedOnce
  <2> HIDE DEF Unsigned
  <2> QED
    BY <1>0, <1>1, <1>2, <2>1, <2>2, <2>3
<1>4. CASE X402!BeginPublish(i)
  <2>1. /\ r.status = "policy_evaluated" /\ UNCHANGED <<x402Row, nonces, governed, presented, x402Owners, x402Chain>>
        /\ x402Handler' = [x402Handler EXCEPT ![i] = [at |-> "publish", owners |-> x402Owners]]
    BY <1>4 DEF X402!BeginPublish, X402!Outside, X402!Goto
  <2>2. r.execution # "signed" /\ r.settlement = None /\ x402Row' = [x402Row EXCEPT ![i] = r]
    BY <1>0, <1>2, <2>1
  <2> DEFINE g == [at |-> "publish", owners |-> x402Owners]
  <2>3. g.at = "publish" /\ g.owners = x402Owners
    OBVIOUS
  <2>4. r.quote # None /\ (r.quote # None => r.quote.amount <= MaxAmount)
    BY <1>0, <2>1 DEF ApprovedFirst
  <2> HIDE DEF g, r
  <2> QED
    BY <1>0, <1>1, <2>1, <2>2, <2>3, <2>4 DEF g, Unsigned
<1>5. CASE X402!CompletePublication(i)
  <2> DEFINE n == [r EXCEPT !.status = "approval_required", !.asked = h.owners]
  <2>1. /\ h.at = "publish" /\ UNCHANGED <<nonces, governed, presented, x402Owners, x402Chain>>
        /\ x402Row' = [x402Row EXCEPT ![i] = n]
        /\ x402Handler' = [x402Handler EXCEPT ![i] = X402!Idle]
    BY <1>5 DEF X402!CompletePublication, X402!Outside, X402!Goto
  <2>2. r.status = "policy_evaluated" /\ h.owners \subseteq Owner
    BY <1>0, <2>1 DEF SignedOnce
  <2>3. n \in X402Row /\ n.status = "approval_required" /\ n.quote = r.quote /\ Unsigned(n)
    BY <1>0, <2>2 DEF X402Row, X402Status
  <2>4. X402!Idle.at = "idle" /\ n.quote # None /\ (n.quote # None => n.quote.amount <= MaxAmount)
    BY <1>0, <2>2, <2>3 DEF ApprovedFirst, X402!Idle
  <2> HIDE DEF n, Unsigned, r
  <2> QED
    BY <1>1, <1>2, <2>1, <2>2, <2>3, <2>4
<1>6. CASE X402!Reject(i)
  <2>1. PICK s \in {"rejected", "expired"} : x402Row' = [x402Row EXCEPT ![i].status = s]
    BY <1>6 DEF X402!Reject
  <2>2. r.status = "approval_required" /\ UNCHANGED <<x402Handler, nonces, governed, presented, x402Owners, x402Chain>>
    BY <1>6 DEF X402!Reject, X402!Outside
  <2> DEFINE n == [r EXCEPT !.status = s]
  <2>3. n \in X402Row /\ n.status = s /\ n.quote = r.quote /\ Unsigned(n)
    BY <1>0 DEF X402Row, X402Status
  <2>4. h.at # "publish" /\ n.quote # None /\ (n.quote # None => n.quote.amount <= MaxAmount)
    BY <1>0, <2>2, <2>3 DEF ApprovedFirst, SignedOnce
  <2>5. x402Row' = [x402Row EXCEPT ![i] = n]
    BY <2>1
  <2> HIDE DEF n, Unsigned, r
  <2> QED
    BY <1>0, <1>1, <1>2, <2>1, <2>2, <2>3, <2>4, <2>5
<1>7. ASSUME NEW o \in Owner, NEW m \in X402!Messages, X402!Approve(i, [by |-> o, over |-> m])
      PROVE  X402Inv'
  <2> DEFINE signers == r.signers \cup {o}
             s == IF X402!Cardinality(signers) >= X402!Required THEN "approved" ELSE "approval_required"
             n == [r EXCEPT !.signers = signers, !.status = s]
  <2>1. r.status = "approval_required" /\ UNCHANGED <<x402Handler, nonces, governed, presented, x402Owners, x402Chain>>
    BY <1>7 DEF X402!Approve, X402!Outside
  <2>2. x402Row' = [x402Row EXCEPT ![i] = n]
    BY <1>7 DEF X402!Approve
  <2>3. n \in X402Row /\ n.status = s /\ n.quote = r.quote /\ n.signers = signers /\ Unsigned(n)
    BY <1>0 DEF X402Row, X402Status
  <2>4. h.at # "publish" /\ n.quote # None /\ (n.quote # None => n.quote.amount <= MaxAmount)
    BY <1>0, <2>1, <2>3 DEF ApprovedFirst, SignedOnce
  <2>5. n.status \in {"approved", "executing", "submitted", "failed"} => X402!Cardinality(n.signers) >= X402!Required
    BY <2>3
  <2> HIDE DEF n, Unsigned, r
  <2> QED
    BY <1>0, <1>1, <1>2, <2>1, <2>2, <2>3, <2>4, <2>5
<1> QED
  BY <1>3, <1>4, <1>5, <1>6, <1>7

\* The worker's own steps up to the paid request, and the ones that give up.
LEMMA X402Works ==
  ASSUME X402Inv, NEW i \in Intent,
         \/ X402!Begin(i) \/ X402!SignPayment(i) \/ X402!AssemblePayment(i) \/ X402!MarkSigned(i)
         \/ X402!Recover(i) \/ X402!Answer(i) \/ X402!MarkSubmitted(i) \/ X402!Interrupt(i)
  PROVE  X402Inv'
<1> DEFINE r == x402Row[i]
           h == x402Handler[i]
<1>0. /\ r \in X402Row /\ SignedOnce(i) /\ ApprovedFirst(i) /\ FoundOnChain(i)
      /\ h.at = "publish" => h.owners \subseteq Owner
      /\ nonces[i] \in Nat /\ nonces \in [Intent -> Nat] /\ x402Owners \subseteq Owner
      /\ x402Row = [x402Row EXCEPT ![i] = r] /\ x402Handler = [x402Handler EXCEPT ![i] = h]
  BY OneIntent
<1>r. ASSUME NEW n \in X402Row, x402Row' = [x402Row EXCEPT ![i] = n] PROVE x402Row'[i] = n
  BY <1>r DEF X402Inv, X402Types
<1>h. ASSUME NEW g, x402Handler' = [x402Handler EXCEPT ![i] = g] PROVE x402Handler'[i] = g
  BY <1>h DEF X402Inv, X402Types
\* A step on the worker alone.
<1>1. ASSUME NEW g, x402Handler' = [x402Handler EXCEPT ![i] = g],
             UNCHANGED <<x402Row, nonces, governed, presented, x402Owners, x402Chain>>,
             g.at \in {"idle", "sign", "pay", "recover", "submit"},
             g.at = "sign" => r.status \in {"approved", "executing"} /\ r.execution # "signed",
             g.at \in {"pay", "recover"} => r.status = "executing" /\ r.execution = "signed",
             g.at = "submit" => r.status = "executing" /\ Found(g.settlement, i)
      PROVE  X402Inv'
  <2>1. x402Row' = [x402Row EXCEPT ![i] = r] /\ x402Row'[i] = r /\ x402Handler'[i] = g
    BY <1>0, <1>1, <1>h
  <2>2. SignedOnce(i)'
    BY <1>0, <1>1, <2>1 DEF SignedOnce, OfIntent
  <2>3. ApprovedFirst(i)'
    BY <1>0, <1>1, <2>1 DEF ApprovedFirst, X402!Required
  <2>4. FoundOnChain(i)'
    BY <1>0, <1>1, <2>1 DEF FoundOnChain, Found, X402!Settled
  <2> HIDE DEF r
  <2> QED
    BY <1>0, <1>1, <2>1, <2>2, <2>3, <2>4, OneIntentMoves
<1>2. X402!Idle.at = "idle"
  BY DEF X402!Idle
\* What is looked up is on chain, for the payee and from the account of the intent.
<1>3. ASSUME NEW a \in X402!Lookup(i), a # None PROVE Found(a, i)
  BY <1>3 DEF X402!Lookup, X402!Matching, Found, X402!Settled
\* The row is simulated, and an authorization of the intent is at hand.
<1>4. ASSUME NEW a, OfIntent(a, i), h.at = "sign", x402Row' = X402!Simulated(i),
             x402Handler' = [x402Handler EXCEPT ![i] = [at |-> "persist", auth |-> a]],
             UNCHANGED <<governed, presented, x402Owners, x402Chain>>, nonces' \in [Intent -> Nat]
      PROVE  X402Inv'
  <2> DEFINE n == [r EXCEPT !.status = "executing", !.execution = "simulated"]
             g == [at |-> "persist", auth |-> a]
  <2>1. /\ n \in X402Row /\ n.status = "executing" /\ n.execution = "simulated" /\ n.quote = r.quote
        /\ n.settlement = r.settlement /\ n.signers = r.signers
    BY <1>0 DEF X402Row, X402Status
  <2>2. x402Row' = [x402Row EXCEPT ![i] = n]
    BY <1>4 DEF X402!Simulated
  <2>3. g.at = "persist" /\ g.auth = a
    OBVIOUS
  <2>4. r.status \in {"approved", "executing"} /\ r.execution # "signed" /\ r.settlement = None
    BY <1>0, <1>4 DEF SignedOnce, FoundOnChain
  <2> HIDE DEF n, g
  <2>5. x402Row'[i] = n /\ x402Handler'[i] = g
    BY <1>4, <2>1, <2>2, <1>r, <1>h DEF g
  <2>6. SignedOnce(i)'
    BY <1>4, <2>1, <2>3, <2>5 DEF SignedOnce, OfIntent
  <2>7. ApprovedFirst(i)'
    BY <1>0, <1>4, <2>1, <2>4, <2>5 DEF ApprovedFirst, X402!Required
  <2>8. FoundOnChain(i)'
    BY <2>1, <2>3, <2>4, <2>5 DEF FoundOnChain
  <2> QED
    BY <1>4, <2>1, <2>2, <2>3, <2>4, <2>6, <2>7, <2>8, OneIntentMoves DEF g
<1>5. CASE X402!Begin(i)
  <2>1. /\ h = X402!Idle /\ r.status \in {"approved", "executing"}
        /\ UNCHANGED <<nonces, governed, presented, x402Owners, x402Chain>>
    BY <1>5 DEF X402!Begin, X402!Outside
  <2>2. CASE x402Handler' = [x402Handler EXCEPT ![i] = [at |-> X402!Resume(i)]] /\ UNCHANGED x402Row
    <3>1. X402!Resume(i) \in {"sign", "recover"} /\ (X402!Resume(i) = "recover" <=> r.execution = "signed")
      BY DEF X402!Resume
    <3>2. r.execution = "signed" => r.status = "executing"
      BY <1>0, <2>1 DEF SignedOnce
    <3>3. PICK g : g.at = X402!Resume(i) /\ x402Handler' = [x402Handler EXCEPT ![i] = g]
      <4>1. [at |-> X402!Resume(i)].at = X402!Resume(i)
        OBVIOUS
      <4> QED
        BY <2>2, <4>1
    <3>4. /\ g.at \in {"idle", "sign", "pay", "recover", "submit"}
          /\ g.at = "sign" => r.status \in {"approved", "executing"} /\ r.execution # "signed"
          /\ g.at \in {"pay", "recover"} => r.status = "executing" /\ r.execution = "signed"
          /\ g.at = "submit" => r.status = "executing" /\ Found(g.settlement, i)
      BY <2>1, <3>1, <3>2, <3>3
    <3>5. UNCHANGED <<x402Row, nonces, governed, presented, x402Owners, x402Chain>>
      BY <2>1, <2>2
    <3> QED
      BY <1>1, <3>3, <3>4, <3>5
  <2>3. CASE x402Row' = [x402Row EXCEPT ![i].status = "failed"] /\ UNCHANGED x402Handler
    <3> DEFINE n == [r EXCEPT !.status = "failed"]
    <3>1. /\ n \in X402Row /\ n.status = "failed" /\ n.quote = r.quote /\ n.execution = r.execution
          /\ n.auth = r.auth /\ n.signers = r.signers /\ n.settlement = r.settlement
      BY <1>0 DEF X402Row, X402Status
    <3>2. x402Row' = [x402Row EXCEPT ![i] = n]
      BY <2>3
    <3>3. h.at = "idle" /\ r.settlement = None
      BY <1>0, <2>1, <1>2 DEF FoundOnChain
    <3> HIDE DEF n
    <3>4. x402Row'[i] = n /\ x402Handler'[i] = h
      BY <2>3, <3>1, <3>2, <1>r
    <3>5. SignedOnce(i)'
      BY <1>0, <3>1, <3>3, <3>4 DEF SignedOnce, OfIntent
    <3>6. ApprovedFirst(i)'
      BY <1>0, <2>1, <3>1, <3>4 DEF ApprovedFirst, X402!Required
    <3>7. FoundOnChain(i)'
      BY <3>1, <3>3, <3>4 DEF FoundOnChain
    <3>8. PICK g : x402Handler' = [x402Handler EXCEPT ![i] = g] /\ g.at = "idle"
      BY <1>0, <2>3, <3>3
    <3>9. nonces' \in [Intent -> Nat] /\ UNCHANGED <<governed, presented, x402Owners, x402Chain>>
      BY <1>0, <2>1
    <3> HIDE DEF r, h
    <3>10. x402Row[i].execution = "signed" => n.execution = "signed" /\ n.auth = x402Row[i].auth
      BY <3>1 DEF r
    <3> QED
      BY <3>1, <3>2, <3>5, <3>6, <3>7, <3>8, <3>9, <3>10, OneIntentMoves
  <2> QED
    BY <1>5, <2>2, <2>3 DEF X402!Begin, X402!Goto
<1>6. CASE X402!SignPayment(i)
  <2> DEFINE a == [intent |-> i, nonce |-> nonces'[i], quote |-> r.quote, signers |-> {}]
  <2>1. /\ h.at = "sign" /\ x402Row' = X402!Simulated(i)
        /\ x402Handler' = [x402Handler EXCEPT ![i] = [at |-> "persist", auth |-> a]]
        /\ nonces' = [nonces EXCEPT ![i] = nonces[i] + 1]
        /\ UNCHANGED <<governed, presented, x402Owners, x402Chain>>
    BY <1>6 DEF X402!SignPayment, X402!Outside, X402!Goto
  <2>2. nonces' \in [Intent -> Nat] /\ nonces'[i] \in Nat
    BY <1>0, <2>1
  <2>3. OfIntent(a, i)
    BY <1>0, <2>2 DEF OfIntent, Auth, X402Row
  <2> HIDE DEF a
  <2> QED
    BY <1>4, <2>1, <2>2, <2>3
<1>7. CASE X402!AssemblePayment(i)
  <2>1. PICK signers \in X402!Assembled(i) :
          x402Handler' = [x402Handler EXCEPT ![i] = [at |-> "persist",
             auth |-> [intent |-> i, nonce |-> X402!Derived, quote |-> r.quote, signers |-> signers]]]
    BY <1>7 DEF X402!AssemblePayment, X402!Goto
  <2> DEFINE a == [intent |-> i, nonce |-> X402!Derived, quote |-> r.quote, signers |-> signers]
  <2>2. /\ h.at = "sign" /\ x402Row' = X402!Simulated(i)
        /\ UNCHANGED <<nonces, governed, presented, x402Owners, x402Chain>>
    BY <1>7 DEF X402!AssemblePayment, X402!Outside
  <2>3. signers \subseteq r.signers
    BY DEF X402!Assembled, X402!kSubset
  <2>4. OfIntent(a, i)
    BY <1>0, <2>3 DEF OfIntent, Auth, X402Row, X402!Derived
  <2> HIDE DEF a
  <2> QED
    BY <1>0, <1>4, <2>1, <2>2, <2>4 DEF a
<1>8. CASE X402!MarkSigned(i)
  <2> DEFINE n == [r EXCEPT !.execution = "signed", !.auth = h.auth]
             g == [at |-> "pay"]
  <2>1. /\ h.at = "persist" /\ x402Row' = [x402Row EXCEPT ![i] = n]
        /\ x402Handler' = [x402Handler EXCEPT ![i] = g]
        /\ UNCHANGED <<nonces, governed, presented, x402Owners, x402Chain>>
    BY <1>8 DEF X402!MarkSigned, X402!Outside, X402!Goto
  <2>2. r.status = "executing" /\ r.execution # "signed" /\ OfIntent(h.auth, i) /\ r.settlement = None
    BY <1>0, <2>1 DEF SignedOnce, FoundOnChain
  <2>3. /\ n \in X402Row /\ n.status = r.status /\ n.quote = r.quote /\ n.execution = "signed"
        /\ n.auth = h.auth /\ n.signers = r.signers /\ n.settlement = r.settlement
    BY <1>0, <2>2 DEF X402Row, OfIntent
  <2>4. g.at = "pay"
    OBVIOUS
  <2> HIDE DEF n, g
  <2>5. x402Row'[i] = n /\ x402Handler'[i] = g
    BY <2>1, <2>3, <1>r, <1>h
  <2>6. SignedOnce(i)'
    BY <2>2, <2>3, <2>4, <2>5 DEF SignedOnce, OfIntent
  <2>7. ApprovedFirst(i)'
    BY <1>0, <2>1, <2>3, <2>5 DEF ApprovedFirst, X402!Required
  <2>8. FoundOnChain(i)'
    BY <2>2, <2>3, <2>4, <2>5 DEF FoundOnChain
  <2> QED
    BY <1>0, <2>1, <2>2, <2>3, <2>4, <2>6, <2>7, <2>8, OneIntentMoves
<1>9. CASE X402!Recover(i) \/ X402!Answer(i)
  <2>1. /\ h.at \in {"recover", "answer"}
        /\ UNCHANGED <<x402Row, nonces, governed, presented, x402Owners, x402Chain>>
    BY <1>9 DEF X402!Recover, X402!Answer, X402!Outside
  <2>2. r.status = "executing" /\ r.execution = "signed" /\ OfIntent(r.auth, i)
    BY <1>0, <2>1 DEF SignedOnce
  <2>3. PICK g : /\ x402Handler' = [x402Handler EXCEPT ![i] = g]
                 /\ \/ g.at \in {"idle", "pay"}
                    \/ g.at = "submit" /\ Found(g.settlement, i)
    <3>1. ASSUME NEW a, Found(a, i), x402Handler' = [x402Handler EXCEPT ![i] = [at |-> "submit", settlement |-> a]]
          PROVE  \E g : x402Handler' = [x402Handler EXCEPT ![i] = g] /\ g.at = "submit" /\ Found(g.settlement, i)
      <4>1. [at |-> "submit", settlement |-> a].at = "submit" /\ [at |-> "submit", settlement |-> a].settlement = a
        OBVIOUS
      <4> QED
        BY <3>1, <4>1
    <3>2. ASSUME NEW found \in X402!Lookup(i), NEW g, g.at \in {"idle", "pay"},
                 X402!Goto(i, IF found = None THEN g ELSE [at |-> "submit", settlement |-> found])
          PROVE  \E k : /\ x402Handler' = [x402Handler EXCEPT ![i] = k]
                        /\ \/ k.at \in {"idle", "pay"}
                           \/ k.at = "submit" /\ Found(k.settlement, i)
      <4>1. CASE found = None
        BY <3>2, <4>1 DEF X402!Goto
      <4>2. CASE found # None
        <5>1. Found(found, i)
          BY <1>3, <4>2
        <5>2. x402Handler' = [x402Handler EXCEPT ![i] = [at |-> "submit", settlement |-> found]]
          BY <3>2, <4>2 DEF X402!Goto
        <5> QED
          BY <3>1, <5>1, <5>2
      <4> QED
        BY <4>1, <4>2
    <3>3. CASE X402!Recover(i)
      <4>1. PICK found \in X402!Lookup(i) :
              X402!Goto(i, IF found = None THEN [at |-> "pay"] ELSE [at |-> "submit", settlement |-> found])
        BY <3>3 DEF X402!Recover
      <4> DEFINE g == [at |-> "pay"]
      <4>2. g.at = "pay" /\ X402!Goto(i, IF found = None THEN g ELSE [at |-> "submit", settlement |-> found])
        BY <4>1
      <4> HIDE DEF g
      <4> QED
        BY <3>2, <4>2
    <3>4. CASE X402!Answer(i)
      <4>1. CASE \E found \in X402!Lookup(i) : X402!Goto(i, IF found = None THEN X402!Idle
                                                         ELSE [at |-> "submit", settlement |-> found])
        BY <1>2, <3>2, <4>1
      <4>2. CASE r.auth \in X402!Settled /\ X402!Goto(i, [at |-> "submit", settlement |-> r.auth])
        <5>1. Found(r.auth, i)
          BY <2>2, <4>2 DEF Found, OfIntent
        <5> QED
          BY <3>1, <4>2, <5>1 DEF X402!Goto
      <4> QED
        BY <3>4, <4>1, <4>2 DEF X402!Answer
    <3> QED
      BY <1>9, <3>3, <3>4
  <2> QED
    BY <1>1, <2>1, <2>2, <2>3
<1>10. CASE X402!MarkSubmitted(i)
  <2> DEFINE n == [r EXCEPT !.status = "submitted", !.settlement = h.settlement]
  <2>1. /\ h.at = "submit" /\ x402Row' = [x402Row EXCEPT ![i] = n]
        /\ x402Handler' = [x402Handler EXCEPT ![i] = X402!Idle]
        /\ UNCHANGED <<nonces, governed, presented, x402Owners, x402Chain>>
    BY <1>10 DEF X402!MarkSubmitted, X402!Outside, X402!Goto
  <2>2. r.status = "executing" /\ Found(h.settlement, i)
    BY <1>0, <2>1 DEF SignedOnce, FoundOnChain
  <2>3. /\ n \in X402Row /\ n.status = "submitted" /\ n.quote = r.quote /\ n.execution = r.execution
        /\ n.auth = r.auth /\ n.signers = r.signers /\ n.settlement = h.settlement
    BY <1>0, <2>2, SettledAuth DEF X402Row, X402Status, Found
  <2> HIDE DEF n
  <2>4. x402Row'[i] = n /\ x402Handler'[i] = X402!Idle
    BY <2>1, <2>3, <1>r, <1>h
  <2>5. SignedOnce(i)'
    BY <1>0, <1>2, <2>2, <2>3, <2>4 DEF SignedOnce, OfIntent
  <2>6. ApprovedFirst(i)'
    BY <1>0, <2>1, <2>2, <2>3, <2>4 DEF ApprovedFirst, X402!Required
  <2>7. FoundOnChain(i)'
    BY <1>2, <2>1, <2>2, <2>3, <2>4 DEF FoundOnChain, Found, X402!Settled
  <2> QED
    BY <1>0, <1>2, <2>1, <2>3, <2>5, <2>6, <2>7, OneIntentMoves
<1>11. CASE X402!Interrupt(i)
  BY <1>1, <1>2, <1>11 DEF X402!Interrupt, X402!Goto, X402!Outside
<1> QED
  BY <1>5, <1>6, <1>7, <1>8, <1>9, <1>10, <1>11

\* Every step keeps the invariant: the worker's, and those of sellers and owners.
LEMMA X402Step == X402Inv /\ [X402!Next]_(X402!vars) => X402Inv'
<1> SUFFICES ASSUME X402Inv, [X402!Next]_(X402!vars) PROVE X402Inv'
  OBVIOUS
<1>1. \A i \in Intent : x402Row[i] \in X402Row /\ SignedOnce(i) /\ ApprovedFirst(i) /\ FoundOnChain(i)
  BY OneIntent
\* A step that moves neither rows nor workers.
<1>2. ASSUME UNCHANGED <<governed, x402Row, x402Handler, nonces>>,
             X402!Settled \subseteq X402!Settled'
      PROVE  \A i \in Intent : SignedOnce(i)' /\ ApprovedFirst(i)' /\ FoundOnChain(i)'
  BY <1>1, <1>2 DEF SignedOnce, OfIntent, ApprovedFirst, X402!Required, FoundOnChain, Found
<1>3. ASSUME NEW i \in Intent, X402!Pay(i) PROVE X402Inv'
  <2> DEFINE g == [at |-> "answer"]
  <2>1. /\ x402Handler[i].at = "pay" /\ x402Handler' = [x402Handler EXCEPT ![i] = g]
        /\ presented' \subseteq presented \cup {x402Row[i].auth}
        /\ UNCHANGED <<governed, x402Row, nonces, x402Owners, x402Chain>>
    BY <1>3 DEF X402!Pay, X402!Goto
  <2>2. x402Row[i].execution = "signed" /\ OfIntent(x402Row[i].auth, i) /\ x402Row[i].status = "executing"
    BY <1>1, <2>1 DEF SignedOnce
  <2>3. g.at = "answer"
    OBVIOUS
  <2> HIDE DEF g
  <2>4. x402Handler'[i] = g /\ \A j \in Intent : j # i => x402Handler'[j] = x402Handler[j]
    BY <2>1 DEF X402Inv, X402Types
  <2>5. X402Types'
    BY <2>1, <2>2, <2>3, <2>4 DEF X402Inv, X402Types, OfIntent
  <2>6. \A j \in Intent : SignedOnce(j)'
    BY <1>1, <2>1, <2>2, <2>3, <2>4 DEF SignedOnce, OfIntent
  <2>7. \A j \in Intent : ApprovedFirst(j)'
    BY <1>1, <2>1 DEF ApprovedFirst, X402!Required
  <2>8. \A j \in Intent : FoundOnChain(j)'
    BY <1>1, <2>1, <2>3, <2>4 DEF FoundOnChain, Found, X402!Settled
  <2>9. SellersHold'
    BY <2>1, <2>2 DEF X402Inv, SellersHold, X402!Settled, OfIntent
  <2>10. X402!SettledOnce'
    BY <2>1 DEF X402Inv, X402!SettledOnce
  <2> QED
    BY <2>5, <2>6, <2>7, <2>8, <2>9, <2>10 DEF X402Inv
\* A second settlement of an intent would take the same nonce.
<1>4. ASSUME NEW a \in presented, X402!Settle(a) PROVE X402Inv'
  <2>1. /\ x402Chain' = Append(x402Chain, a) /\ presented' = presented \ {a} /\ ~X402!Used(a)
        /\ UNCHANGED <<governed, x402Row, x402Handler, nonces, x402Owners>>
    BY <1>4 DEF X402!Settle
  <2>2. a \in Auth /\ x402Chain \in Seq(Auth) /\ x402Chain' \in Seq(Auth)
    BY <2>1 DEF X402Inv, X402Types
  <2>3. /\ DOMAIN x402Chain' = 1..Len(x402Chain) + 1 /\ DOMAIN x402Chain = 1..Len(x402Chain)
        /\ \A n \in DOMAIN x402Chain : x402Chain'[n] = x402Chain[n]
        /\ x402Chain'[Len(x402Chain) + 1] = a /\ Len(x402Chain) \in Nat
    BY <2>1, <2>2
  <2>4. X402!Settled' = X402!Settled \cup {a}
    BY <2>3 DEF X402!Settled
  <2>5. X402Types'
    BY <2>1, <2>2 DEF X402Inv, X402Types
  <2>6. SellersHold'
    BY <2>1, <2>4 DEF X402Inv, SellersHold
  <2>7. \A n \in DOMAIN x402Chain : x402Chain[n].intent # a.intent
    <3> SUFFICES ASSUME NEW n \in DOMAIN x402Chain, x402Chain[n].intent = a.intent PROVE FALSE
      OBVIOUS
    <3>1. x402Chain[n] \in X402!Settled
      BY DEF X402!Settled
    <3>2. x402Chain[n] = x402Row[a.intent].auth /\ a = x402Row[a.intent].auth
      BY <3>1 DEF X402Inv, SellersHold
    <3> QED
      BY <2>1, <3>1, <3>2 DEF X402!Used
  <2>8. X402!SettledOnce'
    BY <2>3, <2>7 DEF X402Inv, X402!SettledOnce
  <2> QED
    BY <1>2, <2>1, <2>4, <2>5, <2>6, <2>8 DEF X402Inv
<1>5. CASE \/ \E a \in presented : X402!Lapse(a)
           \/ X402!OwnersLeave \/ UNCHANGED X402!vars
  <2>1. /\ presented' \subseteq presented /\ x402Owners' \subseteq x402Owners
        /\ UNCHANGED <<governed, x402Row, x402Handler, nonces, x402Chain>>
    BY <1>5 DEF X402!Lapse, X402!OwnersLeave, X402!vars
  <2>2. X402Types'
    BY <2>1 DEF X402Inv, X402Types
  <2>3. SellersHold' /\ X402!SettledOnce' /\ X402!Settled' = X402!Settled
    BY <2>1 DEF X402Inv, SellersHold, X402!Settled, X402!SettledOnce
  <2> QED
    BY <1>2, <2>1, <2>2, <2>3 DEF X402Inv
<1> QED
  BY <1>3, <1>4, <1>5, X402Works, X402Decides DEF X402!Next, X402Inv, X402Types

\* Of the component alone.
LEMMA X402Alone == X402!Spec => []PurchasesSettled
<1>1. ASSUME X402Inv PROVE PurchasesSettled
  <2>1. \A i \in Intent : SignedOnce(i) /\ ApprovedFirst(i) /\ FoundOnChain(i)
    BY <1>1 DEF X402Inv
  <2>2. X402!Settled \subseteq Auth
    BY <1>1, SettledAuth
  <2>3. ASSUME NEW a \in X402!Settled
        PROVE  /\ a.intent \in Intent /\ x402Row[a.intent].execution = "signed" /\ a = x402Row[a.intent].auth
               /\ a.quote = x402Row[a.intent].quote
               /\ a.quote # None /\ a.quote.amount <= MaxAmount
               /\ x402Row[a.intent].status \in {"executing", "submitted", "failed"}
               /\ a.intent \in governed => X402!Cardinality(x402Row[a.intent].signers) >= X402!Required
    <3>1. a.intent \in Intent
      BY <2>2 DEF Auth
    <3>2. x402Row[a.intent].execution = "signed" /\ a = x402Row[a.intent].auth
      BY <1>1 DEF X402Inv, SellersHold
    <3>3. OfIntent(a, a.intent) /\ x402Row[a.intent].status \in {"executing", "submitted", "failed"}
      BY <2>1, <3>1, <3>2 DEF SignedOnce
    <3> QED
      BY <2>1, <3>1, <3>2, <3>3 DEF ApprovedFirst, OfIntent
  <2>4. X402!SettledAsApproved
    <3> SUFFICES ASSUME NEW n \in DOMAIN x402Chain
                 PROVE  LET i == x402Chain[n].intent IN
                        /\ x402Chain[n].quote = x402Row[i].quote /\ x402Chain[n].quote.amount <= MaxAmount
                        /\ x402Row[i].status \in {"executing", "submitted", "failed"}
                        /\ i \in governed => X402!Cardinality(x402Row[i].signers) >= X402!Required
      BY DEF X402!SettledAsApproved
    <3>1. x402Chain[n] \in X402!Settled
      BY DEF X402!Settled
    <3> QED
      BY <2>3, <3>1
  <2>5. X402!SettlementIsOwn
    <3> SUFFICES ASSUME NEW i \in Intent, x402Row[i].settlement # None, \A j \in Intent : ~X402!Shares(i, j)
                 PROVE  x402Row[i].settlement \in X402!Settled /\ x402Row[i].settlement.intent = i
      BY DEF X402!SettlementIsOwn
    <3> DEFINE a == x402Row[i].settlement
    <3>1. Found(a, i) /\ x402Row[i].status = "submitted"
      BY <2>1 DEF FoundOnChain
    <3>2. x402Row[i].quote # None
      BY <2>1, <3>1 DEF ApprovedFirst
    <3>3. a \in X402!Settled
      BY <3>1 DEF Found
    <3>4. a.intent # i => X402!Shares(i, a.intent)
      BY <2>3, <3>1, <3>2, <3>3 DEF Found, X402!Shares
    <3> QED
      BY <2>3, <3>3, <3>4
  <2> QED
    BY <1>1, <2>4, <2>5 DEF X402Inv, PurchasesSettled, X402!PurchasesSettled
<1> QED
  BY <1>1, X402Init, X402Step, PTL DEF X402!Spec

\* A purchase is settled at most once, for what was quoted, within the limit and
\* with the approval of enough owners, and what is recorded is its own settlement
\* unless another purchase of the account pays the same payee: for any number of
\* purchases, sellers that settle late or never, crashes between signing,
\* persisting, paying and the answer, and owners that leave
\* (execute, buildX402, markSigned and the lookup of recovery).
THEOREM PurchasesAreSettled == Spec => []PurchasesSettled
<1>1. Init => X402!Init
  BY DEF Init
<1>2. [Next]_<<part, squads, theSafe, x402, books, reading, recurring, others>> => [X402!Next]_(X402!vars)
  BY DEF Next, x402, X402!vars
<1> QED
  BY <1>1, <1>2, X402Alone, PTL DEF Spec, X402!Spec

(***************************************************************************)
(* Recurring payments.                                                     *)
(***************************************************************************)
LEMMA Multiples ==
  ASSUME NEW n \in Nat, NEW m \in Nat
  PROVE  /\ Interval * n \in Nat /\ Interval * (n + 1) = Interval * n + Interval
         /\ n <= m <=> Interval * n <= Interval * m
<1> Interval \in Nat /\ Interval >= 1
  BY TreasuryAssumption
<1>1. Interval * n \in Nat /\ Interval * (n + 1) = Interval * n + Interval
  OBVIOUS
<1>2. n <= m => Interval * n <= Interval * m
  OBVIOUS
<1>3. Interval * n <= Interval * m => n <= m
  OBVIOUS
<1> QED
  BY <1>1, <1>2, <1>3

LEMMA NextDue ==
  ASSUME NEW item, NEW n \in Nat
  PROVE  Recurring!DueAt(item, n + 1) = item.start + Interval * n
<1>1. n + 1 - 1 = n
  OBVIOUS
<1>2. (n + 1 - 1) * Interval = Interval * n
  BY <1>1, TreasuryAssumption
<1>3. Recurring!DueAt(item, n + 1) = item.start + ((n + 1) - 1) * Interval
  BY DEF Recurring!DueAt
<1> QED
  BY <1>2, <1>3

LEMMA Quotient == ASSUME NEW x \in Nat PROVE \E q \in Nat : Interval * q <= x /\ x < Interval * (q + 1)
<1>1. Interval \in Nat /\ Interval # 0
  BY TreasuryAssumption
<1>2. x \div Interval \in Nat /\ Interval * (x \div Interval) <= x /\ x < Interval * (x \div Interval + 1)
  BY <1>1
<1> QED
  BY <1>2

\* How many multiples of the interval after a start have come by a time.
LEMMA CountDue ==
  ASSUME NEW s \in Nat, NEW t \in 0 .. MaxTicks,
         NEW due, due = {n \in 0 .. MaxTicks : s + Interval * n <= t}
  PROVE  Cardinality(due) \in Nat /\ \A k \in Nat : k + 1 <= Cardinality(due) <=> s + Interval * k <= t
<1> Interval \in Nat /\ Interval >= 1 /\ MaxTicks \in Nat /\ t \in Nat /\ t <= MaxTicks
  BY TreasuryAssumption
<1>1. \E k \in Nat : k <= t + 1 /\ \A n \in Nat : n + 1 <= k <=> s + Interval * n <= t
  <2>1. CASE s > t
    <3>1. \A n \in Nat : ~(s + Interval * n <= t)
      BY <2>1, Multiples
    <3>2. 0 <= t + 1 /\ \A n \in Nat : n + 1 <= 0 <=> s + Interval * n <= t
      BY <3>1
    <3> QED
      BY <3>2
  <2>2. CASE s <= t
    <3> PICK x \in Nat : x = t - s
      BY <2>2
    <3>2. PICK q \in Nat : Interval * q <= x /\ x < Interval * (q + 1)
      BY Quotient
    <3>3. ASSUME NEW n \in Nat PROVE n <= q <=> Interval * n <= x
      <4>1. n <= q => Interval * n <= Interval * q
        BY Multiples
      <4>2. q + 1 <= n => Interval * (q + 1) <= Interval * n
        BY Multiples
      <4>3. Interval * n \in Nat /\ Interval * q \in Nat /\ Interval * (q + 1) \in Nat
        BY Multiples
      <4> QED
        BY <3>2, <4>1, <4>2, <4>3
    <3>4. q <= Interval * q
      OBVIOUS
    <3>5. ASSUME NEW n \in Nat PROVE n + 1 <= q + 1 <=> s + Interval * n <= t
      <4>1. Interval * n \in Nat
        BY Multiples
      <4> PICK z \in Nat : z = Interval * n
        BY <4>1
      <4>2. n <= q <=> z <= t - s
        BY <3>3
      <4> QED
        BY <2>2, <4>2
    <3>6. q + 1 \in Nat /\ q + 1 <= t + 1
      <4>1. Interval * q \in Nat
        BY Multiples
      <4> QED
        BY <2>2, <3>2, <3>4, <4>1
    <3> QED
      BY <3>5, <3>6
  <2> QED
    BY <2>1, <2>2
<1>2. PICK k \in Nat : k <= t + 1 /\ \A n \in Nat : n + 1 <= k <=> s + Interval * n <= t
  BY <1>1
<1>3. {n \in 0 .. MaxTicks : s + Interval * n <= t} = 0 .. (k - 1)
  <2> DEFINE comes(n) == s + Interval * n <= t
  <2>1. \A n \in Nat : n + 1 <= k <=> comes(n)
    BY <1>2
  <2> HIDE DEF comes
  <2>2. {n \in 0 .. MaxTicks : comes(n)} = 0 .. (k - 1)
    BY <1>2, <2>1
  <2> QED
    BY <2>2 DEF comes
<1>4. Cardinality(0 .. (k - 1)) = k
  <2>1. CASE k = 0
    BY <2>1, FS_EmptySet
  <2>2. CASE k # 0
    BY <2>2, FS_Interval
  <2> QED
    BY <2>1, <2>2
<1> QED
  BY <1>2, <1>3, <1>4 DEF Cardinality

ScheduleStatus == {"none", "active", "paused", "completed", "cancelled"}
ScheduleTypes ==
  /\ now \in 0 .. MaxTicks
  /\ schedule \in [status : ScheduleStatus, start : Nat, end : Nat \cup {None}, max : Nat \cup {None},
                   next : Nat, created : Nat]
  /\ schedule.status = "none" => paid = {}

\* LatestDue is the last occurrence that has come due.
LEMMA LatestDueIs ==
  ScheduleTypes =>
    /\ Recurring!LatestDue \in Nat
    /\ \A k \in Nat : k + 1 <= Recurring!LatestDue <=> schedule.start + Interval * k <= now
<1> HAVE ScheduleTypes
<1> PICK s, t, due : s = schedule.start /\ t = now /\ due = {n \in 0 .. MaxTicks : s + Interval * n <= t}
  OBVIOUS
<1>1. s \in Nat /\ t \in 0 .. MaxTicks
  BY DEF ScheduleTypes
<1>2. Cardinality(due) \in Nat /\ \A k \in Nat : k + 1 <= Cardinality(due) <=> s + Interval * k <= t
  BY <1>1, CountDue
<1>3. Recurring!LatestDue = Cardinality(due)
  BY DEF Recurring!LatestDue, Cardinality, Recurring!Cardinality
<1> QED
  BY <1>2, <1>3

LEMMA LatestDueBecomes ==
  ScheduleTypes' =>
    /\ Recurring!LatestDue' \in Nat
    /\ \A k \in Nat : k + 1 <= Recurring!LatestDue' <=> schedule'.start + Interval * k <= now'
<1> HAVE ScheduleTypes'
<1> PICK s, t, due : s = schedule'.start /\ t = now' /\ due = {n \in 0 .. MaxTicks : s + Interval * n <= t}
  OBVIOUS
<1>1. s \in Nat /\ t \in 0 .. MaxTicks
  BY DEF ScheduleTypes
<1>2. Cardinality(due) \in Nat /\ \A k \in Nat : k + 1 <= Cardinality(due) <=> s + Interval * k <= t
  BY <1>1, CountDue
<1>3. Recurring!LatestDue' = Cardinality(due)
  BY DEF Recurring!LatestDue, Cardinality, Recurring!Cardinality
<1> QED
  BY <1>2, <1>3

\* The next payment is not due before its occurrence, also after a resumption.
InTurn == schedule.status \in {"active", "paused"} => schedule.start + Interval * schedule.created <= schedule.next

\* An occurrence counts as created once it has been paid, in its period.
PaidInPeriod ==
  \A p \in paid :
    /\ p.at \in Nat /\ p.occurrence \in Nat \ {0} /\ p.occurrence <= schedule.created
    /\ schedule.start + Interval * (p.occurrence - 1) <= p.at /\ p.at < schedule.start + Interval * p.occurrence

PaidOnce == \A p, q \in paid : p.occurrence = q.occurrence => p = q

RecurringInv == ScheduleTypes /\ InTurn /\ PaidInPeriod /\ PaidOnce /\ Recurring!FinishedOnlyWhenOver

LEMMA RecurringInit == Recurring!Init => RecurringInv
<1> SUFFICES ASSUME Recurring!Init PROVE RecurringInv
  OBVIOUS
<1>1. ScheduleTypes /\ schedule.status = "none" /\ paid = {}
  BY TreasuryAssumption DEF Recurring!Init, Recurring!NoSchedule, ScheduleTypes, ScheduleStatus
<1> QED
  BY <1>1 DEF RecurringInv, InTurn, PaidInPeriod, PaidOnce, Recurring!FinishedOnlyWhenOver

\* Steps that pay nothing and complete nothing.
LEMMA RecurringMoves ==
  ASSUME RecurringInv, UNCHANGED paid, now' \in 0 .. MaxTicks, now <= now',
         NEW s \in {"active", "paused", "cancelled", schedule.status}, NEW n \in Nat, schedule.next <= n,
         schedule.status = "none" => s = "none",
         schedule.status \notin {"active", "paused"} => s = schedule.status,
         schedule' \in [status : {s}, start : {schedule.start}, end : {schedule.end}, max : {schedule.max},
                        next : {n}, created : {schedule.created}]
  PROVE  RecurringInv'
<1>0. ScheduleTypes /\ InTurn /\ PaidInPeriod /\ PaidOnce /\ Recurring!FinishedOnlyWhenOver
  BY DEF RecurringInv
<1>1. /\ schedule'.status = s /\ schedule'.start = schedule.start /\ schedule'.end = schedule.end
      /\ schedule'.max = schedule.max /\ schedule'.next = n /\ schedule'.created = schedule.created
  OBVIOUS
<1>2. ScheduleTypes'
  BY <1>0, <1>1 DEF ScheduleTypes, ScheduleStatus
<1>3. InTurn'
  <2>1. Interval * schedule.created \in Nat
    BY <1>0, Multiples DEF ScheduleTypes
  <2> QED
    BY <1>0, <1>1, <2>1 DEF InTurn, ScheduleTypes
<1>4. PaidInPeriod' /\ PaidOnce'
  BY <1>0, <1>1 DEF PaidInPeriod, PaidOnce
<1>5. Recurring!FinishedOnlyWhenOver'
  <2> SUFFICES ASSUME schedule'.status = "completed" PROVE Recurring!FinishedOnlyWhenOver'
    BY DEF Recurring!FinishedOnlyWhenOver
  <2>1. schedule.status = "completed"
    BY <1>1
  <2>2. Recurring!LatestDue \in Nat /\ \A k \in Nat : k + 1 <= Recurring!LatestDue <=> schedule.start + Interval * k <= now
    BY <1>0, LatestDueIs
  <2>3. /\ Recurring!LatestDue' \in Nat
        /\ \A k \in Nat : k + 1 <= Recurring!LatestDue' <=> schedule.start + Interval * k <= now'
    BY <1>1, <1>2, LatestDueBecomes
  <2>4. Recurring!LatestDue <= Recurring!LatestDue'
    <3> PICK l : l = Recurring!LatestDue
      OBVIOUS
    <3>1. CASE l = 0
      BY <2>2, <2>3, <3>1
    <3>2. CASE l # 0
      <4>1. l - 1 \in Nat /\ (l - 1) + 1 <= l
        BY <2>2, <3>2
      <4>2. schedule.start + Interval * (l - 1) <= now
        BY <2>2, <4>1
      <4>3. Interval * (l - 1) \in Nat
        BY <4>1, Multiples
      <4>4. schedule.start + Interval * (l - 1) <= now'
        BY <1>0, <4>2, <4>3 DEF ScheduleTypes
      <4>5. (l - 1) + 1 <= Recurring!LatestDue'
        BY <2>3, <4>1, <4>4
      <4> QED
        BY <2>2, <4>1, <4>5
    <3> QED
      BY <3>1, <3>2
  <2>5. Recurring!DueAt(schedule, schedule.created + 1)' = Recurring!DueAt(schedule, schedule.created + 1)
    BY <1>1 DEF Recurring!DueAt
  <2> QED
    BY <1>0, <1>1, <2>1, <2>2, <2>3, <2>4, <2>5 DEF Recurring!FinishedOnlyWhenOver, ScheduleTypes
<1> QED
  BY <1>2, <1>3, <1>4, <1>5 DEF RecurringInv

\* The worker pays the next occurrence, or the last one that has come due.
LEMMA RecurringPays == ASSUME RecurringInv, Recurring!EnqueueDue PROVE RecurringInv'
<1> PICK n : n = Recurring!Occurrence
  OBVIOUS
<1> PICK latestDue : latestDue = Recurring!LatestDue
  OBVIOUS
<1>0. ScheduleTypes /\ InTurn /\ PaidInPeriod /\ PaidOnce /\ Recurring!FinishedOnlyWhenOver
  BY DEF RecurringInv
<1>1. /\ latestDue \in Nat
      /\ \A k \in Nat : k + 1 <= latestDue <=> schedule.start + Interval * k <= now
  BY <1>0, LatestDueIs
<1>2. n = IF schedule.created + 1 > latestDue THEN schedule.created + 1 ELSE latestDue
  BY DEF Recurring!Occurrence
<1>3. /\ schedule \in [status : {schedule.status}, start : {schedule.start}, end : {schedule.end},
                       max : {schedule.max}, next : {schedule.next}, created : {schedule.created}]
      /\ schedule.start \in Nat /\ schedule.next \in Nat /\ schedule.created \in Nat
      /\ schedule.end \in Nat \cup {None} /\ schedule.max \in Nat \cup {None} /\ now \in Nat
  BY <1>0, TreasuryAssumption DEF ScheduleTypes
<1>4. schedule.status = "active" /\ schedule.next <= now /\ UNCHANGED now
  BY DEF Recurring!EnqueueDue
<1>5. CASE \E s \in {"paused"} : schedule' = [schedule EXCEPT !.status = s] /\ UNCHANGED paid
  <2>1. schedule' \in [status : {"paused"}, start : {schedule.start}, end : {schedule.end}, max : {schedule.max},
                       next : {schedule.next}, created : {schedule.created}]
    BY <1>3, <1>5
  <2> QED
    BY <1>0, <1>3, <1>4, <1>5, <2>1, RecurringMoves DEF ScheduleTypes
<1>6. CASE Recurring!PastEnd /\ schedule' = [schedule EXCEPT !.status = "completed"] /\ UNCHANGED paid
  <2>1. schedule' \in [status : {"completed"}, start : {schedule.start}, end : {schedule.end}, max : {schedule.max},
                       next : {schedule.next}, created : {schedule.created}]
    BY <1>3, <1>6
  <2>2. ScheduleTypes'
    BY <1>0, <1>4, <2>1 DEF ScheduleTypes, ScheduleStatus
  <2>3. InTurn' /\ PaidInPeriod' /\ PaidOnce'
    BY <1>0, <1>6, <2>1 DEF InTurn, PaidInPeriod, PaidOnce
  <2>4. Recurring!LatestDue' = latestDue
    BY <1>4, <2>1 DEF Recurring!LatestDue
  <2>5. Recurring!FinishedOnlyWhenOver'
    BY <1>1, <1>2, <1>3, <1>4, <1>6, <2>1, <2>4 DEF Recurring!PastEnd, Recurring!FinishedOnlyWhenOver
  <2> QED
    BY <2>2, <2>3, <2>5 DEF RecurringInv
<1>7. CASE /\ ~Recurring!PastEnd
           /\ paid' = paid \cup {[occurrence |-> Recurring!Occurrence, at |-> now]}
           /\ schedule' = [schedule EXCEPT !.created = Recurring!Occurrence,
                             !.next = Recurring!DueAt(schedule, Recurring!Occurrence + 1),
                             !.status = IF Recurring!OverAfter(Recurring!Occurrence) THEN "completed" ELSE @]
  <2> PICK next : next = schedule.start + Interval * n
    OBVIOUS
  <2> PICK after : after = IF Recurring!OverAfter(n) THEN "completed" ELSE "active"
    OBVIOUS
  <2>1. n \in Nat /\ schedule.created + 1 <= n /\ next \in Nat
    <3>1. n \in Nat /\ schedule.created + 1 <= n
      BY <1>1, <1>2, <1>3
    <3> QED
      BY <1>3, <3>1, Multiples
  <2>2. Recurring!DueAt(schedule, n + 1) = next
    BY <2>1, NextDue, Zenon
  <2>3. schedule' = [schedule EXCEPT !.created = n, !.next = next, !.status = after]
    BY <1>4, <1>7, <2>2
  <2>4. schedule' \in [status : {after}, start : {schedule.start}, end : {schedule.end}, max : {schedule.max},
                       next : {next}, created : {n}]
    BY <1>3, <2>3
  <2>5. ScheduleTypes'
    BY <1>0, <1>4, <2>1, <2>4 DEF ScheduleTypes, ScheduleStatus
  <2>6. InTurn'
    BY <2>1, <2>4 DEF InTurn
  \* What is due by now is the occurrence that is paid.
  <2>7. n = latestDue
    <3>1. schedule.start + Interval * schedule.created <= now
      <4>1. Interval * schedule.created \in Nat
        BY <1>3, Multiples
      <4> QED
        BY <1>0, <1>3, <1>4, <4>1 DEF InTurn
    <3>2. schedule.created + 1 <= latestDue
      BY <1>1, <1>3, <3>1
    <3> QED
      BY <1>1, <1>2, <1>3, <3>2
  <2>8. schedule.start + Interval * (n - 1) <= now /\ now < schedule.start + Interval * n
    <3>1. n - 1 \in Nat /\ (n - 1) + 1 <= latestDue
      BY <1>3, <2>1, <2>7
    <3>2. schedule.start + Interval * (n - 1) <= now
      BY <1>1, <3>1
    <3>3. ~(n + 1 <= latestDue) /\ Interval * n \in Nat
      BY <2>1, <2>7, Multiples
    <3>4. ~(schedule.start + Interval * n <= now)
      BY <1>1, <2>1, <3>3
    <3> QED
      BY <1>3, <3>2, <3>3, <3>4
  <2> PICK new : new = [occurrence |-> n, at |-> now]
    OBVIOUS
  <2>9. paid' = paid \cup {new} /\ new.occurrence = n /\ new.at = now
    BY <1>7
  <2>10. PaidInPeriod'
    <3>1. ASSUME NEW p \in paid
          PROVE  /\ p.at \in Nat /\ p.occurrence \in Nat \ {0} /\ p.occurrence <= n
                 /\ schedule.start + Interval * (p.occurrence - 1) <= p.at
                 /\ p.at < schedule.start + Interval * p.occurrence
      BY <1>0, <1>3, <2>1 DEF PaidInPeriod
    <3>2. new.at \in Nat /\ new.occurrence \in Nat \ {0}
      BY <1>3, <2>1, <2>9
    <3>3. schedule'.created = n /\ schedule'.start = schedule.start
      BY <2>4
    <3> QED
      BY <2>1, <2>8, <2>9, <3>1, <3>2, <3>3 DEF PaidInPeriod
  <2>11. PaidOnce'
    <3>1. \A p \in paid : p.occurrence # n
      BY <1>0, <1>3, <2>1 DEF PaidInPeriod
    <3> QED
      BY <1>0, <2>9, <3>1 DEF PaidOnce
  <2>12. Recurring!FinishedOnlyWhenOver'
    <3> SUFFICES ASSUME schedule'.status = "completed" PROVE Recurring!FinishedOnlyWhenOver'
      BY DEF Recurring!FinishedOnlyWhenOver
    <3>1. Recurring!OverAfter(n)
      BY <2>4
    <3>2. Recurring!DueAt(schedule, n + 1)' = next
      BY <2>2, <2>4 DEF Recurring!DueAt
    <3>3. schedule'.created = n /\ schedule'.max = schedule.max /\ schedule'.end = schedule.end
      BY <2>4
    <3>4. Recurring!DueAt(schedule', schedule'.created + 1) = next
      BY <2>2, <2>4, <3>3 DEF Recurring!DueAt
    <3> QED
      BY <2>2, <3>1, <3>3, <3>4 DEF Recurring!OverAfter, Recurring!FinishedOnlyWhenOver
  <2> QED
    BY <2>5, <2>6, <2>10, <2>11, <2>12 DEF RecurringInv
<1> QED
  BY <1>5, <1>6, <1>7 DEF Recurring!EnqueueDue

LEMMA RecurringStep == RecurringInv /\ [Recurring!Next]_(Recurring!vars) => RecurringInv'
<1> SUFFICES ASSUME RecurringInv, [Recurring!Next]_(Recurring!vars) PROVE RecurringInv'
  OBVIOUS
<1>0. ScheduleTypes
  BY DEF RecurringInv
<1>1. /\ schedule \in [status : {schedule.status}, start : {schedule.start}, end : {schedule.end},
                       max : {schedule.max}, next : {schedule.next}, created : {schedule.created}]
      /\ now \in Nat /\ now \in 0 .. MaxTicks /\ MaxTicks \in Nat /\ schedule.next \in Nat
      /\ schedule.status \in ScheduleStatus
  BY <1>0, TreasuryAssumption DEF ScheduleTypes
<1>2. CASE UNCHANGED <<schedule, paid>> /\ now' \in {now, now + 1} /\ now' \in 0 .. MaxTicks
  BY <1>1, <1>2, RecurringMoves
<1>3. CASE \E s \in {"active", "paused", "cancelled"} : Recurring!SetScheduleStatus(s)
  <2>1. PICK s \in {"active", "paused", "cancelled"} : Recurring!SetScheduleStatus(s)
    BY <1>3
  <2> PICK n : n = IF s = "active" /\ schedule.next < now THEN now ELSE schedule.next
    OBVIOUS
  <2>2. /\ schedule.status \in {"active", "paused"} /\ UNCHANGED <<now, paid>>
        /\ schedule' = [schedule EXCEPT !.status = s, !.next = n]
    BY <2>1 DEF Recurring!SetScheduleStatus
  <2>3. n \in Nat /\ schedule.next <= n
    BY <1>1
  <2>4. schedule' \in [status : {s}, start : {schedule.start}, end : {schedule.end}, max : {schedule.max},
                       next : {n}, created : {schedule.created}]
    BY <1>1, <2>2
  <2> QED
    BY <1>1, <2>2, <2>3, <2>4, RecurringMoves
<1>4. CASE Recurring!ArchiveBeneficiary
  <2>1. UNCHANGED <<now, paid>> /\ \/ UNCHANGED schedule
                                   \/ schedule.status = "active" /\ schedule' = [schedule EXCEPT !.status = "paused"]
    BY <1>4 DEF Recurring!ArchiveBeneficiary
  <2>2. CASE UNCHANGED schedule
    BY <1>1, <1>2, <2>1, <2>2
  <2>3. CASE schedule.status = "active" /\ schedule' = [schedule EXCEPT !.status = "paused"]
    <3>1. schedule' \in [status : {"paused"}, start : {schedule.start}, end : {schedule.end}, max : {schedule.max},
                         next : {schedule.next}, created : {schedule.created}]
      BY <1>1, <2>3
    <3> QED
      BY <1>1, <2>1, <2>3, <3>1, RecurringMoves
  <2> QED
    BY <2>1, <2>2, <2>3
<1>5. CASE Recurring!CreateSchedule
  <2>1. PICK start \in 1 .. Interval + 1, end \in {None, Interval + 1, 2 * Interval + 1}, max \in {None, 2} :
          schedule' = [status |-> "active", start |-> start, end |-> end, max |-> max, next |-> start, created |-> 0]
    BY <1>5 DEF Recurring!CreateSchedule
  <2>2. start \in Nat /\ end \in Nat \cup {None} /\ max \in Nat \cup {None} /\ UNCHANGED <<now, paid>> /\ paid = {}
    BY <1>0, <1>5, <2>1, TreasuryAssumption DEF Recurring!CreateSchedule, ScheduleTypes
  <2>3. ScheduleTypes'
    BY <1>0, <2>1, <2>2 DEF ScheduleTypes, ScheduleStatus
  <2>4. InTurn'
    BY <2>1, <2>2, TreasuryAssumption DEF InTurn
  <2>5. PaidInPeriod' /\ PaidOnce' /\ Recurring!FinishedOnlyWhenOver'
    BY <2>1, <2>2 DEF PaidInPeriod, PaidOnce, Recurring!FinishedOnlyWhenOver
  <2> QED
    BY <2>3, <2>4, <2>5 DEF RecurringInv
<1>6. CASE Recurring!EnqueueDue
  BY <1>6, RecurringPays
<1>7. CASE Recurring!Tick
  BY <1>1, <1>2, <1>7 DEF Recurring!Tick
<1>8. CASE Recurring!ApproveBeneficiary \/ Recurring!SetFrozen \/ UNCHANGED Recurring!vars
  BY <1>1, <1>2, <1>8 DEF Recurring!ApproveBeneficiary, Recurring!SetFrozen, Recurring!vars
<1> QED
  BY <1>3, <1>4, <1>5, <1>6, <1>7, <1>8 DEF Recurring!Next

LEMMA RecurringAlone == Recurring!Spec => []SchedulesKept
<1>1. RecurringInv => SchedulesKept
  <2> SUFFICES ASSUME RecurringInv PROVE SchedulesKept
    OBVIOUS
  <2>1. PaidInPeriod /\ PaidOnce /\ Recurring!FinishedOnlyWhenOver
    BY DEF RecurringInv
  <2>2. ASSUME NEW p \in paid
        PROVE  Recurring!DueAt(schedule, p.occurrence) <= p.at /\ p.at < Recurring!DueAt(schedule, p.occurrence + 1)
    <3> PICK k : k = p.occurrence
      OBVIOUS
    <3>1. k \in Nat \ {0} /\ Interval \in Nat
      BY <2>1, TreasuryAssumption DEF PaidInPeriod
    <3>2. (k - 1) * Interval = Interval * (k - 1) /\ (k + 1 - 1) * Interval = Interval * k
      BY <3>1
    <3> QED
      BY <2>1, <3>2 DEF PaidInPeriod, Recurring!DueAt
  <2> QED
    BY <2>1, <2>2 DEF PaidOnce, SchedulesKept, Recurring!SchedulesKept, Recurring!OncePerPeriod
<1> QED
  BY <1>1, RecurringInit, RecurringStep, PTL DEF Recurring!Spec

\* A payment is made in the period that it is for and no period pays twice, and a
\* schedule completes only when it is over: for any interval, however long the worker
\* was away, the organisation frozen or the schedule paused (enqueueDueSchedules).
THEOREM PaidByThePeriod == Spec => []SchedulesKept
<1>1. Init => Recurring!Init
  BY DEF Init
<1>2. [Next]_<<part, squads, theSafe, x402, books, reading, recurring, others>> => [Recurring!Next]_(Recurring!vars)
  BY DEF Next, recurring, Recurring!vars
<1> QED
  BY <1>1, <1>2, RecurringAlone, PTL DEF Spec, Recurring!Spec

(***************************************************************************)
(* The time lock of a multisig.                                            *)
(***************************************************************************)
DelayStatus == {"active", "approved", "rejected", "cancelled", "executed"}
DelayRow == [what : Delay \cup {First}, status : DelayStatus, at : Nat, yes : SUBSET Delays!Voter,
             no : SUBSET Delays!Voter, off : SUBSET Delays!Voter, open : BOOLEAN]
Stage == {"asked", "wallet", "sent", "orphan", "landed", "read"}
FlowRow == [at : Stage,
            tx : [kind : Delays!Votes \cup {"create", "execute"}, index : Nat, what : Delay \cup {None}],
            seen : Delay \cup {None}]

DelayTypes == delayClock \in Nat /\ lock \in Delay /\ delayStale \in Nat /\ delayLog \in Seq(DelayRow)

\* What is asked of the program is about a change; an execution waits with the
\* delay that the multisig had, and has, unless the change was voided since; and one
\* that was handed to a wallet has waited for as long.
FlowFits(stage, trans, heard) ==
  /\ (trans.kind # "create" \/ stage = "landed") => Delays!IsChange(trans.index)
  /\ trans.kind = "create" => trans.what \in Delay
  /\ trans.kind = "execute" /\ stage \in {"asked", "wallet", "sent"} =>
       heard \in Delay /\ (trans.index > delayStale => heard = lock)
  /\ trans.kind = "execute" /\ stage \in {"wallet", "sent"} =>
       /\ delayLog[trans.index].status # "active"
       /\ delayLog[trans.index].status = "approved" => delayLog[trans.index].at + heard <= delayClock

FlowsFit == flows \subseteq FlowRow /\ \A f \in flows : FlowFits(f.at, f.tx, f.seen)

\* The record is right, unless a change was not read back or is being read back.
Told ==
  /\ follow # None => Delays!IsChange(follow)
  /\ missed \/ (\E f \in flows : Delays!Reading(f)) \/ recorded = lock

DelaysInv == DelayTypes /\ FlowsFit /\ Told

\* What the program and the clock do to what was logged.
Moves ==
  /\ DelayTypes' /\ delayClock <= delayClock'
  /\ Len(delayLog) <= Len(delayLog')
  /\ \A n \in 1 .. Len(delayLog) :
       /\ delayLog'[n].what = delayLog[n].what
       /\ delayLog[n].status # "active" =>
            /\ delayLog'[n].status # "active"
            /\ delayLog'[n].status = "approved" =>
                 delayLog[n].status = "approved" /\ delayLog'[n].at = delayLog[n].at
  /\ UNCHANGED <<lock, delayStale>> \/ delayStale' = Len(delayLog)

LEMMA DelaysInit == Delays!Init => DelaysInv
  BY DEF Delays!Init, DelaysInv, DelayTypes, FlowsFit, Told

LEMMA FirstIs == First \notin Delay
  BY TreasuryAssumption DEF First

LEMMA StandsStill == DelayTypes /\ UNCHANGED Delays!Program /\ delayClock' \in {delayClock, delayClock + 1} => Moves
  BY DEF DelayTypes, Delays!Program, Moves

LEMMA FlowStays ==
  ASSUME DelayTypes, Moves, NEW stage, NEW trans, NEW heard, trans.index \in Nat, FlowFits(stage, trans, heard)
  PROVE  FlowFits(stage, trans, heard)'
<1>1. Delays!IsChange(trans.index) => Delays!IsChange(trans.index)'
  BY DEF Delays!IsChange, Moves, DelayTypes
<1>2. Delays!IsChange(trans.index) => trans.index \in 1 .. Len(delayLog) /\ Len(delayLog) \in Nat
  BY DEF Delays!IsChange, DelayTypes
<1>3. Delays!IsChange(trans.index) /\ heard \in Delay =>
        /\ delayLog[trans.index].at \in Nat /\ heard \in Nat /\ delayClock \in Nat /\ delayClock' \in Nat
  <2>1. Delays!IsChange(trans.index) => delayLog[trans.index] \in DelayRow
    BY <1>2 DEF DelayTypes
  <2>2. Delays!IsChange(trans.index) => delayLog[trans.index].at \in Nat
    BY <2>1 DEF DelayRow
  <2> QED
    BY <2>2, TreasuryAssumption DEF DelayTypes, Moves
<1> QED
  BY <1>1, <1>2, <1>3 DEF Moves, DelayTypes, FlowFits

LEMMA RowFacts ==
  ASSUME NEW e \in DelayRow
  PROVE  /\ e = [what |-> e.what, status |-> e.status, at |-> e.at, yes |-> e.yes, no |-> e.no, off |-> e.off, open |-> e.open]
         /\ e.what \in Delay \cup {First} /\ e.status \in DelayStatus /\ e.at \in Nat
         /\ e.yes \subseteq Delays!Voter /\ e.no \subseteq Delays!Voter /\ e.off \subseteq Delays!Voter
         /\ e.open \in BOOLEAN
  BY DEF DelayRow

\* A proposal in a status that was reached, and the vote of one more member.
LEMMA Reaching ==
  ASSUME DelayTypes, NEW e \in DelayRow, NEW after \in DelayStatus
  PROVE  /\ Delays!Became(e, after) \in DelayRow
         /\ Delays!Became(e, after).what = e.what /\ Delays!Became(e, after).status = after
         /\ after # "approved" => Delays!Became(e, after).at = 0
<1> PICK since : since = IF after = "approved" THEN delayClock ELSE 0
  OBVIOUS
<1>1. since \in Nat
  BY DEF DelayTypes
<1>2. Delays!Became(e, after) = [what |-> e.what, status |-> after, at |-> since, yes |-> {}, no |-> {}, off |-> {},
                                 open |-> e.open]
  <2> PICK opens \in BOOLEAN : opens = (e.what = First)
    OBVIOUS
  <2>1. Delays!Entry(e.what) = [what |-> e.what, status |-> "active", at |-> 0, yes |-> {}, no |-> {}, off |-> {},
                                open |-> opens]
    BY DEF Delays!Entry
  <2>2. Delays!Entry(e.what) \in [what : {e.what}, status : {"active"}, at : {0}, yes : {{}}, no : {{}}, off : {{}},
                                  open : BOOLEAN]
    BY <2>1
  <2>3. Delays!Became(e, after) = [Delays!Entry(e.what) EXCEPT !.status = after, !.open = e.open, !.at = since]
    BY DEF Delays!Became
  <2> QED
    BY <2>2, <2>3, RowFacts
<1> QED
  BY <1>1, <1>2, RowFacts DEF DelayRow

\* What may become of a row.
Follows(old, new) ==
  /\ new.what = old.what
  /\ old.status # "active" => new.status # "active"
                             /\ (new.status = "approved" => old.status = "approved" /\ new.at = old.at)

LEMMA Voting ==
  ASSUME DelayTypes, NEW e \in DelayRow, NEW voter \in Delays!Voter, NEW vote \in Delays!Votes,
         IF vote = "cancelled" THEN e.status = "approved" ELSE e.status = "active"
  PROVE  Delays!Voted(voter, e, vote) \in DelayRow /\ Follows(e, Delays!Voted(voter, e, vote))
<1> PICK e2 : e2 = Delays!Voted(voter, e, vote)
  OBVIOUS
<1>1. CASE e2 = Delays!Became(e, vote)
  <2>1. vote \in DelayStatus
    BY DEF Delays!Votes, DelayStatus
  <2>2. vote = "cancelled" \/ e.status = "active"
    OBVIOUS
  <2> QED
    BY <1>1, <2>1, <2>2, Reaching DEF Follows
<1>2. CASE \/ e2 = [e EXCEPT !.yes = @ \cup {voter}, !.no = @ \ {voter}]
           \/ e2 = [e EXCEPT !.no = @ \cup {voter}, !.yes = @ \ {voter}]
           \/ e2 = [e EXCEPT !.off = @ \cup {voter}]
  <2>1. e2 \in [what : {e.what}, status : {e.status}, at : {e.at}, yes : SUBSET Delays!Voter, no : SUBSET Delays!Voter,
               off : SUBSET Delays!Voter, open : BOOLEAN]
    <3> PICK y \in SUBSET Delays!Voter, y2 \in SUBSET Delays!Voter, n \in SUBSET Delays!Voter,
             n2 \in SUBSET Delays!Voter, o \in SUBSET Delays!Voter :
               /\ y = e.yes \cup {voter} /\ y2 = e.yes \ {voter}
               /\ n = e.no \cup {voter} /\ n2 = e.no \ {voter} /\ o = e.off \cup {voter}
      BY RowFacts
    <3>1. \/ e2 = [e EXCEPT !.yes = y, !.no = n2] \/ e2 = [e EXCEPT !.no = n, !.yes = y2] \/ e2 = [e EXCEPT !.off = o]
      BY <1>2
    <3>2. e \in [what : {e.what}, status : {e.status}, at : {e.at}, yes : SUBSET Delays!Voter,
                 no : SUBSET Delays!Voter, off : SUBSET Delays!Voter, open : BOOLEAN]
      BY RowFacts
    <3> QED
      BY <3>1, <3>2
  <2> QED
    BY <2>1, RowFacts DEF Follows, DelayRow
<1>3. vote = "approved" \/ vote = "rejected" \/ vote = "cancelled"
  BY DEF Delays!Votes
<1>4. \/ e2 = Delays!Became(e, vote)
      \/ e2 = [e EXCEPT !.yes = @ \cup {voter}, !.no = @ \ {voter}]
      \/ e2 = [e EXCEPT !.no = @ \cup {voter}, !.yes = @ \ {voter}]
      \/ e2 = [e EXCEPT !.off = @ \cup {voter}]
  BY <1>3 DEF Delays!Voted
<1> QED
  BY <1>1, <1>2, <1>4

\* A row that changes, one that is added, and a change that voids the others.
LEMMA RowChanges ==
  ASSUME DelayTypes, NEW i \in 1 .. Len(delayLog), NEW e \in DelayRow, Follows(delayLog[i], e),
         delayLog' = [delayLog EXCEPT ![i] = e], lock' \in Delay, delayClock' = delayClock,
         UNCHANGED <<lock, delayStale>> \/ delayStale' = Len(delayLog)
  PROVE  Moves
<1>1. delayLog' \in Seq(DelayRow) /\ Len(delayLog') = Len(delayLog)
  BY DEF DelayTypes
<1>2. \A n \in 1 .. Len(delayLog) : delayLog'[n] = IF n = i THEN e ELSE delayLog[n]
  BY DEF DelayTypes
<1>3. DelayTypes'
  BY <1>1 DEF DelayTypes
<1> QED
  BY <1>1, <1>2, <1>3 DEF Moves, Follows, DelayTypes

LEMMA RowAdded ==
  ASSUME DelayTypes, NEW what \in Delay \cup {First}, delayLog' = Append(delayLog, Delays!Entry(what)),
         UNCHANGED <<lock, delayStale, delayClock>>
  PROVE  Moves /\ Len(delayLog') = Len(delayLog) + 1 /\ delayLog'[Len(delayLog) + 1].what = what
<1>1. Delays!Entry(what) \in DelayRow /\ Delays!Entry(what).what = what
  <2> PICK opens \in BOOLEAN : opens = (what = First)
    OBVIOUS
  <2>1. Delays!Entry(what) = [what |-> what, status |-> "active", at |-> 0, yes |-> {}, no |-> {}, off |-> {},
                              open |-> opens]
    BY DEF Delays!Entry
  <2> QED
    BY <2>1 DEF DelayRow, DelayStatus
<1>2. delayLog' \in Seq(DelayRow) /\ Len(delayLog') = Len(delayLog) + 1
  BY <1>1 DEF DelayTypes
<1>3. /\ \A n \in 1 .. Len(delayLog) : delayLog'[n] = delayLog[n]
      /\ delayLog'[Len(delayLog) + 1] = Delays!Entry(what)
  BY <1>1 DEF DelayTypes
<1>4. DelayTypes'
  BY <1>2 DEF DelayTypes
<1> QED
  BY <1>1, <1>2, <1>3, <1>4 DEF Moves, DelayTypes

LEMMA Applied ==
  ASSUME DelayTypes, delayClock' = delayClock, NEW who, NEW trans, trans.kind \in Delays!Votes \cup {"create", "execute"},
         trans.kind # "create" => trans.index \in 1 .. Len(delayLog),
         trans.kind = "create" => trans.what \in Delay \cup {First},
         trans.kind \in Delays!Votes => who \in Delays!Voter,
         Delays!Accepts(who, trans), Delays!Apply(who, trans)
  PROVE  /\ Moves
         /\ lock' # lock => trans.kind = "execute" /\ Delays!IsChange(trans.index)
         /\ trans.kind = "create" =>
              trans.index \in 1 .. Len(delayLog') /\ delayLog'[trans.index].what = trans.what
<1> PICK i : i = trans.index
  OBVIOUS
<1>1. CASE trans.kind = "create"
  <2>1. i = Len(delayLog) + 1
    BY <1>1 DEF Delays!Accepts
  <2>2. delayLog' = Append(delayLog, Delays!Entry(trans.what)) /\ UNCHANGED <<lock, delayStale>>
    BY <1>1 DEF Delays!Apply, Delays!Votes
  <2>3. Moves /\ Len(delayLog') = Len(delayLog) + 1 /\ delayLog'[i].what = trans.what
    BY <1>1, <2>1, <2>2, RowAdded
  <2> QED
    BY <1>1, <2>1, <2>2, <2>3 DEF DelayTypes
<1>2. CASE trans.kind \in Delays!Votes
  <2>0. trans.kind # "create" /\ trans.kind # "execute" /\ i \in 1 .. Len(delayLog)
    BY <1>2 DEF Delays!Votes
  <2>1. IF trans.kind = "cancelled" THEN delayLog[i].status = "approved" ELSE delayLog[i].status = "active"
    BY <1>2, <2>0 DEF Delays!Accepts, Delays!Votes
  <2>2. delayLog' = [delayLog EXCEPT ![i] = Delays!Voted(who, delayLog[i], trans.kind)] /\ UNCHANGED <<lock, delayStale>>
    BY <1>2, <2>0 DEF Delays!Apply
  <2>3. delayLog[i] \in DelayRow
    BY <2>0 DEF DelayTypes
  <2>4. /\ Delays!Voted(who, delayLog[i], trans.kind) \in DelayRow
        /\ Follows(delayLog[i], Delays!Voted(who, delayLog[i], trans.kind))
    BY <1>2, <2>1, <2>3, Voting
  <2>5. Moves
    BY <2>0, <2>2, <2>4, RowChanges DEF DelayTypes
  <2> QED
    BY <2>0, <2>2, <2>5
<1>3. CASE trans.kind = "execute"
  <2> PICK e : e = [Delays!Became(delayLog[i], "executed") EXCEPT !.open = FALSE]
    OBVIOUS
  <2>1. i \in 1 .. Len(delayLog) /\ delayLog[i] \in DelayRow
    BY <1>3 DEF DelayTypes
  <2>2. e \in DelayRow /\ Follows(delayLog[i], e)
    <3> PICK b : b = Delays!Became(delayLog[i], "executed")
      OBVIOUS
    <3>1. b \in DelayRow /\ b.what = delayLog[i].what /\ b.status = "executed"
      BY <2>1, Reaching DEF DelayStatus
    <3>2. b \in [what : {delayLog[i].what}, status : {"executed"}, at : Nat, yes : SUBSET Delays!Voter,
                 no : SUBSET Delays!Voter, off : SUBSET Delays!Voter, open : BOOLEAN]
      BY <3>1, RowFacts
    <3>3. e \in [what : {delayLog[i].what}, status : {"executed"}, at : Nat, yes : SUBSET Delays!Voter,
                 no : SUBSET Delays!Voter, off : SUBSET Delays!Voter, open : BOOLEAN]
      BY <3>2
    <3>4. delayLog[i].what \in Delay \cup {First} /\ "executed" \in DelayStatus
      BY <2>1 DEF DelayRow, DelayStatus
    <3> QED
      BY <3>3, <3>4 DEF Follows, DelayRow
  <2>3. /\ delayLog' = [delayLog EXCEPT ![i] = e]
        /\ IF Delays!IsChange(i) THEN lock' = delayLog[i].what /\ delayStale' = Len(delayLog)
           ELSE UNCHANGED <<lock, delayStale>>
    BY <1>3 DEF Delays!Apply, Delays!Votes
  <2>4. Delays!IsChange(i) => delayLog[i].what \in Delay
    BY <2>1 DEF Delays!IsChange, DelayRow
  <2>5. Moves
    BY <2>1, <2>2, <2>3, <2>4, RowChanges DEF DelayTypes
  <2> QED
    BY <1>3, <2>3, <2>5
<1> QED
  BY <1>1, <1>2, <1>3

\* A step that neither logs nor decides anything, and one that does so elsewhere.
LEMMA FlowsMove ==
  ASSUME DelayTypes, FlowsFit, Moves, NEW some \in SUBSET flows, flows' = some
  PROVE  FlowsFit'
<1> SUFFICES ASSUME NEW f \in some PROVE FlowFits(f.at, f.tx, f.seen)'
  BY DEF FlowsFit
<1>1. f.tx.index \in Nat
  BY DEF FlowsFit, FlowRow
<1> QED
  BY <1>1, FlowStays DEF FlowsFit

LEMMA FlowAdded ==
  ASSUME DelayTypes, FlowsFit, Moves, NEW g \in FlowRow, FlowFits(g.at, g.tx, g.seen)',
         NEW some \in SUBSET flows, flows' = some \cup {g}
  PROVE  FlowsFit'
<1>1. ASSUME NEW f \in some PROVE FlowFits(f.at, f.tx, f.seen)'
  <2>1. f.tx.index \in Nat
    BY DEF FlowsFit, FlowRow
  <2> QED
    BY <2>1, FlowStays DEF FlowsFit
<1>2. flows' \subseteq FlowRow
  BY DEF FlowsFit
<1> QED
  BY <1>1, <1>2 DEF FlowsFit

LEMMA Restage ==
  ASSUME NEW f \in FlowRow, NEW stage \in Stage
  PROVE  /\ [f EXCEPT !.at = stage] \in FlowRow
         /\ [f EXCEPT !.at = stage].at = stage
         /\ [f EXCEPT !.at = stage].tx = f.tx /\ [f EXCEPT !.at = stage].seen = f.seen
  BY DEF FlowRow

\* Nothing becomes of the multisig, and no reading of its delay ends.
LEMMA ToldStays ==
  ASSUME DelayTypes, Told, Moves, UNCHANGED <<lock, recorded>>, follow' \in {follow, None}, missed => missed',
         \A f \in flows : Delays!Reading(f) => missed' \/ f \in flows'
  PROVE  Told'
<1>1. follow' # None => Delays!IsChange(follow)'
  BY DEF Told, Delays!IsChange, Moves, DelayTypes
<1>2. (\E f \in flows : Delays!Reading(f)) => missed' \/ (\E f \in flows' : Delays!Reading(f)')
  BY DEF Delays!Reading
<1> QED
  BY <1>1, <1>2 DEF Told

\* The members and the API: what they begin.
LEMMA BeginStep ==
  ASSUME DelaysInv, Delays!Propose \/ Delays!Ask \/ \E vote \in Delays!Votes : Delays!VoteOn(vote)
  PROVE  DelaysInv'
<1>0. DelayTypes /\ FlowsFit /\ Told
  BY DEF DelaysInv
<1>1. /\ UNCHANGED <<delayClock, Delays!Program, recorded, follow, missed>>
      /\ \E g \in FlowRow : flows' = flows \cup {g} /\ FlowFits(g.at, g.tx, g.seen)
  <2>1. CASE Delays!Propose
    <3>1. PICK seconds \in Delay \ {lock} :
            flows' = flows \cup {[at |-> "wallet", seen |-> None,
                                 tx |-> [kind |-> "create", index |-> Len(delayLog) + 1, what |-> seconds]]}
      BY <2>1 DEF Delays!Propose, Delays!Begin, Delays!Flow, Delays!Tx
    <3> DEFINE g == [at |-> "wallet", seen |-> None,
                     tx |-> [kind |-> "create", index |-> Len(delayLog) + 1, what |-> seconds]]
    <3>2. g \in FlowRow
      BY <1>0 DEF DelayTypes, FlowRow, Stage
    <3>3. FlowFits(g.at, g.tx, g.seen)
      BY DEF FlowFits
    <3> HIDE DEF g
    <3>4. flows' = flows \cup {g}
      BY <3>1 DEF g
    <3> QED
      BY <2>1, <3>2, <3>3, <3>4 DEF Delays!Propose
  <2>2. CASE Delays!Ask
    <3> DEFINE g == [at |-> "asked", seen |-> lock, tx |-> [kind |-> "execute", index |-> follow, what |-> None]]
    <3>1. flows' = flows \cup {g} /\ Delays!IsChange(follow)
      BY <2>2 DEF Delays!Ask, Delays!Begin, Delays!Flow, Delays!Tx
    <3>2. g \in FlowRow
      BY <1>0, <3>1 DEF DelayTypes, FlowRow, Stage, Delays!IsChange
    <3>3. FlowFits(g.at, g.tx, g.seen)
      BY <1>0, <3>1 DEF FlowFits, DelayTypes
    <3> HIDE DEF g
    <3> QED
      BY <2>2, <3>1, <3>2, <3>3 DEF Delays!Ask
  <2>3. CASE \E vote \in Delays!Votes : Delays!VoteOn(vote)
    <3>1. PICK vote \in Delays!Votes : Delays!VoteOn(vote)
      BY <2>3
    <3> DEFINE g == [at |-> "wallet", seen |-> None, tx |-> [kind |-> vote, index |-> follow, what |-> None]]
    <3>2. flows' = flows \cup {g} /\ Delays!IsChange(follow)
      BY <3>1 DEF Delays!VoteOn, Delays!Votable, Delays!Begin, Delays!Flow, Delays!Tx
    <3>3. g \in FlowRow
      BY <3>2 DEF FlowRow, Stage, Delays!IsChange
    <3>4. vote # "create" /\ vote # "execute"
      BY DEF Delays!Votes
    <3>5. FlowFits(g.at, g.tx, g.seen)
      BY <3>2, <3>4 DEF FlowFits
    <3> HIDE DEF g
    <3> QED
      BY <3>1, <3>2, <3>3, <3>5 DEF Delays!VoteOn
  <2> QED
    BY <2>1, <2>2, <2>3
<1>2. Moves
  BY <1>0, <1>1, StandsStill DEF DelayTypes
<1>3. FlowsFit'
  <2>1. PICK g \in FlowRow : flows' = flows \cup {g} /\ FlowFits(g.at, g.tx, g.seen)
    BY <1>1
  <2>2. FlowFits(g.at, g.tx, g.seen)'
    BY <1>0, <1>2, <2>1, FlowStays DEF FlowRow
  <2> QED
    BY <1>0, <1>2, <2>1, <2>2, FlowAdded
<1>4. Told'
  BY <1>0, <1>1, <1>2, ToldStays DEF Delays!Program
<1> QED
  BY <1>2, <1>3, <1>4 DEF Moves, DelaysInv

\* A request moves on or ends, and no reading of the delay ends with it.
LEMMA FlowGoes ==
  ASSUME DelaysInv, UNCHANGED <<delayClock, Delays!Program, recorded>>, NEW f \in flows,
         follow' \in {follow, None}, missed => missed', Delays!Reading(f) => missed',
         \/ Delays!Ends(f)
         \/ \E stage \in Stage : Delays!Goes(f, stage) /\ FlowFits(stage, f.tx, f.seen)
  PROVE  DelaysInv'
<1>0. DelayTypes /\ FlowsFit /\ Told /\ f \in FlowRow
  BY DEF DelaysInv, FlowsFit
<1>1. Moves
  BY <1>0, StandsStill DEF DelayTypes
<1>2. CASE Delays!Ends(f)
  <2>1. FlowsFit'
    BY <1>0, <1>1, <1>2, FlowsMove DEF Delays!Ends
  <2>2. Told'
    BY <1>0, <1>1, <1>2, ToldStays DEF Delays!Ends, Delays!Program
  <2> QED
    BY <1>1, <2>1, <2>2 DEF Moves, DelaysInv
<1>3. ASSUME NEW stage \in Stage, Delays!Goes(f, stage), FlowFits(stage, f.tx, f.seen)
      PROVE  DelaysInv'
  <2> PICK g : g = [f EXCEPT !.at = stage]
    OBVIOUS
  <2>1. g \in FlowRow /\ g.at = stage /\ g.tx = f.tx /\ g.seen = f.seen
    BY <1>0, Restage
  <2>2. FlowFits(g.at, g.tx, g.seen)'
    <3>1. FlowFits(stage, f.tx, f.seen)'
      BY <1>0, <1>1, <1>3, FlowStays DEF FlowRow
    <3> QED
      BY <2>1, <3>1
  <2>3. flows' = (flows \ {f}) \cup {g}
    BY <1>3 DEF Delays!Goes
  <2>4. FlowsFit'
    <3>1. g \in FlowRow /\ flows \ {f} \in SUBSET flows
      BY <2>1
    <3> QED
      BY ONLY <1>0, <1>1, <2>2, <2>3, <3>1, FlowAdded
  <2>5. Told'
    BY <1>0, <1>1, <2>3, ToldStays DEF Delays!Program
  <2> QED
    BY <1>1, <2>4, <2>5 DEF Moves, DelaysInv
<1> QED
  BY <1>2, <1>3

LEMMA FlowSteps ==
  ASSUME DelaysInv, NEW f \in flows,
         \/ Delays!Offer(f) \/ Delays!Sign(f) \/ Delays!Drop(f) \/ Delays!GiveUp(f) \/ Delays!Noted(f)
         \/ Delays!ReadBack(f) \/ Delays!WriteBack(f) \/ Delays!FailConfirm(f)
  PROVE  DelaysInv'
<1>0. DelayTypes /\ FlowsFit /\ Told /\ f \in FlowRow /\ FlowFits(f.at, f.tx, f.seen)
  BY DEF DelaysInv, FlowsFit
<1>1. CASE Delays!Offer(f)
  <2>1. f.at = "asked" /\ UNCHANGED <<delayClock, Delays!Program, recorded, follow, missed>>
    BY <1>1 DEF Delays!Offer
  <2>2. ~Delays!Reading(f)
    BY <2>1 DEF Delays!Reading
  <2>3. \/ Delays!Ends(f)
        \/ /\ Delays!Goes(f, "wallet") /\ delayLog[f.tx.index].status = "approved"
           /\ delayClock >= delayLog[f.tx.index].at + f.seen
    BY <1>1 DEF Delays!Offer, Delays!Reaches, Delays!Locked, Delays!Unlocked
  <2>4. f.tx.kind # "create" => delayLog[f.tx.index].at \in Nat
    <3>1. f.tx.kind # "create" => delayLog[f.tx.index] \in DelayRow
      BY <1>0 DEF FlowFits, Delays!IsChange, DelayTypes
    <3> QED
      BY <3>1, RowFacts
  <2>5. Delays!Ends(f) \/ (Delays!Goes(f, "wallet") /\ FlowFits("wallet", f.tx, f.seen))
    <3> SUFFICES ASSUME ~Delays!Ends(f) PROVE Delays!Goes(f, "wallet") /\ FlowFits("wallet", f.tx, f.seen)
      OBVIOUS
    <3>1. f.tx.kind = "execute" => delayLog[f.tx.index].at + f.seen <= delayClock
      BY <1>0, <2>1, <2>3, <2>4, TreasuryAssumption DEF FlowFits, DelayTypes
    <3> QED
      BY <1>0, <2>1, <2>3, <3>1 DEF FlowFits
  <2> QED
    BY <2>1, <2>2, <2>5, FlowGoes DEF Stage
<1>2. CASE Delays!Sign(f)
  <2>1. /\ f.at = "wallet" /\ UNCHANGED <<delayClock, Delays!Program, recorded, follow, missed>>
        /\ Delays!Goes(f, "sent") \/ Delays!Ends(f)
    BY <1>2 DEF Delays!Sign
  <2>2. ~Delays!Reading(f) /\ FlowFits("sent", f.tx, f.seen)
    BY <1>0, <2>1 DEF Delays!Reading, FlowFits
  <2> QED
    BY <2>1, <2>2, FlowGoes DEF Stage
<1>3. CASE Delays!Drop(f)
  BY <1>3, FlowGoes DEF Delays!Drop, Delays!Reading
<1>4. CASE Delays!GiveUp(f)
  <2>1. /\ f.at \in {"sent", "landed"} /\ UNCHANGED <<delayClock, Delays!Program, recorded, follow>>
        /\ (f.at = "sent" /\ Delays!Goes(f, "orphan")) \/ Delays!Ends(f)
        /\ missed' = (missed \/ (f.at = "landed" /\ f.tx.kind = "execute"))
    BY <1>4 DEF Delays!GiveUp
  <2>2. (f.at = "sent" => FlowFits("orphan", f.tx, f.seen)) /\ (Delays!Reading(f) => missed') /\ (missed => missed')
    BY <1>0, <2>1 DEF Delays!Reading, FlowFits
  <2> QED
    BY <2>1, <2>2, FlowGoes DEF Stage
<1>5. CASE Delays!Noted(f)
  <2>1. /\ f.at = "landed" /\ f.tx.kind # "execute" /\ Delays!Ends(f)
        /\ UNCHANGED <<delayClock, Delays!Program, recorded, missed>>
        /\ follow' \in {follow, f.tx.index}
    BY <1>5 DEF Delays!Noted
  <2>2. ~Delays!Reading(f) /\ Delays!IsChange(f.tx.index)
    BY <1>0, <2>1 DEF Delays!Reading, FlowFits
  <2>3. Moves
    BY <1>0, <2>1, StandsStill DEF DelayTypes
  <2>4. FlowsFit'
    BY <1>0, <2>1, <2>3, FlowsMove DEF Delays!Ends
  <2>5. Told'
    <3>1. follow' # None => Delays!IsChange(follow)'
      BY <1>0, <2>1, <2>2 DEF Told, Delays!IsChange, Delays!Program
    <3>2. (\E g \in flows : Delays!Reading(g)) => \E g \in flows' : Delays!Reading(g)'
      BY <2>1, <2>2 DEF Delays!Reading, Delays!Ends
    <3> QED
      BY <1>0, <2>1, <3>1, <3>2 DEF Told, Delays!Program
  <2> QED
    BY <2>3, <2>4, <2>5 DEF Moves, DelaysInv
<1>6. CASE Delays!ReadBack(f)
  <2> PICK g : g = [f EXCEPT !.at = "read", !.seen = lock]
    OBVIOUS
  <2>1. /\ f.at = "landed" /\ f.tx.kind = "execute" /\ flows' = (flows \ {f}) \cup {g}
        /\ UNCHANGED <<delayClock, Delays!Program, recorded, follow, missed>>
    BY <1>6 DEF Delays!ReadBack
  <2>2. g \in FlowRow /\ g.at = "read" /\ g.tx = f.tx /\ g.seen = lock
    BY <1>0 DEF FlowRow, Stage, DelayTypes
  <2>3. Moves
    BY <1>0, <2>1, StandsStill DEF DelayTypes
  <2>4. FlowFits("read", f.tx, lock)
    BY <1>0, <2>1 DEF FlowFits
  <2>5. FlowFits("read", f.tx, lock)'
    <3>1. ASSUME NEW heard, heard = lock PROVE FlowFits("read", f.tx, heard)'
      BY <1>0, <2>3, <2>4, <3>1, FlowStays DEF FlowRow
    <3> QED
      BY <2>1, <3>1 DEF Delays!Program
  <2>6. FlowsFit'
    <3>1. FlowFits(g.at, g.tx, g.seen)'
      BY <2>1, <2>2, <2>5 DEF Delays!Program
    <3>2. g \in FlowRow /\ flows \ {f} \in SUBSET flows /\ flows' = (flows \ {f}) \cup {g}
      BY <2>1, <2>2
    <3> QED
      BY ONLY <1>0, <2>3, <3>1, <3>2, FlowAdded
  <2>7. Told'
    <3>1. Delays!Reading(g)' /\ g \in flows'
      BY <2>1, <2>2 DEF Delays!Reading
    <3>2. follow' # None => Delays!IsChange(follow)'
      BY <1>0, <2>1 DEF Told, Delays!IsChange, Delays!Program
    <3> QED
      BY <3>1, <3>2 DEF Told
  <2> QED
    BY <2>3, <2>6, <2>7 DEF Moves, DelaysInv
<1>7. CASE Delays!WriteBack(f) \/ Delays!FailConfirm(f)
  <2>1. /\ Delays!Ends(f) /\ UNCHANGED <<delayClock, Delays!Program>> /\ follow' \in {follow, None}
        /\ missed' \/ recorded' = lock
    BY <1>7 DEF Delays!WriteBack, Delays!FailConfirm
  <2>2. Moves
    BY <1>0, <2>1, StandsStill DEF DelayTypes
  <2>3. FlowsFit'
    BY <1>0, <2>1, <2>2, FlowsMove DEF Delays!Ends
  <2>4. Told'
    BY <1>0, <2>1 DEF Told, Delays!IsChange, Delays!Program
  <2> QED
    BY <2>2, <2>3, <2>4 DEF Moves, DelaysInv
<1> QED
  BY <1>1, <1>2, <1>3, <1>4, <1>5, <1>6, <1>7

LEMMA DelayLandStep == ASSUME DelaysInv, NEW f \in flows, Delays!Land(f) PROVE DelaysInv'
<1>0. DelayTypes /\ FlowsFit /\ Told /\ f \in FlowRow /\ FlowFits(f.at, f.tx, f.seen)
  BY DEF DelaysInv, FlowsFit
<1>1. f.at \in {"sent", "orphan"} /\ UNCHANGED <<delayClock, recorded, follow>> /\ ~Delays!Reading(f)
  BY DEF Delays!Land, Delays!Reading
<1>2. CASE ~Delays!Accepts(Me, f.tx)
  BY <1>1, <1>2, FlowGoes DEF Delays!Land
<1>3. CASE Delays!Accepts(Me, f.tx)
  <2>1. /\ Delays!Apply(Me, f.tx) /\ missed' = (missed \/ (f.at = "orphan" /\ lock' # lock))
        /\ IF f.at = "orphan" THEN Delays!Ends(f) ELSE Delays!Goes(f, "landed")
    BY <1>3 DEF Delays!Land
  <2>2. /\ f.tx.kind \in Delays!Votes \cup {"create", "execute"}
        /\ f.tx.kind # "create" => f.tx.index \in 1 .. Len(delayLog)
        /\ f.tx.kind = "create" => f.tx.what \in Delay
    BY <1>0 DEF FlowRow, FlowFits, Delays!IsChange
  <2>3. /\ Moves
        /\ lock' # lock => f.tx.kind = "execute"
        /\ f.tx.kind = "create" => f.tx.index \in 1 .. Len(delayLog') /\ delayLog'[f.tx.index].what = f.tx.what
    BY <1>0, <1>1, <1>3, <2>1, <2>2, Applied DEF Delays!Voter
  <2>4. \A n : Delays!IsChange(n) => Delays!IsChange(n)'
    BY <1>0, <2>3 DEF Delays!IsChange, Moves, DelayTypes
  <2>5. FlowFits("landed", f.tx, f.seen)'
    <3>1. f.tx.kind = "create" => Delays!IsChange(f.tx.index)'
      BY <2>2, <2>3, FirstIs DEF Delays!IsChange
    <3>2. f.tx.kind # "create" => Delays!IsChange(f.tx.index)'
      BY <1>0, <2>4 DEF FlowFits
    <3> QED
      BY <2>2, <3>1, <3>2 DEF FlowFits
  <2> PICK g : g = [f EXCEPT !.at = "landed"]
    OBVIOUS
  <2>6. g \in FlowRow /\ g.at = "landed" /\ g.tx = f.tx /\ g.seen = f.seen
    BY <1>0, Restage DEF Stage
  <2>7. \/ f.at = "orphan" /\ flows' = flows \ {f}
        \/ f.at = "sent" /\ flows' = (flows \ {f}) \cup {g}
    BY <1>1, <2>1 DEF Delays!Ends, Delays!Goes
  <2>8. FlowsFit'
    <3>1. CASE flows' = flows \ {f}
      BY <1>0, <2>3, <3>1, FlowsMove
    <3>2. CASE flows' = (flows \ {f}) \cup {g}
      <4>1. FlowFits(g.at, g.tx, g.seen)'
        BY <2>5, <2>6
      <4>2. g \in FlowRow /\ flows \ {f} \in SUBSET flows
        BY <2>6
      <4> QED
        BY ONLY <1>0, <2>3, <3>2, <4>1, <4>2, FlowAdded
    <3> QED
      BY <2>7, <3>1, <3>2
  <2>9. Told'
    <3>1. follow' # None => Delays!IsChange(follow)'
      <4>1. follow # None => Delays!IsChange(follow)
        BY <1>0 DEF Told
      <4> QED
        BY <1>1, <2>4, <4>1 DEF Delays!IsChange
    <3>2. CASE lock' # lock
      <4>1. f.at = "orphan" => missed'
        BY <2>1, <3>2
      <4>2. f.at = "sent" => g \in flows' /\ Delays!Reading(g)'
        BY <2>3, <2>6, <2>7, <3>2 DEF Delays!Reading
      <4> QED
        BY <1>1, <3>1, <4>1, <4>2 DEF Told
    <3>3. CASE lock' = lock
      <4>1. \A r \in flows : Delays!Reading(r) => r \in flows'
        BY <1>1, <2>7
      <4>2. missed => missed'
        BY <2>1
      <4> QED
        BY <1>0, <1>1, <2>3, <3>3, <4>1, <4>2, ToldStays
    <3> QED
      BY <3>2, <3>3
  <2> QED
    BY <2>3, <2>8, <2>9 DEF Moves, DelaysInv
<1> QED
  BY <1>2, <1>3

\* Members that use Squads itself, the worker, and the clock: the requests stand.
LEMMA ProgramStep ==
  ASSUME DelaysInv, Moves, UNCHANGED <<recorded, follow, flows>>, missed => missed', lock' = lock \/ missed'
  PROVE  DelaysInv'
<1>0. DelayTypes /\ FlowsFit /\ Told
  BY DEF DelaysInv
<1>1. FlowsFit'
  BY <1>0, FlowsMove
<1>2. Told'
  <2>1. CASE lock' = lock
    BY <1>0, <2>1, ToldStays
  <2>2. CASE missed'
    <3>1. follow' # None => Delays!IsChange(follow)'
      BY <1>0 DEF Told, Delays!IsChange, Moves, DelayTypes
    <3> QED
      BY <2>2, <3>1 DEF Told
  <2> QED
    BY <2>1, <2>2
<1> QED
  BY <1>1, <1>2 DEF Moves, DelaysInv

LEMMA ElsewhereStep ==
  ASSUME DelaysInv, NEW who \in Delays!Voter, NEW trans, Delays!Elsewhere(who, trans),
         trans.kind \in Delays!Votes \cup {"create", "execute"},
         trans.kind # "create" => trans.index \in 1 .. Len(delayLog),
         trans.kind = "create" => trans.what \in Delay
  PROVE  DelaysInv'
<1>1. /\ Delays!Accepts(who, trans) /\ Delays!Apply(who, trans) /\ missed' = (missed \/ lock' # lock)
      /\ UNCHANGED <<delayClock, recorded, follow, flows>>
  BY DEF Delays!Elsewhere
<1>2. Moves
  BY <1>1, Applied DEF DelaysInv
<1> QED
  BY <1>1, <1>2, ProgramStep

LEMMA WorkerStep ==
  ASSUME DelaysInv, Delays!Publish \/ \E n \in 1 .. Len(delayLog) : Delays!Run(n)
  PROVE  DelaysInv'
<1>0. DelayTypes
  BY DEF DelaysInv
<1>1. CASE Delays!Publish
  <2> PICK trans : trans = Delays!Tx("create", Len(delayLog) + 1, First)
    OBVIOUS
  <2>1. trans.kind = "create" /\ trans.what = First
    BY DEF Delays!Tx
  <2>2. Delays!Accepts(None, trans) /\ Delays!Apply(None, trans) /\ UNCHANGED <<delayClock, recorded, follow, flows, missed>>
    BY <1>1 DEF Delays!Publish
  <2>3. Moves /\ lock' = lock
    BY <1>0, <2>1, <2>2, Applied DEF Delays!Votes
  <2> QED
    BY <2>2, <2>3, ProgramStep
<1>2. CASE \E n \in 1 .. Len(delayLog) : Delays!Run(n)
  <2>1. PICK i \in 1 .. Len(delayLog) : Delays!Run(i)
    BY <1>2
  <2> PICK trans : trans = Delays!Tx("execute", i, None)
    OBVIOUS
  <2>2. trans.kind = "execute" /\ trans.index = i
    BY DEF Delays!Tx
  <2>3. /\ delayLog[i].what = First /\ UNCHANGED <<delayClock, recorded, follow, flows, missed>>
        /\ IF Delays!Accepts(None, trans) THEN Delays!Apply(None, trans)
           ELSE delayLog' = [delayLog EXCEPT ![i].open = FALSE] /\ UNCHANGED <<lock, delayStale>>
    BY <2>1 DEF Delays!Run
  <2>4. CASE Delays!Accepts(None, trans)
    <3>1. Moves /\ lock' = lock
      BY <1>0, <2>2, <2>3, <2>4, Applied DEF Delays!Votes, Delays!IsChange
    <3> QED
      BY <2>3, <3>1, ProgramStep
  <2>5. CASE ~Delays!Accepts(None, trans)
    <3> PICK e : e = [delayLog[i] EXCEPT !.open = FALSE]
      OBVIOUS
    <3>1. delayLog' = [delayLog EXCEPT ![i] = e] /\ UNCHANGED <<lock, delayStale>>
      BY <2>3, <2>5
    <3>2. delayLog[i] \in DelayRow
      BY <1>0 DEF DelayTypes
    <3>3. e \in DelayRow /\ e.what = delayLog[i].what /\ e.status = delayLog[i].status /\ e.at = delayLog[i].at
      BY <3>2 DEF DelayRow
    <3>4. Moves
      BY <1>0, <2>3, <3>1, <3>3, RowChanges DEF Follows, DelayTypes
    <3> QED
      BY <2>3, <3>1, <3>4, ProgramStep
  <2> QED
    BY <2>4, <2>5
<1> QED
  BY <1>1, <1>2

LEMMA DelaysStep == DelaysInv /\ [Delays!Next]_(Delays!vars) => DelaysInv'
<1> SUFFICES ASSUME DelaysInv, [Delays!Next]_(Delays!vars) PROVE DelaysInv'
  OBVIOUS
<1>0. DelayTypes /\ FlowsFit /\ Told
  BY DEF DelaysInv
<1>1. CASE Delays!Tick \/ UNCHANGED Delays!vars
  <2>1. /\ UNCHANGED <<Delays!Program, recorded, follow, flows, missed>>
        /\ delayClock' \in {delayClock, delayClock + 1}
    BY <1>1 DEF Delays!Tick, Delays!vars, Delays!Program
  <2>2. Moves
    BY <1>0, <2>1, StandsStill
  <2> QED
    BY <2>1, <2>2, ProgramStep DEF Delays!Program
<1>2. CASE Delays!Propose \/ Delays!Ask \/ \E vote \in Delays!Votes : Delays!VoteOn(vote)
  BY <1>2, BeginStep
<1>3. CASE Delays!CloseTab
  <2>1. UNCHANGED <<delayClock, Delays!Program, recorded, follow>>
    BY <1>3 DEF Delays!CloseTab
  <2>2. Moves
    BY <1>0, <2>1, StandsStill DEF DelayTypes
  <2>3. ASSUME NEW g \in flows' PROVE g \in FlowRow /\ FlowFits(g.at, g.tx, g.seen)'
    <3>1. PICK f \in flows : f.at \in {"sent", "orphan"} /\ g = [f EXCEPT !.at = "orphan"]
      BY <1>3 DEF Delays!CloseTab
    <3>2. g \in FlowRow /\ g.at = "orphan" /\ g.tx = f.tx /\ g.seen = f.seen
      BY <1>0, <3>1, Restage DEF FlowsFit, Stage
    <3>3. FlowFits("orphan", f.tx, f.seen)
      BY <1>0, <3>1 DEF FlowsFit, FlowFits
    <3>4. FlowFits("orphan", f.tx, f.seen)'
      BY <1>0, <2>2, <3>3, FlowStays DEF FlowsFit, FlowRow
    <3> QED
      BY <3>2, <3>4
  <2>4. FlowsFit'
    BY <2>3 DEF FlowsFit
  <2>5. Told'
    <3>1. (\E f \in flows : Delays!Reading(f)) => missed'
      BY <1>3 DEF Delays!CloseTab, Delays!Reading
    <3>2. missed => missed'
      BY <1>3 DEF Delays!CloseTab
    <3> QED
      BY <1>0, <2>1, <2>2, <3>1, <3>2, ToldStays DEF Delays!Program
  <2> QED
    BY <2>2, <2>4, <2>5 DEF Moves, DelaysInv
<1>4. CASE Delays!Forget
  <2>1. UNCHANGED <<delayClock, Delays!Program, recorded, flows, missed>> /\ follow' = None
    BY <1>4 DEF Delays!Forget
  <2>2. Moves
    BY <1>0, <2>1, StandsStill DEF DelayTypes
  <2>3. FlowsFit'
    BY <1>0, <2>1, <2>2, FlowsMove
  <2>4. Told'
    BY <1>0, <2>1, <2>2, ToldStays DEF Delays!Program
  <2> QED
    BY <2>2, <2>3, <2>4 DEF Moves, DelaysInv
<1>5. CASE \E f \in flows :
             \/ Delays!Offer(f) \/ Delays!Sign(f) \/ Delays!Land(f) \/ Delays!Drop(f) \/ Delays!GiveUp(f)
             \/ Delays!Noted(f) \/ Delays!ReadBack(f) \/ Delays!WriteBack(f) \/ Delays!FailConfirm(f)
  BY <1>5, FlowSteps, DelayLandStep
<1>6. CASE \E m \in Delays!Voter, n \in 1 .. Len(delayLog) :
             \/ \E kind \in Delays!Votes : Delays!Elsewhere(m, Delays!Tx(kind, n, None))
             \/ Delays!IsChange(n) /\ Delays!Elsewhere(m, Delays!Tx("execute", n, None))
  <2>0. PICK who \in Delays!Voter, i \in 1 .. Len(delayLog) :
          \/ \E kind \in Delays!Votes : Delays!Elsewhere(who, Delays!Tx(kind, i, None))
          \/ Delays!Elsewhere(who, Delays!Tx("execute", i, None))
    BY <1>6
  <2>1. PICK trans : /\ Delays!Elsewhere(who, trans)
                     /\ \E kind \in Delays!Votes \cup {"execute"} : trans = Delays!Tx(kind, i, None)
    BY <2>0
  <2>2. trans.kind \in Delays!Votes \cup {"execute"} /\ trans.index = i
    BY <2>1 DEF Delays!Tx
  <2>3. trans.kind # "create"
    BY <2>2 DEF Delays!Votes
  <2> QED
    BY <2>1, <2>2, <2>3, ElsewhereStep
<1>7. CASE \E m \in Delays!Voter, seconds \in Delay : Delays!Elsewhere(m, Delays!Tx("create", Len(delayLog) + 1, seconds))
  <2>0. PICK who \in Delays!Voter, seconds \in Delay : Delays!Elsewhere(who, Delays!Tx("create", Len(delayLog) + 1, seconds))
    BY <1>7
  <2>1. PICK trans : Delays!Elsewhere(who, trans) /\ trans = Delays!Tx("create", Len(delayLog) + 1, seconds)
    BY <2>0
  <2>2. trans.kind = "create" /\ trans.what \in Delay
    BY <2>1 DEF Delays!Tx
  <2> QED
    BY <2>1, <2>2, ElsewhereStep
<1>8. CASE Delays!Publish \/ \E n \in 1 .. Len(delayLog) : Delays!Run(n)
  BY <1>8, WorkerStep
<1> QED
  BY <1>1, <1>2, <1>3, <1>4, <1>5, <1>6, <1>7, <1>8 DEF Delays!Next

LEMMA DelaysAlone == Delays!Spec => []TimeLockTold
<1>1. DelaysInv => TimeLockTold
  <2> SUFFICES ASSUME DelaysInv PROVE TimeLockTold
    OBVIOUS
  <2>0. DelayTypes /\ FlowsFit /\ Told
    BY DEF DelaysInv
  <2>1. ASSUME NEW f \in flows, f.tx.kind = "execute", f.at \in {"wallet", "sent"},
               delayLog[f.tx.index].status = "approved", f.tx.index > delayStale
        PROVE  Delays!Unlocked(f.tx.index, lock)
    <3>1. f.seen = lock /\ delayLog[f.tx.index].at + f.seen <= delayClock
      BY <2>0, <2>1 DEF FlowsFit, FlowFits
    <3>2. delayLog[f.tx.index] \in DelayRow
      BY <2>0, <2>1 DEF FlowsFit, FlowFits, Delays!IsChange, DelayTypes
    <3>3. delayLog[f.tx.index].at \in Nat /\ lock \in Nat /\ delayClock \in Nat
      BY <2>0, <3>2, RowFacts, TreasuryAssumption DEF DelayTypes
    <3> QED
      BY <3>1, <3>3 DEF Delays!Unlocked
  <2>2. recorded = lock => \A n \in 1 .. Len(delayLog) : Delays!Ready(n) <=> Delays!Unlocked(n, lock)
    BY DEF Delays!Ready
  <2> QED
    BY <2>0, <2>1, <2>2 DEF Told, TimeLockTold, Delays!TimeLockTold
<1> QED
  BY <1>1, DelaysInit, DelaysStep, PTL DEF Delays!Spec

\* The delay that Relay tells and goes by is the multisig's, an execution that it
\* hands to a wallet is one that the program takes, and the drawer follows a change:
\* for any members, delays and requests under way, votes and executions in Squads
\* itself, blockhashes that expire, tabs that close and confirmations that fail
\* (time-lock, its confirmation, and the drawer that tracks a change).
THEOREM DelayIsTheProgrammed == Spec => []TimeLockTold
<1>1. Init => Delays!Init
  BY DEF Init
<1>2. [Next]_<<part, squads, theSafe, x402, books, reading, recurring, others>> => [Delays!Next]_(Delays!vars)
  BY DEF Next, others, delays, Delays!vars
<1> QED
  BY <1>1, <1>2, DelaysAlone, PTL DEF Spec, Delays!Spec

(***************************************************************************)
(* The daily limit, by what Authorization_proofs shows of any intents,     *)
(* amounts and limit.                                                      *)
(***************************************************************************)
General == INSTANCE Authorization_proofs WITH
             NoIntent <- None, Amount <- AmountOf, Lifetime <- LifetimeOf,
             MaxTime <- MaxDays, MaxFaults <- MaxErrors,
             now <- clock, frozen <- shut, faults <- errors

\* Authorization's assumptions are among those of MCTreasury.
LEMMA LimitsAssumption == General!AuthorizationAssumption
<1>1. General!IsFiniteSet(Intent)
  BY TreasuryAssumption DEF IsFiniteSet, General!IsFiniteSet
<1> HIDE DEF General!IsFiniteSet
<1> QED
  BY TreasuryAssumption, <1>1 DEF General!AuthorizationAssumption

\* What MCTreasury runs is what the general proofs are about.
LEMMA SameLimits ==
  /\ Limits!Init => General!Init
  /\ [Limits!Next]_(Limits!vars) => [General!Next]_(General!vars)
  /\ General!WithinDailyLimit => WithinDailyLimit
<1>1. Limits!Init => General!Init
  BY DEF Limits!Init, General!Init, Limits!Idle, General!Idle
<1>2. Limits!Next => General!Next
  <2>0. \A i : Limits!PolicyRejects(i) <=> General!PolicyRejects(i)
    BY DEF Limits!PolicyRejects, General!PolicyRejects, Limits!OverLimit, General!OverLimit,
      Limits!Total, General!Total, Limits!Counted, General!Counted, Limits!Committed,
      General!Committed, Limits!Underway, General!Underway, Limits!Expired, General!Expired,
      Limits!MapThenSumSet, General!MapThenSumSet, Limits!MapThenFoldSet, General!MapThenFoldSet
  <2>1. ASSUME NEW i \in Intent, Limits!Create(i) PROVE General!Create(i)
    BY <2>1 DEF Limits!Create, General!Create, Limits!gates, General!gates
  <2>2. ASSUME NEW w \in Worker, NEW e \in Limits!Job, Limits!Take(w, e) PROVE General!Take(w, e)
    BY <2>2 DEF Limits!Take, General!Take, Limits!Idle, General!Idle, Limits!Expired,
      General!Expired, Limits!records, General!records, Limits!gates, General!gates, Limits!queue,
      General!queue
  <2>3. ASSUME NEW w \in Worker, Limits!Complete(w) PROVE General!Complete(w)
    BY <2>3 DEF Limits!Complete, General!Complete, Limits!Idle, General!Idle, Limits!records,
      General!records, Limits!gates, General!gates
  <2>4. ASSUME NEW w \in Worker, Limits!ReadIntake(w) PROVE General!ReadIntake(w)
    BY <2>4 DEF Limits!ReadIntake, General!ReadIntake, Limits!IntentOf, General!IntentOf,
      Limits!Goto, General!Goto, Limits!Expired, General!Expired, Limits!records, General!records,
      Limits!gates, General!gates, Limits!queue, General!queue
  <2>5. ASSUME NEW w \in Worker, Limits!DecideIntake(w) PROVE General!DecideIntake(w)
    BY <2>0, <2>5 DEF Limits!DecideIntake, General!DecideIntake, Limits!IntentOf, General!IntentOf,
      Limits!Goto, General!Goto, Limits!Delegated, General!Delegated, Limits!records,
      General!records, Limits!gates, General!gates, Limits!queue, General!queue
  <2>6. ASSUME NEW w \in Worker, Limits!CommitIntake(w) PROVE General!CommitIntake(w)
    BY <2>6 DEF Limits!CommitIntake, General!CommitIntake, Limits!IntentOf, General!IntentOf,
      Limits!Goto, General!Goto, Limits!Become, General!Become, Limits!Expiry, General!Expiry,
      Limits!gates, General!gates
  <2>7. ASSUME NEW w \in Worker, Limits!ExpireApproval(w) PROVE General!ExpireApproval(w)
    BY <2>7 DEF Limits!ExpireApproval, General!ExpireApproval, Limits!IntentOf, General!IntentOf,
      Limits!Goto, General!Goto, Limits!gates, General!gates, Limits!queue, General!queue
  <2>8. ASSUME NEW w \in Worker, Limits!ReadExecution(w) PROVE General!ReadExecution(w)
    BY <2>8 DEF Limits!ReadExecution, General!ReadExecution, Limits!IntentOf, General!IntentOf,
      Limits!Goto, General!Goto, Limits!Expired, General!Expired, Limits!records, General!records,
      Limits!gates, General!gates, Limits!queue, General!queue
  <2>9. ASSUME NEW w \in Worker, Limits!Recheck(w) PROVE General!Recheck(w)
    BY <2>0, <2>9 DEF Limits!Recheck, General!Recheck, Limits!IntentOf, General!IntentOf,
      Limits!Goto, General!Goto, Limits!records, General!records, Limits!gates, General!gates,
      Limits!queue, General!queue
  <2>10. ASSUME NEW w \in Worker, Limits!RecordSimulation(w) PROVE General!RecordSimulation(w)
    BY <2>10 DEF Limits!RecordSimulation, General!RecordSimulation, Limits!IntentOf,
      General!IntentOf, Limits!Goto, General!Goto, Limits!gates, General!gates, Limits!queue,
      General!queue
  <2>11. ASSUME NEW w \in Worker, Limits!Resume(w) PROVE General!Resume(w)
    BY <2>11 DEF Limits!Resume, General!Resume, Limits!Goto, General!Goto, Limits!records,
      General!records, Limits!gates, General!gates, Limits!queue, General!queue
  <2>12. ASSUME NEW w \in Worker, Limits!Submit(w) PROVE General!Submit(w)
    BY <2>12 DEF Limits!Submit, General!Submit, Limits!IntentOf, General!IntentOf, Limits!Goto,
      General!Goto, Limits!gates, General!gates
  <2>13. ASSUME NEW w \in Worker, Limits!MarkFailed(w) PROVE General!MarkFailed(w)
    BY <2>13 DEF Limits!MarkFailed, General!MarkFailed, Limits!IntentOf, General!IntentOf,
      Limits!Goto, General!Goto, Limits!Terminal, General!Terminal, Limits!gates, General!gates,
      Limits!queue, General!queue
  <2>14. ASSUME NEW w \in Worker, Limits!Confirm(w) PROVE General!Confirm(w)
    BY <2>14 DEF Limits!Confirm, General!Confirm, Limits!IntentOf, General!IntentOf, Limits!Goto,
      General!Goto, Limits!GiveBack, General!GiveBack, Limits!Idle, General!Idle, Limits!gates,
      General!gates, Limits!queue, General!queue
  <2>15. ASSUME NEW w \in Worker, Limits!Interrupt(w) PROVE General!Interrupt(w)
    BY <2>15 DEF Limits!Interrupt, General!Interrupt, Limits!GiveBack, General!GiveBack,
      Limits!Idle, General!Idle, Limits!records, General!records, Limits!gates, General!gates,
      Limits!queue, General!queue
  <2>16. ASSUME NEW a \in Approver, NEW i \in Intent, NEW vote \in {"approved", "rejected"}, Limits!DecideIntent(a, i, vote) PROVE General!DecideIntent(a, i, vote)
    BY <2>16 DEF Limits!DecideIntent, General!DecideIntent, Limits!Decidable, General!Decidable,
      Limits!Enough, General!Enough, Limits!ApprovedBy, General!ApprovedBy, Limits!Cardinality,
      General!Cardinality, Limits!Expired, General!Expired, Limits!gates, General!gates
  <2>17. (Limits!Switch => General!Switch) /\ (Limits!Tick => General!Tick)
    BY DEF Limits!Switch, General!Switch, Limits!Tick, General!Tick, Limits!records,
      General!records, Limits!gates, General!gates, Limits!queue, General!queue
  <2> QED
    BY <2>1, <2>2, <2>3, <2>4, <2>5, <2>6, <2>7, <2>8, <2>9, <2>10, <2>11, <2>12, <2>13, <2>14,
      <2>15, <2>16, <2>17 DEF Limits!Next, General!Next, Limits!WorkerStep, General!WorkerStep,
      Limits!Job, General!Job
<1>3. UNCHANGED Limits!vars => UNCHANGED General!vars
  BY DEF Limits!vars, General!vars, Limits!records, General!records, Limits!gates, General!gates, Limits!queue, General!queue
<1>4. General!WithinDailyLimit => WithinDailyLimit
  BY DEF WithinDailyLimit, Limits!WithinDailyLimit, General!WithinDailyLimit, Limits!Started,
    General!Started, Limits!Total, General!Total, Limits!MapThenSumSet, General!MapThenSumSet,
    Limits!MapThenFoldSet, General!MapThenFoldSet
<1> QED
  BY <1>1, <1>2, <1>3, <1>4

\* Executions that start within a day of each other stay within the daily limit,
\* for any intents, amounts, lifetimes, policy, workers and approvers, over any
\* number of days (spentToday, getExecutionContext, recordSimulation).
THEOREM LimitIsKept == Spec => []WithinDailyLimit
<1>1. Init => Limits!Init
  BY DEF Init
<1>2. [Next]_<<part, squads, theSafe, x402, books, reading, recurring, others>> => [Limits!Next]_(Limits!vars)
  BY DEF Next, others, limits, Limits!vars, Limits!records, Limits!gates, Limits!queue
<1>3. General!Init => General!LimitInv
  BY LimitsAssumption, General!LimitInit
<1>4. General!LimitInv /\ [General!Next]_(General!vars) => General!LimitInv'
  BY LimitsAssumption, General!LimitStep
<1>5. General!LimitInv => General!WithinDailyLimit
  BY DEF General!LimitInv
<1> QED
  BY <1>1, <1>2, <1>3, <1>4, <1>5, SameLimits, PTL DEF Spec

(***************************************************************************)
(* SquadsTreasury, for any payments, rotations and keys, any number of     *)
(* transactions, crashes and retries, beside the owners' change of the     *)
(* time lock.                                                              *)
(***************************************************************************)

Item == Payout \cup Rotation

Status == {"received", "policy_evaluated", "none", "publishing", "approval_required", "approved", "executing",
           "paid", "completed", "failed", "rejected", "expired"}

Index == Nat \ {0}
ItemRow == [status : Status, publication : Index \cup {None}, ref : Index \cup {None}]
RotationRow == [status : Status, publication : Index \cup {None}, ref : Index \cup {None}, from : Key, to : Key]

Vote == {"active", "approved", "rejected", "cancelled", "executed"}
Entry == [payload : Squads!Payload, creator : Key \cup {None}, status : Vote]
Creation == [index : Index, payload : Squads!Payload, creator : Key \cup {None}]

SquadsTypes ==
  /\ row = [x \in Item |-> row[x]] /\ handler = [x \in Item |-> handler[x]]
  /\ \A i \in Payout : row[i] \in ItemRow
  /\ \A r \in Rotation : IF row[r].status = "none" THEN row[r] \in ItemRow ELSE row[r] \in RotationRow
  /\ executor \in Key /\ members \subseteq Key
  /\ log \in Seq(Entry) /\ sent \subseteq Creation /\ stale \in 0 .. Len(log) /\ slipped \in BOOLEAN
  /\ \A e \in {log[n] : n \in 1 .. Len(log)} \cup sent : e.creator = None <=> e.payload = Squads!TimeLock

\* The key that the row's publications are signed with.
KeyOf(x) == IF x \in Payout THEN executor ELSE row[x].from

\* The transactions of an item, on their way or at the multisig.
SentOf(x) == {c \in sent : c.payload = x}
LogOf(x) == {n \in 1 .. Len(log) : log[n].payload = x}

\* What a row may take for its proposal: a rotation its own, a payment one of a
\* payment.
Own(x, n) == n \in 1 .. Len(log) /\ (log[n].payload = x \/ (x \in Payout /\ log[n].payload \in Payout))

\* All that is published for it is signed with one key: a rotation's is in its row, a
\* payment's is the executor's.
Firm(x) == x \in Rotation \/ ~slipped

\* Where the worker is, by what the row says.
Where(x) ==
  LET r == row[x]
      h == handler[x]
  IN
  /\ h.at \in {"idle", "read", "recorded", "sent", "published", "observed", "signed", "swapped"}
  /\ h.at = "read" => h.key \in Key
  /\ h.at \in {"recorded", "sent"} =>
       h \in [at : {"recorded", "sent"}, index : Index, key : Key] /\ h.index = r.publication
  /\ h.at \in {"read", "recorded", "sent", "published"} => Squads!Fresh(x)
  /\ h.at \in {"read", "recorded", "sent"} /\ Firm(x) => h.key = KeyOf(x)
  /\ h.at = "published" => Own(x, h.index) /\ h.index = r.publication
  /\ h.at = "observed" =>
       /\ r.status \in {"approval_required", "expired"} /\ r.ref # None
       /\ h.proposal = "approved" => log[r.ref].status \in {"approved", "executed", "cancelled"}
  /\ h.at = "signed" => x \in Payout /\ r.status = "executing"
  /\ h.at = "swapped" => x \in Rotation /\ r.status = "executing"
  /\ r.status \in {"received", "none"} => h.at = "idle" /\ r.publication = None
  /\ r.status \in {"received", "none", "policy_evaluated", "publishing"} => r.ref = None
  /\ r.status \in {"paid", "approved", "policy_evaluated", "received", "expired"} => x \in Payout
  /\ r.status \in {"none", "publishing", "completed"} => x \in Rotation

\* Nothing that is on its way can land beside what is there already: an earlier
\* publication has lost its index, and the last one is the row's.
Published(x) ==
  LET p == row[x].publication IN
  /\ \A c \in SentOf(x) : p # None /\ c.index <= p /\ (c.index = p \/ c.index <= Len(log))
  /\ \A n \in LogOf(x) : p # None /\ n <= p /\ (Firm(x) => n = p)
  /\ row[x].ref # None => Own(x, row[x].ref) /\ row[x].ref = p
  /\ Firm(x) /\ (x \in Rotation \/ Squads!Fresh(x)) =>
       \A e \in SentOf(x) \cup {log[n] : n \in LogOf(x)} : e.creator = KeyOf(x)

Alive(x) == row[x].status \in IF x \in Payout THEN Squads!InFlight ELSE Squads!Open

\* What the row says of the members' votes.
Voted(x) ==
  LET r == row[x] IN
  /\ r.status \in {"approval_required", "approved", "executing", "paid", "completed"} => r.ref # None
  /\ x \in Rotation /\ r.status \notin {"none", "publishing"} => r.ref # None
  /\ r.status \in {"approved", "executing", "paid", "completed"} =>
       log[r.ref].status \in {"approved", "executed", "cancelled"}
  /\ ~slipped /\ Alive(x) /\ r.publication \in 1 .. Len(log) /\ log[r.publication].status = "active" =>
       r.publication > stale

\* For each payment that is paid one left the vault, and nothing else did.
Vault ==
  /\ \A i \in Payout : row[i].status = "paid" => Squads!Left(row[i].ref)
  /\ \A n \in 1 .. Len(log) : Squads!Left(n) => \E i \in Payout : row[i].status = "paid" /\ row[i].ref = n
  /\ \A i, j \in Payout : row[i].status = "paid" /\ row[j].status = "paid" /\ i # j => row[i].ref # row[j].ref

\* There is one change of the time lock.
LockOnce ==
  /\ \A c, d \in SentOf(Squads!TimeLock) : c = d
  /\ SentOf(Squads!TimeLock) # {} => LogOf(Squads!TimeLock) = {}
  /\ \A m, n \in LogOf(Squads!TimeLock) : m = n

\* Unless something slipped past a check, payments, rotations and the change of
\* the time lock are under way one at a time.
Exclusive ==
  ~slipped => /\ ~(Squads!Busy /\ Squads!RotationOpen)
              /\ Squads!LockPending => ~Squads!Busy /\ ~Squads!RotationOpen

\* An open rotation is from the executor to another key.  There is one at a time, so
\* none ever had its index taken by another one's proposal.
Lead ==
  /\ executor \in members \/ \E r \in Rotation : row[r].status = "executing" /\ Squads!Swapped(r)
  /\ \A r \in Rotation : row[r].status \in Squads!Open => row[r].from = executor /\ row[r].to # executor
  /\ \A r, s \in Rotation : row[r].status \in Squads!Open /\ row[s].status \in Squads!Open => r = s
Apart ==
  \A r \in Rotation :
    LET p == row[r].publication IN
    p # None /\ p \in 1 .. Len(log) /\ log[p].payload \in Rotation => log[p].payload = r

Items == \A x \in Item : Where(x) /\ Published(x) /\ Voted(x)
SquadsInv == SquadsTypes /\ Items /\ Vault /\ LockOnce /\ Exclusive /\ Lead /\ Apart

\* Nothing is published at first, and the executor is the only member.
LEMMA SquadsInit == Squads!Init => SquadsInv
<1> SUFFICES ASSUME Squads!Init PROVE SquadsInv
  OBVIOUS
<1>1. /\ \A x \in Item : row[x] = [status |-> IF x \in Payout THEN "received" ELSE "none",
                                    publication |-> None, ref |-> None]
      /\ \A x \in Item : handler[x].at = "idle"
      /\ executor \in Key /\ members = {executor} /\ log = <<>> /\ stale = 0 /\ sent = {} /\ slipped = FALSE
      /\ row = [x \in Item |-> row[x]] /\ handler = [x \in Item |-> handler[x]]
  BY DEF Squads!Init, Squads!Idle, Squads!Item, Item
<1>7. \A x \in Item : /\ row[x].status = IF x \in Payout THEN "received" ELSE "none"
                     /\ row[x].publication = None /\ row[x].ref = None /\ row[x] \in ItemRow
  BY <1>1 DEF ItemRow, Status
<1>8. /\ \A i \in Payout : i \in Item /\ row[i].status = "received"
      /\ \A r \in Rotation : r \in Item /\ r \notin Payout /\ row[r].status = "none"
  BY <1>7, TreasuryAssumption DEF Item
<1>2. SquadsTypes
  <2>1. {log[n] : n \in 1 .. Len(log)} = {} /\ log \in Seq(Entry) /\ Len(log) = 0
    BY <1>1
  <2>2. \A e \in {log[n] : n \in 1 .. Len(log)} \cup sent : e.creator = None <=> e.payload = Squads!TimeLock
    BY <1>1, <2>1
  <2>3. stale \in 0 .. Len(log)
    <3>1. Len(log) = 0 /\ stale = 0
      BY <1>1, <2>1
    <3> QED
      BY <3>1
  <2>6. sent \subseteq Creation /\ slipped \in BOOLEAN /\ executor \in Key /\ members \subseteq Key
    BY <1>1
  <2>4. \A r \in Rotation : IF row[r].status = "none" THEN row[r] \in ItemRow ELSE row[r] \in RotationRow
    BY <1>7, <1>8
  <2>5. \A i \in Payout : row[i] \in ItemRow
    BY <1>7, <1>8
  <2> QED
    BY <1>1, <2>1, <2>2, <2>3, <2>4, <2>5, <2>6 DEF SquadsTypes
<1>3. ASSUME NEW x \in Item PROVE Where(x) /\ Published(x) /\ Voted(x)
  <2>1. SentOf(x) = {} /\ LogOf(x) = {} /\ row[x].ref = None /\ row[x].publication = None
    BY <1>1 DEF SentOf, LogOf
  <2>2. row[x].status \in {"received", "none"} /\ handler[x].at = "idle" /\ (row[x].status = "received" <=> x \in Payout)
    BY <1>1, <1>7
  <2>3. Where(x)
    BY <2>1, <2>2, <1>3 DEF Where, Item
  <2>4. Published(x)
    BY <2>1, <1>1 DEF Published
  <2>5. Voted(x)
    <3>1. None \notin 1 .. Len(log)
      BY <1>1, TreasuryAssumption
    <3> QED
      BY <2>1, <2>2, <3>1, <1>3, TreasuryAssumption DEF Voted, Item
  <2> QED
    BY <2>3, <2>4, <2>5
<1>9. Vault
  BY <1>1, <1>8 DEF Vault
<1>10. Apart
  BY <1>1, <1>8 DEF Apart, Item
<1>4. LockOnce
  BY <1>1 DEF LockOnce, SentOf, LogOf
<1>5. Exclusive
  BY <1>1, <1>8 DEF Exclusive, Squads!Busy, Squads!RotationOpen, Squads!LockPending, Squads!InFlight, Squads!Open
<1>6. Lead
  BY <1>1, <1>8 DEF Lead, Squads!Open
<1> QED
  BY <1>2, <1>3, <1>4, <1>5, <1>6, <1>9, <1>10 DEF SquadsInv, Items

\* Checks against each other stay as they are if nothing new is under way.
LEMMA ExclusiveKept ==
  ASSUME Exclusive, slipped => slipped', \A y \in Item : ~slipped' /\ Alive(y)' => Alive(y),
         Squads!LockPending' => Squads!LockPending
  PROVE  Exclusive'
<1>1. Squads!Busy <=> \E i \in Payout : Alive(i)
  BY DEF Squads!Busy, Alive
<1>2. Squads!RotationOpen <=> \E r \in Rotation : Alive(r)
  BY TreasuryAssumption DEF Squads!RotationOpen, Alive
<1>3. Squads!Busy' <=> \E i \in Payout : Alive(i)'
  BY DEF Squads!Busy, Alive
<1>4. Squads!RotationOpen' <=> \E r \in Rotation : Alive(r)'
  BY TreasuryAssumption DEF Squads!RotationOpen, Alive
<1> QED
  BY <1>1, <1>2, <1>3, <1>4 DEF Exclusive, Item

\* The change of the time lock is pending as long as its publication or proposal is.
LEMMA LockStays ==
  ASSUME UNCHANGED log, SentOf(Squads!TimeLock)' = SentOf(Squads!TimeLock)
  PROVE  Squads!LockPending' <=> Squads!LockPending
BY DEF Squads!LockPending, SentOf

\* The types of a row's parts.
LEMMA RowParts ==
  ASSUME SquadsInv, NEW x \in Item
  PROVE  /\ row[x].status \in Status /\ row[x].publication \in Index \cup {None} /\ row[x].ref \in Index \cup {None}
         /\ x \in Payout => row[x] \in ItemRow /\ x \notin Rotation
         /\ x \in Rotation => row[x] \in IF row[x].status = "none" THEN ItemRow ELSE RotationRow
         /\ Where(x) /\ Published(x) /\ Voted(x) /\ x # Squads!TimeLock
BY TreasuryAssumption DEF SquadsInv, Items, SquadsTypes, Item, ItemRow, RotationRow, Squads!TimeLock

\* Null is not an index.
LEMMA NoneNoIndex == ASSUME SquadsInv PROVE None \notin 1 .. Len(log)
<1>1. Len(log) \in Nat
  BY DEF SquadsInv, SquadsTypes
<1> QED
  BY <1>1, TreasuryAssumption

\* A step on one item, which may send its publication, keeps everything if it keeps
\* what is said of that item.
LEMMA ItemMoves ==
  ASSUME SquadsInv, NEW x \in Item, NEW r, NEW h,
         row' = [row EXCEPT ![x] = r], handler' = [handler EXCEPT ![x] = h],
         x \in Payout => r \in ItemRow,
         x \in Rotation => r \in IF r.status = "none" THEN ItemRow ELSE RotationRow,
         UNCHANGED <<executor, members, log, stale>>, slipped' \in BOOLEAN, slipped => slipped',
         sent \subseteq sent', \A c \in sent' \ sent : c \in Creation /\ c.payload = x /\ c.creator \in Key,
         r.status = "paid" <=> row[x].status = "paid", row[x].status = "paid" => r.ref = row[x].ref,
         x \in Rotation => r.publication = row[x].publication \/ r.publication \notin 1 .. Len(log),
         Where(x)', Published(x)', Voted(x)', Exclusive', Lead'
  PROVE  SquadsInv'
<1>1. /\ row'[x] = r /\ \A y \in Item : y # x => row'[y] = row[y]
      /\ handler'[x] = h /\ \A y \in Item : y # x => handler'[y] = handler[y]
      /\ row' = [y \in Item |-> row'[y]] /\ handler' = [y \in Item |-> handler'[y]]
  BY DEF SquadsInv, SquadsTypes
<1>2. x # Squads!TimeLock
  BY RowParts
<1>3. \A y : y # x => SentOf(y)' = SentOf(y)
  BY DEF SentOf
<1>4. \A y : LogOf(y)' = LogOf(y)
  BY DEF LogOf
<1>5. SquadsTypes'
  <2>1. \A i \in Payout : row'[i] \in ItemRow
    BY <1>1 DEF SquadsInv, SquadsTypes, Item
  <2>2. \A s \in Rotation : IF row'[s].status = "none" THEN row'[s] \in ItemRow ELSE row'[s] \in RotationRow
    <3> SUFFICES ASSUME NEW s \in Rotation
                 PROVE  IF row'[s].status = "none" THEN row'[s] \in ItemRow ELSE row'[s] \in RotationRow
      OBVIOUS
    <3>1. CASE s = x
      BY <1>1, <3>1
    <3>2. CASE s # x
      BY <1>1, <3>2 DEF SquadsInv, SquadsTypes, Item
    <3> QED
      BY <3>1, <3>2
  <2>3. sent' \subseteq Creation /\ \A c \in sent' : c.creator = None <=> c.payload = Squads!TimeLock
    BY <1>2, TreasuryAssumption DEF SquadsInv, SquadsTypes
  <2> QED
    BY <1>1, <2>1, <2>2, <2>3 DEF SquadsInv, SquadsTypes
<1>6. ASSUME NEW y \in Item, y # x PROVE Where(y)' /\ Published(y)' /\ Voted(y)'
  <2>1. /\ Where(y) /\ Published(y) /\ Voted(y) /\ row'[y] = row[y] /\ handler'[y] = handler[y]
        /\ SentOf(y)' = SentOf(y) /\ LogOf(y)' = LogOf(y)
    BY <1>1, <1>3, <1>4, <1>6, RowParts
  <2>2. Squads!Fresh(y)' <=> Squads!Fresh(y)
    BY <2>1 DEF Squads!Fresh
  <2>3. Alive(y)' <=> Alive(y)
    BY <2>1 DEF Alive
  <2>4. KeyOf(y)' = KeyOf(y) /\ (Firm(y)' => Firm(y))
    BY <2>1 DEF KeyOf, Firm
  <2>5. Where(y)'
    BY <2>1, <2>2, <2>4 DEF Where, Own
  <2>6. Published(y)'
    BY <2>1, <2>2, <2>4 DEF Published, Own
  <2>7. Voted(y)'
    BY <2>1, <2>3 DEF Voted
  <2> QED
    BY <2>5, <2>6, <2>7
<1>7. LockOnce'
  BY <1>2, <1>3, <1>4 DEF SquadsInv, LockOnce
<1>8. Vault'
  <2>1. \A i \in Payout : row'[i].status = "paid" <=> row[i].status = "paid"
    BY <1>1 DEF Item
  <2>2. \A i \in Payout : row[i].status = "paid" => row'[i].ref = row[i].ref
    BY <1>1 DEF Item
  <2> QED
    BY <2>1, <2>2 DEF SquadsInv, Vault, Squads!Left
<1>9. Apart'
  <2> SUFFICES ASSUME NEW q \in Rotation, row'[q].publication # None, row'[q].publication \in 1 .. Len(log),
                      log[row'[q].publication].payload \in Rotation
               PROVE  log[row'[q].publication].payload = q
    BY DEF Apart
  <2>1. row'[q].publication = row[q].publication
    BY <1>1 DEF Item
  <2> QED
    BY <2>1 DEF SquadsInv, Apart
<1> QED
  BY <1>5, <1>6, <1>7, <1>8, <1>9 DEF SquadsInv, Items

\* A step on the worker alone.
LEMMA HandlerMoves ==
  ASSUME SquadsInv, NEW x \in Item, NEW h, handler' = [handler EXCEPT ![x] = h],
         UNCHANGED <<row, executor, members, log, stale, sent, slipped>>, Where(x)'
  PROVE  SquadsInv'
<1>1. row' = [row EXCEPT ![x] = row[x]] /\ slipped \in BOOLEAN
  BY DEF SquadsInv, SquadsTypes
<1>2. row'[x] = row[x] /\ SentOf(x)' = SentOf(x) /\ LogOf(x)' = LogOf(x)
  BY DEF SentOf, LogOf
<1>3. Published(x) /\ Voted(x)
  BY RowParts
<1>4. Published(x)'
  BY <1>2, <1>3 DEF Published, Squads!Fresh, KeyOf, Own, Firm
<1>5. Voted(x)'
  BY <1>2, <1>3 DEF Voted, Alive
<1>6. Exclusive'
  BY DEF SquadsInv, Exclusive, Squads!Busy, Squads!RotationOpen, Squads!LockPending
<1>7. Lead'
  BY DEF SquadsInv, Lead, Squads!Swapped
<1> QED
  BY <1>1, <1>4, <1>5, <1>6, <1>7, RowParts, ItemMoves

\* A step on a row that is under way, which begins nothing beside it.
LEMMA RowMoves ==
  ASSUME SquadsInv, NEW x \in Item, NEW r, NEW h,
         row' = [row EXCEPT ![x] = r], handler' = [handler EXCEPT ![x] = h],
         x \in Payout => r \in ItemRow, r.status # "none",
         x \in Rotation => /\ r \in RotationRow /\ row[x].status # "none"
                           /\ r.from = row[x].from /\ r.to = row[x].to
                           /\ row[x].status = "executing" => r.status = "executing",
         UNCHANGED <<executor, members, log, stale, sent, slipped>>,
         r.status = "paid" <=> row[x].status = "paid", row[x].status = "paid" => r.ref = row[x].ref,
         x \in Rotation => r.publication = row[x].publication \/ r.publication \notin 1 .. Len(log),
         Alive(x)' => Alive(x), Where(x)', Published(x)', Voted(x)'
  PROVE  SquadsInv'
<1>1. row'[x] = r /\ \A y \in Item : y # x => row'[y] = row[y]
  BY DEF SquadsInv, SquadsTypes
<1>2. Exclusive'
  <2>1. \A y \in Item : Alive(y)' => Alive(y)
    BY <1>1 DEF Alive
  <2>2. Squads!LockPending' <=> Squads!LockPending
    BY DEF Squads!LockPending
  <2> QED
    BY <2>1, <2>2, ExclusiveKept DEF SquadsInv
<1>3. Lead'
  <2>1. \A s \in Rotation : row'[s].from = row[s].from /\ row'[s].to = row[s].to
    BY <1>1 DEF Item
  <2>2. \A s \in Rotation : row[s].status = "executing" => row'[s].status = "executing"
    BY <1>1 DEF Item
  <2>3. \A s \in Rotation : row'[s].status \in Squads!Open => row[s].status \in Squads!Open
    BY <1>1, TreasuryAssumption DEF Item, Alive
  <2> QED
    BY <2>1, <2>2, <2>3 DEF SquadsInv, Lead, Squads!Swapped
<1> QED
  BY <1>2, <1>3, ItemMoves DEF SquadsInv, SquadsTypes

\* A new status, by a vote, the end of a payment or the start of its execution.
LEMMA StatusMoves ==
  ASSUME SquadsInv, NEW x \in Item, NEW s \in Status, NEW h,
         Squads!SetStatus(x, s), handler' = [handler EXCEPT ![x] = h],
         UNCHANGED <<executor, members, log, stale, sent, slipped>>,
         row[x].status \notin {"received", "none"}, s \notin {"received", "none", "policy_evaluated", "publishing"},
         s \in {"paid", "approved", "expired"} => x \in Payout, s = "completed" => x \in Rotation,
         h.at = "idle" \/ (h.at = "signed" /\ x \in Payout /\ s = "executing"),
         (s \in IF x \in Payout THEN Squads!InFlight ELSE Squads!Open) => Alive(x),
         x \in Rotation /\ row[x].status = "executing" => s = "executing",
         s \in {"approval_required", "approved", "executing", "paid", "completed"} \/ x \in Rotation => row[x].ref # None,
         s \in {"approved", "executing", "paid", "completed"} =>
           log[row[x].ref].status \in {"approved", "executed", "cancelled"},
         s = "paid" <=> row[x].status = "paid"
  PROVE  SquadsInv'
<1> DEFINE r == [row[x] EXCEPT !.status = s]
<1>1. row' = [row EXCEPT ![x] = r]
  BY DEF Squads!SetStatus
<1>2. /\ r.status = s /\ r.publication = row[x].publication /\ r.ref = row[x].ref
      /\ x \in Payout => r \in ItemRow
      /\ x \in Rotation => r \in RotationRow /\ r.from = row[x].from /\ r.to = row[x].to
  <2>1. x \in Payout => row[x] \in ItemRow /\ x \notin Rotation
    BY RowParts
  <2>2. x \in Rotation => row[x] \in RotationRow
    BY RowParts
  <2>3. CASE x \in Payout
    BY <2>1, <2>3 DEF ItemRow
  <2>4. CASE x \in Rotation
    BY <2>1, <2>2, <2>4 DEF RotationRow
  <2> QED
    BY <2>3, <2>4 DEF Item
<1> HIDE DEF r
<1>3. row'[x] = r /\ handler'[x] = h /\ SentOf(x)' = SentOf(x) /\ LogOf(x)' = LogOf(x)
  BY <1>1 DEF SquadsInv, SquadsTypes, SentOf, LogOf
<1>4. Where(x) /\ Published(x) /\ Voted(x)
  BY RowParts
<1>5. ~Squads!Fresh(x)'
  BY <1>2, <1>3 DEF Squads!Fresh
<1>6. Where(x)'
  BY <1>2, <1>3 DEF Where
<1>7. Published(x)'
  <2>1. x \in Rotation => KeyOf(x)' = KeyOf(x)
    BY <1>2, <1>3, TreasuryAssumption DEF KeyOf
  <2> QED
    BY <1>2, <1>3, <1>4, <1>5, <2>1 DEF Published, Own, Firm
<1>8. Alive(x)' => Alive(x)
  BY <1>2, <1>3 DEF Alive
<1>9. Voted(x)'
  BY <1>2, <1>3, <1>4, <1>8 DEF Voted
<1> QED
  BY <1>1, <1>2, <1>6, <1>7, <1>8, <1>9, RowMoves

\* Intake.
LEMMA EvaluateStep == ASSUME SquadsInv, NEW i \in Payout, Squads!Evaluate(i) PROVE SquadsInv'
<1>1. PICK s \in {"policy_evaluated", "rejected"} : Squads!SetStatus(i, s)
  BY DEF Squads!Evaluate
<1>2. /\ row[i].status = "received" /\ slipped' = (slipped \/ Squads!RotationOpen \/ Squads!LockPending)
      /\ UNCHANGED <<executor, handler, members, log, stale, sent>>
  BY DEF Squads!Evaluate, Squads!Chain
<1>3. i \in Item /\ i \notin Rotation
  BY TreasuryAssumption DEF Item
<1> DEFINE r == [row[i] EXCEPT !.status = s]
<1>4. row' = [row EXCEPT ![i] = r] /\ handler' = [handler EXCEPT ![i] = handler[i]]
  BY <1>1, <1>2 DEF Squads!SetStatus, SquadsInv, SquadsTypes
<1>5. Where(i) /\ Published(i) /\ Voted(i) /\ row[i] \in ItemRow
  BY <1>3, RowParts
<1>6. r.status = s /\ r.publication = row[i].publication /\ r.ref = row[i].ref /\ r \in ItemRow
  BY <1>5 DEF ItemRow, Status
<1> HIDE DEF r
<1>7. handler[i].at = "idle" /\ row[i].publication = None /\ row[i].ref = None /\ None \notin 1 .. Len(log)
  BY <1>2, <1>5, NoneNoIndex DEF Where
<1>8. SentOf(i) = {} /\ LogOf(i) = {}
  BY <1>5, <1>7 DEF Published
<1>9. /\ row'[i] = r /\ handler'[i] = handler[i] /\ SentOf(i)' = {} /\ LogOf(i)' = {}
      /\ \A y \in Item : y # i => row'[y] = row[y]
  BY <1>2, <1>3, <1>4, <1>8 DEF SquadsInv, SquadsTypes, SentOf, LogOf
<1>10. Where(i)'
  BY <1>3, <1>6, <1>7, <1>9 DEF Where
<1>11. Published(i)'
  BY <1>6, <1>7, <1>9 DEF Published
<1>12. Voted(i)'
  BY <1>2, <1>3, <1>6, <1>7, <1>9 DEF Voted
<1>13. \A y \in Rotation : y \in Item /\ row'[y] = row[y]
  BY <1>9, TreasuryAssumption DEF Item
<1>14. Squads!RotationOpen' = Squads!RotationOpen /\ Squads!LockPending' = Squads!LockPending
  BY <1>2, <1>13 DEF Squads!RotationOpen, Squads!LockPending
<1>15. Exclusive'
  BY <1>2, <1>14 DEF Exclusive
<1>16. Lead'
  BY <1>2, <1>13 DEF SquadsInv, Lead, Squads!Swapped
<1>17. slipped' \in BOOLEAN
  BY <1>2 DEF SquadsInv, SquadsTypes, Squads!RotationOpen, Squads!LockPending
<1> QED
  BY <1>2, <1>3, <1>4, <1>6, <1>10, <1>11, <1>12, <1>15, <1>16, <1>17, ItemMoves DEF SquadsInv

\* The owner starts a rotation.
LEMMA StartStep == ASSUME SquadsInv, NEW r \in Rotation, Squads!StartRotation(r) PROVE SquadsInv'
<1>1. PICK to \in Key \ {executor} :
        row' = [row EXCEPT ![r] = [status |-> "publishing", publication |-> None, ref |-> None,
                                   from |-> executor, to |-> to]]
  BY DEF Squads!StartRotation
<1> DEFINE n == [status |-> "publishing", publication |-> None, ref |-> None, from |-> executor, to |-> to]
<1>2. /\ row[r].status = "none" /\ ~Squads!Busy /\ ~Squads!RotationOpen /\ slipped' = (slipped \/ Squads!LockPending)
      /\ UNCHANGED <<executor, handler, members, log, stale, sent>>
  BY DEF Squads!StartRotation, Squads!Chain
<1>3. r \in Item /\ r \notin Payout
  BY TreasuryAssumption DEF Item
<1>4. row' = [row EXCEPT ![r] = n] /\ handler' = [handler EXCEPT ![r] = handler[r]]
  BY <1>1, <1>2 DEF SquadsInv, SquadsTypes
<1>5. /\ n.status = "publishing" /\ n.publication = None /\ n.ref = None /\ n.from = executor /\ n.to = to
      /\ n \in RotationRow /\ Where(r) /\ Published(r) /\ Voted(r)
  BY <1>3, RowParts DEF RotationRow, Status, SquadsInv, SquadsTypes
<1> HIDE DEF n
<1>6. handler[r].at = "idle" /\ row[r].publication = None /\ row[r].ref = None /\ None \notin 1 .. Len(log)
  BY <1>2, <1>5, NoneNoIndex DEF Where
<1>7. SentOf(r) = {} /\ LogOf(r) = {}
  BY <1>5, <1>6 DEF Published
<1>8. /\ row'[r] = n /\ handler'[r] = handler[r] /\ SentOf(r)' = {} /\ LogOf(r)' = {}
      /\ \A y \in Item : y # r => row'[y] = row[y]
  BY <1>2, <1>3, <1>4, <1>7 DEF SquadsInv, SquadsTypes, SentOf, LogOf
<1>9. Where(r)'
  BY <1>3, <1>5, <1>6, <1>8 DEF Where
<1>10. Published(r)'
  BY <1>5, <1>6, <1>8 DEF Published
<1>11. Voted(r)'
  BY <1>2, <1>3, <1>5, <1>6, <1>8 DEF Voted
<1>12. Squads!Busy' = Squads!Busy /\ Squads!LockPending' = Squads!LockPending
  BY <1>2, <1>8, <1>3 DEF Squads!Busy, Squads!LockPending, Item
<1>13. Exclusive'
  BY <1>2, <1>12 DEF Exclusive
<1>14. Lead'
  <2>1. \A s \in Rotation : s # r => row'[s] = row[s] /\ row[s].status \notin Squads!Open
    BY <1>2, <1>8 DEF Squads!RotationOpen, Item
  <2>2. executor \in members
    BY <1>2 DEF SquadsInv, Lead, Squads!RotationOpen, Squads!Open
  <2> QED
    BY <1>2, <1>5, <1>8, <2>1, <2>2 DEF Lead
<1>15. slipped' \in BOOLEAN
  BY <1>2 DEF SquadsInv, SquadsTypes, Squads!LockPending
<1> QED
  BY <1>2, <1>3, <1>4, <1>5, <1>6, <1>9, <1>10, <1>11, <1>13, <1>14, <1>15, ItemMoves

\* What a step of the worker at an item starts from.
LEMMA ItemHas ==
  ASSUME SquadsInv, NEW x \in Item
  PROVE  /\ Where(x) /\ Published(x) /\ Voted(x) /\ handler = [handler EXCEPT ![x] = handler[x]]
         /\ row = [row EXCEPT ![x] = row[x]]
         /\ \A h : handler' = [handler EXCEPT ![x] = h] => handler'[x] = h
         /\ \A r : row' = [row EXCEPT ![x] = r] => row'[x] = r
BY DEF SquadsInv, Items, SquadsTypes

\* What is of the kind of an item at the index that it recorded, and signed by a key,
\* is what it may take.
LEMMA KindTells ==
  ASSUME SquadsInv, NEW x \in Item, row[x].publication # None, row[x].publication \in 1 .. Len(log),
         log[row[x].publication].creator # None,
         Squads!Kind(log[row[x].publication].payload) = Squads!Kind(x)
  PROVE  Own(x, row[x].publication)
<1> DEFINE n == row[x].publication
<1>1. log[n] \in Entry /\ log[n].payload # Squads!TimeLock
  BY DEF SquadsInv, SquadsTypes
<1>2. log[n].payload \in Item
  BY <1>1 DEF Entry, Squads!Payload, Squads!Item, Item
<1>3. CASE x \in Payout
  BY <1>2, <1>3 DEF Squads!Kind, Own, Item
<1>4. CASE x \in Rotation
  <2>1. log[n].payload \in Rotation
    BY <1>2, <1>4, TreasuryAssumption DEF Squads!Kind, Item
  <2> QED
    BY <1>4, <2>1 DEF SquadsInv, Apart, Own
<1> QED
  BY <1>3, <1>4 DEF Item

\* The publication of a proposal, up to the wait for it.
LEMMA PublishStep ==
  ASSUME SquadsInv, NEW x \in Item,
         Squads!BeginPublish(x) \/ Squads!ChooseIndex(x) \/ Squads!Broadcast(x) \/ Squads!Await(x)
  PROVE  SquadsInv'
<1>0. /\ Where(x) /\ Published(x) /\ Voted(x) /\ handler = [handler EXCEPT ![x] = handler[x]]
      /\ row = [row EXCEPT ![x] = row[x]]
      /\ \A h : handler' = [handler EXCEPT ![x] = h] => handler'[x] = h
      /\ \A r : row' = [row EXCEPT ![x] = r] => row'[x] = r
  BY ItemHas
<1>t. /\ row[x].status \in Status /\ row[x].publication \in Index \cup {None} /\ row[x].ref \in Index \cup {None}
      /\ x \in Payout => row[x] \in ItemRow /\ x \notin Rotation
      /\ x \in Rotation => row[x] \in IF row[x].status = "none" THEN ItemRow ELSE RotationRow
      /\ executor \in Key /\ Len(log) \in Nat /\ log \in Seq(Entry)
  BY RowParts DEF SquadsInv, SquadsTypes
<1>f. Squads!Fresh(x) => row[x].status = IF x \in Payout THEN "policy_evaluated" ELSE "publishing"
  BY DEF Squads!Fresh
\* The worker is idle again.
<1>i. ASSUME handler' = [handler EXCEPT ![x] = Squads!Idle],
             UNCHANGED <<row, executor, members, log, stale, sent, slipped>>
      PROVE  SquadsInv'
  <2>1. handler'[x].at = "idle"
    <3>1. handler'[x] = Squads!Idle
      BY ONLY <1>0, <1>i
    <3> QED
      BY <3>1 DEF Squads!Idle
  <2>2. Where(x)'
    BY <1>0, <1>i, <2>1 DEF Where
  <2> QED
    BY <1>i, <2>2, HandlerMoves
\* It found its proposal.
<1>p. ASSUME NEW n, Own(x, n), n = row[x].publication, handler' = [handler EXCEPT ![x] = [at |-> "published", index |-> n]],
             UNCHANGED <<row, executor, members, log, stale, sent, slipped>>, Squads!Fresh(x)
      PROVE  SquadsInv'
  <2>1. handler'[x].at = "published" /\ handler'[x].index = n
    <3>1. handler'[x] = [at |-> "published", index |-> n]
      BY ONLY <1>0, <1>p
    <3> QED
      BY <3>1
  <2>2. Squads!Fresh(x)' <=> Squads!Fresh(x)
    BY <1>p DEF Squads!Fresh
  <2>3. Where(x)'
    BY <1>0, <1>p, <1>f, <2>1, <2>2 DEF Where, Own
  <2> QED
    BY <1>p, <2>3, HandlerMoves
<1>1. CASE Squads!BeginPublish(x)
  <2> DEFINE key == IF x \in Payout THEN executor ELSE row[x].from
  <2>1. /\ handler[x] = Squads!Idle /\ Squads!Fresh(x)
        /\ UNCHANGED <<executor, members, log, stale, sent, slipped>>
    BY <1>1 DEF Squads!BeginPublish, Squads!Chain
  <2>2. CASE handler' = [handler EXCEPT ![x] = [at |-> "read", key |-> key]] /\ UNCHANGED row
    <3>1. key \in Key /\ key = KeyOf(x)
      BY <1>t, <1>f, <2>1 DEF KeyOf, RotationRow, Item
    <3>2. handler'[x].at = "read" /\ handler'[x].key = key
      <4>1. handler'[x] = [at |-> "read", key |-> key]
        BY <1>0, <2>2
      <4> HIDE DEF key
      <4> QED
        BY <4>1
    <3>3. (Squads!Fresh(x)' <=> Squads!Fresh(x)) /\ KeyOf(x)' = KeyOf(x)
      BY <2>1, <2>2 DEF Squads!Fresh, KeyOf
    <3> HIDE DEF key
    <3>4. Where(x)'
      BY <1>0, <1>f, <2>1, <2>2, <3>1, <3>2, <3>3 DEF Where, Squads!Idle
    <3> QED
      BY <2>1, <2>2, <3>4, HandlerMoves
  <2>3. CASE (x \in Payout \/ key \notin members) /\ Squads!Fail(x) /\ UNCHANGED handler
    \* The key of an open rotation is the executor, which is a member.
    <3>3. x \in Payout
      <4> SUFFICES ASSUME x \in Rotation, x \notin Payout PROVE FALSE
        BY DEF Item
      <4>1. row[x].status = "publishing" /\ key = row[x].from
        BY <1>f, <2>1
      <4>2. row[x].from = executor /\ \A s \in Rotation : row[s].status \in Squads!Open => s = x
        BY <4>1 DEF SquadsInv, Lead, Squads!Open
      <4>3. executor \in members
        BY <4>1, <4>2 DEF SquadsInv, Lead, Squads!Open
      <4> QED
        BY <2>3, <4>1, <4>2, <4>3
    <3>4. x \notin Rotation
      BY <3>3, TreasuryAssumption
    <3>1. Squads!SetStatus(x, "failed") /\ row[x].status \in {"policy_evaluated", "publishing"}
      BY <1>f, <2>1, <2>3 DEF Squads!Fail, Squads!Closed
    <3>2. handler' = [handler EXCEPT ![x] = handler[x]] /\ handler[x].at = "idle"
      BY <1>0, <2>1, <2>3 DEF Squads!Idle
    <3> QED
      BY <2>1, <3>1, <3>2, <3>3, <3>4, StatusMoves DEF Status, Squads!InFlight
  <2> QED
    BY <1>1, <2>2, <2>3 DEF Squads!BeginPublish, Squads!Goto
<1>2. CASE Squads!ChooseIndex(x)
  <2> DEFINE p == row[x].publication
             n == IF p # None /\ p > Len(log) THEN p ELSE Len(log) + 1
             key == handler[x].key
             g == [at |-> "recorded", index |-> n, key |-> key]
             r == [row[x] EXCEPT !.publication = n]
  <2>1. /\ handler[x].at = "read" /\ UNCHANGED <<executor, members, log, stale, sent, slipped>>
    BY <1>2 DEF Squads!ChooseIndex, Squads!Chain
  <2>2. /\ Squads!Fresh(x) /\ key \in Key /\ (Firm(x) => key = KeyOf(x))
        /\ row[x].status \in {"policy_evaluated", "publishing"} /\ row[x].ref = None
    BY <1>0, <1>f, <2>1 DEF Where
  <2>3. CASE handler' = [handler EXCEPT ![x] = Squads!Idle] /\ UNCHANGED row
    BY <1>i, <2>1, <2>3
  <2>4. CASE /\ p # None /\ Squads!Decodable(x, p) /\ Squads!Recognised(x, p)
             /\ handler' = [handler EXCEPT ![x] = [at |-> "published", index |-> p]] /\ UNCHANGED row
    <3>1. p \in 1 .. Len(log) /\ log[p].creator = key /\ Squads!Kind(log[p].payload) = Squads!Kind(x)
      BY <2>4 DEF Squads!Recognised, Squads!Decodable, Squads!Exists
    <3>2. key # None
      BY <2>2, TreasuryAssumption
    <3>3. Own(x, p)
      BY <2>4, <3>1, <3>2, KindTells
    <3> HIDE DEF key
    <3> QED
      BY <1>p, <2>1, <2>2, <2>4, <3>3
  <2>5. CASE /\ p # None => Squads!Decodable(x, p) /\ ~Squads!Recognised(x, p)
             /\ row' = [row EXCEPT ![x] = r] /\ handler' = [handler EXCEPT ![x] = g]
    <3>1. n \in Index /\ (p = None \/ p \in Index) /\ n > Len(log)
      BY <1>t, TreasuryAssumption DEF Index
    <3>2. /\ r.status = row[x].status /\ r.publication = n /\ r.ref = row[x].ref
          /\ x \in Payout => r \in ItemRow
          /\ x \in Rotation => r \in RotationRow /\ r.from = row[x].from /\ r.to = row[x].to
      <4>1. CASE x \in Payout
        BY <1>t, <3>1, <4>1 DEF ItemRow
      <4>2. CASE x \in Rotation
        BY <1>t, <2>2, <3>1, <4>2, TreasuryAssumption DEF RotationRow
      <4> QED
        BY <4>1, <4>2 DEF Item
    <3>3. g.at = "recorded" /\ g.index = n /\ g.key = key /\ g \in [at : {"recorded", "sent"}, index : Index, key : Key]
      BY <2>2, <3>1
    \* Its earlier publication, if there was one at this index, would be recognised.
    <3>4. Firm(x) => LogOf(x) = {}
      <4> SUFFICES ASSUME Firm(x), NEW m \in LogOf(x) PROVE FALSE
        OBVIOUS
      <4>1. m = p /\ p # None /\ log[m].creator = KeyOf(x) /\ m \in 1 .. Len(log) /\ log[m].payload = x
        <5>1. m \in 1 .. Len(log) /\ log[m].payload = x
          BY DEF LogOf
        <5>2. m = p /\ p # None
          BY <1>0 DEF Published
        <5>3. x \in Rotation \/ Squads!Fresh(x)
          BY <2>2
        <5>4. log[m] \in SentOf(x) \cup {log[k] : k \in LogOf(x)}
          OBVIOUS
        <5>5. log[m].creator = KeyOf(x)
          BY <1>0, <5>3, <5>4 DEF Published
        <5> QED
          BY <5>1, <5>2, <5>5
      <4>2. Squads!Recognised(x, p)
        BY <2>2, <4>1 DEF Squads!Recognised, Squads!Exists
      <4> QED
        BY <2>5, <4>1, <4>2
    <3> HIDE DEF r, g
    <3>5. /\ row'[x] = r /\ handler'[x] = g /\ SentOf(x)' = SentOf(x) /\ LogOf(x)' = LogOf(x)
          /\ (Squads!Fresh(x)' <=> Squads!Fresh(x)) /\ KeyOf(x)' = KeyOf(x) /\ (Firm(x)' <=> Firm(x))
      <4>1. row'[x] = r /\ handler'[x] = g
        BY <1>0, <2>5
      <4>2. SentOf(x)' = SentOf(x) /\ LogOf(x)' = LogOf(x)
        BY <2>1 DEF SentOf, LogOf
      <4>3. Squads!Fresh(x)' <=> Squads!Fresh(x)
        BY <3>2, <4>1 DEF Squads!Fresh
      <4>4. KeyOf(x)' = KeyOf(x)
        BY <2>1, <3>2, <4>1 DEF KeyOf, Item
      <4>5. Firm(x)' <=> Firm(x)
        BY <2>1 DEF Firm
      <4> QED
        BY <4>1, <4>2, <4>3, <4>4, <4>5
    <3>6. Where(x)'
      BY <1>0, <2>1, <2>2, <3>2, <3>3, <3>5 DEF Where
    <3>7. Published(x)'
      <4>1. \A c \in SentOf(x) : c.index <= n /\ (c.index = n \/ c.index <= Len(log))
        <5> SUFFICES ASSUME NEW c \in SentOf(x) PROVE c.index <= n /\ (c.index = n \/ c.index <= Len(log))
          OBVIOUS
        <5>1. c.index \in Nat /\ p # None /\ c.index <= p /\ (c.index = p \/ c.index <= Len(log))
          BY <1>0 DEF Published, SentOf, SquadsInv, SquadsTypes, Creation, Index
        <5> QED
          BY <1>t, <3>1, <5>1 DEF Index
      <4>2. \A m \in LogOf(x) : m <= n
        BY <1>t, <3>1 DEF LogOf, Index
      <4>3. n # None
        BY <3>1, TreasuryAssumption DEF Index
      <4> HIDE DEF n
      <4> QED
        BY <1>0, <2>1, <2>2, <3>2, <3>4, <3>5, <4>1, <4>2, <4>3 DEF Published
    <3>9. n \notin 1 .. Len(log)
      BY <1>t, <3>1 DEF Index
    <3> HIDE DEF n
    <3>8. Voted(x)' /\ (Alive(x)' => Alive(x))
      BY <1>0, <2>1, <2>2, <3>2, <3>5, <3>9 DEF Voted, Alive
    <3> QED
      BY <2>1, <2>2, <2>5, <3>2, <3>6, <3>7, <3>8, <3>9, RowMoves
  <2> QED
    <3>1. CASE p # None /\ ~Squads!Decodable(x, p)
      BY <1>2, <2>3, <3>1 DEF Squads!ChooseIndex, Squads!Goto
    <3>2. CASE p # None /\ Squads!Decodable(x, p) /\ Squads!Recognised(x, p)
      BY <1>2, <2>4, <3>2 DEF Squads!ChooseIndex, Squads!Goto
    <3>3. CASE p # None => Squads!Decodable(x, p) /\ ~Squads!Recognised(x, p)
      BY <1>2, <2>5, <3>3 DEF Squads!ChooseIndex, Squads!Goto
    <3> QED
      BY <3>1, <3>2, <3>3
<1>3. CASE Squads!Broadcast(x)
  <2> DEFINE h == handler[x]
             c == [index |-> h.index, payload |-> x, creator |-> h.key]
             g == [h EXCEPT !.at = "sent"]
  <2>1. /\ h.at = "recorded" /\ sent' = sent \cup {c} /\ handler' = [handler EXCEPT ![x] = g]
        /\ UNCHANGED <<row, executor, members, log, stale, slipped>>
    BY <1>3 DEF Squads!Broadcast, Squads!Chain, Squads!Goto, Squads!Creation
  <2>2. /\ h \in [at : {"recorded", "sent"}, index : Index, key : Key] /\ h.index = row[x].publication
        /\ Squads!Fresh(x) /\ (Firm(x) => h.key = KeyOf(x))
    BY <1>0, <2>1 DEF Where
  <2>3. c.index = h.index /\ c.payload = x /\ c.creator = h.key /\ c \in Creation /\ c.creator \in Key
    BY <2>2 DEF Creation, Squads!Payload, Squads!Item, Item
  <2>4. /\ g.at = "sent" /\ g.index = h.index /\ g.key = h.key
        /\ g \in [at : {"recorded", "sent"}, index : Index, key : Key]
    BY <2>2
  <2> HIDE DEF c, g
  <2>5. /\ handler'[x] = g /\ SentOf(x)' = SentOf(x) \cup {c} /\ LogOf(x)' = LogOf(x)
        /\ (Squads!Fresh(x)' <=> Squads!Fresh(x)) /\ KeyOf(x)' = KeyOf(x) /\ (Firm(x)' <=> Firm(x))
    BY <1>0, <2>1, <2>3 DEF SentOf, LogOf, Squads!Fresh, KeyOf, Firm
  <2>6. Where(x)'
    BY <1>0, <2>1, <2>2, <2>4, <2>5 DEF Where
  <2>7. h.index # None /\ h.index \in Nat
    BY <2>2, TreasuryAssumption DEF Index
  <2>8. Published(x)'
    BY <1>0, <2>1, <2>2, <2>3, <2>5, <2>7 DEF Published, Own
  <2>9. Voted(x)'
    BY <1>0, <2>1, <2>5 DEF Voted, Alive
  <2>10. Exclusive'
    <3>1. SentOf(Squads!TimeLock)' = SentOf(Squads!TimeLock)
      BY <2>1, <2>3, RowParts DEF SentOf
    <3>2. Squads!LockPending' <=> Squads!LockPending
      BY <2>1, <3>1, LockStays
    <3> QED
      BY <2>1, <3>2, ExclusiveKept DEF SquadsInv, Alive
  <2>11. Lead'
    BY <2>1 DEF SquadsInv, Lead, Squads!Swapped
  <2>12. slipped' \in BOOLEAN
    BY <2>1 DEF SquadsInv, SquadsTypes
  <2>13. row' = [row EXCEPT ![x] = row[x]]
    BY <1>0, <2>1
  <2>14. \A d \in sent' \ sent : d \in Creation /\ d.payload = x /\ d.creator \in Key
    BY <2>1, <2>3
  <2> QED
    BY <1>t, <2>1, <2>6, <2>8, <2>9, <2>10, <2>11, <2>12, <2>13, <2>14, ItemMoves
<1>4. CASE Squads!Await(x)
  <2> DEFINE n == handler[x].index
  <2>1. handler[x].at = "sent" /\ UNCHANGED <<row, executor, members, log, stale, sent, slipped>>
    BY <1>4 DEF Squads!Await, Squads!Chain
  <2>2. Squads!Fresh(x) /\ n = row[x].publication
    BY <1>0, <2>1 DEF Where
  <2>3. CASE /\ Squads!Exists(n) /\ log[n].payload = x
             /\ handler' = [handler EXCEPT ![x] = [at |-> "published", index |-> n]]
    <3>1. Own(x, n)
      BY <2>3 DEF Own, Squads!Exists
    <3> HIDE DEF n
    <3> QED
      BY <1>p, <2>1, <2>2, <2>3, <3>1
  <2>4. CASE handler' = [handler EXCEPT ![x] = Squads!Idle]
    BY <1>i, <2>1, <2>4
  <2> QED
    BY <1>4, <2>3, <2>4 DEF Squads!Await, Squads!Goto
<1> QED
  BY <1>1, <1>2, <1>3, <1>4

\* The worker becomes idle, after whatever it did.
LEMMA IdleMoves ==
  ASSUME SquadsInv, NEW x \in Item, handler' = [handler EXCEPT ![x] = Squads!Idle],
         UNCHANGED <<row, executor, members, log, stale, sent, slipped>>
  PROVE  SquadsInv'
<1>1. handler'[x].at = "idle" /\ Where(x)
  <2>1. handler'[x] = Squads!Idle /\ Where(x)
    BY ItemHas
  <2> QED
    BY <2>1 DEF Squads!Idle
<1>2. Where(x)'
  BY <1>1 DEF Where
<1> QED
  BY <1>2, HandlerMoves

\* The proposal is the row's; it is observed, and the row follows it.
LEMMA ObserveStep ==
  ASSUME SquadsInv, NEW x \in Item,
         Squads!CompletePublication(x) \/ Squads!ReadProposal(x) \/ Squads!Mirror(x) \/ Squads!Interrupt(x)
  PROVE  SquadsInv'
<1>0. /\ Where(x) /\ Published(x) /\ Voted(x) /\ handler = [handler EXCEPT ![x] = handler[x]]
      /\ row = [row EXCEPT ![x] = row[x]]
      /\ \A h : handler' = [handler EXCEPT ![x] = h] => handler'[x] = h
      /\ \A r : row' = [row EXCEPT ![x] = r] => row'[x] = r
  BY ItemHas
<1>t. /\ x \in Payout => row[x] \in ItemRow /\ x \notin Rotation
      /\ x \in Rotation => row[x] \in IF row[x].status = "none" THEN ItemRow ELSE RotationRow
      /\ Len(log) \in Nat
  BY RowParts DEF SquadsInv, SquadsTypes
<1>1. CASE Squads!CompletePublication(x)
  <2> DEFINE n == handler[x].index
             r == [row[x] EXCEPT !.status = "approval_required", !.ref = n]
  <2>1. /\ handler[x].at = "published" /\ handler' = [handler EXCEPT ![x] = Squads!Idle]
        /\ UNCHANGED <<executor, members, log, stale, sent, slipped>>
    BY <1>1 DEF Squads!CompletePublication, Squads!Chain, Squads!Goto
  <2>2. Squads!Fresh(x) /\ Own(x, n) /\ n = row[x].publication
    BY <1>0, <2>1 DEF Where
  <2>3. row' = [row EXCEPT ![x] = r]
    BY <1>1, <2>2 DEF Squads!CompletePublication
  <2>4. row[x].status = IF x \in Payout THEN "policy_evaluated" ELSE "publishing"
    BY <2>2 DEF Squads!Fresh
  <2>5. n \in Index /\ n # None
    BY <1>t, <2>2, TreasuryAssumption DEF Own, Index
  <2>6. /\ r.status = "approval_required" /\ r.publication = row[x].publication /\ r.ref = n
        /\ x \in Payout => r \in ItemRow
        /\ x \in Rotation => r \in RotationRow /\ r.from = row[x].from /\ r.to = row[x].to
    <3>1. CASE x \in Payout
      BY <1>t, <2>5, <3>1 DEF ItemRow, Status
    <3>2. CASE x \in Rotation
      BY <1>t, <2>4, <2>5, <3>2, TreasuryAssumption DEF RotationRow, Status
    <3> QED
      BY <3>1, <3>2 DEF Item
  <2> HIDE DEF r, n
  <2>7. row'[x] = r /\ handler'[x].at = "idle" /\ SentOf(x)' = SentOf(x) /\ LogOf(x)' = LogOf(x)
    <3>1. row'[x] = r /\ handler'[x] = Squads!Idle
      BY <1>0, <2>1, <2>3
    <3>2. SentOf(x)' = SentOf(x) /\ LogOf(x)' = LogOf(x)
      BY <2>1 DEF SentOf, LogOf
    <3> QED
      BY <3>1, <3>2 DEF Squads!Idle
  <2>8. ~Squads!Fresh(x)'
    BY <2>6, <2>7 DEF Squads!Fresh
  <2>9. Where(x)'
    BY <2>4, <2>6, <2>7 DEF Where
  <2>13. (x \in Rotation => KeyOf(x)' = KeyOf(x)) /\ (Firm(x)' <=> Firm(x))
    BY <2>1, <2>6, <2>7, TreasuryAssumption DEF KeyOf, Firm
  <2>10. Published(x)'
    BY <1>0, <2>1, <2>2, <2>6, <2>7, <2>8, <2>13 DEF Published, Own
  <2>11. Alive(x)
    BY <2>4 DEF Alive, Squads!InFlight, Squads!Open
  <2>12. Voted(x)'
    BY <1>0, <2>1, <2>4, <2>5, <2>6, <2>7, <2>11 DEF Voted
  <2> QED
    BY <2>1, <2>3, <2>4, <2>6, <2>9, <2>10, <2>11, <2>12, RowMoves
<1>2. CASE Squads!ReadProposal(x)
  <2> DEFINE g == [at |-> "observed", proposal |-> log[row[x].ref].status]
  <2>1. /\ row[x].status = "approval_required" /\ handler' = [handler EXCEPT ![x] = g]
        /\ UNCHANGED <<row, executor, members, log, stale, sent, slipped>>
    BY <1>2 DEF Squads!ReadProposal, Squads!Chain, Squads!Goto
  <2>2. g.at = "observed" /\ g.proposal = log[row[x].ref].status /\ handler'[x] = g
    BY <1>0, <2>1
  <2> HIDE DEF g
  <2>3. Where(x)'
    BY <1>0, <2>1, <2>2 DEF Where, Voted, Own
  <2> QED
    BY <2>1, <2>3, HandlerMoves
<1>3. CASE Squads!Mirror(x)
  <2> DEFINE s == Squads!Outcome(x, handler[x].proposal)
  <2>1. /\ handler[x].at = "observed" /\ handler' = [handler EXCEPT ![x] = Squads!Idle]
        /\ UNCHANGED <<executor, members, log, stale, sent, slipped>>
    BY <1>3 DEF Squads!Mirror, Squads!Chain, Squads!Goto
  <2>2. /\ row[x].ref # None
        /\ handler[x].proposal = "approved" => log[row[x].ref].status \in {"approved", "executed", "cancelled"}
    BY <1>0, <2>1 DEF Where
  <2>3. CASE row[x].status = "approval_required" /\ Squads!SetStatus(x, s)
    <3>1. /\ s \in {"approved", "executing", "rejected", "approval_required"}
          /\ s \in {"approved", "executing"} => handler[x].proposal = "approved"
          /\ s = "approved" => x \in Payout
      BY DEF Squads!Outcome
    <3>2. Alive(x)
      BY <2>3 DEF Alive, Squads!InFlight, Squads!Open
    <3>3. Squads!Idle.at = "idle"
      BY DEF Squads!Idle
    <3> HIDE DEF s
    <3> QED
      BY <2>1, <2>2, <2>3, <3>1, <3>2, <3>3, StatusMoves DEF Status
  <2> QED
    BY <1>3, <2>1, <2>3, IdleMoves DEF Squads!Mirror
<1>4. CASE Squads!Interrupt(x)
  BY <1>4, IdleMoves DEF Squads!Interrupt, Squads!Goto, Squads!Chain
<1> QED
  BY <1>1, <1>2, <1>3, <1>4

\* Expiry, and the start of an execution.
LEMMA ExecuteStep ==
  ASSUME SquadsInv, NEW i \in Payout, Squads!Expire(i) \/ Squads!BeginExecute(i)
  PROVE  SquadsInv'
<1>0. /\ Where(i) /\ Published(i) /\ Voted(i) /\ handler = [handler EXCEPT ![i] = handler[i]] /\ i \in Item
  BY ItemHas DEF Item
<1>1. CASE Squads!Expire(i)
  <2>1. /\ row[i].status = "approval_required" /\ Squads!SetStatus(i, "expired")
        /\ UNCHANGED <<executor, handler, members, log, stale, sent, slipped>>
    BY <1>1 DEF Squads!Expire, Squads!Chain
  <2>2. row[i].ref # None /\ handler[i].at \in {"idle", "observed"}
    BY <1>0, <2>1 DEF Voted, Where, Squads!Fresh
  \* The worker may have read the proposal: it will find the row closed.
  <2> DEFINE r == [row[i] EXCEPT !.status = "expired"]
  <2>3. row' = [row EXCEPT ![i] = r] /\ handler' = [handler EXCEPT ![i] = handler[i]]
    BY <1>0, <2>1 DEF Squads!SetStatus
  <2>4. r.status = "expired" /\ r.publication = row[i].publication /\ r.ref = row[i].ref /\ r \in ItemRow
    BY <1>0, RowParts DEF ItemRow, Status
  <2> HIDE DEF r
  <2>5. row'[i] = r /\ handler'[i] = handler[i] /\ SentOf(i)' = SentOf(i) /\ LogOf(i)' = LogOf(i)
    BY <1>0, <2>1, <2>3, ItemHas DEF SentOf, LogOf
  <2>6. Where(i)'
    BY <1>0, <2>1, <2>2, <2>4, <2>5 DEF Where
  <2>7. ~Squads!Fresh(i)' /\ ~Alive(i)'
    BY <2>4, <2>5 DEF Squads!Fresh, Alive, Squads!InFlight, Squads!Open
  <2>10. i \notin Rotation
    BY TreasuryAssumption
  <2>8. Published(i)'
    BY <1>0, <2>1, <2>4, <2>5, <2>7, <2>10 DEF Published, Own, Firm
  <2>9. Voted(i)'
    BY <1>0, <2>1, <2>4, <2>5, <2>7, <2>10 DEF Voted
  <2> QED
    BY <1>0, <2>1, <2>3, <2>4, <2>6, <2>7, <2>8, <2>9, <2>10, RowMoves
<1>2. CASE Squads!BeginExecute(i)
  <2>1. /\ handler[i] = Squads!Idle /\ row[i].status = "approved"
        /\ UNCHANGED <<executor, members, log, stale, sent, slipped>>
    BY <1>2 DEF Squads!BeginExecute, Squads!Chain
  <2>2. /\ row[i].ref # None /\ log[row[i].ref].status \in {"approved", "executed", "cancelled"}
        /\ Alive(i) /\ i \notin Rotation /\ handler[i].at = "idle"
    BY <1>0, <2>1, TreasuryAssumption DEF Voted, Alive, Squads!InFlight, Squads!Idle
  <2>3. CASE Squads!SetStatus(i, "executing") /\ Squads!Goto(i, [at |-> "signed", key |-> executor])
    <3>1. PICK h : h.at = "signed" /\ handler' = [handler EXCEPT ![i] = h]
      <4>1. [at |-> "signed", key |-> executor].at = "signed"
        OBVIOUS
      <4> QED
        BY <2>3, <4>1 DEF Squads!Goto
    <3> QED
      BY <1>0, <2>1, <2>2, <2>3, <3>1, StatusMoves DEF Status
  <2>4. CASE Squads!Fail(i) /\ UNCHANGED handler
    <3>1. Squads!SetStatus(i, "failed")
      BY <2>1, <2>4 DEF Squads!Fail, Squads!Closed
    <3>2. handler' = [handler EXCEPT ![i] = handler[i]]
      BY <1>0, <2>4
    <3> QED
      BY <1>0, <2>1, <2>2, <3>1, <3>2, StatusMoves DEF Status, Squads!InFlight, Squads!Open
  <2> QED
    BY <1>2, <2>3, <2>4 DEF Squads!BeginExecute
<1> QED
  BY <1>1, <1>2

\* An entry of the multisig's log gets a new status.
LEMMA LogVotes ==
  ASSUME SquadsInv, NEW n \in 1 .. Len(log), NEW s \in Vote, log' = [log EXCEPT ![n].status = s]
  PROVE  /\ log' \in Seq(Entry) /\ Len(log') = Len(log) /\ Len(log) \in Nat
         /\ \A m \in 1 .. Len(log) : /\ log'[m].payload = log[m].payload /\ log'[m].creator = log[m].creator
                                     /\ log'[m].status = IF m = n THEN s ELSE log[m].status
         /\ \A x : LogOf(x)' = LogOf(x)
<1>1. log \in Seq(Entry) /\ Len(log) \in Nat /\ \A m \in 1 .. Len(log) : log[m] \in Entry
  BY DEF SquadsInv, SquadsTypes
<1>2. [log[n] EXCEPT !.status = s] \in Entry
  BY <1>1 DEF Entry
<1>3. log' = [log EXCEPT ![n] = [log[n] EXCEPT !.status = s]]
  OBVIOUS
<1>4. log' \in Seq(Entry) /\ Len(log') = Len(log)
  BY <1>1, <1>2, <1>3
<1>5. \A m \in 1 .. Len(log) : /\ log'[m].payload = log[m].payload /\ log'[m].creator = log[m].creator
                               /\ log'[m].status = IF m = n THEN s ELSE log[m].status
  BY <1>1, <1>3 DEF Entry
<1>6. \A x : LogOf(x)' = LogOf(x)
  BY <1>4, <1>5 DEF LogOf
<1> QED
  BY <1>1, <1>4, <1>5, <1>6

\* What is under way.
LEMMA UnderWay ==
  /\ Squads!Busy <=> \E i \in Payout : Alive(i)
  /\ Squads!RotationOpen <=> \E r \in Rotation : Alive(r)
BY TreasuryAssumption DEF Squads!Busy, Squads!RotationOpen, Alive

\* A new status of an entry is of no account to an item whose row and worker stay as
\* they are, if it was not approved before, or is after.
LEMMA EntryVoted ==
  ASSUME SquadsInv, NEW n \in 1 .. Len(log), NEW s \in Vote, log' = [log EXCEPT ![n].status = s],
         NEW y \in Item, UNCHANGED <<executor, sent, slipped>>, row'[y] = row[y], handler'[y] = handler[y],
         log[n].status \in {"approved", "executed", "cancelled"} => s \in {"approved", "executed", "cancelled"},
         s # "active",
         stale' = stale \/ (~slipped => ~Alive(y))
  PROVE  Where(y)' /\ Published(y)' /\ Voted(y)'
<1>1. /\ Len(log') = Len(log) /\ Len(log) \in Nat
      /\ \A m \in 1 .. Len(log) : /\ log'[m].payload = log[m].payload /\ log'[m].creator = log[m].creator
                                  /\ log'[m].status = IF m = n THEN s ELSE log[m].status
      /\ LogOf(y)' = LogOf(y) /\ SentOf(y)' = SentOf(y)
  BY LogVotes DEF SentOf
<1>2. /\ Where(y) /\ Published(y) /\ Voted(y) /\ (Squads!Fresh(y)' <=> Squads!Fresh(y))
      /\ (Alive(y)' <=> Alive(y)) /\ KeyOf(y)' = KeyOf(y) /\ (Firm(y)' <=> Firm(y))
  BY RowParts DEF Squads!Fresh, Alive, KeyOf, Firm
<1>3. \A m \in 1 .. Len(log) : /\ log'[m].creator = log[m].creator
                               /\ log[m].status \in {"approved", "executed", "cancelled"} =>
                                    log'[m].status \in {"approved", "executed", "cancelled"}
                               /\ log'[m].status = "active" => log[m].status = "active"
  BY <1>1
<1>4. /\ row[y].ref # None => row[y].ref \in 1 .. Len(log) /\ Own(y, row[y].ref) /\ row[y].ref = row[y].publication
      /\ LogOf(y) \subseteq 1 .. Len(log)
  BY <1>2 DEF Published, Own, LogOf
<1>9. \A m : Own(y, m) => /\ m \in 1 .. Len(log')
                          /\ log'[m].payload = y \/ (y \in Payout /\ log'[m].payload \in Payout)
  BY <1>1 DEF Own
<1>5. Where(y)'
  BY <1>1, <1>2, <1>3, <1>4, <1>9 DEF Where, Own
<1>6. {log'[m] : m \in LogOf(y)'} = {log'[m] : m \in LogOf(y)}
  BY <1>1
<1>7. Published(y)'
  <2>1. \A c \in SentOf(y) : row[y].publication # None /\ c.index <= row[y].publication
                             /\ (c.index = row[y].publication \/ c.index <= Len(log))
    BY <1>2 DEF Published
  <2>2. \A m \in LogOf(y) : row[y].publication # None /\ m <= row[y].publication
                            /\ (Firm(y) => m = row[y].publication)
    BY <1>2 DEF Published
  <2>3. Firm(y) /\ (y \in Rotation \/ Squads!Fresh(y)) =>
          \A e \in SentOf(y) \cup {log'[m] : m \in LogOf(y)} : e.creator = KeyOf(y)
    <3>1. Firm(y) /\ (y \in Rotation \/ Squads!Fresh(y)) => /\ \A c \in SentOf(y) : c.creator = KeyOf(y)
                                                           /\ \A m \in LogOf(y) : log[m].creator = KeyOf(y)
      BY <1>2 DEF Published
    <3> QED
      <4>1. \A m \in LogOf(y) : log'[m].creator = log[m].creator
        BY <1>3, <1>4
      <4> QED
        BY <3>1, <4>1
  <2> QED
    BY <1>1, <1>2, <1>4, <1>6, <1>9, <2>1, <2>2, <2>3 DEF Published, Own
<1>8. Voted(y)'
  <2>1. ~slipped /\ Alive(y) /\ row[y].publication \in 1 .. Len(log) /\ log'[row[y].publication].status = "active" =>
          row[y].publication > stale /\ stale' = stale
    BY <1>2, <1>3 DEF Voted
  <2> QED
    BY <1>1, <1>2, <1>3, <1>4, <2>1 DEF Voted
<1> QED
  BY <1>5, <1>7, <1>8

\* A new status of an entry keeps what left the vault as it was, if it was not executed
\* and is not now, or is no payment's; and what is at an index.
LEMMA VaultKept ==
  ASSUME SquadsInv, NEW n \in 1 .. Len(log), NEW s \in Vote, log' = [log EXCEPT ![n].status = s], UNCHANGED row,
         (s # "executed" /\ log[n].status # "executed") \/ log[n].payload \notin Payout
  PROVE  Vault' /\ Apart'
<1>1. /\ Len(log') = Len(log) /\ Len(log) \in Nat
      /\ \A m \in 1 .. Len(log) : /\ log'[m].payload = log[m].payload
                                  /\ log'[m].status = IF m = n THEN s ELSE log[m].status
  BY LogVotes
<1>2. \A m \in 1 .. Len(log) : (log'[m].payload \in Payout /\ log'[m].status = "executed")
                                <=> (log[m].payload \in Payout /\ log[m].status = "executed")
  BY <1>1
<1>3. \A i \in Payout : row[i].status = "paid" => row[i].ref \in 1 .. Len(log)
  BY RowParts DEF Item, Voted, Published, Own
<1>4. Vault'
  BY <1>1, <1>2, <1>3 DEF SquadsInv, Vault, Squads!Left
<1>5. Apart'
  BY <1>1 DEF SquadsInv, Apart
<1> QED
  BY <1>4, <1>5

\* Only the change of the time lock has no key of Relay's, and that stays so.
LEMMA CreatorsTell ==
  ASSUME SquadsInv, Len(log') = Len(log), sent' \subseteq sent,
         \A m \in 1 .. Len(log) : log'[m].payload = log[m].payload /\ log'[m].creator = log[m].creator
  PROVE  \A e \in {log'[m] : m \in 1 .. Len(log')} \cup sent' : e.creator = None <=> e.payload = Squads!TimeLock
<1>1. \A m \in 1 .. Len(log) : log[m].creator = None <=> log[m].payload = Squads!TimeLock
  BY DEF SquadsInv, SquadsTypes
<1>2. \A c \in sent : c.creator = None <=> c.payload = Squads!TimeLock
  BY DEF SquadsInv, SquadsTypes
<1> QED
  BY <1>1, <1>2

\* The members vote, or execute the change of the time lock.
LEMMA VoteStep ==
  ASSUME SquadsInv, NEW n \in 1 .. Len(log), Squads!Vote(n) \/ Squads!ExecuteTimeLock(n)
  PROVE  SquadsInv'
<1>1. PICK s \in Vote \ {"active"} :
        /\ log' = [log EXCEPT ![n].status = s]
        /\ \/ /\ s # "executed" /\ log[n].status # "executed" /\ stale' = stale
              /\ log[n].status \in {"approved", "executed", "cancelled"} => s = "cancelled"
           \/ /\ log[n].payload = Squads!TimeLock /\ log[n].status = "approved" /\ stale' = Len(log)
              /\ s = "executed"
        /\ s = "approved" => log[n].status = "active"
        /\ UNCHANGED <<row, executor, handler, members, sent, slipped>>
  BY DEF Squads!Vote, Squads!ExecuteTimeLock, Vote, Squads!Void
<1>9. log[n].status \in {"approved", "executed", "cancelled"} => s \in {"approved", "executed", "cancelled"}
  BY <1>1 DEF Vote
<1>2. /\ log' \in Seq(Entry) /\ Len(log') = Len(log) /\ Len(log) \in Nat
      /\ \A m \in 1 .. Len(log) : /\ log'[m].payload = log[m].payload /\ log'[m].creator = log[m].creator
                                  /\ log'[m].status = IF m = n THEN s ELSE log[m].status
      /\ \A x : LogOf(x)' = LogOf(x)
  BY <1>1, LogVotes
<1>3. SquadsTypes'
  <2>1. \A e \in {log'[m] : m \in 1 .. Len(log')} \cup sent' : e.creator = None <=> e.payload = Squads!TimeLock
    BY <1>1, <1>2, CreatorsTell
  <2>2. stale' \in 0 .. Len(log')
    BY <1>1, <1>2 DEF SquadsInv, SquadsTypes
  <2> QED
    BY <1>1, <1>2, <2>1, <2>2 DEF SquadsInv, SquadsTypes
\* The time lock changes while nothing else is under way.
<1>4. log[n].payload = Squads!TimeLock /\ log[n].status = "approved" /\ ~slipped => \A y \in Item : ~Alive(y)
  BY UnderWay DEF SquadsInv, Exclusive, Squads!LockPending, Item
<1>5. ASSUME NEW y \in Item PROVE Where(y)' /\ Published(y)' /\ Voted(y)'
  <2>1. log[n].status \in {"approved", "executed", "cancelled"} => s \in {"approved", "executed", "cancelled"}
    BY <1>9
  <2> QED
    BY <1>1, <1>4, <2>1, EntryVoted
<1>10. Vault' /\ Apart'
  <2>1. Squads!TimeLock \notin Payout
    BY TreasuryAssumption DEF Squads!TimeLock
  <2> QED
    BY <1>1, <2>1, VaultKept
<1>6. LockOnce'
  BY <1>1, <1>2 DEF SquadsInv, LockOnce, SentOf
<1>7. Exclusive'
  <2>1. Squads!LockPending' => Squads!LockPending
    BY <1>1, <1>2 DEF Squads!LockPending
  <2> QED
    BY <1>1, <2>1, ExclusiveKept DEF SquadsInv, Alive
<1>8. Lead'
  BY <1>1 DEF SquadsInv, Lead, Squads!Swapped
<1> QED
  BY <1>3, <1>5, <1>6, <1>7, <1>8, <1>10 DEF SquadsInv, Items

\* The chain takes the execution of a payment or refuses it.
LEMMA FinishStep ==
  ASSUME SquadsInv, NEW i \in Payout, Squads!FinishExecute(i)
  PROVE  SquadsInv'
<1> DEFINE n == row[i].ref
<1>0. /\ Where(i) /\ Published(i) /\ Voted(i) /\ i \in Item /\ i \notin Rotation /\ row[i] \in ItemRow
      /\ row = [row EXCEPT ![i] = row[i]]
  BY ItemHas, RowParts DEF Item
<1>1. /\ handler[i].at = "signed" /\ handler' = [handler EXCEPT ![i] = Squads!Idle]
      /\ UNCHANGED <<executor, members, stale, sent, slipped>>
  BY DEF Squads!FinishExecute, Squads!Goto
<1>2. row[i].status = "executing"
  BY <1>0, <1>1 DEF Where
<1>3. /\ n # None /\ n \in 1 .. Len(log) /\ log[n].payload \in Payout /\ n = row[i].publication
      /\ Alive(i) /\ ~Squads!Fresh(i)
  BY <1>0, <1>2 DEF Voted, Published, Own, Alive, Squads!InFlight, Squads!Fresh
<1>4. CASE log' = [log EXCEPT ![n].status = "executed"] /\ Squads!SetStatus(i, "paid") /\ log[n].status = "approved"
  <2> DEFINE r == [row[i] EXCEPT !.status = "paid"]
  <2>1. r.status = "paid" /\ r.publication = row[i].publication /\ r.ref = n /\ r \in ItemRow
    BY <1>0 DEF ItemRow, Status
  <2>2. row' = [row EXCEPT ![i] = r]
    BY <1>4 DEF Squads!SetStatus
  <2> HIDE DEF r
  <2>3. n \in 1 .. Len(log) /\ "executed" \in Vote
    BY <1>3 DEF Vote
  <2>4. /\ log' \in Seq(Entry) /\ Len(log') = Len(log) /\ Len(log) \in Nat
        /\ \A m \in 1 .. Len(log) : /\ log'[m].payload = log[m].payload /\ log'[m].creator = log[m].creator
                                    /\ log'[m].status = IF m = n THEN "executed" ELSE log[m].status
        /\ \A x : LogOf(x)' = LogOf(x)
    BY <1>4, <2>3, LogVotes
  <2>5. /\ row'[i] = r /\ \A y \in Item : y # i => row'[y] = row[y]
        /\ handler'[i] = Squads!Idle /\ \A y \in Item : y # i => handler'[y] = handler[y]
        /\ row' = [y \in Item |-> row'[y]] /\ handler' = [y \in Item |-> handler'[y]]
    BY <1>0, <1>1, <2>2 DEF SquadsInv, SquadsTypes
  <2>6. SquadsTypes'
    <3>1. \A e \in {log'[m] : m \in 1 .. Len(log')} \cup sent' : e.creator = None <=> e.payload = Squads!TimeLock
      BY <1>1, <2>4, CreatorsTell
    <3>2. \A j \in Payout : row'[j] \in ItemRow
      BY <2>1, <2>5 DEF SquadsInv, SquadsTypes, Item
    <3>3. \A s \in Rotation : row'[s] = row[s]
      BY <1>0, <2>5 DEF Item
    <3> QED
      BY <1>1, <2>4, <2>5, <3>1, <3>2, <3>3 DEF SquadsInv, SquadsTypes
  <2>7. ASSUME NEW y \in Item, y # i PROVE Where(y)' /\ Published(y)' /\ Voted(y)'
    BY <1>1, <1>4, <2>3, <2>5, <2>7, EntryVoted
  <2>8. handler'[i].at = "idle"
    BY <2>5 DEF Squads!Idle
  <2>9. Where(i)'
    BY <1>0, <2>1, <2>5, <2>8 DEF Where
  <2>10. ~Squads!Fresh(i)' /\ ~Alive(i)' /\ SentOf(i)' = SentOf(i)
    BY <1>0, <1>1, <2>1, <2>5 DEF Squads!Fresh, Alive, Squads!InFlight, SentOf
  <2>11. Published(i)'
    BY <1>0, <1>1, <1>3, <2>1, <2>4, <2>5, <2>10 DEF Published, Own, Firm
  <2>12. Voted(i)'
    BY <1>0, <1>3, <2>1, <2>3, <2>4, <2>5, <2>10 DEF Voted
  \* No other payment is paid from what was approved until now.
  <2>16. Vault'
    <3>1. \A j \in Payout : row'[j].status = "paid" <=> j = i \/ row[j].status = "paid"
      BY <2>1, <2>5 DEF Item
    <3>2. \A j \in Payout : row'[j].ref = row[j].ref
      BY <2>1, <2>5 DEF Item
    <3>3. \A j \in Payout : row[j].status = "paid" =>
            row[j].ref \in 1 .. Len(log) /\ row[j].ref # n /\ Squads!Left(row[j].ref)
      BY <1>4, RowParts DEF Item, Voted, Published, Own, SquadsInv, Vault, Squads!Left
    <3>4. \A m \in 1 .. Len(log) : Squads!Left(m)' <=> m = n \/ Squads!Left(m)
      BY <1>3, <2>4 DEF Squads!Left
    <3>5. \A j \in Payout : row'[j].status = "paid" => Squads!Left(row[j].ref)'
      <4> SUFFICES ASSUME NEW j \in Payout, row'[j].status = "paid"
                   PROVE  log'[row'[j].ref].payload \in Payout /\ log'[row'[j].ref].status = "executed"
        BY DEF Squads!Left
      <4>1. row'[j].ref = n \/ (row'[j].ref \in 1 .. Len(log) /\ Squads!Left(row'[j].ref))
        BY <3>1, <3>2, <3>3
      <4> QED
        BY <1>3, <2>4, <4>1 DEF Squads!Left
    <3>6. \A m \in 1 .. Len(log') : Squads!Left(m)' => \E j \in Payout : row'[j].status = "paid" /\ row'[j].ref = m
      <4> SUFFICES ASSUME NEW m \in 1 .. Len(log), m = n \/ Squads!Left(m)
                   PROVE  \E j \in Payout : row'[j].status = "paid" /\ row'[j].ref = m
        BY <2>4, <3>4
      <4>1. CASE m = n
        BY <3>1, <3>2, <4>1
      <4>2. CASE Squads!Left(m)
        BY <3>1, <3>2, <4>2 DEF SquadsInv, Vault
      <4> QED
        BY <4>1, <4>2
    <3>7. \A j, k \in Payout : row'[j].status = "paid" /\ row'[k].status = "paid" /\ j # k => row'[j].ref # row'[k].ref
      BY <3>1, <3>2, <3>3 DEF SquadsInv, Vault
    <3> QED
      BY <3>5, <3>6, <3>7 DEF Vault, Squads!Left
  <2>17. Apart'
    <3>1. \A q \in Rotation : row'[q] = row[q]
      BY <1>0, <2>5 DEF Item
    <3> QED
      BY <2>4, <3>1 DEF SquadsInv, Apart
  <2>13. LockOnce'
    BY <1>1, <2>4 DEF SquadsInv, LockOnce, SentOf
  <2>14. Exclusive'
    <3>1. Squads!LockPending' => Squads!LockPending
      BY <1>1, <2>4 DEF Squads!LockPending
    <3>2. \A y \in Item : Alive(y)' => Alive(y)
      BY <1>3, <2>5 DEF Alive
    <3> QED
      BY <1>1, <3>1, <3>2, ExclusiveKept DEF SquadsInv
  <2>15. Lead'
    <3>1. \A s \in Rotation : row'[s] = row[s]
      BY <1>0, <2>5 DEF Item
    <3> QED
      BY <1>1, <3>1 DEF SquadsInv, Lead, Squads!Swapped
  <2> QED
    BY <2>6, <2>7, <2>9, <2>11, <2>12, <2>13, <2>14, <2>15, <2>16, <2>17 DEF SquadsInv, Items
<1>5. CASE Squads!Fail(i) /\ UNCHANGED log
  <2>1. Squads!SetStatus(i, "failed")
    BY <1>2, <1>5 DEF Squads!Fail, Squads!Closed
  <2>2. Squads!Idle.at = "idle"
    BY DEF Squads!Idle
  <2> QED
    BY <1>0, <1>1, <1>2, <1>3, <1>5, <2>1, <2>2, StatusMoves DEF Status, Squads!InFlight
<1> QED
  BY <1>4, <1>5 DEF Squads!FinishExecute

\* The members' change of the executor, and its record.
LEMMA RotateStep ==
  ASSUME SquadsInv, NEW r \in Rotation, Squads!ExecuteRotation(r) \/ Squads!CompleteRotation(r)
  PROVE  SquadsInv'
<1> DEFINE n == row[r].ref
<1>0. /\ Where(r) /\ Published(r) /\ Voted(r) /\ r \in Item /\ r \notin Payout
      /\ row = [row EXCEPT ![r] = row[r]]
  BY ItemHas, TreasuryAssumption DEF Item
<1>1. row[r].status = "executing"
  BY <1>0 DEF Squads!ExecuteRotation, Squads!CompleteRotation, Where
<1>2. /\ row[r] \in RotationRow /\ Alive(r) /\ n # None /\ n \in 1 .. Len(log) /\ "executed" \in Vote
      /\ log[n].payload = r /\ n = row[r].publication
      /\ executor = row[r].from /\ row[r].to # row[r].from /\ row[r].to \in Key /\ row[r].from \in Key
  BY <1>0, <1>1 DEF SquadsInv, SquadsTypes, RotationRow, Alive, Squads!Open, Voted, Published, Own, Lead, Vote
\* No payment is under way, nor another rotation.
<1>3. \A y \in Item : y # r /\ (y \in Rotation \/ ~slipped) => ~Alive(y)
  <2>1. \A y \in Rotation : y # r => ~Alive(y)
    BY <1>1, TreasuryAssumption DEF SquadsInv, Lead, Alive, Squads!Open
  <2>2. ~slipped => \A i \in Payout : ~Alive(i)
    BY <1>2, UnderWay DEF SquadsInv, Exclusive
  <2> QED
    BY <2>1, <2>2 DEF Item
<1>4. CASE Squads!ExecuteRotation(r)
  <2> DEFINE g == [at |-> "swapped"]
  <2>1. handler' = [handler EXCEPT ![r] = g] /\ UNCHANGED <<row, executor, sent>>
    BY <1>4 DEF Squads!ExecuteRotation, Squads!Goto
  <2>2. g.at = "swapped"
    OBVIOUS
  <2> HIDE DEF g
  <2>3. /\ handler'[r] = g /\ \A y \in Item : y # r => handler'[y] = handler[y]
        /\ handler' = [y \in Item |-> handler'[y]]
    BY <1>0, <2>1 DEF SquadsInv, SquadsTypes
  <2>4. Where(r)'
    BY <1>0, <1>1, <2>1, <2>2, <2>3 DEF Where
  <2>5. CASE Squads!Swapped(r)
    BY <1>0, <1>4, <2>1, <2>4, <2>5, HandlerMoves DEF Squads!ExecuteRotation, Squads!Chain
  <2>6. CASE ~Squads!Swapped(r)
    <3>1. /\ row[r].from \in members /\ log[n].status = "approved"
          /\ log' = [log EXCEPT ![n].status = "executed"]
          /\ members' = (members \cup {row[r].to}) \ {row[r].from} /\ stale' = Len(log) /\ slipped' = slipped
      BY <1>4, <2>6 DEF Squads!ExecuteRotation, Squads!Void
    <3>2. /\ log' \in Seq(Entry) /\ Len(log') = Len(log) /\ Len(log) \in Nat
          /\ \A m \in 1 .. Len(log) : /\ log'[m].payload = log[m].payload /\ log'[m].creator = log[m].creator
                                      /\ log'[m].status = IF m = n THEN "executed" ELSE log[m].status
          /\ \A x : LogOf(x)' = LogOf(x)
      BY <1>2, <3>1, LogVotes
    <3>3. SquadsTypes'
      <4>1. \A e \in {log'[m] : m \in 1 .. Len(log')} \cup sent' : e.creator = None <=> e.payload = Squads!TimeLock
        BY <2>1, <3>2, CreatorsTell
      <4>2. members' \subseteq Key
        BY <1>2, <3>1 DEF SquadsInv, SquadsTypes
      <4>3. stale' \in 0 .. Len(log')
        BY <3>1, <3>2
      <4> QED
        BY <2>1, <2>3, <3>1, <3>2, <4>1, <4>2, <4>3 DEF SquadsInv, SquadsTypes
    <3>4. ASSUME NEW y \in Item, y # r PROVE Where(y)' /\ Published(y)' /\ Voted(y)'
      <4>1. ~slipped => ~Alive(y)
        BY <1>3, <3>4
      <4> QED
        BY <1>2, <2>1, <2>3, <3>1, <3>4, <4>1, EntryVoted
    <3>5. SentOf(r)' = SentOf(r) /\ ~Squads!Fresh(r)' /\ ~Squads!Fresh(r)
      BY <1>0, <1>1, <2>1 DEF SentOf, Squads!Fresh
    <3>6. Published(r)'
      <4>1. \A m \in LogOf(r) : m \in 1 .. Len(log) /\ log'[m].creator = log[m].creator
        BY <3>2 DEF LogOf
      <4>2. KeyOf(r)' = KeyOf(r)
        BY <2>1 DEF KeyOf
      <4>3. \A e \in SentOf(r) \cup {log[m] : m \in LogOf(r)} : e.creator = KeyOf(r)
        BY <1>0 DEF Published, Firm
      <4>4. \A e \in SentOf(r)' \cup {log'[m] : m \in LogOf(r)'} : e.creator = KeyOf(r)'
        <5>1. \A m \in LogOf(r) : log'[m].creator = KeyOf(r)
          BY <4>1, <4>3
        <5> QED
          BY <3>2, <3>5, <4>2, <4>3, <5>1
      <4> QED
        BY <1>0, <1>2, <2>1, <3>1, <3>2, <3>5, <4>4 DEF Published, Own, Firm
    \* Its proposal is executed now.
    <3>8. Voted(r)'
      BY <1>0, <1>1, <1>2, <2>1, <3>1, <3>2 DEF Voted
    <3>12. Vault' /\ Apart'
      BY <1>0, <1>2, <2>1, <3>1, VaultKept
    <3>9. LockOnce'
      BY <2>1, <3>2 DEF SquadsInv, LockOnce, SentOf
    <3>10. Exclusive'
      <4>1. Squads!LockPending' => Squads!LockPending
        BY <2>1, <3>2 DEF Squads!LockPending
      <4> QED
        BY <2>1, <3>1, <4>1, ExclusiveKept DEF SquadsInv, Alive
    <3>11. Lead'
      <4>1. Squads!Swapped(r)'
        BY <1>2, <2>1, <3>1 DEF Squads!Swapped
      <4> QED
        BY <1>1, <2>1, <4>1 DEF SquadsInv, Lead
    <3> QED
      BY <2>4, <3>3, <3>4, <3>6, <3>8, <3>9, <3>10, <3>11, <3>12 DEF SquadsInv, Items
  <2> QED
    BY <2>5, <2>6
<1>5. CASE Squads!CompleteRotation(r)
  <2>1. /\ handler' = [handler EXCEPT ![r] = Squads!Idle]
        /\ UNCHANGED <<members, log, stale, sent, slipped>>
    BY <1>5 DEF Squads!CompleteRotation, Squads!Goto, Squads!Chain
  <2>2. CASE ~Squads!Swapped(r)
    BY <1>0, <1>5, <2>1, <2>2, IdleMoves DEF Squads!CompleteRotation
  <2>3. CASE Squads!Swapped(r)
    <3> DEFINE s == [row[r] EXCEPT !.status = "completed"]
    <3>1. row' = [row EXCEPT ![r] = s] /\ executor' = row[r].to
      BY <1>5, <2>3 DEF Squads!CompleteRotation, Squads!SetStatus
    <3>2. s.status = "completed" /\ s.publication = row[r].publication /\ s.ref = n /\ s \in RotationRow
      BY <1>2 DEF RotationRow, Status
    <3> HIDE DEF s
    <3>3. /\ row'[r] = s /\ \A y \in Item : y # r => row'[y] = row[y]
          /\ handler'[r] = Squads!Idle /\ \A y \in Item : y # r => handler'[y] = handler[y]
          /\ row' = [y \in Item |-> row'[y]] /\ handler' = [y \in Item |-> handler'[y]]
          /\ \A y : SentOf(y)' = SentOf(y) /\ LogOf(y)' = LogOf(y)
      BY <1>0, <2>1, <3>1 DEF SquadsInv, SquadsTypes, SentOf, LogOf
    <3>4. SquadsTypes'
      <4>1. \A i \in Payout : row'[i] \in ItemRow
        BY <1>0, <3>3 DEF SquadsInv, SquadsTypes, Item
      <4>2. \A t \in Rotation : IF row'[t].status = "none" THEN row'[t] \in ItemRow ELSE row'[t] \in RotationRow
        <5> SUFFICES ASSUME NEW t \in Rotation
                     PROVE  IF row'[t].status = "none" THEN row'[t] \in ItemRow ELSE row'[t] \in RotationRow
          OBVIOUS
        <5>1. CASE t = r
          BY <3>2, <3>3, <5>1
        <5>2. CASE t # r
          BY <3>3, <5>2 DEF SquadsInv, SquadsTypes, Item
        <5> QED
          BY <5>1, <5>2
      <4> QED
        BY <1>2, <2>1, <3>1, <3>3, <4>1, <4>2 DEF SquadsInv, SquadsTypes
    \* The executor is another one, but no payment is being published with its key.
    <3>5. ASSUME NEW y \in Item, y # r PROVE Where(y)' /\ Published(y)' /\ Voted(y)'
      <4>1. (Firm(y) => ~Alive(y)) /\ Where(y) /\ Published(y) /\ Voted(y)
        BY <1>3, <3>5, ItemHas DEF Firm
      <4>2. Firm(y) => ~Squads!Fresh(y)
        BY <4>1 DEF Alive, Squads!Fresh, Squads!InFlight, Squads!Open
      <4>3. row'[y] = row[y] /\ handler'[y] = handler[y] /\ SentOf(y)' = SentOf(y) /\ LogOf(y)' = LogOf(y)
        BY <3>3, <3>5
      <4>4. /\ (Squads!Fresh(y)' <=> Squads!Fresh(y)) /\ (Alive(y)' <=> Alive(y)) /\ (Firm(y)' <=> Firm(y))
            /\ y \in Rotation => KeyOf(y)' = KeyOf(y)
        BY <2>1, <4>3, TreasuryAssumption DEF Squads!Fresh, Alive, Firm, KeyOf
      <4>5. Where(y)'
        BY <2>1, <4>1, <4>2, <4>3, <4>4 DEF Where, Own
      <4>6. Published(y)'
        BY <2>1, <4>1, <4>2, <4>3, <4>4 DEF Published, Own
      <4>7. Voted(y)'
        BY <2>1, <4>1, <4>3, <4>4 DEF Voted
      <4> QED
        BY <4>5, <4>6, <4>7
    <3>6. handler'[r].at = "idle" /\ ~Squads!Fresh(r)' /\ ~Alive(r)'
      BY <1>0, <3>2, <3>3 DEF Squads!Idle, Squads!Fresh, Alive, Squads!Open
    <3>7. Where(r)'
      BY <1>0, <3>2, <3>3, <3>6 DEF Where
    <3>13. KeyOf(r)' = KeyOf(r)
      <4>1. s.from = row[r].from
        BY <1>2 DEF RotationRow, s
      <4> QED
        BY <1>0, <3>3, <4>1 DEF KeyOf
    <3>8. Published(r)'
      BY <1>0, <2>1, <3>2, <3>3, <3>6, <3>13 DEF Published, Own, Firm
    <3>9. Voted(r)'
      BY <1>0, <1>1, <2>1, <3>2, <3>3, <3>6 DEF Voted
    <3>10. LockOnce'
      BY <3>3 DEF SquadsInv, LockOnce
    <3>11. Exclusive'
      <4>1. Squads!LockPending' <=> Squads!LockPending
        BY <2>1 DEF Squads!LockPending
      <4>2. \A y \in Item : Alive(y)' => Alive(y)
        BY <3>3, <3>6 DEF Alive
      <4> QED
        BY <2>1, <4>1, <4>2, ExclusiveKept DEF SquadsInv
    <3>12. Lead'
      <4>1. executor' \in members'
        BY <2>1, <2>3, <3>1 DEF Squads!Swapped
      <4>2. \A t \in Rotation : row'[t].status \notin Squads!Open
        BY <1>3, <3>2, <3>3, TreasuryAssumption DEF Item, Alive, Squads!Open
      <4> QED
        BY <4>1, <4>2 DEF Lead
    <3>14. Vault'
      BY <1>0, <2>1, <3>3 DEF SquadsInv, Vault, Squads!Left, Item
    <3>15. Apart'
      <4>1. \A t \in Rotation : row'[t].publication = row[t].publication
        BY <3>2, <3>3 DEF Item
      <4> QED
        BY <2>1, <4>1 DEF SquadsInv, Apart
    <3> QED
      BY <3>4, <3>5, <3>7, <3>8, <3>9, <3>10, <3>11, <3>12, <3>14, <3>15 DEF SquadsInv, Items
  <2> QED
    BY <2>2, <2>3
<1> QED
  BY <1>4, <1>5

\* A publication lands at its index, or is lost.
LEMMA LandStep ==
  ASSUME SquadsInv, NEW c \in sent, Squads!Land(c) \/ Squads!Drop(c)
  PROVE  SquadsInv'
<1> DEFINE e == [payload |-> c.payload, creator |-> c.creator, status |-> "active"]
<1>0. /\ c \in Creation /\ c.index \in Index /\ c.index \in Nat
      /\ sent \subseteq Creation /\ Len(log) \in Nat /\ log \in Seq(Entry) /\ stale \in 0 .. Len(log)
      /\ e.payload = c.payload /\ e.creator = c.creator /\ e.status = "active" /\ e \in Entry
      /\ c.creator = None <=> c.payload = Squads!TimeLock
  BY DEF SquadsInv, SquadsTypes, Creation, Entry, Index, Vote
<1> HIDE DEF e
<1>1. sent' = sent \ {c} /\ UNCHANGED <<row, executor, handler, members, stale, slipped>>
  BY DEF Squads!Land, Squads!Drop, Squads!Chain
<1>2. \A y : SentOf(y)' = SentOf(y) \ {c}
  BY <1>1 DEF SentOf
<1>3. ASSUME NEW y \in Item
      PROVE  /\ Where(y) /\ Published(y) /\ Voted(y) /\ (Squads!Fresh(y)' <=> Squads!Fresh(y))
             /\ (Alive(y)' <=> Alive(y)) /\ KeyOf(y)' = KeyOf(y) /\ SentOf(y)' \subseteq SentOf(y)
             /\ row'[y] = row[y] /\ handler'[y] = handler[y] /\ (Firm(y)' <=> Firm(y))
  BY <1>1, <1>2, RowParts DEF Squads!Fresh, Alive, KeyOf, Firm
<1>4. Lead'
  BY <1>1 DEF SquadsInv, Lead, Squads!Swapped
<1>5. CASE UNCHANGED log
  <2>1. \A y : LogOf(y)' = LogOf(y)
    BY <1>5 DEF LogOf
  <2>2. SquadsTypes'
    <3>1. \A d \in {log'[m] : m \in 1 .. Len(log')} \cup sent' : d.creator = None <=> d.payload = Squads!TimeLock
      BY <1>1, <1>5, CreatorsTell
    <3> QED
      BY <1>1, <1>5, <3>1 DEF SquadsInv, SquadsTypes
  <2>3. ASSUME NEW y \in Item PROVE Where(y)' /\ Published(y)' /\ Voted(y)'
    <3>1. Where(y)'
      BY <1>1, <1>3, <1>5, <2>1 DEF Where, Own
    <3>2. Published(y)'
      BY <1>1, <1>3, <1>5, <2>1 DEF Published, Own
    <3>3. Voted(y)'
      BY <1>1, <1>3, <1>5, <2>1 DEF Voted
    <3> QED
      BY <3>1, <3>2, <3>3
  <2>4. LockOnce'
    BY <1>2, <2>1 DEF SquadsInv, LockOnce
  <2>5. Exclusive'
    <3>1. Squads!LockPending' => Squads!LockPending
      BY <1>1, <1>5 DEF Squads!LockPending
    <3> QED
      BY <1>1, <3>1, ExclusiveKept DEF SquadsInv, Alive
  <2>6. Vault' /\ Apart'
    BY <1>1, <1>5 DEF SquadsInv, Vault, Apart, Squads!Left
  <2> QED
    BY <1>4, <2>2, <2>3, <2>4, <2>5, <2>6 DEF SquadsInv, Items
<1>6. CASE c.index = Len(log) + 1 /\ log' = Append(log, e)
  <2>1. /\ Len(log') = Len(log) + 1 /\ log' \in Seq(Entry) /\ log'[Len(log) + 1] = e
        /\ \A m \in 1 .. Len(log) : log'[m] = log[m]
    BY <1>0, <1>6
  <2>2. \A y : LogOf(y)' = IF c.payload = y THEN LogOf(y) \cup {Len(log) + 1} ELSE LogOf(y)
    BY <1>0, <2>1 DEF LogOf
  <2>3. SquadsTypes'
    <3>1. \A m \in 1 .. Len(log') : log'[m].creator = None <=> log'[m].payload = Squads!TimeLock
      <4> SUFFICES ASSUME NEW m \in 1 .. Len(log')
                   PROVE  log'[m].creator = None <=> log'[m].payload = Squads!TimeLock
        OBVIOUS
      <4>1. m \in 1 .. Len(log) \/ log'[m] = e
        BY <1>0, <2>1
      <4>2. m \in 1 .. Len(log) => (log[m].creator = None <=> log[m].payload = Squads!TimeLock)
        BY DEF SquadsInv, SquadsTypes
      <4> QED
        BY <1>0, <2>1, <4>1, <4>2
    <3>2. \A d \in sent' : d.creator = None <=> d.payload = Squads!TimeLock
      BY <1>1 DEF SquadsInv, SquadsTypes
    <3>3. stale' \in 0 .. Len(log')
      BY <1>0, <1>1, <2>1
    <3> QED
      BY <1>0, <1>1, <2>1, <3>1, <3>2, <3>3 DEF SquadsInv, SquadsTypes
  <2>4. ASSUME NEW y \in Item PROVE Where(y)' /\ Published(y)' /\ Voted(y)'
    <3> DEFINE p == row[y].publication
    <3>1. /\ \A d \in SentOf(y) : d.index \in Nat /\ p # None /\ d.index <= p /\ (d.index = p \/ d.index <= Len(log))
          /\ \A m \in LogOf(y) : m \in 1 .. Len(log) /\ p # None /\ m <= p /\ (Firm(y) => m = p)
          /\ row[y].ref # None => Own(y, row[y].ref) /\ row[y].ref = p
      BY <1>0, <1>3 DEF Published, SentOf, LogOf, Creation, Index
    <3>2. LogOf(y) \subseteq LogOf(y)' /\ \A m \in LogOf(y) : log'[m] = log[m]
      BY <2>1, <2>2, <3>1
    <3>10. \A m : Own(y, m) => /\ m \in 1 .. Len(log) /\ m \in 1 .. Len(log') /\ log'[m] = log[m]
                               /\ log'[m].payload = y \/ (y \in Payout /\ log'[m].payload \in Payout)
      BY <1>0, <2>1 DEF Own
    <3>3. Where(y)'
      <4>1. row[y].ref # None => log'[row[y].ref] = log[row[y].ref]
        BY <3>1, <3>10
      <4> HIDE DEF p
      <4> QED
        BY <1>1, <1>3, <3>10, <4>1 DEF Where, Own
    \* What lands is the last publication of the row, and the only one.
    <3>4. c.payload = y => c \in SentOf(y) /\ p = Len(log) + 1 /\ (Firm(y) => LogOf(y) = {})
      BY <1>0, <1>6, <3>1 DEF SentOf
    <3>5. \A m \in LogOf(y)' : p # None /\ m <= p /\ (Firm(y) => m = p)
      BY <1>0, <2>2, <3>1, <3>4
    <3>6. \A d \in SentOf(y)' : p # None /\ d.index <= p /\ (d.index = p \/ d.index <= Len(log'))
      BY <1>0, <1>3, <2>1, <3>1
    <3>7. Firm(y) /\ (y \in Rotation \/ Squads!Fresh(y)) =>
            \A d \in SentOf(y)' \cup {log'[m] : m \in LogOf(y)'} : d.creator = KeyOf(y)
      <4> SUFFICES ASSUME Firm(y), y \in Rotation \/ Squads!Fresh(y), NEW d \in SentOf(y)' \cup {log'[m] : m \in LogOf(y)'}
                   PROVE  d.creator = KeyOf(y)
        OBVIOUS
      <4>1. \A b \in SentOf(y) \cup {log[m] : m \in LogOf(y)} : b.creator = KeyOf(y)
        BY <1>3 DEF Published
      <4>2. d \in SentOf(y) \/ (d = e /\ c.payload = y) \/ d \in {log[m] : m \in LogOf(y)}
        BY <1>3, <2>1, <2>2, <3>2
      <4> QED
        BY <1>0, <3>4, <4>1, <4>2
    <3>8. Published(y)'
      <4> HIDE DEF p
      <4> QED
        BY <1>1, <1>3, <3>1, <3>2, <3>5, <3>6, <3>7, <3>10 DEF Published, p, Own
    <3>9. Voted(y)'
      <4>1. row[y].ref # None => log'[row[y].ref] = log[row[y].ref]
        BY <3>1, <3>10
      <4>2. ~slipped /\ Alive(y) /\ p \in 1 .. Len(log') /\ log'[p].status = "active" => p > stale
        <5>1. ~slipped /\ Alive(y) /\ p \in 1 .. Len(log) /\ log[p].status = "active" => p > stale
          BY <1>3 DEF Voted
        <5>2. p \in 1 .. Len(log') => p \in 1 .. Len(log) \/ p = Len(log) + 1
          BY <1>0, <2>1
        <5> QED
          BY <1>0, <2>1, <5>1, <5>2
      <4> QED
        BY <1>1, <1>3, <4>1, <4>2 DEF Voted
    <3> QED
      BY <3>3, <3>8, <3>9
  <2>5. LockOnce'
    <3>1. CASE c.payload = Squads!TimeLock
      <4>1. c \in SentOf(Squads!TimeLock)
        BY <3>1 DEF SentOf
      <4>2. SentOf(Squads!TimeLock)' = {} /\ LogOf(Squads!TimeLock)' = {Len(log) + 1}
        BY <1>2, <2>2, <3>1, <4>1 DEF SquadsInv, LockOnce
      <4> QED
        BY <4>2 DEF LockOnce
    <3>2. CASE c.payload # Squads!TimeLock
      BY <1>2, <2>2, <3>2 DEF SquadsInv, LockOnce
    <3> QED
      BY <3>1, <3>2
  <2>6. Exclusive'
    <3>1. Squads!LockPending' => Squads!LockPending
      <4> SUFFICES ASSUME Squads!LockPending' PROVE Squads!LockPending
        OBVIOUS
      <4>1. CASE \E d \in sent' : d.payload = Squads!TimeLock
        BY <1>1, <4>1 DEF Squads!LockPending
      <4>2. CASE \E m \in 1 .. Len(log') : log'[m].payload = Squads!TimeLock /\ log'[m].status \in {"active", "approved"}
        <5>1. PICK m \in 1 .. Len(log') :
                log'[m].payload = Squads!TimeLock /\ log'[m].status \in {"active", "approved"}
          BY <4>2
        <5>2. m \in 1 .. Len(log) \/ m = Len(log) + 1
          BY <1>0, <2>1
        <5> QED
          BY <1>0, <2>1, <5>1, <5>2 DEF Squads!LockPending
      <4> QED
        BY <4>1, <4>2 DEF Squads!LockPending
    <3> QED
      BY <1>1, <3>1, ExclusiveKept DEF SquadsInv, Alive
  <2>7. Vault'
    <3>1. \A m \in 1 .. Len(log) : Squads!Left(m)' <=> Squads!Left(m)
      BY <2>1 DEF Squads!Left
    <3>2. \A m \in 1 .. Len(log') : Squads!Left(m)' => m \in 1 .. Len(log) /\ Squads!Left(m)
      <4> SUFFICES ASSUME NEW m \in 1 .. Len(log'), Squads!Left(m)' PROVE m \in 1 .. Len(log) /\ Squads!Left(m)
        OBVIOUS
      <4>1. m \in 1 .. Len(log) \/ m = Len(log) + 1
        BY <1>0, <2>1
      <4>2. m # Len(log) + 1
        BY <1>0, <2>1 DEF Squads!Left
      <4> QED
        BY <3>1, <4>1, <4>2
    <3>3. \A i \in Payout : row[i].status = "paid" => row[i].ref \in 1 .. Len(log) /\ Squads!Left(row[i].ref)
      BY <1>3 DEF Item, Voted, Published, Own, SquadsInv, Vault
    <3>4. \A i \in Payout : row'[i].status = "paid" => Squads!Left(row[i].ref)'
      BY <1>1, <2>1, <3>3 DEF Squads!Left
    <3> QED
      BY <1>1, <3>2, <3>4 DEF SquadsInv, Vault, Squads!Left
  \* A rotation whose publication lands is still open, as is any that recorded its index.
  <2>8. Apart'
    <3> SUFFICES ASSUME NEW q \in Rotation, row[q].publication # None, row[q].publication \in 1 .. Len(log'),
                        log'[row[q].publication].payload \in Rotation
                 PROVE  log'[row[q].publication].payload = q
      BY <1>1 DEF Apart
    <3>1. CASE row[q].publication \in 1 .. Len(log)
      BY <2>1, <3>1 DEF SquadsInv, Apart
    <3>2. CASE row[q].publication = Len(log) + 1
      <4>1. c.payload \in Rotation
        BY <1>0, <2>1, <3>2
      <4>2. ASSUME NEW t \in Rotation, row[t].publication = Len(log) + 1 PROVE row[t].status \in Squads!Open
        <5>1. t \in Item /\ t \notin Payout /\ Where(t) /\ Published(t) /\ Voted(t) /\ row[t].status \in Status
          BY <1>3, RowParts, TreasuryAssumption DEF Item
        <5>2. row[t].ref = None
          BY <1>0, <4>2, <5>1 DEF Published, Own
        <5>3. row[t].status # "none"
          BY <1>0, <4>2, <5>1, TreasuryAssumption DEF Where
        <5> QED
          BY <5>1, <5>2, <5>3 DEF Voted, Squads!Open
      <4>3. row[c.payload].publication = Len(log) + 1
        <5>1. c \in SentOf(c.payload) /\ Published(c.payload) /\ row[c.payload].publication \in Index \cup {None}
          BY <1>3, <4>1, RowParts DEF SentOf, Item
        <5> QED
          BY <1>0, <1>6, <5>1 DEF Published
      <4>4. c.payload = q
        BY <3>2, <4>1, <4>2, <4>3 DEF SquadsInv, Lead
      <4> QED
        BY <1>0, <2>1, <3>2, <4>4
    <3> QED
      BY <1>0, <2>1, <3>1, <3>2
  <2> QED
    BY <1>4, <2>3, <2>4, <2>5, <2>6, <2>7, <2>8 DEF SquadsInv, Items
<1> QED
  BY <1>5, <1>6 DEF Squads!Land, Squads!Drop, Squads!Chain, e

\* The owners ask for another time lock.
LEMMA ProposeStep == ASSUME SquadsInv, Squads!ProposeTimeLock PROVE SquadsInv'
<1> DEFINE c == [index |-> Len(log) + 1, payload |-> Squads!TimeLock, creator |-> None]
<1>1. /\ ~Squads!Busy /\ ~Squads!LockPending /\ \A n \in 1 .. Len(log) : log[n].payload # Squads!TimeLock
      /\ sent' = sent \cup {c} /\ slipped' = (slipped \/ Squads!RotationOpen)
      /\ UNCHANGED <<row, executor, handler, members, log, stale>>
  BY DEF Squads!ProposeTimeLock, Squads!Chain
<1>2. c.payload = Squads!TimeLock /\ c.creator = None /\ c \in Creation
  BY DEF Creation, Index, Squads!Payload, SquadsInv, SquadsTypes
<1> HIDE DEF c
<1>3. \A y : LogOf(y)' = LogOf(y)
  BY <1>1 DEF LogOf
<1>4. \A y \in Item : SentOf(y)' = SentOf(y)
  BY <1>1, <1>2, RowParts DEF SentOf
<1>5. SquadsTypes'
  <2>1. slipped' \in BOOLEAN
    BY <1>1 DEF SquadsInv, SquadsTypes, Squads!RotationOpen
  <2>2. \A d \in sent' : d.creator = None <=> d.payload = Squads!TimeLock
    BY <1>1, <1>2 DEF SquadsInv, SquadsTypes
  <2> QED
    BY <1>1, <1>2, <2>1, <2>2 DEF SquadsInv, SquadsTypes
<1>6. ASSUME NEW y \in Item PROVE Where(y)' /\ Published(y)' /\ Voted(y)'
  <2>1. /\ Where(y) /\ Published(y) /\ Voted(y) /\ (Squads!Fresh(y)' <=> Squads!Fresh(y))
        /\ (Alive(y)' <=> Alive(y)) /\ KeyOf(y)' = KeyOf(y) /\ row'[y] = row[y] /\ handler'[y] = handler[y]
        /\ (~slipped' => ~slipped) /\ (Firm(y)' => Firm(y))
    BY <1>1, RowParts DEF Squads!Fresh, Alive, KeyOf, Firm
  <2>2. Where(y)'
    BY <1>1, <1>3, <2>1 DEF Where, Own
  <2>3. Published(y)'
    BY <1>1, <1>3, <1>4, <2>1 DEF Published, Own
  <2>4. Voted(y)'
    BY <1>1, <1>3, <2>1 DEF Voted
  <2> QED
    BY <2>2, <2>3, <2>4
<1>7. LockOnce'
  <2>1. SentOf(Squads!TimeLock) = {} /\ LogOf(Squads!TimeLock) = {}
    BY <1>1 DEF SentOf, LogOf, Squads!LockPending
  <2>2. SentOf(Squads!TimeLock)' = {c}
    BY <1>1, <1>2, <2>1 DEF SentOf
  <2> QED
    BY <1>3, <2>1, <2>2 DEF LockOnce
<1>8. Exclusive'
  BY <1>1 DEF Exclusive, Squads!Busy, Squads!RotationOpen
<1>9. Lead'
  BY <1>1 DEF SquadsInv, Lead, Squads!Swapped
<1>10. Vault' /\ Apart'
  BY <1>1 DEF SquadsInv, Vault, Apart, Squads!Left
<1> QED
  BY <1>5, <1>6, <1>7, <1>8, <1>9, <1>10 DEF SquadsInv, Items

\* Every step keeps the invariant.
LEMMA SquadsStep == SquadsInv /\ [Squads!Next]_(Squads!vars) => SquadsInv'
<1> SUFFICES ASSUME SquadsInv, [Squads!Next]_(Squads!vars) PROVE SquadsInv'
  OBVIOUS
<1>1. CASE UNCHANGED Squads!vars
  <2>1. /\ row' = row /\ executor' = executor /\ handler' = handler /\ members' = members
        /\ log' = log /\ stale' = stale /\ sent' = sent /\ faults' = faults /\ slipped' = slipped
    BY <1>1 DEF Squads!vars
  <2>2. SquadsTypes'
    BY <2>1 DEF SquadsInv, SquadsTypes
  <2>3. ASSUME NEW x \in Item PROVE (Where(x) /\ Published(x) /\ Voted(x))'
    <3>1. Where(x) /\ Published(x) /\ Voted(x)
      BY DEF SquadsInv, Items
    <3>2. LogOf(x)' = LogOf(x) /\ SentOf(x)' = SentOf(x) /\ KeyOf(x)' = KeyOf(x)
          /\ (Alive(x)' <=> Alive(x)) /\ (Squads!Fresh(x)' <=> Squads!Fresh(x)) /\ (Firm(x)' <=> Firm(x))
      BY <2>1 DEF LogOf, SentOf, KeyOf, Alive, Squads!Fresh, Firm
    <3>3. Where(x)'
      BY <2>1, <3>1, <3>2 DEF Where, Own
    <3>4. Published(x)'
      BY <2>1, <3>1, <3>2 DEF Published, Own
    <3>5. Voted(x)'
      BY <2>1, <3>1, <3>2 DEF Voted
    <3> QED
      BY <3>3, <3>4, <3>5
  <2>4. LockOnce'
    BY <2>1 DEF SquadsInv, LockOnce, SentOf, LogOf, Squads!LockPending
  <2>5. Exclusive'
    BY <2>1 DEF SquadsInv, Exclusive, Squads!Busy, Squads!RotationOpen, Squads!LockPending
  <2>6. Lead'
    BY <2>1 DEF SquadsInv, Lead, Squads!Swapped
  <2>7. Vault' /\ Apart'
    BY <2>1 DEF SquadsInv, Vault, Apart, Squads!Left
  <2> QED
    BY <2>2, <2>3, <2>4, <2>5, <2>6, <2>7 DEF SquadsInv, Items
<1>2. Squads!Item = Item
  BY DEF Squads!Item, Item
<1>3. CASE \E x \in Item : \/ Squads!BeginPublish(x) \/ Squads!ChooseIndex(x) \/ Squads!Broadcast(x)
                           \/ Squads!Await(x) \/ Squads!CompletePublication(x)
                           \/ Squads!ReadProposal(x) \/ Squads!Mirror(x) \/ Squads!Interrupt(x)
  BY <1>3, PublishStep, ObserveStep
<1>4. CASE \E i \in Payout : \/ Squads!Evaluate(i) \/ Squads!Expire(i)
                               \/ Squads!BeginExecute(i) \/ Squads!FinishExecute(i)
  BY <1>4, EvaluateStep, ExecuteStep, FinishStep
<1>5. CASE \E r \in Rotation : Squads!StartRotation(r) \/ Squads!ExecuteRotation(r) \/ Squads!CompleteRotation(r)
  BY <1>5, StartStep, RotateStep
<1>6. CASE \/ \E c \in sent : Squads!Land(c) \/ Squads!Drop(c)
           \/ \E n \in 1 .. Len(log) : Squads!Vote(n) \/ Squads!ExecuteTimeLock(n)
           \/ Squads!ProposeTimeLock
  BY <1>6, LandStep, VoteStep, ProposeStep
<1> QED
  BY <1>1, <1>2, <1>3, <1>4, <1>5, <1>6 DEF Squads!Next

\* What the invariant is for.
LEMMA SquadsMeans == SquadsInv => OneProposalEach /\ OutcomeMatchesVault /\ NothingStranded
<1> SUFFICES ASSUME SquadsInv PROVE OneProposalEach /\ OutcomeMatchesVault /\ NothingStranded
  OBVIOUS
<1>1. \A x \in Item : Where(x) /\ Published(x) /\ Voted(x)
  BY DEF SquadsInv, Items
<1>2. \A n \in 1 .. Len(log) : log[n].payload \in Item \/ log[n].payload = Squads!TimeLock
  <2>1. \A n \in 1 .. Len(log) : log[n] \in Entry
    BY DEF SquadsInv, SquadsTypes
  <2> QED
    BY <2>1 DEF Entry, Squads!Payload, Squads!Item, Item
<1>4. \A x \in Item : row[x].ref # None => /\ row[x].ref \in 1 .. Len(log) /\ row[x].ref = row[x].publication
                                           /\ log[row[x].ref].payload = x \/ {x, log[row[x].ref].payload} \subseteq Payout
  BY <1>1 DEF Published, Own
\* What is published for a payment or a rotation is where its row says.
<1>7. ASSUME ~slipped, NEW x \in Item, NEW n \in 1 .. Len(log), log[n].payload = x PROVE n = row[x].publication
  BY <1>1, <1>7 DEF Published, LogOf, Firm
<1>3. OneProposalEach
  <2>1. ASSUME ~slipped, NEW m \in 1 .. Len(log), NEW n \in 1 .. Len(log), log[m].payload = log[n].payload
        PROVE  m = n
    <3>1. CASE log[m].payload \in Item
      BY <1>7, <2>1, <3>1
    <3>2. CASE log[m].payload = Squads!TimeLock
      BY <2>1, <3>2 DEF SquadsInv, LockOnce, LogOf
    <3> QED
      BY <1>2, <3>1, <3>2
  <2>2. ASSUME NEW x \in Item, row[x].ref # None
        PROVE  /\ Squads!Exists(row[x].ref) /\ Squads!Kind(log[row[x].ref].payload) = Squads!Kind(x)
               /\ log[row[x].ref].payload = x \/ slipped \/ Squads!Adopts(x, log[row[x].ref].payload)
    <3> DEFINE y == log[row[x].ref].payload
    <3>1. row[x].ref \in 1 .. Len(log) /\ (y = x \/ {x, y} \subseteq Payout)
      BY <1>4, <2>2
    <3>2. CASE y = x
      BY <3>1, <3>2 DEF Squads!Exists
    <3>3. CASE {x, y} \subseteq Payout
      <4>1. y \in Squads!Item /\ Squads!Kind(y) = Squads!Kind(x) /\ y \in Item
        BY <3>3 DEF Squads!Item, Squads!Kind, Item
      <4>2. ~slipped => row[y].publication = row[x].ref
        BY <1>7, <3>1, <4>1
      <4> QED
        BY <3>1, <4>1, <4>2 DEF Squads!Exists, Squads!Adopts
    <3> QED
      BY <3>1, <3>2, <3>3
  <2> QED
    BY <2>1, <2>2 DEF OneProposalEach, Squads!OneProposalEach, Squads!Item, Item
<1>5. OutcomeMatchesVault
  <2>1. ASSUME NEW i \in Payout, row[i].status = "paid"
        PROVE  Squads!Exists(row[i].ref) /\ Squads!Left(row[i].ref) /\ row[i].ref = row[i].publication
    BY <1>1, <1>4, <2>1 DEF Voted, Item, Squads!Exists, SquadsInv, Vault
  <2>2. ASSUME NEW x \in Item, row[x].status \in {"approved", "executing", "paid", "completed"}
        PROVE  Squads!Exists(row[x].ref) /\ log[row[x].ref].status \in {"approved", "executed", "cancelled"}
    BY <1>1, <1>4, <2>2 DEF Voted, Squads!Exists
  <2>3. ASSUME NEW i \in Payout, NEW j \in Payout, row[i].status = "paid", row[j].status = "paid", i # j
        PROVE  row[i].ref # row[j].ref /\ (slipped \/ log[row[i].ref].payload # j)
    <3>1. row[i].ref # row[j].ref
      BY <2>3 DEF SquadsInv, Vault
    <3>2. row[i].ref \in 1 .. Len(log) /\ row[j].ref = row[j].publication
      BY <2>1, <2>3 DEF Squads!Exists
    <3>3. ASSUME ~slipped, log[row[i].ref].payload = j PROVE FALSE
      <4>1. row[i].ref = row[j].publication
        BY <1>7, <3>2, <3>3 DEF Item
      <4> QED
        BY <3>1, <3>2, <4>1
    <3> QED
      BY <3>1, <3>3
  <2>4. \A n \in 1 .. Len(log) : Squads!Left(n) => \E i \in Payout : row[i].status = "paid" /\ row[i].ref = n
    BY DEF SquadsInv, Vault
  <2> QED
    BY <2>1, <2>2, <2>3, <2>4 DEF OutcomeMatchesVault, Squads!OutcomeMatchesVault, Squads!Item, Item
<1>6. NothingStranded
  <2>1. ASSUME ~slipped, NEW x \in Item, row[x].status = "approval_required", log[row[x].ref].status = "active"
        PROVE  row[x].ref > stale
    <3>1. Alive(x) /\ row[x].ref \in 1 .. Len(log) /\ row[x].ref = row[x].publication
      BY <1>1, <1>4, <2>1 DEF Voted, Alive, Squads!InFlight, Squads!Open
    <3> QED
      BY <1>1, <2>1, <3>1 DEF Voted
  <2> QED
    BY <2>1 DEF NothingStranded, Squads!NothingStranded, SquadsInv, Lead, Squads!Item, Item
<1> QED
  BY <1>3, <1>5, <1>6

\* The invariant holds in every behaviour of MCTreasury.
LEMMA SquadsHolds == Spec => []SquadsInv
<1>1. Init => SquadsInv
  BY SquadsInit DEF Init
<1>2. [Next]_<<part, squads, theSafe, x402, books, reading, recurring, others>> => [Squads!Next]_(Squads!vars)
  BY DEF Next, squads, Squads!vars
<1>3. SquadsInv /\ [Next]_<<part, squads, theSafe, x402, books, reading, recurring, others>> => SquadsInv'
  BY <1>2, SquadsStep
<1> QED
  BY <1>1, <1>3, PTL DEF Spec

\* However often a publication crashes and is tried again, and whatever is lost,
\* delayed or overtaken on its way, a payment and a rotation have one proposal each,
\* and a row refers to its own, or a payment's to one that another payment put at the
\* index both had recorded (publish, publishRotation, completePublication).
THEOREM ProposedOnce == Spec => []OneProposalEach
BY SquadsHolds, SquadsMeans, PTL

\* As many are paid as left the vault, also when rows take the same proposal, and
\* what is executed was approved on chain, also when the vote was read before the
\* row was locked (observeProposal, execute).
THEOREM PaidFromVault == Spec => []OutcomeMatchesVault
BY SquadsHolds, SquadsMeans, PTL

\* The executor is a member, or its rotation is about to be recorded; and what a row
\* waits for can still be voted on (executeRotation, RotationStore).
THEOREM NobodyStranded == Spec => []NothingStranded
BY SquadsHolds, SquadsMeans, PTL

==============================================================================
