-------------------------- MODULE PaymentExecution --------------------------
(***************************************************************************)
(* Executing approved payments: the handlers of transaction.execute and    *)
(* transaction.confirm (apps/worker/src/worker.ts), the transactions they  *)
(* commit (packages/database/src/jobs.ts) and the chain they race with     *)
(* (packages/evm-adapter, packages/solana-adapter).                        *)
(*                                                                         *)
(* One step of a worker is one await of its handler: a read or transaction *)
(* of the database, or a call to the node.  Everything else, other workers *)
(* included, may happen between two of them.  All intents are paid from    *)
(* one direct account, so that on an EVM chain they compete for its nonces *)
(* and nothing on the chain itself stops a second transfer for an intent.  *)
(*                                                                         *)
(* The job queue is used as TaskPool describes it.  x402 payments, whose   *)
(* settlement is learned from the seller, are not modelled here.           *)
(***************************************************************************)
EXTENDS Naturals

CONSTANTS
  Intent,                 \* intents of one treasury
  Worker,                 \* worker processes
  Tx,                     \* identities (hashes) of transactions to be signed
  NoTx, NoTask, NoIntent, \* "none"
  Family,                 \* "evm" or "svm"
  MaxNonce,               \* bound: nonces of the account
  MaxFaults,              \* bound: errors, crashes, foreign nonces, reorgs
  LeaseOutlastsHandler,   \* TRUE: no lease lapses under a live worker
  Freezes,                \* TRUE: the gates may close and open at any time
  NodeLags,               \* TRUE: a node may deny what the chain already has
  Reorgs                  \* TRUE: blocks that are not final may be replaced

ASSUME PaymentAssumption ==
  /\ NoTx \notin Tx
  /\ NoIntent \notin Intent
  /\ Family \in {"evm", "svm"}
  /\ MaxNonce \in Nat
  /\ MaxFaults \in Nat
  /\ LeaseOutlastsHandler \in BOOLEAN
  /\ Freezes \in BOOLEAN
  /\ NodeLags \in BOOLEAN
  /\ Reorgs \in BOOLEAN

Task == {"execute", "confirm"} \X Intent

ASSUME TaskAssumption == NoTask \notin Task

VARIABLES
  (* Database *)
  status,        \* intents.status; "requested" stands for all before "approved"
  execStatus,    \* executions.status, "none" before the row exists
  execTx,        \* executions.transaction_hash (with signed_payload)
  postings,      \* ledger transactions, by reference <<hash, kind>>
  frozen,        \* intents whose gates or signer would refuse them now
  task,          \* the job of each kind and intent
  (* Workers *)
  at,            \* at[w]: program counter, job held, transaction in hand
  (* Chain *)
  net,           \* net[t]: "blank", "held", "pending", "landed", "reverted"
  owner,         \* owner[t]: the intent t was signed for
  nonce,         \* nonce[t]
  accountNonce,  \* the account's next nonce on the chain (EVM)
  expired,       \* transactions whose blockhash is no longer valid (Solana)
  final,         \* transactions in a finalized block
  faults         \* faults so far

records == <<status, execStatus, execTx, postings>>
chain == <<net, owner, nonce, accountNonce, expired, final>>
vars == <<records, frozen, task, at, chain, faults>>

IntentStatus == {"requested", "approved", "executing", "submitted",
                 "finalized", "reconciled", "failed"}
ExecStatus == {"none", "simulated", "signed", "submitted", "finalized", "failed"}
ExecutePc == {"context", "build", "rebuild", "record", "sign", "persist", "broadcast",
              "submit", "lookup", "judge", "condemn", "executed"}
ConfirmPc == {"begin", "observe", "settle", "reverse", "confirmed"}

Idle == [pc |-> "idle", task |-> NoTask, tx |-> NoTx]

WorkerState == [pc : {"idle"} \cup ExecutePc \cup ConfirmPc,
                task : Task \cup {NoTask}, tx : Tx \cup {NoTx}]

\* Intents, executions, jobs and transactions stay within the states the schema's
\* check constraints and the worker's steps know (001_initial.sql, jobs.ts, worker.ts).
TypeOK ==
  /\ status \in [Intent -> IntentStatus]
  /\ execStatus \in [Intent -> ExecStatus]
  /\ execTx \in [Intent -> Tx \cup {NoTx}]
  /\ postings \subseteq Tx \X {"submitted", "reversal", "finalized", "fee"}
  /\ frozen \subseteq Intent
  /\ task \in [Task -> {"absent", "open", "closed", "dead"}]
  /\ at \in [Worker -> WorkerState]
  /\ net \in [Tx -> {"blank", "held", "pending", "landed", "reverted"}]
  /\ owner \in [Tx -> Intent \cup {NoIntent}]
  /\ nonce \in [Tx -> 0..MaxNonce]
  /\ accountNonce \in Nat
  /\ expired \subseteq Tx
  /\ final \subseteq Tx
  /\ faults \in 0..MaxFaults

Init ==
  /\ status = [i \in Intent |-> "requested"]
  /\ execStatus = [i \in Intent |-> "none"]
  /\ execTx = [i \in Intent |-> NoTx]
  /\ postings = {}
  /\ frozen = {}
  /\ task = [e \in Task |-> "absent"]
  /\ at = [w \in Worker |-> Idle]
  /\ net = [t \in Tx |-> "blank"]
  /\ owner = [t \in Tx |-> NoIntent]
  /\ nonce = [t \in Tx |-> 0]
  /\ accountNonce = 0
  /\ expired = {}
  /\ final = {}
  /\ faults = 0

(***************************************************************************)
(* The chain, as a node shows it.                                          *)
(***************************************************************************)
Mined(t) == net[t] \in {"landed", "reverted"}

\* getTransaction (EVM) also answers for the mempool; getSignatureStatuses
\* (Solana) answers only for what a block holds.
VisibleOnceMined(t) == net[t] \in {"landed", "reverted"}
Visible(t) == Mined(t) \/ (Family = "evm" /\ net[t] = "pending")

\* The nonce was consumed, or the blockhash expired.
Spent(t) == IF Family = "evm" THEN nonce[t] < accountNonce ELSE t \in expired

\* What finality means to waitForTransaction: the confirmation depth, or the
\* commitment.  A failed receipt is reported before it is final.
SucceededInAnyBlock(t) == net[t] = "landed"
SucceededFinally(t) == net[t] = "landed" /\ t \in final

\* The pending transaction count: the first nonce that nothing known to the
\* node uses.
NextNonce(n) ==
  IF Family = "evm"
  THEN /\ n >= accountNonce
       /\ \A m \in 0..MaxNonce :
            (accountNonce <= m /\ m < n) => \E t \in Tx : net[t] = "pending" /\ nonce[t] = m
       /\ ~\E t \in Tx : net[t] = "pending" /\ nonce[t] = n
  ELSE n = 0

(***************************************************************************)
(* Workers and their jobs.                                                 *)
(***************************************************************************)
Holds(w, e) == at[w].task = e
IntentOf(w) == at[w].task[2]

Goto(w, pc) == at' = [at EXCEPT ![w].pc = pc]
GotoWith(w, pc, t) == at' = [at EXCEPT ![w] = [@ EXCEPT !.pc = pc, !.tx = t]]

Fault == faults < MaxFaults /\ faults' = faults + 1

\* The transaction that approves the intent (evaluateIntent, decideIntent or
\* observeProposal) also emits transaction.execute.
Approve(i) ==
  /\ status[i] = "requested"
  /\ status' = [status EXCEPT ![i] = "approved"]
  /\ task' = [task EXCEPT ![<<"execute", i>>] = "open"]
  /\ UNCHANGED <<execStatus, execTx, postings, frozen, at, chain, faults>>

\* claim(): a row that is running is handed out again only once its lease lapsed.
FreeWhenOpen(e) == task[e] = "open"
Free(e) == task[e] = "open" /\ (LeaseOutlastsHandler => \A v \in Worker : ~Holds(v, e))

Take(w, e) ==
  /\ at[w] = Idle
  /\ Free(e)
  /\ at' = [at EXCEPT ![w] = [pc |-> IF e[1] = "execute" THEN "context" ELSE "begin",
                              task |-> e, tx |-> NoTx]]
  /\ UNCHANGED <<records, frozen, task, chain, faults>>

\* complete(): the handler returned.  The update wants the row "running", which
\* it no longer is when another worker has given the same job back.
Complete(w) ==
  /\ at[w].pc \in {"executed", "confirmed"}
  /\ \/ task' = [task EXCEPT ![at[w].task] = IF @ = "open" THEN "closed" ELSE @]
     \/ ~LeaseOutlastsHandler /\ UNCHANGED task
  /\ at' = [at EXCEPT ![w] = Idle]
  /\ UNCHANGED <<records, frozen, chain, faults>>

\* fail() or defer() after the handler threw: the job is retried, or dead-lettered
\* on its last attempt, whichever attempt that is.  Neither looks at the row.
GiveBack(w) ==
  /\ \E s \in {"open", "dead"} : task' = [task EXCEPT ![at[w].task] = s]
  /\ at' = [at EXCEPT ![w] = Idle]

DeferForGood(w) ==
  /\ task' = [task EXCEPT ![at[w].task] = "closed"]
  /\ at' = [at EXCEPT ![w] = Idle]

Defer(w) ==
  /\ task' = [task EXCEPT ![at[w].task] = "open"]
  /\ at' = [at EXCEPT ![w] = Idle]

\* The database or the node cannot be reached at this await.  confirm turns an
\* error of waitForTransaction into a deferral.
HandlerError(w) ==
  /\ at[w] # Idle
  /\ Fault
  /\ IF at[w].pc = "observe" THEN Defer(w) ELSE GiveBack(w)
  /\ UNCHANGED <<records, frozen, chain>>

\* The process dies; the lease lapses later and the job is handed out again.
Crash(w) ==
  /\ at[w] # Idle
  /\ Fault
  /\ at' = [at EXCEPT ![w] = Idle]
  /\ UNCHANGED <<records, frozen, task, chain>>

(***************************************************************************)
(* transaction.execute: what the worker reads, and the first run.          *)
(***************************************************************************)
\* Where execute starts, by the execution row it read: a signed one is never
\* simulated or signed again, the network decides what became of it.
ResumeBySigningAgain(i) == IF execStatus[i] = "none" THEN "build" ELSE "rebuild"
ResumeAt(i) ==
  CASE execStatus[i] = "none" -> "build"
    [] execStatus[i] = "simulated" -> "rebuild"
    [] execStatus[i] = "signed" -> "lookup"

\* getExecutionContext: the checks in the code's order.  A freeze, or a signer
\* no longer active, condemns the intent whether or not something is signed;
\* expiry and policy, which may refuse it too, are looked at only while it is
\* still approved.
ReadContext(w) ==
  LET i == IntentOf(w)
      runnable == status[i] \in {"approved", "executing"}
      refused == \/ status[i] = "executing" /\ execStatus[i] = "none"
                 \/ i \in frozen
      known == execStatus[i] \in {"none", "simulated", "signed"}
  IN
  /\ at[w].pc = "context"
  /\ \/ runnable /\ (refused \/ status[i] = "approved") /\ Goto(w, "condemn") /\ UNCHANGED task
     \/ runnable /\ ~refused /\ known /\ GotoWith(w, ResumeAt(i), execTx[i]) /\ UNCHANGED task
     \/ (runnable => ~refused /\ ~known) /\ GiveBack(w)
  /\ UNCHANGED <<records, frozen, chain, faults>>

\* buildExecution in sign mode: the simulation, the Safe nonce or the Squads
\* proposal may refuse; so does an EVM node that cannot be reached.
Build(w) ==
  /\ at[w].pc \in {"build", "rebuild"}
  /\ \/ Goto(w, IF at[w].pc = "build" THEN "record" ELSE "sign")
     \/ Goto(w, "condemn")
  /\ UNCHANGED <<records, frozen, task, chain, faults>>

\* "on conflict (intent_id) do update set simulation": the status of a row that
\* is already there stays.
RecordSimulation(w) ==
  LET i == IntentOf(w) IN
  /\ at[w].pc = "record"
  /\ execStatus' = [execStatus EXCEPT ![i] = IF @ = "none" THEN "simulated" ELSE @]
  /\ status' = [status EXCEPT ![i] = IF @ = "approved" THEN "executing" ELSE @]
  /\ Goto(w, "sign")
  /\ UNCHANGED <<execTx, postings, frozen, task, chain, faults>>

\* build.sign: the nonce or blockhash is read and fresh bytes are signed.
SignAs(w, next) ==
  /\ at[w].pc = "sign"
  /\ \E t \in Tx, n \in 0..MaxNonce :
       /\ net[t] = "blank"
       /\ NextNonce(n)
       /\ net' = [net EXCEPT ![t] = "held"]
       /\ owner' = [owner EXCEPT ![t] = IntentOf(w)]
       /\ nonce' = [nonce EXCEPT ![t] = n]
       /\ GotoWith(w, next, t)
  /\ UNCHANGED <<records, frozen, task, accountNonce, expired, final, faults>>
SignAndBroadcast(w) == SignAs(w, "broadcast")
Sign(w) == SignAs(w, "persist")

\* markSigned: an update that silently matches no row when the execution is not
\* "simulated" any more.
MarkSigned(w) ==
  LET i == IntentOf(w) IN
  /\ at[w].pc = "persist"
  /\ IF execStatus[i] = "simulated"
     THEN /\ execStatus' = [execStatus EXCEPT ![i] = "signed"]
          /\ execTx' = [execTx EXCEPT ![i] = at[w].tx]
     ELSE UNCHANGED <<execStatus, execTx>>
  /\ Goto(w, "broadcast")
  /\ UNCHANGED <<status, postings, frozen, task, chain, faults>>

\* adapter.broadcast: admitted and acknowledged; admitted but the answer lost;
\* or refused.  A resent transaction may be known already.
Broadcast(w) ==
  LET t == at[w].tx
      admissible == net[t] \in {"held", "pending"} /\ ~Spent(t)
      send == net' = [net EXCEPT ![t] = "pending"]
  IN
  /\ at[w].pc = "broadcast"
  /\ \/ admissible /\ send /\ Goto(w, "submit") /\ UNCHANGED <<task, faults>>
     \/ admissible /\ send /\ Fault /\ GiveBack(w)
     \/ (~admissible \/ net[t] = "pending") /\ UNCHANGED <<net, faults>> /\ GiveBack(w)
  /\ UNCHANGED <<records, frozen, owner, nonce, accountNonce, expired, final>>

\* markSubmitted: three updates, a posting and the confirm job, or nothing.
MarkSubmitted(w) ==
  LET i == IntentOf(w) IN
  /\ at[w].pc = "submit"
  /\ IF execStatus[i] \in {"signed", "submitted"} /\ status[i] = "executing"
     THEN /\ execStatus' = [execStatus EXCEPT ![i] = "submitted"]
          /\ status' = [status EXCEPT ![i] = "submitted"]
          /\ postings' = postings \cup {<<execTx[i], "submitted">>}
          /\ task' = [task EXCEPT ![<<"confirm", i>>] = "open"]
          /\ Goto(w, "executed")
     ELSE UNCHANGED <<execStatus, status, postings>> /\ GiveBack(w)
  /\ UNCHANGED <<execTx, frozen, chain, faults>>

(***************************************************************************)
(* transaction.execute: recovery of a signed execution.                    *)
(***************************************************************************)
\* broadcastStatus, first read.
Lookup(w) ==
  /\ at[w].pc = "lookup"
  /\ \/ Visible(at[w].tx) /\ Goto(w, "submit")
     \/ (Visible(at[w].tx) => NodeLags) /\ Goto(w, "judge")
  /\ UNCHANGED <<records, frozen, task, chain, faults>>

\* broadcastStatus, second read: resend, or dead.
Judge(w) ==
  /\ at[w].pc = "judge"
  /\ \/ Spent(at[w].tx) /\ Goto(w, "condemn")
     \/ (Spent(at[w].tx) => NodeLags) /\ Goto(w, "broadcast")
  /\ UNCHANGED <<records, frozen, task, chain, faults>>

(***************************************************************************)
(* markFailed, from either handler.                                        *)
(***************************************************************************)
Closed(i) == status[i] \in {"finalized", "reconciled", "failed"}

NoReversal(i) == {}
ReversalAlways(i) == {<<execTx[i], "reversal">>}
Reversal(i) == IF status[i] = "submitted" THEN {<<execTx[i], "reversal">>} ELSE {}

MarkFailed(w) ==
  LET i == IntentOf(w) IN
  /\ at[w].pc \in {"condemn", "reverse"}
  /\ IF Closed(i)
     THEN UNCHANGED <<status, execStatus, postings>>
     ELSE /\ status' = [status EXCEPT ![i] = "failed"]
          /\ execStatus' = [execStatus EXCEPT ![i] = IF @ = "none" THEN "none" ELSE "failed"]
          /\ postings' = postings \cup Reversal(i) \cup
               (IF at[w].pc = "reverse" THEN {<<at[w].tx, "fee">>} ELSE {})
  /\ Goto(w, IF at[w].pc = "condemn" THEN "executed" ELSE "confirmed")
  /\ UNCHANGED <<execTx, frozen, task, chain, faults>>

(***************************************************************************)
(* transaction.confirm.                                                    *)
(***************************************************************************)
BeginConfirm(w) ==
  LET i == IntentOf(w) IN
  /\ at[w].pc = "begin"
  /\ IF status[i] = "submitted" /\ execStatus[i] = "submitted"
     THEN GotoWith(w, "observe", execTx[i]) /\ UNCHANGED task
     ELSE GiveBack(w)
  /\ UNCHANGED <<records, frozen, chain, faults>>

\* waitForTransaction: unknown, pending and not yet final all wait.
Observe(w) ==
  LET t == at[w].tx IN
  /\ at[w].pc = "observe"
  /\ \/ SucceededFinally(t) /\ Goto(w, "settle") /\ UNCHANGED task
     \/ net[t] = "reverted" /\ Goto(w, "reverse") /\ UNCHANGED task
     \/ (Mined(t) => (NodeLags \/ (net[t] = "landed" /\ ~SucceededFinally(t)))) /\ Defer(w)
  /\ UNCHANGED <<records, frozen, chain, faults>>

\* markFinalized: reconciled when the destination is seen to have received the
\* amount; a break, or a receipt that cannot tell, leaves it finalized.
MarkFinalized(w) ==
  LET i == IntentOf(w) IN
  /\ at[w].pc = "settle"
  /\ execStatus' = [execStatus EXCEPT ![i] = IF @ = "submitted" THEN "finalized" ELSE @]
  /\ IF status[i] = "submitted"
     THEN /\ \E s \in {"finalized", "reconciled"} : status' = [status EXCEPT ![i] = s]
          /\ postings' = postings \cup {<<at[w].tx, "finalized">>, <<at[w].tx, "fee">>}
     ELSE UNCHANGED <<status, postings>>
  /\ Goto(w, "confirmed")
  /\ UNCHANGED <<execTx, frozen, task, chain, faults>>

(***************************************************************************)
(* The chain, other users of the account, and the organisation.            *)
(***************************************************************************)
Land(t) ==
  /\ net[t] = "pending"
  /\ Family = "evm" => nonce[t] = accountNonce
  /\ Family = "svm" => t \notin expired
  /\ \E s \in {"landed", "reverted"} : net' = [net EXCEPT ![t] = s]
  /\ accountNonce' = IF Family = "evm" THEN accountNonce + 1 ELSE accountNonce
  /\ UNCHANGED <<records, frozen, task, at, owner, nonce, expired, final, faults>>

Finalize(t) ==
  /\ Mined(t)
  /\ t \notin final
  /\ Family = "evm" => \A u \in Tx : Mined(u) /\ nonce[u] < nonce[t] => u \in final
  /\ final' = final \cup {t}
  /\ UNCHANGED <<records, frozen, task, at, net, owner, nonce, accountNonce, expired, faults>>

\* The block of t is replaced; t is back in the mempool and may fare otherwise.
Reorg(t) ==
  /\ Reorgs
  /\ Mined(t)
  /\ t \notin final
  /\ Family = "evm" => nonce[t] + 1 = accountNonce
  /\ Fault
  /\ net' = [net EXCEPT ![t] = "pending"]
  /\ accountNonce' = IF Family = "evm" THEN nonce[t] ELSE accountNonce
  /\ UNCHANGED <<records, frozen, task, at, owner, nonce, expired, final>>

Evict(t) ==
  /\ net[t] = "pending"
  /\ net' = [net EXCEPT ![t] = "held"]
  /\ UNCHANGED <<records, frozen, task, at, owner, nonce, accountNonce, expired, final, faults>>

Expire(t) ==
  /\ Family = "svm"
  /\ net[t] # "blank"
  /\ t \notin expired
  /\ expired' = expired \cup {t}
  /\ UNCHANGED <<records, frozen, task, at, net, owner, nonce, accountNonce, final, faults>>

\* A transaction of the same key that is none of Relay's.
ForeignNonce ==
  /\ Family = "evm"
  /\ accountNonce < MaxNonce
  /\ Fault
  /\ accountNonce' = accountNonce + 1
  /\ UNCHANGED <<records, frozen, task, at, net, owner, nonce, expired, final>>

\* Organisation, treasury, agent or signer is frozen, or released.
Freeze(i) ==
  /\ Freezes
  /\ frozen' = IF i \in frozen THEN frozen \ {i} ELSE frozen \cup {i}
  /\ UNCHANGED <<records, task, at, chain, faults>>

WorkerStep(w) ==
  \/ Complete(w)
  \/ ReadContext(w) \/ Build(w) \/ RecordSimulation(w) \/ Sign(w) \/ MarkSigned(w)
  \/ Broadcast(w) \/ MarkSubmitted(w)
  \/ Lookup(w) \/ Judge(w)
  \/ MarkFailed(w)
  \/ BeginConfirm(w) \/ Observe(w) \/ MarkFinalized(w)

ChainStep(t) == Land(t) \/ Finalize(t) \/ Reorg(t) \/ Evict(t) \/ Expire(t)

Next ==
  \/ \E i \in Intent : Approve(i) \/ Freeze(i)
  \/ \E w \in Worker, e \in Task : Take(w, e)
  \/ \E w \in Worker : WorkerStep(w) \/ HandlerError(w) \/ Crash(w)
  \/ \E t \in Tx : ChainStep(t)
  \/ ForeignNonce

Spec == Init /\ [][Next]_vars

(***************************************************************************)
(* Fairness: a worker's process keeps running its loop and its awaits end; *)
(* the queue hands out the job that has waited longest; a chain includes   *)
(* what it can and finalizes what it included; a node asked again and      *)
(* again does not deny for ever what the chain has.                        *)
(***************************************************************************)
TruthfulAnswer(w) ==
  \/ Lookup(w) /\ at'[w].pc = "submit"
  \/ Judge(w) /\ at'[w].pc = "condemn"
  \/ Observe(w) /\ at'[w].pc \in {"settle", "reverse"}

Fairness ==
  /\ \A w \in Worker : WF_vars(WorkerStep(w)) /\ SF_vars(TruthfulAnswer(w))
  /\ \A e \in Task : SF_vars(\E w \in Worker : Take(w, e))
  /\ \A t \in Tx : WF_vars(Land(t)) /\ WF_vars(Finalize(t)) /\ WF_vars(Expire(t))

FairSpec == Spec /\ Fairness

(***************************************************************************)
(* Properties.                                                             *)
(***************************************************************************)
Paid(i) == {t \in Tx : owner[t] = i /\ net[t] = "landed"}

\* "A payment moves money at most once": through crashes, retries, reorgs,
\* frozen gates, lagging nodes and nonces taken by others, no two transactions
\* of an intent are on the chain (execute, markSigned, broadcastStatus).
AtMostOnce ==
  \A i \in Intent : \A t1, t2 \in Paid(i) : t1 = t2

\* "Persists the signed bytes and their hash before anything reaches the
\* network": whatever the network ever had of an intent is what its execution
\* row names, so that a restarted worker can ask for it (markSigned).
PersistedBeforeBroadcast ==
  \A t \in Tx : net[t] \in {"pending", "landed", "reverted"} => execTx[owner[t]] = t

\* An intent recorded as failed has not moved money, and nothing of it is left
\* on the network that still could (markFailed's three callers).
FailedMeansUnpaid ==
  \A t \in Tx : owner[t] \in Intent /\ status[owner[t]] = "failed" =>
    /\ net[t] # "landed"
    /\ net[t] = "pending" => Spent(t)

\* An intent is finalized or reconciled only on a success that cannot be
\* undone (waitForTransaction, markFinalized).
SettledIsFinal ==
  \A i \in Intent : status[i] \in {"finalized", "reconciled"} =>
    execTx[i] \in Tx /\ net[execTx[i]] = "landed" /\ execTx[i] \in final

\* pending_outbound nets to zero except while an intent is submitted: each
\* submission is booked once and released once, by settlement or by reversal.
PendingMatchesStatus ==
  \A i \in Intent : execTx[i] \in Tx =>
    LET booked(kind) == <<execTx[i], kind>> \in postings IN
    /\ (booked("submitted") /\ ~booked("reversal") /\ ~booked("finalized")) <=> status[i] = "submitted"
    /\ ~(booked("reversal") /\ booked("finalized"))
    /\ (booked("reversal") \/ booked("finalized")) => booked("submitted")

\* What an approved payment comes to: closed; or its job dead-lettered; or
\* submitted with a transaction that can never land, which confirm awaits for ever.
Stranded(i) ==
  \/ status[i] \in {"approved", "executing"} /\ task[<<"execute", i>>] = "dead"
  \/ status[i] = "submitted" /\ task[<<"confirm", i>>] = "dead"
  \/ status[i] = "submitted" /\ ~Mined(execTx[i]) /\ (net[execTx[i]] = "held" \/ Spent(execTx[i]))

ApprovedEnds == \A i \in Intent : status[i] = "approved" ~> (Closed(i) \/ Stranded(i))

(***************************************************************************)
(* Refinement.                                                             *)
(***************************************************************************)
RecordOf(i) ==
  CASE status[i] = "requested" -> "requested"
    [] status[i] \in {"approved", "executing"} -> "owed"
    [] status[i] = "submitted" -> "submitted"
    [] status[i] \in {"finalized", "reconciled"} -> "settled"
    [] status[i] = "failed" -> "failed"

Promise == INSTANCE Payment WITH
  record <- [i \in Intent |-> RecordOf(i)],
  moved <- [i \in Intent |-> Paid(i)]

Queue == INSTANCE TaskPool WITH
  Exclusive <- IF LeaseOutlastsHandler THEN Task ELSE {},
  task <- [e \in Task |-> IF task[e] = "dead" THEN "closed" ELSE task[e]],
  holders <- [e \in Task |-> {w \in Worker : at[w].task = e}]

\* Workers, signatures, nonces and blocks implement the promise of Payment.
ImplementsPayment == Promise!Spec

\* The handlers use the job queue only as TaskPool, which JobQueue implements,
\* allows: a job is posted once, by the transaction that needs it, and a closed
\* one is never run again.  What the queue may do to a job until then, they bear:
\* it is handed out again after errors, crashes and successes that went unanswered.
UsesTaskPool == Queue!Spec
=============================================================================
