----------------------- MODULE PaymentExecution_proofs -----------------------
(***************************************************************************)
(* Proofs about PaymentExecution, for any intents, workers, transactions   *)
(* and bounds.                                                             *)
(***************************************************************************)
EXTENDS PaymentExecution, TLAPS

(***************************************************************************)
(* Type correctness.  TypeOK is not inductive: what a worker writes into   *)
(* the tables comes from its job and from the transaction in its hand, so  *)
(* these must fit its program counter; and a hash read from an execution   *)
(* row is one only after markSigned.                                       *)
(***************************************************************************)
JobFitsPc ==
  \A w \in Worker :
    /\ at[w].pc \in ExecutePc => at[w].task \in Task /\ at[w].task[1] = "execute"
    /\ at[w].pc \in ConfirmPc => at[w].task \in Task /\ at[w].task[1] = "confirm"

HasTxPc == {"persist", "broadcast", "submit", "lookup", "judge", "observe", "settle", "reverse"}

TxFitsPc == \A w \in Worker : at[w].pc \in HasTxPc => at[w].tx \in Tx

SignedHasTx ==
  \A i \in Intent :
    (execStatus[i] \in {"signed", "submitted", "finalized"} \/ status[i] = "submitted")
      => execTx[i] \in Tx

\* The part of TypeInv about workers, and the part about everything else.
WorkersOK == at \in [Worker -> WorkerState] /\ JobFitsPc /\ TxFitsPc

TablesOK ==
  /\ status \in [Intent -> IntentStatus]
  /\ execStatus \in [Intent -> ExecStatus]
  /\ execTx \in [Intent -> Tx \cup {NoTx}]
  /\ postings \subseteq Tx \X {"submitted", "reversal", "finalized", "fee"}
  /\ frozen \subseteq Intent
  /\ task \in [Task -> {"absent", "open", "closed", "dead"}]
  /\ SignedHasTx

ChainOK ==
  /\ net \in [Tx -> {"blank", "held", "pending", "landed", "reverted"}]
  /\ owner \in [Tx -> Intent \cup {NoIntent}]
  /\ nonce \in [Tx -> 0..MaxNonce]
  /\ accountNonce \in Nat
  /\ expired \subseteq Tx
  /\ final \subseteq Tx
  /\ faults \in 0..MaxFaults

TypeInv == WorkersOK /\ TablesOK /\ ChainOK

\* The inductive type invariant contains TypeOK.
LEMMA TypeInvType == TypeInv => TypeOK
BY DEF TypeInv, WorkersOK, TablesOK, ChainOK, TypeOK

\* A task is a kind of job and an intent.
LEMMA TaskShape ==
  /\ \A e \in Task : e[1] \in {"execute", "confirm"} /\ e[2] \in Intent /\ e = <<e[1], e[2]>>
  /\ \A k \in {"execute", "confirm"}, i \in Intent :
       /\ <<k, i>> \in Task
       /\ <<k, i>>[1] = k
       /\ <<k, i>>[2] = i
BY DEF Task

(***************************************************************************)
(* What a step does to the worker that takes it, and to the others.        *)
(***************************************************************************)
Pc == {"idle"} \cup ExecutePc \cup ConfirmPc

\* A worker that moves on keeps its job and its transaction.
LEMMA GotoEffect ==
  ASSUME NEW w \in Worker, NEW pc \in Pc, at \in [Worker -> WorkerState], Goto(w, pc)
  PROVE  /\ at' \in [Worker -> WorkerState]
         /\ at'[w].pc = pc /\ at'[w].task = at[w].task /\ at'[w].tx = at[w].tx
         /\ \A v \in Worker : v # w => at'[v] = at[v]
BY DEF Goto, WorkerState, Pc

\* A worker that takes a transaction in hand keeps its job.
LEMMA GotoWithEffect ==
  ASSUME NEW w \in Worker, NEW pc \in Pc, NEW t \in Tx \cup {NoTx},
         at \in [Worker -> WorkerState], GotoWith(w, pc, t)
  PROVE  /\ at' \in [Worker -> WorkerState]
         /\ at'[w].pc = pc /\ at'[w].task = at[w].task /\ at'[w].tx = t
         /\ \A v \in Worker : v # w => at'[v] = at[v]
BY DEF GotoWith, WorkerState, Pc

\* A worker that lets go has neither job nor transaction.
LEMMA IdleEffect ==
  ASSUME NEW w \in Worker, at \in [Worker -> WorkerState], at' = [at EXCEPT ![w] = Idle]
  PROVE  /\ at' \in [Worker -> WorkerState]
         /\ at'[w].pc = "idle" /\ at'[w].task = NoTask /\ at'[w].tx = NoTx
         /\ \A v \in Worker : v # w => at'[v] = at[v]
BY DEF Idle, WorkerState

\* A worker that takes a job starts its handler with nothing in hand.
LEMMA TakeEffect ==
  ASSUME NEW w \in Worker, NEW e \in Task, at \in [Worker -> WorkerState], Take(w, e)
  PROVE  /\ at' \in [Worker -> WorkerState]
         /\ at'[w].pc = (IF e[1] = "execute" THEN "context" ELSE "begin")
         /\ at'[w].task = e /\ at'[w].tx = NoTx
         /\ \A v \in Worker : v # w => at'[v] = at[v]
BY DEF Take, WorkerState, ExecutePc, ConfirmPc

\* A job given back is open or dead, and its worker idle.
LEMMA GiveBackEffect ==
  ASSUME NEW w \in Worker, TablesOK, at \in [Worker -> WorkerState], GiveBack(w)
  PROVE  /\ task' \in [Task -> {"absent", "open", "closed", "dead"}]
         /\ at' = [at EXCEPT ![w] = Idle]
BY DEF GiveBack, TablesOK

\* If the worker that moves is well typed, all of them are.
LEMMA MovedWorkerOK ==
  ASSUME NEW w \in Worker, WorkersOK, at' \in [Worker -> WorkerState],
         \A v \in Worker : v # w => at'[v] = at[v],
         at'[w].pc \in ExecutePc => at'[w].task \in Task /\ at'[w].task[1] = "execute",
         at'[w].pc \in ConfirmPc => at'[w].task \in Task /\ at'[w].task[1] = "confirm",
         at'[w].pc \in HasTxPc => at'[w].tx \in Tx
  PROVE  WorkersOK'
BY DEF WorkersOK, JobFitsPc, TxFitsPc

\* Letting go keeps the workers well typed.
LEMMA IdleWorkerOK ==
  ASSUME NEW w \in Worker, WorkersOK, at' = [at EXCEPT ![w] = Idle]
  PROVE  WorkersOK'
<1>1. at \in [Worker -> WorkerState]
  BY DEF WorkersOK
<1>2. "idle" \notin ExecutePc \cup ConfirmPc \cup HasTxPc
  BY DEF ExecutePc, ConfirmPc, HasTxPc
<1> QED
  BY <1>1, <1>2, IdleEffect, MovedWorkerOK

\* Moving on within the same handler.
LEMMA GotoWorkerOK ==
  ASSUME NEW w \in Worker, NEW pc \in Pc, WorkersOK, Goto(w, pc),
         \/ at[w].pc \in ExecutePc /\ pc \in ExecutePc
         \/ at[w].pc \in ConfirmPc /\ pc \in ConfirmPc,
         at[w].pc \in HasTxPc \/ pc \notin HasTxPc
  PROVE  WorkersOK'
<1>1. at \in [Worker -> WorkerState]
  BY DEF WorkersOK
<1>2. ExecutePc \cap ConfirmPc = {}
  BY DEF ExecutePc, ConfirmPc
<1> QED
  BY <1>1, <1>2, GotoEffect, MovedWorkerOK DEF WorkersOK, JobFitsPc, TxFitsPc

\* Taking a transaction in hand within the same handler.
LEMMA GotoWithWorkerOK ==
  ASSUME NEW w \in Worker, NEW pc \in Pc, NEW t \in Tx \cup {NoTx}, WorkersOK, GotoWith(w, pc, t),
         \/ at[w].pc \in ExecutePc /\ pc \in ExecutePc
         \/ at[w].pc \in ConfirmPc /\ pc \in ConfirmPc,
         t \in Tx \/ pc \notin HasTxPc
  PROVE  WorkersOK'
<1>1. at \in [Worker -> WorkerState]
  BY DEF WorkersOK
<1>2. ExecutePc \cap ConfirmPc = {}
  BY DEF ExecutePc, ConfirmPc
<1> QED
  BY <1>1, <1>2, GotoWithEffect, MovedWorkerOK DEF WorkersOK, JobFitsPc

\* A step that moves no worker keeps them well typed.
LEMMA WorkersStutter == WorkersOK /\ UNCHANGED at => WorkersOK'
BY DEF WorkersOK, JobFitsPc, TxFitsPc

\* A step that changes no table keeps the tables well typed.
LEMMA TablesStutter == TablesOK /\ UNCHANGED <<records, frozen, task>> => TablesOK'
BY DEF TablesOK, SignedHasTx, records

\* A step that changes nothing of the chain keeps it well typed.
LEMMA ChainStutter == ChainOK /\ UNCHANGED <<chain, faults>> => ChainOK'
BY DEF ChainOK, chain

\* The count of faults stays within its bound.
LEMMA FaultOK == ChainOK /\ UNCHANGED chain /\ Fault => ChainOK'
BY PaymentAssumption DEF ChainOK, chain, Fault

\* The intent and the transaction a worker works on.
LEMMA InHand ==
  ASSUME WorkersOK, NEW w \in Worker
  PROVE  /\ at[w].pc \in ExecutePc => IntentOf(w) \in Intent /\ at[w].task = <<"execute", IntentOf(w)>>
         /\ at[w].pc \in ConfirmPc => IntentOf(w) \in Intent /\ at[w].task = <<"confirm", IntentOf(w)>>
         /\ at[w].pc \in HasTxPc => at[w].tx \in Tx
BY TaskShape DEF WorkersOK, JobFitsPc, TxFitsPc, IntentOf

\* The first state is well typed.
LEMMA TypeInit == Init => TypeInv
<1> SUFFICES ASSUME Init PROVE TypeInv
  OBVIOUS
<1>1. WorkersOK
  BY DEF Init, Idle, WorkersOK, WorkerState, JobFitsPc, TxFitsPc, ExecutePc, ConfirmPc, HasTxPc
<1>2. TablesOK
  BY DEF Init, TablesOK, SignedHasTx, IntentStatus, ExecStatus
<1>3. ChainOK
  BY PaymentAssumption DEF Init, ChainOK
<1> QED
  BY <1>1, <1>2, <1>3 DEF TypeInv

\* Every step keeps workers, tables and chain well typed.
LEMMA TypeStep == TypeInv /\ [Next]_vars => TypeInv'
<1> SUFFICES ASSUME TypeInv, [Next]_vars PROVE TypeInv'
  OBVIOUS
<1> USE DEF TypeInv
<1>1. ASSUME NEW i \in Intent, Approve(i) PROVE TypeInv'
  <2>1. WorkersOK'
    BY <1>1, WorkersStutter DEF Approve
  <2>2. TablesOK'
    BY <1>1, TaskShape DEF Approve, TablesOK, SignedHasTx, IntentStatus
  <2>3. ChainOK'
    BY <1>1, ChainStutter DEF Approve
  <2> QED
    BY <2>1, <2>2, <2>3
<1>2. ASSUME NEW i \in Intent, Freeze(i) PROVE TypeInv'
  <2>1. WorkersOK'
    BY <1>2, WorkersStutter DEF Freeze
  <2>2. TablesOK'
    BY <1>2 DEF Freeze, TablesOK, SignedHasTx, records
  <2>3. ChainOK'
    BY <1>2, ChainStutter DEF Freeze
  <2> QED
    BY <2>1, <2>2, <2>3
<1>3. ASSUME NEW w \in Worker, NEW e \in Task, Take(w, e) PROVE TypeInv'
  <2>1. WorkersOK'
    BY <1>3, TakeEffect, TaskShape, MovedWorkerOK DEF WorkersOK, ExecutePc, ConfirmPc, HasTxPc
  <2>2. TablesOK'
    BY <1>3, TablesStutter DEF Take
  <2>3. ChainOK'
    BY <1>3, ChainStutter DEF Take
  <2> QED
    BY <2>1, <2>2, <2>3
<1>4. ASSUME NEW w \in Worker, Complete(w) PROVE TypeInv'
  <2>1. WorkersOK'
    BY <1>4, IdleWorkerOK DEF Complete
  <2>2. TablesOK'
    BY <1>4 DEF Complete, TablesOK, SignedHasTx, records
  <2>3. ChainOK'
    BY <1>4, ChainStutter DEF Complete
  <2> QED
    BY <2>1, <2>2, <2>3
<1>5. ASSUME NEW w \in Worker, HandlerError(w) PROVE TypeInv'
  <2>1. WorkersOK'
    BY <1>5, IdleWorkerOK DEF HandlerError, GiveBack, Defer
  <2>2. TablesOK'
    BY <1>5, GiveBackEffect DEF HandlerError, Defer, TablesOK, WorkersOK, SignedHasTx, records
  <2>3. ChainOK'
    BY <1>5, FaultOK DEF HandlerError
  <2> QED
    BY <2>1, <2>2, <2>3
<1>6. ASSUME NEW w \in Worker, Crash(w) PROVE TypeInv'
  <2>1. WorkersOK'
    BY <1>6, IdleWorkerOK DEF Crash
  <2>2. TablesOK'
    BY <1>6, TablesStutter DEF Crash
  <2>3. ChainOK'
    BY <1>6, FaultOK DEF Crash
  <2> QED
    BY <2>1, <2>2, <2>3
<1>7. ASSUME NEW w \in Worker, ReadContext(w) PROVE TypeInv'
  <2>1. WorkersOK'
    BY <1>7, InHand, IdleWorkerOK, GotoWorkerOK, GotoWithWorkerOK DEF ReadContext, GiveBack,
      ResumeAt, TablesOK, SignedHasTx, Pc, ExecutePc, ConfirmPc, HasTxPc
  <2>2. TablesOK'
    BY <1>7, GiveBackEffect DEF ReadContext, TablesOK, WorkersOK, SignedHasTx, records
  <2>3. ChainOK'
    BY <1>7, ChainStutter DEF ReadContext
  <2> QED
    BY <2>1, <2>2, <2>3
<1>8. ASSUME NEW w \in Worker, Build(w) PROVE TypeInv'
  <2>1. WorkersOK'
    BY <1>8, GotoWorkerOK DEF Build, Pc, ExecutePc, ConfirmPc, HasTxPc
  <2>2. TablesOK'
    BY <1>8, TablesStutter DEF Build
  <2>3. ChainOK'
    BY <1>8, ChainStutter DEF Build
  <2> QED
    BY <2>1, <2>2, <2>3
<1>9. ASSUME NEW w \in Worker, RecordSimulation(w) PROVE TypeInv'
  <2>1. WorkersOK'
    BY <1>9, GotoWorkerOK DEF RecordSimulation, Pc, ExecutePc, ConfirmPc, HasTxPc
  <2>2. TablesOK'
    BY <1>9 DEF RecordSimulation, TablesOK, SignedHasTx, IntentStatus, ExecStatus
  <2>3. ChainOK'
    BY <1>9, ChainStutter DEF RecordSimulation
  <2> QED
    BY <2>1, <2>2, <2>3
<1>10. ASSUME NEW w \in Worker, Sign(w) PROVE TypeInv'
  <2>1. WorkersOK'
    BY <1>10, GotoWithWorkerOK DEF Sign, SignAs, Pc, ExecutePc, ConfirmPc, HasTxPc
  <2>2. TablesOK'
    BY <1>10, TablesStutter DEF Sign, SignAs
  <2>3. ChainOK'
    BY <1>10, InHand DEF Sign, SignAs, ChainOK, ExecutePc
  <2> QED
    BY <2>1, <2>2, <2>3
<1>11. ASSUME NEW w \in Worker, MarkSigned(w) PROVE TypeInv'
  <2>1. WorkersOK'
    BY <1>11, GotoWorkerOK DEF MarkSigned, Pc, ExecutePc, ConfirmPc, HasTxPc
  <2>2. TablesOK'
    BY <1>11, InHand DEF MarkSigned, TablesOK, SignedHasTx, ExecStatus, HasTxPc
  <2>3. ChainOK'
    BY <1>11, ChainStutter DEF MarkSigned
  <2> QED
    BY <2>1, <2>2, <2>3
<1>12. ASSUME NEW w \in Worker, Broadcast(w) PROVE TypeInv'
  <2>1. WorkersOK'
    BY <1>12, GotoWorkerOK, IdleWorkerOK DEF Broadcast, GiveBack, Pc, ExecutePc, ConfirmPc,
      HasTxPc
  <2>2. TablesOK'
    BY <1>12, GiveBackEffect DEF Broadcast, TablesOK, WorkersOK, SignedHasTx, records
  <2>3. ChainOK'
    BY <1>12, PaymentAssumption DEF Broadcast, ChainOK, Fault
  <2> QED
    BY <2>1, <2>2, <2>3
<1>13. ASSUME NEW w \in Worker, MarkSubmitted(w) PROVE TypeInv'
  <2>1. WorkersOK'
    BY <1>13, GotoWorkerOK, IdleWorkerOK DEF MarkSubmitted, GiveBack, Pc, ExecutePc, ConfirmPc,
      HasTxPc
  <2>2. TablesOK'
    BY <1>13, GiveBackEffect, TaskShape, InHand DEF MarkSubmitted, TablesOK, WorkersOK,
      SignedHasTx, IntentStatus, ExecStatus, ExecutePc
  <2>3. ChainOK'
    BY <1>13, ChainStutter DEF MarkSubmitted
  <2> QED
    BY <2>1, <2>2, <2>3
<1>14. ASSUME NEW w \in Worker, Lookup(w) PROVE TypeInv'
  <2>1. WorkersOK'
    BY <1>14, GotoWorkerOK DEF Lookup, Pc, ExecutePc, ConfirmPc, HasTxPc
  <2>2. TablesOK'
    BY <1>14, TablesStutter DEF Lookup
  <2>3. ChainOK'
    BY <1>14, ChainStutter DEF Lookup
  <2> QED
    BY <2>1, <2>2, <2>3
<1>15. ASSUME NEW w \in Worker, Judge(w) PROVE TypeInv'
  <2>1. WorkersOK'
    BY <1>15, GotoWorkerOK DEF Judge, Pc, ExecutePc, ConfirmPc, HasTxPc
  <2>2. TablesOK'
    BY <1>15, TablesStutter DEF Judge
  <2>3. ChainOK'
    BY <1>15, ChainStutter DEF Judge
  <2> QED
    BY <2>1, <2>2, <2>3
<1>16. ASSUME NEW w \in Worker, MarkFailed(w) PROVE TypeInv'
  <2>1. WorkersOK'
    BY <1>16, GotoWorkerOK DEF MarkFailed, Pc, ExecutePc, ConfirmPc, HasTxPc
  <2>2. TablesOK'
    BY <1>16, InHand DEF MarkFailed, Reversal, Closed, TablesOK, SignedHasTx, IntentStatus,
      ExecStatus, Pc, ExecutePc, ConfirmPc, HasTxPc
  <2>3. ChainOK'
    BY <1>16, ChainStutter DEF MarkFailed
  <2> QED
    BY <2>1, <2>2, <2>3
<1>17. ASSUME NEW w \in Worker, BeginConfirm(w) PROVE TypeInv'
  <2>1. WorkersOK'
    BY <1>17, GotoWithWorkerOK, IdleWorkerOK, InHand DEF BeginConfirm, GiveBack, TablesOK,
      SignedHasTx, Pc, ExecutePc, ConfirmPc, HasTxPc
  <2>2. TablesOK'
    BY <1>17, GiveBackEffect DEF BeginConfirm, TablesOK, WorkersOK, SignedHasTx, records
  <2>3. ChainOK'
    BY <1>17, ChainStutter DEF BeginConfirm
  <2> QED
    BY <2>1, <2>2, <2>3
<1>18. ASSUME NEW w \in Worker, Observe(w) PROVE TypeInv'
  <2>1. WorkersOK'
    BY <1>18, GotoWorkerOK, IdleWorkerOK DEF Observe, Defer, Pc, ExecutePc, ConfirmPc, HasTxPc
  <2>2. TablesOK'
    BY <1>18 DEF Observe, Defer, TablesOK, SignedHasTx, records
  <2>3. ChainOK'
    BY <1>18, ChainStutter DEF Observe
  <2> QED
    BY <2>1, <2>2, <2>3
<1>19. ASSUME NEW w \in Worker, MarkFinalized(w) PROVE TypeInv'
  <2>1. WorkersOK'
    BY <1>19, GotoWorkerOK DEF MarkFinalized, Pc, ExecutePc, ConfirmPc, HasTxPc
  <2>2. TablesOK'
    BY <1>19, InHand DEF MarkFinalized, TablesOK, SignedHasTx, IntentStatus, ExecStatus, Pc,
      ExecutePc, ConfirmPc, HasTxPc
  <2>3. ChainOK'
    BY <1>19, ChainStutter DEF MarkFinalized
  <2> QED
    BY <2>1, <2>2, <2>3
<1>20. ASSUME NEW t \in Tx, ChainStep(t) PROVE TypeInv'
  <2>1. WorkersOK'
    BY <1>20, WorkersStutter DEF ChainStep, Land, Finalize, Reorg, Evict, Expire
  <2>2. TablesOK'
    BY <1>20, TablesStutter DEF ChainStep, Land, Finalize, Reorg, Evict, Expire
  <2>3. ChainOK'
    BY <1>20, PaymentAssumption DEF ChainStep, Land, Finalize, Reorg, Evict, Expire, ChainOK,
      Fault
  <2> QED
    BY <2>1, <2>2, <2>3
<1>21. CASE ForeignNonce
  BY <1>21, WorkersStutter, TablesStutter, PaymentAssumption DEF ForeignNonce, ChainOK, Fault
<1>22. CASE UNCHANGED vars
  BY <1>22, WorkersStutter, TablesStutter, ChainStutter DEF vars
<1> QED
  BY <1>1, <1>2, <1>3, <1>4, <1>5, <1>6, <1>7, <1>8, <1>9, <1>10, <1>11, <1>12, <1>13, <1>14,
    <1>15, <1>16, <1>17, <1>18, <1>19, <1>20, <1>21, <1>22 DEF Next, WorkerStep

\* Every reachable state is well typed, whatever the leases, the gates, the node
\* and the chain do.
THEOREM TypeCorrect == Spec => []TypeOK
<1>1. Init => TypeInv
  BY TypeInit
<1>2. TypeInv /\ [Next]_vars => TypeInv'
  BY TypeStep
<1> QED
  BY <1>1, <1>2, TypeInvType, PTL DEF Spec

(***************************************************************************)
(* At most once.  With leases that outlast the handlers a job has one live *)
(* holder, so between a worker's read of an execution row and its writes   *)
(* nobody else signs for that intent.  SafeInv says what the holder may    *)
(* rely on at each of its awaits; it holds through crashes, handler        *)
(* errors, freezes, reorgs and nodes that lag.                             *)
(***************************************************************************)
OneHolder ==
  \A v, w \in Worker : at[v].pc # "idle" /\ at[v].task = at[w].task => v = w

UnsentPc == {"build", "rebuild", "record", "sign", "persist", "broadcast", "submit",
             "lookup", "judge", "condemn"}
SentPc == {"observe", "settle", "reverse"}

\* The execute job works on intents that are not submitted yet, the confirm job
\* on those that were: the two never change the same row at the same time.
PhaseFits(w) ==
  LET i == IntentOf(w) IN
  /\ at[w].pc \in UnsentPc => status[i] \in {"approved", "executing"}
  /\ at[w].pc \in SentPc => status[i] \in {"submitted", "finalized", "reconciled", "failed"}

\* Before markSigned the row names no transaction; from there on it names the
\* one the worker has in hand.
RowFits(w) ==
  LET i == IntentOf(w) IN
  /\ at[w].pc \in {"build", "record"} => execStatus[i] = "none"
  /\ at[w].pc \in {"rebuild", "sign", "persist"} => execStatus[i] = "simulated"
  /\ at[w].pc = "persist" => owner[at[w].tx] = i /\ net[at[w].tx] = "held"
  /\ at[w].pc \in {"broadcast", "submit", "lookup", "judge"} => execTx[i] = at[w].tx

WorkersFit == \A w \in Worker : PhaseFits(w) /\ RowFits(w)

OnNetwork(t) == net[t] \in {"pending", "landed", "reverted"}

RowsFit ==
  /\ \A i \in Intent : execStatus[i] \in {"none", "simulated"} => execTx[i] = NoTx
  /\ \A i \in Intent : execTx[i] \in Tx => owner[execTx[i]] = i /\ net[execTx[i]] # "blank"
  /\ \A t \in Tx : OnNetwork(t) => owner[t] \in Intent /\ execTx[owner[t]] = t

SafeInv == TypeInv /\ OneHolder /\ WorkersFit /\ RowsFit

\* SafeInv holds of the first state.
LEMMA SafeInit == Init => SafeInv
<1> SUFFICES ASSUME Init PROVE SafeInv
  OBVIOUS
<1>1. TypeInv
  BY TypeInit
<1>2. OneHolder /\ WorkersFit
  BY DEF Init, Idle, OneHolder, WorkersFit, PhaseFits, RowFits, UnsentPc, SentPc
<1>3. RowsFit
  BY PaymentAssumption DEF Init, RowsFit, OnNetwork
<1> QED
  BY <1>1, <1>2, <1>3 DEF SafeInv

\* Two workers in the same kind of handler work on different intents.
LEMMA Apart ==
  ASSUME WorkersOK, OneHolder, NEW v \in Worker, NEW w \in Worker, v # w,
         \/ at[v].pc \in ExecutePc /\ at[w].pc \in ExecutePc
         \/ at[v].pc \in ConfirmPc /\ at[w].pc \in ConfirmPc
  PROVE  IntentOf(v) # IntentOf(w)
<1>1. "idle" \notin ExecutePc \cup ConfirmPc
  BY DEF ExecutePc, ConfirmPc
<1> QED
  BY <1>1, InHand DEF OneHolder

\* A worker that moves on within its handler leaves one holder per job.
LEMMA HolderMoves ==
  ASSUME NEW w \in Worker, OneHolder, \A v \in Worker : v # w => at'[v] = at[v],
         at[w].pc # "idle", at'[w].task = at[w].task
  PROVE  OneHolder'
BY DEF OneHolder

\* A worker that lets go leaves at most one holder per job.
LEMMA HolderLeaves ==
  ASSUME NEW w \in Worker, WorkersOK, OneHolder, at' = [at EXCEPT ![w] = Idle]
  PROVE  OneHolder'
<1>1. /\ at'[w].pc = "idle" /\ at'[w].task = NoTask
      /\ \A v \in Worker : v # w => at'[v] = at[v]
  BY IdleEffect DEF WorkersOK
<1>2. \A v \in Worker : at[v].pc # "idle" => at[v].task # NoTask
  BY TaskAssumption DEF WorkersOK, WorkerState, JobFitsPc
<1> QED
  BY <1>1, <1>2 DEF OneHolder

\* A step that changes neither the tables nor the chain keeps everything, when
\* the worker that takes it arrives where it may be.
LEMMA MoveSafe ==
  ASSUME NEW w \in Worker, SafeInv, UNCHANGED <<records, net, owner>>,
         \A v \in Worker : v # w => at'[v] = at[v],
         PhaseFits(w)', RowFits(w)'
  PROVE  WorkersFit' /\ RowsFit'
BY DEF SafeInv, WorkersFit, PhaseFits, RowFits, RowsFit, OnNetwork, records, IntentOf

\* Letting go keeps what the other workers rely on.
LEMMA LeaveSafe ==
  ASSUME NEW w \in Worker, SafeInv, UNCHANGED <<records, net, owner>>,
         at' = [at EXCEPT ![w] = Idle]
  PROVE  OneHolder' /\ WorkersFit' /\ RowsFit'
<1>1. /\ at'[w].pc = "idle"
      /\ \A v \in Worker : v # w => at'[v] = at[v]
  BY IdleEffect DEF SafeInv, TypeInv, WorkersOK
<1>2. PhaseFits(w)' /\ RowFits(w)'
  BY <1>1 DEF PhaseFits, RowFits, UnsentPc, SentPc
<1> QED
  BY <1>1, <1>2, MoveSafe, HolderLeaves DEF SafeInv, TypeInv

\* A step that only moves one worker keeps SafeInv if it arrives fit.
LEMMA GotoSafe ==
  ASSUME NEW w \in Worker, NEW pc \in Pc, SafeInv, UNCHANGED <<records, net, owner>>,
         Goto(w, pc), at[w].pc # "idle",
         pc \in UnsentPc => at[w].pc \in UnsentPc \/ status[IntentOf(w)] \in {"approved", "executing"},
         pc \in SentPc => at[w].pc \in SentPc,
         pc = "record" => at[w].pc = "build",
         pc = "sign" => at[w].pc = "rebuild",
         pc \in {"submit", "judge", "broadcast"} => at[w].pc \in {"broadcast", "lookup", "judge"},
         pc \notin {"build", "rebuild", "persist", "lookup"}
  PROVE  OneHolder' /\ WorkersFit' /\ RowsFit'
<1>1. /\ at'[w].pc = pc /\ at'[w].task = at[w].task /\ at'[w].tx = at[w].tx
      /\ \A v \in Worker : v # w => at'[v] = at[v]
  BY GotoEffect DEF SafeInv, TypeInv, WorkersOK
<1>2. PhaseFits(w)' /\ RowFits(w)'
  BY <1>1 DEF SafeInv, WorkersFit, PhaseFits, RowFits, IntentOf, records
<1> QED
  BY <1>1, <1>2, MoveSafe, HolderMoves DEF SafeInv

\* A worker that does not move still fits, when the rows of the intent it works
\* on and the transaction it is about to persist are left alone.
LEMMA OtherFits ==
  ASSUME NEW v \in Worker, WorkersFit, at'[v] = at[v],
         at[v].pc \in UnsentPc =>
           /\ status'[IntentOf(v)] \in {"approved", "executing"}
           /\ execStatus'[IntentOf(v)] = execStatus[IntentOf(v)]
           /\ execTx'[IntentOf(v)] = execTx[IntentOf(v)],
         at[v].pc \in SentPc => status'[IntentOf(v)] \in {"submitted", "finalized", "reconciled", "failed"},
         at[v].pc = "persist" =>
           owner'[at[v].tx] = owner[at[v].tx] /\ net'[at[v].tx] = net[at[v].tx]
  PROVE  PhaseFits(v)' /\ RowFits(v)'
BY DEF WorkersFit, PhaseFits, RowFits, IntentOf, UnsentPc, SentPc

\* What SafeInv says of the worker that takes the step.
LEMMA FitsNow ==
  ASSUME SafeInv, NEW v \in Worker
  PROVE  /\ at[v].pc \in UnsentPc =>
              IntentOf(v) \in Intent /\ status[IntentOf(v)] \in {"approved", "executing"}
         /\ at[v].pc \in SentPc =>
              /\ IntentOf(v) \in Intent
              /\ status[IntentOf(v)] \in {"submitted", "finalized", "reconciled", "failed"}
         /\ at[v].pc = "persist" => at[v].tx \in Tx /\ net[at[v].tx] = "held"
<1>1. WorkersOK
  BY DEF SafeInv, TypeInv
<1> QED
  BY <1>1, InHand DEF SafeInv, WorkersFit, PhaseFits, RowFits, UnsentPc, SentPc, ExecutePc, ConfirmPc, HasTxPc

\* Every step keeps SafeInv, if leases outlast handlers.
LEMMA SafeStep ==
  ASSUME LeaseOutlastsHandler
  PROVE  SafeInv /\ [Next]_vars => SafeInv'
<1> SUFFICES ASSUME SafeInv, [Next]_vars PROVE SafeInv'
  OBVIOUS
<1> DEFINE Core == OneHolder /\ WorkersFit /\ RowsFit
<1>type. TypeInv /\ TypeInv' /\ WorkersOK /\ WorkersOK' /\ at \in [Worker -> WorkerState]
  BY TypeStep DEF SafeInv, TypeInv, WorkersOK
<1>idle. "idle" \notin ExecutePc \cup ConfirmPc
  BY DEF ExecutePc, ConfirmPc
<1>1. ASSUME NEW i \in Intent, Approve(i) PROVE Core'
  BY <1>1, <1>type DEF Approve, SafeInv, OneHolder, WorkersFit, PhaseFits, RowFits, RowsFit,
    OnNetwork, IntentOf, chain, TypeInv, TablesOK
<1>2. ASSUME NEW i \in Intent, Freeze(i) PROVE Core'
  BY <1>2 DEF Freeze, SafeInv, OneHolder, WorkersFit, PhaseFits, RowFits, RowsFit,
    OnNetwork, IntentOf, chain, records
<1>3. ASSUME NEW w \in Worker, NEW e \in Task, Take(w, e) PROVE Core'
  <2>1. /\ at'[w].pc \in {"context", "begin"} /\ at'[w].task = e
        /\ \A v \in Worker : v # w => at'[v] = at[v]
    BY <1>3, <1>type, TakeEffect
  <2>2. PhaseFits(w)' /\ RowFits(w)'
    BY <2>1 DEF PhaseFits, RowFits, UnsentPc, SentPc
  <2>3. OneHolder'
    BY <1>3, <2>1 DEF Take, Free, Holds, OneHolder, SafeInv
  <2> QED
    BY <1>3, <2>1, <2>2, <2>3, MoveSafe DEF Take, chain
<1>4. ASSUME NEW w \in Worker, Complete(w) \/ HandlerError(w) \/ Crash(w) PROVE Core'
  BY <1>4, LeaveSafe DEF Complete, HandlerError, Crash, GiveBack, Defer, chain
<1>5. ASSUME NEW w \in Worker, ReadContext(w) PROVE Core'
  <2>1. CASE GiveBack(w)
    BY <1>5, <2>1, LeaveSafe DEF ReadContext, GiveBack, chain
  <2>2. CASE Goto(w, "condemn") /\ status[IntentOf(w)] \in {"approved", "executing"}
    BY <1>5, <2>2, GotoSafe DEF ReadContext, chain, Pc, ExecutePc, SentPc
  <2>3. CASE /\ GotoWith(w, ResumeAt(IntentOf(w)), execTx[IntentOf(w)])
             /\ status[IntentOf(w)] \in {"approved", "executing"}
             /\ execStatus[IntentOf(w)] \in {"none", "simulated", "signed"}
    <3>1. ResumeAt(IntentOf(w)) \in Pc /\ execTx[IntentOf(w)] \in Tx \cup {NoTx}
      BY <1>5, <1>type, <2>3, InHand DEF ReadContext, ResumeAt, Pc, ExecutePc, TypeInv, TablesOK
    <3>2. /\ at'[w].pc = ResumeAt(IntentOf(w)) /\ at'[w].task = at[w].task
          /\ at'[w].tx = execTx[IntentOf(w)]
          /\ \A v \in Worker : v # w => at'[v] = at[v]
      BY <1>type, <2>3, <3>1, GotoWithEffect
    <3>3. PhaseFits(w)' /\ RowFits(w)'
      BY <1>5, <2>3, <3>2 DEF ReadContext, ResumeAt, PhaseFits, RowFits, IntentOf, SentPc, records
    <3> QED
      BY <1>5, <3>2, <3>3, MoveSafe, HolderMoves DEF ReadContext, SafeInv, chain
  <2> QED
    BY <1>5, <2>1, <2>2, <2>3 DEF ReadContext
<1>6. ASSUME NEW w \in Worker, Build(w) PROVE Core'
  BY <1>6, GotoSafe DEF Build, chain, Pc, ExecutePc, UnsentPc, SentPc
<1>7. ASSUME NEW w \in Worker, Lookup(w) \/ Judge(w) PROVE Core'
  BY <1>7, GotoSafe DEF Lookup, Judge, chain, Pc, ExecutePc, UnsentPc, SentPc
<1>8. ASSUME NEW w \in Worker, BeginConfirm(w) PROVE Core'
  <2>1. CASE GiveBack(w)
    BY <1>8, <2>1, LeaveSafe DEF BeginConfirm, GiveBack, chain
  <2>2. CASE GotoWith(w, "observe", execTx[IntentOf(w)]) /\ status[IntentOf(w)] = "submitted"
    <3>1. execTx[IntentOf(w)] \in Tx \cup {NoTx}
      BY <1>8, <1>type, InHand DEF BeginConfirm, ConfirmPc, TypeInv, TablesOK
    <3>2. /\ at'[w].pc = "observe" /\ at'[w].task = at[w].task
          /\ \A v \in Worker : v # w => at'[v] = at[v]
      BY <1>type, <2>2, <3>1, GotoWithEffect DEF Pc, ConfirmPc
    <3>3. PhaseFits(w)' /\ RowFits(w)'
      BY <1>8, <2>2, <3>2 DEF BeginConfirm, PhaseFits, RowFits, IntentOf, UnsentPc, records
    <3> QED
      BY <1>8, <3>2, <3>3, MoveSafe, HolderMoves DEF BeginConfirm, SafeInv, chain
  <2> QED
    BY <1>8, <2>1, <2>2 DEF BeginConfirm
<1>9. ASSUME NEW w \in Worker, Observe(w) PROVE Core'
  <2>1. CASE Defer(w)
    BY <1>9, <2>1, LeaveSafe DEF Observe, Defer, chain
  <2>2. CASE Goto(w, "settle") \/ Goto(w, "reverse")
    BY <1>9, <2>2, GotoSafe DEF Observe, chain, Pc, ConfirmPc, UnsentPc, SentPc
  <2> QED
    BY <1>9, <2>1, <2>2 DEF Observe
<1>10. ASSUME NEW w \in Worker, RecordSimulation(w) PROVE Core'
  <2>1. /\ at'[w].pc = "sign" /\ at'[w].task = at[w].task /\ at'[w].tx = at[w].tx
        /\ \A v \in Worker : v # w => at'[v] = at[v]
    BY <1>10, <1>type, GotoEffect DEF RecordSimulation, Pc, ExecutePc
  <2>2. IntentOf(w) \in Intent
    BY <1>10, <1>type, InHand DEF RecordSimulation, ExecutePc
  <2>3. \A v \in Worker : v # w /\ at[v].pc \in UnsentPc => IntentOf(v) # IntentOf(w)
    BY <1>10, <1>type, Apart DEF RecordSimulation, SafeInv, ExecutePc, UnsentPc
  <2>4. execStatus[IntentOf(w)] = "none" /\ status[IntentOf(w)] \in {"approved", "executing"}
    BY <1>10 DEF RecordSimulation, SafeInv, WorkersFit, PhaseFits, RowFits, UnsentPc
  <2>5. OneHolder'
    BY <1>10, <2>1, HolderMoves DEF RecordSimulation, SafeInv
  <2>6. PhaseFits(w)' /\ RowFits(w)'
    BY <1>10, <1>type, <2>1, <2>2, <2>4 DEF RecordSimulation, PhaseFits, RowFits, IntentOf, SentPc,
      TypeInv, TablesOK
  <2>7. ASSUME NEW v \in Worker, v # w PROVE PhaseFits(v)' /\ RowFits(v)'
    BY <1>10, <1>type, <2>1, <2>2, <2>3, <2>7, OtherFits, FitsNow DEF RecordSimulation, SafeInv,
      chain, TypeInv, TablesOK
  <2>8. RowsFit'
    BY <1>10, <1>type, <2>2, <2>4 DEF RecordSimulation, SafeInv, RowsFit, OnNetwork, chain,
      TypeInv, TablesOK
  <2> QED
    BY <2>5, <2>6, <2>7, <2>8 DEF WorkersFit
<1>11. ASSUME NEW w \in Worker, Sign(w) PROVE Core'
  <2> PICK t \in Tx, n \in 0..MaxNonce :
         /\ net[t] = "blank"
         /\ net' = [net EXCEPT ![t] = "held"]
         /\ owner' = [owner EXCEPT ![t] = IntentOf(w)]
         /\ GotoWith(w, "persist", t)
    BY <1>11 DEF Sign, SignAs
  <2>1. /\ at'[w].pc = "persist" /\ at'[w].task = at[w].task /\ at'[w].tx = t
        /\ \A v \in Worker : v # w => at'[v] = at[v]
    BY <1>type, GotoWithEffect DEF Pc, ExecutePc
  <2>2. OneHolder'
    BY <1>11, <2>1, HolderMoves DEF Sign, SignAs, SafeInv
  <2>3. PhaseFits(w)' /\ RowFits(w)'
    BY <1>11, <1>type, <2>1 DEF Sign, SignAs, SafeInv, WorkersFit, PhaseFits, RowFits, IntentOf,
      UnsentPc, SentPc, records, TypeInv, ChainOK
  <2>4. ASSUME NEW v \in Worker, v # w PROVE PhaseFits(v)' /\ RowFits(v)'
    BY <1>11, <1>type, <2>1, <2>4 DEF Sign, SignAs, SafeInv, WorkersFit, PhaseFits, RowFits, IntentOf,
      records, TypeInv, ChainOK
  <2>5. RowsFit'
    BY <1>11, <1>type DEF Sign, SignAs, SafeInv, RowsFit, OnNetwork, records, TypeInv, ChainOK
  <2> QED
    BY <2>2, <2>3, <2>4, <2>5 DEF WorkersFit
<1>12. ASSUME NEW w \in Worker, MarkSigned(w) PROVE Core'
  <2>1. /\ at'[w].pc = "broadcast" /\ at'[w].task = at[w].task /\ at'[w].tx = at[w].tx
        /\ \A v \in Worker : v # w => at'[v] = at[v]
    BY <1>12, <1>type, GotoEffect DEF MarkSigned, Pc, ExecutePc
  <2>2. IntentOf(w) \in Intent /\ at[w].tx \in Tx
    BY <1>12, <1>type, InHand DEF MarkSigned, ExecutePc, HasTxPc
  <2>3. \A v \in Worker : v # w /\ at[v].pc \in UnsentPc => IntentOf(v) # IntentOf(w)
    BY <1>12, <1>type, Apart DEF MarkSigned, SafeInv, ExecutePc, UnsentPc
  <2>4. /\ execStatus[IntentOf(w)] = "simulated"
        /\ status[IntentOf(w)] \in {"approved", "executing"}
        /\ owner[at[w].tx] = IntentOf(w) /\ net[at[w].tx] = "held"
    BY <1>12 DEF MarkSigned, SafeInv, WorkersFit, PhaseFits, RowFits, UnsentPc
  <2>5. OneHolder'
    BY <1>12, <2>1, HolderMoves DEF MarkSigned, SafeInv
  <2>6. PhaseFits(w)' /\ RowFits(w)'
    BY <1>12, <1>type, <2>1, <2>2, <2>4 DEF MarkSigned, PhaseFits, RowFits, IntentOf, SentPc,
      TypeInv, TablesOK
  <2>7. ASSUME NEW v \in Worker, v # w PROVE PhaseFits(v)' /\ RowFits(v)'
    BY <1>12, <1>type, <2>1, <2>2, <2>3, <2>7, OtherFits, FitsNow DEF MarkSigned, SafeInv,
      chain, TypeInv, TablesOK
  <2>8. RowsFit'
    BY <1>12, <1>type, <2>2, <2>4, PaymentAssumption DEF MarkSigned, SafeInv, RowsFit, OnNetwork,
      chain, TypeInv, TablesOK
  <2> QED
    BY <2>5, <2>6, <2>7, <2>8 DEF WorkersFit
<1>13. ASSUME NEW w \in Worker, Broadcast(w) PROVE Core'
  <2> DEFINE t == at[w].tx
  <2>1. t \in Tx /\ IntentOf(w) \in Intent
    BY <1>13, <1>type, InHand DEF Broadcast, ExecutePc, HasTxPc
  <2>2. execTx[IntentOf(w)] = t /\ owner[t] = IntentOf(w) /\ net[t] # "blank"
    BY <1>13, <2>1 DEF Broadcast, SafeInv, WorkersFit, RowFits, RowsFit
  <2>3. \A v \in Worker : at[v].pc = "persist" => at[v].tx # t
    BY <1>13, <1>type, <2>1, <2>2, InHand, PaymentAssumption
      DEF SafeInv, WorkersFit, RowFits, RowsFit, ExecutePc
  <2>4. ASSUME Goto(w, "submit") \/ at' = [at EXCEPT ![w] = Idle] PROVE OneHolder'
    <3>1. CASE Goto(w, "submit")
      BY <1>13, <1>type, <3>1, GotoEffect, HolderMoves DEF Broadcast, SafeInv, Pc, ExecutePc
    <3>2. CASE at' = [at EXCEPT ![w] = Idle]
      BY <1>type, <3>2, HolderLeaves DEF SafeInv
    <3> QED
      BY <2>4, <3>1, <3>2
  <2>5. ASSUME Goto(w, "submit") \/ at' = [at EXCEPT ![w] = Idle]
        PROVE  /\ \A v \in Worker : v # w => at'[v] = at[v]
               /\ \/ at'[w].pc = "submit" /\ at'[w].task = at[w].task /\ at'[w].tx = t
                  \/ at'[w].pc = "idle"
    BY <1>type, <2>5, GotoEffect, IdleEffect DEF Pc, ExecutePc
  <2>6. Goto(w, "submit") \/ at' = [at EXCEPT ![w] = Idle]
    BY <1>13 DEF Broadcast, GiveBack
  <2>7. net' = [net EXCEPT ![t] = "pending"] \/ net' = net
    BY <1>13 DEF Broadcast
  <2>8. UNCHANGED <<status, execStatus, execTx, owner>>
    BY <1>13 DEF Broadcast, records
  <2>9. PhaseFits(w)' /\ RowFits(w)'
    BY <1>13, <2>2, <2>5, <2>6, <2>8 DEF Broadcast, SafeInv, WorkersFit, PhaseFits, RowFits,
      IntentOf, UnsentPc, SentPc
  <2>10. ASSUME NEW v \in Worker, v # w PROVE PhaseFits(v)' /\ RowFits(v)'
    BY <1>type, <2>1, <2>3, <2>5, <2>6, <2>7, <2>8, <2>10, OtherFits, FitsNow DEF SafeInv,
      TypeInv, ChainOK
  <2>11. RowsFit'
    BY <1>type, <2>1, <2>2, <2>7, <2>8 DEF SafeInv, RowsFit, OnNetwork, TypeInv, ChainOK
  <2> QED
    BY <2>4, <2>6, <2>9, <2>10, <2>11 DEF WorkersFit
<1>14. ASSUME NEW w \in Worker, MarkSubmitted(w) PROVE Core'
  <2>1. CASE GiveBack(w) /\ UNCHANGED <<status, execStatus, postings>>
    BY <1>14, <2>1, LeaveSafe DEF MarkSubmitted, GiveBack, records, chain
  <2>2. CASE /\ status' = [status EXCEPT ![IntentOf(w)] = "submitted"]
             /\ execStatus' = [execStatus EXCEPT ![IntentOf(w)] = "submitted"]
             /\ Goto(w, "executed")
    <3>1. /\ at'[w].pc = "executed" /\ at'[w].task = at[w].task
          /\ \A v \in Worker : v # w => at'[v] = at[v]
      BY <1>type, <2>2, GotoEffect DEF Pc, ExecutePc
    <3>2. \A v \in Worker : v # w /\ at[v].pc \in UnsentPc => IntentOf(v) # IntentOf(w)
      BY <1>14, <1>type, Apart DEF MarkSubmitted, SafeInv, ExecutePc, UnsentPc
    <3>3. OneHolder'
      BY <1>14, <3>1, HolderMoves DEF MarkSubmitted, SafeInv
    <3>4. PhaseFits(w)' /\ RowFits(w)'
      BY <3>1 DEF PhaseFits, RowFits, UnsentPc, SentPc
    <3>5. ASSUME NEW v \in Worker, v # w PROVE PhaseFits(v)' /\ RowFits(v)'
      BY <1>14, <1>type, <2>2, <3>1, <3>2, <3>5, OtherFits, FitsNow DEF MarkSubmitted, SafeInv,
        chain, TypeInv, TablesOK
    <3>6. RowsFit'
      BY <1>14, <1>type, <2>2 DEF MarkSubmitted, SafeInv, RowsFit, OnNetwork, chain, TypeInv, TablesOK
    <3> QED
      BY <3>3, <3>4, <3>5, <3>6 DEF WorkersFit
  <2> QED
    BY <1>14, <2>1, <2>2 DEF MarkSubmitted
<1>15. ASSUME NEW w \in Worker, MarkFailed(w) PROVE Core'
  <2>1. /\ at'[w].pc \in {"executed", "confirmed"} /\ at'[w].task = at[w].task
        /\ \A v \in Worker : v # w => at'[v] = at[v]
    BY <1>15, <1>type, GotoEffect DEF MarkFailed, Pc, ExecutePc, ConfirmPc
  <2>2. \A v \in Worker : v # w /\ at[v].pc \in UnsentPc => IntentOf(v) # IntentOf(w)
    <3>1. CASE at[w].pc = "condemn"
      BY <1>type, <3>1, Apart DEF SafeInv, ExecutePc, UnsentPc
    <3>2. CASE at[w].pc = "reverse"
      BY <3>2 DEF SafeInv, WorkersFit, PhaseFits, SentPc
    <3> QED
      BY <1>15, <3>1, <3>2 DEF MarkFailed
  <2>3. OneHolder'
    BY <1>15, <2>1, HolderMoves DEF MarkFailed, SafeInv
  <2>4. PhaseFits(w)' /\ RowFits(w)'
    BY <2>1 DEF PhaseFits, RowFits, UnsentPc, SentPc
  <2>5. ASSUME NEW v \in Worker, v # w PROVE PhaseFits(v)' /\ RowFits(v)'
    BY <1>15, <1>type, <2>1, <2>2, <2>5, OtherFits, FitsNow DEF MarkFailed, Closed, SafeInv, chain,
      TypeInv, TablesOK
  <2>6. RowsFit'
    BY <1>15, <1>type DEF MarkFailed, SafeInv, RowsFit, OnNetwork, chain, TypeInv, TablesOK
  <2> QED
    BY <2>3, <2>4, <2>5, <2>6 DEF WorkersFit
<1>16. ASSUME NEW w \in Worker, MarkFinalized(w) PROVE Core'
  <2>1. /\ at'[w].pc = "confirmed" /\ at'[w].task = at[w].task
        /\ \A v \in Worker : v # w => at'[v] = at[v]
    BY <1>16, <1>type, GotoEffect DEF MarkFinalized, Pc, ConfirmPc
  <2>2. \A v \in Worker : v # w /\ at[v].pc \in UnsentPc => IntentOf(v) # IntentOf(w)
    BY <1>16 DEF MarkFinalized, SafeInv, WorkersFit, PhaseFits, SentPc
  <2>3. OneHolder'
    BY <1>16, <2>1, HolderMoves DEF MarkFinalized, SafeInv
  <2>4. PhaseFits(w)' /\ RowFits(w)'
    BY <2>1 DEF PhaseFits, RowFits, UnsentPc, SentPc
  <2>5. ASSUME NEW v \in Worker, v # w PROVE PhaseFits(v)' /\ RowFits(v)'
    BY <1>16, <1>type, <2>1, <2>2, <2>5, OtherFits, FitsNow DEF MarkFinalized, Closed, SafeInv, chain,
      TypeInv, TablesOK
  <2>6. RowsFit'
    BY <1>16, <1>type DEF MarkFinalized, SafeInv, RowsFit, OnNetwork, chain, TypeInv, TablesOK
  <2> QED
    BY <2>3, <2>4, <2>5, <2>6 DEF WorkersFit
<1>17. ASSUME NEW t \in Tx, ChainStep(t) PROVE Core'
  <2>1. UNCHANGED <<records, at, owner>>
    BY <1>17 DEF ChainStep, Land, Finalize, Reorg, Evict, Expire
  <2>2. \/ net' = net
        \/ /\ OnNetwork(t)
           /\ \E s \in {"held", "pending", "landed", "reverted"} : net' = [net EXCEPT ![t] = s]
    BY <1>17 DEF ChainStep, Land, Finalize, Reorg, Evict, Expire, Mined, OnNetwork
  <2>3. \A v \in Worker : at[v].pc = "persist" /\ OnNetwork(t) => at[v].tx # t
    BY DEF SafeInv, WorkersFit, RowFits, OnNetwork
  <2>4. OneHolder'
    BY <2>1 DEF SafeInv, OneHolder
  <2>5. WorkersFit'
    BY <1>type, <2>1, <2>2, <2>3, InHand DEF SafeInv, WorkersFit, PhaseFits, RowFits, IntentOf, records,
      TypeInv, ChainOK, HasTxPc
  <2>6. RowsFit'
    BY <1>type, <2>1, <2>2 DEF SafeInv, RowsFit, OnNetwork, records, TypeInv, ChainOK
  <2> QED
    BY <2>4, <2>5, <2>6
<1>18. CASE ForeignNonce \/ UNCHANGED vars
  <2>1. UNCHANGED <<status, execStatus, execTx, at, net, owner>>
    BY <1>18 DEF ForeignNonce, vars, chain, records
  <2>2. OneHolder'
    BY <2>1 DEF SafeInv, OneHolder
  <2>3. WorkersFit'
    BY <2>1 DEF SafeInv, WorkersFit, PhaseFits, RowFits, IntentOf
  <2>4. RowsFit'
    BY <2>1 DEF SafeInv, RowsFit, OnNetwork
  <2> QED
    BY <1>type, <2>2, <2>3, <2>4 DEF SafeInv
<1> QED
  BY <1>type, <1>1, <1>2, <1>3, <1>4, <1>5, <1>6, <1>7, <1>8, <1>9, <1>10, <1>11, <1>12, <1>13,
    <1>14, <1>15, <1>16, <1>17, <1>18 DEF Next, WorkerStep, SafeInv

\* What reached the network is what the execution row names: for any number of
\* workers, intents, crashes and faults, as long as leases outlast handlers.
THEOREM PersistedFirst ==
  ASSUME LeaseOutlastsHandler
  PROVE  Spec => []PersistedBeforeBroadcast
<1>1. Init => SafeInv
  BY SafeInit
<1>2. SafeInv /\ [Next]_vars => SafeInv'
  BY SafeStep
<1>3. SafeInv => PersistedBeforeBroadcast
  BY DEF SafeInv, RowsFit, OnNetwork, PersistedBeforeBroadcast
<1> QED
  BY <1>1, <1>2, <1>3, PTL DEF Spec

\* "A payment moves money at most once": two transactions of one intent on the
\* chain would both be the one its execution row names.
THEOREM PaysAtMostOnce ==
  ASSUME LeaseOutlastsHandler
  PROVE  Spec => []AtMostOnce
<1>1. PersistedBeforeBroadcast => AtMostOnce
  BY DEF PersistedBeforeBroadcast, AtMostOnce, Paid
<1> QED
  BY <1>1, PersistedFirst, PTL

(***************************************************************************)
(* Steps, seen from one worker and from the tables.                        *)
(***************************************************************************)
\* Nobody but itself moves a worker.
LEMMA OwnStep ==
  ASSUME TypeInv, [Next]_vars, NEW w \in Worker, at'[w] # at[w]
  PROVE  \/ \E e \in Task : Take(w, e)
         \/ WorkerStep(w) \/ HandlerError(w) \/ Crash(w)
<1>1. at \in [Worker -> WorkerState]
  BY DEF TypeInv, WorkersOK
<1>2. ASSUME NEW v \in Worker, v # w,
             \/ \E e \in Task : Take(v, e)
             \/ WorkerStep(v) \/ HandlerError(v) \/ Crash(v)
      PROVE  at'[w] = at[w]
  <2> DEFINE Put == \E s : at' = [at EXCEPT ![v] = s]
  <2> DEFINE GoneTo == \E pc : at' = [at EXCEPT ![v].pc = pc]
  <2> DEFINE GoneWith == \E pc, t : at' = [at EXCEPT ![v] = [@ EXCEPT !.pc = pc, !.tx = t]]
  <2>1. Put \/ GoneTo \/ GoneWith
    BY <1>2 DEF Take, WorkerStep, HandlerError, Crash, Complete, ReadContext, Build, RecordSimulation,
      Sign, SignAs, MarkSigned, Broadcast, MarkSubmitted, Lookup, Judge, MarkFailed, BeginConfirm,
      Observe, MarkFinalized, GiveBack, Defer, Goto, GotoWith
  <2>2. Put => at'[w] = at[w]
    BY <1>1, <1>2
  <2>3. GoneTo => at'[w] = at[w]
    BY <1>1, <1>2
  <2>4. GoneWith => at'[w] = at[w]
    BY <1>1, <1>2
  <2> HIDE DEF Put, GoneTo, GoneWith
  <2> QED
    BY <2>1, <2>2, <2>3, <2>4
<1>3. ASSUME at' = at PROVE FALSE
  BY <1>3
<1>4. CASE Next
  BY <1>2, <1>3, <1>4 DEF Next, Approve, Freeze, ChainStep, Land, Finalize, Reorg, Evict, Expire, ForeignNonce
<1>5. CASE UNCHANGED vars
  BY <1>3, <1>5 DEF vars
<1> QED
  BY <1>4, <1>5

\* The steps that write the tables leave the chain alone.
LEMMA RecordsStep ==
  ASSUME [Next]_vars
  PROVE  \/ UNCHANGED records
         \/ /\ UNCHANGED chain
            /\ \/ \E i \in Intent : Approve(i)
               \/ \E w \in Worker : \/ RecordSimulation(w) \/ MarkSigned(w) \/ MarkSubmitted(w)
                                   \/ MarkFailed(w) \/ MarkFinalized(w)
<1>1. ASSUME NEW w \in Worker, WorkerStep(w) \/ HandlerError(w) \/ Crash(w)
      PROVE  \/ UNCHANGED records
             \/ /\ UNCHANGED chain
                /\ \/ RecordSimulation(w) \/ MarkSigned(w) \/ MarkSubmitted(w)
                   \/ MarkFailed(w) \/ MarkFinalized(w)
  BY <1>1 DEF records, chain, WorkerStep, HandlerError, Crash, Complete, ReadContext, Build,
    RecordSimulation, Sign, SignAs, MarkSigned, Broadcast, MarkSubmitted, Lookup, Judge, MarkFailed,
    BeginConfirm, Observe, MarkFinalized
<1>2. ASSUME NEW i \in Intent, Approve(i) \/ Freeze(i) PROVE UNCHANGED records \/ (UNCHANGED chain /\ Approve(i))
  BY <1>2 DEF Approve, Freeze
<1>3. ASSUME NEW t \in Tx, ChainStep(t) PROVE UNCHANGED records
  BY <1>3 DEF ChainStep, Land, Finalize, Reorg, Evict, Expire
<1>4. ASSUME NEW w \in Worker, NEW e \in Task, Take(w, e) PROVE UNCHANGED records
  BY <1>4 DEF Take
<1>5. ForeignNonce \/ UNCHANGED vars => UNCHANGED records
  BY DEF ForeignNonce, vars
<1> QED
  BY <1>1, <1>2, <1>3, <1>4, <1>5 DEF Next

\* Where a worker's own step takes it: at a database or node call it is one of
\* these, or it has let go of its job or just taken one.
LEMMA Arrives ==
  ASSUME TypeInv, [Next]_vars, NEW w \in Worker, at'[w] # at[w]
  PROVE  \/ at'[w].pc \in {"idle", "context", "begin", "executed", "confirmed"}
         \/ /\ at'[w].task = at[w].task
            /\ \/ ReadContext(w) \/ Build(w) \/ RecordSimulation(w) \/ Sign(w) \/ MarkSigned(w)
               \/ Broadcast(w) /\ at'[w].pc = "submit"
               \/ Lookup(w) \/ Judge(w) \/ BeginConfirm(w) \/ Observe(w)
<1>1. at \in [Worker -> WorkerState]
  BY DEF TypeInv, WorkersOK
<1>2. ASSUME NEW pc \in Pc, Goto(w, pc) PROVE at'[w].pc = pc /\ at'[w].task = at[w].task
  BY <1>1, <1>2, GotoEffect
<1>3. ASSUME at' = [at EXCEPT ![w] = Idle] PROVE at'[w].pc = "idle"
  BY <1>1, <1>3, IdleEffect
<1>4. CASE \E e \in Task : Take(w, e)
  BY <1>1, <1>4, TakeEffect
<1>5. CASE Complete(w) \/ HandlerError(w) \/ Crash(w)
  BY <1>3, <1>5 DEF Complete, HandlerError, Crash, GiveBack, Defer
<1>6. CASE ReadContext(w) \/ Sign(w) \/ BeginConfirm(w)
  <2>1. \/ at' = [at EXCEPT ![w] = Idle]
        \/ \E pc \in {"condemn"} : Goto(w, pc)
        \/ \E pc, t : GotoWith(w, pc, t)
    BY <1>6 DEF ReadContext, Sign, SignAs, BeginConfirm, GiveBack
  <2>2. ASSUME NEW pc, NEW t, GotoWith(w, pc, t) PROVE at'[w].task = at[w].task
    BY <1>1, <2>2 DEF GotoWith, WorkerState
  <2> QED
    BY <1>2, <1>3, <1>6, <2>1, <2>2 DEF Pc, ExecutePc
<1>7. CASE Build(w) \/ RecordSimulation(w) \/ MarkSigned(w) \/ Lookup(w) \/ Judge(w)
  <2>1. \E pc \in Pc : Goto(w, pc)
    BY <1>7 DEF Build, RecordSimulation, MarkSigned, Lookup, Judge, Pc, ExecutePc
  <2> QED
    BY <1>2, <1>7, <2>1
<1>8. CASE Broadcast(w)
  <2>1. at' = [at EXCEPT ![w] = Idle] \/ Goto(w, "submit")
    BY <1>8 DEF Broadcast, GiveBack
  <2> QED
    BY <1>2, <1>3, <1>8, <2>1 DEF Pc, ExecutePc
<1>9. CASE MarkSubmitted(w) \/ MarkFailed(w) \/ MarkFinalized(w)
  <2>1. at' = [at EXCEPT ![w] = Idle] \/ Goto(w, "executed") \/ Goto(w, "confirmed")
    BY <1>9 DEF MarkSubmitted, MarkFailed, MarkFinalized, GiveBack
  <2> QED
    BY <1>2, <1>3, <2>1 DEF Pc, ExecutePc, ConfirmPc
<1>10. CASE Observe(w)
  <2>1. at' = [at EXCEPT ![w] = Idle] \/ Goto(w, "settle") \/ Goto(w, "reverse")
    BY <1>10 DEF Observe, Defer
  <2> QED
    BY <1>2, <1>3, <1>10, <2>1 DEF Pc, ConfirmPc
<1> QED
  BY <1>4, <1>5, <1>6, <1>7, <1>8, <1>9, <1>10, OwnStep DEF WorkerStep

\* How a worker comes to wait for a transaction, and to act on what became of it.
LEMMA ArrivesInConfirm ==
  ASSUME TypeInv, [Next]_vars, NEW w \in Worker, at'[w] # at[w], at'[w].pc \in SentPc
  PROVE  /\ UNCHANGED <<records, chain>>
         /\ at'[w].task = at[w].task
         /\ \/ at'[w].pc = "observe" /\ at'[w].tx = execTx[IntentOf(w)]
            \/ /\ at[w].pc = "observe" /\ at'[w].tx = at[w].tx
               /\ at'[w].pc = "settle" => SucceededFinally(at[w].tx)
               /\ at'[w].pc = "reverse" => net[at[w].tx] = "reverted"
<1>1. at \in [Worker -> WorkerState]
  BY DEF TypeInv, WorkersOK
<1>2. ASSUME NEW pc \in Pc, Goto(w, pc) PROVE at'[w].pc = pc /\ at'[w].tx = at[w].tx
  BY <1>1, <1>2, GotoEffect
<1>3. ASSUME NEW pc \in Pc, NEW t \in Tx \cup {NoTx}, GotoWith(w, pc, t) PROVE at'[w].pc = pc /\ at'[w].tx = t
  BY <1>1, <1>3, GotoWithEffect
<1>4. ASSUME at' = [at EXCEPT ![w] = Idle] PROVE at'[w].pc = "idle"
  BY <1>1, <1>4, IdleEffect
<1>5. at'[w].task = at[w].task
  BY Arrives DEF SentPc
<1>6. CASE BeginConfirm(w)
  <2>1. execTx[IntentOf(w)] \in Tx \cup {NoTx}
    BY <1>6, InHand DEF BeginConfirm, TypeInv, TablesOK, ConfirmPc
  <2>2. GotoWith(w, "observe", execTx[IntentOf(w)]) \/ at' = [at EXCEPT ![w] = Idle]
    BY <1>6 DEF BeginConfirm, GiveBack
  <2> QED
    BY <1>3, <1>4, <1>5, <1>6, <2>1, <2>2 DEF BeginConfirm, SentPc, Pc, ConfirmPc
<1>7. CASE Observe(w)
  BY <1>2, <1>4, <1>5, <1>7 DEF Observe, Defer, SentPc, Pc, ConfirmPc
<1>8. CASE Build(w) \/ RecordSimulation(w) \/ MarkSigned(w) \/ Lookup(w) \/ Judge(w)
  <2>1. \E pc \in Pc \ SentPc : Goto(w, pc)
    BY <1>8 DEF Build, RecordSimulation, MarkSigned, Lookup, Judge, Pc, ExecutePc, SentPc
  <2> QED
    BY <1>2, <2>1
<1>9. CASE ReadContext(w)
  <2>1. IntentOf(w) \in Intent /\ execTx[IntentOf(w)] \in Tx \cup {NoTx}
    BY <1>9, InHand DEF ReadContext, TypeInv, TablesOK, ExecutePc
  <2>2. \/ \E pc \in Pc \ SentPc : Goto(w, pc)
        \/ /\ execStatus[IntentOf(w)] \in {"none", "simulated", "signed"}
           /\ GotoWith(w, ResumeAt(IntentOf(w)), execTx[IntentOf(w)])
        \/ at' = [at EXCEPT ![w] = Idle]
    BY <1>9 DEF ReadContext, GiveBack, Pc, ExecutePc, SentPc
  <2> QED
    BY <1>2, <1>3, <1>4, <2>1, <2>2 DEF ResumeAt, Pc, ExecutePc, SentPc
<1>10. CASE Sign(w)
  <2>1. \E t \in Tx : GotoWith(w, "persist", t)
    BY <1>10 DEF Sign, SignAs
  <2> QED
    BY <1>3, <2>1 DEF Pc, ExecutePc, SentPc
<1> QED
  BY <1>6, <1>7, <1>8, <1>9, <1>10, Arrives DEF SentPc

\* How a worker comes to judge a transaction that broadcastStatus did not find, and
\* to give an intent up before it is submitted.
LEMMA ArrivesToGiveUp ==
  ASSUME TypeInv, [Next]_vars, NEW w \in Worker, at'[w] # at[w], at'[w].pc \in {"judge", "condemn"}
  PROVE  /\ UNCHANGED <<records, chain>>
         /\ at'[w].task = at[w].task
         /\ at'[w].pc = "judge" =>
              at[w].pc = "lookup" /\ at'[w].tx = at[w].tx /\ (Visible(at[w].tx) => NodeLags)
         /\ at'[w].pc = "condemn" =>
              \/ /\ at[w].pc = "context"
                 /\ status[IntentOf(w)] \in {"approved", "executing"}
                 /\ \/ status[IntentOf(w)] = "approved"
                    \/ execStatus[IntentOf(w)] = "none"
                    \/ IntentOf(w) \in frozen
              \/ at[w].pc \in {"build", "rebuild"}
              \/ at[w].pc = "judge" /\ Spent(at[w].tx)
<1>1. at \in [Worker -> WorkerState]
  BY DEF TypeInv, WorkersOK
<1>2. ASSUME NEW pc \in Pc, Goto(w, pc) PROVE at'[w].pc = pc /\ at'[w].tx = at[w].tx
  BY <1>1, <1>2, GotoEffect
<1>3. ASSUME NEW pc \in Pc, NEW t \in Tx \cup {NoTx}, GotoWith(w, pc, t) PROVE at'[w].pc = pc
  BY <1>1, <1>3, GotoWithEffect
<1>4. ASSUME at' = [at EXCEPT ![w] = Idle] PROVE at'[w].pc = "idle"
  BY <1>1, <1>4, IdleEffect
<1>5. at'[w].task = at[w].task
  BY Arrives
<1>6. CASE ReadContext(w)
  <2>1. IntentOf(w) \in Intent /\ execTx[IntentOf(w)] \in Tx \cup {NoTx}
    BY <1>6, InHand DEF ReadContext, TypeInv, TablesOK, ExecutePc
  <2>2. CASE Goto(w, "condemn")
    <3>1. at'[w].pc = "condemn"
      BY <1>2, <2>2 DEF Pc, ExecutePc
    <3>2. ~GiveBack(w)
      BY <1>4, <3>1 DEF GiveBack
    <3>3. ~GotoWith(w, ResumeAt(IntentOf(w)), execTx[IntentOf(w)]) \/ execStatus[IntentOf(w)] \notin {"none", "simulated", "signed"}
      BY <1>3, <2>1, <3>1 DEF ResumeAt, Pc, ExecutePc
    <3> QED
      BY <1>5, <1>6, <3>1, <3>2, <3>3 DEF ReadContext
  <2>3. CASE ~Goto(w, "condemn")
    <3>1. /\ execStatus[IntentOf(w)] \in {"none", "simulated", "signed"}
          /\ GotoWith(w, ResumeAt(IntentOf(w)), execTx[IntentOf(w)])
      BY <1>4, <1>6, <2>3 DEF ReadContext, GiveBack
    <3> QED
      BY <1>3, <2>1, <3>1 DEF ResumeAt, Pc, ExecutePc
  <2> QED
    BY <2>2, <2>3
<1>7. CASE Lookup(w)
  BY <1>2, <1>5, <1>7 DEF Lookup, Pc, ExecutePc
<1>8. CASE Judge(w)
  BY <1>2, <1>5, <1>8 DEF Judge, Pc, ExecutePc
<1>9. CASE Build(w)
  BY <1>2, <1>5, <1>9 DEF Build, Pc, ExecutePc
<1>10. CASE RecordSimulation(w) \/ MarkSigned(w)
  BY <1>2, <1>10 DEF RecordSimulation, MarkSigned, Pc, ExecutePc
<1>11. CASE Sign(w)
  BY <1>3, <1>11 DEF Sign, SignAs, Pc, ExecutePc
<1>12. CASE BeginConfirm(w)
  <2>1. execTx[IntentOf(w)] \in Tx \cup {NoTx}
    BY <1>12, InHand DEF BeginConfirm, TypeInv, TablesOK, ConfirmPc
  <2> QED
    BY <1>3, <1>4, <1>12, <2>1 DEF BeginConfirm, GiveBack, Pc, ConfirmPc
<1>13. CASE Observe(w)
  BY <1>2, <1>4, <1>13 DEF Observe, Defer, Pc, ConfirmPc
<1> QED
  BY <1>6, <1>7, <1>8, <1>9, <1>10, <1>11, <1>12, <1>13, Arrives

\* What a step may do to a transaction: sign one that is blank; admit the one in
\* a worker's hand; or, by the chain, whatever may happen to one that is known.
LEMMA NetStep ==
  ASSUME TypeInv, [Next]_vars, NEW t \in Tx
  PROVE  \/ net'[t] = net[t] /\ owner'[t] = owner[t] /\ nonce'[t] = nonce[t]
         \/ net[t] = "blank" /\ net'[t] = "held"
         \/ /\ owner'[t] = owner[t] /\ nonce'[t] = nonce[t]
            /\ \/ /\ net[t] \in {"held", "pending"} /\ net'[t] = "pending" /\ ~Spent(t)
                  /\ \E w \in Worker : Broadcast(w) /\ at[w].tx = t
               \/ net[t] = "pending" /\ net'[t] \in {"landed", "reverted"} /\ Land(t)
               \/ net[t] = "pending" /\ net'[t] = "held"
               \/ Reorgs /\ Mined(t) /\ t \notin final /\ net'[t] = "pending"
<1>1. net \in [Tx -> {"blank", "held", "pending", "landed", "reverted"}]
  BY DEF TypeInv, ChainOK
<1>2. owner \in [Tx -> Intent \cup {NoIntent}] /\ nonce \in [Tx -> 0..MaxNonce]
  BY DEF TypeInv, ChainOK
<1>3. CASE \E w \in Worker : Sign(w)
  <2>1. PICK u \in Tx, n \in 0..MaxNonce : \E i :
          /\ net[u] = "blank"
          /\ net' = [net EXCEPT ![u] = "held"]
          /\ owner' = [owner EXCEPT ![u] = i]
          /\ nonce' = [nonce EXCEPT ![u] = n]
    BY <1>3 DEF Sign, SignAs
  <2> QED
    BY <1>1, <1>2, <2>1
<1>4. CASE \E w \in Worker : Broadcast(w)
  <2>1. PICK w \in Worker : Broadcast(w)
    BY <1>4
  <2>2. at[w].tx \in Tx
    BY <2>1, InHand DEF Broadcast, TypeInv, HasTxPc
  <2>3. \/ net' = net
        \/ /\ net[at[w].tx] \in {"held", "pending"} /\ ~Spent(at[w].tx)
           /\ net' = [net EXCEPT ![at[w].tx] = "pending"]
    BY <2>1 DEF Broadcast
  <2>4. UNCHANGED <<owner, nonce>>
    BY <2>1 DEF Broadcast
  <2> QED
    BY <1>1, <1>2, <2>1, <2>2, <2>3, <2>4
<1>5. CASE \E u \in Tx : ChainStep(u)
  <2>1. PICK u \in Tx : ChainStep(u)
    BY <1>5
  <2>2. UNCHANGED <<owner, nonce>>
    BY <2>1 DEF ChainStep, Land, Finalize, Reorg, Evict, Expire
  <2>3. CASE Land(u)
    BY <1>1, <2>2, <2>3 DEF Land
  <2>4. CASE Reorg(u)
    BY <1>1, <2>2, <2>4 DEF Reorg
  <2>5. CASE Evict(u)
    BY <1>1, <2>2, <2>5 DEF Evict
  <2>6. CASE Finalize(u) \/ Expire(u)
    BY <1>1, <2>2, <2>6 DEF Finalize, Expire
  <2> QED
    BY <2>1, <2>3, <2>4, <2>5, <2>6 DEF ChainStep
<1>6. CASE UNCHANGED <<net, owner, nonce>>
  BY <1>6
<1>7. ASSUME NEW w \in Worker, WorkerStep(w) \/ HandlerError(w) \/ Crash(w), ~Sign(w), ~Broadcast(w)
      PROVE  UNCHANGED <<net, owner, nonce>>
  BY <1>7 DEF chain, WorkerStep, HandlerError, Crash, Complete, ReadContext, Build, RecordSimulation,
    MarkSigned, MarkSubmitted, Lookup, Judge, MarkFailed, BeginConfirm, Observe, MarkFinalized
<1>8. \/ \E i \in Intent : Approve(i) \/ Freeze(i)
      \/ \E w \in Worker, e \in Task : Take(w, e)
      \/ ForeignNonce \/ UNCHANGED vars
      => UNCHANGED <<net, owner, nonce>>
  BY DEF Approve, Freeze, Take, ForeignNonce, vars, chain
<1> QED
  BY <1>3, <1>4, <1>5, <1>6, <1>7, <1>8 DEF Next, WorkerStep

\* A success in a final block stays what it is.
LEMMA FinalStays ==
  ASSUME TypeInv, [Next]_vars, NEW t \in Tx, net[t] = "landed", t \in final
  PROVE  net'[t] = "landed" /\ t \in final'
<1>1. final \subseteq final'
  <2>1. ASSUME NEW w \in Worker, WorkerStep(w) \/ HandlerError(w) \/ Crash(w) PROVE final' = final
    BY <2>1 DEF chain, WorkerStep, HandlerError, Crash, Complete, ReadContext, Build, RecordSimulation, Sign,
      SignAs, MarkSigned, Broadcast, MarkSubmitted, Lookup, Judge, MarkFailed, BeginConfirm, Observe,
      MarkFinalized
  <2>2. ASSUME NEW u \in Tx, ChainStep(u) PROVE final \subseteq final'
    BY <2>2 DEF ChainStep, Land, Finalize, Reorg, Evict, Expire
  <2> QED
    BY <2>1, <2>2 DEF Next, Approve, Freeze, Take, ForeignNonce, vars, chain
<1> QED
  BY <1>1, NetStep DEF Mined

\* Once a row names a transaction, it names it for good, and it stays the intent's.
LEMMA RowStays ==
  ASSUME SafeInv, SafeInv', [Next]_vars, NEW i \in Intent, execTx[i] \in Tx
  PROVE  execTx'[i] = execTx[i] /\ owner'[execTx[i]] = i
<1>1. execTx'[i] = execTx[i]
  <2>1. CASE UNCHANGED records
    BY <2>1 DEF records
  <2>2. CASE \E w \in Worker : MarkSigned(w)
    <3>1. PICK w \in Worker : MarkSigned(w)
      BY <2>2
    <3>2. \/ execTx' = execTx
          \/ /\ execStatus[IntentOf(w)] = "simulated"
             /\ execTx' = [execTx EXCEPT ![IntentOf(w)] = at[w].tx]
      BY <3>1 DEF MarkSigned
    <3>3. execStatus[i] = "simulated" => execTx[i] = NoTx
      BY DEF SafeInv, RowsFit
    <3> QED
      BY <3>2, <3>3, PaymentAssumption DEF SafeInv, TypeInv, TablesOK
  <2> QED
    BY <2>1, <2>2, RecordsStep DEF Approve, RecordSimulation, MarkSubmitted, MarkFailed, MarkFinalized
<1> QED
  BY <1>1 DEF SafeInv, RowsFit

-----------------------------------------------------------------------------
(***************************************************************************)
(* The books, and settlement.  BooksInv says in addition what a confirm    *)
(* job may rely on: the transaction it waits for is still the row's, and   *)
(* when it settles, that one is on the chain for good.                     *)
(***************************************************************************)
Booking == {"submitted", "reversal", "finalized"}
Unsent(i) == status[i] \in {"requested", "approved", "executing"}

\* The transaction a confirm job waits for is the one the row names, and it goes
\* on to settle only when that one is final.
SentFits ==
  \A w \in Worker :
    /\ at[w].pc \in SentPc => at[w].tx = execTx[IntentOf(w)]
    /\ at[w].pc = "settle" => net[at[w].tx] = "landed" /\ at[w].tx \in final

\* What is booked names the transaction of an execution row, and nothing is
\* booked before the intent is submitted.
PostedFits ==
  /\ \A t \in Tx, k \in Booking :
       <<t, k>> \in postings => owner[t] \in Intent /\ execTx[owner[t]] = t
  /\ \A i \in Intent : Unsent(i) => \A k \in Booking : <<execTx[i], k>> \notin postings

BooksInv == SafeInv /\ SentFits /\ SettledIsFinal /\ PostedFits /\ PendingMatchesStatus

\* Nothing is booked at first.
LEMMA BooksInit == Init => BooksInv
<1> SUFFICES ASSUME Init PROVE BooksInv
  OBVIOUS
<1>1. SafeInv
  BY SafeInit
<1>2. SentFits
  BY DEF Init, Idle, SentFits, SentPc
<1>3. SettledIsFinal /\ PostedFits /\ PendingMatchesStatus
  BY DEF Init, SettledIsFinal, PostedFits, PendingMatchesStatus
<1> QED
  BY <1>1, <1>2, <1>3 DEF BooksInv

\* What a confirm job may rely on stays true under everybody's steps.
LEMMA SentStep == BooksInv /\ SafeInv' /\ [Next]_vars => SentFits'
<1> SUFFICES ASSUME BooksInv, SafeInv', [Next]_vars, NEW w \in Worker, at'[w].pc \in SentPc
             PROVE  /\ at'[w].tx = execTx'[IntentOf(w)']
                    /\ at'[w].pc = "settle" => net'[at'[w].tx] = "landed" /\ at'[w].tx \in final'
  BY DEF SentFits, SentPc
<1>1. TypeInv /\ TypeInv' /\ SafeInv
  BY DEF BooksInv, SafeInv
<1>2. CASE at'[w] = at[w]
  <2>1. IntentOf(w) \in Intent /\ at[w].tx \in Tx /\ at[w].tx = execTx[IntentOf(w)] /\ IntentOf(w)' = IntentOf(w)
    BY <1>1, <1>2, InHand DEF BooksInv, SentFits, TypeInv, SentPc, ConfirmPc, HasTxPc, IntentOf
  <2>2. execTx'[IntentOf(w)] = execTx[IntentOf(w)]
    BY <1>1, <2>1, RowStays
  <2> QED
    BY <1>1, <1>2, <2>1, <2>2, FinalStays DEF BooksInv, SentFits
<1>3. CASE at'[w] # at[w]
  <2>1. /\ UNCHANGED <<records, chain>> /\ IntentOf(w)' = IntentOf(w)
        /\ \/ at'[w].pc = "observe" /\ at'[w].tx = execTx[IntentOf(w)]
           \/ /\ at[w].pc = "observe" /\ at'[w].tx = at[w].tx
              /\ at'[w].pc = "settle" => SucceededFinally(at[w].tx)
    BY <1>1, <1>3, ArrivesInConfirm DEF IntentOf
  <2> QED
    BY <2>1 DEF BooksInv, SentFits, SentPc, SucceededFinally, records, chain
<1> QED
  BY <1>2, <1>3

\* The transaction of an intent that a worker closes or submits.
LEMMA RowInHand ==
  ASSUME BooksInv, NEW w \in Worker
  PROVE  /\ at[w].pc \in {"submit", "settle", "reverse"} =>
              IntentOf(w) \in Intent /\ at[w].tx \in Tx /\ execTx[IntentOf(w)] = at[w].tx
         /\ at[w].pc = "submit" => status[IntentOf(w)] \in {"approved", "executing"}
         /\ at[w].pc = "condemn" =>
              IntentOf(w) \in Intent /\ status[IntentOf(w)] \in {"approved", "executing"}
         /\ at[w].pc \in {"settle", "reverse"} =>
              status[IntentOf(w)] \in {"submitted", "finalized", "reconciled", "failed"}
BY InHand DEF BooksInv, SafeInv, TypeInv, WorkersFit, PhaseFits, RowFits, SentFits, ExecutePc, ConfirmPc,
  HasTxPc, UnsentPc, SentPc

\* What is settled stays settled, and only a final success settles.
LEMMA SettledStep == BooksInv /\ SafeInv' /\ [Next]_vars => SettledIsFinal'
<1> SUFFICES ASSUME BooksInv, SafeInv', [Next]_vars, NEW i \in Intent, status'[i] \in {"finalized", "reconciled"}
             PROVE  execTx'[i] \in Tx /\ net'[execTx'[i]] = "landed" /\ execTx'[i] \in final'
  BY DEF SettledIsFinal
<1>1. SafeInv /\ TypeInv /\ status \in [Intent -> IntentStatus]
  BY DEF BooksInv, SafeInv, TypeInv, TablesOK
<1>2. CASE status[i] \in {"finalized", "reconciled"}
  BY <1>1, <1>2, RowStays, FinalStays DEF BooksInv, SettledIsFinal
<1>3. CASE status[i] \notin {"finalized", "reconciled"}
  <2>1. UNCHANGED chain /\ \E w \in Worker : MarkFinalized(w)
    BY <1>1, <1>3, RecordsStep
      DEF records, Approve, RecordSimulation, MarkSigned, MarkSubmitted, MarkFailed
  <2>2. PICK w \in Worker : MarkFinalized(w)
    BY <2>1
  <2>3. i = IntentOf(w) /\ execTx' = execTx
    BY <1>1, <1>3, <2>2 DEF MarkFinalized
  <2> QED
    BY <2>1, <2>2, <2>3, RowInHand DEF MarkFinalized, BooksInv, SentFits, chain
<1> QED
  BY <1>2, <1>3

\* A transaction belongs to one intent's row.
LEMMA OwnRows ==
  ASSUME SafeInv, NEW i \in Intent, NEW j \in Intent, i # j, execTx[i] \in Tx
  PROVE  execTx[j] # execTx[i]
BY DEF SafeInv, RowsFit

\* Booking something new about one intent, in the step that moves its status, is
\* right if it is right for that intent.
LEMMA BooksOne ==
  ASSUME BooksInv, UNCHANGED <<execTx, owner>>, NEW i \in Intent, NEW new \in SUBSET Booking,
         new # {} => execTx[i] \in Tx,
         \A t \in Tx, k \in Booking :
           <<t, k>> \in postings' <=> (<<t, k>> \in postings \/ (t = execTx[i] /\ k \in new)),
         \A j \in Intent : j # i => status'[j] = status[j],
         status'[i] \in {"submitted", "finalized", "reconciled", "failed"},
         LET booked(k) == <<execTx[i], k>> \in postings \/ k \in new IN
           execTx[i] \in Tx =>
             /\ (booked("submitted") /\ ~booked("reversal") /\ ~booked("finalized")) <=> status'[i] = "submitted"
             /\ ~(booked("reversal") /\ booked("finalized"))
             /\ (booked("reversal") \/ booked("finalized")) => booked("submitted"),
         TypeInv'
  PROVE  PostedFits' /\ PendingMatchesStatus'
<1>1. SafeInv /\ TypeInv
  BY DEF BooksInv, SafeInv
<1>2. \A j \in Intent : execTx[j] \in Tx => owner[execTx[j]] = j
  BY <1>1 DEF SafeInv, RowsFit
<1>3. ASSUME NEW j \in Intent, j # i, execTx[j] \in Tx
      PROVE  \A k \in Booking : <<execTx[j], k>> \in postings' <=> <<execTx[j], k>> \in postings
  BY <1>1, <1>3, OwnRows
<1>4. \A k \in Booking : <<NoTx, k>> \notin postings'
  BY PaymentAssumption DEF TypeInv, TablesOK
<1>5. PostedFits'
  <2>1. ASSUME NEW t \in Tx, NEW k \in Booking, <<t, k>> \in postings'
        PROVE  owner[t] \in Intent /\ execTx[owner[t]] = t
    BY <1>2, <2>1 DEF BooksInv, PostedFits
  <2>2. ASSUME NEW j \in Intent, Unsent(j)', NEW k \in Booking
        PROVE  <<execTx[j], k>> \notin postings'
    <3>1. j # i /\ Unsent(j) /\ execTx[j] \in Tx \cup {NoTx}
      BY <1>1, <2>2 DEF Unsent, TypeInv, TablesOK
    <3> QED
      BY <1>3, <1>4, <3>1 DEF BooksInv, PostedFits
  <2> QED
    BY <2>1, <2>2 DEF PostedFits
<1>6. PendingMatchesStatus'
  <2> SUFFICES ASSUME NEW j \in Intent, execTx[j] \in Tx
               PROVE  LET booked(k) == <<execTx[j], k>> \in postings' IN
                        /\ (booked("submitted") /\ ~booked("reversal") /\ ~booked("finalized"))
                             <=> status'[j] = "submitted"
                        /\ ~(booked("reversal") /\ booked("finalized"))
                        /\ (booked("reversal") \/ booked("finalized")) => booked("submitted")
    BY DEF PendingMatchesStatus
  <2>1. CASE j = i
    BY <2>1 DEF Booking
  <2>2. CASE j # i
    BY <1>3, <2>2 DEF BooksInv, PendingMatchesStatus, Booking
  <2> QED
    BY <2>1, <2>2
<1> QED
  BY <1>5, <1>6

\* Submission is booked once and released once, by whichever handler.
LEMMA BookStep == BooksInv /\ SafeInv' /\ [Next]_vars => PostedFits' /\ PendingMatchesStatus'
<1> SUFFICES ASSUME BooksInv, SafeInv', [Next]_vars PROVE PostedFits' /\ PendingMatchesStatus'
  OBVIOUS
<1>1. SafeInv /\ TypeInv /\ TypeInv' /\ status \in [Intent -> IntentStatus] /\ execTx \in [Intent -> Tx \cup {NoTx}]
  BY DEF BooksInv, SafeInv, TypeInv, TablesOK
<1>2. CASE UNCHANGED records
  <2>1. ASSUME NEW t \in Tx, NEW k \in Booking, <<t, k>> \in postings'
        PROVE  owner'[t] \in Intent /\ execTx'[owner'[t]] = t
    BY <1>1, <1>2, <2>1, RowStays DEF BooksInv, PostedFits, records
  <2> QED
    BY <1>2, <2>1 DEF BooksInv, PostedFits, PendingMatchesStatus, Unsent, records
<1>3. ASSUME NEW i \in Intent, Approve(i) PROVE PostedFits' /\ PendingMatchesStatus'
  <2>1. UNCHANGED <<execTx, owner, postings>> /\ status[i] = "requested" /\ status'[i] = "approved"
        /\ \A j \in Intent : j # i => status'[j] = status[j]
    BY <1>1, <1>3 DEF Approve, chain
  <2> QED
    BY <2>1 DEF BooksInv, PostedFits, PendingMatchesStatus, Unsent
<1>4. ASSUME NEW w \in Worker, RecordSimulation(w) PROVE PostedFits' /\ PendingMatchesStatus'
  <2>1. UNCHANGED <<execTx, owner, postings>> /\ IntentOf(w) \in Intent
        /\ status' = [status EXCEPT ![IntentOf(w)] = IF @ = "approved" THEN "executing" ELSE @]
    BY <1>1, <1>4, InHand DEF RecordSimulation, chain, ExecutePc, TypeInv
  <2>2. \A j \in Intent : status'[j] = status[j] \/ (status[j] = "approved" /\ status'[j] = "executing")
    BY <1>1, <2>1
  <2> QED
    BY <2>1, <2>2 DEF BooksInv, PostedFits, PendingMatchesStatus, Unsent
<1>5. ASSUME NEW w \in Worker, MarkSigned(w) PROVE PostedFits' /\ PendingMatchesStatus'
  <2> DEFINE i == IntentOf(w)
             t == at[w].tx
  <2>1. i \in Intent /\ t \in Tx /\ owner[t] = i /\ status[i] \in {"approved", "executing"}
        /\ execStatus[i] = "simulated" /\ execTx[i] = NoTx
    BY <1>1, <1>5, InHand
       DEF MarkSigned, TypeInv, SafeInv, WorkersFit, PhaseFits, RowFits, RowsFit, ExecutePc, HasTxPc, UnsentPc
  <2>2. /\ UNCHANGED <<status, owner, postings>>
        /\ execTx'[i] = t /\ \A j \in Intent : j # i => execTx'[j] = execTx[j]
    BY <1>1, <1>5, <2>1 DEF MarkSigned, chain
  <2>3. \A k \in Booking : <<t, k>> \notin postings
    BY <2>1, PaymentAssumption DEF BooksInv, PostedFits
  <2>4. PostedFits'
    <3>1. ASSUME NEW u \in Tx, NEW k \in Booking, <<u, k>> \in postings
          PROVE  owner[u] \in Intent /\ execTx'[owner[u]] = u
      BY <2>1, <2>2, <3>1, PaymentAssumption DEF BooksInv, PostedFits
    <3>2. ASSUME NEW j \in Intent, Unsent(j), NEW k \in Booking PROVE <<execTx'[j], k>> \notin postings
      BY <2>1, <2>2, <2>3, <3>2 DEF BooksInv, PostedFits
    <3> QED
      BY <2>2, <3>1, <3>2 DEF PostedFits, Unsent
  <2>5. PendingMatchesStatus'
    <3> HIDE DEF i, t
    <3> SUFFICES ASSUME NEW j \in Intent, execTx'[j] \in Tx
                 PROVE  LET booked(k) == <<execTx'[j], k>> \in postings IN
                          /\ (booked("submitted") /\ ~booked("reversal") /\ ~booked("finalized"))
                               <=> status[j] = "submitted"
                          /\ ~(booked("reversal") /\ booked("finalized"))
                          /\ (booked("reversal") \/ booked("finalized")) => booked("submitted")
      BY <2>2 DEF PendingMatchesStatus
    <3>1. CASE j = i
      BY <2>1, <2>2, <2>3, <3>1 DEF Booking
    <3>2. CASE j # i
      BY <2>2, <3>2 DEF BooksInv, PendingMatchesStatus
    <3> QED
      BY <3>1, <3>2
  <2> QED
    BY <2>4, <2>5
<1>6. ASSUME NEW w \in Worker, MarkSubmitted(w) PROVE PostedFits' /\ PendingMatchesStatus'
  <2>0. PICK i \in Intent : i = IntentOf(w)
    BY <1>6, RowInHand DEF MarkSubmitted
  <2>1. CASE UNCHANGED <<execStatus, status, postings>>
    BY <1>2, <1>6, <2>1 DEF MarkSubmitted, records
  <2>2. CASE /\ status[i] = "executing"
             /\ status' = [status EXCEPT ![i] = "submitted"]
             /\ postings' = postings \cup {<<execTx[i], "submitted">>}
    <3>1. execTx[i] \in Tx /\ \A k \in Booking : <<execTx[i], k>> \notin postings
      BY <1>6, <2>0, <2>2, RowInHand DEF MarkSubmitted, BooksInv, PostedFits, Unsent
    <3>2. UNCHANGED <<execTx, owner>>
      BY <1>6 DEF MarkSubmitted, chain
    <3>3. status'[i] = "submitted" /\ \A j \in Intent : j # i => status'[j] = status[j]
      BY <1>1, <2>2
    <3>4. {"submitted"} \in SUBSET Booking
      BY DEF Booking
    <3>5. \A t \in Tx, k \in Booking :
            <<t, k>> \in postings' <=> (<<t, k>> \in postings \/ (t = execTx[i] /\ k \in {"submitted"}))
      BY <2>2
    <3> QED
      BY <1>1, <3>1, <3>2, <3>3, <3>4, <3>5, BooksOne DEF Booking
  <2> QED
    BY <1>6, <2>0, <2>1, <2>2 DEF MarkSubmitted
<1>7. ASSUME NEW w \in Worker, MarkFailed(w) PROVE PostedFits' /\ PendingMatchesStatus'
  <2>0. PICK i \in Intent : i = IntentOf(w)
    BY <1>7, RowInHand DEF MarkFailed
  <2>1. CASE UNCHANGED <<execStatus, status, postings>>
    BY <1>2, <1>7, <2>1 DEF MarkFailed, records
  <2>2. CASE /\ ~Closed(i)
             /\ status' = [status EXCEPT ![i] = "failed"]
             /\ postings' = postings \cup Reversal(i) \cup
                  (IF at[w].pc = "reverse" THEN {<<at[w].tx, "fee">>} ELSE {})
    <3> DEFINE new == IF status[i] = "submitted" THEN {"reversal"} ELSE {}
    <3>1. UNCHANGED <<execTx, owner>>
      BY <1>7 DEF MarkFailed, chain
    <3>2. status'[i] = "failed" /\ \A j \in Intent : j # i => status'[j] = status[j]
      BY <1>1, <2>2
    <3>3. new \in SUBSET Booking
      BY DEF Booking
    <3>4. status[i] = "submitted" => execTx[i] \in Tx
      BY <1>1 DEF TypeInv, TablesOK, SignedHasTx
    <3>5. \A t \in Tx, k \in Booking :
            <<t, k>> \in postings' <=> (<<t, k>> \in postings \/ (t = execTx[i] /\ k \in new))
      BY <2>2 DEF Reversal, Booking
    <3>6. status[i] \in {"approved", "executing", "submitted"}
      BY <1>7, <2>0, <2>2, RowInHand DEF MarkFailed, Closed
    <3>7. LET booked(k) == <<execTx[i], k>> \in postings \/ k \in new IN
            execTx[i] \in Tx =>
              /\ (booked("submitted") /\ ~booked("reversal") /\ ~booked("finalized")) <=> status'[i] = "submitted"
              /\ ~(booked("reversal") /\ booked("finalized"))
              /\ (booked("reversal") \/ booked("finalized")) => booked("submitted")
      <4>1. CASE status[i] = "submitted"
        BY <3>2, <4>1 DEF BooksInv, PendingMatchesStatus
      <4>2. CASE status[i] # "submitted"
        BY <3>2, <3>6, <4>2 DEF BooksInv, PostedFits, Unsent, Booking
      <4> QED
        BY <4>1, <4>2
    <3>8. new # {} => execTx[i] \in Tx
      BY <3>4
    <3> HIDE DEF new
    <3> QED
      BY <1>1, <3>1, <3>2, <3>3, <3>5, <3>7, <3>8, BooksOne
  <2> QED
    BY <1>7, <2>0, <2>1, <2>2 DEF MarkFailed
<1>8. ASSUME NEW w \in Worker, MarkFinalized(w) PROVE PostedFits' /\ PendingMatchesStatus'
  <2>0. PICK i \in Intent : i = IntentOf(w)
    BY <1>8, RowInHand DEF MarkFinalized
  <2>1. CASE status[i] # "submitted"
    <3>1. UNCHANGED <<status, execTx, postings, owner>>
      BY <1>8, <2>0, <2>1 DEF MarkFinalized, chain
    <3> QED
      BY <3>1 DEF BooksInv, PostedFits, PendingMatchesStatus, Unsent
  <2>2. CASE status[i] = "submitted"
    <3>1. PICK s \in {"finalized", "reconciled"} : status' = [status EXCEPT ![i] = s]
      BY <1>8, <2>0, <2>2 DEF MarkFinalized
    <3>2. UNCHANGED <<execTx, owner>> /\ postings' = postings \cup {<<at[w].tx, "finalized">>, <<at[w].tx, "fee">>}
      BY <1>8, <2>0, <2>2 DEF MarkFinalized, chain
    <3>3. execTx[i] = at[w].tx /\ execTx[i] \in Tx
      BY <1>8, <2>0, RowInHand DEF MarkFinalized
    <3>4. status'[i] = s /\ \A j \in Intent : j # i => status'[j] = status[j]
      BY <1>1, <3>1
    <3>5. {"finalized"} \in SUBSET Booking
      BY DEF Booking
    <3>6. \A t \in Tx, k \in Booking :
            <<t, k>> \in postings' <=> (<<t, k>> \in postings \/ (t = execTx[i] /\ k \in {"finalized"}))
      BY <3>2, <3>3 DEF Booking
    <3>7. /\ <<execTx[i], "submitted">> \in postings
          /\ <<execTx[i], "reversal">> \notin postings
      BY <2>2, <3>3 DEF BooksInv, PendingMatchesStatus
    <3> PICK new : new = {"finalized"}
      OBVIOUS
    <3>8. LET booked(k) == <<execTx[i], k>> \in postings \/ k \in new IN
            execTx[i] \in Tx =>
              /\ (booked("submitted") /\ ~booked("reversal") /\ ~booked("finalized")) <=> status'[i] = "submitted"
              /\ ~(booked("reversal") /\ booked("finalized"))
              /\ (booked("reversal") \/ booked("finalized")) => booked("submitted")
      BY <3>4, <3>7
    <3>9. /\ new \in SUBSET Booking
          /\ \A t \in Tx, k \in Booking :
               <<t, k>> \in postings' <=> (<<t, k>> \in postings \/ (t = execTx[i] /\ k \in new))
      BY <3>5, <3>6
    <3>10. status'[i] \in {"submitted", "finalized", "reconciled", "failed"}
      BY <3>4
    <3> QED
      BY ONLY BooksInv, <1>1, <3>2, <3>3, <3>4, <3>8, <3>9, <3>10, BooksOne
  <2> QED
    BY <2>1, <2>2
<1> QED
  BY <1>2, <1>3, <1>4, <1>5, <1>6, <1>7, <1>8, RecordsStep

\* BooksInv holds of every reachable state.
LEMMA BooksHold ==
  ASSUME LeaseOutlastsHandler
  PROVE  Spec => []BooksInv
<1>1. Init => BooksInv
  BY BooksInit
<1>2. BooksInv /\ [Next]_vars => BooksInv'
  BY SafeStep, SentStep, SettledStep, BookStep DEF BooksInv
<1> QED
  BY <1>1, <1>2, PTL DEF Spec

\* pending_outbound is booked when an intent is submitted and released once, by
\* settlement or reversal, however the handlers interleave and crash.
THEOREM PendingIsBooked ==
  ASSUME LeaseOutlastsHandler
  PROVE  Spec => []PendingMatchesStatus
<1>1. BooksInv => PendingMatchesStatus
  BY DEF BooksInv
<1> QED
  BY <1>1, BooksHold, PTL

\* What is recorded as settled is on the chain in a final block, also when nodes
\* lag and blocks are replaced (waitForTransaction, markFinalized).
THEOREM SettledForGood ==
  ASSUME LeaseOutlastsHandler
  PROVE  Spec => []SettledIsFinal
<1>1. BooksInv => SettledIsFinal
  BY DEF BooksInv
<1> QED
  BY <1>1, BooksHold, PTL

-----------------------------------------------------------------------------
(***************************************************************************)
(* The use of the queue.  With one holder per job, a worker that reports   *)
(* or dies finds its job open: nothing reopens a closed one.               *)
(***************************************************************************)
\* An idle worker holds nothing, what a worker holds is open, and a job exists
\* only once its intent got that far.
JobsFit ==
  /\ \A w \in Worker : at[w].pc = "idle" => at[w] = Idle
  /\ \A w \in Worker : at[w].task \in Task => task[at[w].task] = "open"
  /\ \A i \in Intent :
       /\ status[i] = "requested" => task[<<"execute", i>>] = "absent"
       /\ Unsent(i) => task[<<"confirm", i>>] = "absent"

QueueInv == SafeInv /\ JobsFit

\* A worker goes on with the job it has.
GoesOn(w) ==
  \/ at'[w] = at[w]
  \/ at[w].pc # "idle" /\ at'[w].pc # "idle" /\ at'[w].task = at[w].task

\* What a step is to the queue: nothing; a job posted by approval or submission;
\* a job taken; or a job given back, put off, dead-lettered or done.
QueueEffect ==
  \/ UNCHANGED task /\ \A w \in Worker : GoesOn(w)
  \/ \E i \in Intent : Approve(i)
  \/ \E w \in Worker, e \in Task : Take(w, e)
  \/ \E w \in Worker, e \in Task, s \in {"open", "closed", "dead"} :
       at[w].task = e /\ at' = [at EXCEPT ![w] = Idle] /\ task' = [task EXCEPT ![e] = s]
  \/ \E i \in Intent :
       /\ status[i] = "executing" /\ status'[i] = "submitted"
       /\ task' = [task EXCEPT ![<<"confirm", i>>] = "open"]
       /\ \A w \in Worker : GoesOn(w)

\* A worker that has not let go has a job, and it is open.
LEMMA JobInHand ==
  ASSUME QueueInv, NEW w \in Worker, at[w] # Idle
  PROVE  /\ at[w].pc # "idle"
         /\ at[w].task \in Task /\ task[at[w].task] = "open"
         /\ \A v \in Worker : v # w => at[v].task # at[w].task
<1>1. at[w].pc # "idle"
  BY DEF QueueInv, JobsFit
<1>2. at[w].task \in Task
  BY <1>1 DEF QueueInv, SafeInv, TypeInv, WorkersOK, WorkerState, JobFitsPc
<1> QED
  BY <1>1, <1>2 DEF QueueInv, JobsFit, SafeInv, OneHolder

\* Moving within a handler.
LEMMA GotoGoesOn ==
  ASSUME TypeInv, NEW w \in Worker, at[w].pc # "idle",
         \/ \E pc \in Pc \ {"idle"} : Goto(w, pc)
         \/ \E pc \in Pc \ {"idle"}, t \in Tx \cup {NoTx} : GotoWith(w, pc, t)
  PROVE  \A v \in Worker : GoesOn(v)
<1>1. at \in [Worker -> WorkerState]
  BY DEF TypeInv, WorkersOK
<1> QED
  BY <1>1, GotoEffect, GotoWithEffect DEF GoesOn

\* Every step has one of these effects.
LEMMA QueueEffects ==
  ASSUME LeaseOutlastsHandler, QueueInv, [Next]_vars
  PROVE  QueueEffect
<1>1. TypeInv /\ SafeInv
  BY DEF QueueInv, SafeInv
<1>2. task \in [Task -> {"absent", "open", "closed", "dead"}]
  BY <1>1 DEF TypeInv, TablesOK
<1>3. ASSUME NEW w \in Worker, at[w] # Idle, at' = [at EXCEPT ![w] = Idle],
             \/ task' = task
             \/ \E s \in {"open", "closed", "dead"} : task' = [task EXCEPT ![at[w].task] = s]
      PROVE  QueueEffect
  <2>1. PICK e \in Task : e = at[w].task /\ task[e] = "open"
    BY <1>3, JobInHand
  <2>2. task = [task EXCEPT ![e] = "open"]
    BY <1>2, <2>1
  <2> QED
    BY <1>3, <2>1, <2>2 DEF QueueEffect
<1>4. ASSUME NEW w \in Worker, UNCHANGED task, at[w].pc # "idle",
             \/ \E pc \in Pc \ {"idle"} : Goto(w, pc)
             \/ \E pc \in Pc \ {"idle"}, t \in Tx \cup {NoTx} : GotoWith(w, pc, t)
      PROVE  QueueEffect
  BY <1>1, <1>4, GotoGoesOn DEF QueueEffect
<1>5. ASSUME NEW w \in Worker, HandlerError(w) \/ Crash(w) PROVE QueueEffect
  BY <1>3, <1>5 DEF HandlerError, Crash, GiveBack, Defer
<1>6. ASSUME NEW w \in Worker, Complete(w) PROVE QueueEffect
  <2>1. at[w] # Idle /\ at' = [at EXCEPT ![w] = Idle]
    BY <1>6 DEF Complete, Idle
  <2>2. task' = [task EXCEPT ![at[w].task] = "closed"]
    BY <1>6, <2>1, JobInHand DEF Complete
  <2> QED
    BY <1>3, <2>1, <2>2
<1>7. ASSUME NEW w \in Worker, ReadContext(w) PROVE QueueEffect
  <2>1. at[w] # Idle /\ at[w].pc # "idle"
    BY <1>7 DEF ReadContext, Idle
  <2>2. execTx[IntentOf(w)] \in Tx \cup {NoTx}
    BY <1>1, <1>7, InHand DEF ReadContext, TypeInv, TablesOK, ExecutePc
  <2>3. CASE GiveBack(w)
    BY <1>3, <2>1, <2>3 DEF GiveBack
  <2>4. CASE UNCHANGED task /\ Goto(w, "condemn")
    BY <1>4, <2>1, <2>4 DEF Pc, ExecutePc
  <2>5. CASE /\ UNCHANGED task /\ execStatus[IntentOf(w)] \in {"none", "simulated", "signed"}
             /\ GotoWith(w, ResumeAt(IntentOf(w)), execTx[IntentOf(w)])
    <3>1. ResumeAt(IntentOf(w)) \in Pc \ {"idle"}
      BY <2>5 DEF ResumeAt, Pc, ExecutePc
    <3> QED
      BY <1>4, <2>1, <2>2, <2>5, <3>1
  <2> QED
    BY <1>7, <2>3, <2>4, <2>5 DEF ReadContext
<1>8. ASSUME NEW w \in Worker,
             Build(w) \/ RecordSimulation(w) \/ MarkSigned(w) \/ Lookup(w) \/ Judge(w) \/ MarkFailed(w) \/ MarkFinalized(w)
      PROVE  QueueEffect
  <2>1. UNCHANGED task /\ at[w].pc # "idle"
    BY <1>8 DEF Build, RecordSimulation, MarkSigned, Lookup, Judge, MarkFailed, MarkFinalized
  <2>2. \E pc \in Pc \ {"idle"} : Goto(w, pc)
    BY <1>8 DEF Build, RecordSimulation, MarkSigned, Lookup, Judge, MarkFailed, MarkFinalized, Pc, ExecutePc,
      ConfirmPc
  <2> QED
    BY <1>4, <2>1, <2>2
<1>9. ASSUME NEW w \in Worker, Sign(w) PROVE QueueEffect
  <2>1. UNCHANGED task /\ at[w].pc # "idle" /\ \E t \in Tx : GotoWith(w, "persist", t)
    BY <1>9 DEF Sign, SignAs
  <2> QED
    BY <1>4, <2>1 DEF Pc, ExecutePc
<1>10. ASSUME NEW w \in Worker, Broadcast(w) PROVE QueueEffect
  <2>1. at[w] # Idle /\ at[w].pc # "idle"
    BY <1>10 DEF Broadcast, Idle
  <2>2. GiveBack(w) \/ (UNCHANGED task /\ Goto(w, "submit"))
    BY <1>10 DEF Broadcast
  <2> QED
    BY <1>3, <1>4, <2>1, <2>2 DEF GiveBack, Pc, ExecutePc
<1>11. ASSUME NEW w \in Worker, BeginConfirm(w) PROVE QueueEffect
  <2>1. at[w] # Idle /\ at[w].pc # "idle" /\ execTx[IntentOf(w)] \in Tx \cup {NoTx}
    BY <1>1, <1>11, InHand DEF BeginConfirm, Idle, TypeInv, TablesOK, ConfirmPc
  <2>2. GiveBack(w) \/ (UNCHANGED task /\ GotoWith(w, "observe", execTx[IntentOf(w)]))
    BY <1>11 DEF BeginConfirm
  <2> QED
    BY <1>3, <1>4, <2>1, <2>2 DEF GiveBack, Pc, ConfirmPc
<1>12. ASSUME NEW w \in Worker, Observe(w) PROVE QueueEffect
  <2>1. at[w] # Idle /\ at[w].pc # "idle"
    BY <1>12 DEF Observe, Idle
  <2>2. Defer(w) \/ (UNCHANGED task /\ (Goto(w, "settle") \/ Goto(w, "reverse")))
    BY <1>12 DEF Observe
  <2> QED
    BY <1>3, <1>4, <2>1, <2>2 DEF Defer, Pc, ConfirmPc
<1>13. ASSUME NEW w \in Worker, MarkSubmitted(w) PROVE QueueEffect
  <2>1. at[w] # Idle /\ at[w].pc # "idle"
    BY <1>13 DEF MarkSubmitted, Idle
  <2>2. CASE GiveBack(w)
    BY <1>3, <2>1, <2>2 DEF GiveBack
  <2>3. CASE ~GiveBack(w)
    <3>1. PICK i \in Intent : i = IntentOf(w)
      BY <1>1, <1>13, InHand DEF MarkSubmitted, TypeInv, ExecutePc
    <3>2. /\ status[i] = "executing" /\ status' = [status EXCEPT ![i] = "submitted"]
          /\ task' = [task EXCEPT ![<<"confirm", i>>] = "open"]
          /\ Goto(w, "executed")
      BY <1>13, <2>3, <3>1 DEF MarkSubmitted
    <3>3. \A v \in Worker : GoesOn(v)
      BY <1>1, <2>1, <3>2, GotoGoesOn DEF Pc, ExecutePc
    <3>4. status'[i] = "submitted"
      BY <1>1, <3>2 DEF TypeInv, TablesOK
    <3> QED
      BY <3>2, <3>3, <3>4 DEF QueueEffect
  <2> QED
    BY <2>2, <2>3
<1>14. CASE UNCHANGED <<at, task>>
  BY <1>14 DEF QueueEffect, GoesOn
<1>15. \/ \E t \in Tx : ChainStep(t)
       \/ \E i \in Intent : Freeze(i)
       \/ ForeignNonce
       \/ UNCHANGED vars
       => UNCHANGED <<at, task>>
  BY DEF ChainStep, Land, Finalize, Reorg, Evict, Expire, Freeze, ForeignNonce, vars
<1>16. (\E i \in Intent : Approve(i)) \/ (\E w \in Worker, e \in Task : Take(w, e)) => QueueEffect
  BY DEF QueueEffect
<1> QED
  BY <1>5, <1>6, <1>7, <1>8, <1>9, <1>10, <1>11, <1>12, <1>13, <1>14, <1>15, <1>16 DEF Next, WorkerStep

\* No step takes an intent back to an earlier status.
LEMMA StatusGoesOn ==
  ASSUME SafeInv, [Next]_vars, NEW j \in Intent
  PROVE  /\ status'[j] = "requested" => status[j] = "requested"
         /\ Unsent(j)' => Unsent(j)
<1>1. TypeInv /\ status \in [Intent -> IntentStatus]
  BY DEF SafeInv, TypeInv, TablesOK
<1>2. CASE UNCHANGED records
  BY <1>2 DEF records, Unsent
<1>3. ASSUME NEW i \in Intent, Approve(i) PROVE status'[j] # status[j] => status[j] = "requested" /\ status'[j] = "approved"
  BY <1>1, <1>3 DEF Approve
<1>4. ASSUME NEW w \in Worker, RecordSimulation(w) \/ MarkSigned(w)
      PROVE  status'[j] # status[j] => status[j] = "approved" /\ status'[j] = "executing"
  BY <1>1, <1>4 DEF RecordSimulation, MarkSigned
<1>5. ASSUME NEW w \in Worker, MarkSubmitted(w) \/ MarkFailed(w) \/ MarkFinalized(w)
      PROVE  status'[j] = status[j] \/ status'[j] \in {"submitted", "failed", "finalized", "reconciled"}
  BY <1>1, <1>5 DEF MarkSubmitted, MarkFailed, MarkFinalized
<1> QED
  BY <1>2, <1>3, <1>4, <1>5, RecordsStep DEF Unsent

\* No worker has a job and no job exists at first.
LEMMA QueueInit == Init => QueueInv
<1> SUFFICES ASSUME Init PROVE QueueInv
  OBVIOUS
<1>1. SafeInv
  BY SafeInit
<1>2. JobsFit
  BY TaskAssumption, TaskShape DEF Init, Idle, JobsFit
<1> QED
  BY <1>1, <1>2 DEF QueueInv

\* Every step keeps QueueInv: who gives a job back was its only holder.
LEMMA QueueStep ==
  ASSUME LeaseOutlastsHandler
  PROVE  QueueInv /\ [Next]_vars => QueueInv'
<1> SUFFICES ASSUME QueueInv, [Next]_vars PROVE QueueInv'
  OBVIOUS
<1>1. SafeInv /\ SafeInv' /\ TypeInv /\ JobsFit
  BY SafeStep DEF QueueInv, SafeInv
<1>2. at \in [Worker -> WorkerState] /\ task \in [Task -> {"absent", "open", "closed", "dead"}]
  BY <1>1 DEF TypeInv, WorkersOK, TablesOK
<1>3. \A j \in Intent : (status'[j] = "requested" => status[j] = "requested") /\ (Unsent(j)' => Unsent(j))
  BY <1>1, StatusGoesOn
<1>4. ASSUME UNCHANGED task, \A w \in Worker : GoesOn(w) PROVE JobsFit'
  <2>1. \A w \in Worker : at'[w].task = at[w].task /\ (at'[w].pc = "idle" => at'[w] = at[w])
    BY <1>4 DEF GoesOn
  <2> QED
    BY <1>1, <1>3, <1>4, <2>1 DEF JobsFit
<1>5. ASSUME NEW i \in Intent, Approve(i) PROVE JobsFit'
  <2>1. /\ UNCHANGED at /\ status'[i] = "approved"
        /\ \A e \in Task : task'[e] = IF e = <<"execute", i>> THEN "open" ELSE task[e]
    BY <1>1, <1>2, <1>5 DEF Approve, TypeInv, TablesOK
  <2>2. \A j \in Intent : j # i => <<"execute", j>> # <<"execute", i>>
    OBVIOUS
  <2>3. \A j \in Intent : <<"confirm", j>> # <<"execute", i>>
    OBVIOUS
  <2> QED
    BY <1>1, <1>3, <2>1, <2>2, <2>3, TaskShape DEF JobsFit
<1>6. ASSUME NEW w \in Worker, NEW e \in Task, Take(w, e) PROVE JobsFit'
  <2>1. /\ at'[w].pc # "idle" /\ at'[w].task = e /\ \A v \in Worker : v # w => at'[v] = at[v]
        /\ UNCHANGED task /\ task[e] = "open"
    BY <1>2, <1>6, TakeEffect DEF Take, Free
  <2> QED
    BY <1>1, <1>3, <2>1 DEF JobsFit
<1>7. ASSUME NEW w \in Worker, NEW e \in Task, NEW s \in {"open", "closed", "dead"},
             at[w].task = e, at' = [at EXCEPT ![w] = Idle], task' = [task EXCEPT ![e] = s]
      PROVE  JobsFit'
  <2>1. at'[w] = Idle /\ \A v \in Worker : v # w => at'[v] = at[v]
    BY <1>2, <1>7
  <2>2. task[e] = "open" /\ \A v \in Worker : v # w => at[v].task # e
    BY <1>1, <1>7, TaskAssumption DEF JobsFit, Idle, SafeInv, OneHolder
  <2>3. \A f \in Task : f # e => task'[f] = task[f]
    BY <1>2, <1>7
  <2> QED
    BY <1>1, <1>3, <2>1, <2>2, <2>3, TaskAssumption, TaskShape DEF JobsFit, Idle
<1>8. ASSUME NEW i \in Intent, status'[i] = "submitted",
             task' = [task EXCEPT ![<<"confirm", i>>] = "open"], \A w \in Worker : GoesOn(w)
      PROVE  JobsFit'
  <2>1. \A w \in Worker : at'[w].task = at[w].task /\ (at'[w].pc = "idle" => at'[w] = at[w])
    BY <1>8 DEF GoesOn
  <2>2. \A e \in Task : task'[e] = IF e = <<"confirm", i>> THEN "open" ELSE task[e]
    BY <1>2, <1>8
  <2>3. \A j \in Intent : <<"execute", j>> # <<"confirm", i>> /\ (j # i => <<"confirm", j>> # <<"confirm", i>>)
    OBVIOUS
  <2>4. ~Unsent(i)'
    BY <1>8 DEF Unsent
  <2> QED
    BY <1>1, <1>3, <2>1, <2>2, <2>3, <2>4, TaskShape DEF JobsFit
<1> QED
  BY <1>1, <1>4, <1>5, <1>6, <1>7, <1>8, QueueEffects DEF QueueEffect, QueueInv

\* Seen as a TaskPool, every step posts, takes, returns or closes one job, or
\* nothing happens to the queue.
LEMMA PoolStep ==
  ASSUME LeaseOutlastsHandler, QueueInv, [Next]_vars
  PROVE  [Queue!Next]_(Queue!vars)
<1>1. SafeInv /\ TypeInv /\ JobsFit
  BY DEF QueueInv, SafeInv
<1>2. at \in [Worker -> WorkerState] /\ task \in [Task -> {"absent", "open", "closed", "dead"}]
  BY <1>1 DEF TypeInv, WorkersOK, TablesOK
<1> DEFINE Shown == [e \in Task |-> IF task[e] = "dead" THEN "closed" ELSE task[e]]
           Holders == [e \in Task |-> {w \in Worker : at[w].task = e}]
<1>3. CASE UNCHANGED task /\ \A w \in Worker : GoesOn(w)
  <2>1. \A w \in Worker : at'[w].task = at[w].task
    BY <1>3 DEF GoesOn
  <2>2. Holders' = Holders /\ Shown' = Shown
    BY <1>3, <2>1
  <2> QED
    BY <2>2 DEF Queue!vars
<1>4. ASSUME NEW i \in Intent, Approve(i) PROVE Queue!Next
  <2>1. PICK e \in Task : e = <<"execute", i>>
    BY TaskShape
  <2>2. task[e] = "absent" /\ task' = [task EXCEPT ![e] = "open"] /\ at' = at
    BY <1>1, <1>4, <2>1 DEF Approve, JobsFit
  <2>3. Shown[e] = "absent" /\ Shown' = [Shown EXCEPT ![e] = "open"] /\ Holders' = Holders
    BY <1>2, <2>2
  <2>4. Queue!Post(e)
    BY <2>3 DEF Queue!Post
  <2> QED
    BY <2>4 DEF Queue!Next
<1>5. ASSUME NEW w \in Worker, NEW e \in Task, Take(w, e) PROVE Queue!Next
  <2>1. /\ at[w] = Idle /\ task[e] = "open" /\ task' = task /\ \A v \in Worker : at[v].task # e
        /\ at'[w].task = e /\ \A v \in Worker : v # w => at'[v] = at[v]
    BY <1>2, <1>5, TakeEffect DEF Take, Free, Holds
  <2>2. Shown[e] = "open" /\ Shown' = Shown /\ Holders[e] = {}
    BY <2>1
  <2>3. \A f \in Task : w \notin Holders[f]
    BY <2>1, TaskAssumption DEF Idle
  <2>4. Holders' = [Holders EXCEPT ![e] = @ \cup {w}]
    <3>1. \A f \in Task : f # e => Holders'[f] = Holders[f]
      BY <2>1, TaskAssumption DEF Idle
    <3>2. Holders'[e] = Holders[e] \cup {w}
      BY <2>1
    <3> QED
      BY <3>1, <3>2
  <2>5. Queue!Take(w, e)
    BY <2>2, <2>3, <2>4 DEF Queue!Take, Queue!Idle
  <2> QED
    BY <2>5 DEF Queue!Next
<1>6. ASSUME NEW w \in Worker, NEW e \in Task, NEW s \in {"open", "closed", "dead"},
             at[w].task = e, at' = [at EXCEPT ![w] = Idle], task' = [task EXCEPT ![e] = s]
      PROVE  Queue!Next
  <2>1. task[e] = "open" /\ at'[w].task = NoTask /\ \A v \in Worker : v # w => at'[v] = at[v]
    BY <1>1, <1>2, <1>6 DEF JobsFit, Idle
  <2>2. w \in Holders[e] /\ Holders' = [Holders EXCEPT ![e] = @ \ {w}]
    <3>1. \A f \in Task : f # e => Holders'[f] = Holders[f]
      BY <1>6, <2>1, TaskAssumption
    <3>2. w \in Holders[e] /\ Holders'[e] = Holders[e] \ {w}
      BY <1>6, <2>1, TaskAssumption
    <3> QED
      BY <3>1, <3>2
  <2>3. CASE s = "open"
    <3>1. Shown' = Shown
      BY <1>2, <1>6, <2>1, <2>3
    <3>2. Queue!Return(w, e)
      BY <2>2, <3>1 DEF Queue!Return
    <3> QED
      BY <3>2 DEF Queue!Next
  <2>4. CASE s \in {"closed", "dead"}
    <3>1. Shown' = [Shown EXCEPT ![e] = "closed"]
      BY <1>2, <1>6, <2>4
    <3>2. Holders[e] = {w} /\ Holders' = [Holders EXCEPT ![e] = {}]
      <4>1. \A v \in Worker : v # w => at[v].task # e
        BY <1>1, <1>6, TaskAssumption DEF JobsFit, Idle, SafeInv, OneHolder
      <4>2. Holders[e] = {w} /\ Holders[e] \ {w} = {}
        BY <2>2, <4>1
      <4> QED
        BY <2>2, <4>2
    <3>3. Queue!Close(w, e)
      BY <3>1, <3>2 DEF Queue!Close
    <3> QED
      BY <3>3 DEF Queue!Next
  <2> QED
    BY <2>3, <2>4
<1>7. ASSUME NEW i \in Intent, status[i] = "executing",
             task' = [task EXCEPT ![<<"confirm", i>>] = "open"], \A w \in Worker : GoesOn(w)
      PROVE  Queue!Next
  <2>1. PICK e \in Task : e = <<"confirm", i>>
    BY TaskShape
  <2>2. task[e] = "absent" /\ \A w \in Worker : at'[w].task = at[w].task
    BY <1>1, <1>7, <2>1 DEF JobsFit, GoesOn, Unsent
  <2>3. Shown[e] = "absent" /\ Shown' = [Shown EXCEPT ![e] = "open"] /\ Holders' = Holders
    BY <1>2, <1>7, <2>1, <2>2
  <2>4. Queue!Post(e)
    BY <2>3 DEF Queue!Post
  <2> QED
    BY <2>4 DEF Queue!Next
<1> QED
  BY <1>3, <1>4, <1>5, <1>6, <1>7, QueueEffects DEF QueueEffect

\* The handlers use the queue only as TaskPool, which JobQueue implements, allows:
\* a job is posted once and a closed one is never run again.
THEOREM UsesPool ==
  ASSUME LeaseOutlastsHandler
  PROVE  Spec => UsesTaskPool
<1>1. Init => QueueInv
  BY QueueInit
<1>2. QueueInv /\ [Next]_vars => QueueInv'
  BY QueueStep
<1>3. Init => Queue!Init
  BY TaskAssumption DEF Init, Idle, Queue!Init
<1>4. QueueInv /\ [Next]_vars => [Queue!Next]_(Queue!vars)
  BY PoolStep
<1> QED
  BY <1>1, <1>2, <1>3, <1>4, PTL DEF Spec, UsesTaskPool, Queue!Spec

-----------------------------------------------------------------------------
(***************************************************************************)
(* The fate of a payment.  On a chain that shows its mempool, while no     *)
(* gate closes on a signed payment, the node does not deny what the chain  *)
(* has and no block is replaced, what Relay gives up can never land.  The  *)
(* runs PayFreeze, PayLag and PayLapse show that the first three and the   *)
(* lease are needed; a block replaced after a revert brings back what      *)
(* confirm already reversed; and a pending Solana transaction is invisible *)
(* to broadcastStatus and may land before its blockhash is asked for.      *)
(***************************************************************************)
Steady == Family = "evm" /\ ~Freezes /\ ~NodeLags /\ ~Reorgs

\* A transaction that is off the network and can never be admitted again.
Dead(t) == net[t] = "held" /\ Spent(t)

\* Execute gives an intent up only when nothing of it reached the network, or
\* what it signed is dead; confirm only when it reverted.
GivenUpFits ==
  \A w \in Worker :
    /\ at[w].pc = "judge" => net[at[w].tx] = "held"
    /\ at[w].pc = "condemn" => execTx[IntentOf(w)] = NoTx \/ Dead(execTx[IntentOf(w)])
    /\ at[w].pc = "reverse" => net[at[w].tx] = "reverted"

\* What approved and failed intents have on the chain.
FateFits ==
  /\ frozen = {}
  /\ \A i \in Intent : status[i] \in {"requested", "approved"} => execStatus[i] = "none"
  /\ \A i \in Intent : status[i] = "failed" =>
       \/ execTx[i] = NoTx
       \/ Dead(execTx[i])
       \/ net[execTx[i]] = "reverted"

FateInv == BooksInv /\ GivenUpFits /\ FateFits

\* Nothing is given up at first.
LEMMA FateInit == Init => FateInv
<1> SUFFICES ASSUME Init PROVE FateInv
  OBVIOUS
<1>1. BooksInv
  BY BooksInit
<1>2. GivenUpFits /\ FateFits
  BY DEF Init, Idle, GivenUpFits, FateFits
<1> QED
  BY <1>1, <1>2 DEF FateInv

\* Without reorganisations the account's nonce only grows.
LEMMA NonceGrows ==
  ASSUME TypeInv, [Next]_vars, ~Reorgs
  PROVE  accountNonce' >= accountNonce
<1>1. accountNonce \in Nat
  BY DEF TypeInv, ChainOK
<1>2. ASSUME NEW w \in Worker, WorkerStep(w) \/ HandlerError(w) \/ Crash(w) PROVE accountNonce' = accountNonce
  BY <1>2 DEF chain, WorkerStep, HandlerError, Crash, Complete, ReadContext, Build, RecordSimulation, Sign,
    SignAs, MarkSigned, Broadcast, MarkSubmitted, Lookup, Judge, MarkFailed, BeginConfirm, Observe,
    MarkFinalized
<1>3. ASSUME NEW t \in Tx, ChainStep(t) PROVE accountNonce' \in {accountNonce, accountNonce + 1}
  BY <1>3 DEF ChainStep, Land, Finalize, Reorg, Evict, Expire
<1>4. \/ \E i \in Intent : Approve(i) \/ Freeze(i)
      \/ \E w \in Worker, e \in Task : Take(w, e)
      \/ ForeignNonce \/ UNCHANGED vars
      => accountNonce' \in {accountNonce, accountNonce + 1}
  BY DEF Approve, Freeze, Take, ForeignNonce, vars, chain
<1> QED
  BY <1>1, <1>2, <1>3, <1>4 DEF Next

\* The dead stay dead: nodes refuse a spent transaction for ever.
LEMMA DeadStays ==
  ASSUME TypeInv, [Next]_vars, Steady, NEW t \in Tx, Dead(t)
  PROVE  Dead(t)'
<1>1. accountNonce' >= accountNonce /\ accountNonce \in Nat /\ accountNonce' \in Nat /\ nonce[t] \in Nat
  BY NonceGrows, TypeStep, PaymentAssumption DEF Steady, TypeInv, ChainOK
<1>2. net'[t] = "held" /\ nonce'[t] = nonce[t]
  BY NetStep DEF Dead, Steady, Mined
<1> QED
  BY <1>1, <1>2 DEF Dead, Spent, Steady

\* A row gets its transaction from markSigned only.
LEMMA RowFills ==
  ASSUME TypeInv, [Next]_vars, NEW i \in Intent, execTx'[i] # execTx[i]
  PROVE  \E v \in Worker : MarkSigned(v) /\ IntentOf(v) = i
<1>1. \E v \in Worker : MarkSigned(v)
  BY RecordsStep DEF records, Approve, RecordSimulation, MarkSubmitted, MarkFailed, MarkFinalized
<1> QED
  BY <1>1 DEF MarkSigned, TypeInv, TablesOK

\* What a worker relies on when it gives an intent up stays true.
LEMMA GivenUpStep ==
  ASSUME Steady
  PROVE  FateInv /\ SafeInv' /\ [Next]_vars => GivenUpFits'
<1> SUFFICES ASSUME FateInv, SafeInv', [Next]_vars, NEW w \in Worker
             PROVE  /\ at'[w].pc = "judge" => net'[at'[w].tx] = "held"
                    /\ at'[w].pc = "condemn" =>
                         execTx'[IntentOf(w)'] = NoTx \/ Dead(execTx[IntentOf(w)])'
                    /\ at'[w].pc = "reverse" => net'[at'[w].tx] = "reverted"
  BY DEF GivenUpFits
<1>1. SafeInv /\ TypeInv /\ WorkersOK /\ OneHolder /\ BooksInv
  BY DEF FateInv, BooksInv, SafeInv, TypeInv
<1>2. IntentOf(w)' = at'[w].task[2]
  BY DEF IntentOf
<1>3. CASE at'[w] = at[w]
  <2>0. IntentOf(w)' = IntentOf(w)
    BY <1>2, <1>3 DEF IntentOf
  <2>1. ASSUME at[w].pc = "judge" PROVE net'[at[w].tx] = "held"
    <3>1. at[w].tx \in Tx /\ IntentOf(w) \in Intent /\ execTx[IntentOf(w)] = at[w].tx /\ net[at[w].tx] = "held"
      BY <1>1, <2>1, InHand DEF FateInv, GivenUpFits, SafeInv, WorkersFit, RowFits, ExecutePc, HasTxPc
    <3>2. ASSUME NEW v \in Worker, Broadcast(v), at[v].tx = at[w].tx PROVE FALSE
      <4>1. v # w /\ IntentOf(v) \in Intent /\ execTx[IntentOf(v)] = at[w].tx
        BY <1>1, <2>1, <3>2, InHand DEF Broadcast, SafeInv, WorkersFit, RowFits, ExecutePc
      <4>2. IntentOf(v) # IntentOf(w)
        BY <1>1, <2>1, <3>2, <4>1, Apart DEF Broadcast, ExecutePc
      <4> QED
        BY <1>1, <3>1, <4>1, <4>2, OwnRows
    <3> QED
      BY <1>1, <3>1, <3>2, NetStep DEF Steady, Mined
  <2>2. ASSUME at[w].pc = "condemn" PROVE execTx'[IntentOf(w)] = NoTx \/ Dead(execTx[IntentOf(w)])'
    <3>1. IntentOf(w) \in Intent /\ execTx[IntentOf(w)] \in Tx \cup {NoTx}
      BY <1>1, <2>2, RowInHand DEF TypeInv, TablesOK
    <3>2. CASE execTx[IntentOf(w)] = NoTx
      <4>1. ASSUME NEW v \in Worker, MarkSigned(v), IntentOf(v) = IntentOf(w) PROVE FALSE
        BY <1>1, <2>2, <4>1, Apart DEF MarkSigned, ExecutePc
      <4> QED
        BY <1>1, <3>1, <3>2, <4>1, RowFills
    <3>3. CASE execTx[IntentOf(w)] \in Tx
      <4>1. Dead(execTx[IntentOf(w)])
        BY <2>2, <3>3, PaymentAssumption DEF FateInv, GivenUpFits
      <4>2. execTx'[IntentOf(w)] = execTx[IntentOf(w)]
        BY <1>1, <3>1, <3>3, RowStays
      <4>3. PICK t \in Tx : t = execTx[IntentOf(w)]
        BY <3>3
      <4>4. Dead(t)'
        BY <1>1, <4>1, <4>3, DeadStays
      <4> QED
        BY <2>0, <4>2, <4>3, <4>4 DEF Dead, Spent
    <3> QED
      BY <3>1, <3>2, <3>3
  <2>3. ASSUME at[w].pc = "reverse" PROVE net'[at[w].tx] = "reverted"
    <3>1. at[w].tx \in Tx /\ net[at[w].tx] = "reverted"
      BY <1>1, <2>3, InHand DEF FateInv, GivenUpFits, HasTxPc
    <3> QED
      BY <1>1, <3>1, NetStep DEF Steady, Mined
  <2> QED
    BY <1>3, <2>0, <2>1, <2>2, <2>3
<1>4. CASE at'[w] # at[w]
  <2>1. ASSUME at'[w].pc = "judge" PROVE net'[at'[w].tx] = "held"
    <3>1. at[w].pc = "lookup" /\ at'[w].tx = at[w].tx /\ ~Visible(at[w].tx) /\ UNCHANGED net
      BY <1>1, <1>4, <2>1, ArrivesToGiveUp DEF Steady, chain
    <3>2. at[w].tx \in Tx /\ net[at[w].tx] # "blank"
      BY <1>1, <3>1, InHand DEF SafeInv, WorkersFit, RowFits, RowsFit, ExecutePc, HasTxPc
    <3> QED
      BY <1>1, <3>1, <3>2 DEF Visible, Mined, Steady, TypeInv, ChainOK
  <2>2. ASSUME at'[w].pc = "condemn" PROVE execTx'[IntentOf(w)'] = NoTx \/ Dead(execTx[IntentOf(w)])'
    <3>1. UNCHANGED <<records, chain>> /\ IntentOf(w)' = IntentOf(w)
      BY <1>1, <1>4, <2>2, ArrivesToGiveUp DEF IntentOf
    <3>2. execTx[IntentOf(w)] = NoTx \/ Dead(execTx[IntentOf(w)])
      <4>1. CASE /\ at[w].pc = "context"
                 /\ status[IntentOf(w)] = "approved" \/ execStatus[IntentOf(w)] = "none" \/ IntentOf(w) \in frozen
        BY <1>1, <4>1, InHand DEF FateInv, FateFits, SafeInv, RowsFit, ExecutePc
      <4>2. CASE at[w].pc \in {"build", "rebuild"}
        BY <1>1, <4>2, InHand DEF SafeInv, WorkersFit, RowFits, RowsFit, ExecutePc
      <4>3. CASE at[w].pc = "judge" /\ Spent(at[w].tx)
        BY <4>3, <1>1 DEF FateInv, GivenUpFits, Dead, SafeInv, WorkersFit, RowFits
      <4> QED
        BY <1>1, <1>4, <2>2, <4>1, <4>2, <4>3, ArrivesToGiveUp
    <3> QED
      BY <3>1, <3>2 DEF Dead, Spent, records, chain
  <2>3. ASSUME at'[w].pc = "reverse" PROVE net'[at'[w].tx] = "reverted"
    BY <1>1, <1>4, <2>3, ArrivesInConfirm DEF SentPc, chain
  <2> QED
    BY <2>1, <2>2, <2>3
<1> QED
  BY <1>3, <1>4

\* A closed gate, a signature on an unapproved intent, and a failed intent that
\* could still be paid do not come about.
LEMMA FateStep ==
  ASSUME Steady
  PROVE  FateInv /\ SafeInv' /\ [Next]_vars => FateFits'
<1> SUFFICES ASSUME FateInv, SafeInv', [Next]_vars PROVE FateFits'
  OBVIOUS
<1>1. SafeInv /\ TypeInv /\ WorkersOK /\ OneHolder /\ BooksInv
  BY DEF FateInv, BooksInv, SafeInv, TypeInv
<1>t. status \in [Intent -> IntentStatus] /\ execStatus \in [Intent -> ExecStatus]
      /\ execTx \in [Intent -> Tx \cup {NoTx}]
  BY <1>1 DEF TypeInv, TablesOK
<1>2. frozen' = {}
  <2>1. frozen = {}
    BY DEF FateInv, FateFits
  <2>2. ASSUME NEW w \in Worker, WorkerStep(w) \/ HandlerError(w) \/ Crash(w) PROVE UNCHANGED frozen
    BY <2>2 DEF WorkerStep, HandlerError, Crash, Complete, ReadContext, Build, RecordSimulation, Sign,
      SignAs, MarkSigned, Broadcast, MarkSubmitted, Lookup, Judge, MarkFailed, BeginConfirm, Observe,
      MarkFinalized
  <2>3. ASSUME NEW t \in Tx, ChainStep(t) PROVE UNCHANGED frozen
    BY <2>3 DEF ChainStep, Land, Finalize, Reorg, Evict, Expire
  <2> QED
    BY <2>1, <2>2, <2>3 DEF Next, Approve, Freeze, Take, ForeignNonce, vars, Steady
<1>3. ASSUME NEW i \in Intent, status'[i] \in {"requested", "approved"} PROVE execStatus'[i] = "none"
  <2>1. CASE UNCHANGED records
    BY <1>3, <2>1 DEF FateInv, FateFits, records
  <2>2. ASSUME NEW j \in Intent, Approve(j) PROVE execStatus'[i] = "none"
    BY <1>t, <1>3, <2>2 DEF FateInv, FateFits, Approve
  <2>3. ASSUME NEW w \in Worker, IntentOf(w) \in Intent, RecordSimulation(w) PROVE execStatus'[i] = "none"
    BY <1>t, <1>3, <2>3, <1>1 DEF FateInv, FateFits, RecordSimulation, SafeInv, WorkersFit, PhaseFits, UnsentPc
  <2>4. ASSUME NEW w \in Worker, MarkSigned(w) PROVE execStatus'[i] = "none"
    BY <1>t, <1>3, <2>4 DEF FateInv, FateFits, MarkSigned
  <2>5. ASSUME NEW w \in Worker, MarkSubmitted(w) \/ MarkFailed(w) PROVE execStatus'[i] = "none"
    BY <1>t, <1>3, <2>5 DEF FateInv, FateFits, MarkSubmitted, MarkFailed
  <2>6. ASSUME NEW w \in Worker, MarkFinalized(w) PROVE execStatus'[i] = "none"
    BY <1>t, <1>3, <2>6, <1>1 DEF FateInv, FateFits, MarkFinalized
  <2>7. ASSUME NEW w \in Worker, RecordSimulation(w) PROVE IntentOf(w) \in Intent
    BY <1>1, <2>7, InHand DEF RecordSimulation, ExecutePc
  <2> QED
    BY <2>1, <2>2, <2>3, <2>4, <2>5, <2>6, <2>7, RecordsStep
<1>4. ASSUME NEW i \in Intent, status'[i] = "failed"
      PROVE  execTx'[i] = NoTx \/ Dead(execTx[i])' \/ net'[execTx'[i]] = "reverted"
  <2>1. CASE status[i] = "failed"
    <3>1. CASE execTx[i] = NoTx
      <4>1. ASSUME NEW v \in Worker, MarkSigned(v), IntentOf(v) = i PROVE FALSE
        BY <2>1, <4>1, <1>1 DEF MarkSigned, SafeInv, WorkersFit, PhaseFits, UnsentPc
      <4> QED
        BY <1>1, <3>1, <4>1, RowFills
    <3>2. CASE execTx[i] \in Tx
      <4>1. execTx'[i] = execTx[i]
        BY <1>1, <3>2, RowStays
      <4>2. PICK t \in Tx : t = execTx[i]
        BY <3>2
      <4>3. Dead(t) \/ net[t] = "reverted"
        BY <2>1, <4>2, PaymentAssumption DEF FateInv, FateFits
      <4>4. Dead(t)' \/ net'[t] = "reverted"
        BY <1>1, <4>3, DeadStays, NetStep DEF Steady, Mined
      <4> QED
        BY <4>1, <4>2, <4>4 DEF Dead, Spent
    <3> QED
      BY <1>t, <3>1, <3>2
  <2>2. CASE status[i] # "failed"
    <3>1. PICK w \in Worker : MarkFailed(w) /\ UNCHANGED chain
      BY <1>t, <1>4, <2>2, RecordsStep DEF records, Approve, RecordSimulation, MarkSigned, MarkSubmitted, MarkFinalized
    <3>2. i = IntentOf(w) /\ execTx' = execTx /\ at[w].pc \in {"condemn", "reverse"}
      BY <1>t, <1>4, <2>2, <3>1 DEF MarkFailed
    <3>3. execTx[i] = NoTx \/ Dead(execTx[i]) \/ net[execTx[i]] = "reverted"
      BY <1>1, <3>2, RowInHand DEF FateInv, GivenUpFits
    <3> QED
      BY <3>1, <3>2, <3>3 DEF Dead, Spent, chain
  <2> QED
    BY <2>1, <2>2
<1> QED
  BY <1>2, <1>3, <1>4 DEF FateFits

\* Nothing of a failed intent is on the chain or on its way.
LEMMA FateMeans == FateInv => FailedMeansUnpaid
BY PaymentAssumption DEF FateInv, BooksInv, SafeInv, RowsFit, OnNetwork, FateFits, Dead, FailedMeansUnpaid

\* FateInv holds of every reachable state.
LEMMA FateHolds ==
  ASSUME LeaseOutlastsHandler, Steady
  PROVE  Spec => []FateInv
<1>1. Init => FateInv
  BY FateInit
<1>2. FateInv /\ [Next]_vars => FateInv'
  BY SafeStep, SentStep, SettledStep, BookStep, GivenUpStep, FateStep DEF FateInv, BooksInv
<1> QED
  BY <1>1, <1>2, PTL DEF Spec

\* An intent recorded as failed has not moved money and never will (markFailed's
\* callers), whatever crashes, retries and nonces taken by others do.
THEOREM FailedIsUnpaid ==
  ASSUME LeaseOutlastsHandler, Steady
  PROVE  Spec => []FailedMeansUnpaid
<1>1. FateInv => FailedMeansUnpaid
  BY FateMeans
<1> QED
  BY <1>1, FateHolds, PTL

(***************************************************************************)
(* The promise of Payment.                                                 *)
(***************************************************************************)
\* An intent is paid by the transaction its row names, or not at all.
LEMMA PaidByRow ==
  ASSUME SafeInv, NEW i \in Intent
  PROVE  Paid(i) = IF execTx[i] \in Tx /\ net[execTx[i]] = "landed" THEN {execTx[i]} ELSE {}
BY DEF SafeInv, RowsFit, OnNetwork, Paid

\* A step of the chain pays one intent that is owed, or none.
LEMMA PaidStep ==
  ASSUME Steady, FateInv, FateInv', [Next]_vars
  PROVE  \/ \A i \in Intent : Paid(i)' = Paid(i)
         \/ \E i \in Intent, t \in Tx :
              /\ status[i] \in {"approved", "executing", "submitted"}
              /\ Paid(i) = {} /\ Paid(i)' = {t}
              /\ \A j \in Intent : j # i => Paid(j)' = Paid(j)
              /\ UNCHANGED records
<1>1. SafeInv /\ SafeInv' /\ TypeInv /\ TypeInv'
  BY DEF FateInv, BooksInv, SafeInv
<1>2. CASE \E t \in Tx : Land(t) /\ net'[t] = "landed"
  <2>1. PICK t \in Tx : Land(t) /\ net'[t] = "landed"
    BY <1>2
  <2>2. UNCHANGED <<records, owner>> /\ net[t] = "pending" /\ \A u \in Tx : u # t => net'[u] = net[u]
    BY <1>1, <2>1 DEF Land, TypeInv, ChainOK
  <2>3. PICK i \in Intent : owner[t] = i /\ execTx[i] = t
    BY <1>1, <2>2 DEF SafeInv, RowsFit, OnNetwork
  <2>4. Paid(i) = {} /\ Paid(i)' = {t}
    BY <1>1, <2>1, <2>2, <2>3, PaidByRow DEF Paid, SafeInv, RowsFit, OnNetwork
  <2>5. \A j \in Intent : j # i => Paid(j)' = Paid(j)
    BY <2>2, <2>3 DEF Paid
  <2>6. status[i] \in {"approved", "executing", "submitted"}
    <3>1. status[i] # "requested"
      BY <2>3, PaymentAssumption, <1>1 DEF FateInv, FateFits, SafeInv, RowsFit
    <3>2. status[i] # "failed"
      BY <2>2, <2>3, PaymentAssumption DEF FateInv, FateFits, Dead
    <3>3. status[i] \notin {"finalized", "reconciled"}
      BY <2>2, <2>3 DEF FateInv, BooksInv, SettledIsFinal
    <3> QED
      BY <1>1, <3>1, <3>2, <3>3 DEF TypeInv, TablesOK, IntentStatus
  <2> QED
    BY <2>2, <2>4, <2>5, <2>6
<1>3. CASE ~\E t \in Tx : Land(t) /\ net'[t] = "landed"
  <2>1. ASSUME NEW t \in Tx PROVE (net'[t] = "landed" <=> net[t] = "landed") /\ (net[t] = "landed" => owner'[t] = owner[t])
    BY <1>1, <1>3, NetStep DEF Steady, Mined
  <2> QED
    BY <2>1 DEF Paid
<1> QED
  BY <1>2, <1>3

\* Seen as a Payment, every step approves, submits, settles or fails one intent,
\* or pays it, or nothing happens.
LEMMA PromiseStep ==
  ASSUME Steady, FateInv, FateInv', [Next]_vars
  PROVE  [Promise!Next]_(Promise!vars)
<1>1. SafeInv /\ TypeInv /\ BooksInv
  BY DEF FateInv, BooksInv, SafeInv
<1>2. status \in [Intent -> IntentStatus]
  BY <1>1 DEF TypeInv, TablesOK
<1> DEFINE Record == [i \in Intent |-> RecordOf(i)]
           Moved == [i \in Intent |-> Paid(i)]
<1>3. CASE UNCHANGED status
  <2>1. Record' = Record
    BY <1>3 DEF RecordOf
  <2>2. CASE \A i \in Intent : Paid(i)' = Paid(i)
    BY <2>1, <2>2 DEF Promise!vars
  <2>3. ASSUME NEW i \in Intent, NEW t \in Tx,
               status[i] \in {"approved", "executing", "submitted"}, Paid(i) = {}, Paid(i)' = {t},
               \A j \in Intent : j # i => Paid(j)' = Paid(j)
        PROVE  Promise!Next
    <3>1. Record[i] \in {"owed", "submitted"}
      BY <2>3 DEF RecordOf
    <3>2. Moved[i] = {} /\ Moved' = [Moved EXCEPT ![i] = {t}]
      BY <2>3
    <3>3. Promise!Move(i, t)
      BY <2>1, <3>1, <3>2 DEF Promise!Move
    <3> QED
      BY <3>3 DEF Promise!Next
  <2> QED
    BY <2>2, <2>3, PaidStep
<1>4. CASE status' # status
  <2>1. ~UNCHANGED records /\ UNCHANGED chain
    BY <1>4, RecordsStep DEF records
  <2>2. Moved' = Moved
    BY <2>1, PaidStep DEF Paid, chain
  <2>3. ASSUME NEW i \in Intent, NEW s \in IntentStatus, status' = [status EXCEPT ![i] = s]
        PROVE  status'[i] = s /\ Record[i] = RecordOf(i) /\ Record' = [Record EXCEPT ![i] = RecordOf(i)']
    <3>1. status'[i] = s /\ \A j \in Intent : j # i => status'[j] = status[j]
      BY <1>2, <2>3
    <3>2. ASSUME NEW j \in Intent, j # i PROVE RecordOf(j)' = RecordOf(j)
      <4>1. status'[j] = status[j]
        BY <3>1, <3>2
      <4> QED
        BY <4>1 DEF RecordOf
    <3> QED
      BY <3>1, <3>2
  <2>4. ASSUME NEW i \in Intent, Approve(i) PROVE Promise!Next
    <3>1. Record[i] = "requested" /\ Record' = [Record EXCEPT ![i] = "owed"]
      BY <2>3, <2>4 DEF Approve, RecordOf, IntentStatus
    <3>2. Promise!Approve(i)
      BY <2>2, <3>1 DEF Promise!Approve
    <3> QED
      BY <3>2 DEF Promise!Next
  <2>5. ASSUME NEW w \in Worker, RecordSimulation(w) PROVE UNCHANGED Promise!vars
    <3>1. status' = [status EXCEPT ![IntentOf(w)] = IF @ = "approved" THEN "executing" ELSE @]
      BY <2>5 DEF RecordSimulation
    <3>2. \A j \in Intent : status'[j] = status[j] \/ (status[j] = "approved" /\ status'[j] = "executing")
      BY <1>2, <3>1
    <3>3. ASSUME NEW j \in Intent PROVE RecordOf(j)' = RecordOf(j)
      <4>1. status'[j] = status[j] \/ (status[j] = "approved" /\ status'[j] = "executing")
        BY <3>2
      <4> QED
        BY <4>1 DEF RecordOf
    <3>4. Record' = Record
      BY <3>3
    <3> QED
      BY <2>2, <3>4 DEF Promise!vars
  <2>6. ASSUME NEW w \in Worker, MarkSubmitted(w) PROVE Promise!Next
    <3>1. PICK i \in Intent : i = IntentOf(w)
      BY <1>1, <2>6, RowInHand DEF MarkSubmitted
    <3>2. status[i] = "executing" /\ status' = [status EXCEPT ![i] = "submitted"]
      BY <1>4, <2>6, <3>1 DEF MarkSubmitted
    <3>3. Record[i] = "owed" /\ Record' = [Record EXCEPT ![i] = "submitted"]
      BY <2>3, <3>2 DEF RecordOf, IntentStatus
    <3>4. Promise!Submit(i)
      BY <2>2, <3>3 DEF Promise!Submit
    <3> QED
      BY <3>4 DEF Promise!Next
  <2>7. ASSUME NEW w \in Worker, MarkFailed(w) PROVE Promise!Next
    <3>1. PICK i \in Intent : i = IntentOf(w)
      BY <1>1, <2>7, RowInHand DEF MarkFailed
    <3>2. ~Closed(i) /\ status' = [status EXCEPT ![i] = "failed"]
      BY <1>4, <2>7, <3>1 DEF MarkFailed
    <3>3. status[i] \in {"approved", "executing", "submitted"}
      BY <1>1, <2>7, <3>1, <3>2, RowInHand DEF MarkFailed, Closed
    <3>4. Record[i] \in {"owed", "submitted"} /\ Record' = [Record EXCEPT ![i] = "failed"]
      BY <2>3, <3>2, <3>3 DEF RecordOf, IntentStatus
    <3>5. Moved[i] = {}
      <4>1. execTx[i] = NoTx \/ Dead(execTx[i]) \/ net[execTx[i]] = "reverted"
        BY <1>1, <2>7, <3>1, RowInHand DEF MarkFailed, FateInv, GivenUpFits
      <4> QED
        BY <1>1, <4>1, PaidByRow, PaymentAssumption DEF Dead
    <3>6. Promise!Fail(i)
      BY <2>2, <3>4, <3>5 DEF Promise!Fail
    <3> QED
      BY <3>6 DEF Promise!Next
  <2>8. ASSUME NEW w \in Worker, MarkFinalized(w) PROVE Promise!Next
    <3>1. PICK i \in Intent : i = IntentOf(w)
      BY <1>1, <2>8, RowInHand DEF MarkFinalized
    <3>2. PICK s \in {"finalized", "reconciled"} : status' = [status EXCEPT ![i] = s]
      BY <1>4, <2>8, <3>1 DEF MarkFinalized
    <3>3. status[i] = "submitted"
      BY <1>4, <2>8, <3>1 DEF MarkFinalized
    <3>4. Record[i] = "submitted" /\ Record' = [Record EXCEPT ![i] = "settled"]
      BY <2>3, <3>2, <3>3 DEF RecordOf, IntentStatus
    <3>5. execTx[i] \in Tx /\ net[execTx[i]] = "landed"
      BY <1>1, <2>8, <3>1, RowInHand DEF MarkFinalized, BooksInv, SentFits
    <3>6. Moved[i] # {}
      BY <1>1, <3>5, PaidByRow
    <3>7. Promise!Settle(i)
      BY <2>2, <3>4, <3>6 DEF Promise!Settle
    <3> QED
      BY <3>7 DEF Promise!Next
  <2>9. ASSUME NEW w \in Worker, MarkSigned(w) PROVE FALSE
    BY <1>4, <2>9 DEF MarkSigned
  <2> QED
    BY <2>1, <2>4, <2>5, <2>6, <2>7, <2>8, <2>9, RecordsStep
<1> QED
  BY <1>3, <1>4

\* Workers, signatures, nonces, mempools and crashes implement the promise of one
\* payment: money moves at most once, and "failed" and "settled" mean what they say.
THEOREM PaysAsPromised ==
  ASSUME LeaseOutlastsHandler, Steady
  PROVE  Spec => ImplementsPayment
<1>1. Init => Promise!Init
  BY PaymentAssumption DEF Init, Promise!Init, RecordOf, Paid
<1>2. FateInv /\ FateInv' /\ [Next]_vars => [Promise!Next]_(Promise!vars)
  BY PromiseStep
<1> QED
  BY <1>1, <1>2, FateHolds, PTL DEF Spec, ImplementsPayment, Promise!Spec
=============================================================================
